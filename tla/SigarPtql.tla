------------------------------ MODULE SigarPtql ------------------------------
(***************************************************************************)
(* The process query engine of sigar_ptql.c, in its build for Unix: a      *)
(* query text is parsed clause by clause into branches, the branches are   *)
(* sorted, and find evaluates them process by process while processes      *)
(* come, go and change.  A clause is its four parts; a process has one     *)
(* number, one string and one list of strings, which stand for all its     *)
(* attributes of these types.  What C leaves undefined may go either way.  *)
(***************************************************************************)
EXTENDS SigarText, FiniteSets

CONSTANTS
  Pid,         \* process ids, a set of positive integers
  Hosts,       \* what a query may meet: see Host
  Private,     \* methods that fail for processes of other users
  ReImpl,      \* whether a regular expression callback is set
  PTQL_BRANCH_LIST_MAX

VARIABLES
  host,                 \* the platform and its clients: an index of Hosts
  proc,                 \* pid -> process
  os,                   \* content of the pid file, owners of the ports
  changes,              \* kernel steps so far
  text,                 \* the text being parsed, or of the query
  branches, size,       \* query->branches
  pc,                   \* where the call in progress is
  shared,               \* sigar->pids
  own, pids,            \* *proclist is a list of its own, and that list
  i, j,                 \* loop indices: branch, process
  match_pid,            \* of ptql_pid_list_get
  parent,               \* state.ppid of query_match, or NoPid
  out,                  \* the processes accepted so far
  res,                  \* what the last find returned
  view, touched, lost   \* ghosts: see the end

kernel == <<host, proc, os, changes>>
queryVars == <<text, branches, size, lost>>
findVars == <<shared, own, pids, i, j, match_pid, parent, out, res, view>>
vars == <<kernel, queryVars, findVars, pc, touched>>

\* texts: the queries that are asked; procs, os: what a process, and the pid
\* file and the port owners, can be; pids: the processes there may be;
\* notImpl: the methods the platform does not implement; listFails: whether
\* reading the process list can fail; changes: how often the kernel changes
\* anything, which bounds the model.
Host == Hosts[host]

\* A clause of a text: an attribute of a method, its modifiers, an operator and
\* a value, which is a literal, $n, $NAME set or not, or $$.  Each part may be
\* empty, or NoPart when the separator that ends it is missing.
NoPart == "."
IsClause(c) ==
  /\ c = [name |-> c.name, attr |-> c.attr, mods |-> c.mods, op |-> c.op, val |-> c.val]
  /\ c.val \in [kind : {"lit", "ref", "env", "unset", "self"}, str : Seq(Int), num : Int]
IsText(t) == t \in Seq({t[n] : n \in DOMAIN t}) /\ \A n \in 1..Len(t) : IsClause(t[n])

ASSUME PtqlAssumption ==
  /\ Pid \subseteq Nat \ {0} /\ IsFiniteSet(Pid) /\ PTQL_BRANCH_LIST_MAX \in Nat \ {0}
  /\ \A h \in DOMAIN Hosts : /\ \A t \in Hosts[h].texts : IsText(t)
                             /\ Hosts[h].pids \subseteq Pid /\ Hosts[h].changes \in Nat

NoPid == -1
NoProc == [ppid |-> NoPid, num |-> 0, str |-> << >>, list |-> << >>, mine |-> FALSE]

NumOps == {"EQ", "NE", "GT", "GE", "LT", "LE"}
StrOnly == {"EW", "SW", "RE", "CT"}
Types == <<"UI64", "UI32", "DBL", "CHR", "STR", "ANY">>
Rank(t) == CHOOSE k \in 1..6 : Types[k] = t

PTQL_Time == [StartTime |-> "UI64", User |-> "UI64", Sys |-> "UI64", Total |-> "UI64"]

PTQL_State == [State |-> "CHR", Name |-> "STR", Ppid |-> "UI32", Tty |-> "UI32", Nice |-> "UI32",
               Priority |-> "UI32", Threads |-> "UI64", Processor |-> "UI32"]

\* The methods with attributes read into a structure, and their types.
ptql_map ==
  [Time     |-> PTQL_Time,
   Cpu      |-> [StartTime |-> "UI64", User |-> "UI64", Sys |-> "UI64", Total |-> "UI64",
                 Percent |-> "DBL"],
   CredName |-> [User |-> "STR", Group |-> "STR"],
   Mem      |-> [Size |-> "UI64", Resident |-> "UI64", Share |-> "UI64",
                 MinorFaults |-> "UI64", MajorFaults |-> "UI64", PageFaults |-> "UI64"],
   Exe      |-> [Name |-> "STR", Cwd |-> "STR"],
   Cred     |-> [Uid |-> "UI32", Gid |-> "UI32", Euid |-> "UI32", Egid |-> "UI32"],
   State    |-> PTQL_State,
   Fd       |-> [Total |-> "UI64"],
   Disk_IO  |-> [BytesRead |-> "UI64", BytesWritten |-> "UI64", BytesTotal |-> "UI64"]]

\* The methods of type ANY, which do their own matching.
AnyMethods == {"Args", "Modules", "Env", "Port", "Pid", "Service"}

\* Where a union holds nothing, a scalar, or a pointer to memory of its own.
Union(k, n, s) == [kind |-> k, num |-> n, str |-> s]
Null == Union("null", 0, << >>)
Scalar(n) == Union("num", n, << >>)
Block(s) == Union("block", 0, s)

\* strtoul and the like: numbers are one digit long.
IsNum(s) == Len(s) = 1 /\ s[1] \in 0..9
\* strtol of an attribute: "*" is not converted, and "x" is not a number.
AttrNum(a) == CASE a = "0" -> 0 [] a = "1" -> 1 [] a = "-1" -> -1

SelfPid == CHOOSE p \in Pid : \A q \in Pid : p <= q

-----------------------------------------------------------------------------
(* Parsing.                                                                *)

\* ptql_branch_parse: the parts are there, something follows the second dot and
\* the modifiers are known; Pid.Service is Service.Name.
ParseOK(c) ==
  /\ NoPart \notin {c.name, c.attr, c.op} /\ (c.op # "" \/ c.mods # {})
  /\ c.mods \subseteq {"PARENT", "ICASE"}
ptql_branch_parse(c) ==
  IF c.attr = "Service" THEN [c EXCEPT !.name = "Service", !.attr = "Name"] ELSE c

Ok(b) == [ok |-> TRUE, b |-> b]
Fail(b) == [ok |-> FALSE, b |-> b]

ptql_args_branch_init(c, b) ==
  IF c.attr = "*" THEN Ok([b EXCEPT !.op_flags = @ \cup {"GLOB"}])
  ELSE IF c.attr \in {"0", "1", "-1"} THEN Ok([b EXCEPT !.data = Scalar(AttrNum(c.attr))])
  ELSE Fail(b)

\* Of a text kept as data only the length matters: that of an attribute may be
\* 0, and so may that of a value unless it starts with '$'.
AttrText(c) == IF c.attr = "" THEN << >> ELSE <<1>>
ValueText(c) == IF c.val.kind = "lit" THEN c.val.str ELSE <<1>>

ptql_branch_init_any(c, b) ==
  Ok([b EXCEPT !.data = Block(AttrText(c)), !.data_size = Len(AttrText(c))])

ptql_branch_init_port(c, b) ==
  LET d == [b EXCEPT !.flags = "TCP_PORT", !.op_flags = @ \cup {"PID"}] IN
  IF c.op # "EQ" THEN Fail(b)
  ELSE IF c.attr \notin {"tcp", "udp"} THEN Fail(b)
  ELSE IF c.val.kind = "lit" /\ IsNum(c.val.str) THEN Ok([d EXCEPT !.data = Scalar(c.val.str[1])])
  ELSE Fail(d)

ptql_branch_init_pid(c, b) ==
  LET d == [b EXCEPT !.op_flags = @ \cup {"PID"}] IN
  IF c.attr = "Pid"
  THEN LET e == [d EXCEPT !.flags = "PID"] IN
       IF c.val.kind = "self" THEN Ok([e EXCEPT !.data = Scalar(SelfPid)])
       ELSE IF c.val.kind = "lit" /\ IsNum(c.val.str) THEN Ok([e EXCEPT !.data = Scalar(c.val.str[1])])
       ELSE Fail(e)
  ELSE IF c.attr \in {"PidFile", "SudoPidFile"}
  THEN Ok([d EXCEPT !.flags = IF c.attr = "PidFile" THEN "FILE" ELSE "SUDO_FILE",
                    !.data = Block(ValueText(c)), !.data_size = Len(ValueText(c))])
  ELSE Fail(d)

ptql_branch_init_service(c, b) ==
  LET d == [b EXCEPT !.op_flags = @ \cup {"PID"}] IN
  IF c.attr \in {"Name", "DisplayName", "Path", "Exe", "Pid"}
  THEN Ok([d EXCEPT !.flags = IF c.attr = "Name" THEN "SERVICE_NAME" ELSE "SERVICE"])
  ELSE Fail(d)

\* lookup->init(parsed, branch, error)
Init_(c, b) ==
  CASE c.name \in {"Args", "Modules"} -> ptql_args_branch_init(c, b)
    [] c.name = "Env"     -> ptql_branch_init_any(c, b)
    [] c.name = "Port"    -> ptql_branch_init_port(c, b)
    [] c.name = "Pid"     -> ptql_branch_init_pid(c, b)
    [] c.name = "Service" -> ptql_branch_init_service(c, b)
    [] OTHER              -> Ok(b)

\* A value that starts with '$': a reference to clause n, or the
\* environment.  number counts the branch itself.
DollarValue(c, b, number) ==
  LET r == [b EXCEPT !.op_flags = @ \cup {"REF"}, !.value = Scalar(c.val.num - 1)] IN
  IF c.op = "RE" THEN Fail(b)
  ELSE CASE c.val.kind = "ref" -> IF c.val.num - 1 \in 0..number - 2 THEN Ok(r) ELSE Fail(r)
         [] c.val.kind = "env" -> Ok([b EXCEPT !.value = Block(c.val.str)])
         [] OTHER              -> Ok([b EXCEPT !.value = Null])

\* The switch on lookup->type, for a value that is not set yet.
PlainValue(c, b, type) ==
  CASE type \in {"UI64", "UI32", "DBL"} ->
         IF IsNum(c.val.str) THEN Ok([b EXCEPT !.value = Scalar(c.val.str[1])]) ELSE Fail(b)
    [] type = "CHR" ->
         IF Len(c.val.str) = 1 THEN Ok([b EXCEPT !.value = Scalar(c.val.str[1])]) ELSE Fail(b)
    [] OTHER -> Ok([b EXCEPT !.value = Block(c.val.str)])

\* ptql_branch_add: the new branch, complete or as far as it got.
ptql_branch_add(c, number) ==
  LET new  == [type |-> "none", name |-> c.name, attr |-> c.attr, flags |-> "PID",
               op_flags |-> c.mods, op |-> c.op, data |-> Null, data_size |-> 0,
               value |-> Null, pos |-> number]
      std  == c.name \in DOMAIN ptql_map
      type == IF std THEN ptql_map[c.name][c.attr] ELSE "ANY"
      init == Init_(c, new)
      b    == [init.b EXCEPT !.type = type]
  IN  IF \/ c.op \notin NumOps \cup StrOnly
         \/ c.name \notin DOMAIN ptql_map \cup AnyMethods
         \/ std /\ c.attr \notin DOMAIN ptql_map[c.name]
      THEN Fail(new)
      ELSE IF ~init.ok THEN init
      ELSE IF std /\ type # "STR" /\ c.op \in StrOnly THEN Fail(b)
      ELSE IF c.val.kind # "lit" THEN DollarValue(c, b, number)
      ELSE PlainValue(c, b, type)

-----------------------------------------------------------------------------
(* Destroying: which of the two unions are taken to hold memory.           *)

NonNull(u) == u.kind = "block" \/ u.num # 0

\* Mutant: the terminator is counted in data_size.
FreesDataLong(b) == b.data_size > 1 /\ NonNull(b.data)

FreesData(b) == b.data_size > 0 /\ NonNull(b.data)

\* Mutant: a reference is not recognised.
FreesValueAll(b) == b.type \in {"STR", "ANY"} /\ NonNull(b.value)

FreesValue(b) == b.type \in {"STR", "ANY"} /\ "REF" \notin b.op_flags /\ NonNull(b.value)

Leaks(b) == (IF b.data.kind = "block" /\ ~FreesData(b) THEN 1 ELSE 0)
              + (IF b.value.kind = "block" /\ ~FreesValue(b) THEN 1 ELSE 0)

\* ptql_branch_list_destroy: the blocks it forgets.
Forgotten(bs) ==
  LET sum[k \in 0..Len(bs)] == IF k = 0 THEN 0 ELSE sum[k - 1] + Leaks(bs[k]) IN sum[Len(bs)]

-----------------------------------------------------------------------------
(* Matching one branch: the answers it can give.                           *)

Gone(p) == p \notin Pid \/ proc[p] = NoProc

\* The status of sigar_proc_<method>_get(sigar, p, ...).
Status(name, p) ==
  CASE name \in Host.notImpl -> "ENOTIMPL"
    [] name \notin Host.notImpl /\ Gone(p) -> "ESRCH"
    [] name \notin Host.notImpl /\ ~Gone(p) /\ name \in Private /\ ~proc[p].mine -> "EACCES"
    [] OTHER -> "OK"

\* ptql_op_ui64, _ui32, _dbl and _chr: the first six operators only.
ptql_op_num(op, h, n) ==
  CASE op = "EQ" -> h = n  [] op = "NE" -> h # n
    [] op = "GT" -> h > n  [] op = "GE" -> h >= n
    [] op = "LT" -> h < n  [] op = "LE" -> h <= n

Holds(b, h, n) ==
  IF b.type \in {"STR", "ANY"} THEN ptql_op_str(b.op, "ICASE" \in b.op_flags, h.str, n.str)
  ELSE ptql_op_num(b.op, h.num, n.num)

\* ptql_str_match: a number in value.str is a wild pointer, unless it is 0.
ptql_str_match(b, s) ==
  IF ~NonNull(b.value) THEN {FALSE}
  ELSE IF b.op = "RE" THEN {ReImpl /\ ptql_op_str("CT", FALSE, s, b.value.str)}
  ELSE IF b.value.kind = "num" THEN BOOLEAN
  ELSE {ptql_op_str(b.op, "ICASE" \in b.op_flags, s, b.value.str)}

\* The strings that ptql_args_match, ptql_modules_match and ptql_env_match
\* compare: none when the getter fails, nor for a Pid clause.
Candidates(b, p) ==
  LET list == proc[p].list
      k == IF b.name = "Args" /\ b.data.num < 0 THEN b.data.num + Len(list) ELSE b.data.num
  IN  IF "PID" \in b.op_flags \/ Status(b.name, p) # "OK" THEN {}
      ELSE IF b.name = "Env" THEN (IF b.attr = "HOME" THEN {proc[p].str} ELSE {})
      ELSE IF "GLOB" \in b.op_flags THEN {list[n] : n \in 1..Len(list)}
      ELSE IF k \in 0..Len(list) - 1 THEN {list[k + 1]} ELSE {}

\* lookup->get of a method of type ANY; ptql_pid_match always agrees.
AnyMatch(b, p) ==
  LET cand == Candidates(b, p) IN
  IF "PID" \in b.op_flags THEN {TRUE}
  ELSE {m \in BOOLEAN : IF m THEN \E s \in cand : TRUE \in ptql_str_match(b, s)
                        ELSE \A s \in cand : FALSE \in ptql_str_match(b, s)}

\* ptql_branch_match_ref reads the other branch as its own type.
ptql_branch_match_ref(b, ref) ==
  IF ref.type = b.type /\ ref.data.kind = "block" THEN {Holds(b, b.data, ref.data)} ELSE BOOLEAN

ptql_branch_match(b) ==
  IF b.type = "STR" THEN ptql_str_match(b, b.data.str)
  ELSE IF b.value.kind = "block" THEN BOOLEAN ELSE {Holds(b, b.data, b.value)}

\* What the getter writes to the buffer of the branch.
Read(b, p) == [kind |-> "block", num |-> IF b.attr = "Ppid" THEN proc[p].ppid ELSE proc[p].num,
               str |-> proc[p].str]

-----------------------------------------------------------------------------
(* Queries.                                                                *)

NoRes == [status |-> "none", list |-> << >>, pid |-> NoPid]

Init ==
  /\ host \in DOMAIN Hosts
  /\ proc \in [Pid -> Host.procs \cup {NoProc}] /\ \A p \in Pid \ Host.pids : proc[p] = NoProc
  /\ os \in Host.os /\ changes = 0
  /\ text = << >> /\ branches = << >> /\ size = 0 /\ lost = 0
  /\ pc = "idle"
  /\ shared = << >> /\ own = FALSE /\ pids = << >> /\ i = 0 /\ j = 0
  /\ match_pid = NoPid /\ parent = NoPid /\ out = << >> /\ res = NoRes
  /\ view = << >> /\ touched = {}

sigar_ptql_query_create(t) ==
  /\ pc = "idle"
  /\ text' = t /\ branches' = << >> /\ size' = PTQL_BRANCH_LIST_MAX /\ lost' = 0
  /\ pc' = "create"
  /\ UNCHANGED <<kernel, findVars, touched>>

\* Mutant: a full list is taken to have room for one more.
GrownLate(n) == IF n > size THEN size + PTQL_BRANCH_LIST_MAX ELSE size

\* PTQL_BRANCH_LIST_GROW with n branches in the list.
Grown(n) == IF n >= size THEN size + PTQL_BRANCH_LIST_MAX ELSE size

\* Mutant: queries with references are sorted too.
SortedAlways(bs) ==
  LET n == Len(bs) IN
  {[k \in 1..n |-> bs[p[k]]] :
     p \in {f \in [1..n -> 1..n] : /\ \A a, b \in 1..n : a # b => f[a] # f[b]
                                  /\ \A a \in 1..n - 1 : Rank(bs[f[a]].type) <= Rank(bs[f[a + 1]].type)}}

\* qsort by ptql_branch_compare, unless a branch is a reference.  The order
\* of equal branches is not defined.
Sorted(bs) ==
  LET n == Len(bs) IN
  IF \E k \in 1..n : "REF" \in bs[k].op_flags THEN {bs}
  ELSE {[k \in 1..n |-> bs[p[k]]] :
          p \in {f \in [1..n -> 1..n] : /\ \A a, b \in 1..n : a # b => f[a] # f[b]
                                       /\ \A a \in 1..n - 1 : Rank(bs[f[a]].type) <= Rank(bs[f[a + 1]].type)}}

\* One round of the loop of query_create; the last one sorts.
AddBranch ==
  /\ pc = "create"
  /\ LET n == Len(branches) + 1
         r == ptql_branch_add(ptql_branch_parse(text[n]), n)
     IN  IF text = << >> \/ ~ParseOK(text[n])
         THEN pc' = "failed" /\ UNCHANGED <<branches, size>>
         ELSE /\ size' = Grown(n - 1)
              /\ IF ~r.ok THEN branches' = Append(branches, r.b) /\ pc' = "failed"
                 ELSE IF n < Len(text) THEN branches' = Append(branches, r.b) /\ pc' = "create"
                 ELSE branches' \in Sorted(Append(branches, r.b)) /\ pc' = "ready"
  /\ UNCHANGED <<kernel, findVars, text, lost, touched>>

\* Called by the owner of the query, and by query_create when it fails.
sigar_ptql_query_destroy ==
  /\ pc \in {"ready", "failed"}
  /\ lost' = Forgotten(branches)
  /\ text' = << >> /\ branches' = << >> /\ size' = 0 /\ pc' = "idle" /\ res' = NoRes
  /\ UNCHANGED <<kernel, shared, own, pids, i, j, match_pid, parent, out, view, touched>>

-----------------------------------------------------------------------------
(* sigar_ptql_query_find, and find_process, which walks the same list.     *)

Ascending(S) == CHOOSE s \in [1..Cardinality(S) -> S] : \A a, b \in DOMAIN s : a < b => s[a] < s[b]
Live == Ascending({p \in Pid : ~Gone(p)})

\* The end of both functions: find_process succeeds with a single match.
Return(status, list) ==
  /\ res' = [status |-> status, list |-> IF status = "OK" THEN list ELSE << >>,
             pid |-> IF status = "OK" /\ Len(list) = 1 THEN list[1] ELSE NoPid]
  /\ pc' = "ready" /\ own' = FALSE /\ pids' = << >> /\ out' = << >> /\ parent' = NoPid
  /\ i' = 0 /\ j' = 0 /\ match_pid' = NoPid

FindBegin ==
  /\ pc = "ready" /\ pc' = "filter" /\ i' = 1 /\ touched' = {} /\ res' = NoRes
  /\ view' = << >>
  /\ UNCHANGED <<kernel, queryVars, shared, own, pids, j, match_pid, parent, out>>

\* ptql_pid_get: a pid, or NoPid for a failure.  A pid file without a number
\* reads as 0, for strtoul does not set errno; so does a port nobody owns.
ptql_pid_get(b) ==
  CASE b.flags \in {"FILE", "SUDO_FILE"} -> os.pidfile
    [] b.flags = "SERVICE_NAME" -> NoPid
    [] b.flags = "TCP_PORT" -> os.tcp
    [] b.flags = "UDP_PORT" -> os.udp
    [] OTHER -> b.data.num

\* One round of the loop of ptql_proc_list_get, to the point where
\* ptql_pid_list_get has the pid to compare with.
FilterStep ==
  /\ pc = "filter" /\ i <= Len(branches)
  /\ LET b == branches[i]
         pid == ptql_pid_get(b)
         none == \/ b.flags = "SERVICE" \/ pid = NoPid
                 \/ b.flags = "SERVICE_NAME" /\ b.op # "EQ"
     IN  /\ own' = (own \/ "PID" \in b.op_flags)
         /\ IF "PID" \notin b.op_flags \/ none
            THEN i' = i + 1 /\ UNCHANGED <<pc, match_pid>>
            ELSE pc' = "list" /\ match_pid' = pid /\ UNCHANGED i
  /\ UNCHANGED <<kernel, queryVars, shared, pids, j, parent, out, res, view, touched>>

\* pid_branch_match; operators beyond the sixth are past the end of the table.
PidMatches(b, p) == IF b.op \in NumOps THEN {ptql_op_num(b.op, p, match_pid)} ELSE BOOLEAN

\* The rest of ptql_pid_list_get.
ListStep ==
  /\ pc = "list"
  /\ \/ /\ Host.listFails
        /\ Return("ERROR", << >>) /\ shared' = << >> /\ UNCHANGED <<view>>
     \/ /\ shared' = Live
        /\ \E keep \in SUBSET {p \in Pid : TRUE \in PidMatches(branches[i], p)} :
             /\ \A p \in Pid : FALSE \notin PidMatches(branches[i], p) => p \in keep
             /\ pids' = pids \o Ascending({p \in keep : ~Gone(p)})
        /\ i' = i + 1 /\ pc' = "filter" /\ match_pid' = NoPid
        /\ UNCHANGED <<own, j, parent, out, res, view>>
  /\ UNCHANGED <<kernel, queryVars, touched>>

\* The end of ptql_proc_list_get: without a Pid clause, the list is sigar->pids.
FilterEnd ==
  /\ pc = "filter" /\ i > Len(branches)
  /\ \/ /\ Host.listFails /\ ~own
        /\ Return("ERROR", << >>) /\ shared' = << >> /\ UNCHANGED view
     \/ /\ shared' = IF own THEN shared ELSE Live
        /\ pc' = "match" /\ i' = 1 /\ j' = 1
        /\ UNCHANGED <<own, pids, match_pid, parent, out, res, view>>
  /\ UNCHANGED <<kernel, queryVars, touched>>

List == IF own THEN pids ELSE shared

\* Mutant: a process that cannot be read ends the search.
NextProcBreaks(status) ==
  IF status # "no match" THEN Return(IF status = "ENOTIMPL" THEN status ELSE "OK", out)
  ELSE /\ j' = j + 1 /\ i' = 1 /\ parent' = NoPid
       /\ UNCHANGED <<pc, own, pids, match_pid, out, res>>

\* query_match is over with this status for process j.
NextProc(status) ==
  IF status = "ENOTIMPL" THEN Return(status, << >>)
  ELSE /\ j' = j + 1 /\ i' = 1 /\ parent' = NoPid
       /\ UNCHANGED <<pc, own, pids, match_pid, out, res>>

\* Branch i gave the answer m; after the last branch the process is accepted.
Answer(m) ==
  IF ~m THEN NextProc("no match")
  ELSE IF i < Len(branches)
  THEN i' = i + 1 /\ parent' = NoPid /\ UNCHANGED <<pc, own, pids, j, match_pid, out, res>>
  ELSE /\ out' = Append(out, List[j]) /\ j' = j + 1 /\ i' = 1 /\ parent' = NoPid
       /\ UNCHANGED <<pc, own, pids, match_pid, res>>

NotSeen == [data |-> Null, cand |-> {}]
Note(b, seen) ==
  view' = [(IF i = 1 THEN [k \in 1..Len(text) |-> NotSeen] ELSE view) EXCEPT ![b.pos] = seen]

\* A branch with the P modifier reads the parent's pid first.
MatchParent ==
  /\ pc = "match" /\ j <= Len(List)
  /\ "PARENT" \in branches[i].op_flags /\ parent = NoPid
  /\ LET st == Status("State", List[j]) IN
       IF st # "OK" THEN NextProc(st)
       ELSE parent' = proc[List[j]].ppid /\ UNCHANGED <<pc, own, pids, i, j, match_pid, out, res>>
  /\ UNCHANGED <<kernel, queryVars, shared, view, touched>>

\* Mutant: the buffer of an earlier process is used again.
BufferKept(b, p) == [b EXCEPT !.data = IF NonNull(@) THEN @ ELSE Read(b, p), !.data_size = 1]

\* The branch after its getter has filled the buffer.
Buffer(b, p) == [b EXCEPT !.data = Read(b, p), !.data_size = 1]

\* One branch of sigar_ptql_query_match.
MatchStep ==
  /\ pc = "match" /\ j <= Len(List)
  /\ "PARENT" \in branches[i].op_flags => parent # NoPid
  /\ LET b  == branches[i]
         p  == IF "PARENT" \in b.op_flags THEN parent ELSE List[j]
         st == Status(b.name, p)
     IN  IF b.type = "ANY"
         THEN /\ \E m \in AnyMatch(b, p) : Answer(m)
              /\ Note(b, [data |-> Null, cand |-> Candidates(b, p)])
              /\ UNCHANGED branches
         ELSE IF st # "OK"
         THEN /\ branches' = [branches EXCEPT ![i].data.kind = "block", ![i].data_size = 1]
              /\ NextProc(st) /\ UNCHANGED view
         ELSE LET c == Buffer(b, p) IN
              /\ branches' = [branches EXCEPT ![i] = c]
              /\ \E m \in IF "REF" \in b.op_flags
                          THEN ptql_branch_match_ref(c, branches[b.value.num + 1])
                          ELSE ptql_branch_match(c) : Answer(m)
              /\ Note(b, [data |-> Read(b, p), cand |-> {}])
  /\ UNCHANGED <<kernel, text, size, lost, shared, touched>>

FindEnd ==
  /\ pc = "match" /\ j > Len(List)
  /\ Return("OK", out)
  /\ UNCHANGED <<kernel, queryVars, shared, view, touched>>

\* Meanwhile a process starts, ends or changes, or a file or port does.
KernelStep ==
  /\ pc \in {"ready", "filter", "list", "match"}
  /\ changes < Host.changes /\ changes' = changes + 1
  /\ \/ \E p \in Host.pids, r \in Host.procs \cup {NoProc} :
          proc[p] # r /\ proc' = [proc EXCEPT ![p] = r] /\ touched' = touched \cup {p} /\ UNCHANGED os
     \/ \E o \in Host.os \ {os} : os' = o /\ touched' = touched \cup {0} /\ UNCHANGED proc
  /\ UNCHANGED host
  /\ UNCHANGED <<queryVars, findVars, pc>>

Next ==
  \/ \E t \in Host.texts : sigar_ptql_query_create(t)
  \/ AddBranch \/ sigar_ptql_query_destroy
  \/ FindBegin \/ FilterStep \/ ListStep \/ FilterEnd
  \/ MatchParent \/ MatchStep \/ FindEnd
  \/ KernelStep

Spec == Init /\ [][Next]_vars

-----------------------------------------------------------------------------
(* Properties.  view[k] is what clause k of the text read of the process   *)
(* being matched; touched holds the processes that changed during the find *)
(* (0 for the pid file and the ports); lost counts the blocks forgotten by *)
(* the last destroy.                                                       *)

\* Type invariant: the lists have room for their branches, and the loops
\* stay inside them.
TypeOK ==
  /\ host \in DOMAIN Hosts
  /\ proc \in [Pid -> Host.procs \cup {NoProc}] /\ os \in Host.os
  /\ changes \in 0..Host.changes
  /\ text \in Host.texts \cup {<< >>}
  /\ Len(branches) <= size /\ lost \in Nat
  /\ pc \in {"idle", "create", "failed", "ready", "filter", "list", "match"}
  /\ own \in BOOLEAN /\ i \in 0..Len(branches) + 1 /\ (pc = "match" => i \in 1..Len(branches))
  /\ j \in 0..Len(List) + 1 /\ Len(out) <= Len(List) + 1

\* Destroying a branch frees only memory, in every state a branch can be
\* left in by a failing init or add: the unions data and value hold memory
\* whenever data_size, the type and the REF flag say so.
DestroySafe ==
  \A k \in 1..Len(branches) :
    /\ FreesData(branches[k]) => branches[k].data.kind = "block"
    /\ FreesValue(branches[k]) => branches[k].value.kind = "block"

\* A reference reads the clause the text names, and that clause is evaluated
\* before it: sorting never separates the two.
RefsPointBack ==
  \A k \in 1..Len(branches) :
    LET b == branches[k] IN
    "REF" \in b.op_flags /\ pc # "failed" =>
      /\ b.pos = k /\ b.value.num + 1 \in 1..k - 1
      /\ branches[b.value.num + 1].pos = text[k].val.num

\* Clause k as the parser names it, and its type.
Clause(k) == ptql_branch_parse(text[k])
IsStd(c) == c.name \in DOMAIN ptql_map
TypeOf(c) == IF IsStd(c) THEN ptql_map[c.name][c.attr] ELSE "ANY"
IsPid(c) == c.name \in {"Pid", "Port", "Service"}
PidClauses == {k \in 1..Len(text) : IsPid(Clause(k))}

\* The query has a meaning: references are between attributes of one type,
\* only strings come from the environment, and pids are compared as numbers.
Meaningful ==
  \A k \in 1..Len(text) :
    LET c == Clause(k) IN
    /\ c.val.kind = "ref" => IsStd(c) /\ TypeOf(Clause(c.val.num)) = TypeOf(c)
    /\ c.val.kind = "env" => TypeOf(c) \in {"STR", "ANY"}
    /\ IsPid(c) => c.op \in NumOps

\* What clause k says of the values v read for each clause.
Says(k, v) ==
  LET c == Clause(k)
      icase == "ICASE" \in c.mods
      Cmp(h, n) == IF c.op = "RE" THEN ReImpl /\ ptql_op_str("CT", FALSE, h, n)
                   ELSE ptql_op_str(c.op, icase, h, n)
      needle == IF c.val.kind = "ref" THEN v[c.val.num].data.str ELSE c.val.str
  IN  IF IsPid(c) THEN TRUE
      ELSE IF c.val.kind \in {"unset", "self"} /\ TypeOf(c) \in {"STR", "ANY"} THEN FALSE
      ELSE CASE TypeOf(c) = "ANY" -> \E s \in v[k].cand : Cmp(s, needle)
             [] TypeOf(c) = "STR" -> Cmp(v[k].data.str, needle)
             [] OTHER -> ptql_op_num(c.op, v[k].data.num,
                                     CASE c.val.kind = "ref" -> v[c.val.num].data.num
                                       [] c.val.kind = "lit" -> c.val.str[1]
                                       [] OTHER -> 0)

\* A process is accepted only if every clause of the text holds of what was
\* read for this process, whatever order the clauses were sorted into and
\* whatever the buffers held from processes matched before.
AcceptedHolds ==
  [][Len(out') > Len(out) /\ Meaningful => \A k \in 1..Len(text) : Says(k, view')]_vars

Owner(k, p) == IF "PARENT" \in Clause(k).mods THEN proc[p].ppid ELSE p

\* The process that clause k names, when it is a Pid clause: the one given, or
\* in the pid file, or that owns the port.  No service has one on Unix.
Named(k) ==
  LET c == Clause(k) IN
  CASE c.name = "Port" -> IF c.attr = "udp" THEN os.udp ELSE os.tcp
    [] c.name = "Service" -> NoPid
    [] c.name = "Pid" /\ c.attr = "Pid" -> IF c.val.kind = "self" THEN SelfPid ELSE c.val.str[1]
    [] OTHER -> os.pidfile

\* What such a clause selects of the processes.
Selects(k, p) == Named(k) # NoPid /\ ptql_op_num(Clause(k).op, p, Named(k))

\* The strings of process p that clause c asks for: those of a list by their
\* place, counted from the end of the arguments if it is negative, or all.
Strings(c, p) ==
  LET list == proc[p].list
      k == IF c.name = "Args" /\ AttrNum(c.attr) < 0 THEN AttrNum(c.attr) + Len(list)
           ELSE AttrNum(c.attr)
  IN  IF IsPid(c) \/ Status(c.name, p) # "OK" THEN {}
      ELSE IF c.name = "Env" THEN (IF c.attr = "HOME" THEN {proc[p].str} ELSE {})
      ELSE IF c.attr = "*" THEN {list[n] : n \in 1..Len(list)}
      ELSE IF k \in 0..Len(list) - 1 THEN {list[k + 1]} ELSE {}

\* Process p is one the text describes.
Means(p) ==
  /\ ~Gone(p)
  /\ PidClauses # {} => \E k \in PidClauses : Selects(k, p)
  /\ \A k \in 1..Len(text) : "PARENT" \in Clause(k).mods => Status("State", p) = "OK"
  /\ \A k \in 1..Len(text) : IsStd(Clause(k)) => Status(Clause(k).name, Owner(k, p)) = "OK"
  /\ \A k \in 1..Len(text) :
       Says(k, [n \in 1..Len(text) |->
                  IF IsStd(Clause(n)) THEN [data |-> Read(Clause(n), Owner(n, p)), cand |-> {}]
                  ELSE [data |-> Null, cand |-> Strings(Clause(n), Owner(n, p))]])

\* A clause on a UDP port, which the code looks up among the TCP ports.
AsksUdp == \E k \in 1..Len(text) : Clause(k).name = "Port" /\ Clause(k).attr = "udp"

Steady(p) ==
  /\ {p, proc[p].ppid} \cap touched = {}
  /\ PidClauses # {} => 0 \notin touched

\* A find that succeeds returns exactly the processes the text describes,
\* among those that did not change while it ran, whatever the others did:
\* each once if there is at most one Pid clause, and of several Pid clauses
\* any one is enough.  find_process succeeds if that is a single one.  Which
\* processes a text with Port.udp finds is left out: the code departs from it.
FindExact ==
  pc = "ready" /\ res.status = "OK" /\ Meaningful =>
    /\ ~AsksUdp =>
         \A p \in Pid : Steady(p) => (Means(p) <=> \E n \in 1..Len(res.list) : res.list[n] = p)
    /\ Cardinality(PidClauses) <= 1 =>
         \A m, n \in 1..Len(res.list) : m # n => res.list[m] # res.list[n]
    /\ res.pid # NoPid <=> Len(res.list) = 1

\* Clause c gives its branch memory that nothing in the branch shows: the value
\* of a variable where the type is a number, or a text of length 0 as data.
Unseen(c) ==
  \/ c.val.kind = "env" /\ IsStd(c) /\ TypeOf(c) # "STR"
  \/ c.name = "Env" /\ c.attr = ""
  \/ c.name = "Pid" /\ c.val.kind = "lit" /\ c.val.str = << >>

\* Destroying a query, complete or not, forgets memory of such clauses only:
\* data_size, the type and the REF flag show all the other memory it holds.
LeaksOnlyUnseen == [][lost' > 0 => \E k \in 1..Len(text) : Unseen(Clause(k))]_vars

\* "query already used to filter proc_list", says the code where a match
\* accepts a Pid clause unseen: the processes found satisfy every Pid clause.
PidClausesFilter ==
  pc = "ready" /\ res.status = "OK" /\ Meaningful =>
    \A p \in Pid, k \in PidClauses :
      Steady(p) /\ (\E n \in 1..Len(res.list) : res.list[n] = p) => Selects(k, p)
=============================================================================
