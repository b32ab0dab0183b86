----------------------------- MODULE SigarPtqlSteps -----------------------------
(***************************************************************************)
(* What the operators and the steps of SigarPtql do, for every query the   *)
(* parser accepts, every host and every change of its processes: the       *)
(* lemmas from which SigarPtqlProofs derives its theorems.                 *)
(*                                                                         *)
(* The invariant has layers, each kept by every step given the ones before *)
(* it: Basic (the branches are those of the text, but for buffers and      *)
(* order; the loops stay in bounds), Seen (what the branches asked so far  *)
(* read of the process at hand, and said), Chosen (which processes the     *)
(* walk goes over), Judged and Found (the verdict on every process passed, *)
(* and on all of them at the end).                                         *)
(***************************************************************************)
EXTENDS SigarPtql, TLAPS

USE ZenonT(60)

-----------------------------------------------------------------------------
(* Branches as records.                                                    *)

Fields == {"type", "name", "attr", "flags", "op_flags", "op", "data", "data_size", "value", "pos"}

IsBranch(b) == b = [f \in Fields |-> b[f]]

\* Branch c differs from branch b in the fields of an init function only.
Inited(b, c) ==
  /\ IsBranch(c) /\ c.type = b.type /\ c.name = b.name /\ c.attr = b.attr
  /\ c.op = b.op /\ c.value = b.value /\ c.pos = b.pos

\* Assignments to a field.
WithOpFlags(b, x) == [b EXCEPT !.op_flags = x]

WithFlags(b, x) == [b EXCEPT !.flags = x]

WithData(b, x) == [b EXCEPT !.data = x]

WithSize(b, x) == [b EXCEPT !.data_size = x]

\* An attribute of ptql_map is no Pid clause.
LEMMA NotPid ==
  ASSUME NEW c, IsStd(c)
  PROVE  ~IsPid(c)
<1>1. c.name \in {"Time", "Cpu", "CredName", "Mem", "Exe", "Cred", "State", "Fd", "Disk_IO"}
  BY DEF IsStd, ptql_map
<1> QED BY <1>1 DEF IsPid

\* Assigning op_flags changes that field only.
LEMMA SetOpFlags ==
  ASSUME NEW b, IsBranch(b), NEW x
  PROVE  /\ Inited(b, WithOpFlags(b, x)) /\ IsBranch(WithOpFlags(b, x))
         /\ WithOpFlags(b, x).op_flags = x /\ WithOpFlags(b, x).flags = b.flags
         /\ WithOpFlags(b, x).data = b.data /\ WithOpFlags(b, x).data_size = b.data_size
BY DEF WithOpFlags, Inited, IsBranch, Fields

\* Assigning flags changes that field only.
LEMMA SetFlags ==
  ASSUME NEW b, IsBranch(b), NEW x
  PROVE  /\ Inited(b, WithFlags(b, x)) /\ IsBranch(WithFlags(b, x))
         /\ WithFlags(b, x).op_flags = b.op_flags /\ WithFlags(b, x).flags = x
         /\ WithFlags(b, x).data = b.data /\ WithFlags(b, x).data_size = b.data_size
BY DEF WithFlags, Inited, IsBranch, Fields

\* Assigning data changes that field only.
LEMMA SetData ==
  ASSUME NEW b, IsBranch(b), NEW x
  PROVE  /\ Inited(b, WithData(b, x)) /\ IsBranch(WithData(b, x))
         /\ WithData(b, x).op_flags = b.op_flags /\ WithData(b, x).flags = b.flags
         /\ WithData(b, x).data = x /\ WithData(b, x).data_size = b.data_size
BY DEF WithData, Inited, IsBranch, Fields

\* Assigning data_size changes that field only.
LEMMA SetSize ==
  ASSUME NEW b, IsBranch(b), NEW x
  PROVE  /\ Inited(b, WithSize(b, x)) /\ IsBranch(WithSize(b, x))
         /\ WithSize(b, x).op_flags = b.op_flags /\ WithSize(b, x).flags = b.flags
         /\ WithSize(b, x).data = b.data /\ WithSize(b, x).data_size = x
BY DEF WithSize, Inited, IsBranch, Fields

\* The fields of the two results of an init function.
LEMMA Results == \A b : Ok(b).ok = TRUE /\ Ok(b).b = b /\ Fail(b).ok = FALSE /\ Fail(b).b = b
BY DEF Ok, Fail

-----------------------------------------------------------------------------
(* What ptql_branch_add makes of a clause.                                 *)

IsUnion(u) == u = Union(u.kind, u.num, u.str)

\* The clauses whose data is a text of length 0.
Bare(c) ==
  \/ c.name = "Env" /\ c.attr = ""
  \/ c.name = "Pid" /\ c.val.kind = "lit" /\ c.val.str = << >>

\* What data and data_size say of each other: the size is that of a block,
\* and a block of no size is a text of length 0.
Sized(c, d) ==
  /\ IsUnion(d.data) /\ d.data_size \in Nat /\ (d.data.kind = "block" \/ d.data_size = 0)
  /\ d.data.kind = "block" /\ d.data_size = 0 => Bare(c)

\* The flags that a branch d has beyond those of b.
Extra(b, d, F) == F \in SUBSET {"GLOB", "PID"} /\ d.op_flags = b.op_flags \cup F

\* What branch d was told by a clause c of type ANY: which process to look for,
\* and which places of a list.
Told(c, d) ==
  /\ c.name = "Port" => d.flags = "TCP_PORT"
  /\ c.name = "Service" => d.flags \in {"SERVICE", "SERVICE_NAME"}
  /\ c.name = "Pid" =>
       \/ c.attr \in {"PidFile", "SudoPidFile"} /\ d.flags \in {"FILE", "SUDO_FILE"}
       \/ /\ c.attr = "Pid" /\ d.flags = "PID"
          /\ d.data.num = IF c.val.kind = "self" THEN SelfPid ELSE c.val.str[1]
  /\ c.name \in {"Args", "Modules"} =>
       IF c.attr = "*" THEN "GLOB" \in d.op_flags
       ELSE "GLOB" \notin d.op_flags /\ d.data.num = AttrNum(c.attr)

\* What an init function may do to a new branch b, ending with r.
InitOK(c, b, r) ==
  /\ r.ok \in BOOLEAN /\ Inited(b, r.b) /\ Sized(c, r.b) /\ (r.ok => Told(c, r.b))
  /\ \E F : Extra(b, r.b, F) /\ (r.ok => (IsPid(c) <=> "PID" \in F))

\* A branch before its init function ran.
Fresh(b) == IsBranch(b) /\ b.data = Null /\ b.data_size = 0 /\ "GLOB" \notin b.op_flags

\* An init function may assign field after field.
LEMMA InitedTwice ==
  ASSUME NEW b, NEW d, NEW e, Inited(b, d), Inited(d, e)
  PROVE  Inited(b, e)
BY DEF Inited

\* An init function may assign nothing.
LEMMA InitedSelf ==
  ASSUME NEW b, IsBranch(b)
  PROVE  Inited(b, b)
BY DEF Inited

\* An init function that succeeds keeps its promise.
LEMMA OkInit ==
  ASSUME NEW c, NEW b, NEW d, Inited(b, d), Sized(c, d), NEW F, Extra(b, d, F), IsPid(c) <=> "PID" \in F,
         Told(c, d)
  PROVE  InitOK(c, b, Ok(d))
<1>1. Ok(d).ok = TRUE /\ Ok(d).b = d
  BY Results
<1> QED BY <1>1 DEF InitOK

\* So does one that fails.
LEMMA FailInit ==
  ASSUME NEW c, NEW b, NEW d, Inited(b, d), Sized(c, d), NEW F, Extra(b, d, F)
  PROVE  InitOK(c, b, Fail(d))
<1>1. Fail(d).ok = FALSE /\ Fail(d).b = d
  BY Results
<1> QED BY <1>1 DEF InitOK

\* The three things data can be.
LEMMA SizedNull ==
  ASSUME NEW c, NEW d, d.data = Null, d.data_size = 0
  PROVE  Sized(c, d)
BY SMTT(60) DEF Sized, IsUnion, Null, Union

\* A number in data needs no memory.
LEMMA SizedScalar ==
  ASSUME NEW c, NEW d, NEW n, d.data = Scalar(n), d.data_size = 0
  PROVE  Sized(c, d)
BY SMTT(60) DEF Sized, IsUnion, Scalar, Union

\* A string in data is memory that data_size counts.
LEMMA SizedBlock ==
  ASSUME NEW c, NEW d, NEW s, d.data = Block(s), d.data_size \in Nat,
         d.data_size = 0 => Bare(c)
  PROVE  Sized(c, d)
BY SMTT(60) DEF Sized, IsUnion, Block, Union

\* The flags that are added.
LEMMA ExtraFlags ==
  ASSUME NEW b, NEW d
  PROVE  /\ d.op_flags = b.op_flags => Extra(b, d, {})
         /\ d.op_flags = b.op_flags \cup {"GLOB"} => Extra(b, d, {"GLOB"})
         /\ d.op_flags = b.op_flags \cup {"PID"} => Extra(b, d, {"PID"})
         /\ "PID" \notin {} /\ "PID" \notin {"GLOB"} /\ "PID" \in {"PID"}
BY DEF Extra

\* The number in a union.
LEMMA ScalarNum == \A n : Scalar(n).num = n
BY SMTT(60) DEF Scalar, Union

\* ptql_args_branch_init keeps the promise.
LEMMA InitArgs ==
  ASSUME NEW c, NEW b, Fresh(b), c.name \in {"Args", "Modules"}
  PROVE  InitOK(c, b, ptql_args_branch_init(c, b))
<1>0. ~IsPid(c) /\ IsBranch(b) /\ b.data = Null /\ b.data_size = 0
  BY DEF IsPid, Fresh
<1>1. CASE c.attr = "*"
  <2>1. PICK d : d = WithOpFlags(b, b.op_flags \cup {"GLOB"})
    OBVIOUS
  <2>2. Inited(b, d) /\ d.op_flags = b.op_flags \cup {"GLOB"} /\ d.data = Null /\ d.data_size = 0
    BY <1>0, <2>1, SetOpFlags, SMTT(60)
  <2>3. ptql_args_branch_init(c, b) = Ok(d)
    BY <1>1, <2>1 DEF ptql_args_branch_init, WithOpFlags
  <2>4. PICK F : Extra(b, d, F) /\ "PID" \notin F
    BY <2>2, ExtraFlags
  <2>5. Sized(c, d) /\ Inited(b, d)
    BY <2>2, SizedNull
  <2>6. Told(c, d)
    BY <1>1, <2>2 DEF Told
  <2> QED BY <1>0, <2>3, <2>4, <2>5, <2>6, OkInit
<1>2. CASE c.attr # "*" /\ c.attr \in {"0", "1", "-1"}
  <2>1. PICK n : n = AttrNum(c.attr)
    OBVIOUS
  <2>2. PICK d : d = WithData(b, Scalar(n))
    OBVIOUS
  <2>3. Inited(b, d) /\ d.op_flags = b.op_flags /\ d.data = Scalar(n) /\ d.data_size = 0
    BY <1>0, <2>2, SetData
  <2>4. ptql_args_branch_init(c, b) = Ok(d)
    BY <1>2, <2>1, <2>2 DEF ptql_args_branch_init, WithData
  <2>5. d.data.num = AttrNum(c.attr)
    BY <2>1, <2>3, ScalarNum
  <2>6. Told(c, d)
    BY <1>2, <2>3, <2>5 DEF Told, Fresh
  <2> QED BY <1>0, <2>3, <2>4, <2>6, ExtraFlags, SizedScalar, OkInit
<1>3. CASE c.attr # "*" /\ c.attr \notin {"0", "1", "-1"}
  <2>1. ptql_args_branch_init(c, b) = Fail(b)
    BY <1>3 DEF ptql_args_branch_init
  <2> QED BY <1>0, <2>1, InitedSelf, ExtraFlags, SizedNull, FailInit
<1> QED BY <1>1, <1>2, <1>3

\* ptql_branch_init_any keeps the promise.
LEMMA InitAny ==
  ASSUME NEW c, NEW b, Fresh(b), c.name = "Env"
  PROVE  InitOK(c, b, ptql_branch_init_any(c, b))
<1>0. ~IsPid(c) /\ IsBranch(b)
  BY DEF IsPid, Fresh
<1>1. PICK s : s = AttrText(c)
  OBVIOUS
<1>2. PICK d : d = WithData(b, Block(s))
  OBVIOUS
<1>3. PICK e : e = WithSize(d, Len(s))
  OBVIOUS
<1>4. Inited(b, d) /\ IsBranch(d) /\ d.op_flags = b.op_flags /\ d.data = Block(s)
  BY <1>0, <1>2, SetData
<1>5. Inited(d, e) /\ e.op_flags = d.op_flags /\ e.data = d.data /\ e.data_size = Len(s)
  BY <1>3, <1>4, SetSize, SMTT(60)
<1>6. ptql_branch_init_any(c, b) = Ok(e)
  BY <1>1, <1>2, <1>3 DEF ptql_branch_init_any, WithData, WithSize, Fresh, IsBranch, Fields
<1>7. Len(s) \in Nat /\ (Len(s) = 0 => c.attr = "")
  <2>1. Len(<< >>) = 0 /\ Len(<<1>>) = 1 /\ 0 \in Nat /\ 1 \in Nat /\ 1 # 0
    BY SMTT(60)
  <2>2. (s = << >> /\ c.attr = "") \/ s = <<1>>
    BY <1>1 DEF AttrText
  <2> QED BY <2>1, <2>2
<1>8. Sized(c, e)
  BY <1>4, <1>5, <1>7, SizedBlock DEF Bare
<1>9. Inited(b, e) /\ Told(c, e)
  BY <1>4, <1>5, InitedTwice DEF Told
<1> QED BY <1>0, <1>4, <1>5, <1>6, <1>8, <1>9, ExtraFlags, OkInit

\* ptql_branch_init_port keeps the promise.
LEMMA InitPort ==
  ASSUME NEW c, NEW b, Fresh(b), c.name = "Port"
  PROVE  InitOK(c, b, ptql_branch_init_port(c, b))
<1>0. IsPid(c) /\ IsBranch(b) /\ b.data = Null /\ b.data_size = 0
  BY DEF IsPid, Fresh
<1>1. PICK e : e = WithFlags(b, "TCP_PORT")
  OBVIOUS
<1>2. PICK d : d = WithOpFlags(e, b.op_flags \cup {"PID"})
  OBVIOUS
<1>3. Inited(b, e) /\ IsBranch(e) /\ e.data = Null /\ e.data_size = 0 /\ e.flags = "TCP_PORT"
  BY <1>0, <1>1, SetFlags
<1>4. /\ Inited(e, d) /\ IsBranch(d) /\ d.op_flags = b.op_flags \cup {"PID"}
      /\ d.data = Null /\ d.data_size = 0 /\ d.flags = "TCP_PORT"
  BY <1>2, <1>3, SetOpFlags, SMTT(60)
<1>5. Inited(b, d)
  BY <1>3, <1>4, InitedTwice
<1>6. PICK n : n = c.val.str[1]
  OBVIOUS
<1>7. PICK f : f = WithData(d, Scalar(n))
  OBVIOUS
<1>8. /\ Inited(d, f) /\ f.op_flags = d.op_flags /\ f.data = Scalar(n) /\ f.data_size = 0
      /\ f.flags = "TCP_PORT"
  BY <1>4, <1>7, SetData
<1>9. d = [b EXCEPT !.flags = "TCP_PORT", !.op_flags = @ \cup {"PID"}]
  BY <1>0, <1>1, <1>2 DEF WithFlags, WithOpFlags, IsBranch, Fields
<1>10. \/ ptql_branch_init_port(c, b) = Fail(b)
       \/ ptql_branch_init_port(c, b) = Fail(d)
       \/ ptql_branch_init_port(c, b) = Ok(f)
  BY <1>6, <1>7, <1>9 DEF ptql_branch_init_port, WithData
<1>11. Extra(b, b, {}) /\ Extra(b, d, {"PID"}) /\ Extra(b, f, {"PID"}) /\ "PID" \in {"PID"}
  BY <1>4, <1>8, ExtraFlags
<1>12. Sized(c, b) /\ Sized(c, d) /\ Sized(c, f)
  BY <1>0, <1>4, <1>8, SizedNull, SizedScalar
<1>13. Inited(b, b) /\ Inited(b, f) /\ Told(c, f)
  BY <1>0, <1>5, <1>8, InitedSelf, InitedTwice DEF Told
<1>14. InitOK(c, b, Fail(b)) /\ InitOK(c, b, Fail(d)) /\ InitOK(c, b, Ok(f))
  BY <1>0, <1>5, <1>11, <1>12, <1>13, FailInit, OkInit
<1> QED BY <1>10, <1>14

\* ptql_branch_init_pid keeps the promise.
LEMMA InitPid ==
  ASSUME NEW c, IsClause(c), NEW b, Fresh(b), c.name = "Pid"
  PROVE  InitOK(c, b, ptql_branch_init_pid(c, b))
<1>0. IsPid(c) /\ IsBranch(b) /\ b.data = Null /\ b.data_size = 0
  BY DEF IsPid, Fresh
<1>1. PICK d : d = WithOpFlags(b, b.op_flags \cup {"PID"})
  OBVIOUS
<1>2. /\ Inited(b, d) /\ IsBranch(d) /\ d.op_flags = b.op_flags \cup {"PID"}
      /\ d.data = Null /\ d.data_size = 0
  BY <1>0, <1>1, SetOpFlags, SMTT(60)
<1>3. PICK e : e = WithFlags(d, "PID")
  OBVIOUS
<1>4. /\ Inited(d, e) /\ IsBranch(e) /\ e.op_flags = d.op_flags
      /\ e.data = Null /\ e.data_size = 0 /\ e.flags = "PID"
  BY <1>2, <1>3, SetFlags
<1>5. InitOK(c, b, Fail(d)) /\ InitOK(c, b, Fail(e))
  <2>1. Extra(b, d, {"PID"}) /\ Extra(b, e, {"PID"})
    BY <1>2, <1>4, ExtraFlags
  <2>2. Sized(c, d) /\ Sized(c, e)
    BY <1>2, <1>4, SizedNull
  <2>3. Inited(b, e)
    BY <1>2, <1>4, InitedTwice
  <2> QED BY <1>2, <2>1, <2>2, <2>3, FailInit
<1>6. ASSUME NEW n, c.attr = "Pid", n = IF c.val.kind = "self" THEN SelfPid ELSE c.val.str[1]
      PROVE  InitOK(c, b, Ok(WithData(e, Scalar(n))))
  <2>1. PICK f : f = WithData(e, Scalar(n))
    OBVIOUS
  <2>2. /\ Inited(e, f) /\ f.op_flags = e.op_flags /\ f.data = Scalar(n) /\ f.data_size = 0
        /\ f.flags = "PID"
    BY <1>4, <2>1, SetData, SMTT(60)
  <2>3. Inited(b, f)
    BY <1>2, <1>4, <2>2, InitedTwice
  <2>4. Extra(b, f, {"PID"}) /\ "PID" \in {"PID"}
    BY <1>2, <1>4, <2>2, ExtraFlags
  <2>5. Sized(c, f)
    BY <2>2, SizedScalar
  <2>6. f.data.num = n
    BY <2>2, ScalarNum
  <2>7. Told(c, f)
    BY <1>6, <2>2, <2>6 DEF Told
  <2> QED BY <1>0, <2>1, <2>3, <2>4, <2>5, <2>7, OkInit
<1>7. ASSUME NEW x \in {"FILE", "SUDO_FILE"}, c.attr \in {"PidFile", "SudoPidFile"}
      PROVE  InitOK(c, b, Ok(WithSize(WithData(WithFlags(d, x), Block(ValueText(c))), Len(ValueText(c)))))
  <2>1. PICK s : s = ValueText(c)
    OBVIOUS
  <2>2. Len(s) \in Nat /\ (Len(s) = 0 => c.val.kind = "lit" /\ c.val.str = << >>)
    <3>1. c.val.str \in Seq(Int)
      BY DEF IsClause
    <3> QED BY <2>1, <3>1, SMTT(60) DEF ValueText
  <2>3. PICK f : f = WithFlags(d, x)
    OBVIOUS
  <2>4. PICK g : g = WithData(f, Block(s))
    OBVIOUS
  <2>5. PICK h : h = WithSize(g, Len(s))
    OBVIOUS
  <2>6. Inited(d, f) /\ IsBranch(f) /\ f.op_flags = d.op_flags /\ f.flags = x
    BY <1>2, <2>3, SetFlags
  <2>7. Inited(f, g) /\ IsBranch(g) /\ g.op_flags = f.op_flags /\ g.data = Block(s) /\ g.flags = x
    BY <2>4, <2>6, SetData, SMTT(60)
  <2>8. /\ Inited(g, h) /\ h.op_flags = g.op_flags /\ h.data = g.data /\ h.data_size = Len(s)
        /\ h.flags = x
    BY <2>5, <2>7, SetSize
  <2>9. Inited(b, f)
    BY <1>2, <2>6, InitedTwice
  <2>10. Inited(b, g)
    BY <2>7, <2>9, InitedTwice
  <2>11. Inited(b, h)
    BY <2>8, <2>10, InitedTwice
  <2>12. h.op_flags = b.op_flags \cup {"PID"}
    BY <1>2, <2>6, <2>7, <2>8
  <2>13. Extra(b, h, {"PID"}) /\ "PID" \in {"PID"}
    BY <2>12, ExtraFlags
  <2>14. Sized(c, h)
    BY <2>2, <2>7, <2>8, SizedBlock DEF Bare
  <2>15. Told(c, h)
    BY <1>7, <2>8 DEF Told
  <2> QED BY <1>0, <2>1, <2>3, <2>4, <2>5, <2>11, <2>13, <2>14, <2>15, OkInit
<1>9. CASE c.attr = "Pid"
  BY <1>1, <1>3, <1>5, <1>6, <1>9 DEF ptql_branch_init_pid, WithData, WithFlags, WithOpFlags
<1>10. CASE c.attr # "Pid" /\ c.attr \in {"PidFile", "SudoPidFile"}
  <2>1. PICK f \in {"FILE", "SUDO_FILE"} : f = IF c.attr = "PidFile" THEN "FILE" ELSE "SUDO_FILE"
    OBVIOUS
  <2>2. PICK g : g = [d EXCEPT !.flags = f, !.data = Block(ValueText(c)), !.data_size = Len(ValueText(c))]
    OBVIOUS
  <2>3. g = WithSize(WithData(WithFlags(d, f), Block(ValueText(c))), Len(ValueText(c)))
    BY <1>2, <2>2 DEF WithFlags, WithData, WithSize, IsBranch, Fields
  <2>4. ptql_branch_init_pid(c, b) = Ok(g)
    BY <1>1, <1>10, <2>1, <2>2 DEF ptql_branch_init_pid, WithOpFlags
  <2> QED BY <1>7, <1>10, <2>3, <2>4
<1>11. CASE c.attr # "Pid" /\ c.attr \notin {"PidFile", "SudoPidFile"}
  BY <1>1, <1>5, <1>11 DEF ptql_branch_init_pid, WithOpFlags
<1> QED BY <1>9, <1>10, <1>11

\* ptql_branch_init_service keeps the promise.
LEMMA InitService ==
  ASSUME NEW c, NEW b, Fresh(b), c.name = "Service"
  PROVE  InitOK(c, b, ptql_branch_init_service(c, b))
<1>0. IsPid(c) /\ IsBranch(b) /\ b.data = Null /\ b.data_size = 0
  BY DEF IsPid, Fresh
<1>1. PICK d : d = WithOpFlags(b, b.op_flags \cup {"PID"})
  OBVIOUS
<1>2. /\ Inited(b, d) /\ IsBranch(d) /\ d.op_flags = b.op_flags \cup {"PID"}
      /\ d.data = Null /\ d.data_size = 0
  BY <1>0, <1>1, SetOpFlags, SMTT(60)
<1>3. PICK f : f = IF c.attr = "Name" THEN "SERVICE_NAME" ELSE "SERVICE"
  OBVIOUS
<1>4. PICK e : e = WithFlags(d, f)
  OBVIOUS
<1>5. /\ Inited(d, e) /\ IsBranch(e) /\ e.op_flags = d.op_flags
      /\ e.data = Null /\ e.data_size = 0 /\ e.flags = f
  BY <1>2, <1>4, SetFlags
<1>6. Extra(b, d, {"PID"}) /\ Extra(b, e, {"PID"}) /\ "PID" \in {"PID"}
  BY <1>2, <1>5, ExtraFlags
<1>7. Sized(c, d) /\ Sized(c, e)
  BY <1>2, <1>5, SizedNull
<1>8. Inited(b, e) /\ Told(c, e)
  BY <1>2, <1>3, <1>5, InitedTwice DEF Told
<1>9. ptql_branch_init_service(c, b) \in {Fail(d), Ok(e)}
  BY <1>1, <1>3, <1>4 DEF ptql_branch_init_service, WithFlags, WithOpFlags
<1>10. InitOK(c, b, Fail(d)) /\ InitOK(c, b, Ok(e))
  BY <1>0, <1>2, <1>6, <1>7, <1>8, FailInit, OkInit
<1> QED BY <1>9, <1>10

\* lookup->init leaves a branch that can be destroyed.
LEMMA InitFacts ==
  ASSUME NEW c, IsClause(c), NEW b, Fresh(b)
  PROVE  InitOK(c, b, Init_(c, b))
<1>1. CASE c.name \in {"Args", "Modules"}
  BY <1>1, InitArgs DEF Init_
<1>2. CASE c.name = "Env"
  BY <1>2, InitAny DEF Init_
<1>3. CASE c.name = "Port"
  BY <1>3, InitPort DEF Init_
<1>4. CASE c.name = "Pid"
  BY <1>4, InitPid DEF Init_
<1>5. CASE c.name = "Service"
  BY <1>5, InitService DEF Init_
<1>6. CASE c.name \notin {"Args", "Modules", "Env", "Port", "Pid", "Service"}
  <2>1. Init_(c, b) = Ok(b)
    BY <1>6 DEF Init_
  <2>2. ~IsPid(c) /\ IsBranch(b)
    BY <1>6 DEF IsPid, Fresh
  <2>3. Extra(b, b, {}) /\ "PID" \notin {}
    BY ExtraFlags
  <2>4. Sized(c, b) /\ Inited(b, b) /\ Told(c, b)
    BY <1>6, <2>2, SizedNull, InitedSelf DEF Fresh, Told
  <2> QED BY <2>1, <2>2, <2>3, <2>4, OkInit
<1> QED BY <1>1, <1>2, <1>3, <1>4, <1>5, <1>6

\* A branch on which ptql_branch_add has done no more than init.
Staged(c, n, b) ==
  /\ IsBranch(b) /\ b.name = c.name /\ b.attr = c.attr /\ b.op = c.op /\ b.pos = n
  /\ Sized(c, b)
  /\ "PARENT" \in b.op_flags <=> "PARENT" \in c.mods
  /\ "ICASE" \in b.op_flags <=> "ICASE" \in c.mods

\* What the value of a branch says of its memory: it is a block that destroy
\* knows of, or the value of a variable given to a numeric attribute.
ValueOK(c, b) ==
  /\ b.type \in {"STR", "ANY"} /\ "REF" \notin b.op_flags => b.value.kind = "block" \/ b.value = Null
  /\ b.value.kind = "block" =>
       /\ "REF" \notin b.op_flags
       /\ b.type \in {"STR", "ANY"} \/ (c.val.kind = "env" /\ IsStd(c) /\ TypeOf(c) # "STR")
  /\ "REF" \in b.op_flags => c.val.kind = "ref"

\* The method of clause c is known and its operator fits; b has its type.
Sorts(c, b) ==
  /\ c.op \in NumOps \cup StrOnly /\ c.name \in DOMAIN ptql_map \cup AnyMethods
  /\ IsStd(c) => c.attr \in DOMAIN ptql_map[c.name]
  /\ b.type = TypeOf(c)
  /\ IsStd(c) /\ TypeOf(c) # "STR" => c.op \notin StrOnly
  /\ "PID" \in b.op_flags <=> IsPid(c)

\* The value of clause c.
ValueIs(c, n, b) ==
  /\ c.val.kind # "lit" => c.op # "RE"
  /\ c.val.kind = "ref" => c.val.num - 1 \in 0..n - 2 /\ b.value = Scalar(c.val.num - 1)
  /\ c.val.kind = "env" => b.value = Block(c.val.str)
  /\ c.val.kind \in {"unset", "self"} => b.value = Null
  /\ c.val.kind = "lit" =>
       b.value = IF TypeOf(c) \in {"STR", "ANY"} THEN Block(c.val.str) ELSE Scalar(c.val.str[1])

\* What a branch that was added means.
Meant(c, n, b) ==
  Sorts(c, b) /\ ValueIs(c, n, b) /\ ("REF" \in b.op_flags <=> c.val.kind = "ref")

\* What ptql_branch_add does for clause c, ending with r: the n-th branch.
AddOK(c, n, r) ==
  r.ok \in BOOLEAN /\ Staged(c, n, r.b) /\ ValueOK(c, r.b) /\ (r.ok => Meant(c, n, r.b))

WithType(b, x) == [b EXCEPT !.type = x]

WithValue(b, x) == [b EXCEPT !.value = x]

\* Assigning type changes that field only.
LEMMA SetType ==
  ASSUME NEW b, IsBranch(b), NEW x
  PROVE  LET d == WithType(b, x) IN
         /\ IsBranch(d) /\ d.type = x /\ d.name = b.name /\ d.attr = b.attr /\ d.op = b.op
         /\ d.flags = b.flags /\ d.op_flags = b.op_flags /\ d.data = b.data
         /\ d.data_size = b.data_size /\ d.value = b.value /\ d.pos = b.pos
BY DEF WithType, IsBranch, Fields

\* Assigning value changes that field only.
LEMMA SetValue ==
  ASSUME NEW b, IsBranch(b), NEW x
  PROVE  LET d == WithValue(b, x) IN
         /\ IsBranch(d) /\ d.type = b.type /\ d.name = b.name /\ d.attr = b.attr /\ d.op = b.op
         /\ d.flags = b.flags /\ d.op_flags = b.op_flags /\ d.data = b.data
         /\ d.data_size = b.data_size /\ d.value = x /\ d.pos = b.pos
BY DEF WithValue, IsBranch, Fields

\* Only data and data_size tell whether data is memory.
LEMMA SizedSame ==
  ASSUME NEW c, NEW b, NEW d, Sized(c, b), d.data = b.data, d.data_size = b.data_size
  PROVE  Sized(c, d)
BY DEF Sized

\* The steps of ptql_branch_add after init keep the branch staged.
LEMMA StagedType ==
  ASSUME NEW c, NEW n, NEW b, Staged(c, n, b), NEW x
  PROVE  LET d == WithType(b, x) IN
         /\ Staged(c, n, d) /\ d.type = x /\ d.op_flags = b.op_flags /\ d.value = b.value
<1>1. PICK d : d = WithType(b, x)
  OBVIOUS
<1>2. /\ IsBranch(d) /\ d.type = x /\ d.name = b.name /\ d.attr = b.attr /\ d.op = b.op
      /\ d.op_flags = b.op_flags /\ d.data = b.data
      /\ d.data_size = b.data_size /\ d.value = b.value /\ d.pos = b.pos
  <2>1. IsBranch(b)
    BY DEF Staged
  <2> QED BY <1>1, <2>1, SetType, SMTT(60)
<1>3. Sized(c, d)
  BY <1>2, SizedSame DEF Staged
<1> QED BY <1>1, <1>2, <1>3 DEF Staged

\* Assigning value leaves the branch as ptql_branch_add staged it.
LEMMA StagedValue ==
  ASSUME NEW c, NEW n, NEW b, Staged(c, n, b), NEW x
  PROVE  LET d == WithValue(b, x) IN
         /\ Staged(c, n, d) /\ d.type = b.type /\ d.op_flags = b.op_flags /\ d.value = x
<1>1. PICK d : d = WithValue(b, x)
  OBVIOUS
<1>2. /\ IsBranch(d) /\ d.type = b.type /\ d.name = b.name /\ d.attr = b.attr /\ d.op = b.op
      /\ d.op_flags = b.op_flags /\ d.data = b.data
      /\ d.data_size = b.data_size /\ d.value = x /\ d.pos = b.pos
  <2>1. IsBranch(b)
    BY DEF Staged
  <2> QED BY <1>1, <2>1, SetValue, SMTT(60)
<1>3. Sized(c, d)
  BY <1>2, SizedSame DEF Staged
<1> QED BY <1>1, <1>2, <1>3 DEF Staged

\* So does marking the branch as a reference.
LEMMA StagedRef ==
  ASSUME NEW c, NEW n, NEW b, Staged(c, n, b), NEW F, F = b.op_flags \cup {"REF"}
  PROVE  LET d == WithOpFlags(b, F) IN
         /\ Staged(c, n, d) /\ d.type = b.type /\ d.op_flags = F /\ d.value = b.value
<1>1. PICK d : d = WithOpFlags(b, F)
  OBVIOUS
<1>2. /\ Inited(b, d) /\ d.op_flags = F /\ d.data = b.data /\ d.data_size = b.data_size
  <2>1. IsBranch(b)
    BY DEF Staged
  <2> QED BY <1>1, <2>1, SetOpFlags, SMTT(60)
<1>3. Sized(c, d)
  BY <1>2, SizedSame DEF Staged
<1>4. ("PARENT" \in F <=> "PARENT" \in b.op_flags) /\ ("ICASE" \in F <=> "ICASE" \in b.op_flags)
  OBVIOUS
<1> QED BY <1>1, <1>2, <1>3, <1>4 DEF Staged, Inited

\* A failing ptql_branch_add leaves a branch that may be destroyed.
LEMMA AddFailed ==
  ASSUME NEW c, NEW n, NEW b, Staged(c, n, b), b.value = Null, "REF" \notin b.op_flags
  PROVE  AddOK(c, n, Fail(b))
<1>1. Fail(b).ok = FALSE /\ Fail(b).b = b
  BY Results
<1>2. Null.kind # "block"
  BY DEF Null, Union
<1>3. ValueOK(c, b)
  BY <1>2 DEF ValueOK
<1> QED BY <1>1, <1>3 DEF AddOK

\* A successful one leaves a branch that says what its clause says.
LEMMA AddDone ==
  ASSUME NEW c, NEW n, NEW b, Staged(c, n, b), ValueOK(c, b), Meant(c, n, b)
  PROVE  AddOK(c, n, Ok(b))
<1>1. Ok(b).ok = TRUE /\ Ok(b).b = b
  BY Results
<1> QED BY <1>1 DEF AddOK

\* Only the type and the PID flag tell how a branch is matched.
LEMMA SortsSame ==
  ASSUME NEW c, NEW b, NEW d, Sorts(c, b), d.type = b.type,
         "PID" \in d.op_flags <=> "PID" \in b.op_flags
  PROVE  Sorts(c, d)
BY DEF Sorts

\* A branch whose value is a block, or nothing.
LEMMA AddBlock ==
  ASSUME NEW c, IsClause(c), NEW n, NEW b, Staged(c, n, b), Sorts(c, b), "REF" \notin b.op_flags,
         NEW x, c.val.kind # "ref", x = Null \/ x = Block(c.val.str),
         x = Block(c.val.str) => c.val.kind = "env" \/ b.type \in {"STR", "ANY"},
         ValueIs(c, n, WithValue(b, x))
  PROVE  AddOK(c, n, Ok(WithValue(b, x)))
<1>1. PICK d : d = WithValue(b, x)
  OBVIOUS
<1>2. Staged(c, n, d) /\ d.type = b.type /\ d.op_flags = b.op_flags /\ d.value = x
  BY <1>1, StagedValue, SMTT(60)
<1>3. Null.kind # "block" /\ Block(c.val.str).kind = "block"
  BY DEF Null, Block, Union
<1>4. TypeOf(c) # "STR" /\ TypeOf(c) # "ANY" => IsStd(c)
  BY DEF TypeOf
<1>5. b.type = TypeOf(c)
  BY DEF Sorts
<1>6. ValueOK(c, d)
  BY <1>2, <1>3, <1>4, <1>5 DEF ValueOK
<1>7. Sorts(c, d)
  BY <1>2, SortsSame
<1>8. Meant(c, n, d)
  BY <1>1, <1>2, <1>7 DEF Meant
<1> QED BY <1>1, <1>2, <1>6, <1>8, AddDone

\* A branch whose value is a number.
LEMMA AddScalar ==
  ASSUME NEW c, IsClause(c), NEW n, NEW b, Staged(c, n, b), Sorts(c, b), "REF" \notin b.op_flags,
         NEW x, c.val.kind # "ref", b.type \notin {"STR", "ANY"},
         ValueIs(c, n, WithValue(b, Scalar(x)))
  PROVE  AddOK(c, n, Ok(WithValue(b, Scalar(x))))
<1>1. PICK d : d = WithValue(b, Scalar(x))
  OBVIOUS
<1>2. Staged(c, n, d) /\ d.type = b.type /\ d.op_flags = b.op_flags /\ d.value = Scalar(x)
  BY <1>1, StagedValue, SMTT(60)
<1>3. Scalar(x).kind # "block"
  BY DEF Scalar, Union
<1>4. ValueOK(c, d)
  BY <1>2, <1>3 DEF ValueOK
<1>5. Sorts(c, d)
  BY <1>2, SortsSame
<1>6. Meant(c, n, d)
  BY <1>1, <1>2, <1>5 DEF Meant
<1> QED BY <1>1, <1>2, <1>4, <1>6, AddDone

\* A value that starts with '$'.
LEMMA AddDollar ==
  ASSUME NEW c, IsClause(c), NEW n, NEW b, Staged(c, n, b), Sorts(c, b), "REF" \notin b.op_flags,
         b.value = Null, c.val.kind # "lit"
  PROVE  AddOK(c, n, DollarValue(c, b, n))
<1>1. CASE c.op = "RE"
  BY <1>1, AddFailed DEF DollarValue
<1>2. CASE c.op # "RE" /\ c.val.kind = "ref"
  <2>1. PICK F : F = b.op_flags \cup {"REF"}
    OBVIOUS
  <2>2. PICK d : d = WithOpFlags(b, F)
    OBVIOUS
  <2>3. PICK k : k = c.val.num - 1
    OBVIOUS
  <2>4. PICK e : e = WithValue(d, Scalar(k))
    OBVIOUS
  <2>5. Staged(c, n, d) /\ d.type = b.type /\ d.op_flags = F /\ d.value = b.value
    BY <2>1, <2>2, StagedRef, SMTT(60)
  <2>6. Staged(c, n, e) /\ e.type = b.type /\ e.op_flags = F /\ e.value = Scalar(k)
    BY <2>4, <2>5, StagedValue, SMTT(60)
  <2>7. "REF" \in F /\ ("PID" \in F <=> "PID" \in b.op_flags)
    BY <2>1
  <2>8. Scalar(k).kind # "block"
    BY DEF Scalar, Union
  <2>9. ValueOK(c, e)
    BY <1>2, <2>6, <2>7, <2>8 DEF ValueOK
  <2>10. Sorts(c, e)
    BY <2>6, <2>7, SortsSame
  <2>11. e = [b EXCEPT !.op_flags = @ \cup {"REF"}, !.value = Scalar(c.val.num - 1)]
    BY <2>1, <2>2, <2>3, <2>4 DEF WithOpFlags, WithValue, Staged, IsBranch, Fields
  <2>12. CASE k \in 0..n - 2
    <3>1. DollarValue(c, b, n) = Ok(e)
      BY <1>2, <2>3, <2>11, <2>12 DEF DollarValue
    <3>2. ValueIs(c, n, e)
      BY <1>2, <2>3, <2>6, <2>12 DEF ValueIs
    <3>3. Meant(c, n, e)
      BY <1>2, <2>6, <2>7, <2>10, <3>2 DEF Meant
    <3> QED BY <2>6, <2>9, <3>1, <3>3, AddDone
  <2>13. CASE k \notin 0..n - 2
    <3>1. DollarValue(c, b, n) = Fail(e)
      BY <1>2, <2>3, <2>11, <2>13 DEF DollarValue
    <3>2. Fail(e).ok = FALSE /\ Fail(e).b = e
      BY Results
    <3> QED BY <2>6, <2>9, <3>1, <3>2 DEF AddOK
  <2> QED BY <2>12, <2>13
<1>3. CASE c.op # "RE" /\ c.val.kind = "env"
  <2>1. PICK s : s = c.val.str
    OBVIOUS
  <2>2. DollarValue(c, b, n) = Ok(WithValue(b, Block(s)))
    BY <1>3, <2>1 DEF DollarValue, WithValue
  <2>3. WithValue(b, Block(s)).value = Block(s)
    BY StagedValue, SMTT(60)
  <2>4. ValueIs(c, n, WithValue(b, Block(s)))
    BY <1>3, <2>1, <2>3 DEF ValueIs
  <2> QED BY <1>3, <2>1, <2>2, <2>4, AddBlock
<1>4. CASE c.op # "RE" /\ c.val.kind # "ref" /\ c.val.kind # "env"
  <2>1. DollarValue(c, b, n) = Ok(WithValue(b, Null))
    BY <1>4 DEF DollarValue, WithValue
  <2>2. WithValue(b, Null).value = Null
    BY StagedValue, SMTT(60)
  <2>3. ValueIs(c, n, WithValue(b, Null))
    BY <1>4, <2>2 DEF ValueIs
  <2>4. Null # Block(c.val.str)
    BY DEF Null, Block, Union
  <2> QED BY <1>4, <2>1, <2>3, <2>4, AddBlock
<1> QED BY <1>1, <1>2, <1>3, <1>4

\* The attributes of a structure are numbers, characters and strings.
LEMMA StdType ==
  ASSUME NEW c, IsStd(c), c.attr \in DOMAIN ptql_map[c.name]
  PROVE  TypeOf(c) \in {"UI64", "UI32", "DBL", "CHR", "STR"}
<1>1. c.name \in {"Time", "Cpu", "CredName", "Mem", "Exe", "Cred", "State", "Fd", "Disk_IO"}
  BY DEF IsStd, ptql_map
<1>2. TypeOf(c) = ptql_map[c.name][c.attr]
  BY DEF TypeOf
<1>3. CASE c.name = "Time"
  BY <1>2, <1>3, SMTT(60) DEF ptql_map, PTQL_Time
<1>4. CASE c.name = "Cpu"
  BY <1>2, <1>4, SMTT(60) DEF ptql_map
<1>5. CASE c.name = "CredName"
  BY <1>2, <1>5, SMTT(60) DEF ptql_map
<1>6. CASE c.name = "Mem"
  BY <1>2, <1>6, SMTT(60) DEF ptql_map
<1>7. CASE c.name = "Exe"
  BY <1>2, <1>7, SMTT(60) DEF ptql_map
<1>8. CASE c.name = "Cred"
  BY <1>2, <1>8, SMTT(60) DEF ptql_map
<1>9. CASE c.name = "State"
  BY <1>2, <1>9, SMTT(60) DEF ptql_map, PTQL_State
<1>10. CASE c.name = "Fd"
  BY <1>2, <1>10, SMTT(60) DEF ptql_map
<1>11. CASE c.name = "Disk_IO"
  BY <1>2, <1>11, SMTT(60) DEF ptql_map
<1> QED BY <1>1, <1>3, <1>4, <1>5, <1>6, <1>7, <1>8, <1>9, <1>10, <1>11

\* A literal.
LEMMA AddPlain ==
  ASSUME NEW c, IsClause(c), NEW n, NEW b, Staged(c, n, b), Sorts(c, b), "REF" \notin b.op_flags,
         b.value = Null, c.val.kind = "lit"
  PROVE  AddOK(c, n, PlainValue(c, b, TypeOf(c)))
<1>1. b.type = TypeOf(c)
  BY DEF Sorts
<1>2. TypeOf(c) \in {"UI64", "UI32", "DBL", "CHR", "STR", "ANY"}
  <2>1. CASE IsStd(c)
    BY <2>1, StdType DEF Sorts
  <2>2. CASE ~IsStd(c)
    BY <2>2 DEF TypeOf
  <2> QED BY <2>1, <2>2
<1>3. AddOK(c, n, Fail(b))
  BY AddFailed
<1>4. CASE TypeOf(c) \in {"STR", "ANY"}
  <2>1. PICK s : s = c.val.str
    OBVIOUS
  <2>2. PlainValue(c, b, TypeOf(c)) = Ok(WithValue(b, Block(s)))
    BY <1>4, <2>1 DEF PlainValue, WithValue
  <2>3. WithValue(b, Block(s)).value = Block(s)
    BY StagedValue, SMTT(60)
  <2>4. ValueIs(c, n, WithValue(b, Block(s)))
    BY <1>4, <2>1, <2>3 DEF ValueIs
  <2>5. b.type \in {"STR", "ANY"} /\ c.val.kind # "ref"
    BY <1>1, <1>4
  <2> QED BY <2>1, <2>2, <2>4, <2>5, AddBlock
<1>5. CASE TypeOf(c) \notin {"STR", "ANY"}
  <2>1. PICK k : k = c.val.str[1]
    OBVIOUS
  <2>2. \/ PlainValue(c, b, TypeOf(c)) = Fail(b)
        \/ PlainValue(c, b, TypeOf(c)) = Ok(WithValue(b, Scalar(k)))
    BY <1>2, <1>5, <2>1 DEF PlainValue, WithValue
  <2>3. WithValue(b, Scalar(k)).value = Scalar(k)
    BY StagedValue, SMTT(60)
  <2>4. ValueIs(c, n, WithValue(b, Scalar(k)))
    BY <1>5, <2>1, <2>3 DEF ValueIs
  <2>5. AddOK(c, n, Ok(WithValue(b, Scalar(k))))
    BY <1>1, <1>5, <2>4, AddScalar
  <2> QED BY <1>3, <2>2, <2>5
<1> QED BY <1>4, <1>5

NewBranch(c, n) ==
  [type |-> "none", name |-> c.name, attr |-> c.attr, flags |-> "PID",
   op_flags |-> c.mods, op |-> c.op, data |-> Null, data_size |-> 0,
   value |-> Null, pos |-> n]

\* The branch ptql_branch_add starts from.
LEMMA NewFields ==
  ASSUME NEW c, NEW n, "GLOB" \notin c.mods
  PROVE  LET b == NewBranch(c, n) IN
         /\ Fresh(b) /\ IsBranch(b) /\ b.type = "none" /\ b.name = c.name /\ b.attr = c.attr
         /\ b.op_flags = c.mods /\ b.op = c.op /\ b.value = Null /\ b.pos = n
BY DEF NewBranch, Fresh, IsBranch, Fields

\* ptql_branch_add makes a branch that can be destroyed, and one that means
\* what the clause says when it succeeds.
LEMMA AddFacts ==
  ASSUME NEW c, IsClause(c), c.mods \subseteq {"PARENT", "ICASE"}, NEW n
  PROVE  AddOK(c, n, ptql_branch_add(c, n))
<1>1. PICK new : new = NewBranch(c, n)
  OBVIOUS
<1>2. PICK init : init = Init_(c, new)
  OBVIOUS
<1>3. PICK b : b = WithType(init.b, TypeOf(c))
  OBVIOUS
<1>4. /\ Fresh(new) /\ IsBranch(new) /\ new.type = "none" /\ new.name = c.name /\ new.attr = c.attr
      /\ new.op_flags = c.mods /\ new.op = c.op /\ new.value = Null /\ new.pos = n
  BY <1>1, NewFields, SMTT(60)
<1>5. InitOK(c, new, init)
  BY <1>2, <1>4, InitFacts
<1>6. PICK F : Extra(new, init.b, F) /\ (init.ok => (IsPid(c) <=> "PID" \in F))
  BY <1>5 DEF InitOK
<1>7. F \in SUBSET {"GLOB", "PID"} /\ init.b.op_flags = c.mods \cup F
  BY <1>4, <1>6 DEF Extra
<1>8. /\ "REF" \notin init.b.op_flags /\ ("PID" \in init.b.op_flags <=> "PID" \in F)
      /\ "PARENT" \in init.b.op_flags <=> "PARENT" \in c.mods
      /\ "ICASE" \in init.b.op_flags <=> "ICASE" \in c.mods
  BY <1>7
<1>9. Sized(c, new)
  BY <1>4, SizedNull DEF Fresh
<1>10. "REF" \notin c.mods
  OBVIOUS
<1>11. Staged(c, n, new)
  BY <1>4, <1>9 DEF Staged
<1>12. Staged(c, n, init.b) /\ init.b.value = Null /\ init.b.type = "none"
  <2>1. Inited(new, init.b) /\ Sized(c, init.b)
    BY <1>5 DEF InitOK
  <2> QED BY <1>4, <1>8, <2>1 DEF Staged, Inited
<1>13. Staged(c, n, b) /\ b.type = TypeOf(c) /\ b.op_flags = init.b.op_flags /\ b.value = Null
  BY <1>3, <1>12, StagedType, SMTT(60)
<1>14. "REF" \notin b.op_flags
  BY <1>8, <1>13
<1>15. AddOK(c, n, Fail(new)) /\ AddOK(c, n, Fail(b))
  BY <1>4, <1>10, <1>11, <1>13, <1>14, AddFailed
<1>16. ASSUME ~init.ok PROVE AddOK(c, n, init)
  <2>1. init.ok \in BOOLEAN
    BY <1>5 DEF InitOK
  <2>2. Null.kind # "block"
    BY DEF Null, Union
  <2>3. ValueOK(c, init.b)
    BY <1>8, <1>12, <2>2 DEF ValueOK
  <2> QED BY <1>12, <1>16, <2>1, <2>3 DEF AddOK
<1> DEFINE wrong == \/ c.op \notin NumOps \cup StrOnly
                    \/ c.name \notin DOMAIN ptql_map \cup AnyMethods
                    \/ c.name \in DOMAIN ptql_map /\ c.attr \notin DOMAIN ptql_map[c.name]
           unfit == c.name \in DOMAIN ptql_map /\ TypeOf(c) # "STR" /\ c.op \in StrOnly
<1>17. ASSUME ~wrong, init.ok, ~unfit PROVE Sorts(c, b)
  BY <1>6, <1>8, <1>13, <1>17 DEF Sorts, IsStd
<1>18. ptql_branch_add(c, n) =
         IF wrong THEN Fail(new) ELSE IF ~init.ok THEN init ELSE IF unfit THEN Fail(b)
         ELSE IF c.val.kind # "lit" THEN DollarValue(c, b, n) ELSE PlainValue(c, b, TypeOf(c))
  BY <1>1, <1>2, <1>3 DEF ptql_branch_add, NewBranch, WithType, TypeOf, IsStd
<1> HIDE DEF wrong, unfit
<1>19. CASE wrong
  BY <1>15, <1>18, <1>19
<1>20. CASE ~wrong /\ ~init.ok
  BY <1>16, <1>18, <1>20
<1>21. CASE ~wrong /\ init.ok /\ unfit
  BY <1>15, <1>18, <1>21
<1>22. CASE ~wrong /\ init.ok /\ ~unfit /\ c.val.kind # "lit"
  BY <1>13, <1>14, <1>17, <1>18, <1>22, AddDollar
<1>23. CASE ~wrong /\ init.ok /\ ~unfit /\ c.val.kind = "lit"
  BY <1>13, <1>14, <1>17, <1>18, <1>23, AddPlain
<1> QED BY <1>19, <1>20, <1>21, <1>22, <1>23

\* Only flags, data and the GLOB flag tell what a branch was told.
LEMMA ToldSame ==
  ASSUME NEW c, NEW b, NEW d, Told(c, b), d.flags = b.flags, d.data = b.data,
         "GLOB" \in d.op_flags <=> "GLOB" \in b.op_flags
  PROVE  Told(c, d)
BY DEF Told

\* ptql_branch_add leaves what init told a branch.
LEMMA ToldAdd ==
  ASSUME NEW c, IsClause(c), c.mods \subseteq {"PARENT", "ICASE"}, NEW n, ptql_branch_add(c, n).ok
  PROVE  Told(c, ptql_branch_add(c, n).b)
<1>1. PICK new : new = NewBranch(c, n)
  OBVIOUS
<1>2. PICK init : init = Init_(c, new)
  OBVIOUS
<1>3. PICK b : b = WithType(init.b, TypeOf(c))
  OBVIOUS
<1>4. PICK r : r = ptql_branch_add(c, n)
  OBVIOUS
<1>5. InitOK(c, new, init)
  BY <1>1, <1>2, NewFields, InitFacts
<1>6. \/ r = Fail(new)
      \/ r = init /\ ~init.ok
      \/ r = Fail(b)
      \/ init.ok /\ (r = DollarValue(c, b, n) \/ r = PlainValue(c, b, TypeOf(c)))
  BY <1>1, <1>2, <1>3, <1>4 DEF ptql_branch_add, NewBranch, WithType, TypeOf, IsStd
<1>7. init.ok /\ (r = DollarValue(c, b, n) \/ r = PlainValue(c, b, TypeOf(c)))
  BY <1>4, <1>6, Results
<1>8. IsBranch(init.b) /\ Told(c, init.b)
  BY <1>5, <1>7 DEF InitOK, Inited
<1>9. IsBranch(b) /\ b.flags = init.b.flags /\ b.data = init.b.data /\ b.op_flags = init.b.op_flags
  BY <1>3, <1>8, SetType
<1>10. Told(c, b)
  BY <1>8, <1>9, ToldSame
<1>11. PICK F : F = b.op_flags \cup {"REF"}
  OBVIOUS
<1>12. \/ \E x : r.b = WithValue(b, x)
       \/ \E x : r.b = WithValue(WithOpFlags(b, F), x)
  <2>1. CASE r = DollarValue(c, b, n)
    <3>1. PICK x : x = Scalar(c.val.num - 1)
      OBVIOUS
    <3>2. PICK d : d = [b EXCEPT !.op_flags = @ \cup {"REF"}, !.value = x]
      OBVIOUS
    <3>3. d = WithValue(WithOpFlags(b, F), x)
      BY <1>9, <1>11, <3>2 DEF WithValue, WithOpFlags, IsBranch, Fields
    <3>4. \/ r = Fail(b)
          \/ r = Ok(d)
          \/ r = Fail(d)
          \/ \E y : r = Ok(WithValue(b, y))
      BY <2>1, <3>1, <3>2 DEF DollarValue, WithValue
    <3> QED BY <1>4, <3>3, <3>4, Results
  <2>2. CASE r = PlainValue(c, b, TypeOf(c))
    <3>1. r = Fail(b) \/ \E y : r = Ok(WithValue(b, y))
      BY <2>2 DEF PlainValue, WithValue
    <3> QED BY <1>4, <3>1, Results
  <2> QED BY <1>7, <2>1, <2>2
<1>13. CASE \E x : r.b = WithValue(b, x)
  <2>1. PICK e : e = r.b
    OBVIOUS
  <2>2. e.flags = b.flags /\ e.data = b.data /\ e.op_flags = b.op_flags
    <3>1. PICK x : e = WithValue(b, x)
      BY <1>13, <2>1
    <3> QED BY <1>9, <3>1, SetValue
  <2>3. Told(c, e)
    BY <1>10, <2>2, ToldSame
  <2> QED BY <1>4, <2>1, <2>3
<1>14. CASE \E x : r.b = WithValue(WithOpFlags(b, F), x)
  <2>1. PICK d : d = WithOpFlags(b, F)
    OBVIOUS
  <2>2. IsBranch(d) /\ d.flags = b.flags /\ d.data = b.data /\ d.op_flags = F
    BY <1>9, <2>1, SetOpFlags
  <2>3. "GLOB" \in F <=> "GLOB" \in b.op_flags
    BY <1>11
  <2>4. Told(c, d)
    BY <1>10, <2>2, <2>3, ToldSame
  <2>5. PICK e : e = r.b
    OBVIOUS
  <2>6. e.flags = d.flags /\ e.data = d.data /\ e.op_flags = d.op_flags
    <3>1. PICK x : e = WithValue(d, x)
      BY <1>14, <2>1, <2>5
    <3> QED BY <2>2, <3>1, SetValue
  <2>7. Told(c, e)
    BY <2>4, <2>6, ToldSame
  <2> QED BY <1>4, <2>5, <2>7
<1> QED BY <1>12, <1>13, <1>14

-----------------------------------------------------------------------------
(* Lists of processes.                                                     *)

Rng(s) == {s[n] : n \in 1..Len(s)}

Distinct(s) == \A m, n \in 1..Len(s) : m # n => s[m] # s[n]

-----------------------------------------------------------------------------
(* The branches of a query.                                                *)

\* b is branch a, but for the buffer that matching fills.
Alike(b, a) ==
  /\ IsBranch(b) /\ b.type = a.type /\ b.name = a.name /\ b.attr = a.attr /\ b.flags = a.flags
  /\ b.op_flags = a.op_flags /\ b.op = a.op /\ b.value = a.value /\ b.pos = a.pos
  /\ IsUnion(b.data)
  /\ \/ b.data = a.data /\ b.data_size = a.data_size
     \/ b.type # "ANY" /\ b.data.kind = "block" /\ b.data_size = 1

\* Clause k of the text t, and what ptql_branch_add makes of it.
ClauseOf(t, k) == ptql_branch_parse(t[k])

Adds(t, k) == ptql_branch_add(ClauseOf(t, k), k)

\* b is the branch of a clause of t.
Entry(b, t) ==
  b.pos \in 1..Len(t) /\ ParseOK(t[b.pos]) /\ Alike(b, Adds(t, b.pos).b)

HasRef(bs) == \E k \in 1..Len(bs) : "REF" \in bs[k].op_flags

ListOK(bs, t) ==
  /\ \A k \in 1..Len(bs) : Entry(bs[k], t)
  /\ \A m, n \in 1..Len(bs) : m # n => bs[m].pos # bs[n].pos

InOrder(bs) == \A k \in 1..Len(bs) : bs[k].pos = k

AllOk(bs, t) == \A k \in 1..Len(bs) : Adds(t, bs[k].pos).ok

\* Clause k of a text, parsed and added.
LEMMA ClauseFacts ==
  ASSUME NEW t, IsText(t), NEW k \in 1..Len(t), ParseOK(t[k])
  PROVE  /\ IsClause(ClauseOf(t, k)) /\ ClauseOf(t, k).val = t[k].val
         /\ ClauseOf(t, k).mods \subseteq {"PARENT", "ICASE"}
         /\ AddOK(ClauseOf(t, k), k, Adds(t, k))
<1>1. PICK c : c = t[k]
  OBVIOUS
<1>2. IsClause(c)
  BY <1>1 DEF IsText
<1>3. c.mods \subseteq {"PARENT", "ICASE"}
  BY <1>1 DEF ParseOK
<1>4. PICK d : d = ptql_branch_parse(c)
  OBVIOUS
<1>5. IsClause(d) /\ d.val = c.val /\ d.mods = c.mods
  <2>1. CASE c.attr = "Service"
    <3>1. d = [c EXCEPT !.name = "Service", !.attr = "Name"]
      BY <1>4, <2>1 DEF ptql_branch_parse
    <3>2. PICK e : e = [c EXCEPT !.name = "Service"]
      OBVIOUS
    <3>3. e = [name |-> "Service", attr |-> c.attr, mods |-> c.mods, op |-> c.op, val |-> c.val]
      BY <1>2, <3>2 DEF IsClause
    <3>4. d = [e EXCEPT !.attr = "Name"]
      BY <3>1, <3>2
    <3>5. d = [name |-> "Service", attr |-> "Name", mods |-> c.mods, op |-> c.op, val |-> c.val]
      BY <3>3, <3>4
    <3> QED BY <1>2, <3>5 DEF IsClause
  <2>2. CASE c.attr # "Service"
    BY <1>2, <1>4, <2>2 DEF ptql_branch_parse
  <2> QED BY <2>1, <2>2
<1>6. AddOK(d, k, ptql_branch_add(d, k))
  BY <1>3, <1>5, AddFacts
<1> QED BY <1>1, <1>3, <1>4, <1>5, <1>6 DEF ClauseOf, Adds

\* What is known of a branch in the list: the destructor frees memory only,
\* and forgets the value of a variable or an empty name.
LEMMA EntryFacts ==
  ASSUME NEW t, IsText(t), NEW b, Entry(b, t)
  PROVE  LET c == ClauseOf(t, b.pos) IN
         /\ IsClause(c) /\ c.val = t[b.pos].val /\ c.mods \subseteq {"PARENT", "ICASE"}
         /\ b.name = c.name /\ b.attr = c.attr /\ b.op = c.op
         /\ "PARENT" \in b.op_flags <=> "PARENT" \in c.mods
         /\ "ICASE" \in b.op_flags <=> "ICASE" \in c.mods
         /\ IsUnion(b.data) /\ ValueOK(c, b)
         /\ b.data_size \in Nat /\ (b.data.kind = "block" \/ b.data_size = 0)
         /\ b.data.kind = "block" /\ b.data_size = 0 => Bare(c)
         /\ Adds(t, b.pos).ok => Meant(c, b.pos, b)
<1>1. PICK k \in 1..Len(t) : k = b.pos /\ ParseOK(t[k])
  BY DEF Entry
<1>2. PICK c : c = ClauseOf(t, k)
  OBVIOUS
<1>3. PICK r : r = Adds(t, k)
  OBVIOUS
<1>4. IsClause(c) /\ c.val = t[k].val /\ c.mods \subseteq {"PARENT", "ICASE"} /\ AddOK(c, k, r)
  BY <1>1, <1>2, <1>3, ClauseFacts
<1>5. Alike(b, r.b)
  BY <1>1, <1>3 DEF Entry
<1>6. /\ b.name = c.name /\ b.attr = c.attr /\ b.op = c.op
      /\ "PARENT" \in b.op_flags <=> "PARENT" \in c.mods
      /\ "ICASE" \in b.op_flags <=> "ICASE" \in c.mods
  BY <1>4, <1>5 DEF Alike, AddOK, Staged
<1>7. ValueOK(c, b)
  <2>1. b.type = r.b.type /\ b.op_flags = r.b.op_flags /\ b.value = r.b.value
    BY <1>5 DEF Alike
  <2>2. ValueOK(c, r.b)
    BY <1>4 DEF AddOK
  <2> QED BY <2>1, <2>2, SMTT(60) DEF ValueOK
<1>8. /\ b.data_size \in Nat /\ (b.data.kind = "block" \/ b.data_size = 0)
      /\ b.data.kind = "block" /\ b.data_size = 0 => Bare(c)
  <2>1. Sized(c, r.b)
    BY <1>4 DEF AddOK, Staged
  <2>2. CASE b.data = r.b.data /\ b.data_size = r.b.data_size
    BY <2>1, <2>2 DEF Sized
  <2>3. CASE b.data.kind = "block" /\ b.data_size = 1
    BY <2>3, SMTT(60)
  <2> QED BY <1>5, <2>2, <2>3 DEF Alike
<1>9. ASSUME r.ok PROVE Meant(c, k, b)
  <2>1. b.type = r.b.type /\ b.op_flags = r.b.op_flags /\ b.value = r.b.value
    BY <1>5 DEF Alike
  <2>2. Meant(c, k, r.b)
    BY <1>4, <1>9 DEF AddOK
  <2>3. Sorts(c, b)
    BY <2>1, <2>2, SortsSame DEF Meant
  <2>4. ValueIs(c, k, b)
    BY <2>1, <2>2 DEF Meant, ValueIs
  <2> QED BY <2>1, <2>2, <2>3, <2>4 DEF Meant
<1>10. IsUnion(b.data)
  BY <1>5 DEF Alike
<1> QED BY <1>1, <1>2, <1>3, <1>4, <1>6, <1>7, <1>8, <1>9, <1>10

\* b is the branch of clause c.
EntryMeans(c, b, t) ==
  /\ IsClause(c) /\ c.val = t[b.pos].val
  /\ b.name = c.name /\ b.attr = c.attr /\ b.op = c.op
  /\ "PARENT" \in b.op_flags <=> "PARENT" \in c.mods
  /\ "ICASE" \in b.op_flags <=> "ICASE" \in c.mods
  /\ Adds(t, b.pos).ok => Meant(c, b.pos, b)

\* The same of a branch as of its clause.
LEMMA EntryMeaning ==
  ASSUME NEW t, IsText(t), NEW b, Entry(b, t)
  PROVE  EntryMeans(ClauseOf(t, b.pos), b, t)
BY EntryFacts DEF EntryMeans

\* A branch in the list still has what its clause told it.
LEMMA EntryTold ==
  ASSUME NEW t, IsText(t), NEW b, Entry(b, t), Adds(t, b.pos).ok
  PROVE  Told(ClauseOf(t, b.pos), b)
<1>1. PICK c : c = ClauseOf(t, b.pos)
  OBVIOUS
<1>2. PICK a : a = Adds(t, b.pos).b
  OBVIOUS
<1>3. b.pos \in 1..Len(t) /\ ParseOK(t[b.pos]) /\ Alike(b, a)
  BY <1>2 DEF Entry
<1>4. IsClause(c) /\ c.mods \subseteq {"PARENT", "ICASE"}
  BY <1>1, <1>3, ClauseFacts
<1>5. Told(c, a)
  BY <1>1, <1>2, <1>4, ToldAdd DEF Adds
<1>6. CASE b.data = a.data
  BY <1>1, <1>3, <1>5, <1>6, ToldSame DEF Alike
<1>7. CASE b.type # "ANY"
  <2>1. b.type = TypeOf(c)
    BY <1>1, EntryMeaning DEF EntryMeans, Meant, Sorts
  <2>2. IsStd(c)
    BY <1>7, <2>1 DEF TypeOf
  <2>3. c.name \in {"Time", "Cpu", "CredName", "Mem", "Exe", "Cred", "State", "Fd", "Disk_IO"}
    BY <2>2 DEF IsStd, ptql_map
  <2> QED BY <1>1, <2>3 DEF Told
<1> QED BY <1>3, <1>6, <1>7 DEF Alike

\* What ptql_branch_add makes of clause k may stand in the list.
LEMMA AddsEntry ==
  ASSUME NEW t, IsText(t), NEW k \in 1..Len(t), ParseOK(t[k])
  PROVE  Entry(Adds(t, k).b, t) /\ Adds(t, k).b.pos = k
<1>1. PICK b : b = Adds(t, k).b
  OBVIOUS
<1>2. AddOK(ClauseOf(t, k), k, Adds(t, k))
  BY ClauseFacts
<1>3. b.pos = k /\ IsBranch(b) /\ IsUnion(b.data)
  BY <1>1, <1>2 DEF AddOK, Staged, Sized
<1>4. Alike(b, b)
  BY <1>3 DEF Alike
<1> QED BY <1>1, <1>3, <1>4 DEF Entry

\* A buffer keeps a branch an entry.
LEMMA BufferEntry ==
  ASSUME NEW t, NEW b, Entry(b, t), b.type # "ANY", NEW u, IsUnion(u), u.kind = "block"
  PROVE  LET d == WithSize(WithData(b, u), 1) IN
         /\ Entry(d, t) /\ d.pos = b.pos /\ d.type = b.type /\ d.op_flags = b.op_flags /\ d.data = u
         /\ d.flags = b.flags
<1>1. PICK e : e = WithData(b, u)
  OBVIOUS
<1>2. PICK d : d = WithSize(e, 1)
  OBVIOUS
<1>3. IsBranch(b)
  BY DEF Entry, Alike
<1>4. /\ Inited(b, e) /\ IsBranch(e)
      /\ e.op_flags = b.op_flags /\ e.flags = b.flags /\ e.data = u
  BY <1>1, <1>3, SetData
<1>5. /\ Inited(e, d) /\ IsBranch(d)
      /\ d.op_flags = e.op_flags /\ d.flags = e.flags /\ d.data = u /\ d.data_size = 1
  BY <1>2, <1>4, SetSize, SMTT(60)
<1>6. d.type = b.type /\ d.name = b.name /\ d.attr = b.attr /\ d.op = b.op /\ d.value = b.value /\ d.pos = b.pos
  BY <1>4, <1>5 DEF Inited
<1>7. Alike(d, Adds(t, d.pos).b)
  BY <1>4, <1>5, <1>6 DEF Entry, Alike
<1> QED BY <1>1, <1>2, <1>4, <1>5, <1>6, <1>7 DEF Entry

\* Destroying an entry frees memory only.
LEMMA EntrySafe ==
  ASSUME NEW t, IsText(t), NEW b, Entry(b, t)
  PROVE  /\ FreesData(b) => b.data.kind = "block"
         /\ FreesValue(b) => b.value.kind = "block"
<1>1. PICK c : c = ClauseOf(t, b.pos)
  OBVIOUS
<1>2. ValueOK(c, b) /\ (b.data.kind = "block" \/ b.data_size = 0)
  BY <1>1, EntryFacts
<1>3. ~(0 > 0)
  BY SMTT(60)
<1>4. FreesData(b) => b.data.kind = "block"
  BY <1>2, <1>3 DEF FreesData
<1>5. ~NonNull(Null)
  BY DEF NonNull, Null, Union
<1>6. FreesValue(b) => b.value.kind = "block"
  BY <1>2, <1>5 DEF FreesValue, ValueOK
<1> QED BY <1>4, <1>6

\* The blocks that destroying a branch forgets.
LEMMA LeaksType == \A b : Leaks(b) \in Nat
BY SMTT(60) DEF Leaks

\* A destroyed branch forgets memory only if its clause is of the kinds
\* that do.
LEMMA EntryLeaks ==
  ASSUME NEW t, IsText(t), NEW b, Entry(b, t), Leaks(b) # 0
  PROVE  Unseen(ClauseOf(t, b.pos))
<1>1. PICK c : c = ClauseOf(t, b.pos)
  OBVIOUS
<1>2. /\ ValueOK(c, b) /\ b.data_size \in Nat
      /\ b.data.kind = "block" /\ b.data_size = 0 => Bare(c)
  BY <1>1, EntryFacts
<1>3. \/ b.data.kind = "block" /\ ~FreesData(b)
      \/ b.value.kind = "block" /\ ~FreesValue(b)
  BY SMTT(60) DEF Leaks
<1>4. CASE b.data.kind = "block" /\ ~FreesData(b)
  <2>1. ~(b.data_size > 0)
    BY <1>4 DEF FreesData, NonNull
  <2>2. b.data_size = 0
    BY <1>2, <2>1, SMTT(60)
  <2> QED BY <1>1, <1>2, <1>4, <2>2 DEF Unseen, Bare
<1>5. CASE b.value.kind = "block" /\ ~FreesValue(b)
  <2>1. "REF" \notin b.op_flags
    BY <1>2, <1>5 DEF ValueOK
  <2>2. b.type \notin {"STR", "ANY"}
    BY <1>5, <2>1 DEF FreesValue, NonNull
  <2> QED BY <1>1, <1>2, <1>5, <2>2 DEF Unseen, ValueOK
<1> QED BY <1>3, <1>4, <1>5

\* query_create is about to add the branch of clause n of t to bs, and has.
Adding(t, bs, n) ==
  /\ IsText(t) /\ (\E S : bs \in Seq(S)) /\ ListOK(bs, t) /\ InOrder(bs) /\ AllOk(bs, t)
  /\ n \in 1..Len(t) /\ n = Len(bs) + 1 /\ ParseOK(t[n])

HasAdded(t, cs, n) ==
  /\ (\E S : cs \in Seq(S)) /\ Len(cs) = n /\ ListOK(cs, t) /\ InOrder(cs)
  /\ Adds(t, n).ok => AllOk(cs, t)

\* Appending the branch of the next clause keeps the list in order.
LEMMA ListAppend ==
  ASSUME NEW t, NEW bs, NEW n, Adding(t, bs, n)
  PROVE  HasAdded(t, Append(bs, Adds(t, n).b), n)
<1> USE DEF Adding
<1>a. PICK S : bs \in Seq(S)
  OBVIOUS
<1>0. PICK cs : cs = Append(bs, Adds(t, n).b)
  OBVIOUS
<1>1. PICK b : b = Adds(t, n).b
  OBVIOUS
<1>2. Entry(b, t) /\ b.pos = n
  BY <1>1, AddsEntry
<1> HIDE DEF Adding
<1>3. cs = Append(bs, b)
  BY <1>0, <1>1
<1>4. cs \in Seq(S \cup {b}) /\ Len(cs) = n
  BY <1>3, <1>a, SMTT(60) DEF Adding
<1>5. ASSUME NEW k \in 1..n PROVE (k # n => k \in 1..Len(bs) /\ cs[k] = bs[k]) /\ (k = n => cs[k] = b)
  BY <1>3, <1>a, SMTT(60) DEF Adding
<1>6. ASSUME NEW k \in 1..n PROVE Entry(cs[k], t) /\ cs[k].pos = k /\ (Adds(t, n).ok => Adds(t, k).ok)
  <2>1. CASE k = n
    BY <1>2, <1>5, <2>1
  <2>2. CASE k # n
    <3>1. k \in 1..Len(bs) /\ cs[k] = bs[k]
      BY <1>5, <2>2
    <3>2. Entry(bs[k], t) /\ bs[k].pos = k /\ Adds(t, bs[k].pos).ok
      BY <3>1 DEF Adding, ListOK, InOrder, AllOk
    <3> QED BY <3>1, <3>2
  <2> QED BY <2>1, <2>2
<1>7. InOrder(cs) /\ (Adds(t, n).ok => AllOk(cs, t))
  BY <1>4, <1>6 DEF InOrder, AllOk
<1>8. ListOK(cs, t)
  <2>1. ASSUME NEW k \in 1..n, NEW l \in 1..n, k # l PROVE cs[k].pos # cs[l].pos
    BY <1>6, <2>1
  <2> QED BY <1>4, <1>6, <2>1 DEF ListOK
<1> QED BY <1>0, <1>4, <1>7, <1>8 DEF HasAdded

\* It sorts the list, unless a branch is a reference.
LEMMA ListSort ==
  ASSUME NEW t, NEW S, NEW bs \in Seq(S), ListOK(bs, t), InOrder(bs), AllOk(bs, t),
         NEW cs \in Sorted(bs)
  PROVE  /\ cs \in Seq(S) /\ Len(cs) = Len(bs) /\ ListOK(cs, t) /\ AllOk(cs, t)
         /\ HasRef(cs) => InOrder(cs)
<1>1. CASE HasRef(bs)
  <2>1. cs = bs
    BY <1>1 DEF Sorted, HasRef
  <2> QED BY <2>1
<1>2. CASE ~HasRef(bs)
  <2>1. PICK n \in Nat : n = Len(bs)
    BY SMTT(60)
  <2>2. PICK p \in [1..n -> 1..n] : /\ \A a, b \in 1..n : a # b => p[a] # p[b]
                                   /\ cs = [k \in 1..n |-> bs[p[k]]]
    BY <1>2, <2>1 DEF Sorted, HasRef
  <2>3. ASSUME NEW k \in 1..n PROVE p[k] \in 1..n /\ cs[k] = bs[p[k]]
    BY <2>2
  <2>4. cs \in [1..n -> S]
    BY <2>1, <2>2, SMTT(60)
  <2>5. cs \in Seq(S) /\ Len(cs) = n
    BY <2>1, <2>4, SMTT(60)
  <2>6. ListOK(cs, t)
    <3>1. ASSUME NEW k \in 1..n, NEW l \in 1..n, k # l PROVE cs[k].pos # cs[l].pos
      <4>1. p[k] \in 1..n /\ p[l] \in 1..n /\ p[k] # p[l]
        BY <2>2, <2>3, <3>1
      <4>2. bs[p[k]].pos # bs[p[l]].pos
        BY <2>1, <4>1 DEF ListOK
      <4> QED BY <2>3, <4>2
    <3>2. ASSUME NEW k \in 1..n PROVE Entry(cs[k], t)
      BY <2>1, <2>3 DEF ListOK
    <3> QED BY <2>5, <3>1, <3>2 DEF ListOK
  <2>7. AllOk(cs, t)
    BY <2>1, <2>3, <2>5 DEF AllOk
  <2>8. ~HasRef(cs)
    BY <1>2, <2>1, <2>3, <2>5 DEF HasRef
  <2> QED BY <2>1, <2>5, <2>6, <2>7, <2>8
<1> QED BY <1>1, <1>2

\* Matching fills the buffer of branch n.
Fills(bs, n, u, cs) ==
  /\ IsUnion(u) /\ u.kind = "block" /\ bs[n].type # "ANY"
  /\ cs = [bs EXCEPT ![n] = WithSize(WithData(bs[n], u), 1)]

\* The branches of a query that was created.
Complete(bs, t) ==
  (\E S : bs \in Seq(S)) /\ ListOK(bs, t) /\ AllOk(bs, t) /\ (HasRef(bs) => InOrder(bs))

\* Filling the buffer of a branch leaves the list as good as it was.
LEMMA ListBuffer ==
  ASSUME NEW t, NEW bs, Complete(bs, t), NEW n \in 1..Len(bs), NEW u, NEW cs, Fills(bs, n, u, cs)
  PROVE  Complete(cs, t) /\ Len(cs) = Len(bs)
<1>a. PICK S : bs \in Seq(S)
  BY DEF Complete
<1>1. PICK d : d = WithSize(WithData(bs[n], u), 1)
  OBVIOUS
<1>2. Entry(bs[n], t) /\ IsUnion(u) /\ u.kind = "block" /\ bs[n].type # "ANY"
  BY DEF Complete, ListOK, Fills
<1>3. Entry(d, t) /\ d.pos = bs[n].pos /\ d.op_flags = bs[n].op_flags
  BY <1>1, <1>2, BufferEntry, SMTT(60)
<1>4. cs = [bs EXCEPT ![n] = d]
  BY <1>1 DEF Fills
<1>5. cs \in Seq(S \cup {d}) /\ Len(cs) = Len(bs) /\ cs[n] = d
  BY <1>a, <1>4, SMTT(60)
<1>6. ASSUME NEW k \in 1..Len(bs), k # n PROVE cs[k] = bs[k]
  BY <1>a, <1>4, <1>6, SMTT(60)
<1>7. ASSUME NEW k \in 1..Len(bs)
      PROVE  Entry(cs[k], t) /\ cs[k].pos = bs[k].pos /\ cs[k].op_flags = bs[k].op_flags
  <2>1. CASE k = n
    BY <1>3, <1>5, <2>1
  <2>2. CASE k # n
    BY <1>6, <2>2 DEF Complete, ListOK
  <2> QED BY <2>1, <2>2
<1>8. ListOK(cs, t)
  <2>1. ASSUME NEW k \in 1..Len(bs), NEW l \in 1..Len(bs), k # l PROVE cs[k].pos # cs[l].pos
    <3>1. bs[k].pos # bs[l].pos
      BY <2>1 DEF Complete, ListOK
    <3> QED BY <1>7, <3>1
  <2> QED BY <1>5, <1>7, <2>1 DEF ListOK
<1>9. AllOk(cs, t)
  BY <1>5, <1>7 DEF Complete, AllOk
<1>10. HasRef(cs) => InOrder(cs)
  BY <1>5, <1>7 DEF Complete, HasRef, InOrder
<1> QED BY <1>5, <1>8, <1>9, <1>10 DEF Complete

-----------------------------------------------------------------------------
(* The query from its creation to its destruction.                         *)

Finding == {"ready", "filter", "list", "match"}

\* Every branch is that of a clause; they are in the order of the clauses
\* until they are sorted, and then too if there is a reference.
Filed ==
  /\ ListOK(branches, text)
  /\ pc # "failed" => AllOk(branches, text)
  /\ pc \notin Finding \/ HasRef(branches) => InOrder(branches)
  /\ pc \in Finding => Len(branches) = Len(text) /\ Len(text) >= 1
  /\ pc = "create" => Len(branches) < Len(text) \/ text = << >>

\* The text and the list of branches.
Query ==
  /\ text \in Host.texts \cup {<< >>} /\ IsText(text)
  /\ \E S : branches \in Seq(S)
  /\ size \in Nat /\ Len(branches) <= size /\ lost \in Nat
  /\ pc \in {"idle", "create", "failed", "ready", "filter", "list", "match"}
  /\ Filed

\* The state of the host.
Kernel ==
  /\ host \in DOMAIN Hosts
  /\ proc \in [Pid -> Host.procs \cup {NoProc}] /\ os \in Host.os /\ changes \in 0..Host.changes

\* The kernel starts with the processes of some host.
LEMMA KernelInit == Init => Kernel
<1> SUFFICES ASSUME Init PROVE Kernel
  OBVIOUS
<1>1. Host.changes \in Nat
  BY PtqlAssumption DEF Init, Host
<1>2. changes \in 0..Host.changes
  BY <1>1, SMTT(60) DEF Init
<1> QED BY <1>2 DEF Init, Kernel

\* A step that leaves the kernel alone keeps its state sound.
LEMMA KernelKept == Kernel /\ UNCHANGED kernel => Kernel'
BY DEF Kernel, kernel, Host

\* Changing one value of a function keeps its type.
LEMMA Updated ==
  ASSUME NEW A, NEW Q, NEW f \in [A -> Q], NEW p, NEW r \in Q
  PROVE  [f EXCEPT ![p] = r] \in [A -> Q]
OBVIOUS

\* Processes come, go and change within their host.
LEMMA KernelNext == Kernel /\ KernelStep => Kernel'
<1> SUFFICES ASSUME Kernel, KernelStep PROVE Kernel'
  OBVIOUS
<1>1. host' = host /\ Host' = Host /\ host \in DOMAIN Hosts
  BY DEF KernelStep, Kernel, Host
<1>2. Host.changes \in Nat
  BY <1>1, PtqlAssumption DEF Host
<1>3. changes' \in 0..Host.changes
  BY <1>2, SMTT(60) DEF KernelStep, Kernel
<1>4. proc' \in [Pid -> Host.procs \cup {NoProc}]
  <2>1. CASE UNCHANGED proc
    BY <2>1 DEF Kernel
  <2>2. CASE \E p \in Host.pids, r \in Host.procs \cup {NoProc} : proc' = [proc EXCEPT ![p] = r]
    <3>1. PICK Q : Q = Host.procs \cup {NoProc}
      OBVIOUS
    <3>2. PICK p \in Host.pids, r \in Q : proc' = [proc EXCEPT ![p] = r]
      BY <2>2, <3>1
    <3>3. proc \in [Pid -> Q]
      BY <3>1 DEF Kernel
    <3>4. proc' \in [Pid -> Q]
      BY <3>2, <3>3, Updated
    <3> QED BY <3>1, <3>4
  <2> QED BY <2>1, <2>2 DEF KernelStep
<1>5. os' \in Host.os
  BY DEF KernelStep, Kernel
<1> QED BY <1>1, <1>3, <1>4, <1>5 DEF Kernel

\* No query is a text without clauses.
LEMMA EmptyText == IsText(<< >>) /\ Len(<< >>) = 0
BY SMTT(60) DEF IsText

\* The list without branches.
LEMMA EmptyList ==
  ASSUME NEW t
  PROVE  /\ << >> \in Seq({}) /\ ListOK(<< >>, t) /\ AllOk(<< >>, t) /\ InOrder(<< >>)
<1>1. << >> \in Seq({}) /\ 1..Len(<< >>) = {}
  BY SMTT(60)
<1> QED BY <1>1 DEF ListOK, AllOk, InOrder

\* There is no query at first.
LEMMA QueryInit == Init => Query
<1> SUFFICES ASSUME Init PROVE Query
  OBVIOUS
<1>1. 0 \in Nat /\ 0 <= 0
  BY SMTT(60)
<1>2. text = << >> /\ branches = << >> /\ size = 0 /\ lost = 0 /\ pc = "idle"
  BY DEF Init
<1>3. Filed
  BY <1>2, EmptyList DEF Filed, Finding
<1>4. \E S : branches \in Seq(S)
  BY <1>2, EmptyList
<1>5. size \in Nat /\ Len(branches) <= size /\ lost \in Nat
  BY <1>1, <1>2, EmptyText
<1>6. text \in Host.texts \cup {<< >>} /\ IsText(text)
  BY <1>2, EmptyText
<1> QED BY <1>2, <1>3, <1>4, <1>5, <1>6 DEF Query

\* A step of find that leaves the query alone keeps it sound.
LEMMA QueryKept ==
  ASSUME Query, UNCHANGED <<host, text, branches, size, lost>>,
         pc' = pc \/ (pc \in Finding /\ pc' \in Finding)
  PROVE  Query'
<1>1. Filed'
  BY DEF Query, Filed, Finding
<1>2. pc' \in {"idle", "create", "failed", "ready", "filter", "list", "match"}
  BY DEF Query, Finding
<1> QED BY <1>1, <1>2 DEF Query, Host

\* sigar_ptql_query_create starts with an empty list.
LEMMA QueryCreate ==
  ASSUME Kernel, Query, NEW t \in Host.texts, sigar_ptql_query_create(t)
  PROVE  Query'
<1>1. text' = t /\ branches' = << >> /\ size' = PTQL_BRANCH_LIST_MAX /\ lost' = 0 /\ pc' = "create" /\ Host' = Host
  BY DEF sigar_ptql_query_create, Host, kernel
<1>2. IsText(t)
  BY PtqlAssumption DEF Kernel, Host
<1>3. (\E S : branches' \in Seq(S)) /\ ListOK(branches', t) /\ AllOk(branches', t) /\ InOrder(branches')
  BY <1>1, EmptyList
<1>4. Len(branches') < Len(t) \/ t = << >>
  <2>1. PICK S : t \in Seq(S)
    BY <1>2 DEF IsText
  <2>2. Len(branches') = 0
    BY <1>1, EmptyText
  <2> QED BY <2>1, <2>2, SMTT(60)
<1>5. Filed'
  BY <1>1, <1>3, <1>4 DEF Filed, Finding
<1>6. size' \in Nat /\ Len(branches') <= size' /\ lost' \in Nat
  BY <1>1, EmptyText, PtqlAssumption, SMTT(60)
<1> QED BY <1>1, <1>2, <1>3, <1>5, <1>6 DEF Query

\* A round of the parsing loop adds the branch of its clause, grows and
\* sorts.
LEMMA QueryAdd ==
  ASSUME Query, AddBranch
  PROVE  Query'
<1>1. pc = "create" /\ text' = text /\ lost' = lost /\ Host' = Host
  BY DEF AddBranch, Host, kernel
<1>2. PICK n : n = Len(branches) + 1
  OBVIOUS
<1>3. PICK r : r = Adds(text, n)
  OBVIOUS
<1>4. PICK S : branches \in Seq(S)
  BY DEF Query
<1>5. ListOK(branches, text) /\ AllOk(branches, text) /\ InOrder(branches) /\ IsText(text)
  BY <1>1 DEF Query, Filed, Finding
<1>6. CASE text = << >> \/ ~ParseOK(text[n])
  <2>1. pc' = "failed" /\ branches' = branches /\ size' = size
    BY <1>2, <1>6 DEF AddBranch
  <2>2. Filed'
    BY <1>1, <1>5, <2>1 DEF Filed, Finding
  <2> QED BY <1>1, <2>1, <2>2 DEF Query
<1>7. CASE ~(text = << >> \/ ~ParseOK(text[n]))
  <2>1. /\ size' = Grown(n - 1)
        /\ IF ~r.ok THEN branches' = Append(branches, r.b) /\ pc' = "failed"
           ELSE IF n < Len(text) THEN branches' = Append(branches, r.b) /\ pc' = "create"
           ELSE branches' \in Sorted(Append(branches, r.b)) /\ pc' = "ready"
    BY <1>2, <1>3, <1>7 DEF AddBranch, Adds, ClauseOf
  <2>2. Len(branches) < Len(text)
    BY <1>1, <1>7 DEF Query, Filed
  <2>3. n \in 1..Len(text)
    <3>1. PICK U : text \in Seq(U)
      BY <1>5 DEF IsText
    <3> QED BY <1>2, <1>4, <2>2, <3>1, SMTT(60)
  <2>4. PICK cs : cs = Append(branches, r.b)
    OBVIOUS
  <2>5. PICK V : cs \in Seq(V) /\ Len(cs) = n /\ ListOK(cs, text) /\ InOrder(cs) /\ (r.ok => AllOk(cs, text))
    <3>1. ParseOK(text[n])
      BY <1>7
    <3>2. Adding(text, branches, n)
      BY <1>2, <1>4, <1>5, <2>3, <3>1 DEF Adding
    <3>3. HasAdded(text, cs, n)
      BY <1>3, <2>4, <3>2, ListAppend
    <3> QED BY <1>3, <3>3 DEF HasAdded
  <2>6. size' \in Nat /\ n <= size'
    <3>1. size \in Nat /\ Len(branches) <= size /\ Len(branches) \in Nat
      BY <1>4, SMTT(60) DEF Query
    <3> QED BY <1>2, <2>1, <3>1, PtqlAssumption, SMTT(60) DEF Grown
  <2>7. CASE ~r.ok
    <3>1. branches' = cs /\ pc' = "failed"
      BY <2>1, <2>4, <2>7
    <3>2. Filed'
      BY <1>1, <2>5, <3>1 DEF Filed, Finding
    <3> QED BY <1>1, <2>5, <2>6, <3>1, <3>2 DEF Query
  <2>8. CASE r.ok /\ n < Len(text)
    <3>1. branches' = cs /\ pc' = "create"
      BY <2>1, <2>4, <2>8
    <3>2. Filed'
      BY <1>1, <2>5, <2>8, <3>1 DEF Filed, Finding
    <3> QED BY <1>1, <2>5, <2>6, <3>1, <3>2 DEF Query
  <2>9. CASE r.ok /\ ~(n < Len(text))
    <3>1. branches' \in Sorted(cs) /\ pc' = "ready"
      BY <2>1, <2>4, <2>9
    <3>2. /\ branches' \in Seq(V) /\ Len(branches') = n
          /\ ListOK(branches', text) /\ AllOk(branches', text) /\ (HasRef(branches') => InOrder(branches'))
      BY <2>5, <2>9, <3>1, ListSort
    <3>3. n = Len(text) /\ Len(text) >= 1
      BY <2>3, <2>9, SMTT(60)
    <3>4. Filed'
      BY <1>1, <3>1, <3>2, <3>3 DEF Filed, Finding
    <3> QED BY <1>1, <2>6, <3>1, <3>2, <3>4 DEF Query
  <2> QED BY <2>7, <2>8, <2>9
<1> QED BY <1>6, <1>7

\* Filling the buffer of a branch is two assignments.
LEMMA BufferIs ==
  ASSUME NEW b, IsBranch(b), NEW p
  PROVE  Buffer(b, p) = WithSize(WithData(b, Read(b, p)), 1)
<1>1. PICK u : u = Read(b, p)
  OBVIOUS
<1>2. Buffer(b, p) = [b EXCEPT !.data = u, !.data_size = 1]
  BY <1>1 DEF Buffer
<1> QED BY <1>1, <1>2 DEF WithData, WithSize, IsBranch, Fields

\* What an attribute reads is memory.
LEMMA ReadIs == \A b, p : IsUnion(Read(b, p)) /\ Read(b, p).kind = "block"
BY DEF Read, IsUnion, Union

\* A union made to hold memory holds memory.
LEMMA KindSet ==
  ASSUME NEW u, IsUnion(u)
  PROVE  IsUnion([u EXCEPT !.kind = "block"]) /\ [u EXCEPT !.kind = "block"].kind = "block"
BY SMTT(60) DEF IsUnion, Union

\* The nested assignments of a failing read, as a change of one branch.
LEMMA NestedSet ==
  ASSUME NEW m, NEW S, NEW bs \in [1..m -> S], NEW n \in 1..m, IsBranch(bs[n]), IsUnion(bs[n].data)
  PROVE  [bs EXCEPT ![n].data.kind = "block", ![n].data_size = 1]
           = [bs EXCEPT ![n] = WithSize(WithData(bs[n], [bs[n].data EXCEPT !.kind = "block"]), 1)]
BY DEF WithSize, WithData, IsBranch, Fields, IsUnion, Union

\* A match changes no branch but the one it asks, and of that the buffer
\* only.
LEMMA MatchFills ==
  ASSUME Query, MatchStep, i \in 1..Len(branches)
  PROVE  branches' = branches \/ \E u : Fills(branches, i, u, branches')
<1>1. PICK b : b = branches[i]
  OBVIOUS
<1>2. IsBranch(b) /\ IsUnion(b.data)
  BY <1>1 DEF Query, Filed, ListOK, Entry, Alike
<1>3. CASE b.type = "ANY"
  BY <1>1, <1>3 DEF MatchStep
<1>4. CASE b.type # "ANY"
  <2>1. PICK p : p = IF "PARENT" \in b.op_flags THEN parent ELSE List[j]
    OBVIOUS
  <2>2. CASE Status(b.name, p) # "OK"
    <3>1. branches' = [branches EXCEPT ![i].data.kind = "block", ![i].data_size = 1]
      BY <1>1, <1>4, <2>1, <2>2 DEF MatchStep
    <3>2. PICK S : branches \in [1..Len(branches) -> S]
      <4>1. PICK S : branches \in Seq(S)
        BY DEF Query
      <4> QED BY <4>1, SMTT(60)
    <3>3. PICK u : u = [b.data EXCEPT !.kind = "block"]
      OBVIOUS
    <3>4. branches' = [branches EXCEPT ![i] = WithSize(WithData(branches[i], u), 1)]
      BY <1>1, <1>2, <3>1, <3>2, <3>3, NestedSet
    <3>5. IsUnion(u) /\ u.kind = "block"
      BY <1>2, <3>3, KindSet
    <3> QED BY <1>1, <1>4, <3>4, <3>5 DEF Fills
  <2>3. CASE Status(b.name, p) = "OK"
    <3>1. branches' = [branches EXCEPT ![i] = Buffer(b, p)]
      BY <1>1, <1>4, <2>1, <2>3 DEF MatchStep
    <3>2. Buffer(b, p) = WithSize(WithData(b, Read(b, p)), 1)
      BY <1>2, BufferIs
    <3>3. PICK u : u = Read(b, p)
      OBVIOUS
    <3>4. branches' = [branches EXCEPT ![i] = WithSize(WithData(branches[i], u), 1)]
      BY <1>1, <3>1, <3>2, <3>3
    <3>5. IsUnion(u) /\ u.kind = "block"
      BY <3>3, ReadIs
    <3> QED BY <1>1, <1>4, <3>4, <3>5 DEF Fills
  <2> QED BY <2>2, <2>3
<1> QED BY <1>3, <1>4

\* A match keeps the query sound.
LEMMA QueryFilled ==
  ASSUME Query, pc \in Finding, pc' \in Finding, i \in 1..Len(branches),
         UNCHANGED <<host, text, size, lost>>, NEW u, Fills(branches, i, u, branches')
  PROVE  Query'
<1>1. pc # "failed"
  BY DEF Finding
<1>2. Complete(branches, text) /\ Len(branches) = Len(text) /\ Len(text) >= 1
  BY <1>1 DEF Query, Filed, Complete
<1>3. PICK cs : cs = branches'
  OBVIOUS
<1>4. Complete(cs, text) /\ Len(cs) = Len(branches)
  BY <1>2, <1>3, ListBuffer
<1>5. Filed'
  BY <1>2, <1>3, <1>4 DEF Filed, Finding, Complete
<1>6. pc' \in {"idle", "create", "failed", "ready", "filter", "list", "match"}
  BY DEF Finding
<1> QED BY <1>3, <1>4, <1>5, <1>6 DEF Query, Host, Complete

-----------------------------------------------------------------------------
(* The loops of find.                                                      *)

\* Where the loops are, and what they leave behind.
Loops ==
  /\ shared \in Seq(Pid) /\ pids \in Seq(Pid) /\ out \in Seq(Pid) /\ own \in BOOLEAN
  /\ pc \in {"idle", "create", "failed", "ready"} =>
       i = 0 /\ j = 0 /\ own = FALSE /\ pids = << >> /\ out = << >> /\ parent = NoPid
  /\ pc \in {"filter", "list"} => j = 0 /\ out = << >> /\ parent = NoPid
  /\ pc = "filter" => i \in 1..Len(branches) + 1
  /\ pc = "list" => i \in 1..Len(branches)
  /\ pc = "match" => /\ i \in 1..Len(branches) /\ j \in 1..Len(List) + 1 /\ Len(out) < j
                     /\ i # 1 \/ parent # NoPid => j <= Len(List)
  /\ pc \in {"idle", "create", "failed"} => res = NoRes

Resting == {"idle", "create", "failed", "ready"}

\* No loop runs at first.
LEMMA LoopsInit == Init => Loops
<1>1. << >> \in Seq(Pid)
  BY SMTT(60)
<1> QED BY <1>1 DEF Init, Loops

\* Return leaves the loops.
LEMMA LoopsReturn ==
  ASSUME Loops, shared' \in Seq(Pid), NEW s, NEW l, Return(s, l)
  PROVE  Loops' /\ pc' = "ready"
<1>1. /\ pc' = "ready" /\ own' = FALSE /\ pids' = << >> /\ out' = << >> /\ parent' = NoPid
      /\ i' = 0 /\ j' = 0
  BY DEF Return
<1>2. << >> \in Seq(Pid)
  BY SMTT(60)
<1> QED BY <1>1, <1>2 DEF Loops

\* A step that leaves the loops alone keeps them in bounds.
LEMMA LoopsKept ==
  ASSUME Loops, UNCHANGED <<findVars, pc>>, Len(branches') = Len(branches)
  PROVE  Loops'
BY DEF Loops, findVars, List

\* A step outside find starts no loop.
LEMMA LoopsRest ==
  ASSUME Loops, UNCHANGED <<shared, own, pids, i, j, parent, out>>, pc \in Resting, pc' \in Resting,
         pc' = "ready" \/ res' = NoRes
  PROVE  Loops'
BY DEF Loops, Resting

\* A query that may be used has a first branch.
LEMMA BranchCount ==
  ASSUME Query
  PROVE  Len(branches) \in Nat /\ (pc \in Finding => 1 \in 1..Len(branches))
<1>1. PICK S : branches \in Seq(S)
  BY DEF Query
<1>2. Len(branches) \in Nat
  BY <1>1, SMTT(60)
<1>3. pc \in Finding => Len(branches) >= 1
  BY DEF Query, Filed
<1> QED BY <1>2, <1>3, SMTT(60)

\* find starts at the first branch.
LEMMA LoopsBegin ==
  ASSUME Query, Loops, FindBegin
  PROVE  Loops'
<1>1. /\ pc = "ready" /\ pc' = "filter" /\ i' = 1 /\ branches' = branches
      /\ UNCHANGED <<shared, own, pids, j, parent, out>>
  BY DEF FindBegin, queryVars
<1>2. 1 \in 1..Len(branches) + 1
  BY BranchCount, SMTT(60)
<1> QED BY <1>1, <1>2 DEF Loops

\* The loop over the Pid branches stays in bounds.
LEMMA LoopsFilter ==
  ASSUME Query, Loops, FilterStep
  PROVE  Loops' /\ pc' \in Finding
<1>1. pc = "filter" /\ i <= Len(branches) /\ branches' = branches /\ UNCHANGED <<shared, pids, j, parent, out>>
  BY DEF FilterStep, queryVars
<1>2. own' \in BOOLEAN
  BY DEF Loops, FilterStep
<1>3. (i' = i + 1 /\ pc' = "filter") \/ (pc' = "list" /\ i' = i)
  BY <1>1 DEF FilterStep
<1>4. i \in 1..Len(branches) /\ i + 1 \in 1..Len(branches) + 1
  BY <1>1, BranchCount, SMTT(60) DEF Loops
<1>5. CASE i' = i + 1 /\ pc' = "filter"
  BY <1>1, <1>2, <1>4, <1>5 DEF Loops, Finding
<1>6. CASE pc' = "list" /\ i' = i
  BY <1>1, <1>2, <1>4, <1>6 DEF Loops, Finding
<1> QED BY <1>3, <1>5, <1>6

\* The list that find walks is a list of pids.
LEMMA ListType ==
  ASSUME Loops
  PROVE  List \in Seq(Pid) /\ Len(List) \in Nat
<1>1. List \in Seq(Pid)
  BY DEF Loops, List
<1> QED BY <1>1, SMTT(60)

\* The loop over the processes takes its next one.
LEMMA LoopsNext ==
  ASSUME Query, Loops, pc = "match", j <= Len(List), UNCHANGED shared,
         Len(branches') = Len(branches), NEW st, NextProc(st)
  PROVE  Loops' /\ pc' \in Finding
<1>1. CASE st = "ENOTIMPL"
  BY <1>1, LoopsReturn DEF NextProc, Loops, Finding
<1>2. CASE st # "ENOTIMPL"
  <2>1. j' = j + 1 /\ i' = 1 /\ parent' = NoPid /\ UNCHANGED <<pc, own, pids, out, res>>
    BY <1>2 DEF NextProc
  <2>2. List' = List /\ 1 \in 1..Len(branches)
    BY <2>1, BranchCount DEF List, Finding
  <2>3. j + 1 \in 1..Len(List) + 1 /\ Len(out) < j + 1
    BY ListType, SMTT(60) DEF Loops
  <2> QED BY <2>1, <2>2, <2>3 DEF Loops, Finding
<1> QED BY <1>1, <1>2

\* The answer of a branch moves to the next branch or the next process, in
\* bounds.
LEMMA LoopsAnswer ==
  ASSUME Query, Loops, pc = "match", j <= Len(List), UNCHANGED shared,
         Len(branches') = Len(branches), NEW m, Answer(m)
  PROVE  Loops' /\ pc' \in Finding
<1>1. CASE ~m
  BY <1>1, LoopsNext DEF Answer
<1>2. CASE m /\ i < Len(branches)
  <2>1. i' = i + 1 /\ parent' = NoPid /\ UNCHANGED <<pc, own, pids, j, out, res>>
    BY <1>2 DEF Answer
  <2>2. List' = List
    BY <2>1 DEF List
  <2>3. i + 1 \in 1..Len(branches)
    BY <1>2, BranchCount, SMTT(60) DEF Loops
  <2> QED BY <2>1, <2>2, <2>3 DEF Loops, Finding
<1>3. CASE m /\ ~(i < Len(branches))
  <2>1. out' = Append(out, List[j]) /\ j' = j + 1 /\ i' = 1 /\ parent' = NoPid /\ UNCHANGED <<pc, own, pids, res>>
    BY <1>3 DEF Answer
  <2>2. List' = List /\ 1 \in 1..Len(branches)
    BY <2>1, BranchCount DEF List, Finding
  <2>3. j + 1 \in 1..Len(List) + 1 /\ List[j] \in Pid
    BY ListType, SMTT(60) DEF Loops
  <2>4. out' \in Seq(Pid) /\ Len(out') < j + 1
    <3>1. out \in Seq(Pid) /\ Len(out) < j /\ j \in Int
      BY ListType, SMTT(60) DEF Loops
    <3> QED BY <2>1, <2>3, <3>1, SMTT(60)
  <2> QED BY <2>1, <2>2, <2>3, <2>4 DEF Loops, Finding
<1> QED BY <1>1, <1>2, <1>3

\* Looking up the parent keeps the loops in bounds.
LEMMA LoopsParent ==
  ASSUME Query, Loops, MatchParent
  PROVE  Loops' /\ pc' \in Finding
<1>1. pc = "match" /\ j <= Len(List) /\ shared' = shared /\ branches' = branches
  BY DEF MatchParent, queryVars
<1>2. PICK st : IF st # "OK" THEN NextProc(st)
                ELSE parent' = proc[List[j]].ppid /\ UNCHANGED <<pc, own, pids, i, j, match_pid, out, res>>
  BY DEF MatchParent
<1>3. CASE st # "OK"
  BY <1>1, <1>2, <1>3, LoopsNext
<1>4. CASE st = "OK"
  <2>1. UNCHANGED <<pc, own, pids, i, j, out, res>>
    BY <1>2, <1>4
  <2>2. List' = List
    BY <1>1, <2>1 DEF List
  <2> QED BY <1>1, <2>1, <2>2 DEF Loops, Finding
<1> QED BY <1>3, <1>4

\* A match step answers or gives up, and may fill a buffer.
LEMMA MatchGoes ==
  ASSUME MatchStep
  PROVE  (\E m : Answer(m)) \/ (\E st : NextProc(st))
BY DEF MatchStep

\* A match keeps the loops in bounds and the query sound.
LEMMA LoopsMatch ==
  ASSUME Query, Loops, MatchStep
  PROVE  Loops' /\ Query' /\ pc' \in Finding /\ Len(branches') = Len(branches)
<1>1. /\ pc = "match" /\ j <= Len(List) /\ i \in 1..Len(branches)
      /\ UNCHANGED <<host, text, size, lost, shared>>
  BY DEF MatchStep, kernel, Loops
<1>2. branches' = branches \/ \E u : Fills(branches, i, u, branches')
  BY <1>1, MatchFills
<1>3. Len(branches') = Len(branches)
  <2>1. Complete(branches, text)
    BY <1>1 DEF Query, Filed, Complete, Finding
  <2>2. ASSUME NEW u, Fills(branches, i, u, branches') PROVE Len(branches') = Len(branches)
    <3>1. PICK cs : cs = branches'
      OBVIOUS
    <3> QED BY <1>1, <2>1, <2>2, <3>1, ListBuffer
  <2> QED BY <1>2, <2>2
<1>4. Loops' /\ pc' \in Finding
  BY <1>1, <1>3, MatchGoes, LoopsAnswer, LoopsNext
<1>5. Query'
  BY <1>1, <1>2, <1>4, QueryKept, QueryFilled DEF Finding
<1> QED BY <1>3, <1>4, <1>5

-----------------------------------------------------------------------------
(* What holds of every state.                                              *)

\* Only destroying a query forgets memory.
Clean == pc # "idle" => lost = 0

Basic == Kernel /\ Query /\ Loops /\ Clean

\* The steps of a find, but for those that match a branch.
Search == FindBegin \/ FilterStep \/ ListStep \/ FilterEnd \/ MatchParent \/ FindEnd

\* The basic invariant holds at first.
LEMMA BasicInit == Init => Basic
BY KernelInit, QueryInit, LoopsInit DEF Basic, Clean, Init

\* The basic invariant contains the type invariant.
LEMMA BasicType == Basic => TypeOK
<1> SUFFICES ASSUME Basic PROVE TypeOK
  OBVIOUS
<1>1. Kernel /\ Query /\ Loops
  BY DEF Basic
<1>2. Len(branches) \in Nat /\ Len(List) \in Nat
  BY <1>1, BranchCount, ListType
<1>3. pc = "match" => i \in 1..Len(branches)
  BY <1>1 DEF Loops
<1>4. /\ i \in 0..Len(branches) + 1 /\ j \in 0..Len(List) + 1 /\ Len(out) <= Len(List) + 1
  <2>1. CASE pc = "match"
    <3>1. i \in 1..Len(branches) /\ j \in 1..Len(List) + 1 /\ Len(out) < j /\ out \in Seq(Pid)
      BY <1>1, <2>1 DEF Loops
    <3> QED BY <1>2, <3>1, SMTT(60)
  <2>2. CASE pc # "match"
    <3>1. j = 0 /\ out = << >> /\ (i = 0 \/ i \in 1..Len(branches) + 1 \/ i \in 1..Len(branches))
      BY <1>1, <2>2 DEF Loops, Query
    <3> QED BY <1>2, <3>1, EmptyText, SMTT(60)
  <2> QED BY <2>1, <2>2
<1> QED BY <1>1, <1>3, <1>4 DEF Kernel, Query, Loops, TypeOK

\* A reference names an earlier clause, whose branch has its place.
LEMMA RefBack ==
  ASSUME Query, pc # "failed", NEW n \in 1..Len(branches), "REF" \in branches[n].op_flags
  PROVE  /\ branches[n].pos = n /\ branches[n].value.num + 1 = text[n].val.num
         /\ text[n].val.num \in 1..n - 1 /\ branches[text[n].val.num].pos = text[n].val.num
         /\ Clause(n).val = text[n].val
<1>1. Filed /\ IsText(text)
  BY DEF Query
<1>2. InOrder(branches) /\ AllOk(branches, text) /\ Entry(branches[n], text)
  BY <1>1 DEF Filed, ListOK, HasRef
<1>3. PICK b : b = branches[n]
  OBVIOUS
<1>4. PICK c : c = ClauseOf(text, b.pos)
  OBVIOUS
<1>5. b.pos = n /\ Adds(text, b.pos).ok
  BY <1>2, <1>3 DEF InOrder, AllOk
<1>6. IsClause(c) /\ c.val = text[n].val /\ Meant(c, n, b)
  <2>1. IsText(text) /\ Entry(b, text)
    BY <1>1, <1>2, <1>3
  <2>2. EntryMeans(c, b, text)
    BY <1>4, <2>1, EntryMeaning
  <2> QED BY <1>5, <2>2 DEF EntryMeans
<1>7. c.val.num - 1 \in 0..n - 2 /\ b.value = Scalar(c.val.num - 1)
  BY <1>3, <1>6 DEF Meant, ValueIs
<1>8. b.value.num = c.val.num - 1
  BY <1>7, SMTT(60) DEF Scalar, Union
<1>9. c.val.num \in Int
  BY <1>6 DEF IsClause
<1>10. Len(branches) \in Nat
  BY BranchCount
<1>11. b.value.num + 1 = c.val.num /\ c.val.num \in 1..n - 1 /\ c.val.num \in 1..Len(branches)
  BY <1>7, <1>8, <1>9, <1>10, SMTT(60)
<1>12. Clause(n) = c
  BY <1>4, <1>5 DEF Clause, ClauseOf
<1> QED BY <1>2, <1>3, <1>5, <1>6, <1>11, <1>12 DEF InOrder

-----------------------------------------------------------------------------
(* A branch answers what its clause says.                                  *)

\* What there is to know of the branch b of clause k.
Stands(k, b) ==
  LET c == Clause(k) IN
  /\ IsClause(c) /\ IsBranch(b) /\ b.name = c.name /\ b.attr = c.attr /\ b.op = c.op /\ b.pos = k
  /\ "PARENT" \in b.op_flags <=> "PARENT" \in c.mods
  /\ ("ICASE" \in b.op_flags) = ("ICASE" \in c.mods)
  /\ Meant(c, k, b)

\* A branch of a usable query stands for a clause of the text.
LEMMA BranchStands ==
  ASSUME Query, pc \in Finding, NEW n \in 1..Len(branches)
  PROVE  Stands(branches[n].pos, branches[n]) /\ branches[n].pos \in 1..Len(text)
<1>1. PICK b : b = branches[n]
  OBVIOUS
<1>2. Entry(b, text) /\ Adds(text, b.pos).ok /\ IsText(text)
  BY <1>1 DEF Query, Filed, ListOK, AllOk, Finding
<1>3. PICK c : c = ClauseOf(text, b.pos)
  OBVIOUS
<1>4. /\ IsClause(c) /\ b.name = c.name /\ b.attr = c.attr /\ b.op = c.op
      /\ "PARENT" \in b.op_flags <=> "PARENT" \in c.mods
      /\ "ICASE" \in b.op_flags <=> "ICASE" \in c.mods
      /\ Meant(c, b.pos, b)
  <2>1. EntryMeans(c, b, text)
    BY <1>2, <1>3, EntryMeaning
  <2> QED BY <1>2, <2>1 DEF EntryMeans
<1>5. ("ICASE" \in b.op_flags) = ("ICASE" \in c.mods)
  BY <1>4, SMTT(60)
<1>6. c = Clause(b.pos) /\ IsBranch(b) /\ b.pos \in 1..Len(text)
  BY <1>2, <1>3 DEF Clause, ClauseOf, Entry, Alike
<1> QED BY <1>1, <1>4, <1>5, <1>6 DEF Stands

\* The comparison of strings that clause c asks for.
Compares(c, h, n) ==
  IF c.op = "RE" THEN ReImpl /\ ptql_op_str("CT", FALSE, h, n)
  ELSE ptql_op_str(c.op, "ICASE" \in c.mods, h, n)

Kinds == {"lit", "ref", "env", "unset", "self"}

\* The type of a method that is known.
LEMMA TypeIs ==
  ASSUME NEW c, NEW b, Sorts(c, b)
  PROVE  /\ b.type = TypeOf(c) /\ (TypeOf(c) = "ANY" <=> ~IsStd(c))
         /\ TypeOf(c) \notin {"STR", "ANY"} => c.op \in NumOps
<1>1. IsStd(c) => TypeOf(c) \in {"UI64", "UI32", "DBL", "CHR", "STR"}
  BY StdType DEF Sorts
<1>2. ~IsStd(c) => TypeOf(c) = "ANY"
  BY DEF TypeOf
<1> QED BY <1>1, <1>2 DEF Sorts

\* A Pid clause says nothing of what is read.
LEMMA SaysPid ==
  ASSUME NEW k, NEW v, IsPid(Clause(k))
  PROVE  Says(k, v)
BY DEF Says

\* A clause without a value that compares strings holds of nothing.
LEMMA SaysNothing ==
  ASSUME NEW k, NEW v, ~IsPid(Clause(k)), Clause(k).val.kind \in {"unset", "self"},
         TypeOf(Clause(k)) \in {"STR", "ANY"}
  PROVE  ~Says(k, v)
BY DEF Says

\* What a clause on a list of strings says.
LEMMA SaysAny ==
  ASSUME NEW k, NEW v, ~IsPid(Clause(k)), TypeOf(Clause(k)) = "ANY",
         Clause(k).val.kind \in {"lit", "env"}
  PROVE  Says(k, v) <=> \E s \in v[k].cand : Compares(Clause(k), s, Clause(k).val.str)
<1>1. PICK c : c = Clause(k)
  OBVIOUS
<1>2. c.val.kind # "ref" /\ c.val.kind \notin {"unset", "self"}
  BY <1>1
<1> QED BY <1>1, <1>2 DEF Says, Compares

\* What a clause on a string says.
LEMMA SaysStr ==
  ASSUME NEW k, NEW v, ~IsPid(Clause(k)), TypeOf(Clause(k)) = "STR",
         Clause(k).val.kind \in {"lit", "env", "ref"}
  PROVE  Says(k, v) <=>
           Compares(Clause(k), v[k].data.str,
                    IF Clause(k).val.kind = "ref" THEN v[Clause(k).val.num].data.str ELSE Clause(k).val.str)
<1>1. PICK c : c = Clause(k)
  OBVIOUS
<1>2. c.val.kind \notin {"unset", "self"}
  BY <1>1
<1>3. PICK w : w = IF c.val.kind = "ref" THEN v[c.val.num].data.str ELSE c.val.str
  OBVIOUS
<1>4. Says(k, v) <=> Compares(c, v[k].data.str, w)
  BY <1>1, <1>2, <1>3 DEF Says, Compares
<1> QED BY <1>1, <1>3, <1>4

\* What a clause on a number says.
LEMMA SaysNum ==
  ASSUME NEW k, NEW v, ~IsPid(Clause(k)), TypeOf(Clause(k)) \notin {"STR", "ANY"}
  PROVE  Says(k, v) <=>
           ptql_op_num(Clause(k).op, v[k].data.num,
                       CASE Clause(k).val.kind = "ref" -> v[Clause(k).val.num].data.num
                         [] Clause(k).val.kind = "lit" -> Clause(k).val.str[1]
                         [] OTHER -> 0)
<1>1. PICK c : c = Clause(k)
  OBVIOUS
<1>2. PICK w : w = CASE c.val.kind = "ref" -> v[c.val.num].data.num
                     [] c.val.kind = "lit" -> c.val.str[1]
                     [] OTHER -> 0
  OBVIOUS
<1>3. Says(k, v) <=> ptql_op_num(c.op, v[k].data.num, w)
  BY <1>1, <1>2 DEF Says
<1> QED BY <1>1, <1>2, <1>3

\* Clause k looks at its own values and at those of the clause it refers to.
LEMMA SaysSame ==
  ASSUME NEW k, NEW v, NEW w, v[k] = w[k],
         Clause(k).val.kind = "ref" => v[Clause(k).val.num] = w[Clause(k).val.num]
  PROVE  Says(k, v) <=> Says(k, w)
<1>1. PICK c : c = Clause(k)
  OBVIOUS
<1>2. CASE c.val.kind = "ref"
  BY <1>1, <1>2 DEF Says
<1>3. CASE c.val.kind # "ref"
  BY <1>1, <1>3 DEF Says
<1> QED BY <1>2, <1>3

\* A branch with another buffer stands for the same clause.
LEMMA BufferStands ==
  ASSUME NEW k, NEW b, Stands(k, b), NEW u
  PROVE  LET d == WithSize(WithData(b, u), 1) IN
         /\ Stands(k, d) /\ d.data = u /\ d.type = b.type /\ d.op_flags = b.op_flags /\ d.flags = b.flags
         /\ d.name = b.name /\ d.attr = b.attr /\ d.op = b.op /\ d.pos = b.pos
<1>1. PICK e : e = WithData(b, u)
  OBVIOUS
<1>2. PICK d : d = WithSize(e, 1)
  OBVIOUS
<1>3. IsBranch(b)
  BY DEF Stands
<1>4. Inited(b, e) /\ IsBranch(e) /\ e.op_flags = b.op_flags /\ e.flags = b.flags /\ e.data = u
  BY <1>1, <1>3, SetData
<1>5. Inited(e, d) /\ IsBranch(d) /\ d.op_flags = e.op_flags /\ d.flags = e.flags /\ d.data = u
  BY <1>2, <1>4, SetSize
<1>6. /\ d.type = b.type /\ d.name = b.name /\ d.attr = b.attr /\ d.op = b.op /\ d.value = b.value
      /\ d.pos = b.pos /\ d.op_flags = b.op_flags
  BY <1>4, <1>5 DEF Inited
<1>7. PICK c : c = Clause(k)
  OBVIOUS
<1>8. Meant(c, k, b)
  BY <1>7 DEF Stands
<1>9. Sorts(c, d) /\ ValueIs(c, k, d)
  BY <1>6, <1>8, SortsSame DEF Meant, ValueIs
<1>10. Meant(c, k, d)
  BY <1>6, <1>8, <1>9 DEF Meant
<1>11. Stands(k, d)
  BY <1>5, <1>6, <1>7, <1>10 DEF Stands
<1> QED BY <1>1, <1>2, <1>4, <1>5, <1>6, <1>11

\* The unions data and value by what they hold.
LEMMA Unions ==
  ASSUME NEW x
  PROVE  /\ ~NonNull(Null) /\ Null.kind # "block" /\ Null.num = 0
         /\ NonNull(Block(x)) /\ Block(x).kind = "block" /\ Block(x).str = x
         /\ Scalar(x).kind # "block" /\ Scalar(x).num = x
BY DEF NonNull, Null, Block, Scalar, Union

\* ptql_str_match compares as the clause asks.
LEMMA StrMatch ==
  ASSUME NEW k, NEW b, Stands(k, b), b.type \in {"STR", "ANY"}, NEW s
  PROVE  /\ Clause(k).val.kind \in {"unset", "self"} => ptql_str_match(b, s) = {FALSE}
         /\ Clause(k).val.kind \in {"lit", "env"} =>
              ptql_str_match(b, s) = {Compares(Clause(k), s, Clause(k).val.str)}
<1>1. PICK c : c = Clause(k)
  OBVIOUS
<1>2. /\ ValueIs(c, k, b) /\ b.type = TypeOf(c) /\ b.op = c.op
      /\ ("ICASE" \in b.op_flags) = ("ICASE" \in c.mods)
  BY <1>1 DEF Stands, Meant, Sorts
<1>3. ASSUME c.val.kind \in {"unset", "self"} PROVE ptql_str_match(b, s) = {FALSE}
  <2>1. b.value = Null
    BY <1>2, <1>3 DEF ValueIs
  <2> QED BY <2>1, Unions DEF ptql_str_match
<1>4. ASSUME c.val.kind \in {"lit", "env"} PROVE ptql_str_match(b, s) = {Compares(c, s, c.val.str)}
  <2>1. b.value = Block(c.val.str)
    BY <1>2, <1>4 DEF ValueIs
  <2>2. NonNull(b.value) /\ b.value.kind # "num" /\ b.value.str = c.val.str
    BY <2>1, Unions
  <2>3. CASE b.op = "RE"
    BY <1>2, <2>2, <2>3 DEF ptql_str_match, Compares
  <2>4. CASE b.op # "RE"
    BY <1>2, <2>2, <2>4 DEF ptql_str_match, Compares
  <2> QED BY <2>3, <2>4
<1> QED BY <1>1, <1>3, <1>4

\* The answer of a branch that reads for itself is what its clause says.
LEMMA AnyAnswer ==
  ASSUME NEW k, NEW b, Stands(k, b), b.type = "ANY", Clause(k).val.kind # "ref",
         NEW p, NEW v, v[k].cand = Candidates(b, p), NEW m, m \in AnyMatch(b, p)
  PROVE  m <=> Says(k, v)
<1>1. PICK c : c = Clause(k)
  OBVIOUS
<1>2. b.type = TypeOf(c) /\ ("PID" \in b.op_flags <=> IsPid(c)) /\ c.val.kind \in Kinds
  BY <1>1 DEF Stands, Meant, Sorts, IsClause, Kinds
<1>3. CASE IsPid(c)
  <2>1. m = TRUE
    BY <1>2, <1>3 DEF AnyMatch
  <2> QED BY <1>1, <1>3, <2>1, SaysPid
<1>4. CASE ~IsPid(c)
  <2>1. PICK cand : cand = Candidates(b, p)
    OBVIOUS
  <2>2. /\ m \in BOOLEAN
        /\ IF m THEN \E s \in cand : TRUE \in ptql_str_match(b, s)
           ELSE \A s \in cand : FALSE \in ptql_str_match(b, s)
    BY <1>2, <1>4, <2>1 DEF AnyMatch
  <2>3. CASE c.val.kind \in {"unset", "self"}
    <3>1. \A s : ptql_str_match(b, s) = {FALSE}
      BY <1>1, <2>3, StrMatch
    <3>2. ~Says(k, v)
      BY <1>1, <1>2, <1>4, <2>3, SaysNothing
    <3> QED BY <2>2, <3>1, <3>2
  <2>4. CASE c.val.kind \in {"lit", "env"}
    <3>1. \A s : ptql_str_match(b, s) = {Compares(c, s, c.val.str)}
      BY <1>1, <2>4, StrMatch
    <3>2. Says(k, v) <=> \E s \in cand : Compares(c, s, c.val.str)
      BY <1>1, <1>2, <1>4, <2>1, <2>4, SaysAny
    <3>3. CASE m
      <4>1. PICK s \in cand : TRUE \in ptql_str_match(b, s)
        BY <2>2, <3>3
      <4>2. Compares(c, s, c.val.str)
        BY <3>1, <4>1
      <4> QED BY <3>2, <3>3, <4>2
    <3>4. CASE ~m
      <4>1. \A s \in cand : ~Compares(c, s, c.val.str)
        BY <2>2, <3>1, <3>4
      <4> QED BY <3>2, <3>4, <4>1
    <3> QED BY <3>3, <3>4
  <2> QED BY <1>1, <1>2, <2>3, <2>4 DEF Kinds
<1> QED BY <1>3, <1>4

\* The answer of a branch with a value is what its clause says.
LEMMA PlainAnswer ==
  ASSUME NEW k, NEW b, Stands(k, b), b.type # "ANY", "REF" \notin b.op_flags,
         Clause(k).val.kind = "env" => TypeOf(Clause(k)) \in {"STR", "ANY"},
         NEW v, v[k].data = b.data, NEW m, m \in ptql_branch_match(b)
  PROVE  m <=> Says(k, v)
<1>1. PICK c : c = Clause(k)
  OBVIOUS
<1>2. /\ Sorts(c, b) /\ ValueIs(c, k, b) /\ b.op = c.op /\ c.val.kind \in Kinds /\ c.val.kind # "ref"
  BY <1>1 DEF Stands, Meant, IsClause, Kinds
<1>3. b.type = TypeOf(c) /\ ~IsPid(c)
  BY <1>2, TypeIs, NotPid
<1>4. CASE b.type = "STR"
  <2>1. m \in ptql_str_match(b, b.data.str)
    BY <1>4 DEF ptql_branch_match
  <2>2. CASE c.val.kind \in {"unset", "self"}
    <3>1. \A s : ptql_str_match(b, s) = {FALSE}
      BY <1>1, <1>4, <2>2, StrMatch
    <3>2. ~Says(k, v)
      BY <1>1, <1>3, <1>4, <2>2, SaysNothing
    <3> QED BY <2>1, <3>1, <3>2
  <2>3. CASE c.val.kind \in {"lit", "env"}
    <3>1. \A s : ptql_str_match(b, s) = {Compares(c, s, c.val.str)}
      BY <1>1, <1>4, <2>3, StrMatch
    <3>2. Says(k, v) <=> Compares(c, b.data.str, c.val.str)
      BY <1>1, <1>2, <1>3, <1>4, <2>3, SaysStr
    <3>3. m = Compares(c, b.data.str, c.val.str)
      BY <2>1, <3>1
    <3> QED BY <3>2, <3>3
  <2> QED BY <1>2, <2>2, <2>3 DEF Kinds
<1>5. CASE b.type # "STR"
  <2>1. PICK x : x = CASE c.val.kind = "ref" -> v[c.val.num].data.num
                       [] c.val.kind = "lit" -> c.val.str[1]
                       [] OTHER -> 0
    OBVIOUS
  <2>2. Says(k, v) <=> ptql_op_num(c.op, b.data.num, x)
    BY <1>1, <1>3, <1>5, <2>1, SaysNum
  <2>3. b.value.kind # "block" /\ b.value.num = x
    <3>1. CASE c.val.kind = "lit"
      <4>1. b.value = Scalar(c.val.str[1]) /\ x = c.val.str[1]
        BY <1>2, <1>3, <1>5, <2>1, <3>1 DEF ValueIs
      <4> QED BY <4>1, Unions
    <3>2. CASE c.val.kind \in {"unset", "self"}
      <4>1. b.value = Null /\ x = 0
        BY <1>2, <2>1, <3>2 DEF ValueIs
      <4> QED BY <4>1, Unions
    <3>3. c.val.kind # "env"
      BY <1>1, <1>3, <1>5
    <3> QED BY <1>2, <3>1, <3>2, <3>3 DEF Kinds
  <2>4. m = Holds(b, b.data, b.value)
    BY <1>5, <2>3 DEF ptql_branch_match
  <2>5. m = ptql_op_num(c.op, b.data.num, x)
    BY <1>2, <1>5, <2>3, <2>4 DEF Holds
  <2> QED BY <2>2, <2>5
<1> QED BY <1>4, <1>5

\* The answer of a branch with a reference is what its clause says.
LEMMA RefAnswer ==
  ASSUME NEW k, NEW b, Stands(k, b), b.type # "ANY", "REF" \in b.op_flags,
         NEW v, v[k].data = b.data, NEW ref, ref.type = b.type, ref.data.kind = "block",
         v[Clause(k).val.num].data = ref.data, NEW m, m \in ptql_branch_match_ref(b, ref)
  PROVE  m <=> Says(k, v)
<1>1. PICK c : c = Clause(k)
  OBVIOUS
<1>2. /\ Sorts(c, b) /\ ValueIs(c, k, b) /\ b.op = c.op /\ c.val.kind = "ref"
      /\ ("ICASE" \in b.op_flags) = ("ICASE" \in c.mods)
  BY <1>1 DEF Stands, Meant
<1>3. b.type = TypeOf(c) /\ ~IsPid(c) /\ c.op # "RE"
  BY <1>2, TypeIs, NotPid DEF ValueIs
<1>4. m = Holds(b, b.data, ref.data)
  BY DEF ptql_branch_match_ref
<1>5. CASE b.type = "STR"
  <2>1. m = Compares(c, b.data.str, ref.data.str)
    BY <1>2, <1>3, <1>4, <1>5 DEF Holds, Compares
  <2>2. Says(k, v) <=> Compares(c, b.data.str, ref.data.str)
    BY <1>1, <1>2, <1>3, <1>5, SaysStr
  <2> QED BY <2>1, <2>2
<1>6. CASE b.type # "STR"
  <2>1. m = ptql_op_num(c.op, b.data.num, ref.data.num)
    BY <1>2, <1>4, <1>6 DEF Holds
  <2>2. Says(k, v) <=> ptql_op_num(c.op, b.data.num, ref.data.num)
    BY <1>1, <1>2, <1>3, <1>6, SaysNum
  <2> QED BY <2>1, <2>2
<1> QED BY <1>5, <1>6

-----------------------------------------------------------------------------
(* What was read of the process being matched.                             *)

\* The process that branch b looks at for p, what it reads there, and whether
\* it can be read.
Source(b, p) == IF "PARENT" \in b.op_flags THEN proc[p].ppid ELSE p

Reads(b, q) ==
  IF b.type = "ANY" THEN [data |-> Null, cand |-> Candidates(b, q)]
  ELSE [data |-> Read(b, q), cand |-> {}]

Gives(b, p) ==
  /\ "PARENT" \in b.op_flags => Status("State", p) = "OK"
  /\ b.type # "ANY" => Status(b.name, Source(b, p)) = "OK"

Noted(v) == v = [k \in 1..Len(text) |-> v[k]]

\* Branch b was asked about the values v, and they are those of p.
Asked(b, v) ==
  /\ Says(b.pos, v)
  /\ b.type # "ANY" => b.data = v[b.pos].data /\ b.data.kind = "block"

Genuine(b, v, p) == Gives(b, p) /\ v[b.pos] = Reads(b, Source(b, p))

\* The branches before i have read what the notes say, of the process at hand,
\* and said yes.
Seen ==
  pc = "match" =>
    /\ i # 1 => Noted(view)
    /\ Meaningful => \A n \in 1..i - 1 : Asked(branches[n], view)
    /\ Steady(List[j]) => \A n \in 1..i - 1 : Genuine(branches[n], view, List[j])
    /\ parent # NoPid /\ Steady(List[j]) =>
         parent = proc[List[j]].ppid /\ Status("State", List[j]) = "OK"

\* The process that branch i is matched with.
Asks == IF "PARENT" \in branches[i].op_flags THEN parent ELSE List[j]

\* The two ways a match step can go: branch i cannot read the process, or it
\* answers m.
GaveUp ==
  /\ branches[i].type # "ANY" /\ Status(branches[i].name, Asks) # "OK"
  /\ NextProc(Status(branches[i].name, Asks)) /\ view' = view

Answered(m) ==
  /\ Answer(m) /\ view' = [k \in 1..Len(text) |-> view'[k]]
  /\ view'[branches[i].pos] = Reads(branches[i], Asks)
  /\ i # 1 => \A k \in 1..Len(text) : k # branches[i].pos => view'[k] = view[k]
  /\ branches[i].type # "ANY" => /\ Status(branches[i].name, Asks) = "OK"
                                 /\ branches'[i].data = Read(branches[i], Asks)
  /\ Meaningful => (m <=> Says(branches[i].pos, view'))

\* Noting what a branch read leaves what the others read.
LEMMA NoteFacts ==
  ASSUME NEW b, b.pos \in 1..Len(text), NEW seen, Note(b, seen), i # 1 => Noted(view)
  PROVE  /\ view' = [k \in 1..Len(text) |-> view'[k]] /\ view'[b.pos] = seen
         /\ i # 1 => \A k \in 1..Len(text) : k # b.pos => view'[k] = view[k]
<1>1. PICK m : m = Len(text)
  OBVIOUS
<1>2. PICK base : base = IF i = 1 THEN [k \in 1..m |-> NotSeen] ELSE view
  OBVIOUS
<1>3. base = [k \in 1..m |-> base[k]] /\ (i # 1 => base = view)
  BY <1>1, <1>2 DEF Noted
<1>4. view' = [base EXCEPT ![b.pos] = seen]
  BY <1>1, <1>2 DEF Note
<1> QED BY <1>1, <1>3, <1>4

\* The clause of a branch, in a query with a meaning.
LEMMA ClauseMeaning ==
  ASSUME Meaningful, NEW k \in 1..Len(text)
  PROVE  /\ Clause(k).val.kind = "ref" => IsStd(Clause(k)) /\ TypeOf(Clause(Clause(k).val.num)) = TypeOf(Clause(k))
         /\ Clause(k).val.kind = "env" => TypeOf(Clause(k)) \in {"STR", "ANY"}
         /\ IsPid(Clause(k)) => Clause(k).op \in NumOps
BY DEF Meaningful

\* A branch that reads for itself answers.
LEMMA MatchAny ==
  ASSUME Query, Loops, Seen, MatchStep, branches[i].type = "ANY"
  PROVE  \E m : Answered(m)
<1>1. PICK b : b = branches[i]
  OBVIOUS
<1>2. PICK p : p = Asks
  OBVIOUS
<1>3. pc = "match" /\ i \in 1..Len(branches)
  BY DEF MatchStep, Loops
<1>4. PICK m \in AnyMatch(b, p) : Answer(m)
  BY <1>1, <1>2 DEF MatchStep, Asks
<1>5. PICK seen : seen = [data |-> Null, cand |-> Candidates(b, p)]
  OBVIOUS
<1>6. Note(b, seen)
  BY <1>1, <1>2, <1>5 DEF MatchStep, Asks
<1>7. Stands(b.pos, b) /\ b.pos \in 1..Len(text)
  BY <1>1, <1>3, BranchStands DEF Finding
<1>8. PICK w : w = view'
  OBVIOUS
<1>9. /\ view' = [k \in 1..Len(text) |-> view'[k]] /\ w[b.pos] = seen
      /\ i # 1 => \A k \in 1..Len(text) : k # b.pos => view'[k] = view[k]
  BY <1>3, <1>6, <1>7, <1>8, NoteFacts DEF Seen
<1>10. seen = Reads(b, p)
  BY <1>1, <1>5 DEF Reads
<1>11. ASSUME Meaningful PROVE m <=> Says(b.pos, w)
  <2>1. Clause(b.pos).val.kind # "ref"
    <3>1. ~IsStd(Clause(b.pos))
      BY <1>1, <1>7, TypeIs DEF Stands, Meant
    <3> QED BY <1>7, <1>11, <3>1, ClauseMeaning
  <2>2. w[b.pos].cand = Candidates(b, p)
    BY <1>5, <1>9, SMTT(60)
  <2>3. PICK k : k = b.pos
    OBVIOUS
  <2>4. Stands(k, b) /\ b.type = "ANY" /\ Clause(k).val.kind # "ref" /\ w[k].cand = Candidates(b, p)
    BY <1>1, <1>7, <2>1, <2>2, <2>3
  <2>5. m <=> Says(k, w)
    BY <1>4, <2>4, AnyAnswer, SMTT(60)
  <2> QED BY <2>3, <2>5
<1>12. Answered(m)
  <2>1. view'[b.pos] = Reads(b, p) /\ (Meaningful => (m <=> Says(b.pos, view')))
    BY <1>8, <1>9, <1>10, <1>11
  <2> QED BY <1>1, <1>2, <1>4, <1>9, <2>1 DEF Answered
<1> QED BY <1>12

\* A branch whose read succeeds answers.
LEMMA MatchRead ==
  ASSUME Query, Loops, Seen, MatchStep, branches[i].type # "ANY", Status(branches[i].name, Asks) = "OK"
  PROVE  \E m : Answered(m)
<1>1. PICK b : b = branches[i]
  OBVIOUS
<1>2. PICK p : p = Asks
  OBVIOUS
<1>3. pc = "match" /\ i \in 1..Len(branches)
  BY DEF MatchStep, Loops
<1>4. PICK c : c = Buffer(b, p)
  OBVIOUS
<1>5. PICK seen : seen = [data |-> Read(b, p), cand |-> {}]
  OBVIOUS
<1>6. /\ branches' = [branches EXCEPT ![i] = c] /\ Note(b, seen)
      /\ \E m \in IF "REF" \in b.op_flags THEN ptql_branch_match_ref(c, branches[b.value.num + 1])
                  ELSE ptql_branch_match(c) : Answer(m)
  BY <1>1, <1>2, <1>4, <1>5 DEF MatchStep, Asks
<1>7. PICK m : /\ Answer(m)
               /\ m \in IF "REF" \in b.op_flags THEN ptql_branch_match_ref(c, branches[b.value.num + 1])
                        ELSE ptql_branch_match(c)
  BY <1>6
<1>8. PICK k : k = b.pos
  OBVIOUS
<1>9. Stands(k, b) /\ k \in 1..Len(text)
  BY <1>1, <1>3, <1>8, BranchStands DEF Finding
<1>10. PICK u : u = Read(b, p)
  OBVIOUS
<1>11. c = WithSize(WithData(b, u), 1) /\ u.kind = "block"
  BY <1>4, <1>9, <1>10, BufferIs, ReadIs DEF Stands
<1>12. Stands(k, c) /\ c.data = u /\ c.type = b.type /\ c.op_flags = b.op_flags
  BY <1>9, <1>11, BufferStands, SMTT(60)
<1>13. PICK w : w = view'
  OBVIOUS
<1>14. /\ view' = [n \in 1..Len(text) |-> view'[n]] /\ w[k] = seen
       /\ i # 1 => \A n \in 1..Len(text) : n # k => view'[n] = view[n]
  BY <1>3, <1>6, <1>8, <1>9, <1>13, NoteFacts DEF Seen
<1>15. seen = Reads(b, p) /\ w[k].data = c.data
  <2>1. seen = Reads(b, p)
    BY <1>1, <1>5 DEF Reads
  <2>2. seen.data = u
    BY <1>5, <1>10
  <2> QED BY <1>12, <1>14, <2>1, <2>2
<1>16. ASSUME Meaningful PROVE m <=> Says(k, w)
  <2>1. /\ Clause(k).val.kind = "ref" => IsStd(Clause(k)) /\ TypeOf(Clause(Clause(k).val.num)) = TypeOf(Clause(k))
        /\ Clause(k).val.kind = "env" => TypeOf(Clause(k)) \in {"STR", "ANY"}
    BY <1>9, <1>16, ClauseMeaning
  <2>2. CASE "REF" \notin b.op_flags
    <3>1. m \in ptql_branch_match(c) /\ "REF" \notin c.op_flags /\ c.type # "ANY"
      BY <1>1, <1>7, <1>12, <2>2
    <3> QED BY <1>12, <1>15, <2>1, <3>1, PlainAnswer, SMTT(60)
  <2>3. CASE "REF" \in b.op_flags
    <3>1. PICK r : r = text[i].val.num
      OBVIOUS
    <3>2. /\ k = i /\ b.value.num + 1 = r /\ r \in 1..i - 1 /\ branches[r].pos = r
          /\ Clause(k).val.num = r
      BY <1>1, <1>3, <1>8, <2>3, <3>1, RefBack
    <3>3. PICK ref : ref = branches[r]
      OBVIOUS
    <3>4. r \in 1..Len(branches) /\ i # 1 /\ r # k
      BY <1>3, <3>2, BranchCount, SMTT(60)
    <3>5. Stands(r, ref) /\ r \in 1..Len(text)
      BY <1>3, <3>2, <3>3, <3>4, BranchStands DEF Finding
    <3>6. Clause(k).val.kind = "ref"
      BY <1>9, <2>3 DEF Stands, Meant
    <3>7. TypeOf(Clause(r)) = TypeOf(Clause(k))
      BY <2>1, <3>2, <3>6
    <3>8. ref.type = c.type
      BY <1>12, <3>5, <3>7 DEF Stands, Meant, Sorts
    <3>9. Asked(ref, view)
      BY <1>3, <1>16, <3>2, <3>3 DEF Seen
    <3>10. ref.data.kind = "block" /\ ref.data = view[r].data
      BY <1>1, <1>12, <3>2, <3>3, <3>8, <3>9 DEF Asked
    <3>11. w[r] = view[r]
      BY <1>13, <1>14, <3>4, <3>5
    <3>12. m \in ptql_branch_match_ref(c, ref) /\ "REF" \in c.op_flags /\ c.type # "ANY"
      BY <1>1, <1>7, <1>12, <2>3, <3>2, <3>3
    <3>13. w[Clause(k).val.num].data = ref.data
      BY <3>2, <3>10, <3>11
    <3> QED BY <1>12, <1>15, <3>8, <3>10, <3>12, <3>13, RefAnswer, SMTT(60)
  <2> QED BY <2>2, <2>3
<1>17. branches'[i].data = Read(b, p)
  <2>1. PICK S : branches \in Seq(S)
    BY DEF Query
  <2>2. branches'[i] = c
    BY <1>3, <1>6, <2>1, SMTT(60)
  <2> QED BY <1>10, <1>12, <2>2
<1>18. Answered(m)
  <2>1. view'[b.pos] = Reads(b, p) /\ (Meaningful => (m <=> Says(b.pos, view')))
    BY <1>8, <1>13, <1>14, <1>15, <1>16
  <2> QED BY <1>1, <1>2, <1>7, <1>8, <1>14, <1>17, <2>1 DEF Answered
<1> QED BY <1>18

\* A match either gives up on the process or answers.
LEMMA MatchAnswers ==
  ASSUME Query, Loops, Seen, MatchStep
  PROVE  GaveUp \/ \E m : Answered(m)
<1>1. CASE branches[i].type = "ANY"
  BY <1>1, MatchAny
<1>2. CASE branches[i].type # "ANY" /\ Status(branches[i].name, Asks) = "OK"
  BY <1>2, MatchRead
<1>3. CASE branches[i].type # "ANY" /\ Status(branches[i].name, Asks) # "OK"
  BY <1>3 DEF MatchStep, Asks, GaveUp
<1> QED BY <1>1, <1>2, <1>3

\* A match step changes the data of one branch at most, of no ANY method.
LEMMA MatchKeeps ==
  ASSUME Query, Loops, MatchStep, NEW n \in 1..Len(branches)
  PROVE  /\ n # i \/ branches[n].type = "ANY" => branches'[n] = branches[n]
         /\ branches'[n].pos = branches[n].pos /\ branches'[n].type = branches[n].type
         /\ branches'[n].op_flags = branches[n].op_flags /\ branches'[n].flags = branches[n].flags
         /\ branches'[n].name = branches[n].name /\ branches'[n].attr = branches[n].attr
<1>1. pc = "match" /\ i \in 1..Len(branches)
  BY DEF MatchStep, Loops
<1>2. CASE branches' = branches
  BY <1>2
<1>3. ASSUME NEW u, Fills(branches, i, u, branches')
      PROVE  /\ branches[i].type # "ANY" /\ branches'[i] = WithSize(WithData(branches[i], u), 1)
             /\ n # i => branches'[n] = branches[n]
  <2>1. PICK S : branches \in Seq(S)
    BY DEF Query
  <2>2. PICK d : d = WithSize(WithData(branches[i], u), 1)
    OBVIOUS
  <2>3. branches' = [branches EXCEPT ![i] = d] /\ branches[i].type # "ANY"
    BY <1>3, <2>2 DEF Fills
  <2>4. branches'[i] = d /\ (n # i => branches'[n] = branches[n])
    BY <1>1, <2>1, <2>3, SMTT(60)
  <2> QED BY <2>2, <2>3, <2>4
<1>4. ASSUME NEW u, Fills(branches, i, u, branches') , n = i
      PROVE  /\ branches'[n].pos = branches[n].pos /\ branches'[n].type = branches[n].type
             /\ branches'[n].op_flags = branches[n].op_flags /\ branches'[n].flags = branches[n].flags
             /\ branches'[n].name = branches[n].name /\ branches'[n].attr = branches[n].attr
  <2>1. PICK b : b = branches[i]
    OBVIOUS
  <2>2. Stands(b.pos, b)
    BY <1>1, <2>1, BranchStands DEF Finding
  <2>3. PICK d : d = WithSize(WithData(b, u), 1)
    OBVIOUS
  <2>4. /\ d.pos = b.pos /\ d.type = b.type /\ d.op_flags = b.op_flags /\ d.flags = b.flags
        /\ d.name = b.name /\ d.attr = b.attr
    BY <2>2, <2>3, BufferStands, SMTT(60)
  <2>5. branches'[n] = d
    BY <1>3, <1>4, <2>1, <2>3
  <2> QED BY <1>4, <2>1, <2>4, <2>5
<1>5. CASE \E u : Fills(branches, i, u, branches')
  <2>1. PICK u : Fills(branches, i, u, branches')
    BY <1>5
  <2>2. CASE n = i
    BY <1>3, <1>4, <2>1, <2>2
  <2>3. CASE n # i
    BY <1>3, <2>1, <2>3
  <2> QED BY <2>2, <2>3
<1> QED BY <1>1, <1>2, <1>5, MatchFills

\* A match step leaves what other branches have noted.
LEMMA NotesKept ==
  ASSUME Query, Loops, MatchStep, NEW m, Answered(m), NEW n \in 1..i - 1
  PROVE  /\ n \in 1..Len(branches) /\ n # i /\ i # 1
         /\ branches'[n] = branches[n] /\ view'[branches[n].pos] = view[branches[n].pos]
<1>1. pc = "match" /\ i \in 1..Len(branches)
  BY DEF MatchStep, Loops
<1>2. n \in 1..Len(branches) /\ n # i /\ i # 1
  BY <1>1, BranchCount, SMTT(60)
<1>3. branches[n].pos # branches[i].pos
  BY <1>1, <1>2 DEF Query, Filed, ListOK
<1>4. branches[n].pos \in 1..Len(text)
  BY <1>1, <1>2, BranchStands DEF Finding
<1>5. branches'[n] = branches[n]
  BY <1>2, MatchKeeps
<1> QED BY <1>2, <1>3, <1>4, <1>5 DEF Answered

\* After a positive answer all branches asked so far have said yes.
LEMMA AskedNext ==
  ASSUME Query, Loops, Seen, MatchStep, Meaningful, NEW m, Answered(m), m, NEW n \in 1..i
  PROVE  Asked(branches'[n], view')
<1>1. pc = "match" /\ i \in 1..Len(branches)
  BY DEF MatchStep, Loops
<1>2. CASE n = i
  <2>1. PICK b : b = branches[i]
    OBVIOUS
  <2>2. PICK d : d = branches'[i]
    OBVIOUS
  <2>3. d.pos = b.pos /\ d.type = b.type
    BY <1>1, <2>1, <2>2, MatchKeeps
  <2>4. PICK u : u = Read(b, Asks)
    OBVIOUS
  <2>5. ASSUME b.type # "ANY" PROVE d.data = view'[b.pos].data /\ d.data.kind = "block"
    <3>1. d.data = u /\ u.kind = "block"
      BY <2>1, <2>2, <2>4, <2>5, ReadIs DEF Answered
    <3>2. view'[b.pos] = [data |-> u, cand |-> {}]
      BY <2>1, <2>4, <2>5 DEF Answered, Reads
    <3>3. view'[b.pos].data = u
      BY <3>2, SMTT(60)
    <3> QED BY <3>1, <3>3
  <2>6. Says(b.pos, view')
    BY <2>1 DEF Answered
  <2> QED BY <1>2, <2>2, <2>3, <2>5, <2>6 DEF Asked
<1>3. CASE n # i
  <2>1. n \in 1..i - 1
    BY <1>1, <1>3, SMTT(60)
  <2>2. PICK b : b = branches[n]
    OBVIOUS
  <2>3. /\ n \in 1..Len(branches) /\ i # 1 /\ branches'[n] = b /\ view'[b.pos] = view[b.pos]
    BY <2>1, <2>2, NotesKept
  <2>4. Asked(b, view)
    BY <1>1, <2>1, <2>2 DEF Seen
  <2>5. Says(b.pos, view')
    <3>1. PICK k : k = b.pos
      OBVIOUS
    <3>2. PICK v : v = view
      OBVIOUS
    <3>3. PICK w : w = view'
      OBVIOUS
    <3>4. Stands(k, b)
      BY <1>1, <2>2, <2>3, <3>1, BranchStands DEF Finding
    <3>5. ASSUME Clause(k).val.kind = "ref" PROVE v[Clause(k).val.num] = w[Clause(k).val.num]
      <4>1. "REF" \in b.op_flags
        BY <3>4, <3>5 DEF Stands, Meant
      <4>2. PICK r : r = text[n].val.num
        OBVIOUS
      <4>3. k = n /\ r \in 1..n - 1 /\ branches[r].pos = r /\ Clause(k).val.num = r
        BY <1>1, <2>2, <2>3, <3>1, <4>1, <4>2, RefBack
      <4>4. r \in 1..i - 1
        BY <1>1, <2>1, <4>3, SMTT(60)
      <4> QED BY <3>2, <3>3, <4>3, <4>4, NotesKept
    <3>6. Says(k, v)
      BY <2>4, <3>1, <3>2 DEF Asked
    <3>7. v[k] = w[k]
      BY <2>3, <3>1, <3>2, <3>3
    <3>8. Says(k, w)
      BY <3>5, <3>6, <3>7, SaysSame
    <3> QED BY <3>1, <3>3, <3>8
  <2> QED BY <2>3, <2>4, <2>5 DEF Asked
<1> QED BY <1>2, <1>3

\* What was read of a steady process is what can be read of it now.
LEMMA GenuineNext ==
  ASSUME Query, Loops, Seen, MatchStep, NEW m, Answered(m), Steady(List[j]), NEW n \in 1..i
  PROVE  Genuine(branches'[n], view', List[j])
<1>1. pc = "match" /\ i \in 1..Len(branches)
  BY DEF MatchStep, Loops
<1>2. CASE n = i
  <2>1. PICK b : b = branches[i]
    OBVIOUS
  <2>2. PICK d : d = branches'[i]
    OBVIOUS
  <2>3. /\ d.pos = b.pos /\ d.type = b.type /\ d.op_flags = b.op_flags /\ d.name = b.name /\ d.attr = b.attr
        /\ b.type = "ANY" => d = b
    BY <1>1, <2>1, <2>2, MatchKeeps
  <2>4. PICK p : p = List[j]
    OBVIOUS
  <2>5. /\ Asks = Source(b, p) /\ ("PARENT" \in b.op_flags => Status("State", p) = "OK")
    <3>1. "PARENT" \in b.op_flags => parent # NoPid
      BY <2>1 DEF MatchStep
    <3> QED BY <1>1, <2>1, <2>4, <3>1 DEF Seen, Asks, Source
  <2>6. Gives(d, p)
    BY <2>1, <2>3, <2>5 DEF Gives, Answered, Source
  <2>7. view'[b.pos] = Reads(b, Source(b, p))
    BY <2>1, <2>5 DEF Answered
  <2>8. Source(d, p) = Source(b, p) /\ \A q : Reads(d, q) = Reads(b, q)
    BY <2>3 DEF Source, Reads, Read
  <2> QED BY <1>2, <2>2, <2>3, <2>4, <2>6, <2>7, <2>8 DEF Genuine
<1>3. CASE n # i
  <2>1. n \in 1..i - 1
    BY <1>1, <1>3, SMTT(60)
  <2>2. branches'[n] = branches[n] /\ view'[branches[n].pos] = view[branches[n].pos]
    BY <2>1, NotesKept
  <2>3. Genuine(branches[n], view, List[j])
    BY <1>1, <2>1 DEF Seen
  <2> QED BY <2>2, <2>3 DEF Genuine
<1> QED BY <1>2, <1>3

\* These depend on the text, or on the processes, only.
LEMMA MeaningfulKept ==
  ASSUME text' = text
  PROVE  (Meaningful' <=> Meaningful) /\ PidClauses' = PidClauses
BY DEF Meaningful, PidClauses, Clause

\* What the branches have said depends on the text only.
LEMMA AskedKept ==
  ASSUME text' = text, NEW b, NEW v
  PROVE  Asked(b, v)' <=> Asked(b, v)
BY DEF Asked, Says, Clause

\* What can be read depends on the processes only.
LEMMA StatusKept ==
  ASSUME UNCHANGED <<host, proc>>, NEW name, NEW q, NEW b
  PROVE  Status(name, q)' = Status(name, q) /\ Reads(b, q)' = Reads(b, q)
BY DEF Status, Reads, Read, Candidates, Gone, Host

\* So does whether what was read can still be read.
LEMMA GenuineKept ==
  ASSUME UNCHANGED <<host, proc>>, NEW b, NEW v, NEW p
  PROVE  Genuine(b, v, p)' <=> Genuine(b, v, p)
<1>1. Source(b, p)' = Source(b, p)
  BY DEF Source
<1> QED BY <1>1, StatusKept DEF Genuine, Gives

\* Whether a process is steady depends on what changed.
LEMMA SteadyKept ==
  ASSUME UNCHANGED <<proc, text, touched>>, NEW p
  PROVE  Steady(p)' <=> Steady(p)
BY MeaningfulKept DEF Steady

\* Nothing is noted outside the walk and at its first branch.
LEMMA SeenReset ==
  ASSUME pc' # "match" \/ (i' = 1 /\ parent' = NoPid)
  PROVE  Seen'
<1>1. 1..1 - 1 = {}
  BY SMTT(60)
<1> QED BY <1>1 DEF Seen

\* The next process starts at the first branch, without a parent.
LEMMA NextProcResets ==
  ASSUME NEW st, NextProc(st)
  PROVE  pc' # "match" \/ (i' = 1 /\ parent' = NoPid)
BY DEF NextProc, Return

\* A match keeps the notes true.
LEMMA SeenMatch ==
  ASSUME Query, Loops, Seen, MatchStep
  PROVE  Seen'
<1>1. /\ pc = "match" /\ i \in 1..Len(branches)
      /\ UNCHANGED <<host, proc, text, touched, shared>>
  BY DEF MatchStep, Loops, kernel
<1>2. CASE GaveUp
  BY <1>2, NextProcResets, SeenReset DEF GaveUp
<1>3. ASSUME NEW m, Answered(m) PROVE Seen'
  <2>1. Answer(m)
    BY <1>3 DEF Answered
  <2>2. CASE ~m
    BY <2>1, <2>2, NextProcResets, SeenReset DEF Answer
  <2>3. CASE m /\ ~(i < Len(branches))
    <3>1. i' = 1 /\ parent' = NoPid
      BY <2>1, <2>3 DEF Answer
    <3> QED BY <3>1, SeenReset
  <2>4. CASE m /\ i < Len(branches)
    <3>1. i' = i + 1 /\ parent' = NoPid /\ UNCHANGED <<pc, own, pids, j>>
      BY <2>1, <2>4 DEF Answer
    <3>2. List' = List
      BY <1>1, <3>1 DEF List
    <3>3. i' - 1 = i
      BY <1>1, <3>1, SMTT(60)
    <3>4. Noted(view)'
      BY <1>1, <1>3 DEF Noted, Answered
    <3>5. Meaningful' => \A n \in 1..i : Asked(branches[n], view)'
      BY <1>1, <1>3, <2>4, AskedNext, AskedKept, MeaningfulKept
    <3>6. Steady(List[j])' => \A n \in 1..i : Genuine(branches[n], view, List[j])'
      BY <1>1, <1>3, <3>1, <3>2, GenuineNext, GenuineKept, SteadyKept
    <3> QED BY <3>1, <3>3, <3>4, <3>5, <3>6 DEF Seen
  <2> QED BY <2>2, <2>3, <2>4
<1> QED BY <1>2, <1>3, MatchAnswers

\* Looking up the parent keeps the notes true.
LEMMA SeenParent ==
  ASSUME Query, Loops, Seen, MatchParent
  PROVE  Seen'
<1>1. pc = "match" /\ UNCHANGED <<host, proc, text, branches, touched, shared, view>>
  BY DEF MatchParent, kernel, queryVars
<1>2. CASE \E st : NextProc(st)
  BY <1>2, NextProcResets, SeenReset
<1>3. CASE ~\E st : NextProc(st)
  <2>1. /\ parent' = proc[List[j]].ppid /\ UNCHANGED <<pc, own, pids, i, j>>
        /\ Status("State", List[j]) = "OK"
    BY <1>3 DEF MatchParent
  <2>2. List' = List
    BY <1>1, <2>1 DEF List
  <2>3. PICK p : p = List[j]
    OBVIOUS
  <2>4. Status("State", p)' = "OK"
    BY <1>1, <2>1, <2>3, StatusKept
  <2>5. Noted(view)' <=> Noted(view)
    BY <1>1 DEF Noted
  <2>6. Meaningful' => \A n \in 1..i - 1 : Asked(branches[n], view)'
    BY <1>1, AskedKept, MeaningfulKept DEF Seen
  <2>7. Steady(List[j])' => \A n \in 1..i - 1 : Genuine(branches[n], view, List[j])'
    BY <1>1, <2>1, <2>2, GenuineKept, SteadyKept DEF Seen
  <2> QED BY <1>1, <2>1, <2>2, <2>3, <2>4, <2>5, <2>6, <2>7 DEF Seen
<1> QED BY <1>2, <1>3

-----------------------------------------------------------------------------
(* What a change in the kernel leaves alone.                               *)

\* A change of the kernel leaves the processes that are not touched.
LEMMA KernelFrame ==
  ASSUME Kernel, KernelStep, NEW q, q \notin touched'
  PROVE  q \notin touched /\ (q \in Pid => proc'[q] = proc[q]) /\ (q = 0 => os' = os)
<1>1. q \notin touched
  BY DEF KernelStep
<1>2. CASE \E p \in Host.pids, r \in Host.procs \cup {NoProc} :
             proc' = [proc EXCEPT ![p] = r] /\ touched' = touched \cup {p} /\ UNCHANGED os
  <2>1. PICK p, r : proc' = [proc EXCEPT ![p] = r] /\ touched' = touched \cup {p} /\ os' = os
    BY <1>2
  <2>2. q # p
    BY <2>1
  <2> QED BY <1>1, <2>1, <2>2 DEF Kernel
<1>3. CASE touched' = touched \cup {0} /\ UNCHANGED proc
  BY <1>1, <1>3
<1> QED BY <1>2, <1>3 DEF KernelStep

\* It leaves whether they can be read.
LEMMA FrameStatus ==
  ASSUME Kernel, KernelStep, NEW q, q \notin touched'
  PROVE  /\ Gone(q)' <=> Gone(q)
         /\ \A name : Status(name, q)' = Status(name, q)
<1>1. q \in Pid => proc'[q] = proc[q]
  BY KernelFrame
<1>2. Host' = Host
  BY DEF KernelStep, Host
<1>3. Gone(q)' <=> Gone(q)
  BY <1>1 DEF Gone
<1>4. CASE Gone(q)
  <2>1. Gone(q)'
    BY <1>3, <1>4
  <2> QED BY <1>2, <1>4, <2>1 DEF Status
<1>5. CASE ~Gone(q)
  <2>1. q \in Pid /\ proc'[q] = proc[q] /\ ~Gone(q)'
    BY <1>1, <1>3, <1>5 DEF Gone
  <2> QED BY <1>2, <1>5, <2>1 DEF Status
<1> QED BY <1>3, <1>4, <1>5

\* Only a live process can be read.
LEMMA StatusOK ==
  ASSUME NEW name, NEW q, Status(name, q) = "OK"
  PROVE  q \in Pid /\ ~Gone(q)
<1>1. ~Gone(q)
  BY DEF Status
<1> QED BY <1>1 DEF Gone

\* It leaves what is read of them.
LEMMA FrameReads ==
  ASSUME Kernel, KernelStep, NEW q, q \notin touched', NEW b,
         b.type = "ANY" \/ Status(b.name, q) = "OK"
  PROVE  Reads(b, q)' = Reads(b, q)
<1>1. Status(b.name, q)' = Status(b.name, q)
  BY FrameStatus
<1>2. CASE Status(b.name, q) # "OK"
  <2>1. Candidates(b, q) = {} /\ Candidates(b, q)' = {}
    BY <1>1, <1>2 DEF Candidates
  <2> QED BY <1>2, <2>1 DEF Reads
<1>3. CASE Status(b.name, q) = "OK"
  <2>1. proc'[q] = proc[q]
    BY <1>3, StatusOK, KernelFrame
  <2>2. Candidates(b, q)' = Candidates(b, q)
    BY <1>1, <2>1 DEF Candidates
  <2>3. Read(b, q)' = Read(b, q)
    BY <2>1 DEF Read
  <2> QED BY <2>2, <2>3 DEF Reads
<1> QED BY <1>2, <1>3

\* A process that is steady after a change was steady before, and nothing
\* a branch sees of it has changed.
LEMMA SteadyBack ==
  ASSUME Kernel, KernelStep, NEW p \in Pid, Steady(p)'
  PROVE  /\ Steady(p) /\ proc'[p] = proc[p] /\ p \notin touched' /\ proc[p].ppid \notin touched'
         /\ PidClauses # {} => 0 \notin touched'
<1>1. text' = text
  BY DEF KernelStep, queryVars
<1>2. p \notin touched' /\ proc'[p].ppid \notin touched' /\ (PidClauses # {} => 0 \notin touched')
  BY <1>1, MeaningfulKept DEF Steady
<1>3. proc'[p] = proc[p] /\ p \notin touched
  BY <1>2, KernelFrame
<1>4. proc[p].ppid \notin touched /\ (PidClauses # {} => 0 \notin touched)
  BY <1>2, <1>3, KernelFrame
<1> QED BY <1>2, <1>3, <1>4 DEF Steady

\* For a steady process it leaves what every branch reads.
LEMMA FrameGives ==
  ASSUME Kernel, KernelStep, NEW p \in Pid, Steady(p)', NEW b
  PROVE  /\ Source(b, p)' = Source(b, p) /\ (Gives(b, p)' <=> Gives(b, p))
         /\ Gives(b, p) => Reads(b, Source(b, p))' = Reads(b, Source(b, p))
<1>1. proc'[p] = proc[p] /\ p \notin touched' /\ proc[p].ppid \notin touched'
  BY SteadyBack
<1>2. PICK q : q = Source(b, p)
  OBVIOUS
<1>3. Source(b, p)' = q /\ q \notin touched'
  BY <1>1, <1>2 DEF Source
<1>4. Gives(b, p)' <=> Gives(b, p)
  BY <1>1, <1>2, <1>3, FrameStatus DEF Gives
<1>5. Gives(b, p) => Reads(b, q)' = Reads(b, q)
  BY <1>2, <1>3, FrameReads DEF Gives
<1> QED BY <1>2, <1>3, <1>4, <1>5

\* A change of the kernel keeps the notes on steady processes true.
LEMMA SeenKernel ==
  ASSUME Kernel, Query, Loops, Seen, KernelStep
  PROVE  Seen'
<1>1. UNCHANGED <<text, branches, shared, own, pids, i, j, parent, view, pc>>
  BY DEF KernelStep, queryVars, findVars
<1>2. List' = List
  BY <1>1 DEF List
<1> SUFFICES ASSUME pc = "match" PROVE Seen'
  BY <1>1 DEF Seen
<1>3. Noted(view)' <=> Noted(view)
  BY <1>1 DEF Noted
<1>4. Meaningful' => \A n \in 1..i - 1 : Asked(branches[n], view)'
  BY <1>1, AskedKept, MeaningfulKept DEF Seen
<1>5. ASSUME i # 1 \/ parent # NoPid, Steady(List[j])'
      PROVE  /\ \A n \in 1..i - 1 : Genuine(branches[n], view, List[j])'
             /\ parent # NoPid => parent = proc'[List[j]].ppid /\ Status("State", List[j])' = "OK"
  <2>1. PICK p : p = List[j]
    OBVIOUS
  <2>2. p \in Pid
    <3>1. j \in 1..Len(List)
      BY <1>5, ListType, SMTT(60) DEF Loops
    <3> QED BY <2>1, <3>1, ListType, SMTT(60)
  <2>3. Steady(p)' /\ List'[j'] = p
    BY <1>1, <1>2, <1>5, <2>1
  <2>4. Steady(p) /\ proc'[p] = proc[p] /\ p \notin touched'
    BY <2>2, <2>3, SteadyBack
  <2>5. ASSUME NEW n \in 1..i - 1 PROVE Genuine(branches[n], view, List[j])'
    <3>1. PICK b : b = branches[n]
      OBVIOUS
    <3>2. PICK v : v = view
      OBVIOUS
    <3>3. Genuine(b, v, p)
      BY <2>1, <2>4, <2>5, <3>1, <3>2 DEF Seen
    <3>4. Genuine(b, v, p)'
      BY <2>2, <2>3, <3>3, FrameGives DEF Genuine
    <3> QED BY <1>1, <2>3, <3>1, <3>2, <3>4
  <2>6. parent # NoPid => parent = proc'[p].ppid /\ Status("State", p)' = "OK"
    BY <2>1, <2>4, FrameStatus DEF Seen
  <2> QED BY <1>1, <2>1, <2>3, <2>5, <2>6
<1>6. CASE i # 1 \/ parent # NoPid
  BY <1>1, <1>2, <1>3, <1>4, <1>5, <1>6 DEF Seen
<1>7. CASE i = 1 /\ parent = NoPid
  BY <1>1, <1>7, SeenReset
<1> QED BY <1>6, <1>7

-----------------------------------------------------------------------------
(* Every process accepted satisfies the clauses.                           *)

\* The other steps of find keep the notes true.
LEMMA SearchSeen ==
  ASSUME Query, Loops, Seen, Search
  PROVE  Seen'
<1>1. CASE FindBegin
  BY <1>1, SeenReset DEF FindBegin
<1>2. CASE FilterStep
  BY <1>2, SeenReset DEF FilterStep
<1>3. CASE ListStep
  BY <1>3, SeenReset DEF ListStep, Return
<1>4. CASE FilterEnd
  <2>1. pc = "filter"
    BY <1>4 DEF FilterEnd
  <2>2. parent = NoPid
    BY <2>1 DEF Loops
  <2>3. pc' # "match" \/ (i' = 1 /\ parent' = NoPid)
    BY <1>4, <2>2 DEF FilterEnd, Return
  <2> QED BY <2>3, SeenReset
<1>5. CASE MatchParent
  BY <1>5, SeenParent
<1>6. CASE FindEnd
  BY <1>6, SeenReset DEF FindEnd, Return
<1> QED BY <1>1, <1>2, <1>3, <1>4, <1>5, <1>6 DEF Search

\* Every step keeps the notes true.
LEMMA SeenNext == Basic /\ Seen /\ [Next]_vars => Seen'
<1> SUFFICES ASSUME Kernel, Query, Loops, Seen, [Next]_vars PROVE Seen'
  BY DEF Basic
<1>1. ASSUME NEW t, sigar_ptql_query_create(t) PROVE Seen'
  BY <1>1, SeenReset DEF sigar_ptql_query_create
<1>2. ASSUME AddBranch PROVE Seen'
  BY <1>2, SeenReset DEF AddBranch
<1>3. ASSUME sigar_ptql_query_destroy PROVE Seen'
  BY <1>3, SeenReset DEF sigar_ptql_query_destroy
<1>4. ASSUME UNCHANGED vars PROVE Seen'
  <2>1. UNCHANGED <<host, proc, text, branches, pc, shared, own, pids, i, j, parent, view, touched>>
    BY <1>4 DEF vars, kernel, queryVars, findVars
  <2>2. List' = List
    BY <2>1 DEF List
  <2>3. Noted(view)' <=> Noted(view)
    BY <2>1 DEF Noted
  <2>4. Meaningful' /\ pc = "match" => \A n \in 1..i - 1 : Asked(branches[n], view)'
    BY <2>1, AskedKept, MeaningfulKept DEF Seen
  <2>5. Steady(List[j])' /\ pc = "match" => \A n \in 1..i - 1 : Genuine(branches[n], view, List[j])'
    BY <2>1, <2>2, GenuineKept, SteadyKept DEF Seen
  <2>6. Steady(List[j])' /\ parent # NoPid /\ pc = "match" =>
          parent = proc'[List[j]].ppid /\ Status("State", List[j])' = "OK"
    BY <2>1, <2>2, StatusKept, SteadyKept DEF Seen
  <2> QED BY <2>1, <2>2, <2>3, <2>4, <2>5, <2>6 DEF Seen
<1> QED BY <1>1, <1>2, <1>3, <1>4, SearchSeen, SeenMatch, SeenKernel DEF Next, Search

\* Only a match step can add to the answer.
LEMMA OnlyMatch ==
  ASSUME Basic, Next, Len(out') > Len(out)
  PROVE  MatchStep
<1>1. out \in Seq(Pid)
  BY DEF Basic, Loops
<1>2. out' # out /\ out' # << >>
  BY <1>1, SMTT(60)
<1>3. ~\E s, l : Return(s, l)
  BY <1>2 DEF Return
<1>4. ~\E t : sigar_ptql_query_create(t)
  BY <1>2 DEF sigar_ptql_query_create, findVars
<1>5. ~AddBranch /\ ~sigar_ptql_query_destroy /\ ~FindBegin /\ ~FilterStep /\ ~KernelStep
  BY <1>2 DEF AddBranch, sigar_ptql_query_destroy, FindBegin, FilterStep, KernelStep, findVars
<1>6. ~ListStep /\ ~FilterEnd /\ ~FindEnd
  BY <1>2, <1>3 DEF ListStep, FilterEnd, FindEnd
<1>7. ~MatchParent
  BY <1>2, <1>3 DEF MatchParent, NextProc
<1> QED BY <1>4, <1>5, <1>6, <1>7 DEF Next

-----------------------------------------------------------------------------
(* The list of processes that find walks.                                  *)

\* Branch n is that of a Pid clause, and which processes a branch b and the
\* first m branches of this kind select.
OfPids(n) == "PID" \in branches[n].op_flags

Picks(b, p) ==
  ptql_pid_get(b) # NoPid /\ b.flags # "SERVICE" /\ ptql_op_num(b.op, p, ptql_pid_get(b))

Wanted(p, m) == \E n \in 1..m : OfPids(n) /\ Picks(branches[n], p)

Single == \A m, n \in 1..Len(branches) : OfPids(m) /\ OfPids(n) => m = n

\* The list is its own if there is a Pid clause, and what such a clause is
\* looking for.
Owned ==
  /\ pc = "filter" => (own <=> \E n \in 1..i - 1 : OfPids(n))
  /\ pc = "list" => own /\ OfPids(i) /\ match_pid # NoPid /\ branches[i].flags # "SERVICE"
  /\ pc = "list" /\ 0 \notin touched => match_pid = ptql_pid_get(branches[i])
  /\ pc = "match" => (own <=> \E n \in 1..Len(branches) : OfPids(n))

\* With a single Pid clause no process is listed twice.
Once ==
  /\ pc \in {"filter", "list"} =>
       ((\A n \in 1..i - 1 : ~OfPids(n)) => pids = << >>) /\ (Single => Distinct(pids))
  /\ pc = "match" /\ Single => Distinct(List)

\* The list has the processes selected, but for those that changed since.
Gathered ==
  /\ pc \in {"filter", "list"} /\ 0 \notin touched /\ Meaningful =>
       \A p \in Pid \ touched : p \in Rng(pids) <=> ~Gone(p) /\ Wanted(p, i - 1)
  /\ pc = "match" /\ (own => 0 \notin touched) /\ Meaningful =>
       \A p \in Pid \ touched : p \in Rng(List) <=> ~Gone(p) /\ (own => Wanted(p, Len(branches)))

Chosen == Owned /\ Once /\ Gathered

\* The empty list and the empty interval.
LEMMA EmptyRange == Rng(<< >>) = {} /\ Distinct(<< >>) /\ 1..1 - 1 = {}
<1>1. 1..Len(<< >>) = {} /\ 1..1 - 1 = {}
  BY SMTT(60)
<1> QED BY <1>1 DEF Rng, Distinct

\* The members of two lists, one after the other.
LEMMA RangeConcat ==
  ASSUME NEW s \in Seq(Pid), NEW t \in Seq(Pid)
  PROVE  Rng(s \o t) = Rng(s) \cup Rng(t)
<1>1. PICK k : k = Len(s)
  OBVIOUS
<1>2. PICK l : l = Len(t)
  OBVIOUS
<1>3. k \in Nat /\ l \in Nat /\ Len(s \o t) = k + l
  BY <1>1, <1>2, SMTT(60)
<1>4. ASSUME NEW n \in 1..k PROVE n \in 1..k + l /\ (s \o t)[n] = s[n]
  BY <1>1, <1>2, <1>3, SMTT(60)
<1>5. ASSUME NEW n \in 1..l PROVE n + k \in 1..k + l /\ (s \o t)[n + k] = t[n]
  BY <1>1, <1>2, <1>3, SMTT(60)
<1>6. ASSUME NEW n \in 1..k + l PROVE (s \o t)[n] \in Rng(s) \cup Rng(t)
  <2>1. CASE n \in 1..k
    BY <1>1, <1>4, <2>1 DEF Rng
  <2>2. CASE n \notin 1..k
    <3>1. n - k \in 1..l /\ (n - k) + k = n
      BY <1>3, <2>2, SMTT(60)
    <3>2. (s \o t)[n] = t[n - k]
      BY <1>5, <3>1
    <3> QED BY <1>2, <3>1, <3>2 DEF Rng
  <2> QED BY <2>1, <2>2
<1>7. Rng(s \o t) \subseteq Rng(s) \cup Rng(t)
  BY <1>3, <1>6 DEF Rng
<1>8. Rng(s) \subseteq Rng(s \o t)
  BY <1>1, <1>3, <1>4 DEF Rng
<1>9. Rng(t) \subseteq Rng(s \o t)
  BY <1>2, <1>3, <1>5 DEF Rng
<1> QED BY <1>7, <1>8, <1>9

\* A numeric comparison has an answer.
LEMMA NumBoolean ==
  ASSUME NEW op \in NumOps, NEW h, NEW n
  PROVE  ptql_op_num(op, h, n) \in BOOLEAN
<1>1. /\ (h = n) \in BOOLEAN /\ (h # n) \in BOOLEAN /\ (h > n) \in BOOLEAN /\ (h >= n) \in BOOLEAN
      /\ (h < n) \in BOOLEAN /\ (h <= n) \in BOOLEAN
  BY SMTT(60)
<1> QED BY <1>1 DEF NumOps, ptql_op_num

\* The first i branches are the first i - 1 and branch i.
LEMMA UpTo ==
  ASSUME NEW l \in Nat, NEW k \in 1..l
  PROVE  1..k = (1..k - 1) \cup {k} /\ (k + 1) - 1 = k /\ 1..k - 1 \subseteq 1..l /\ k \notin 1..k - 1
BY SMTT(60)

\* One more branch wants what it picks.
LEMMA WantedStep ==
  ASSUME Query, i \in 1..Len(branches), NEW p
  PROVE  Wanted(p, i) <=> Wanted(p, i - 1) \/ (OfPids(i) /\ Picks(branches[i], p))
<1>1. 1..i = (1..i - 1) \cup {i}
  BY BranchCount, UpTo
<1> QED BY <1>1 DEF Wanted

\* A query, its files and its ports as they were.
LEMMA WantedKept ==
  ASSUME UNCHANGED <<branches, os>>, NEW p, NEW b
  PROVE  (Picks(b, p)' <=> Picks(b, p)) /\ \A m : Wanted(p, m)' <=> Wanted(p, m)
<1>1. ptql_pid_get(b)' = ptql_pid_get(b)
  BY DEF ptql_pid_get
<1>2. \A d : Picks(d, p)' <=> Picks(d, p)
  BY DEF Picks, ptql_pid_get
<1> QED BY <1>2 DEF Wanted, OfPids

\* Which branches list processes depends on the branches.
LEMMA PidsKept ==
  ASSUME branches' = branches
  PROVE  (Single' <=> Single) /\ \A n : OfPids(n)' <=> OfPids(n)
BY DEF Single, OfPids

\* Whether a process is gone depends on the processes.
LEMMA GoneKept ==
  ASSUME proc' = proc, NEW p
  PROVE  Gone(p)' <=> Gone(p)
BY DEF Gone

\* Nothing is chosen outside find.
LEMMA ChosenRest ==
  ASSUME pc' \notin {"filter", "list", "match"}
  PROVE  Chosen'
BY DEF Chosen, Owned, Once, Gathered

\* Nothing is chosen when find begins.
LEMMA ChosenBegin ==
  ASSUME Loops, FindBegin
  PROVE  Chosen'
<1>1. pc = "ready" /\ pc' = "filter" /\ i' = 1 /\ touched' = {} /\ UNCHANGED <<own, pids>>
  BY DEF FindBegin
<1>2. own' = FALSE /\ pids' = << >>
  BY <1>1 DEF Loops
<1>3. Owned' /\ Once'
  BY <1>1, <1>2, EmptyRange DEF Owned, Once
<1>4. \A p : ~Wanted(p, 1 - 1)'
  BY EmptyRange DEF Wanted
<1>5. Gathered'
  BY <1>1, <1>2, <1>4, EmptyRange DEF Gathered
<1> QED BY <1>3, <1>5 DEF Chosen

\* A round over a branch that lists nothing chooses nothing.
LEMMA ChosenFilter ==
  ASSUME Query, Loops, Chosen, FilterStep
  PROVE  Chosen'
<1>1. /\ pc = "filter" /\ i \in 1..Len(branches) /\ UNCHANGED <<proc, os, text, branches, pids, touched>>
  <2>1. pc = "filter" /\ i <= Len(branches) /\ UNCHANGED <<proc, os, text, branches, pids, touched>>
    BY DEF FilterStep, queryVars, kernel
  <2> QED BY <2>1, BranchCount, SMTT(60) DEF Loops
<1>2. 1..i = (1..i - 1) \cup {i} /\ (i + 1) - 1 = i
  BY <1>1, BranchCount, UpTo
<1>3. own' = (own \/ OfPids(i))
  BY DEF FilterStep, OfPids
<1>4. PICK pid : pid = ptql_pid_get(branches[i])
  OBVIOUS
<1>5. CASE pc' = "filter" /\ i' = i + 1 /\ (OfPids(i) => \A p : ~Picks(branches[i], p))
  <2>1. i' - 1 = i
    BY <1>2, <1>5
  <2>2. Owned'
    BY <1>1, <1>2, <1>3, <1>5, <2>1, PidsKept DEF Chosen, Owned
  <2>3. Once'
    BY <1>1, <1>2, <1>5, <2>1, PidsKept DEF Chosen, Once
  <2>4. PICK k : k = i
    OBVIOUS
  <2>5. \A p : Wanted(p, k)' <=> Wanted(p, i - 1)
    BY <1>1, <1>5, <2>4, WantedStep, WantedKept
  <2>6. Gathered'
    BY <1>1, <1>5, <2>1, <2>4, <2>5, GoneKept, MeaningfulKept DEF Chosen, Gathered
  <2> QED BY <2>2, <2>3, <2>6 DEF Chosen
<1>6. CASE /\ pc' = "list" /\ i' = i /\ OfPids(i) /\ match_pid' = pid
           /\ pid # NoPid /\ branches[i].flags # "SERVICE"
  <2>1. ptql_pid_get(branches[i])' = pid
    BY <1>1, <1>4, <1>6 DEF ptql_pid_get
  <2>2. Owned'
    BY <1>1, <1>3, <1>6, <2>1, PidsKept DEF Owned
  <2>3. Once'
    BY <1>1, <1>6, PidsKept DEF Chosen, Once
  <2>4. Gathered'
    BY <1>1, <1>6, WantedKept, GoneKept, MeaningfulKept DEF Chosen, Gathered
  <2> QED BY <2>2, <2>3, <2>4 DEF Chosen
<1>7. branches[i].flags = "SERVICE_NAME" => pid = NoPid
  BY <1>4 DEF ptql_pid_get
<1> QED BY <1>1, <1>4, <1>5, <1>6, <1>7 DEF FilterStep, OfPids, Picks

\* Which processes ptql_pid_list_get keeps.
LEMMA ListKeeps ==
  ASSUME Query, Loops, Chosen, ListStep, pc' = "filter"
  PROVE  \E S \in SUBSET Pid :
           /\ pids' = pids \o Ascending(S)
           /\ 0 \notin touched /\ Meaningful => \A p \in Pid : p \in S <=> ~Gone(p) /\ Picks(branches[i], p)
<1>1. pc = "list" /\ i \in 1..Len(branches)
  BY DEF ListStep, Loops
<1>2. ~Return("ERROR", << >>)
  BY DEF Return
<1>3. PICK b : b = branches[i]
  OBVIOUS
<1>4. PICK keep \in SUBSET {p \in Pid : TRUE \in PidMatches(b, p)} :
        /\ \A p \in Pid : FALSE \notin PidMatches(b, p) => p \in keep
        /\ pids' = pids \o Ascending({p \in keep : ~Gone(p)})
  BY <1>2, <1>3 DEF ListStep
<1>5. PICK S : S = {p \in keep : ~Gone(p)}
  OBVIOUS
<1>6. ASSUME 0 \notin touched, Meaningful, NEW p \in Pid PROVE p \in keep <=> Picks(b, p)
  <2>1. b.op \in NumOps
    <3>1. Stands(b.pos, b) /\ b.pos \in 1..Len(text)
      BY <1>1, <1>3, BranchStands DEF Finding
    <3>2. "PID" \in b.op_flags
      BY <1>1, <1>3 DEF Chosen, Owned, OfPids
    <3>3. IsPid(Clause(b.pos)) /\ b.op = Clause(b.pos).op
      BY <3>1, <3>2 DEF Stands, Meant, Sorts
    <3> QED BY <1>6, <3>1, <3>3, ClauseMeaning
  <2>2. match_pid = ptql_pid_get(b) /\ match_pid # NoPid /\ b.flags # "SERVICE"
    BY <1>1, <1>3, <1>6 DEF Chosen, Owned
  <2>3. PICK x \in BOOLEAN : x = ptql_op_num(b.op, p, match_pid)
    BY <2>1, NumBoolean
  <2>4. PidMatches(b, p) = {x}
    BY <2>1, <2>3 DEF PidMatches
  <2>5. p \in keep <=> x
    BY <1>4, <2>4
  <2>6. Picks(b, p) <=> x
    BY <2>2, <2>3 DEF Picks
  <2> QED BY <2>5, <2>6
<1>7. S \in SUBSET Pid /\ pids' = pids \o Ascending(S)
  BY <1>4, <1>5
<1>8. 0 \notin touched /\ Meaningful => \A p \in Pid : p \in S <=> ~Gone(p) /\ Picks(b, p)
  BY <1>5, <1>6
<1> QED BY <1>3, <1>7, <1>8

\* The branch of a Pid clause has no buffer.
LEMMA PidBranch ==
  ASSUME Query, pc \in Finding, NEW n \in 1..Len(branches), OfPids(n)
  PROVE  branches[n].type = "ANY" /\ IsPid(Clause(branches[n].pos))
<1>1. PICK b : b = branches[n]
  OBVIOUS
<1>2. PICK c : c = Clause(b.pos)
  OBVIOUS
<1>3. Sorts(c, b)
  BY <1>1, <1>2, BranchStands DEF Stands, Meant
<1>4. IsPid(c)
  BY <1>1, <1>3 DEF Sorts, OfPids
<1>5. b.type = "ANY"
  BY <1>3, <1>4, TypeIs, NotPid
<1> QED BY <1>1, <1>2, <1>4, <1>5

\* The walk over the list leaves what was chosen.
LEMMA ChosenWalk ==
  ASSUME pc = "match", Chosen, UNCHANGED <<proc, os, text, touched, shared>>,
         pc' = "ready" \/ (pc' = "match" /\ UNCHANGED <<own, pids>>), Len(branches') = Len(branches),
         \A n \in 1..Len(branches) : /\ branches'[n].op_flags = branches[n].op_flags
                                     /\ OfPids(n) => branches'[n] = branches[n]
  PROVE  Chosen'
<1>1. CASE pc' = "ready"
  BY <1>1, ChosenRest
<1>2. CASE pc' = "match" /\ UNCHANGED <<own, pids>>
  <2>1. PICK l : l = Len(branches)
    OBVIOUS
  <2>2. \A n \in 1..l : OfPids(n)' <=> OfPids(n)
    BY <2>1 DEF OfPids
  <2>3. Single' <=> Single
    BY <2>1, <2>2 DEF Single
  <2>4. List' = List
    BY <1>2 DEF List
  <2>5. ASSUME NEW p PROVE Wanted(p, l)' <=> Wanted(p, l)
    <3>1. ASSUME NEW n \in 1..l, OfPids(n) PROVE Picks(branches[n], p)' <=> Picks(branches[n], p)
      <4>1. PICK b : b = branches[n]
        OBVIOUS
      <4>2. branches'[n] = b
        BY <2>1, <3>1, <4>1
      <4>3. Picks(b, p)' <=> Picks(b, p)
        BY DEF Picks, ptql_pid_get
      <4> QED BY <4>1, <4>2, <4>3
    <3> QED BY <2>2, <3>1 DEF Wanted
  <2>6. Owned'
    BY <1>2, <2>1, <2>2 DEF Chosen, Owned
  <2>7. Once'
    BY <1>2, <2>3, <2>4 DEF Chosen, Once
  <2>8. Gathered'
    BY <1>2, <2>1, <2>4, <2>5, GoneKept, MeaningfulKept DEF Chosen, Gathered
  <2> QED BY <2>6, <2>7, <2>8 DEF Chosen
<1> QED BY <1>1, <1>2

\* The walk leaves the chosen processes.
LEMMA NextProcKeeps ==
  ASSUME NEW st, NextProc(st), pc = "match"
  PROVE  pc' = "ready" \/ (pc' = "match" /\ UNCHANGED <<own, pids>>)
BY DEF NextProc, Return

\* An answer leaves the chosen processes.
LEMMA AnswerKeeps ==
  ASSUME NEW m, Answer(m), pc = "match"
  PROVE  pc' = "ready" \/ (pc' = "match" /\ UNCHANGED <<own, pids>>)
BY NextProcKeeps DEF Answer

\* A match leaves the chosen processes.
LEMMA ChosenMatch ==
  ASSUME Query, Loops, Chosen, MatchStep \/ MatchParent
  PROVE  Chosen'
<1>1. pc = "match" /\ UNCHANGED <<proc, os, text, touched, shared>>
  BY DEF MatchStep, MatchParent, kernel, queryVars
<1>2. CASE MatchStep
  <2>1. pc' = "ready" \/ (pc' = "match" /\ UNCHANGED <<own, pids>>)
    BY <1>1, <1>2, MatchGoes, NextProcKeeps, AnswerKeeps
  <2>2. Len(branches') = Len(branches)
    BY <1>2, LoopsMatch
  <2>3. ASSUME NEW n \in 1..Len(branches)
        PROVE  /\ branches'[n].op_flags = branches[n].op_flags
               /\ OfPids(n) => branches'[n] = branches[n]
    BY <1>1, <1>2, MatchKeeps, PidBranch DEF Finding
  <2> QED BY <1>1, <2>1, <2>2, <2>3, ChosenWalk
<1>3. CASE MatchParent
  <2>1. branches' = branches
    BY <1>3 DEF MatchParent, queryVars
  <2>2. pc' = "ready" \/ (pc' = "match" /\ UNCHANGED <<own, pids>>)
    BY <1>1, <1>3, NextProcKeeps DEF MatchParent
  <2> QED BY <1>1, <2>1, <2>2, ChosenWalk
<1> QED BY <1>2, <1>3

\* A change of the kernel leaves the steady processes chosen.
LEMMA ChosenKernel ==
  ASSUME Kernel, Query, Loops, Chosen, KernelStep
  PROVE  Chosen'
<1>1. UNCHANGED <<text, branches, shared, own, pids, i, j, match_pid, pc>> /\ touched \subseteq touched'
  BY DEF KernelStep, queryVars, findVars
<1>2. List' = List
  BY <1>1 DEF List
<1>3. 0 \notin touched' => 0 \notin touched /\ os' = os
  BY KernelFrame
<1>4. ASSUME 0 \notin touched', NEW b PROVE ptql_pid_get(b)' = ptql_pid_get(b)
  BY <1>3, <1>4 DEF ptql_pid_get
<1>5. Owned'
  <2>1. pc = "list" /\ 0 \notin touched' => match_pid = ptql_pid_get(branches[i])'
    BY <1>1, <1>3, <1>4 DEF Chosen, Owned
  <2> QED BY <1>1, <2>1, PidsKept DEF Chosen, Owned
<1>6. Once'
  BY <1>1, <1>2, PidsKept DEF Chosen, Once
<1>7. ASSUME NEW p \in Pid \ touched' PROVE p \in Pid \ touched /\ (Gone(p)' <=> Gone(p))
  BY <1>1, FrameStatus
<1>8. ASSUME 0 \notin touched', NEW p PROVE \A m : Wanted(p, m)' <=> Wanted(p, m)
  BY <1>1, <1>3, <1>8, WantedKept
<1>9. Gathered'
  BY <1>1, <1>2, <1>3, <1>7, <1>8, MeaningfulKept DEF Chosen, Gathered
<1> QED BY <1>5, <1>6, <1>9 DEF Chosen

-----------------------------------------------------------------------------
(* What a query means of a process, in terms of its branches.              *)

\* The values v are what the branches read of process p.
Views(v, p) ==
  \A n \in 1..Len(branches) : v[branches[n].pos] = Reads(branches[n], Source(branches[n], p))

Fits(p) ==
  /\ ~Gone(p) /\ ((\E n \in 1..Len(branches) : OfPids(n)) => Wanted(p, Len(branches)))
  /\ \A n \in 1..Len(branches) : Gives(branches[n], p)
  /\ \E v : Views(v, p) /\ \A n \in 1..Len(branches) : Says(branches[n].pos, v)

\* Branch d is b with another buffer.
Similar(b, d) ==
  /\ b.type = "ANY" => d = b
  /\ d.pos = b.pos /\ d.type = b.type /\ d.op_flags = b.op_flags /\ d.name = b.name /\ d.attr = b.attr

\* The buffer of a branch does not matter to what it reads.
LEMMA SimilarReads ==
  ASSUME NEW b, NEW d, Similar(b, d), NEW p
  PROVE  Source(d, p) = Source(b, p) /\ (Gives(d, p) <=> Gives(b, p)) /\ \A q : Reads(d, q) = Reads(b, q)
<1>1. Source(d, p) = Source(b, p)
  BY DEF Similar, Source
<1>2. Gives(d, p) <=> Gives(b, p)
  BY <1>1 DEF Similar, Gives
<1>3. \A q : Reads(d, q) = Reads(b, q)
  BY DEF Similar, Reads, Read
<1> QED BY <1>1, <1>2, <1>3

\* What a clause says depends on the text only.
LEMMA SaysKept ==
  ASSUME text' = text, NEW k, NEW v
  PROVE  Says(k, v)' <=> Says(k, v)
BY DEF Says, Clause

\* The buffers do not matter.
LEMMA FitsKept ==
  ASSUME Query, pc \in Finding, UNCHANGED <<host, proc, os, text>>, Len(branches') = Len(branches),
         \A n \in 1..Len(branches) : Similar(branches[n], branches'[n]), NEW p
  PROVE  Fits(p)' <=> Fits(p)
<1>1. PICK l : l = Len(branches)
  OBVIOUS
<1>2. \A n \in 1..l : OfPids(n)' <=> OfPids(n)
  BY <1>1 DEF OfPids, Similar
<1>3. Wanted(p, l)' <=> Wanted(p, l)
  <2>1. ASSUME NEW n \in 1..l, OfPids(n) PROVE Picks(branches[n], p)' <=> Picks(branches[n], p)
    <3>1. PICK b : b = branches[n]
      OBVIOUS
    <3>2. branches'[n] = b
      BY <1>1, <2>1, <3>1, PidBranch DEF Similar
    <3>3. Picks(b, p)' <=> Picks(b, p)
      BY DEF Picks, ptql_pid_get
    <3> QED BY <3>1, <3>2, <3>3
  <2> QED BY <1>2, <2>1 DEF Wanted
<1>4. ASSUME NEW n \in 1..l
      PROVE  /\ Gives(branches[n], p)' <=> Gives(branches[n], p)
             /\ Reads(branches[n], Source(branches[n], p))' = Reads(branches[n], Source(branches[n], p))
  <2>1. PICK b : b = branches[n]
    OBVIOUS
  <2>2. PICK d : d = branches'[n]
    OBVIOUS
  <2>3. Source(d, p) = Source(b, p) /\ (Gives(d, p) <=> Gives(b, p)) /\ \A q : Reads(d, q) = Reads(b, q)
    BY <1>1, <2>1, <2>2, SimilarReads
  <2>4. Source(d, p)' = Source(d, p)
    BY DEF Source
  <2>5. Gives(d, p)' <=> Gives(d, p)
    BY <2>4, StatusKept DEF Gives
  <2>6. Reads(d, Source(d, p))' = Reads(d, Source(d, p))
    BY <2>4, StatusKept
  <2> QED BY <2>1, <2>2, <2>3, <2>5, <2>6
<1>5. \A n \in 1..l : branches'[n].pos = branches[n].pos
  BY <1>1 DEF Similar
<1>6. \A v : Views(v, p)' <=> Views(v, p)
  BY <1>1, <1>4, <1>5 DEF Views
<1>7. \A v : (\A n \in 1..l : Says(branches[n].pos, v))' <=> \A n \in 1..l : Says(branches[n].pos, v)
  BY <1>5, SaysKept
<1>8. Gone(p)' <=> Gone(p)
  BY GoneKept
<1> QED BY <1>1, <1>2, <1>3, <1>4, <1>6, <1>7, <1>8 DEF Fits

\* A branch lists processes if its clause is a Pid clause.
LEMMA OfPidClause ==
  ASSUME Query, pc \in Finding, NEW n \in 1..Len(branches)
  PROVE  OfPids(n) <=> branches[n].pos \in PidClauses
<1>1. PICK b : b = branches[n]
  OBVIOUS
<1>2. "PID" \in b.op_flags <=> IsPid(Clause(b.pos))
  BY <1>1, BranchStands DEF Stands, Meant, Sorts
<1>3. b.pos \in 1..Len(text)
  BY <1>1, BranchStands
<1> QED BY <1>1, <1>2, <1>3 DEF OfPids, PidClauses

-----------------------------------------------------------------------------
(* The processes judged so far.                                            *)

Passed == {List[m] : m \in 1..j - 1}

\* Of the processes passed, those that fit are in the answer.
Judged ==
  pc = "match" /\ Meaningful =>
    /\ Rng(out) \subseteq Passed
    /\ \A p \in Pid : Steady(p) /\ p \in Passed => (Fits(p) <=> p \in Rng(out))
    /\ Distinct(List) => Distinct(out)

\* A match changes buffers only.
LEMMA MatchSimilar ==
  ASSUME Query, Loops, MatchStep, NEW n \in 1..Len(branches)
  PROVE  Similar(branches[n], branches'[n])
BY MatchKeeps DEF Similar

\* What was read of the steady process at hand is what its branches read.
LEMMA GenuineNow ==
  ASSUME Query, Loops, Seen, MatchStep, NEW m, Answered(m), Steady(List[j]), NEW n \in 1..i
  PROVE  /\ Gives(branches[n], List[j])
         /\ view'[branches[n].pos] = Reads(branches[n], Source(branches[n], List[j]))
<1>1. n \in 1..Len(branches)
  <2>1. i \in 1..Len(branches)
    BY DEF MatchStep, Loops
  <2> QED BY <2>1, BranchCount, SMTT(60)
<1>2. PICK p : p = List[j]
  OBVIOUS
<1>3. PICK b : b = branches[n]
  OBVIOUS
<1>4. PICK d : d = branches'[n]
  OBVIOUS
<1>5. Similar(b, d)
  BY <1>1, <1>3, <1>4, MatchSimilar
<1>6. Genuine(d, view', p)
  BY <1>2, <1>4, GenuineNext
<1>7. Source(d, p) = Source(b, p) /\ (Gives(d, p) <=> Gives(b, p)) /\ \A q : Reads(d, q) = Reads(b, q)
  BY <1>5, SimilarReads
<1> QED BY <1>2, <1>3, <1>5, <1>6, <1>7 DEF Genuine, Similar

\* A process that a branch rejects is not meant.
LEMMA Rejects ==
  ASSUME Query, Loops, Seen, MatchStep, NEW m, Answered(m), ~m, Meaningful, Steady(List[j])
  PROVE  ~Fits(List[j])
<1>1. pc = "match" /\ i \in 1..Len(branches)
  BY DEF MatchStep, Loops
<1>2. PICK p : p = List[j]
  OBVIOUS
<1> SUFFICES ASSUME Fits(p) PROVE FALSE
  BY <1>2
<1>3. PICK v : Views(v, p) /\ \A n \in 1..Len(branches) : Says(branches[n].pos, v)
  BY DEF Fits
<1>4. PICK w : w = view'
  OBVIOUS
<1>5. ASSUME NEW n \in 1..i, n \in 1..Len(branches) PROVE v[branches[n].pos] = w[branches[n].pos]
  BY <1>2, <1>3, <1>4, <1>5, GenuineNow DEF Views
<1>6. i \in 1..i
  BY <1>1, SMTT(60)
<1>7. PICK b : b = branches[i]
  OBVIOUS
<1>8. PICK k : k = b.pos
  OBVIOUS
<1>9. ASSUME Clause(k).val.kind = "ref" PROVE v[Clause(k).val.num] = w[Clause(k).val.num]
  <2>1. "REF" \in b.op_flags
    BY <1>1, <1>7, <1>8, <1>9, BranchStands DEF Finding, Stands, Meant
  <2>2. PICK r : r = text[i].val.num
    OBVIOUS
  <2>3. k = i /\ r \in 1..i - 1 /\ branches[r].pos = r /\ Clause(k).val.num = r
    BY <1>1, <1>7, <1>8, <2>1, <2>2, RefBack
  <2>4. r \in 1..i /\ r \in 1..Len(branches)
    BY <1>1, <2>3, BranchCount, SMTT(60)
  <2> QED BY <1>5, <2>3, <2>4
<1>10. Says(k, v) /\ v[k] = w[k]
  BY <1>1, <1>3, <1>5, <1>6, <1>7, <1>8
<1>11. Says(k, w)
  BY <1>9, <1>10, SaysSame
<1> QED BY <1>4, <1>7, <1>8, <1>11 DEF Answered

\* The process at hand is one of the list.
LEMMA AtHand ==
  ASSUME Loops, pc = "match", j <= Len(List)
  PROVE  j \in 1..Len(List) /\ List[j] \in Pid /\ List[j] \in Rng(List)
<1>1. j \in 1..Len(List)
  BY ListType, SMTT(60) DEF Loops
<1>2. List[j] \in Pid
  BY <1>1, ListType, SMTT(60)
<1> QED BY <1>1, <1>2 DEF Rng

\* A process that cannot be read is not meant.
LEMMA Unreadable ==
  ASSUME Query, Loops, Seen, MatchStep, GaveUp, Steady(List[j])
  PROVE  ~Fits(List[j])
<1>1. pc = "match" /\ i \in 1..Len(branches)
  BY DEF MatchStep, Loops
<1>2. PICK p : p = List[j]
  OBVIOUS
<1>3. PICK b : b = branches[i]
  OBVIOUS
<1>4. Asks = Source(b, p)
  <2>1. "PARENT" \in b.op_flags => parent # NoPid
    BY <1>3 DEF MatchStep
  <2> QED BY <1>1, <1>2, <1>3, <2>1 DEF Seen, Asks, Source
<1>5. ~Gives(b, p)
  BY <1>3, <1>4 DEF GaveUp, Gives
<1> QED BY <1>1, <1>2, <1>3, <1>5 DEF Fits

\* A process whose parent cannot be looked up does not fit.
LEMMA Orphan ==
  ASSUME Loops, MatchParent, Status("State", List[j]) # "OK"
  PROVE  ~Fits(List[j])
<1>1. i \in 1..Len(branches) /\ "PARENT" \in branches[i].op_flags
  BY DEF MatchParent, Loops
<1> QED BY <1>1 DEF Fits, Gives

\* The members of a list with one more.
LEMMA AppendFacts ==
  ASSUME NEW s \in Seq(Pid), NEW p \in Pid
  PROVE  /\ Rng(Append(s, p)) = Rng(s) \cup {p}
         /\ Distinct(s) /\ p \notin Rng(s) => Distinct(Append(s, p))
<1>1. PICK k \in Nat : k = Len(s)
  BY SMTT(60)
<1>2. PICK t : t = Append(s, p)
  OBVIOUS
<1>3. Len(t) = k + 1 /\ t[k + 1] = p /\ (\A n \in 1..k : t[n] = s[n]) /\ 1..k + 1 = (1..k) \cup {k + 1}
  BY <1>1, <1>2, SMTT(60)
<1>4. Rng(t) = Rng(s) \cup {p}
  BY <1>1, <1>3 DEF Rng
<1>5. ASSUME Distinct(s), p \notin Rng(s) PROVE Distinct(t)
  <2>1. ASSUME NEW n \in 1..k PROVE t[n] # p
    BY <1>1, <1>3, <1>5 DEF Rng
  <2>2. ASSUME NEW m \in 1..k + 1, NEW n \in 1..k + 1, m # n PROVE t[m] # t[n]
    <3>1. CASE m \in 1..k /\ n \in 1..k
      <4>1. s[m] # s[n]
        BY <1>1, <1>5, <2>2, <3>1 DEF Distinct
      <4> QED BY <1>3, <3>1, <4>1
    <3>2. CASE m \in 1..k /\ n = k + 1
      BY <1>3, <2>1, <3>2
    <3>3. CASE m = k + 1 /\ n \in 1..k
      BY <1>3, <2>1, <3>3
    <3> QED BY <1>3, <2>2, <3>1, <3>2, <3>3
  <2> QED BY <1>3, <2>2 DEF Distinct
<1> QED BY <1>2, <1>4, <1>5

\* The kernel and the query as they were, but for buffers.
Still ==
  /\ UNCHANGED <<host, proc, os, text, touched>> /\ Len(branches') = Len(branches)
  /\ \A n \in 1..Len(branches) : Similar(branches[n], branches'[n])

\* While nothing but buffers changes, the same processes fit.
LEMMA StillFits ==
  ASSUME Query, pc \in Finding, Still
  PROVE  /\ Meaningful' <=> Meaningful
         /\ \A p : (Fits(p)' <=> Fits(p)) /\ (Steady(p)' <=> Steady(p))
BY FitsKept, SteadyKept, MeaningfulKept DEF Still

\* The walk stays at its process.
LEMMA JudgedStay ==
  ASSUME Query, pc = "match", Judged, Still, pc' = "match", List' = List, UNCHANGED <<j, out>>
  PROVE  Judged'
<1>1. Passed' = Passed
  BY DEF Passed
<1> QED BY <1>1, StillFits DEF Judged, Finding

\* The walk goes on from process j.
LEMMA JudgedMove ==
  ASSUME Query, Loops, pc = "match", j <= Len(List), Judged, Still, pc' = "match", List' = List, j' = j + 1,
         \/ out' = out /\ (Meaningful /\ Steady(List[j]) => ~Fits(List[j]))
         \/ out' = Append(out, List[j]) /\ (Meaningful /\ Steady(List[j]) => Fits(List[j]))
  PROVE  Judged'
<1> SUFFICES ASSUME Meaningful PROVE Judged'
  BY StillFits DEF Judged, Finding
<1>1. PICK p \in Pid : p = List[j]
  BY AtHand
<1>2. j \in 1..Len(List) /\ Len(List) \in Nat
  BY AtHand, ListType
<1>3. 1..j = (1..j - 1) \cup {j} /\ (j + 1) - 1 = j /\ 1..j - 1 \subseteq 1..Len(List) /\ j \notin 1..j - 1
  BY <1>2, UpTo
<1>4. Passed' = Passed \cup {p}
  BY <1>1, <1>3 DEF Passed
<1>5. Distinct(List) => p \notin Passed
  BY <1>1, <1>2, <1>3 DEF Distinct, Passed
<1>6. /\ Rng(out) \subseteq Passed /\ (Distinct(List) => Distinct(out))
      /\ \A q \in Pid : Steady(q) /\ q \in Passed => (Fits(q) <=> q \in Rng(out))
  BY DEF Judged
<1>7. out \in Seq(Pid)
  BY DEF Loops
<1>8. /\ Rng(out') \subseteq Passed \cup {p} /\ (Distinct(List) => Distinct(out'))
      /\ \A q \in Pid : Steady(q) /\ q \in Passed \cup {p} => (Fits(q) <=> q \in Rng(out'))
  <2>1. CASE out' = out /\ (Steady(p) => ~Fits(p))
    BY <1>6, <2>1
  <2>2. CASE out' = Append(out, p) /\ (Steady(p) => Fits(p))
    <3>1. Rng(out') = Rng(out) \cup {p}
      BY <1>7, <2>2, AppendFacts
    <3>2. Distinct(List) => Distinct(out')
      BY <1>5, <1>6, <1>7, <2>2, AppendFacts
    <3> QED BY <1>6, <2>2, <3>1, <3>2
  <2> QED BY <1>1, <2>1, <2>2
<1> QED BY <1>4, <1>8, StillFits DEF Judged, Finding

\* No verdict is due outside the walk.
LEMMA JudgedRest ==
  ASSUME pc' # "match"
  PROVE  Judged'
BY DEF Judged

\* Passing over a process that does not fit is right.
LEMMA JudgedNextProc ==
  ASSUME Query, Loops, pc = "match", j <= Len(List), Judged, Still, UNCHANGED shared, NEW st, NextProc(st),
         Meaningful /\ Steady(List[j]) => ~Fits(List[j])
  PROVE  Judged'
<1>1. CASE st = "ENOTIMPL"
  BY <1>1, JudgedRest DEF NextProc, Return
<1>2. CASE st # "ENOTIMPL"
  <2>1. j' = j + 1 /\ pc' = "match" /\ UNCHANGED <<own, pids, out>>
    BY <1>2 DEF NextProc
  <2>2. List' = List
    BY <2>1 DEF List
  <2> QED BY <2>1, <2>2, JudgedMove
<1> QED BY <1>1, <1>2

\* A step that leaves branches and kernel alone.
LEMMA StillSame ==
  ASSUME UNCHANGED <<host, proc, os, text, touched, branches>>
  PROVE  Still
BY DEF Still, Similar

\* A process is passed over rightly when its parent cannot be looked up.
LEMMA JudgedParent ==
  ASSUME Query, Loops, Judged, MatchParent
  PROVE  Judged'
<1>1. pc = "match" /\ j <= Len(List) /\ UNCHANGED shared
  BY DEF MatchParent
<1>2. Still
  BY StillSame DEF MatchParent, kernel, queryVars
<1>3. CASE Status("State", List[j]) # "OK"
  <2>1. PICK st : NextProc(st)
    BY <1>3 DEF MatchParent
  <2> QED BY <1>1, <1>2, <1>3, <2>1, Orphan, JudgedNextProc
<1>4. CASE Status("State", List[j]) = "OK"
  <2>1. pc' = "match" /\ UNCHANGED <<own, pids, j, out>>
    BY <1>1, <1>4 DEF MatchParent
  <2>2. List' = List
    BY <1>1, <2>1 DEF List
  <2> QED BY <1>1, <1>2, <2>1, <2>2, JudgedStay
<1> QED BY <1>3, <1>4

\* Before the first process, nothing was judged.
LEMMA JudgedFirst ==
  ASSUME Loops, FilterEnd
  PROVE  Judged'
<1>1. CASE Return("ERROR", << >>)
  BY <1>1, JudgedRest DEF Return
<1>2. CASE ~Return("ERROR", << >>)
  <2>1. pc = "filter" /\ j' = 1 /\ out' = out
    BY <1>2 DEF FilterEnd
  <2>2. out' = << >>
    BY <2>1 DEF Loops
  <2>3. Passed' = {}
    BY <2>1, EmptyRange DEF Passed
  <2> QED BY <2>2, <2>3, EmptyRange DEF Judged
<1> QED BY <1>1, <1>2

-----------------------------------------------------------------------------
(* What find returns.                                                      *)

\* The answer of the last find, if it succeeded.
Found ==
  pc = "ready" /\ res.status = "OK" =>
    /\ res.pid # NoPid <=> Len(res.list) = 1
    /\ Meaningful => /\ \A p \in Pid : Steady(p) => (Fits(p) <=> p \in Rng(res.list))
                     /\ Single => Distinct(res.list)

\* No other step ends a find with success.
LEMMA FoundElse ==
  ASSUME pc' # "ready" \/ res'.status # "OK"
  PROVE  Found'
BY DEF Found

\* A find that fails says so.
LEMMA FailedReturn ==
  ASSUME NEW s, s # "OK", NEW l, Return(s, l)
  PROVE  res'.status # "OK"
<1>1. PICK k, p : res' = [status |-> s, list |-> k, pid |-> p]
  BY DEF Return
<1> QED BY <1>1, SMTT(60)

\* Giving up a find is not a success.
LEMMA FoundNextProc ==
  ASSUME pc = "match", NEW st, NextProc(st)
  PROVE  Found'
<1>1. CASE st = "ENOTIMPL"
  BY <1>1, FailedReturn, FoundElse DEF NextProc
<1>2. CASE st # "ENOTIMPL"
  BY <1>2, FoundElse DEF NextProc
<1> QED BY <1>1, <1>2

\* No match ends a find with success.
LEMMA FoundMatch ==
  ASSUME MatchStep \/ MatchParent
  PROVE  Found'
<1>1. pc = "match"
  BY DEF MatchStep, MatchParent
<1>2. (\E m : Answer(m)) \/ (\E st : NextProc(st)) \/ pc' = pc
  BY MatchGoes DEF MatchParent
<1>3. ASSUME NEW m, Answer(m) PROVE (\E st : NextProc(st)) \/ pc' = pc
  BY <1>3 DEF Answer
<1> QED BY <1>1, <1>2, <1>3, FoundNextProc, FoundElse

-----------------------------------------------------------------------------
(* The meaning of the text is that of the branches.                        *)

\* A branch of a usable query has what its clause told it.
LEMMA BranchTold ==
  ASSUME Query, pc \in Finding, NEW n \in 1..Len(branches)
  PROVE  Told(Clause(branches[n].pos), branches[n])
<1>1. PICK b : b = branches[n]
  OBVIOUS
<1>2. Entry(b, text) /\ Adds(text, b.pos).ok /\ IsText(text)
  BY <1>1 DEF Query, Filed, ListOK, AllOk, Finding
<1>3. Told(ClauseOf(text, b.pos), b)
  BY <1>2, EntryTold
<1> QED BY <1>1, <1>3 DEF Clause, ClauseOf

\* A branch asks for the strings that its clause asks for.
LEMMA StringsAre ==
  ASSUME NEW c, NEW b, Told(c, b), Sorts(c, b), b.name = c.name, b.attr = c.attr, ~IsStd(c), NEW q
  PROVE  Candidates(b, q) = Strings(c, q)
<1>1. CASE IsPid(c)
  BY <1>1 DEF Sorts, Candidates, Strings
<1>2. CASE ~IsPid(c) /\ Status(c.name, q) # "OK"
  BY <1>2 DEF Candidates, Strings
<1>3. CASE ~IsPid(c) /\ c.name = "Env"
  BY <1>3 DEF Sorts, Candidates, Strings
<1>4. CASE ~IsPid(c) /\ Status(c.name, q) = "OK" /\ c.name # "Env"
  <2>1. c.name \in {"Args", "Modules"} /\ "PID" \notin b.op_flags
    BY <1>4 DEF Sorts, IsStd, IsPid, AnyMethods
  <2>2. CASE c.attr = "*"
    BY <1>4, <2>1, <2>2 DEF Told, Candidates, Strings
  <2>3. CASE c.attr # "*"
    BY <1>4, <2>1, <2>3 DEF Told, Candidates, Strings
  <2> QED BY <2>2, <2>3
<1> QED BY <1>1, <1>2, <1>3, <1>4

\* A branch looks for the process that its clause names.
LEMMA NamedIs ==
  ASSUME NEW k, NEW b, Told(Clause(k), b), Sorts(Clause(k), b), b.op = Clause(k).op, IsPid(Clause(k)),
         ~(Clause(k).name = "Port" /\ Clause(k).attr = "udp"), NEW p
  PROVE  Selects(k, p) <=> Picks(b, p)
<1>1. PICK c : c = Clause(k)
  OBVIOUS
<1>2. CASE c.name = "Port"
  <2>1. b.flags = "TCP_PORT" /\ Named(k) = os.tcp
    BY <1>1, <1>2 DEF Told, Named
  <2>2. ptql_pid_get(b) = os.tcp
    BY <2>1 DEF ptql_pid_get
  <2> QED BY <2>1, <2>2 DEF Selects, Picks
<1>3. CASE c.name = "Service"
  <2>1. b.flags \in {"SERVICE", "SERVICE_NAME"} /\ Named(k) = NoPid
    BY <1>1, <1>3 DEF Told, Named
  <2>2. b.flags = "SERVICE_NAME" => ptql_pid_get(b) = NoPid
    BY DEF ptql_pid_get
  <2> QED BY <2>1, <2>2 DEF Selects, Picks
<1>4. CASE c.name = "Pid" /\ c.attr = "Pid"
  <2>1. b.flags = "PID" /\ b.data.num = Named(k)
    BY <1>1, <1>4 DEF Told, Named
  <2>2. ptql_pid_get(b) = Named(k)
    BY <2>1 DEF ptql_pid_get
  <2> QED BY <2>1, <2>2 DEF Selects, Picks
<1>5. CASE c.name = "Pid" /\ c.attr # "Pid"
  <2>1. b.flags \in {"FILE", "SUDO_FILE"} /\ Named(k) = os.pidfile
    BY <1>1, <1>5 DEF Told, Named
  <2>2. ptql_pid_get(b) = Named(k) /\ b.flags # "SERVICE"
    BY <2>1 DEF ptql_pid_get
  <2> QED BY <2>2 DEF Selects, Picks
<1> QED BY <1>1, <1>2, <1>3, <1>4, <1>5 DEF IsPid

\* What the clauses read of process p, as Means says it.
ViewOf(p) ==
  [n \in 1..Len(text) |->
     IF IsStd(Clause(n)) THEN [data |-> Read(Clause(n), Owner(n, p)), cand |-> {}]
     ELSE [data |-> Null, cand |-> Strings(Clause(n), Owner(n, p))]]

\* A branch reads from the process its clause names.
LEMMA OwnerIs ==
  ASSUME Query, pc \in Finding, NEW n \in 1..Len(branches), NEW p
  PROVE  /\ Owner(branches[n].pos, p) = Source(branches[n], p)
         /\ branches[n].type = "ANY" <=> ~IsStd(Clause(branches[n].pos))
         /\ branches[n].name = Clause(branches[n].pos).name
         /\ "PARENT" \in branches[n].op_flags <=> "PARENT" \in Clause(branches[n].pos).mods
<1>1. PICK b : b = branches[n]
  OBVIOUS
<1>2. PICK c : c = Clause(b.pos)
  OBVIOUS
<1>3. Sorts(c, b) /\ b.name = c.name /\ ("PARENT" \in b.op_flags <=> "PARENT" \in c.mods)
  BY <1>1, <1>2, BranchStands DEF Stands, Meant
<1>4. b.type = "ANY" <=> ~IsStd(c)
  BY <1>3, TypeIs
<1>5. Owner(b.pos, p) = Source(b, p)
  BY <1>2, <1>3 DEF Owner, Source
<1> QED BY <1>1, <1>2, <1>3, <1>4, <1>5

\* The values Means speaks of are those the branches read.
LEMMA ViewsOf ==
  ASSUME Query, pc \in Finding, NEW p
  PROVE  Views(ViewOf(p), p)
<1> SUFFICES ASSUME NEW n \in 1..Len(branches)
             PROVE  ViewOf(p)[branches[n].pos] = Reads(branches[n], Source(branches[n], p))
  BY DEF Views
<1>1. PICK b : b = branches[n]
  OBVIOUS
<1>2. PICK k : k = b.pos
  OBVIOUS
<1>3. k \in 1..Len(text)
  BY <1>1, <1>2, BranchStands
<1>4. PICK c : c = Clause(k)
  OBVIOUS
<1>5. PICK q : q = Source(b, p)
  OBVIOUS
<1>6. Owner(k, p) = q /\ (b.type = "ANY" <=> ~IsStd(c))
  BY <1>1, <1>2, <1>4, <1>5, OwnerIs
<1>7. Sorts(c, b) /\ b.name = c.name /\ b.attr = c.attr /\ Told(c, b)
  BY <1>1, <1>2, <1>4, BranchStands, BranchTold DEF Stands, Meant
<1>8. ~IsStd(c) => Candidates(b, q) = Strings(c, q)
  BY <1>7, StringsAre
<1>9. Read(b, q) = Read(c, q)
  BY <1>7 DEF Read
<1>10. ViewOf(p)[k] = IF IsStd(c) THEN [data |-> Read(c, q), cand |-> {}]
                      ELSE [data |-> Null, cand |-> Strings(c, q)]
  BY <1>3, <1>4, <1>6 DEF ViewOf
<1> QED BY <1>1, <1>2, <1>5, <1>6, <1>8, <1>9, <1>10 DEF Reads

\* Which values the branches read does not depend on how they are indexed.
LEMMA SaysView ==
  ASSUME Query, pc \in Finding, NEW p, NEW v, NEW w, Views(v, p), Views(w, p), NEW n \in 1..Len(branches)
  PROVE  Says(branches[n].pos, v) <=> Says(branches[n].pos, w)
<1>1. ASSUME NEW m \in 1..Len(branches) PROVE v[branches[m].pos] = w[branches[m].pos]
  <2>1. PICK x : x = Reads(branches[m], Source(branches[m], p))
    OBVIOUS
  <2>2. v[branches[m].pos] = x
    BY <2>1 DEF Views
  <2>3. w[branches[m].pos] = x
    BY <2>1 DEF Views
  <2> QED BY <2>2, <2>3
<1>2. PICK b : b = branches[n]
  OBVIOUS
<1>3. PICK k : k = b.pos
  OBVIOUS
<1>4. ASSUME Clause(k).val.kind = "ref" PROVE v[Clause(k).val.num] = w[Clause(k).val.num]
  <2>1. "REF" \in b.op_flags /\ pc # "failed"
    BY <1>2, <1>3, <1>4, BranchStands DEF Finding, Stands, Meant
  <2>2. PICK r : r = text[n].val.num
    OBVIOUS
  <2>3. k = n /\ r \in 1..n - 1 /\ branches[r].pos = r /\ Clause(k).val.num = r
    BY <1>2, <1>3, <2>1, <2>2, RefBack
  <2>4. r \in 1..Len(branches)
    BY <2>3, BranchCount, SMTT(60)
  <2> QED BY <1>1, <2>3, <2>4
<1>5. v[k] = w[k]
  BY <1>1, <1>2, <1>3
<1>6. Says(k, v) <=> Says(k, w)
  BY <1>4, <1>5, SaysSame
<1> QED BY <1>2, <1>3, <1>6

-----------------------------------------------------------------------------
(* Numbers and lists.                                                      *)

\* Small numbers.
LEMMA Small ==
  /\ 1..0 = {} /\ 0..0 = {0} /\ 1 \in 1..1 /\ 1 + 1 = 2
  /\ 0 \in Nat /\ 0 <= 0 /\ ~(0 > 0) /\ 0 < 1
BY SMTT(60)

\* The numbers up to one, and their count.
LEMMA Segment ==
  ASSUME NEW m \in Nat
  PROVE  /\ 0..m \in SUBSET Nat /\ 0 \in 0..m /\ m \in 0..m
         /\ 0 \in Int /\ 1 \in Int /\ m \in Int /\ (IF 1 > m THEN 0 ELSE m - 1 + 1) = m
BY SMTT(60)

\* The order of two numbers.
LEMMA Ordered ==
  ASSUME NEW k \in Nat, NEW m \in Nat
  PROVE  /\ k < m => m \notin 0..k /\ 0..k \subseteq 0..m /\ k # m
         /\ k < m \/ m <= k
         /\ k # m => k < m \/ m < k
         /\ k <= m /\ m # k => k < m
BY SMTT(60)

\* The number before another.
LEMMA Before ==
  ASSUME NEW n \in Nat
  PROVE  /\ n # 0 <=> n - 1 \in Nat
         /\ ~(n <= n - 1)
         /\ \A k \in 0..n : k # 0 => k \in 1..n /\ k - 1 \in 0..n /\ k - 1 # n
         /\ \A k \in 0..n : k # n => k \in 0..n - 1
BY SMTT(60)

\* A sum of counts.
LEMMA Sums ==
  ASSUME NEW a \in Nat, NEW b \in Nat
  PROVE  a + b \in Nat /\ (a = 0 /\ b = 0 => a + b = 0)
BY SMTT(60)

\* Places of a list behind its first.
LEMMA Shifted ==
  ASSUME NEW n \in Nat
  PROVE  /\ \A k \in 1..n : k \in Nat /\ (k # 1 => k - 1 \in 1..n - 1)
         /\ \A a, b \in 1..n : a < b => b # 1 /\ a - 1 < b - 1
BY SMTT(60)

\* A place in a list, or the one behind its end.
LEMMA Place ==
  ASSUME NEW n \in Nat
  PROVE  /\ 1 \in 1..n + 1
         /\ \A k \in 1..n : k + 1 \in 1..n + 1 /\ (~(k < n) => k = n)
         /\ \A k \in 1..n + 1 : k > n => k - 1 = n
BY SMTT(60)

\* A function on places is a list.
LEMMA FunctionList ==
  ASSUME NEW A, NEW n \in Nat, NEW s \in [1..n -> A]
  PROVE  s \in Seq(A) /\ Len(s) = n
BY SMTT(60)

\* Lists, their members and their concatenation.
LEMMA Lists ==
  ASSUME NEW A, NEW s \in Seq(A), NEW t \in Seq(A)
  PROVE  /\ Len(s) \in Nat /\ \A k \in 1..Len(s) : s[k] \in A
         /\ s \o t \in Seq(A) /\ << >> \o t = t
BY SMTT(60)

\* The list without members.
LEMMA NoMembers == Len(<< >>) = 0 /\ \A A : << >> \in Seq(A)
BY SMTT(60)
=============================================================================
