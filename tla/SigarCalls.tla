------------------------------ MODULE SigarCalls ------------------------------
(***************************************************************************)
(* A client that opens a handle, calls functions of the library on it in   *)
(* any order and closes it, on each platform.  Every function is a list of *)
(* statements (SigarStatements), executed one at a time: each call into    *)
(* the operating system may fail, and each error path ends where the code  *)
(* says.  What is followed is ownership: which memory, descriptors and     *)
(* lists are allocated, freed, lost or used when they should not be.       *)
(*                                                                         *)
(* A client destroys the list a call returned if, and only if, the call    *)
(* succeeded, as the tests of the library do: they assert SIGAR_OK, read   *)
(* the list and call the matching sigar_*_destroy.                         *)
(***************************************************************************)
EXTENDS SigarStatements, SequencesExt

CONSTANTS
  Port,       \* the platforms
  PortFns,    \* platform -> function name -> its statements
  PortApi,    \* platform -> a function a client calls -> what destroys its list
  PortFields,  \* platform -> the fields of sigar_t that are followed
  PortLeaks,  \* platform -> <<function, what it loses>>: leaks of the code
  PortFaults,  \* platform -> <<function, what it touches>>: its undefined steps
  PortDangles,  \* platform -> fields that a failed call leaves freed
  PortKept,   \* platform -> fields that nothing closes
  MaxCalls    \* calls between open and close: bounds the model

VARIABLES
  port,       \* the platform
  handle,     \* "none", "open" or "gone"
  fn,         \* the function the client called last
  pc,         \* "run", "done" or "crash"
  code,       \* the statements still to execute
  frames,     \* for each call in progress, what its caller goes on with
  mem,        \* name -> what it holds; a name that is not there is junk
  st,         \* status
  lost,       \* <<function, name>>: what the call in progress, or the last one, leaked
  calls       \* calls so far

vars == <<port, handle, fn, pc, code, frames, mem, st, lost, calls>>

State == {"junk", "null", "set", "live", "dangling"}
Val(x) == IF x \in DOMAIN mem THEN mem[x] ELSE "junk"
With(m, x, v) == [y \in DOMAIN m \cup {x} |-> IF y = x THEN v ELSE m[y]]
Only(m, S) == [y \in DOMAIN m \cap S |-> m[y]]
NoMem == [x \in {} |-> "junk"]
Live(m) == {x \in DOMAIN m : m[x] = "live"}

Init ==
  /\ port \in Port
  /\ handle = "none" /\ fn = "none" /\ pc = "done" /\ code = << >> /\ frames = << >>
  /\ mem = NoMem /\ st = "OK" /\ lost = {} /\ calls = 0

-----------------------------------------------------------------------------
(* The client.                                                             *)

\* What the client does with f: destroy is "" if f returns no list.
Client(f, destroy) ==
  IF destroy = "" THEN ReturnCall(f)
  ELSE <<CallOn(f, "list", PassOn), DoOn(destroy, "list"), ReturnStatus>>

Start(f, destroy) ==
  /\ pc = "done"
  /\ fn' = f /\ pc' = "run" /\ code' = Client(f, destroy) /\ lost' = {} /\ st' = "OK"
  /\ UNCHANGED <<port, handle, frames, mem>>

sigar_open == handle = "none" /\ Start("sigar_open", "") /\ UNCHANGED calls

CallApi(f) ==
  /\ handle = "open" /\ calls < MaxCalls /\ calls' = calls + 1
  /\ Start(f, PortApi[port][f])

sigar_close == handle = "open" /\ Start("sigar_close", "") /\ UNCHANGED calls

\* The program ends: the handle is closed, or something undefined was done.
Finished == (handle = "gone" \/ pc = "crash") /\ pc # "run" /\ UNCHANGED vars

-----------------------------------------------------------------------------
(* The statements.                                                         *)

s == Head(code)
rest == Tail(code)
At(op) == pc = "run" /\ s.op = op
Go(c) == code' = c /\ UNCHANGED <<port, handle, fn, pc, frames, calls>>
Keep == UNCHANGED <<mem, st, lost>>

\* The function in progress, and the loss of what names in S own.
First(op) == SelectInSeq(code, LAMBDA t : t.op = op)
From(n) == SubSeq(code, n, Len(code))
Current == IF frames = << >> THEN fn ELSE code[First("end")].f
Lose(S) == lost' = lost \cup ({Current} \X (Live(mem) \cap S))

\* Giving x a new value forgets what it owned.
Assign(v) ==
  /\ mem' = With(mem, s.x, v) /\ Lose({s.x})
  /\ UNCHANGED st

DoGet ==
  /\ At("get")
  /\ \/ Assign("live") /\ Go(rest)
     \/ Assign("null") /\ Go(s.no \o rest)

DoAssign ==
  \/ At("alloc") /\ Assign("live") /\ Go(rest)
  \/ At("null") /\ Assign("null") /\ Go(rest)
  \/ At("var") /\ Assign("junk") /\ Go(rest)
  \/ At("set") /\ Assign("set") /\ Go(rest)

\* Freeing or reading what is not there, or testing what was never set, is
\* undefined: the behaviour ends.
Undefined ==
  \/ At("free") /\ Val(s.x) \notin {"live", "null"}
  \/ At("use") /\ Val(s.x) \notin {"live", "set"}
  \/ At("ifnull") /\ Val(s.x) = "junk"

Crash ==
  /\ Undefined
  /\ pc' = "crash"
  /\ UNCHANGED <<port, handle, fn, code, frames, mem, st, lost, calls>>

DoFree ==
  /\ At("free") /\ ~Undefined
  /\ mem' = IF Val(s.x) = "live" THEN With(mem, s.x, "dangling") ELSE mem
  /\ Go(rest) /\ UNCHANGED <<st, lost>>

DoUse == At("use") /\ ~Undefined /\ Go(rest) /\ Keep

DoTest ==
  /\ \/ At("try") /\ \/ Go(rest)
                     \/ Go(s.no \o rest)
     \/ At("if") /\ \/ Go(s.yes \o rest)
                    \/ Go(s.no \o rest)
     \/ At("ifnull") /\ ~Undefined /\ Go((IF Val(s.x) = "null" THEN s.yes ELSE s.no) \o rest)
     \/ At("ifst") /\ Go((IF st = s.f THEN s.yes ELSE s.no) \o rest)
  /\ Keep

DoLoop ==
  /\ \/ /\ At("while") \/ At("again")
        /\ \/ s.f # "forever" /\ Go(rest)
           \/ Go(s.yes \o <<[s EXCEPT !.op = "again"]>> \o rest)
     \/ At("break") /\ Go(From(First("again") + 1))
     \/ At("continue") /\ Go(From(First("again")))
  /\ Keep

DoLet == At("let") /\ st' = s.f /\ Go(rest) /\ UNCHANGED <<mem, lost>>

DoCall ==
  /\ At("call") \/ At("do")
  /\ code' = PortFns[port][s.f] \o <<[s EXCEPT !.op = "end"]>> \o rest
  /\ frames' = <<[op |-> s.op, out |-> Val("out"), names |-> DOMAIN mem, st |-> st]>> \o frames
  /\ mem' = IF s.x = "out" THEN mem ELSE With(mem, "out", Val(s.x))
  /\ UNCHANGED <<port, handle, fn, pc, st, lost, calls>>

Result == IF s.f = "status" THEN st ELSE s.f

\* The end of a function that another one called: its variables go, and
\* what they own is lost; the caller's x is what it left in "out".
DoReturn ==
  /\ At("return") /\ frames # << >>
  /\ LET e == code[First("end")]
         out == Val("out")
         m == Only(mem, frames[1].names \cup {"out"} \cup PortFields[port])
     IN /\ st' = IF frames[1].op = "do" THEN frames[1].st ELSE Result
        /\ Lose(DOMAIN mem \ DOMAIN m)
        /\ code' = (IF Result = "OK" THEN << >> ELSE e.no) \o From(First("end") + 1)
        /\ mem' = IF e.x = "out" THEN m ELSE With(With(m, "out", frames[1].out), e.x, out)
  /\ frames' = Tail(frames)
  /\ UNCHANGED <<port, handle, fn, pc, calls>>

\* What stays with the client is the handle, while it is open.
Owned == IF fn = "sigar_close" \/ (fn = "sigar_open" /\ Result # "OK") THEN {} ELSE PortFields[port]

\* The end of the function the client called.
DoReturnToClient ==
  /\ At("return") /\ frames = << >>
  /\ pc' = "done" /\ code' = << >> /\ st' = Result
  /\ Lose(DOMAIN mem \ Owned)
  /\ mem' = Only(mem, PortFields[port])
  /\ handle' = CASE fn = "sigar_open" -> IF Result = "OK" THEN "open" ELSE "gone"
                 [] fn = "sigar_close" -> "gone"
                 [] OTHER -> handle
  /\ UNCHANGED <<port, fn, frames, calls>>

Execute ==
  \/ DoGet \/ DoAssign \/ DoFree \/ DoUse \/ DoTest \/ DoLoop \/ DoLet
  \/ DoCall \/ DoReturn \/ DoReturnToClient \/ Crash

Next ==
  \/ sigar_open
  \/ \E f \in DOMAIN PortApi[port] : CallApi(f)
  \/ sigar_close
  \/ Execute
  \/ Finished

Spec == Init /\ [][Next]_vars

-----------------------------------------------------------------------------
(* Properties.  PortLeaks, PortFaults, PortDangles and PortKept list where   *)
(* the code of a platform departs from them: all else is shown sound.      *)

\* The state is well formed, every function called exists, and none of them
\* ends without returning a status.
TypeOK ==
  /\ port \in Port /\ handle \in {"none", "open", "gone"} /\ pc \in {"run", "done", "crash"}
  /\ fn \in {"none", "sigar_open", "sigar_close"} \cup DOMAIN PortApi[port]
  /\ \A x \in DOMAIN mem : mem[x] \in State
  /\ \A i \in DOMAIN code : code[i].op = "call" => code[i].f \in DOMAIN PortFns[port]
  /\ pc = "run" => code # << >> /\ s.op # "end"
  /\ Len(frames) = Len(SelectSeq(code, LAMBDA t : t.op = "end"))
  /\ calls \in 0..MaxCalls

\* sigar_os_open succeeded: sigar_open went on to initialise the fields.
Ready == Val("pids") # "junk"

\* Whatever fails inside it, a call returns with everything it allocated
\* freed, handed to the client or kept in the handle: every early return of
\* every function closes its files and destroys its lists.
CallsLoseNothing ==
  pc = "done" /\ fn # "sigar_close" /\ Ready => lost \subseteq PortLeaks[port]

\* After any calls, successful or not, sigar_close frees every field that
\* sigar_open and the calls filled in.
CloseReleases ==
  pc = "done" /\ fn = "sigar_close" => \A l \in lost : l[2] \in PortKept[port]

\* No sequence of calls and failures frees something twice, reads what was
\* freed or never set, or follows a null pointer.
NothingUndefined == pc = "crash" /\ Ready => <<Current, s.x>> \in PortFaults[port]

\* Between calls every field of the handle is null or what it points to is
\* there, so that the next call, or sigar_close, may test it and use it.
FieldsSound ==
  pc = "done" /\ handle = "open" /\ Ready =>
    \A x \in PortFields[port] \ PortDangles[port] : Val(x) \in {"null", "live", "set"}

\* A client that is told SIGAR_OK by sigar_open has a handle that works.
OpenOkMeansReady == pc = "done" /\ handle = "open" => Ready
==============================================================================
