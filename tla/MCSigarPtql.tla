----------------------------- MODULE MCSigarPtql -----------------------------
(***************************************************************************)
(* Queries and processes for SigarPtql.                                    *)
(***************************************************************************)
EXTENDS SigarPtql

Lit(s) == [kind |-> "lit", str |-> s, num |-> 0]
Ref(n) == [kind |-> "ref", str |-> << >>, num |-> n]
Env(s) == [kind |-> "env", str |-> s, num |-> 0]
Unset == [kind |-> "unset", str |-> << >>, num |-> 0]
Self == [kind |-> "self", str |-> << >>, num |-> 0]

C(name, attr, mods, op, val) ==
  [name |-> name, attr |-> attr, mods |-> mods, op |-> op, val |-> val]

\* Clauses that parse, or fail at each place where a clause can.
Std == {C("State", "Ppid", {}, "EQ", Lit(<<1>>)), C("Mem", "Size", {"PARENT"}, "GE", Lit(<<2>>)),
        C("Exe", "Name", {"ICASE"}, "CT", Lit(<<1>>)), C("State", "Name", {}, "EQ", Env(<<1>>)),
        C("State", "State", {}, "NE", Lit(<<2>>))}
Any == {C("Args", "*", {}, "SW", Lit(<<1>>)), C("Args", "-1", {}, "EQ", Lit(<<2>>)),
        C("Modules", "1", {}, "EW", Lit(<<2>>)), C("Env", "HOME", {"PARENT"}, "RE", Lit(<<1>>)),
        C("Env", "X", {}, "EQ", Unset)}
OfPid == {C("Pid", "Pid", {}, "GE", Lit(<<2>>)), C("Pid", "PidFile", {}, "EQ", Lit(<<1>>)),
          C("Port", "tcp", {}, "EQ", Lit(<<1>>)), C("Pid", "Pid", {}, "NE", Self),
          C("Pid", "Service", {}, "EQ", Lit(<<1>>)), C("Port", "udp", {}, "EQ", Lit(<<1>>))}
Refs == {C("State", "Ppid", {"PARENT"}, "EQ", Ref(1)), C("Exe", "Name", {}, "NE", Ref(1)),
         C("Exe", "Cwd", {}, "EQ", Ref(3)), C("Args", "0", {}, "EQ", Ref(1)),
         C("Mem", "Share", {}, "EQ", Ref(2))}
Bad == {C(NoPart, NoPart, {}, NoPart, Lit(<<1>>)), C("", "Pid", {}, "EQ", Lit(<<1>>)),
        C("Pid", "Pid", {}, "", Lit(<<1>>)), C("Pid", "Pid", {"ICASE"}, "", Lit(<<1>>)),
        C("Env", "", {}, "EQ", Lit(<<1>>)), C("Pid", "PidFile", {}, "EQ", Unset),
        C("Pid", "Pid", {}, "EQ", Lit(<<1, 2>>)),
        C("Pid", "Tid", {}, "EQ", Lit(<<1>>)), C("Mem", "Size", {}, "CT", Lit(<<1>>)),
        C("Mem", "Free", {}, "EQ", Lit(<<1>>)), C("Time", "Total", {}, "EQ", Env(<<1>>)),
        C("Port", "tcp", {}, "NE", Lit(<<1>>)), C("Args", "x", {}, "EQ", Lit(<<1>>)),
        C("Exe", "Name", {}, "RE", Ref(1)), C("Pid", "PidFile", {}, "EQ", Lit(<< >>)),
        C("State", "State", {}, "EQ", Lit(<<1, 2>>)), C("Nil", "Name", {}, "EQ", Lit(<<1>>)),
        C("Service", "Start", {}, "EQ", Lit(<<1>>)), C("Port", "sctp", {}, "EQ", Lit(<<1>>)),
        C("Port", "tcp", {}, "EQ", Lit(<<1, 2>>))}

Good == Std \cup Any \cup OfPid

MCTexts ==
  {<<c>> : c \in Good} \cup {<<c, d>> : c \in Std, d \in Any \cup OfPid \cup Refs}
    \cup {<<c, d>> : c \in OfPid, d \in OfPid}
MCProcs ==
  {[ppid |-> 1, num |-> 2, str |-> <<11, 2>>, list |-> <<<<1>>, <<2>>>>, mine |-> TRUE],
   [ppid |-> 2, num |-> 1, str |-> <<1>>, list |-> <<<<1, 2>>>>, mine |-> FALSE]}
MCOsStates == {[pidfile |-> 2, tcp |-> 1, udp |-> 2], [pidfile |-> 0, tcp |-> 0, udp |-> 0]}
\* Texts that fail at any clause, and longer ones with references.
MCCreateTexts ==
  LET All == Good \cup Refs \cup Bad IN
  {<< >>} \cup {<<c>> : c \in All} \cup {<<c, d>> : c \in All, d \in All}
    \cup {<<c, d, e>> : c \in Std, d \in Std \cup Refs, e \in Refs}
MCOneProc == {[ppid |-> 1, num |-> 2, str |-> <<11, 2>>, list |-> <<<<1>>, <<2>>>>, mine |-> TRUE]}
MCOneOs == {[pidfile |-> 2, tcp |-> 1, udp |-> 2]}

MCTwoPids == {<<C("Pid", "Pid", {}, "GE", Lit(<<2>>)), C("Pid", "Pid", {}, "LE", Lit(<<1>>))>>}

\* A host whose processes come, go and change during a find, and one with a
\* single process, where methods are missing, the process list may be
\* unreadable and texts may be wrong.
MCHosts ==
  [busy |-> [texts |-> MCTexts, procs |-> MCProcs, os |-> MCOsStates, pids |-> {1, 2},
             notImpl |-> {}, listFails |-> FALSE, changes |-> 1],
   bare |-> [texts |-> MCCreateTexts, procs |-> MCOneProc, os |-> MCOneOs, pids |-> {1},
             notImpl |-> {"Mem", "Modules"}, listFails |-> TRUE, changes |-> 0]]
MCTwoPidHosts ==
  [busy |-> [texts |-> MCTwoPids, procs |-> MCOneProc, os |-> MCOneOs, pids |-> {1, 2},
             notImpl |-> {}, listFails |-> FALSE, changes |-> 0]]
=============================================================================
