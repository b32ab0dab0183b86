--------------------------- MODULE LinuxProcStat ---------------------------
(***************************************************************************)
(* The Linux reader of /proc/<pid>/stat with its one-entry cache,          *)
(* sigar->last_proc_stat, and the kernel it reads from: processes run,     *)
(* exit and have their pid reused between any two reads of the library.    *)
(* The fields parsed from the file stand or fall together, so they are     *)
(* abstracted to the CPU time and to the process they describe.            *)
(***************************************************************************)
EXTENDS Integers

CONSTANTS
  Pid,          \* process ids
  NoPid,        \* (sigar_pid_t)-1, the pid of an empty last_proc_stat
  Sec,          \* clock ticks in a second: 1000 in the code
  StatExpire,   \* SIGAR_LAST_PROC_EXPIRE, in seconds
  MaxNow,       \* last instant: bounds the model
  Active,       \* the pids whose processes run, exit and are reused; others sleep
  MaxInc        \* how often one pid is used: bounds the model

ASSUME StatAssumption ==
  /\ NoPid \notin Pid /\ Active \subseteq Pid
  /\ Sec \in Nat \ {0} /\ StatExpire \in Nat \ {0} /\ MaxNow \in Nat \ {0}
  /\ MaxInc \in Nat \ {0}

VARIABLES
  now,    \* the wall clock, in ticks
  stepped,  \* whether the wall clock was ever set back
  real,   \* the time that really passed
  proc,   \* the kernel: pid |-> [live, inc: which use of the pid, cpu: its total]
  used,   \* CPU time used by all the processes that had the pid, ever
  stat    \* sigar->last_proc_stat: [pid, mtime] and the data [of, cpu, at]

statVars == <<now, stepped, real, proc, used, stat>>

Live == {p \in Pid : proc[p].live}
Seconds == now \div Sec                                      \* time(NULL)

\* A handle that was just opened: sigar_os_open sets last_proc_stat.pid = -1.
StatInit ==
  /\ now = 1 /\ stepped = FALSE /\ real = 1
  /\ proc = [p \in Pid |-> [live |-> TRUE, inc |-> 1, cpu |-> 0]]
  /\ used = [p \in Pid |-> 0]
  /\ stat = [pid |-> NoPid, mtime |-> 0,
             of |-> NoPid, cpu |-> 0, at |-> 0]

\* Time passes; some single-threaded processes run for the whole tick.
Tick ==
  /\ real < MaxNow
  /\ now' = now + 1 /\ real' = real + 1
  /\ \E busy \in SUBSET (Live \cap Active) :
       /\ proc' = [p \in Pid |-> IF p \in busy THEN [proc[p] EXCEPT !.cpu = @ + 1]
                                               ELSE proc[p]]
       /\ used' = [p \in Pid |-> IF p \in busy THEN used[p] + 1 ELSE used[p]]
  /\ UNCHANGED <<stepped, stat>>

\* The wall clock is set back, at most once: bounds the model.
SetBack ==
  /\ ~stepped
  /\ now' \in 1..now-1 /\ stepped' = TRUE
  /\ UNCHANGED <<real, proc, used, stat>>

Exit(p) ==
  /\ proc[p].live
  /\ proc' = [proc EXCEPT ![p].live = FALSE]
  /\ UNCHANGED <<now, stepped, real, used, stat>>

Spawn(p) ==
  /\ ~proc[p].live /\ proc[p].inc < MaxInc
  /\ proc' = [proc EXCEPT ![p] = [live |-> TRUE, inc |-> @.inc + 1, cpu |-> 0]]
  /\ UNCHANGED <<now, stepped, real, used, stat>>

Kernel == Tick \/ SetBack \/ \E p \in Active : Exit(p) \/ Spawn(p)

\* sigar_proc_file2str: ENOENT becomes ESRCH; a live process's file can be
\* unreadable too, for instance because the caller is out of descriptors.
proc_file2str(p) == IF proc[p].live THEN {"OK", "EMFILE"} ELSE {"ESRCH"}

\* Mutant: <= for <.
StatHitLate(p) == stat.pid = p /\ Seconds - stat.mtime <= StatExpire

StatHit(p) == stat.pid = p /\ Seconds - stat.mtime < StatExpire

\* The key and the time are set before the file is read: a failed read keeps
\* the data of whatever process was read before.
Unread(p) == [stat EXCEPT !.pid = p, !.mtime = Seconds]

\* The outcomes of proc_stat_read: its status and the new last_proc_stat.
proc_stat_read(p) ==
  IF StatHit(p) THEN {<<"OK", stat>>}
  ELSE {<<status, IF status = "OK"
                  THEN [pid |-> p, mtime |-> Seconds, of |-> p,
                        cpu |-> proc[p].cpu, at |-> real]
                  ELSE Unread(p)>> : status \in proc_file2str(p)}
=============================================================================
