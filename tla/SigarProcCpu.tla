---------------------------- MODULE SigarProcCpu ----------------------------
(***************************************************************************)
(* sigar_proc_cpu_get, the CPU share of a process between two calls, over  *)
(* its expiring per-pid cache (sigar_cache.c, used here as the map that    *)
(* SigarCache implements) and over the Linux readers that share            *)
(* last_proc_stat: sigar_proc_time_get, sigar_proc_state_get and           *)
(* sigar_proc_mem_get.  The kernel moves between the step that takes the   *)
(* time and the cache entry and the step that reads /proc.                 *)
(***************************************************************************)
EXTENDS LinuxProcStat

CONSTANTS
  Watched,         \* the pids a client asks the CPU share of
  NULL,            \* no entry, no call, no reply
  CleanupPeriod,   \* PID_CACHE_CLEANUP_PERIOD
  EntryExpire,     \* PID_CACHE_ENTRY_EXPIRE_PERIOD
  TimeMod          \* 2^64: sigar_uint64_t arithmetic wraps

ASSUME CpuAssumption ==
  /\ Watched \subseteq Pid
  /\ TimeMod \in Nat /\ MaxNow < TimeMod
  /\ CleanupPeriod \in Nat /\ EntryExpire \in Nat

VARIABLES
  entry,       \* sigar->proc_cpu: pid |-> NULL or the cached sigar_proc_cpu_t
  cleaned,     \* last_cleanup_time of that cache
  call,        \* the call in progress, or NULL
  res,         \* the reply of the last completed call, or NULL
  reported,    \* pid |-> sum of the CPU times the replies were computed from
  tainted,     \* pids for which a reply used the data of another process
  unread       \* whether the last read of a stat file failed

cpuVars == <<entry, cleaned, reported, tainted>>
vars == <<statVars, cpuVars, call, res, unread>>

Elapsed(t, t0) == (t - t0) % TimeMod

\* SIGAR_ZERO(prev): a fresh entry.  at is when its total was read; sound
\* says that the last call for the pid used what a successful read found.
Zero == [last_time |-> 0, total |-> 0, percent |-> <<0, 1>>,
         at |-> 0, sound |-> FALSE]

Undefined == <<0, 0>>   \* the percent the caller's buffer happened to hold

Init ==
  /\ StatInit
  /\ entry = [p \in Pid |-> NULL] /\ cleaned = now
  /\ call = NULL /\ res = NULL
  /\ reported = [p \in Pid |-> 0] /\ tainted = {}
  /\ unread = FALSE

Idle(p) == entry[p] # NULL /\ Elapsed(now, entry[p].last_time) > EntryExpire

\* The entries after the cleanup that sigar_cache_get starts with.
Kept == [p \in Pid |->
           IF Elapsed(now, cleaned) >= CleanupPeriod /\ Idle(p) THEN NULL ELSE entry[p]]

Reply(op, p, status, s, n, d) ==
  [op |-> op, pid |-> p, status |-> status, of |-> s.of, at |-> s.at, time |-> real,
   percent |-> <<n, d>>, cached |-> FALSE, sound |-> FALSE, delay |-> 0]

\* prev->last_time = time_now, also when the read fails afterwards.
Touched(prev) == [prev EXCEPT !.last_time = now]

\* sigar_proc_cpu_get up to the read of the process: the same instant is
\* answered from the entry.
ProcCpuBegin(p) ==
  /\ call = NULL
  /\ LET prev == IF Kept[p] = NULL THEN Zero ELSE Kept[p]
         diff == Elapsed(now, prev.last_time)
     IN /\ entry' = [Kept EXCEPT ![p] = Touched(prev)]
        /\ \/ /\ diff = 0
              /\ res' = [op |-> "cpu", pid |-> p, status |-> "OK", of |-> p,
                         at |-> prev.at, time |-> real,
                         percent |-> prev.percent, cached |-> TRUE,
                         sound |-> FALSE, delay |-> 0]
              /\ UNCHANGED call
           \/ /\ diff # 0
              /\ call' = [op |-> "cpu", pid |-> p, time |-> now, diff |-> diff,
                          old |-> prev]
              /\ res' = NULL
  /\ cleaned' = IF Elapsed(now, cleaned) >= CleanupPeriod THEN now ELSE cleaned
  /\ UNCHANGED <<statVars, reported, tainted, unread>>

\* Mutant: a total that went down is not noticed (uint64 subtraction).
total_diffWraps(total, otime) == IF otime = 0 THEN 0 ELSE Elapsed(total, otime)

\* total_diff; a first call, or a total that went down, reports nothing.
total_diff(total, otime) ==
  IF total < otime \/ otime = 0 THEN 0 ELSE total - otime

Noted(p, status) == unread' = IF StatHit(p) THEN unread ELSE status # "OK"

\* The data about to be used were read, by a read that did not fail.
Sound == StatHit(call.pid) => ~unread

\* Mutant: the total is not remembered.
SampledNoTotal(s) ==
  [last_time |-> call.time, total |-> IF call.old.total = 0 THEN s.cpu ELSE call.old.total,
   percent |-> Undefined, at |-> s.at, sound |-> Sound]

\* Mutant: proccpu->last_time is not set before it is copied.
SampledNoTime(s) ==
  [last_time |-> 0, total |-> s.cpu, percent |-> Undefined, at |-> s.at, sound |-> Sound]

\* memcpy(prev, proccpu): before the percent is computed, so that the entry
\* keeps the percent of the caller's buffer.
Sampled(s) ==
  [last_time |-> call.time, total |-> s.cpu, percent |-> Undefined,
   at |-> s.at, sound |-> Sound]

\* The rest of sigar_proc_cpu_get: sigar_proc_time_get, then the difference
\* with the total read before.
ProcCpuRead ==
  /\ call # NULL /\ call.op = "cpu"
  /\ call' = NULL
  /\ \E out \in proc_stat_read(call.pid) :
       LET p == call.pid
           s == out[2]
           n == total_diff(s.cpu, call.old.total)
       IN /\ stat' = s
          /\ Noted(p, out[1])
          /\ \/ /\ out[1] = "OK"
                /\ entry' = [entry EXCEPT ![p] = Sampled(s)]
                /\ reported' = [reported EXCEPT ![p] = @ + n]
                /\ tainted' = IF s.of = p THEN tainted ELSE tainted \cup {p}
                /\ res' = [Reply("cpu", p, "OK", s, n, call.diff) EXCEPT
                            !.sound = call.old.sound /\ Sound,
                            !.delay = now - call.time]
             \/ /\ out[1] # "OK"
                /\ entry' = [entry EXCEPT ![p].sound = FALSE]
                /\ res' = Reply("cpu", p, out[1], s, 0, 1)
                /\ UNCHANGED <<reported, tainted>>
  /\ UNCHANGED <<now, stepped, real, proc, used, cleaned>>

\* sigar_proc_time_get and sigar_proc_state_get: the fields of last_proc_stat.
ProcStatGet(p) ==
  /\ call = NULL
  /\ \E out \in proc_stat_read(p) :
       /\ stat' = out[2]
       /\ res' = Reply("stat", p, out[1], out[2], 0, 1)
       /\ Noted(p, out[1])
  /\ UNCHANGED <<now, stepped, real, proc, used, cpuVars, call>>

\* sigar_proc_mem_get: the page faults come from last_proc_stat whatever the
\* status of its read, the sizes and the status from /proc/<pid>/statm.
ProcMemBegin(p) ==
  /\ call = NULL
  /\ \E out \in proc_stat_read(p) :
       /\ stat' = out[2]
       /\ call' = [op |-> "mem", pid |-> p, time |-> real, faults |-> out[2]]
       /\ Noted(p, out[1])
  /\ res' = NULL
  /\ UNCHANGED <<now, stepped, real, proc, used, cpuVars>>

ProcMemRead ==
  /\ call # NULL /\ call.op = "mem"
  /\ call' = NULL
  /\ \E status \in proc_file2str(call.pid) :
       res' = [Reply("mem", call.pid, status, call.faults, 0, 1) EXCEPT !.time = call.time]
  /\ UNCHANGED <<statVars, cpuVars, unread>>

KernelStep == Kernel /\ res' = NULL /\ UNCHANGED <<cpuVars, call, unread>>

Next ==
  \/ KernelStep
  \/ \E p \in Watched : ProcCpuBegin(p) \/ ProcMemBegin(p)
  \/ \E p \in Pid : ProcStatGet(p)
  \/ ProcCpuRead
  \/ ProcMemRead

Spec == Init /\ [][Next]_vars

-----------------------------------------------------------------------------
Status == {"OK", "ESRCH", "EMFILE"}

\* An entry of the cache, and a call for a CPU share.
Entry == [last_time : Nat, total : Nat, percent : Nat \X Nat, at : Nat, sound : BOOLEAN]
CpuCall == [op : {"cpu"}, pid : Pid, time : Nat, diff : Nat, old : Entry]

ASSUME NullAssumption == NULL \notin Entry /\ NULL \notin CpuCall

\* Type invariant.  An entry or the stat cache never carries a time to come.
TypeOK ==
  /\ now \in 1..MaxNow
  /\ \A p \in Pid : proc[p].inc \in 0..MaxInc /\ proc[p].cpu \in 0..MaxNow
  /\ stat.pid \in Pid \cup {NoPid} /\ stat.of \in Pid \cup {NoPid}
  /\ stepped \/ stat.mtime <= Seconds
  /\ \A p \in Pid : entry[p] # NULL =>
       /\ entry[p].last_time \in 1..MaxNow /\ entry[p].total \in 0..MaxNow
       /\ stepped \/ entry[p].last_time <= now
  /\ call # NULL => call.pid \in Pid /\ call.op \in {"cpu", "mem"}
  /\ res # NULL => res.pid \in Pid /\ res.status \in Status

\* No CPU time is reported twice: the differences that sigar_proc_cpu_get
\* turned into percents add up to no more than what the processes with that
\* pid really used, through failed reads, the stat cache, expiry of the
\* entry and reuse of the pid, unless a reply used another process's data.
NoDoubleCount == \A p \in Pid \ tainted : reported[p] <= used[p]

\* What the two-second stat cache can do to a percent: the CPU time of one
\* reply was used in the interval it is divided by, in the StatExpire seconds
\* before it, or while the call itself was running.
SpikeBounded ==
  res # NULL /\ res.sound /\ ~stepped =>
    res.percent[1] <= res.percent[2] + StatExpire * Sec - 1 + res.delay

StatFresh == res.of = res.pid /\ res.time - res.at < StatExpire * Sec

\* A successful reply describes the process asked for, as it was less than
\* StatExpire seconds ago, except that after a read of a stat file that
\* failed, or after the clock was set back, the cache may serve what it held
\* before.
ServedStat ==
  res # NULL /\ res.status = "OK" /\ ~res.cached => StatFresh \/ unread \/ stepped

\* "short-lived cache read/parse of last /proc/pid/stat": a successful reply
\* describes the process asked for, as it was less than StatExpire seconds ago.
StatIsOfPid ==
  res # NULL /\ res.status = "OK" /\ res.op = "stat" /\ ~stepped => StatFresh
=============================================================================
