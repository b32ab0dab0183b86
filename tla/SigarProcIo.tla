----------------------------- MODULE SigarProcIo -----------------------------
(***************************************************************************)
(* sigar_proc_disk_io_get: bytes per second read and written by a process, *)
(* from two readings of its cumulative counters (/proc/<pid>/io on Linux)  *)
(* kept in an expiring per-pid cache.  The counters and the times are      *)
(* sigar_uint64_t and wrap; a counter whose line is missing is NOTIMPL,    *)
(* the largest value.  Rates are computed as doubles, which round: what    *)
(* the rounding may make of a quotient is a set of outcomes.               *)
(***************************************************************************)
EXTENDS Integers

CONSTANTS
  Pid,             \* process ids
  NULL,            \* no entry, no call, no reply
  Sec,             \* clock ticks in a second: SIGAR_MSEC, 1000 in the code
  CleanupPeriod,   \* PID_CACHE_CLEANUP_PERIOD
  EntryExpire,     \* PID_CACHE_ENTRY_EXPIRE_PERIOD
  Word,            \* 2^64
  Precision,       \* 2^51: a few roundings of a double change less than 1/2^51 of it
  MaxNow,          \* last instant of the clock: bounds the model
  MaxBytes,        \* bytes one process transfers: bounds the model
  MaxInc,          \* how often one pid is used: bounds the model
  Failures,        \* whether a read of a live process's counters may fail
  ClockSteps       \* whether the wall clock may be set back

ASSUME IoAssumption ==
  /\ Sec \in Nat \ {0} /\ MaxNow \in Nat /\ MaxInc \in Nat /\ MaxBytes \in Nat
  /\ Sec <= MaxNow /\ MaxInc # 0
  /\ Word \in Nat /\ MaxNow < Word /\ 4 * MaxBytes < Word /\ 3 < Word
  /\ Precision \in Nat \ {0}
  /\ CleanupPeriod \in Nat /\ EntryExpire \in Nat
  /\ Failures \in BOOLEAN /\ ClockSteps \in BOOLEAN

VARIABLES
  now,       \* the wall clock
  proc,      \* the kernel: pid |-> [live, inc, rd, wr]
  counted,   \* the counters whose line the kernel writes
  entry,     \* sigar->proc_io: pid |-> NULL or the cached record
  cleaned,   \* last_cleanup_time of that cache
  call,      \* the call in progress, or NULL
  res,       \* the reply of the last completed call, or NULL
  last       \* pid |-> the last fresh reply since its entry was created

kernVars == <<now, proc, counted>>
ioVars == <<entry, cleaned>>
vars == <<kernVars, ioVars, call, res, last>>

Uint64 == 0..Word-1
NOTIMPL == Word - 1                     \* SIGAR_FIELD_NOTIMPL
Elapsed(t, t0) == (t - t0) % Word       \* uint64 subtraction
NoDiff == [rd |-> 0, wr |-> 0, total |-> 0]

\* SIGAR_ZERO(prev).  readAt, inc, seen: when, and of which process, the
\* counters were read, and their true values.
Zero == [last_time |-> 0, atime |-> 0, cur |-> NoDiff, diff |-> NoDiff,
         readAt |-> 0, inc |-> 0, seen |-> NoDiff]

Init ==
  /\ now = Sec             \* any instant more than a second after the epoch
  /\ proc = [p \in Pid |-> [live |-> TRUE, inc |-> 1, rd |-> 0, wr |-> 0]]
  /\ counted \in SUBSET {"rd", "wr"}
  /\ entry = [p \in Pid |-> NULL] /\ cleaned = now
  /\ call = NULL /\ res = NULL
  /\ last = [p \in Pid |-> NoDiff]

Tick ==
  /\ now < MaxNow /\ now' = now + 1
  /\ UNCHANGED <<proc, counted>>

SetBack ==
  /\ ClockSteps /\ now' \in Sec..now-1
  /\ UNCHANGED <<proc, counted>>

Transfer(p) ==
  /\ proc[p].live
  /\ \/ proc[p].rd < MaxBytes /\ proc' = [proc EXCEPT ![p].rd = @ + 1]
     \/ proc[p].wr < MaxBytes /\ proc' = [proc EXCEPT ![p].wr = @ + 1]
  /\ UNCHANGED <<now, counted>>

Reuse(p) ==
  /\ proc[p].inc < MaxInc
  /\ proc' = [proc EXCEPT ![p] = [live |-> TRUE, inc |-> @.inc + 1, rd |-> 0, wr |-> 0]]
  /\ UNCHANGED <<now, counted>>

Exit(p) ==
  /\ proc[p].live /\ Failures
  /\ proc' = [proc EXCEPT ![p].live = FALSE]
  /\ UNCHANGED <<now, counted>>

KernelStep ==
  /\ Tick \/ SetBack \/ \E p \in Pid : Transfer(p) \/ Reuse(p) \/ Exit(p)
  /\ res' = NULL
  /\ UNCHANGED <<ioVars, call, last>>

\* The outcomes of SIGAR_PROC_FILE2STR(buffer, pid, "/io"): the file of
\* another user's process cannot be read.
proc_file2str(p) ==
  IF ~proc[p].live THEN {"ESRCH"}
  ELSE IF Failures THEN {"OK", "EACCES"} ELSE {"OK"}

\* The number in line c of the file, which is n, or NOTIMPL without the line.
get_named_proc_token(c, n) == IF c \in counted THEN n ELSE NOTIMPL

\* sigar_proc_cumulative_disk_io_get: bytes_total is the sum, modulo 2^64,
\* whatever its parts are.
cumulative(p) ==
  LET r == get_named_proc_token("rd", proc[p].rd)
      w == get_named_proc_token("wr", proc[p].wr)
  IN [rd |-> r, wr |-> w, total |-> (r + w) % Word]

\* k is what a double that was rounded a few times from n / t, n and t being
\* exact, is truncated to.
Truncated(k, n, t) ==
  /\ k * t * Precision <= n * (Precision + 1)
  /\ n * (Precision - 1) < (k + 1) * t * Precision

\* The numbers (sigar_uint64_t)(n / (double)t) may give: any, when the double
\* may be 2^64, where the conversion is not defined.
Converted(n, t) ==
  IF Word * t * Precision <= n * (Precision + 1) THEN Uint64
  ELSE {k \in Uint64 : Truncated(k, n, t)}

\* Mutant: per tick instead of per second.
get_io_diffPerTick(current, prev, time_diff) ==
  IF current = NOTIMPL THEN {NOTIMPL} ELSE Converted(Elapsed(current, prev), time_diff)

\* Mutant: the operands are swapped.
get_io_diffSwapped(current, prev, time_diff) ==
  IF current = NOTIMPL THEN {NOTIMPL} ELSE Converted(Elapsed(prev, current) * Sec, time_diff)

\* What get_io_diff may return: the difference is unsigned, so the double is
\* never negative.
get_io_diff(current, prev, time_diff) ==
  IF current = NOTIMPL THEN {NOTIMPL} ELSE Converted(Elapsed(current, prev) * Sec, time_diff)

\* The entries that may result.
calculate_io_diff(cum, prev, time_diff, first) ==
  {[prev EXCEPT !.cur = cum, !.diff = d] :
     d \in IF first THEN {NoDiff}
           ELSE [rd : get_io_diff(cum.rd, prev.cur.rd, time_diff),
                 wr : get_io_diff(cum.wr, prev.cur.wr, time_diff),
                 total : get_io_diff(cum.total, prev.cur.total, time_diff)]}

\* The entries after the cleanup that sigar_cache_get starts with.
Kept == [p \in Pid |->
  IF /\ entry[p] # NULL
     /\ Elapsed(now, cleaned) >= CleanupPeriod
     /\ Elapsed(now, entry[p].atime) > EntryExpire
  THEN NULL ELSE entry[p]]

\* Mutant: only a clock that went back is noticed.
JustCalledNever(diff) == diff < 0

\* time_diff < 1000; time_diff is signed here.
JustCalled(diff) == diff < Sec

\* sigar_proc_disk_io_get up to the read: a call less than a second after the
\* last one is answered from the entry, and a clock that went back is noted.
DiskIoBegin(p) ==
  /\ call = NULL
  /\ LET old  == IF Kept[p] = NULL THEN Zero ELSE Kept[p]
         prev == [old EXCEPT !.atime = now]
         diff == now - prev.last_time
     IN \/ /\ JustCalled(diff)
           /\ entry' = [Kept EXCEPT ![p] = IF diff < 0 THEN [prev EXCEPT !.last_time = now]
                                                       ELSE prev]
           /\ res' = [pid |-> p, status |-> "OK", diff |-> prev.diff, cached |-> TRUE,
                      exact |-> FALSE]
           /\ UNCHANGED call
        \/ /\ ~JustCalled(diff)
           /\ entry' = [Kept EXCEPT ![p] = [prev EXCEPT !.last_time = now]]
           /\ call' = [pid |-> p, old |-> prev, diff |-> diff]
           /\ res' = NULL
  /\ last' = IF Kept[p] = NULL THEN [last EXCEPT ![p] = NoDiff] ELSE last
  /\ cleaned' = IF Elapsed(now, cleaned) >= CleanupPeriod THEN now ELSE cleaned
  /\ UNCHANGED kernVars

\* Mutant: the differences are cleared before the read that may fail.
FailedKeepsClears(e) == [e EXCEPT !.diff = NoDiff]

\* A read that fails leaves the entry as it is, last_time included.
FailedKeeps(e) == e

\* The rest of sigar_proc_disk_io_get.
DiskIoRead ==
  /\ call # NULL
  /\ call' = NULL
  /\ LET p     == call.pid
         prev  == entry[p]
         first == call.old.last_time = 0
     IN \E status \in proc_file2str(p) :
          \/ /\ status = "OK"
             /\ \E e \in calculate_io_diff(cumulative(p), prev, call.diff, first) :
                  /\ entry' = [entry EXCEPT ![p] =
                                [e EXCEPT !.readAt = prev.last_time, !.inc = proc[p].inc,
                                          !.seen = [rd |-> proc[p].rd, wr |-> proc[p].wr, total |-> 0]]]
                  /\ last' = [last EXCEPT ![p] = e.diff]
                  /\ res' = [pid |-> p, status |-> status, diff |-> e.diff, cached |-> FALSE,
                             exact |-> ~first /\ call.old.readAt = call.old.last_time
                                       /\ call.old.inc = proc[p].inc,
                             time |-> call.diff,
                             since |-> prev.last_time - call.old.readAt,
                             moved |-> IF call.old.inc = proc[p].inc
                                       THEN proc[p].rd - call.old.seen.rd
                                       ELSE IF call.old.inc = 0 THEN 0 ELSE proc[p].rd,
                             fell |-> call.old.inc # proc[p].inc /\ proc[p].rd < call.old.seen.rd,
                             rd |-> proc[p].rd - call.old.seen.rd,
                             wr |-> proc[p].wr - call.old.seen.wr]
          \/ /\ status # "OK"
             /\ entry' = [entry EXCEPT ![p] = FailedKeeps(@)]
             /\ res' = [pid |-> p, status |-> status, cached |-> FALSE, exact |-> FALSE]
             /\ UNCHANGED last
  /\ UNCHANGED <<kernVars, cleaned>>

Next ==
  \/ KernelStep
  \/ \E p \in Pid : DiskIoBegin(p)
  \/ DiskIoRead

Spec == Init /\ [][Next]_vars

-----------------------------------------------------------------------------
Counts == [rd : Uint64, wr : Uint64, total : Uint64]

\* An entry of the cache.
Entry == [last_time : 0..MaxNow, atime : 1..MaxNow, cur : Counts, diff : Counts,
          readAt : 0..MaxNow, inc : 0..MaxInc,
          seen : [rd : 0..MaxBytes, wr : 0..MaxBytes, total : {0}]]

ASSUME NullAssumption == NULL \notin Entry

\* Type invariant: a rate is asked for only when a second has passed, so that
\* get_io_diff never divides by zero or by a negative number.
TypeOK ==
  /\ now \in 1..MaxNow /\ cleaned \in 1..MaxNow /\ counted \subseteq {"rd", "wr"}
  /\ proc \in [Pid -> [live : BOOLEAN, inc : 1..MaxInc, rd : 0..MaxBytes, wr : 0..MaxBytes]]
  /\ entry \in [Pid -> {NULL} \cup Entry]
  /\ call # NULL => call.pid \in Pid /\ call.diff \in Sec..MaxNow
  /\ last \in [Pid -> Counts]

\* A rate is at most bytes over seconds, to the precision of a double.
Within(rate, bytes, time) == rate * time * Precision <= bytes * Sec * (Precision + 1)

\* A rate is bytes over seconds, rounded as a double and then down.  As long
\* as bytes * Sec < Precision this is the true quotient rounded down, or one
\* less when the quotient is whole: 1001 bytes in a second may count as 1000.
Average(rate, bytes, time) ==
  /\ Within(rate, bytes, time)
  /\ bytes * Sec * (Precision - 1) < (rate + 1) * time * Precision

\* When the entry's counters were read by the call that set its last_time, and
\* the pid still belongs to the same process, sigar_proc_disk_io_get reports
\* the bytes per second transferred between the two calls, and NOTIMPL for a
\* counter that is missing.  The total is the rate of both; with one counter
\* missing it is the rate of the other, or NOTIMPL as long as that is zero;
\* with both missing it is zero.
RateIsAverage ==
  res # NULL /\ res.exact =>
    /\ \A c \in {"rd", "wr"} : IF c \in counted THEN Average(res.diff[c], res[c], res.time)
                               ELSE res.diff[c] = NOTIMPL
    /\ counted = {"rd", "wr"} => Average(res.diff.total, res.rd + res.wr, res.time)
    /\ \A c \in {"rd", "wr"} : counted = {c} => \/ Average(res.diff.total, res[c], res.time)
                                                \/ res.diff.total = NOTIMPL /\ proc[res.pid][c] = 0
    /\ counted = {} => res.diff.total = 0

\* "we were just called within < 1 second ago": such a call repeats what the
\* last fresh reply said, whatever failed and however the clock moved in
\* between, or zeros when there is none since the entry was created.
CachedIsLast == res # NULL /\ res.cached => res.diff = last[res.pid]

\* get_io_diff subtracts unsigned numbers.  A rate higher than all that the
\* process ever read, over the time since the last call, is reported only when
\* the pid passed to another process which has read less than the one before:
\* never for a failed read, a clock that was set or an entry that expired.
\* Nor is the double then out of the range of the conversion.
RateWithinTotal ==
  res # NULL /\ res.status = "OK" /\ ~res.cached /\ ~res.fell /\ "rd" \in counted =>
    Within(res.diff.rd, proc[res.pid].rd, res.time)

\* "calculate avg diff /read/write/total per second": a rate is never more
\* than what the process transferred over the time since its counters were
\* last read, and nothing when they never were.
RateIsPerSecond ==
  res # NULL /\ res.status = "OK" /\ ~res.cached /\ "rd" \in counted =>
    Within(res.diff.rd, res.moved, res.since)
=============================================================================
