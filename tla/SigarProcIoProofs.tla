------------------------- MODULE SigarProcIoProofs --------------------------
(***************************************************************************)
(* The rates of sigar_proc_disk_io_get, for every number of processes, and *)
(* of bytes and instants that fit the machine's words.                     *)
(***************************************************************************)
EXTENDS SigarProcIo, TLAPS

USE SMTT(60), ZenonT(60)

\* What is read as the total of true numbers rd and wr.
Sum(rd, wr) == (get_named_proc_token("rd", rd) + get_named_proc_token("wr", wr)) % Word

\* The counters of an entry are those of the process it was read of, and those
\* of the same process only grow.
Faithful(e, q) ==
  /\ e.inc = 0 => e.cur = NoDiff /\ e.seen = NoDiff
  /\ e.inc # 0 => /\ e.cur.rd = get_named_proc_token("rd", e.seen.rd)
                  /\ e.cur.wr = get_named_proc_token("wr", e.seen.wr)
                  /\ e.cur.total = Sum(e.seen.rd, e.seen.wr)
  /\ e.inc <= q.inc
  /\ e.inc = q.inc => e.seen.rd <= q.rd /\ e.seen.wr <= q.wr

\* A call between the time and the read has changed the entry's last_time only.
Pending ==
  call # NULL =>
    /\ entry[call.pid] \in Entry
    /\ call.old \in Entry
    /\ call.old = [entry[call.pid] EXCEPT !.last_time = call.old.last_time]

IInv ==
  /\ TypeOK
  /\ now \in Sec..MaxNow
  /\ \A p \in Pid : entry[p] # NULL => Faithful(entry[p], proc[p]) /\ entry[p].diff = last[p]
  /\ Pending
  /\ CachedIsLast
  /\ RateIsAverage
  /\ RateWithinTotal

-----------------------------------------------------------------------------
(* Arithmetic.                                                             *)

\* An unsigned difference is the difference, unless it is negative.
LEMMA ElapsedFacts ==
  ASSUME NEW a \in Uint64, NEW b \in Uint64
  PROVE  /\ Elapsed(a, b) \in Uint64
         /\ b <= a => Elapsed(a, b) = a - b
         /\ a < b => Elapsed(a, b) = a - b + Word
BY IoAssumption DEF Elapsed, Uint64

\* A product is monotone.
LEMMA TimesMono ==
  ASSUME NEW a \in Nat, NEW b \in Nat, NEW c \in Nat, a <= b
  PROVE  a * c <= b * c
OBVIOUS

\* Less than half a word over a second or more is in the range of the
\* conversion, and is converted to the average.
LEMMA ConvertedFacts ==
  ASSUME NEW d \in Nat, 2 * d < Word, NEW t \in Sec..MaxNow, NEW r \in Converted(d * Sec, t)
  PROVE  Average(r, d, t)
<1> DEFINE a == d * Sec
           w == Word * t
<1>1. /\ t \in Nat \ {0} /\ Sec \in Nat \ {0} /\ Sec <= t /\ Word \in Nat \ {0}
      /\ Precision \in Nat \ {0} /\ 2 * d <= Word - 1 /\ Word - 1 \in Nat
  BY IoAssumption
<1>2. a \in Nat /\ w \in Nat
  BY <1>1
<1>3. 2 * a + 1 <= w
  <2>1. (2 * d) * Sec <= (Word - 1) * Sec
    BY <1>1, TimesMono
  <2>2. Sec * (Word - 1) <= t * (Word - 1)
    BY <1>1, TimesMono
  <2>3. (2 * d) * Sec = 2 * a /\ (Word - 1) * Sec = Sec * (Word - 1) /\ t * (Word - 1) = w - t
    BY <1>1
  <2> QED BY <1>1, <1>2, <2>1, <2>2, <2>3
<1> HIDE DEF a, w
<1>4. (2 * a + 1) * Precision <= w * Precision
  BY <1>1, <1>2, <1>3, TimesMono
<1>5. a <= a * Precision
  <2>1. 1 * a <= Precision * a
    BY <1>1, <1>2, TimesMono
  <2> QED BY <1>1, <1>2, <2>1
<1>6. /\ (2 * a + 1) * Precision = a * Precision + a * Precision + Precision
      /\ a * (Precision + 1) = a * Precision + a
      /\ a * Precision \in Nat /\ w * Precision \in Nat
  BY <1>1, <1>2
<1>7. ~(w * Precision <= a * (Precision + 1))
  BY <1>1, <1>2, <1>4, <1>5, <1>6
<1>8. Truncated(r, a, t)
  BY <1>7 DEF Converted, a, w
<1> QED BY <1>8 DEF Truncated, Average, Within, a

\* What get_io_diff returns.
LEMMA DiffFacts ==
  ASSUME NEW a \in Uint64, NEW b \in Uint64, NEW t \in Sec..MaxNow, NEW r \in get_io_diff(a, b, t)
  PROVE  /\ r \in Uint64
         /\ a = NOTIMPL => r = NOTIMPL
         /\ a # NOTIMPL /\ 2 * Elapsed(a, b) < Word => Average(r, Elapsed(a, b), t)
<1>1. NOTIMPL \in Uint64
  BY IoAssumption DEF NOTIMPL, Uint64
<1>2. r \in Uint64 /\ (a = NOTIMPL => r = NOTIMPL)
  BY <1>1 DEF get_io_diff, Converted
<1>3. Elapsed(a, b) \in Nat
  BY ElapsedFacts DEF Uint64
<1>4. a # NOTIMPL => r \in Converted(Elapsed(a, b) * Sec, t)
  BY DEF get_io_diff
<1> QED BY <1>2, <1>3, <1>4, ConvertedFacts, ZenonT(60)

-----------------------------------------------------------------------------
(* The actions.                                                            *)

\* An empty cache.
LEMMA InitStep == Init => IInv
<1> SUFFICES ASSUME Init PROVE IInv
  OBVIOUS
<1>1. /\ now = Sec /\ cleaned = Sec /\ counted \subseteq {"rd", "wr"}
      /\ proc = [p \in Pid |-> [live |-> TRUE, inc |-> 1, rd |-> 0, wr |-> 0]]
      /\ entry = [p \in Pid |-> NULL] /\ call = NULL /\ res = NULL
      /\ last = [p \in Pid |-> NoDiff]
  BY DEF Init
<1>2. NoDiff \in Counts
  BY IoAssumption DEF NoDiff, Counts, Uint64
<1>3. TypeOK
  <2>1. now \in 1..MaxNow /\ cleaned \in 1..MaxNow
    BY <1>1, IoAssumption
  <2>2. proc \in [Pid -> [live : BOOLEAN, inc : 1..MaxInc, rd : 0..MaxBytes, wr : 0..MaxBytes]]
    <3>1. 1 \in 1..MaxInc /\ 0 \in 0..MaxBytes
      BY IoAssumption
    <3> QED BY <1>1, <3>1
  <2>3. entry \in [Pid -> {NULL} \cup Entry] /\ last \in [Pid -> Counts]
    BY <1>1, <1>2
  <2> QED BY <1>1, <2>1, <2>2, <2>3 DEF TypeOK
<1>4. now \in Sec..MaxNow
  BY <1>1, IoAssumption
<1>5. Pending /\ CachedIsLast /\ RateIsAverage /\ RateWithinTotal
  BY <1>1 DEF Pending, CachedIsLast, RateIsAverage, RateWithinTotal
<1> QED BY <1>1, <1>3, <1>4, <1>5 DEF IInv

\* The clock moves, processes transfer bytes, exit and are replaced.
LEMMA KernelKeeps == ASSUME IInv, KernelStep PROVE IInv'
<1>1. UNCHANGED <<entry, cleaned, call, last>> /\ res' = NULL
  BY DEF KernelStep, ioVars
<1>2. UNCHANGED counted
  BY DEF KernelStep, Tick, SetBack, Transfer, Reuse, Exit
<1>3. Pending' /\ CachedIsLast' /\ RateIsAverage' /\ RateWithinTotal'
  BY <1>1 DEF IInv, Pending, CachedIsLast, RateIsAverage, RateWithinTotal
<1> DEFINE Proc == [live : BOOLEAN, inc : 1..MaxInc, rd : 0..MaxBytes, wr : 0..MaxBytes]
<1>4. now' \in Sec..MaxNow /\ proc' \in [Pid -> Proc]
      /\ \A p \in Pid : \/ /\ proc'[p].inc = proc[p].inc
                           /\ proc'[p].rd >= proc[p].rd /\ proc'[p].wr >= proc[p].wr
                        \/ proc'[p].inc = proc[p].inc + 1
  <2>0. now \in Sec..MaxNow /\ proc \in [Pid -> Proc]
    BY DEF IInv, TypeOK
  <2>1. CASE Tick \/ SetBack
    BY <2>0, <2>1, IoAssumption DEF Tick, SetBack
  <2>2. CASE \E p \in Pid : Transfer(p)
    BY <2>0, <2>2, IoAssumption DEF Transfer
  <2>3. CASE \E p \in Pid : Reuse(p)
    BY <2>0, <2>3, IoAssumption DEF Reuse
  <2>4. CASE \E p \in Pid : Exit(p)
    <3>1. PICK p \in Pid : proc' = [proc EXCEPT ![p].live = FALSE] /\ UNCHANGED now
      BY <2>4, ZenonT(60) DEF Exit
    <3>2. proc[p] \in Proc /\ FALSE \in BOOLEAN
      BY <2>0
    <3>3. [proc[p] EXCEPT !.live = FALSE] \in Proc
      BY <3>2, ZenonT(60)
    <3>4. proc' = [proc EXCEPT ![p] = [proc[p] EXCEPT !.live = FALSE]]
      BY <3>1
    <3>5. proc' \in [Pid -> Proc]
      BY <2>0, <3>3, <3>4, ZenonT(60)
    <3>6. \A q \in Pid : /\ proc'[q].inc = proc[q].inc
                         /\ proc'[q].rd = proc[q].rd /\ proc'[q].wr = proc[q].wr
      BY <2>0, <3>4
    <3> QED BY <2>0, <3>1, <3>5, <3>6
  <2> QED BY <2>1, <2>2, <2>3, <2>4 DEF KernelStep
<1>5. TypeOK'
  BY <1>1, <1>2, <1>4, IoAssumption DEF IInv, TypeOK
<1>6. ASSUME NEW p \in Pid, entry'[p] # NULL
      PROVE  Faithful(entry[p], proc[p])' /\ entry'[p].diff = last'[p]
  <2>1. entry[p] \in Entry /\ Faithful(entry[p], proc[p]) /\ entry[p].diff = last[p]
    BY <1>1, <1>6 DEF IInv, TypeOK
  <2>2. proc[p] \in Proc /\ proc'[p] \in Proc
    BY <1>4 DEF IInv, TypeOK
  <2>3. entry[p].inc \in Nat /\ entry[p].seen.rd \in Nat /\ entry[p].seen.wr \in Nat
    BY <2>1 DEF Entry
  <2> QED BY <1>1, <1>2, <1>4, <2>1, <2>2, <2>3 DEF Faithful, Sum, get_named_proc_token
<1> QED BY <1>3, <1>4, <1>5, <1>6 DEF IInv

\* A record of an entry with another time is an entry.
LEMMA EntryTimes ==
  ASSUME NEW e \in Entry, NEW t \in 0..MaxNow
  PROVE  LET f == [e EXCEPT !.last_time = t] IN
         /\ f \in Entry /\ e = [f EXCEPT !.last_time = e.last_time]
         /\ f.diff = e.diff /\ f.cur = e.cur /\ f.seen = e.seen /\ f.inc = e.inc
         /\ f.readAt = e.readAt /\ f.last_time = t
BY ZenonT(60) DEF Entry

\* sigar_proc_disk_io_get up to the read.
LEMMA BeginKeeps == ASSUME IInv, NEW p \in Pid, DiskIoBegin(p) PROVE IInv'
<1> DEFINE old == IF Kept[p] = NULL THEN Zero ELSE Kept[p]
           prev == [old EXCEPT !.atime = now]
           diff == now - prev.last_time
           timed == [prev EXCEPT !.last_time = now]
<1>1. /\ UNCHANGED <<now, proc, counted>> /\ call = NULL
      /\ last' = (IF Kept[p] = NULL THEN [last EXCEPT ![p] = NoDiff] ELSE last)
      /\ cleaned' \in {now, cleaned}
  BY DEF DiskIoBegin, kernVars
<1>2. /\ now \in Sec..MaxNow /\ now \in 1..MaxNow /\ now \in 0..MaxNow /\ cleaned' \in 1..MaxNow
      /\ entry \in [Pid -> {NULL} \cup Entry] /\ last \in [Pid -> Counts]
      /\ proc[p].inc \in 1..MaxInc
  BY <1>1, IoAssumption DEF IInv, TypeOK
<1>3. Kept \in [Pid -> {NULL} \cup Entry] /\ \A q \in Pid : Kept[q] # NULL => Kept[q] = entry[q]
  BY <1>2 DEF Kept
<1>4. NoDiff \in Counts
  BY IoAssumption DEF NoDiff, Counts, Uint64
<1>5. last' \in [Pid -> Counts] /\ \A q \in Pid \ {p} : last'[q] = last[q]
  BY <1>1, <1>2, <1>4
<1>6. prev \in Entry /\ prev.diff = last'[p] /\ Faithful(prev, proc[p])
  <2>1. CASE Kept[p] = NULL
    <3>1. prev = [last_time |-> 0, atime |-> now, cur |-> NoDiff, diff |-> NoDiff,
                  readAt |-> 0, inc |-> 0, seen |-> NoDiff]
      BY <2>1 DEF Zero
    <3>2. NoDiff \in [rd : 0..MaxBytes, wr : 0..MaxBytes, total : {0}] /\ 0 \in 0..MaxNow /\ 0 \in 0..MaxInc
      BY IoAssumption DEF NoDiff
    <3>3. prev \in Entry
      BY <1>2, <1>4, <3>1, <3>2 DEF Entry
    <3>4. Faithful(prev, proc[p])
      BY <1>2, <3>1 DEF Faithful
    <3> QED BY <1>1, <1>2, <2>1, <3>1, <3>3, <3>4
  <2>2. CASE Kept[p] # NULL
    <3>1. old = entry[p] /\ old \in Entry /\ last' = last
      BY <1>1, <1>3, <2>2
    <3>2. Faithful(old, proc[p]) /\ old.diff = last[p]
      BY <1>3, <2>2, <3>1 DEF IInv
    <3>3. /\ prev \in Entry /\ prev.diff = old.diff /\ prev.cur = old.cur
          /\ prev.seen = old.seen /\ prev.inc = old.inc
      BY <1>2, <3>1 DEF Entry
    <3> QED BY <3>1, <3>2, <3>3 DEF Faithful
  <2> QED BY <2>1, <2>2
<1>7. /\ timed \in Entry /\ timed.diff = last'[p] /\ Faithful(timed, proc[p])
      /\ prev = [timed EXCEPT !.last_time = prev.last_time]
  <2> HIDE DEF prev
  <2>1. /\ timed \in Entry /\ prev = [timed EXCEPT !.last_time = prev.last_time]
        /\ timed.diff = prev.diff /\ timed.cur = prev.cur /\ timed.seen = prev.seen
        /\ timed.inc = prev.inc
    BY <1>2, <1>6, EntryTimes, ZenonT(60)
  <2> QED BY <1>6, <2>1 DEF Faithful
<1>8. ASSUME NEW e \in {prev, timed}, entry' = [Kept EXCEPT ![p] = e]
      PROVE  /\ entry' \in [Pid -> {NULL} \cup Entry] /\ entry'[p] = e
             /\ \A q \in Pid : entry'[q] # NULL =>
                  Faithful(entry[q], proc[q])' /\ entry'[q].diff = last'[q]
  <2>1. entry' \in [Pid -> {NULL} \cup Entry] /\ entry'[p] = e
    BY <1>3, <1>6, <1>7, <1>8
  <2>2. ASSUME NEW q \in Pid, entry'[q] # NULL
        PROVE  Faithful(entry[q], proc[q])' /\ entry'[q].diff = last'[q]
    <3>1. Faithful(entry[q], proc[q])' <=> Faithful(entry'[q], proc[q])
      BY <1>1 DEF Faithful, Sum, get_named_proc_token
    <3>2. CASE q = p
      BY <1>6, <1>7, <2>1, <3>1, <3>2, ZenonT(60)
    <3>3. CASE q # p
      <4>1. entry'[q] = Kept[q] /\ Kept[q] = entry[q] /\ entry[q] # NULL
        BY <1>3, <1>8, <2>2, <3>3
      <4> QED BY <1>5, <3>1, <3>3, <4>1 DEF IInv
    <3> QED BY <3>2, <3>3
  <2> QED BY <2>1, <2>2
<1>9. CASE /\ JustCalled(diff) /\ UNCHANGED call
           /\ entry' = [Kept EXCEPT ![p] = IF diff < 0 THEN timed ELSE prev]
           /\ res' = [pid |-> p, status |-> "OK", diff |-> prev.diff, cached |-> TRUE,
                      exact |-> FALSE]
  <2>1. /\ entry' \in [Pid -> {NULL} \cup Entry]
        /\ \A q \in Pid : entry'[q] # NULL =>
             Faithful(entry[q], proc[q])' /\ entry'[q].diff = last'[q]
    BY <1>8, <1>9, ZenonT(60)
  <2>2. TypeOK' /\ Pending'
    BY <1>1, <1>2, <1>5, <1>9, <2>1 DEF IInv, TypeOK, Pending
  <2>3. CachedIsLast' /\ RateIsAverage' /\ RateWithinTotal'
    BY <1>6, <1>9 DEF CachedIsLast, RateIsAverage, RateWithinTotal
  <2> QED BY <1>1, <1>2, <2>1, <2>2, <2>3 DEF IInv
<1>10. CASE /\ ~JustCalled(diff) /\ entry' = [Kept EXCEPT ![p] = timed]
            /\ call' = [pid |-> p, old |-> prev, diff |-> diff] /\ res' = NULL
  <2>1. /\ entry' \in [Pid -> {NULL} \cup Entry] /\ entry'[p] = timed
        /\ \A q \in Pid : entry'[q] # NULL =>
             Faithful(entry[q], proc[q])' /\ entry'[q].diff = last'[q]
    BY <1>8, <1>10
  <2>2. diff \in Sec..MaxNow
    <3>1. prev.last_time \in 0..MaxNow
      BY <1>6 DEF Entry
    <3> QED BY <1>2, <1>10, <3>1, IoAssumption DEF JustCalled
  <2>3. TypeOK'
    BY <1>1, <1>2, <1>5, <1>10, <2>1, <2>2 DEF IInv, TypeOK
  <2>4. Pending'
    BY <1>6, <1>7, <1>10, <2>1, ZenonT(60) DEF Pending
  <2>5. CachedIsLast' /\ RateIsAverage' /\ RateWithinTotal'
    BY <1>10 DEF CachedIsLast, RateIsAverage, RateWithinTotal
  <2> QED BY <1>1, <1>2, <2>1, <2>3, <2>4, <2>5 DEF IInv
<1> QED BY <1>9, <1>10 DEF DiskIoBegin

\* What is read of a process.
LEMMA ReadFacts ==
  ASSUME IInv, NEW p \in Pid
  PROVE  /\ cumulative(p) \in Counts
         /\ cumulative(p).rd = get_named_proc_token("rd", proc[p].rd)
         /\ cumulative(p).wr = get_named_proc_token("wr", proc[p].wr)
         /\ cumulative(p).total = Sum(proc[p].rd, proc[p].wr)
<1>1. proc[p].rd \in 0..MaxBytes /\ proc[p].wr \in 0..MaxBytes
  BY DEF IInv, TypeOK
<1>2. /\ get_named_proc_token("rd", proc[p].rd) \in Uint64
      /\ get_named_proc_token("wr", proc[p].wr) \in Uint64
  BY <1>1, IoAssumption DEF Uint64, get_named_proc_token, NOTIMPL
<1>3. Sum(proc[p].rd, proc[p].wr) \in Uint64
  BY <1>2, IoAssumption DEF Uint64, Sum
<1> QED BY <1>2, <1>3 DEF cumulative, Counts, Sum

\* Two readings of one counter differ by what was transferred.
LEMMA TokenFacts ==
  ASSUME NEW c, NEW n \in 0..MaxBytes, NEW n0 \in 0..n
  PROVE  LET a == get_named_proc_token(c, n)
             b == get_named_proc_token(c, n0)
         IN  /\ a \in Uint64 /\ b \in Uint64
             /\ c \in counted => a # NOTIMPL /\ Elapsed(a, b) = n - n0 /\ 2 * (n - n0) < Word
             /\ c \notin counted => a = NOTIMPL
<1>1. /\ n \in Nat /\ n0 \in Nat /\ n0 <= n /\ n <= MaxBytes /\ MaxBytes \in Nat /\ Word \in Nat
      /\ 4 * MaxBytes < Word /\ 3 < Word
  BY IoAssumption
<1>2. n \in Uint64 /\ n0 \in Uint64 /\ NOTIMPL \in Uint64 /\ n # NOTIMPL /\ 2 * (n - n0) < Word
  BY <1>1 DEF Uint64, NOTIMPL
<1>3. Elapsed(n, n0) = n - n0
  BY <1>1, <1>2, ElapsedFacts
<1> QED BY <1>2, <1>3 DEF get_named_proc_token

\* The totals of two readings of one process differ by what it read and wrote,
\* by what it transferred of the one kind that is counted, or not at all.
TotalOf(rd, wr, rd0, wr0) ==
  LET a == Sum(rd, wr)
      b == Sum(rd0, wr0)
  IN  /\ a \in Uint64 /\ b \in Uint64 /\ 2 * Elapsed(a, b) < Word
      /\ "rd" \in counted /\ "wr" \in counted =>
           a # NOTIMPL /\ Elapsed(a, b) = (rd - rd0) + (wr - wr0)
      /\ "rd" \in counted /\ "wr" \notin counted =>
           (a = NOTIMPL <=> rd = 0) /\ Elapsed(a, b) = rd - rd0
      /\ "rd" \notin counted /\ "wr" \in counted =>
           (a = NOTIMPL <=> wr = 0) /\ Elapsed(a, b) = wr - wr0
      /\ "rd" \notin counted /\ "wr" \notin counted => a # NOTIMPL /\ Elapsed(a, b) = 0

\* They do so for counters that only grow.
LEMMA TotalFacts ==
  ASSUME NEW rd \in 0..MaxBytes, NEW wr \in 0..MaxBytes,
         NEW rd0 \in 0..rd, NEW wr0 \in 0..wr
  PROVE  TotalOf(rd, wr, rd0, wr0)
<1> DEFINE a == Sum(rd, wr)
           b == Sum(rd0, wr0)
<1>0. /\ rd \in Nat /\ wr \in Nat /\ rd0 \in Nat /\ wr0 \in Nat /\ Word \in Nat /\ MaxBytes \in Nat
      /\ rd0 <= rd /\ wr0 <= wr /\ rd <= MaxBytes /\ wr <= MaxBytes /\ 4 * MaxBytes < Word /\ 3 < Word
  BY IoAssumption
<1>1. CASE "rd" \in counted /\ "wr" \in counted
  <2>1. a = rd + wr /\ b = rd0 + wr0
    BY <1>0, <1>1 DEF Sum, get_named_proc_token
  <2> HIDE DEF a, b, TotalOf
  <2>2. a \in Uint64 /\ b \in Uint64 /\ b <= a /\ a # NOTIMPL
    BY <1>0, <2>1 DEF Uint64, NOTIMPL
  <2>3. Elapsed(a, b) = a - b
    BY <2>2, ElapsedFacts
  <2> QED BY <1>0, <1>1, <2>1, <2>2, <2>3 DEF a, b, TotalOf
<1>2. CASE "rd" \in counted /\ "wr" \notin counted
  <2>1. /\ a = (IF rd = 0 THEN Word - 1 ELSE rd - 1)
        /\ b = (IF rd0 = 0 THEN Word - 1 ELSE rd0 - 1)
    BY <1>0, <1>2 DEF Sum, get_named_proc_token, NOTIMPL
  <2> HIDE DEF a, b, TotalOf
  <2>2. a \in Uint64 /\ b \in Uint64
    BY <1>0, <2>1 DEF Uint64
  <2>3. Elapsed(a, b) = rd - rd0
    BY <1>0, <2>1, <2>2, ElapsedFacts
  <2> QED BY <1>0, <1>2, <2>1, <2>2, <2>3 DEF a, b, NOTIMPL, TotalOf
<1>3. CASE "rd" \notin counted /\ "wr" \in counted
  <2>1. /\ a = (IF wr = 0 THEN Word - 1 ELSE wr - 1)
        /\ b = (IF wr0 = 0 THEN Word - 1 ELSE wr0 - 1)
    BY <1>0, <1>3 DEF Sum, get_named_proc_token, NOTIMPL
  <2> HIDE DEF a, b, TotalOf
  <2>2. a \in Uint64 /\ b \in Uint64
    BY <1>0, <2>1 DEF Uint64
  <2>3. Elapsed(a, b) = wr - wr0
    BY <1>0, <2>1, <2>2, ElapsedFacts
  <2> QED BY <1>0, <1>3, <2>1, <2>2, <2>3 DEF a, b, NOTIMPL, TotalOf
<1>4. CASE "rd" \notin counted /\ "wr" \notin counted
  <2>1. a = Word - 2 /\ b = Word - 2
    BY <1>0, <1>4 DEF Sum, get_named_proc_token, NOTIMPL
  <2> HIDE DEF a, b, TotalOf
  <2>2. a \in Uint64 /\ b \in Uint64 /\ b <= a /\ a # NOTIMPL
    BY <1>0, <2>1 DEF Uint64, NOTIMPL
  <2>3. Elapsed(a, b) = 0
    BY <1>0, <2>1, <2>2, ElapsedFacts
  <2> QED BY <1>0, <1>4, <2>2, <2>3 DEF a, b, TotalOf
<1> QED BY <1>1, <1>2, <1>3, <1>4

\* The rate of nothing is nothing.
LEMMA ZeroRate ==
  ASSUME NEW r \in Nat, NEW t \in Sec..MaxNow, Average(r, 0, t)
  PROVE  r = 0
<1>1. t \in Nat \ {0} /\ Precision \in Nat \ {0} /\ Sec \in Nat
  BY IoAssumption
<1>2. 0 * Sec * (Precision + 1) = 0
  BY <1>1
<1>3. r * t * Precision <= 0
  BY <1>2 DEF Average, Within
<1>4. SUFFICES ASSUME r >= 1 PROVE FALSE
  OBVIOUS
<1>5. 1 * t <= r * t /\ r * t \in Nat
  BY <1>1, <1>4, TimesMono
<1>6. t * Precision <= (r * t) * Precision /\ t * Precision >= 1
  BY <1>1, <1>5, TimesMono
<1> QED BY <1>1, <1>3, <1>5, <1>6

\* The rates d of a reading, when process q transferred rd and wr in time t.
Right(d, q, rd, wr, t) ==
  /\ "rd" \in counted => Average(d.rd, rd, t)
  /\ "wr" \in counted => Average(d.wr, wr, t)
  /\ "rd" \notin counted => d.rd = NOTIMPL
  /\ "wr" \notin counted => d.wr = NOTIMPL
  /\ "rd" \in counted /\ "wr" \in counted => Average(d.total, rd + wr, t)
  /\ "rd" \in counted /\ "wr" \notin counted =>
       Average(d.total, rd, t) \/ (d.total = NOTIMPL /\ q.rd = 0)
  /\ "rd" \notin counted /\ "wr" \in counted =>
       Average(d.total, wr, t) \/ (d.total = NOTIMPL /\ q.wr = 0)
  /\ "rd" \notin counted /\ "wr" \notin counted => d.total = 0

\* The rates a reading may give, e being the entry and time_diff the time
\* since the last call.
Rates(p, e, time_diff) ==
  [rd : get_io_diff(cumulative(p).rd, e.cur.rd, time_diff),
   wr : get_io_diff(cumulative(p).wr, e.cur.wr, time_diff),
   total : get_io_diff(cumulative(p).total, e.cur.total, time_diff)]

\* They are rates, and right if the entry is of the same process.
LEMMA RateFacts ==
  ASSUME IInv, NEW p \in Pid, NEW e \in Entry, Faithful(e, proc[p]), NEW t \in Sec..MaxNow,
         NEW d \in Rates(p, e, t)
  PROVE  /\ d \in Counts
         /\ e.inc = proc[p].inc =>
              Right(d, proc[p], proc[p].rd - e.seen.rd, proc[p].wr - e.seen.wr, t)
         /\ ~(e.inc # proc[p].inc /\ proc[p].rd < e.seen.rd) /\ "rd" \in counted =>
              Within(d.rd, proc[p].rd, t)
<1> DEFINE c == cumulative(p)
           rd == proc[p].rd - e.seen.rd
           wr == proc[p].wr - e.seen.wr
<1>1. /\ c \in Counts /\ c.rd = get_named_proc_token("rd", proc[p].rd)
      /\ c.wr = get_named_proc_token("wr", proc[p].wr) /\ c.total = Sum(proc[p].rd, proc[p].wr)
  BY ReadFacts
<1>2. /\ c.rd \in Uint64 /\ c.wr \in Uint64 /\ c.total \in Uint64
      /\ e.cur.rd \in Uint64 /\ e.cur.wr \in Uint64 /\ e.cur.total \in Uint64
      /\ e.seen.rd \in 0..MaxBytes /\ e.seen.wr \in 0..MaxBytes /\ e.inc \in 0..MaxInc
      /\ proc[p].rd \in 0..MaxBytes /\ proc[p].wr \in 0..MaxBytes /\ proc[p].inc \in 1..MaxInc
  BY <1>1 DEF Counts, Entry, IInv, TypeOK
<1> HIDE DEF c
<1>3. /\ d = [rd |-> d.rd, wr |-> d.wr, total |-> d.total]
      /\ d.rd \in get_io_diff(c.rd, e.cur.rd, t) /\ d.wr \in get_io_diff(c.wr, e.cur.wr, t)
      /\ d.total \in get_io_diff(c.total, e.cur.total, t)
  BY ZenonT(60) DEF Rates, c
<1>4. d.rd \in Uint64 /\ d.wr \in Uint64 /\ d.total \in Uint64
  BY <1>2, <1>3, DiffFacts, ZenonT(60)
<1>5. d \in Counts
  BY <1>3, <1>4 DEF Counts
<1>6. ASSUME e.inc = proc[p].inc PROVE Right(d, proc[p], rd, wr, t)
  <2>1. /\ e.cur.rd = get_named_proc_token("rd", e.seen.rd)
        /\ e.cur.wr = get_named_proc_token("wr", e.seen.wr)
        /\ e.cur.total = Sum(e.seen.rd, e.seen.wr)
        /\ e.seen.rd \in 0..proc[p].rd /\ e.seen.wr \in 0..proc[p].wr
    BY <1>2, <1>6 DEF Faithful
  <2>2. ("rd" \in counted => Average(d.rd, rd, t)) /\ ("rd" \notin counted => d.rd = NOTIMPL)
    <3>1. /\ "rd" \in counted => c.rd # NOTIMPL /\ Elapsed(c.rd, e.cur.rd) = rd /\ 2 * rd < Word
          /\ "rd" \notin counted => c.rd = NOTIMPL
      BY <1>1, <1>2, <2>1, TokenFacts
    <3> HIDE DEF rd
    <3> QED BY <1>2, <1>3, <3>1, DiffFacts
  <2>3. ("wr" \in counted => Average(d.wr, wr, t)) /\ ("wr" \notin counted => d.wr = NOTIMPL)
    <3>1. /\ "wr" \in counted => c.wr # NOTIMPL /\ Elapsed(c.wr, e.cur.wr) = wr /\ 2 * wr < Word
          /\ "wr" \notin counted => c.wr = NOTIMPL
      BY <1>1, <1>2, <2>1, TokenFacts
    <3> HIDE DEF wr
    <3> QED BY <1>2, <1>3, <3>1, DiffFacts
  <2> DEFINE el == Elapsed(c.total, e.cur.total)
  <2>4. /\ 2 * el < Word
        /\ "rd" \in counted /\ "wr" \in counted => c.total # NOTIMPL /\ el = rd + wr
        /\ "rd" \in counted /\ "wr" \notin counted =>
             (c.total = NOTIMPL <=> proc[p].rd = 0) /\ el = rd
        /\ "rd" \notin counted /\ "wr" \in counted =>
             (c.total = NOTIMPL <=> proc[p].wr = 0) /\ el = wr
        /\ "rd" \notin counted /\ "wr" \notin counted => c.total # NOTIMPL /\ el = 0
    <3>1. TotalOf(proc[p].rd, proc[p].wr, e.seen.rd, e.seen.wr)
      BY <1>2, <2>1, TotalFacts, ZenonT(60)
    <3>2. /\ Sum(proc[p].rd, proc[p].wr) = c.total /\ Sum(e.seen.rd, e.seen.wr) = e.cur.total
      BY <1>1, <2>1
    <3> QED BY <3>1, <3>2, ZenonT(60) DEF TotalOf
  <2>5. /\ c.total = NOTIMPL => d.total = NOTIMPL
        /\ c.total # NOTIMPL => Average(d.total, el, t)
    BY <1>2, <1>3, <2>4, DiffFacts, ZenonT(60)
  <2> HIDE DEF el, rd, wr
  <2>6. "rd" \notin counted /\ "wr" \notin counted => d.total = 0
    BY <1>4, <2>4, <2>5, ZeroRate DEF Uint64
  <2> QED BY <2>2, <2>3, <2>4, <2>5, <2>6, ZenonT(60) DEF Right
<1>7. ASSUME ~(e.inc # proc[p].inc /\ proc[p].rd < e.seen.rd), "rd" \in counted
      PROVE  Within(d.rd, proc[p].rd, t)
  <2>1. e.cur.rd <= proc[p].rd /\ c.rd = proc[p].rd
    <3>1. e.inc = 0 => e.cur.rd = 0
      BY DEF Faithful, NoDiff
    <3> QED BY <1>1, <1>2, <1>7, <3>1 DEF Faithful, get_named_proc_token
  <2> DEFINE n == proc[p].rd - e.cur.rd
  <2>2. Elapsed(c.rd, e.cur.rd) = n
    BY <1>2, <2>1, ElapsedFacts
  <2>3. /\ n \in Nat /\ n <= proc[p].rd /\ proc[p].rd \in Nat /\ Sec \in Nat /\ Precision \in Nat
        /\ 2 * n < Word /\ c.rd # NOTIMPL
    BY <1>2, <2>1, IoAssumption DEF Uint64, NOTIMPL
  <2>4. Within(d.rd, n, t)
    BY <1>2, <1>3, <2>2, <2>3, DiffFacts, ZenonT(60) DEF Average
  <2> HIDE DEF n
  <2>5. n * Sec <= proc[p].rd * Sec /\ n * Sec \in Nat /\ proc[p].rd * Sec \in Nat
    BY <2>3, TimesMono
  <2>6. (n * Sec) * (Precision + 1) <= (proc[p].rd * Sec) * (Precision + 1)
    BY <2>3, <2>5, TimesMono
  <2>7. d.rd \in Nat /\ t \in Nat
    BY <1>4, IoAssumption DEF Uint64
  <2>8. /\ d.rd * t * Precision \in Nat /\ (n * Sec) * (Precision + 1) \in Nat
        /\ (proc[p].rd * Sec) * (Precision + 1) \in Nat
    BY <2>3, <2>5, <2>7
  <2> QED BY <2>4, <2>6, <2>8 DEF Within
<1> QED BY <1>5, <1>6, <1>7

\* The rest of sigar_proc_disk_io_get.
LEMMA ReadKeeps == ASSUME IInv, DiskIoRead PROVE IInv'
<1> DEFINE p == call.pid
           prev == entry[p]
           first == call.old.last_time = 0
           new(e) == [e EXCEPT !.readAt = prev.last_time, !.inc = proc[p].inc,
                               !.seen = [rd |-> proc[p].rd, wr |-> proc[p].wr, total |-> 0]]
           fall == call.old.inc # proc[p].inc /\ proc[p].rd < call.old.seen.rd
           same == ~first /\ call.old.readAt = call.old.last_time /\ call.old.inc = proc[p].inc
<1>1. call # NULL /\ call' = NULL /\ UNCHANGED <<now, proc, counted, cleaned>>
  BY DEF DiskIoRead, kernVars
<1>2. /\ p \in Pid /\ call.diff \in Sec..MaxNow /\ prev \in Entry /\ call.old \in Entry
      /\ call.old = [prev EXCEPT !.last_time = call.old.last_time]
      /\ entry \in [Pid -> {NULL} \cup Entry] /\ last \in [Pid -> Counts]
  BY <1>1 DEF IInv, TypeOK, Pending
<1> HIDE DEF p, prev
<1>3. call.old.cur = prev.cur /\ call.old.seen = prev.seen /\ call.old.inc = prev.inc
  BY <1>2 DEF Entry
<1>4. Pending'
  BY <1>1 DEF Pending
<1>5. CASE UNCHANGED <<entry, last>> /\ ~res'.exact /\ res'.status # "OK" /\ ~res'.cached
  <2>1. TypeOK'
    BY <1>1, <1>5 DEF IInv, TypeOK
  <2>2. CachedIsLast' /\ RateIsAverage' /\ RateWithinTotal'
    BY <1>5 DEF CachedIsLast, RateIsAverage, RateWithinTotal
  <2>3. ASSUME NEW q \in Pid, entry'[q] # NULL
        PROVE  Faithful(entry[q], proc[q])' /\ entry'[q].diff = last'[q]
    BY <1>1, <1>5, <2>3 DEF IInv, Faithful, Sum, get_named_proc_token
  <2> QED BY <1>1, <1>4, <2>1, <2>2, <2>3 DEF IInv
<1>6. ASSUME NEW e \in calculate_io_diff(cumulative(p), prev, call.diff, first),
             entry' = [entry EXCEPT ![p] = new(e)], last' = [last EXCEPT ![p] = e.diff],
             /\ res'.pid = p /\ res'.diff = e.diff /\ ~res'.cached
             /\ res'.exact = same /\ res'.time = call.diff /\ res'.fell = fall
             /\ res'.rd = proc[p].rd - call.old.seen.rd /\ res'.wr = proc[p].wr - call.old.seen.wr
      PROVE  IInv'
  <2> DEFINE s == [rd |-> proc[p].rd, wr |-> proc[p].wr, total |-> 0]
             ne == new(e)
  <2>0. PICK d \in IF first THEN {NoDiff} ELSE Rates(p, prev, call.diff) :
          e = [prev EXCEPT !.cur = cumulative(p), !.diff = d]
    BY <1>6, ZenonT(60) DEF calculate_io_diff, Rates
  <2>1. Faithful(prev, proc[p])
    BY <1>2, NullAssumption DEF IInv, prev
  <2>2. /\ proc[p].inc \in 1..MaxInc /\ proc[p].inc \in 0..MaxInc /\ proc[p].inc # 0
        /\ proc[p].rd \in 0..MaxBytes /\ proc[p].wr \in 0..MaxBytes
    BY <1>2, IoAssumption DEF IInv, TypeOK
  <2>3. d \in Counts
    <3>1. NoDiff \in Counts
      BY IoAssumption DEF NoDiff, Counts, Uint64
    <3> QED BY <1>2, <2>0, <2>1, <3>1, RateFacts, ZenonT(60)
  <2>4. /\ cumulative(p) \in Counts
        /\ cumulative(p).rd = get_named_proc_token("rd", proc[p].rd)
        /\ cumulative(p).wr = get_named_proc_token("wr", proc[p].wr)
        /\ cumulative(p).total = Sum(proc[p].rd, proc[p].wr)
    BY <1>2, ReadFacts
  <2>5. /\ ne \in Entry /\ ne.cur = cumulative(p) /\ ne.diff = d
        /\ ne.inc = proc[p].inc /\ ne.seen = s /\ e.diff = d
    <3>1. s \in [rd : 0..MaxBytes, wr : 0..MaxBytes, total : {0}]
      BY <2>2
    <3>2. e \in Entry /\ e.cur = cumulative(p) /\ e.diff = d
      BY <1>2, <2>0, <2>3, <2>4, ZenonT(60) DEF Entry
    <3>3. ne = [e EXCEPT !.readAt = prev.last_time, !.inc = proc[p].inc, !.seen = s]
      OBVIOUS
    <3>4. prev.last_time \in 0..MaxNow
      BY <1>2 DEF Entry
    <3> HIDE DEF ne, s
    <3> QED BY <2>2, <3>1, <3>2, <3>3, <3>4, ZenonT(60) DEF Entry
  <2>6. entry' = [entry EXCEPT ![p] = ne] /\ last' = [last EXCEPT ![p] = d] /\ res'.diff = d
    BY <1>6, <2>5
  <2> HIDE DEF ne, new
  <2>7. Faithful(ne, proc[p])
    <3>1. ne.inc = proc[p].inc /\ ne.cur = cumulative(p) /\ ne.seen = s
      BY <2>5
    <3>2. s.rd = proc[p].rd /\ s.wr = proc[p].wr
      OBVIOUS
    <3> HIDE DEF s
    <3> QED BY <2>2, <2>4, <3>1, <3>2 DEF Faithful
  <2>8. ne \in Entry /\ ne.diff = d
    BY <2>5
  <2>9. TypeOK'
    <3>1. entry' \in [Pid -> {NULL} \cup Entry] /\ last' \in [Pid -> Counts]
      BY <1>2, <2>3, <2>6, <2>8
    <3> QED BY <1>1, <3>1 DEF IInv, TypeOK
  <2>10. ASSUME NEW q \in Pid, entry'[q] # NULL
         PROVE  Faithful(entry[q], proc[q])' /\ entry'[q].diff = last'[q]
    <3>1. Faithful(entry[q], proc[q])' <=> Faithful(entry'[q], proc[q])
      BY <1>1 DEF Faithful, Sum, get_named_proc_token
    <3>2. CASE q = p
      BY <1>2, <2>6, <2>7, <2>8, <3>1, <3>2
    <3>3. CASE q # p
      <4>1. entry'[q] = entry[q] /\ last'[q] = last[q]
        BY <1>2, <2>6, <3>3
      <4> QED BY <2>10, <3>1, <4>1 DEF IInv
    <3> QED BY <3>2, <3>3
  <2>11. CachedIsLast'
    BY <1>6 DEF CachedIsLast
  <2>12. RateIsAverage'
    <3>1. SUFFICES ASSUME same PROVE RateIsAverage'
      BY <1>6, ZenonT(60) DEF RateIsAverage
    <3>2. d \in Rates(p, prev, call.diff) /\ prev.inc = proc[p].inc
      BY <1>3, <2>0, <3>1
    <3>3. Right(d, proc[p], proc[p].rd - prev.seen.rd, proc[p].wr - prev.seen.wr, call.diff)
      BY <1>2, <2>1, <3>2, RateFacts, ZenonT(60)
    <3>4. res'.rd = proc[p].rd - prev.seen.rd /\ res'.wr = proc[p].wr - prev.seen.wr
      BY <1>3, <1>6
    <3>5. Right(d, proc[p], res'.rd, res'.wr, call.diff)
      BY <3>3, <3>4
    <3>6. counted \subseteq {"rd", "wr"}
      BY DEF IInv, TypeOK
    <3> QED BY <1>1, <1>6, <2>6, <3>5, <3>6 DEF RateIsAverage, Right, Average, Within
  <2>13. RateWithinTotal'
    <3>1. SUFFICES ASSUME ~fall, "rd" \in counted PROVE Within(d.rd, proc[p].rd, call.diff)
      BY <1>1, <1>6, <2>6, ZenonT(60) DEF RateWithinTotal, Within
    <3>2. CASE first
      <4>1. d.rd = 0 /\ proc[p].rd \in Nat /\ Sec \in Nat /\ call.diff \in Int /\ Precision \in Nat
        BY <1>2, <2>0, <2>2, <3>2, IoAssumption DEF NoDiff
      <4>2. d.rd * call.diff * Precision = 0 /\ proc[p].rd * Sec \in Nat
        BY <4>1
      <4>3. (proc[p].rd * Sec) * (Precision + 1) >= 0
        BY <4>1, <4>2
      <4> QED BY <4>2, <4>3 DEF Within
    <3>3. CASE ~first
      <4>1. d \in Rates(p, prev, call.diff) /\ ~(prev.inc # proc[p].inc /\ proc[p].rd < prev.seen.rd)
        BY <1>3, <2>0, <3>1, <3>3
      <4> QED BY <1>2, <2>1, <3>1, <4>1, RateFacts, ZenonT(60)
    <3> QED BY <3>2, <3>3
  <2> QED BY <1>1, <1>4, <2>9, <2>10, <2>11, <2>12, <2>13 DEF IInv
<1>7. PICK status \in proc_file2str(p) :
        \/ /\ status = "OK"
           /\ \E e \in calculate_io_diff(cumulative(p), prev, call.diff, first) :
                /\ entry' = [entry EXCEPT ![p] = new(e)]
                /\ last' = [last EXCEPT ![p] = e.diff]
                /\ res' = [pid |-> p, status |-> status, diff |-> e.diff, cached |-> FALSE,
                           exact |-> same, time |-> call.diff,
                           since |-> prev.last_time - call.old.readAt,
                           moved |-> IF call.old.inc = proc[p].inc
                                     THEN proc[p].rd - call.old.seen.rd
                                     ELSE IF call.old.inc = 0 THEN 0 ELSE proc[p].rd,
                           fell |-> fall,
                           rd |-> proc[p].rd - call.old.seen.rd,
                           wr |-> proc[p].wr - call.old.seen.wr]
        \/ /\ status # "OK"
           /\ entry' = [entry EXCEPT ![p] = FailedKeeps(@)]
           /\ res' = [pid |-> p, status |-> status, cached |-> FALSE, exact |-> FALSE]
           /\ UNCHANGED last
  BY ZenonT(60) DEF DiskIoRead, p, prev
<1>8. CASE status = "OK"
  <2> HIDE DEF new, same, fall, first
  <2> QED BY <1>6, <1>7, <1>8
<1>9. CASE status # "OK"
  <2>1. entry' = entry
    BY <1>2, <1>7, <1>9 DEF FailedKeeps
  <2>2. last' = last /\ res' = [pid |-> p, status |-> status, cached |-> FALSE, exact |-> FALSE]
    <3> HIDE DEF new, same, fall, first
    <3> QED BY <1>7, <1>9, ZenonT(60)
  <2>3. res'.status = status /\ ~res'.cached /\ ~res'.exact
    BY <2>2
  <2> QED BY <1>5, <1>9, <2>1, <2>2, <2>3
<1> QED BY <1>8, <1>9

\* Every step keeps the inductive invariant.
LEMMA NextKeeps == IInv /\ [Next]_vars => IInv'
<1> SUFFICES ASSUME IInv, [Next]_vars PROVE IInv'
  OBVIOUS
<1>1. CASE KernelStep
  BY <1>1, KernelKeeps
<1>2. CASE \E p \in Pid : DiskIoBegin(p)
  BY <1>2, BeginKeeps
<1>3. CASE DiskIoRead
  BY <1>3, ReadKeeps
<1>4. CASE UNCHANGED vars
  <2>1. UNCHANGED <<now, proc, counted, entry, cleaned, call, res, last>>
    BY <1>4 DEF vars, kernVars, ioVars
  <2>2. TypeOK' /\ Pending'
    BY <2>1 DEF IInv, TypeOK, Pending
  <2>3. CachedIsLast' /\ RateIsAverage' /\ RateWithinTotal'
    BY <2>1 DEF IInv, CachedIsLast, RateIsAverage, RateWithinTotal, Average, Within
  <2>4. ASSUME NEW q \in Pid, entry'[q] # NULL
        PROVE  Faithful(entry[q], proc[q])' /\ entry'[q].diff = last'[q]
    BY <2>1, <2>4 DEF IInv, Faithful, Sum, get_named_proc_token
  <2> QED BY <2>1, <2>2, <2>3, <2>4 DEF IInv
<1> QED BY <1>1, <1>2, <1>3, <1>4 DEF Next

\* sigar_proc_disk_io_get computes a rate only over a second or more, so that
\* the divisor of get_io_diff is positive.
THEOREM TypeHolds == Spec => []TypeOK
<1>1. IInv => TypeOK
  BY DEF IInv
<1> QED BY <1>1, InitStep, NextKeeps, PTL DEF Spec

\* Between two readings of one process its rates are the bytes per second, to
\* the precision of a double, whichever of the two counters are missing.
THEOREM RateIsAverageHolds == Spec => []RateIsAverage
<1>1. IInv => RateIsAverage
  BY DEF IInv
<1> QED BY <1>1, InitStep, NextKeeps, PTL DEF Spec

\* A call within a second repeats the last rates.
THEOREM CachedIsLastHolds == Spec => []CachedIsLast
<1>1. IInv => CachedIsLast
  BY DEF IInv
<1> QED BY <1>1, InitStep, NextKeeps, PTL DEF Spec

\* Only a pid that passed to a process which has read less makes a rate
\* exceed all that the process read, or the range of the conversion.
THEOREM RateWithinTotalHolds == Spec => []RateWithinTotal
<1>1. IInv => RateWithinTotal
  BY DEF IInv
<1> QED BY <1>1, InitStep, NextKeeps, PTL DEF Spec
=============================================================================
