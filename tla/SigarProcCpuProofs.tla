------------------------- MODULE SigarProcCpuProofs -------------------------
(***************************************************************************)
(* Proofs about the CPU shares of SigarProcCpu: no CPU time is counted     *)
(* twice, and whose data a reply is computed from, for any number of       *)
(* processes, uses of a pid, instants, and periods of both caches; and     *)
(* how large the share of one reply can be.                                *)
(***************************************************************************)
EXTENDS SigarProcCpu, TLAPS

USE ZenonT(60)

Stat == [pid : Pid \cup {NoPid}, mtime : Nat, of : Pid \cup {NoPid}, cpu : Nat, at : Nat]

Typed ==
  /\ now \in Nat /\ real \in Nat
  /\ proc \in [Pid -> [live : BOOLEAN, inc : Nat, cpu : Nat]]
  /\ used \in [Pid -> Nat] /\ reported \in [Pid -> Nat]
  /\ stat \in Stat
  /\ DOMAIN entry = Pid /\ \A p \in Pid : entry[p] # NULL => entry[p] \in Entry
  /\ call # NULL => call.pid \in Pid

\* By how much a exceeds b.
Over(a, b) == IF a <= b THEN 0 ELSE a - b

\* What has been reported of p, and what a call may still report of it now that
\* its entry holds the total t, was used: whether the call reads the process, or
\* is served from last_proc_stat and a later call reads the process.
Accounted(p, t) ==
  t # 0 => /\ reported[p] + Over(proc[p].cpu, t) <= used[p]
           /\ stat.of = p =>
                reported[p] + Over(stat.cpu, t) + Over(proc[p].cpu, stat.cpu) <= used[p]

\* The same of a process without an entry, or with one that is still empty.
Fair(p) ==
  /\ reported[p] <= used[p]
  /\ stat.of = p => reported[p] + Over(proc[p].cpu, stat.cpu) <= used[p]
  /\ entry[p] # NULL => Accounted(p, entry[p].total)

\* A call between the time and the read works on the entry's total.
Pending ==
  call # NULL /\ call.op = "cpu" =>
    /\ entry[call.pid] \in Entry /\ entry[call.pid].total = call.old.total /\ call.time \in Nat
    /\ call.pid \notin tainted => Accounted(call.pid, call.old.total)

\* last_proc_stat after a read that succeeded, and what a call that reports
\* memory took from it.
StatSound ==
  /\ ~stepped => now = real
  /\ ~stepped /\ ~unread /\ stat.pid # NoPid =>
       stat.of = stat.pid /\ stat.mtime = stat.at \div Sec

Recent(p, s, t) == s.of = p /\ t - s.at < StatExpire * Sec

FaultsSound ==
  call # NULL /\ call.op = "mem" =>
    Recent(call.pid, call.faults, call.time) \/ unread \/ stepped

IInv ==
  /\ Typed
  /\ \A p \in Pid \ tainted : Fair(p)
  /\ Pending /\ StatSound /\ FaultsSound /\ ServedStat

-----------------------------------------------------------------------------
(* Facts about the operators.                                              *)

\* Division rounds down.
LEMMA DivFacts ==
  ASSUME NEW a \in Nat, NEW b \in Nat \ {0}
  PROVE  a \div b \in Nat /\ (a \div b) * b <= a /\ a < ((a \div b) + 1) * b
BY SMTT(60)

\* A product is monotone.
LEMMA TimesMono ==
  ASSUME NEW a \in Nat, NEW b \in Nat, NEW c \in Nat, a <= b
  PROVE  a * c <= b * c
BY SMTT(60)

\* Times whose whole seconds are less than e apart are less than e seconds apart.
LEMMA SecondsApart ==
  ASSUME NEW a \in Nat, NEW b \in Nat, NEW e \in Nat, a \div Sec - b \div Sec < e
  PROVE  a - b < e * Sec
<1> DEFINE x == a \div Sec
           y == b \div Sec
<1>0. Sec \in Nat \ {0}
  BY StatAssumption
<1>1. x \in Nat /\ y \in Nat /\ a < (x + 1) * Sec /\ y * Sec <= b
  BY <1>0, DivFacts, ZenonT(60)
<1>2. x - y < e
  OBVIOUS
<1> HIDE DEF x, y
<1>3. (x + 1) * Sec <= (y + e) * Sec
  BY <1>0, <1>1, <1>2, TimesMono, SMTT(60)
<1>4. (y + e) * Sec = y * Sec + e * Sec
  BY <1>0, <1>1, SMTT(60)
<1>5. (x + 1) * Sec \in Nat /\ (y + e) * Sec \in Nat /\ y * Sec \in Nat /\ e * Sec \in Nat
  BY <1>0, <1>1, SMTT(60)
<1> QED BY <1>1, <1>3, <1>4, <1>5, SMTT(60)

\* The handle has just been opened.
LEMMA InitStep == Init => IInv
<1> SUFFICES ASSUME Init PROVE IInv
  OBVIOUS
<1>1. /\ now = 1 /\ real = 1 /\ stepped = FALSE /\ unread = FALSE /\ call = NULL /\ res = NULL
      /\ proc = [p \in Pid |-> [live |-> TRUE, inc |-> 1, cpu |-> 0]]
      /\ used = [p \in Pid |-> 0] /\ reported = [p \in Pid |-> 0]
      /\ entry = [p \in Pid |-> NULL]
      /\ stat = [pid |-> NoPid, mtime |-> 0, of |-> NoPid, cpu |-> 0, at |-> 0]
  BY DEF Init, StatInit
<1>2. Typed
  BY <1>1 DEF Typed, Stat
<1>3. \A p \in Pid : Fair(p)
  <2> TAKE p \in Pid
  <2>1. reported[p] = 0 /\ used[p] = 0 /\ entry[p] = NULL /\ stat.of # p
    BY <1>1, StatAssumption
  <2> QED BY <2>1, SMTT(60) DEF Fair
<1>4. Pending /\ FaultsSound /\ ServedStat
  BY <1>1 DEF Pending, FaultsSound, ServedStat
<1>5. StatSound
  BY <1>1 DEF StatSound
<1> QED BY <1>2, <1>3, <1>4, <1>5 DEF IInv

-----------------------------------------------------------------------------
(* The kernel.                                                             *)

\* Time passes, the clock is set back, a process exits or starts.  A total grows
\* only with use, and a new process starts from nothing: what may still be
\* reported never grows faster than use.
LEMMA KernelKeeps == ASSUME IInv, KernelStep PROVE IInv'
<1>1. /\ UNCHANGED <<stat, entry, cleaned, reported, tainted, call, unread>> /\ res' = NULL
  BY DEF KernelStep, Kernel, Tick, SetBack, Exit, Spawn, cpuVars
<1>2. /\ now' \in Nat /\ real' \in Nat /\ (stepped => stepped') /\ (~stepped' => now' = real')
  BY SMTT(60) DEF IInv, Typed, StatSound, KernelStep, Kernel, Tick, SetBack, Exit, Spawn
<1> DEFINE Grows ==
      /\ proc' \in [Pid -> [live : BOOLEAN, inc : Nat, cpu : Nat]] /\ used' \in [Pid -> Nat]
      /\ \A p \in Pid : /\ used[p] <= used'[p]
                        /\ \/ proc'[p].cpu <= proc[p].cpu
                           \/ proc'[p].cpu - proc[p].cpu <= used'[p] - used[p]
<1>3. Grows
  <2>0. /\ proc \in [Pid -> [live : BOOLEAN, inc : Nat, cpu : Nat]] /\ used \in [Pid -> Nat]
        /\ Active \subseteq Pid
    BY StatAssumption DEF IInv, Typed
  <2>1. CASE Tick
    <3>1. PICK busy \in SUBSET (Live \cap Active) :
            /\ proc' = [p \in Pid |-> IF p \in busy THEN [proc[p] EXCEPT !.cpu = @ + 1]
                                                    ELSE proc[p]]
            /\ used' = [p \in Pid |-> IF p \in busy THEN used[p] + 1 ELSE used[p]]
      BY <2>1, ZenonT(60) DEF Tick
    <3> QED BY <2>0, <3>1, SMTT(60)
  <2>2. CASE SetBack
    BY <2>0, <2>2, SMTT(60) DEF SetBack
  <2>3. ASSUME NEW p \in Active, Exit(p) PROVE Grows
    <3>1. proc' = [proc EXCEPT ![p].live = FALSE] /\ used' = used
      BY <2>3 DEF Exit
    <3>2. proc[p] \in [live : BOOLEAN, inc : Nat, cpu : Nat] /\ FALSE \in BOOLEAN
      BY <2>0
    <3>3. [proc[p] EXCEPT !.live = FALSE] \in [live : BOOLEAN, inc : Nat, cpu : Nat]
          /\ [proc[p] EXCEPT !.live = FALSE].cpu = proc[p].cpu
      BY <3>2, ZenonT(60)
    <3>4. /\ proc' \in [Pid -> [live : BOOLEAN, inc : Nat, cpu : Nat]]
          /\ \A q \in Pid : proc'[q].cpu = proc[q].cpu
      BY <2>0, <3>1, <3>3
    <3> QED BY <2>0, <3>1, <3>4, SMTT(60)
  <2>4. ASSUME NEW p \in Active, Spawn(p) PROVE Grows
    BY <2>0, <2>4, SMTT(60) DEF Spawn
  <2> QED BY <2>1, <2>2, <2>3, <2>4 DEF KernelStep, Kernel
<1>4. Typed'
  BY <1>1, <1>2, <1>3 DEF IInv, Typed
<1>5. ASSUME NEW p \in Pid, NEW t \in Nat, Accounted(p, t)
      PROVE  Accounted(p, t)'
  <2>1. /\ proc[p].cpu \in Nat /\ proc'[p].cpu \in Nat /\ used[p] \in Nat /\ used'[p] \in Nat
        /\ reported[p] \in Nat /\ stat.cpu \in Nat
    BY <1>3 DEF IInv, Typed, Stat
  <2>2. used[p] <= used'[p] /\ \/ proc'[p].cpu <= proc[p].cpu
                               \/ proc'[p].cpu - proc[p].cpu <= used'[p] - used[p]
    BY <1>3
  <2> DEFINE r == reported[p]  c == proc[p].cpu  d == proc'[p].cpu  w == stat.cpu
             u == used[p]  v == used'[p]
  <2>3. /\ r + Over(c, t) <= u => r + Over(d, t) <= v
        /\ r + Over(w, t) + Over(c, w) <= u => r + Over(w, t) + Over(d, w) <= v
    <3> HIDE DEF r, c, d, w, u, v
    <3>1. /\ r \in Nat /\ c \in Nat /\ d \in Nat /\ w \in Nat /\ u \in Nat /\ v \in Nat
          /\ u <= v /\ (d <= c \/ d - c <= v - u)
      BY <2>1, <2>2 DEF r, c, d, w, u, v
    <3> QED BY <3>1, SMTT(60) DEF Over
  <2>4. /\ t # 0 => /\ r + Over(d, t) <= v
                    /\ stat.of = p => r + Over(w, t) + Over(d, w) <= v
    BY <1>5, <2>3, ZenonT(60) DEF Accounted
  <2> QED BY <1>1, <2>4, ZenonT(60) DEF Accounted, Over
<1>6. ASSUME NEW p \in Pid \ tainted
      PROVE  Fair(p)'
  <2>1. /\ proc[p].cpu \in Nat /\ proc'[p].cpu \in Nat /\ used[p] \in Nat /\ used'[p] \in Nat
        /\ reported[p] \in Nat /\ stat.cpu \in Nat
    BY <1>3 DEF IInv, Typed, Stat
  <2>2. Fair(p)
    BY DEF IInv
  <2>3. /\ reported[p] <= used'[p]
        /\ stat.of = p => reported[p] + Over(proc'[p].cpu, stat.cpu) <= used'[p]
    <3>1. used[p] <= used'[p] /\ \/ proc'[p].cpu <= proc[p].cpu
                                 \/ proc'[p].cpu - proc[p].cpu <= used'[p] - used[p]
      BY <1>3
    <3> DEFINE r == reported[p]  c == proc[p].cpu  d == proc'[p].cpu  w == stat.cpu
               u == used[p]  v == used'[p]
    <3>2. r <= u /\ (stat.of = p => r + Over(c, w) <= u)
      BY <2>2 DEF Fair
    <3>3. /\ r \in Nat /\ c \in Nat /\ d \in Nat /\ w \in Nat /\ u \in Nat /\ v \in Nat
          /\ u <= v /\ (d <= c \/ d - c <= v - u)
      BY <2>1, <3>1
    <3> HIDE DEF r, c, d, w, u, v
    <3>4. r <= v /\ (stat.of = p => r + Over(d, w) <= v)
      BY <3>2, <3>3, SMTT(60) DEF Over
    <3> QED BY <3>4 DEF r, d, w, v
  <2>4. entry[p] # NULL => Accounted(p, entry[p].total)'
    BY <1>1, <1>5, <2>2 DEF Fair, IInv, Typed, Entry
  <2> QED BY <1>1, <2>3, <2>4 DEF Fair
<1>7. Pending'
  BY <1>1, <1>5 DEF IInv, Typed, Pending, Entry
<1>8. StatSound' /\ FaultsSound' /\ ServedStat'
  BY <1>1, <1>2 DEF IInv, StatSound, FaultsSound, ServedStat
<1> QED BY <1>1, <1>4, <1>6, <1>7, <1>8 DEF IInv

-----------------------------------------------------------------------------
(* The readers.                                                            *)

\* What a step that reads the stat file of p does: it is served from
\* last_proc_stat, reads the process, or fails and keeps what it held.
Read(p, out) ==
  /\ out \in proc_stat_read(p) /\ stat' = out[2] /\ Noted(p, out[1])
  /\ UNCHANGED <<now, stepped, real, proc, used>>

Hit(p, out) == StatHit(p) /\ out[1] = "OK" /\ stat' = stat /\ unread' = unread
Loaded(p, out) ==
  /\ out[1] = "OK" /\ ~unread'
  /\ stat' = [pid |-> p, mtime |-> Seconds, of |-> p, cpu |-> proc[p].cpu, at |-> real]
Failed(p, out) == out[1] # "OK" /\ unread' /\ stat' = Unread(p)

\* proc_stat_read has no other outcome.
LEMMA ReadCases ==
  ASSUME NEW p \in Pid, NEW out, Read(p, out)
  PROVE  Hit(p, out) \/ Loaded(p, out) \/ Failed(p, out)
<1>1. CASE StatHit(p)
  <2>1. out = <<"OK", stat>>
    BY <1>1 DEF Read, proc_stat_read
  <2> QED BY <1>1, <2>1 DEF Read, Noted, Hit
<1>2. CASE ~StatHit(p)
  <2>1. PICK status \in proc_file2str(p) :
          out = <<status, IF status = "OK"
                          THEN [pid |-> p, mtime |-> Seconds, of |-> p,
                                cpu |-> proc[p].cpu, at |-> real]
                          ELSE Unread(p)>>
    BY <1>2, ZenonT(60) DEF Read, proc_stat_read
  <2>2. out[1] = status /\ stat' = out[2] /\ unread' = (status # "OK")
    BY <1>2, <2>1 DEF Read, Noted
  <2> QED BY <2>1, <2>2, ZenonT(60) DEF Loaded, Failed
<1> QED BY <1>1, <1>2

\* After a read last_proc_stat is what StatSound says, and a read that succeeds
\* hands out recent data of the process asked for.
LEMMA ReadSound ==
  ASSUME IInv, NEW p \in Pid, NEW out, Read(p, out)
  PROVE  /\ stat' \in Stat /\ StatSound'
         /\ out[1] = "OK" => Recent(p, stat', real) \/ unread' \/ stepped
<1>0. /\ now \in Nat /\ real \in Nat /\ stat \in Stat /\ proc[p].cpu \in Nat
      /\ Seconds \in Nat /\ StatSound
      /\ UNCHANGED <<now, stepped, real>>
  <2>1. now \in Nat /\ real \in Nat /\ stat \in Stat /\ proc[p].cpu \in Nat /\ StatSound
    BY DEF IInv, Typed
  <2>2. Seconds \in Nat
    BY <2>1, DivFacts, StatAssumption DEF Seconds
  <2> QED BY <2>1, <2>2 DEF Read
<1>1. CASE Hit(p, out)
  <2>1. ASSUME ~unread, ~stepped PROVE Recent(p, stat, real)
    <3>1. stat.pid = p /\ p # NoPid /\ real \div Sec - stat.mtime < StatExpire
      BY <1>0, <1>1, <2>1, StatAssumption DEF Hit, StatHit, StatSound, Seconds
    <3>2. stat.of = p /\ stat.mtime = stat.at \div Sec /\ stat.at \in Nat
      BY <1>0, <2>1, <3>1 DEF StatSound, Stat
    <3> QED BY <1>0, <3>1, <3>2, SecondsApart, StatAssumption, ZenonT(60) DEF Recent
  <2>2. StatSound'
    BY <1>0, <1>1 DEF Hit, StatSound
  <2> QED BY <1>0, <1>1, <2>1, <2>2 DEF Hit
<1>2. CASE Loaded(p, out)
  <2>1. stat' \in Stat /\ stat'.of = p /\ stat'.pid = p /\ stat'.at = real
        /\ stat'.mtime = now \div Sec
    BY <1>0, <1>2 DEF Loaded, Stat, Seconds
  <2>2. StatSound'
    BY <1>0, <2>1 DEF StatSound
  <2>3. Recent(p, stat', real)
    <3>1. StatExpire * Sec > 0
      BY StatAssumption, SMTT(60)
    <3> QED BY <1>0, <2>1, <3>1, SMTT(60) DEF Recent
  <2> QED BY <2>1, <2>2, <2>3
<1>3. CASE Failed(p, out)
  <2>1. stat' \in Stat
    BY <1>0, <1>3, ZenonT(60) DEF Failed, Unread, Stat
  <2>2. StatSound'
    BY <1>0, <1>3 DEF Failed, StatSound
  <2> QED BY <1>3, <2>1, <2>2 DEF Failed
<1> QED BY <1>1, <1>2, <1>3, ReadCases

\* A read changes nothing in what may still be reported of any process: what it
\* puts into last_proc_stat is what a later read would find at the earliest.
LEMMA ReadAccounts ==
  ASSUME IInv, NEW p \in Pid, NEW out, Read(p, out),
         NEW q \in Pid, reported'[q] = reported[q], reported[q] <= used[q],
         stat.of = q => reported[q] + Over(proc[q].cpu, stat.cpu) <= used[q]
  PROVE  /\ reported'[q] <= used'[q]
         /\ stat'.of = q => reported'[q] + Over(proc'[q].cpu, stat'.cpu) <= used'[q]
         /\ \A t \in Nat : Accounted(q, t) => Accounted(q, t)'
<1>0. /\ UNCHANGED <<proc, used>> /\ reported[q] \in Nat /\ proc[q].cpu \in Nat /\ used[q] \in Nat
      /\ stat \in Stat
  BY DEF Read, IInv, Typed
<1>1. CASE Hit(p, out) \/ Failed(p, out)
  <2>1. stat'.of = stat.of /\ stat'.cpu = stat.cpu
    BY <1>0, <1>1, ZenonT(60) DEF Hit, Failed, Unread, Stat
  <2> QED BY <1>0, <2>1 DEF Accounted
<1>2. CASE Loaded(p, out)
  <2>1. stat'.of = p /\ stat'.cpu = proc[p].cpu
    BY <1>2 DEF Loaded
  <2>2. stat'.of = q => Over(proc[q].cpu, stat'.cpu) = 0
    BY <1>0, <2>1, SMTT(60) DEF Over
  <2>3. \A t \in Nat : Over(proc[q].cpu, t) \in Nat
    BY <1>0, SMTT(60) DEF Over
  <2> QED BY <1>0, <2>1, <2>2, <2>3, SMTT(60) DEF Accounted
<1> QED BY <1>1, <1>2, ReadCases

\* A call that only reads: sigar_proc_time_get and sigar_proc_state_get.
LEMMA StatGetKeeps == ASSUME IInv, NEW p \in Pid, ProcStatGet(p) PROVE IInv'
<1>1. PICK out \in proc_stat_read(p) :
        stat' = out[2] /\ res' = Reply("stat", p, out[1], out[2], 0, 1) /\ Noted(p, out[1])
  BY DEF ProcStatGet
<1>2. /\ call = NULL /\ Read(p, out)
      /\ UNCHANGED <<now, stepped, real, proc, used, entry, cleaned, reported, tainted, call>>
  BY <1>1 DEF ProcStatGet, Read, cpuVars
<1>3. /\ stat' \in Stat /\ StatSound'
      /\ out[1] = "OK" => Recent(p, stat', real) \/ unread' \/ stepped
  BY <1>2, ReadSound
<1>4. Typed'
  BY <1>2, <1>3 DEF IInv, Typed
<1>5. ASSUME NEW q \in Pid \ tainted PROVE Fair(q)'
  <2>1. Fair(q) /\ (entry[q] # NULL => entry[q].total \in Nat)
    BY DEF IInv, Typed, Entry
  <2> QED BY <1>2, <2>1, ReadAccounts DEF Fair
<1>6. Pending' /\ FaultsSound'
  BY <1>2 DEF Pending, FaultsSound
<1>7. ServedStat'
  <2>1. res'.status = out[1] /\ res'.of = stat'.of /\ res'.at = stat'.at /\ res'.pid = p
        /\ res'.time = real
    BY <1>1 DEF Reply
  <2> QED BY <1>2, <1>3, <2>1 DEF ServedStat, StatFresh, Recent
<1> QED BY <1>2, <1>3, <1>4, <1>5, <1>6, <1>7 DEF IInv

\* The first half of sigar_proc_mem_get.
LEMMA MemBeginKeeps == ASSUME IInv, NEW p \in Pid, ProcMemBegin(p) PROVE IInv'
<1>1. PICK out \in proc_stat_read(p) :
        /\ stat' = out[2] /\ Noted(p, out[1])
        /\ call' = [op |-> "mem", pid |-> p, time |-> real, faults |-> out[2]]
  BY DEF ProcMemBegin
<1>2. /\ Read(p, out) /\ res' = NULL
      /\ UNCHANGED <<now, stepped, real, proc, used, entry, cleaned, reported, tainted>>
  BY <1>1 DEF ProcMemBegin, Read, cpuVars
<1>3. /\ stat' \in Stat /\ StatSound'
      /\ out[1] = "OK" => Recent(p, stat', real) \/ unread' \/ stepped
  BY <1>2, ReadSound
<1>4. out[1] # "OK" => unread'
  BY <1>2, ReadCases DEF Hit, Loaded, Failed
<1>5. Typed'
  BY <1>1, <1>2, <1>3 DEF IInv, Typed
<1>6. ASSUME NEW q \in Pid \ tainted PROVE Fair(q)'
  <2>1. Fair(q) /\ (entry[q] # NULL => entry[q].total \in Nat)
    BY DEF IInv, Typed, Entry
  <2> QED BY <1>2, <2>1, ReadAccounts DEF Fair
<1>7. Pending' /\ ServedStat'
  BY <1>1, <1>2 DEF Pending, ServedStat
<1>8. FaultsSound'
  BY <1>1, <1>2, <1>3, <1>4 DEF FaultsSound
<1> QED BY <1>2, <1>3, <1>5, <1>6, <1>7, <1>8 DEF IInv

\* The second half, with the faults of the first.
LEMMA MemReadKeeps == ASSUME IInv, ProcMemRead PROVE IInv'
<1>1. PICK status \in proc_file2str(call.pid) :
        res' = [Reply("mem", call.pid, status, call.faults, 0, 1) EXCEPT !.time = call.time]
  BY DEF ProcMemRead
<1>2. /\ call # NULL /\ call.op = "mem" /\ call' = NULL
      /\ UNCHANGED <<now, stepped, real, proc, used, stat, entry, cleaned, reported, tainted,
                     unread>>
  BY DEF ProcMemRead, statVars, cpuVars
<1>3. Typed'
  BY <1>2 DEF IInv, Typed
<1>4. \A q \in Pid \ tainted : Fair(q)'
  BY <1>2 DEF IInv, Fair, Accounted
<1>5. Pending' /\ StatSound' /\ FaultsSound'
  BY <1>2 DEF IInv, Pending, StatSound, FaultsSound
<1>6. ServedStat'
  <2>1. res'.of = call.faults.of /\ res'.at = call.faults.at /\ res'.pid = call.pid
        /\ res'.time = call.time
    BY <1>1 DEF Reply
  <2> QED BY <1>2, <2>1 DEF IInv, FaultsSound, Recent, ServedStat, StatFresh
<1> QED BY <1>2, <1>3, <1>4, <1>5, <1>6 DEF IInv

-----------------------------------------------------------------------------
(* sigar_proc_cpu_get.                                                     *)

\* Up to the read: expired entries go, and a new one holds no total.
LEMMA CpuBeginKeeps == ASSUME IInv, NEW p \in Pid, ProcCpuBegin(p) PROVE IInv'
<1> DEFINE prev == IF Kept[p] = NULL THEN Zero ELSE Kept[p]
<1>1. /\ entry' = [Kept EXCEPT ![p] = Touched(prev)] /\ call = NULL
      /\ UNCHANGED <<now, stepped, real, proc, used, stat, reported, tainted, unread>>
      /\ \/ res'.cached /\ call' = NULL
         \/ res' = NULL /\ call'.op = "cpu" /\ call'.pid = p /\ call'.old = prev /\ call'.time = now
  BY SMTT(60) DEF ProcCpuBegin, statVars
<1>2. /\ now \in Nat /\ DOMAIN Kept = Pid
      /\ \A q \in Pid : Kept[q] # NULL => Kept[q] = entry[q] /\ entry[q] \in Entry
  BY DEF IInv, Typed, Kept
<1>3. prev \in Entry
  BY <1>2 DEF Zero, Entry
<1>4. Touched(prev) \in Entry /\ Touched(prev).total = prev.total
  BY <1>2, <1>3 DEF Touched, Entry
<1>5. /\ DOMAIN entry' = Pid /\ entry'[p] = Touched(prev)
      /\ \A q \in Pid \ {p} : entry'[q] = Kept[q]
  BY <1>1, <1>2
<1>6. prev.total # 0 => Kept[p] # NULL /\ entry[p] # NULL /\ prev.total = entry[p].total
  BY <1>2 DEF Zero
<1> HIDE DEF prev
<1>7. p \notin tainted => Accounted(p, prev.total)
  BY <1>6 DEF IInv, Fair, Accounted
<1>8. \A q \in Pid, t \in Nat : Accounted(q, t) => Accounted(q, t)'
  BY <1>1 DEF Accounted
<1>9. Typed'
  <2>1. \A q \in Pid : entry'[q] # NULL => entry'[q] \in Entry
    BY <1>2, <1>4, <1>5
  <2>2. call' # NULL => call'.pid \in Pid
    BY <1>1
  <2> QED BY <1>1, <1>5, <2>1, <2>2 DEF IInv, Typed
<1>10. ASSUME NEW q \in Pid \ tainted PROVE Fair(q)'
  <2>1. entry'[q] # NULL => entry'[q].total \in Nat /\ Accounted(q, entry'[q].total)
    <3>1. CASE q = p
      BY <1>3, <1>4, <1>5, <1>7, <3>1 DEF Entry
    <3>2. CASE q # p
      BY <1>2, <1>5, <3>2 DEF IInv, Fair, Entry
    <3> QED BY <3>1, <3>2
  <2>2. entry'[q] # NULL => Accounted(q, entry[q].total)'
    BY <1>8, <2>1
  <2> QED BY <1>1, <2>2 DEF IInv, Fair
<1>11. Pending'
  <2>1. p \notin tainted => Accounted(p, call.old.total)' \/ call' = NULL
    BY <1>1, <1>3, <1>7, <1>8 DEF Entry
  <2> QED BY <1>1, <1>2, <1>4, <1>5, <2>1 DEF Pending
<1>12. StatSound' /\ FaultsSound' /\ ServedStat'
  BY <1>1 DEF IInv, StatSound, FaultsSound, ServedStat
<1> QED BY <1>1, <1>9, <1>10, <1>11, <1>12 DEF IInv

\* total_diff is what the new total has over the old one, if there is an old one.
LEMMA TotalDiff ==
  ASSUME NEW a \in Nat, NEW b \in Nat
  PROVE  total_diff(a, b) = (IF b = 0 THEN 0 ELSE Over(a, b)) /\ total_diff(a, b) \in Nat
BY SMTT(60) DEF total_diff, Over

\* The rest, with what was read.
LEMMA CpuReadKeeps == ASSUME IInv, ProcCpuRead PROVE IInv'
<1> DEFINE old == call.old.total
<1>0. PICK p \in Pid : p = call.pid
  BY DEF ProcCpuRead, IInv, Typed
<1>1. PICK out \in proc_stat_read(p) :
        /\ stat' = out[2] /\ Noted(p, out[1])
        /\ \/ /\ out[1] = "OK"
              /\ entry' = [entry EXCEPT ![p] = Sampled(out[2])]
              /\ reported' = [reported EXCEPT ![p] = @ + total_diff(out[2].cpu, old)]
              /\ tainted' = IF out[2].of = p THEN tainted ELSE tainted \cup {p}
              /\ res' = [Reply("cpu", p, "OK", out[2], total_diff(out[2].cpu, old), call.diff)
                           EXCEPT !.sound = call.old.sound /\ Sound, !.delay = now - call.time]
           \/ /\ out[1] # "OK"
              /\ entry' = [entry EXCEPT ![p].sound = FALSE]
              /\ res' = Reply("cpu", p, out[1], out[2], 0, 1)
              /\ UNCHANGED <<reported, tainted>>
  BY <1>0, ZenonT(60) DEF ProcCpuRead
<1>2. /\ call # NULL /\ call.op = "cpu" /\ call' = NULL /\ Read(p, out)
      /\ UNCHANGED <<now, stepped, real, proc, used, cleaned>>
  BY <1>1 DEF ProcCpuRead, Read
<1>3. /\ stat' \in Stat /\ StatSound'
      /\ out[1] = "OK" => Recent(p, stat', real) \/ unread' \/ stepped
  BY <1>2, ReadSound
<1>4. /\ entry[p] \in Entry /\ entry[p].total = old /\ old \in Nat /\ call.time \in Nat
      /\ p \notin tainted => Accounted(p, old)
  BY <1>0, <1>2 DEF IInv, Pending, Entry
<1>5. Pending' /\ FaultsSound'
  BY <1>2 DEF Pending, FaultsSound
<1> HIDE DEF old
<1>6. CASE out[1] # "OK"
  <2>1. /\ entry' = [entry EXCEPT ![p].sound = FALSE] /\ UNCHANGED <<reported, tainted>>
        /\ res'.status = out[1]
    BY <1>1, <1>6, SMTT(60) DEF Reply
  <2>2. [entry[p] EXCEPT !.sound = FALSE] \in Entry /\ [entry[p] EXCEPT !.sound = FALSE].total = old
    BY <1>4, ZenonT(60) DEF Entry
  <2>3. /\ DOMAIN entry' = Pid /\ entry'[p] \in Entry /\ entry'[p].total = old
        /\ \A q \in Pid \ {p} : entry'[q] = entry[q]
    BY <1>2, <2>1, <2>2 DEF IInv, Typed
  <2>4. Typed'
    BY <1>2, <1>3, <2>1, <2>3 DEF IInv, Typed
  <2>5. ASSUME NEW q \in Pid \ tainted PROVE Fair(q)'
    <3>1. Fair(q)
      BY DEF IInv
    <3>2. /\ reported'[q] <= used'[q]
          /\ stat'.of = q => reported'[q] + Over(proc'[q].cpu, stat'.cpu) <= used'[q]
          /\ \A t \in Nat : Accounted(q, t) => Accounted(q, t)'
      BY <1>2, <2>1, <3>1, ReadAccounts DEF Fair
    <3>3. entry'[q] # NULL => entry'[q].total \in Nat /\ Accounted(q, entry'[q].total)
      <4>1. CASE q = p
        BY <1>4, <2>3, <4>1
      <4>2. CASE q # p
        BY <2>3, <3>1, <4>2 DEF IInv, Typed, Fair, Entry
      <4> QED BY <4>1, <4>2
    <3> QED BY <3>2, <3>3 DEF Fair
  <2>6. ServedStat'
    BY <1>6, <2>1 DEF ServedStat
  <2> QED BY <1>3, <1>5, <2>1, <2>4, <2>5, <2>6 DEF IInv
<1>7. CASE out[1] = "OK"
  <2> DEFINE n == total_diff(stat'.cpu, old)
  <2>1. /\ entry' = [entry EXCEPT ![p] = Sampled(stat')]
        /\ reported' = [reported EXCEPT ![p] = @ + n]
        /\ tainted' = IF stat'.of = p THEN tainted ELSE tainted \cup {p}
        /\ res'.of = stat'.of /\ res'.at = stat'.at /\ res'.pid = p /\ res'.time = real
    BY <1>1, <1>7, ZenonT(60) DEF Reply
  <2>2. Sampled(stat') \in Entry /\ Sampled(stat').total = stat'.cpu
    <3>1. Sound \in BOOLEAN
      BY DEF Sound
    <3> QED BY <1>3, <1>4, <3>1 DEF Sampled, Undefined, Entry, Stat
  <2>3. n \in Nat /\ n = (IF old = 0 THEN 0 ELSE Over(stat'.cpu, old)) /\ stat'.cpu \in Nat
    BY <1>3, <1>4, TotalDiff DEF Stat
  <2> HIDE DEF n
  <2>4. /\ DOMAIN entry' = Pid /\ entry'[p] = Sampled(stat')
        /\ \A q \in Pid \ {p} : entry'[q] = entry[q]
        /\ reported' \in [Pid -> Nat] /\ reported'[p] = reported[p] + n
        /\ \A q \in Pid \ {p} : reported'[q] = reported[q]
    BY <1>2, <2>1, <2>3, SMTT(60) DEF IInv, Typed
  <2>5. Typed'
    <3>1. \A q \in Pid : entry'[q] # NULL => entry'[q] \in Entry
      BY <2>2, <2>4 DEF IInv, Typed
    <3> QED BY <1>2, <1>3, <2>4, <3>1 DEF IInv, Typed
  <2>6. ASSUME NEW q \in Pid \ tainted', q # p PROVE Fair(q)'
    <3>1. Fair(q) /\ reported'[q] = reported[q] /\ entry'[q] = entry[q]
          /\ (entry[q] # NULL => entry[q].total \in Nat)
      BY <2>1, <2>4, <2>6 DEF IInv, Typed, Entry
    <3> QED BY <1>2, <3>1, ReadAccounts DEF Fair
  <2>7. ASSUME p \notin tainted' PROVE Fair(p)'
    <3>1. stat'.of = p /\ p \notin tainted /\ Fair(p) /\ Accounted(p, old)
      BY <1>2, <1>4, <2>1, <2>7 DEF IInv
    <3>2. reported[p] \in Nat /\ used[p] \in Nat /\ proc[p].cpu \in Nat /\ stat \in Stat
      BY <1>2 DEF IInv, Typed
    <3>3. reported[p] + n + Over(proc[p].cpu, stat'.cpu) <= used[p]
      <4>1. CASE stat' = stat
        <5>1. /\ reported[p] + Over(proc[p].cpu, stat.cpu) <= used[p]
              /\ old # 0 =>
                   reported[p] + Over(stat.cpu, old) + Over(proc[p].cpu, stat.cpu) <= used[p]
          BY <3>1, <4>1 DEF Fair, Accounted
        <5>2. Over(proc[p].cpu, stat.cpu) \in Nat
          BY <2>3, <3>2, <4>1, SMTT(60) DEF Over
        <5> QED BY <2>3, <3>2, <4>1, <5>1, <5>2, SMTT(60)
      <4>2. CASE stat'.cpu = proc[p].cpu
        <5>1. /\ reported[p] <= used[p]
              /\ old # 0 => reported[p] + Over(proc[p].cpu, old) <= used[p]
          BY <3>1 DEF Fair, Accounted
        <5>2. Over(proc[p].cpu, stat'.cpu) = 0
          BY <3>2, <4>2, SMTT(60) DEF Over
        <5> QED BY <2>3, <3>2, <4>2, <5>1, <5>2, SMTT(60)
      <4> QED BY <1>2, <1>7, <4>1, <4>2, ReadCases, SMTT(60) DEF Hit, Loaded, Failed
    <3>4. Over(proc[p].cpu, stat'.cpu) \in Nat /\ Over(stat'.cpu, stat'.cpu) = 0
      BY <2>3, <3>2, SMTT(60) DEF Over
    <3>5. /\ reported'[p] <= used[p] /\ reported'[p] + Over(proc[p].cpu, stat'.cpu) <= used[p]
          /\ reported'[p] + Over(stat'.cpu, stat'.cpu) + Over(proc[p].cpu, stat'.cpu) <= used[p]
      BY <2>3, <2>4, <3>2, <3>3, <3>4, SMTT(60)
    <3>6. entry'[p].total = stat'.cpu
      BY <2>2, <2>4
    <3> QED BY <1>2, <3>5, <3>6 DEF Fair, Accounted
  <2>8. ServedStat'
    BY <1>2, <1>3, <1>7, <2>1 DEF ServedStat, StatFresh, Recent
  <2>9. \A q \in Pid \ tainted' : Fair(q)'
    BY <2>6, <2>7
  <2> QED BY <1>3, <1>5, <2>5, <2>8, <2>9 DEF IInv
<1> QED BY <1>6, <1>7

-----------------------------------------------------------------------------
(* The theorems.                                                           *)

\* Every step keeps the invariant.
LEMMA NextKeeps == IInv /\ [Next]_vars => IInv'
<1> SUFFICES ASSUME IInv, [Next]_vars PROVE IInv'
  OBVIOUS
<1>1. CASE UNCHANGED vars
  <2>1. UNCHANGED <<now, stepped, real, proc, used, stat, entry, cleaned, reported, tainted,
                    call, res, unread>>
    BY <1>1 DEF vars, statVars, cpuVars
  <2>2. Typed' /\ Pending' /\ \A p \in Pid \ tainted' : Fair(p)'
    BY <2>1, ZenonT(60) DEF IInv, Typed, Pending, Fair, Accounted
  <2>3. StatSound' /\ FaultsSound' /\ ServedStat'
    BY <2>1, ZenonT(60) DEF IInv, StatSound, FaultsSound, ServedStat, StatFresh
  <2> QED BY <2>2, <2>3 DEF IInv
<1>2. CASE Next
  <2>1. Watched \subseteq Pid
    BY CpuAssumption
  <2> QED BY <1>2, <2>1, KernelKeeps, CpuBeginKeeps, MemBeginKeeps, StatGetKeeps, CpuReadKeeps,
             MemReadKeeps DEF Next
<1> QED BY <1>1, <1>2

\* Whose data are where, and what may still be reported, in every state.
LEMMA IInvHolds == Spec => []IInv
<1> QED BY InitStep, NextKeeps, PTL DEF Spec

\* For every number of processes, uses of a pid, instants and cache periods, no
\* CPU time is reported twice by sigar_proc_cpu_get, of a pid none of whose
\* replies used another process's data.
THEOREM NoDoubleCountHolds == Spec => []NoDoubleCount
<1>1. IInv => NoDoubleCount
  BY DEF IInv, Fair, NoDoubleCount
<1> QED BY <1>1, IInvHolds, PTL

\* For every number of processes, instants and length of a second, a reply is
\* of the process asked for and less than StatExpire seconds old, unless the last
\* read of a stat file failed or the clock was set back.
THEOREM ServedStatHolds == Spec => []ServedStat
<1>1. IInv => ServedStat
  BY DEF IInv
<1> QED BY <1>1, IInvHolds, PTL

-----------------------------------------------------------------------------
(* The CPU share of one reply is bounded: by the invariant above, and by   *)
(* how fast a total can grow.                                              *)

\* A process does not use more than the time that passes: since t was read of p
\* at a, by it and by what is in last_proc_stat, which was read no earlier.
Paced(p, t, a) ==
  /\ a <= real /\ proc[p].cpu <= t + (real - a)
  /\ stat.of = p => a <= stat.at /\ stat.cpu <= t + (stat.at - a)

\* The total of an entry is not much older than its time.
Timely(p, e) == Paced(p, e.total, e.at) /\ e.last_time - e.at < StatExpire * Sec

Waiting(p) == call # NULL /\ call.op = "cpu" /\ call.pid = p

\* The invariant behind SpikeBounded.
Pace ==
  /\ now <= real /\ real <= MaxNow
  /\ \A p \in Pid : stat.of = p =>
       stat.at <= real /\ proc[p].cpu <= stat.cpu + (real - stat.at)
  /\ ~stepped => \A p \in Pid : entry[p] # NULL =>
       /\ entry[p].last_time <= now
       /\ entry[p].sound /\ ~Waiting(p) => Timely(p, entry[p])
  /\ ~stepped => \A p \in Pid : Waiting(p) =>
       /\ call.old \in Entry /\ call.time \in Nat /\ call.time <= now
       /\ call.old.last_time <= call.time /\ call.diff = call.time - call.old.last_time
       /\ call.old.sound => Timely(p, call.old)
  /\ SpikeBounded

-----------------------------------------------------------------------------
(* How fast totals grow.                                                   *)

\* What is used in Pace has its type.
LEMMA PaceTypes ==
  ASSUME IInv, NEW p \in Pid
  PROVE  /\ now \in Nat /\ real \in Nat /\ proc[p].cpu \in Nat
         /\ stat.cpu \in Nat /\ stat.at \in Nat
         /\ entry[p] # NULL => /\ entry[p].last_time \in Nat /\ entry[p].total \in Nat
                               /\ entry[p].at \in Nat
BY DEF IInv, Typed, Stat, Entry

\* Nothing was read yet.
LEMMA PaceInit == Init => Pace
<1> SUFFICES ASSUME Init PROVE Pace
  OBVIOUS
<1>1. /\ now = 1 /\ real = 1 /\ call = NULL /\ res = NULL /\ stat.of = NoPid
      /\ entry = [p \in Pid |-> NULL]
  BY DEF Init, StatInit
<1>2. SpikeBounded
  BY <1>1 DEF SpikeBounded
<1> QED BY <1>1, <1>2, StatAssumption, SMTT(60) DEF Pace, Waiting

\* A process runs at most for the time that passes.
LEMMA KernelPace == ASSUME IInv, Pace, KernelStep PROVE Pace'
<1>1. UNCHANGED <<stat, entry, cleaned, reported, tainted, call, unread>> /\ res' = NULL
  BY DEF KernelStep, Kernel, Tick, SetBack, Exit, Spawn, cpuVars
<1>2. /\ now' \in Nat /\ real' \in Nat /\ real <= real' /\ real' <= MaxNow /\ now' <= real'
      /\ ~stepped' => ~stepped /\ now <= now'
  BY StatAssumption, SMTT(60) DEF IInv, Typed, Pace, KernelStep, Kernel, Tick, SetBack, Exit, Spawn
<1>3. ASSUME NEW p \in Pid
      PROVE  proc'[p].cpu \in Nat /\ proc'[p].cpu <= proc[p].cpu + (real' - real)
  <2>0. /\ proc \in [Pid -> [live : BOOLEAN, inc : Nat, cpu : Nat]] /\ real \in Nat
        /\ Active \subseteq Pid
    BY StatAssumption DEF IInv, Typed
  <2>1. CASE Tick
    BY <2>0, <2>1, SMTT(60) DEF Tick
  <2>2. CASE SetBack
    BY <2>0, <2>2, SMTT(60) DEF SetBack
  <2>3. ASSUME NEW q \in Active, Exit(q)
        PROVE  proc'[p].cpu \in Nat /\ proc'[p].cpu <= proc[p].cpu + (real' - real)
    BY <2>0, <2>3, SMTT(60) DEF Exit
  <2>4. ASSUME NEW q \in Active, Spawn(q)
        PROVE  proc'[p].cpu \in Nat /\ proc'[p].cpu <= proc[p].cpu + (real' - real)
    BY <2>0, <2>4, SMTT(60) DEF Spawn
  <2> QED BY <2>1, <2>2, <2>3, <2>4 DEF KernelStep, Kernel
<1>4. ASSUME NEW p \in Pid, NEW t \in Nat, NEW b \in Nat,
             b <= real, proc[p].cpu <= t + (real - b)
      PROVE  b <= real' /\ proc'[p].cpu <= t + (real' - b)
  BY <1>2, <1>3, <1>4, PaceTypes, SMTT(60)
<1>5. ASSUME NEW p \in Pid, NEW t \in Nat, NEW b \in Nat, Paced(p, t, b)
      PROVE  Paced(p, t, b)'
  BY <1>1, <1>4, <1>5 DEF Paced
<1>6. \A p \in Pid : stat'.of = p =>
        stat'.at <= real' /\ proc'[p].cpu <= stat'.cpu + (real' - stat'.at)
  BY <1>1, <1>4, PaceTypes DEF Pace
<1>7. ASSUME ~stepped', NEW p \in Pid, entry'[p] # NULL
      PROVE  /\ entry'[p].last_time <= now'
             /\ entry'[p].sound /\ ~Waiting(p)' => Timely(p, entry[p])'
  BY <1>1, <1>2, <1>5, <1>7, PaceTypes, SMTT(60) DEF Pace, Timely, Waiting
<1>8. ASSUME ~stepped', NEW p \in Pid, Waiting(p)'
      PROVE  /\ call'.old \in Entry /\ call'.time \in Nat /\ call'.time <= now'
             /\ call'.old.last_time <= call'.time /\ call'.diff = call'.time - call'.old.last_time
             /\ call'.old.sound => Timely(p, call.old)'
  <2>1. /\ call.old \in Entry /\ call.time \in Nat /\ call.time <= now
        /\ call.old.last_time <= call.time /\ call.diff = call.time - call.old.last_time
        /\ call.old.sound => Timely(p, call.old)
    BY <1>1, <1>2, <1>8 DEF Pace, Waiting
  <2>2. call.old.sound => Timely(p, call.old)'
    BY <1>1, <1>5, <2>1 DEF Timely, Entry
  <2>3. call' = call /\ call.time <= now'
    BY <1>1, <1>2, <1>8, <2>1, PaceTypes, SMTT(60)
  <2> QED BY <2>1, <2>2, <2>3, ZenonT(60)
<1>9. SpikeBounded'
  BY <1>1 DEF SpikeBounded
<1> QED BY <1>2, <1>6, <1>7, <1>8, <1>9 DEF Pace

\* A read puts the newest data there are into last_proc_stat, or leaves it.
LEMMA ReadPace ==
  ASSUME IInv, Pace, NEW p \in Pid, NEW out, Read(p, out), NEW q \in Pid
  PROVE  /\ stat'.of = q => stat'.at <= real' /\ proc'[q].cpu <= stat'.cpu + (real' - stat'.at)
         /\ \A t, b \in Nat : Paced(q, t, b) => Paced(q, t, b)'
<1>0. UNCHANGED <<proc, real>> /\ stat \in Stat /\ real \in Nat /\ proc[q].cpu \in Nat
  BY DEF Read, IInv, Typed
<1>1. CASE Hit(p, out) \/ Failed(p, out)
  <2>1. stat'.of = stat.of /\ stat'.cpu = stat.cpu /\ stat'.at = stat.at
    BY <1>0, <1>1, ZenonT(60) DEF Hit, Failed, Unread, Stat
  <2> QED BY <1>0, <2>1 DEF Paced, Pace
<1>2. CASE Loaded(p, out)
  <2>1. stat'.of = p /\ stat'.cpu = proc[p].cpu /\ stat'.at = real
    BY <1>2 DEF Loaded
  <2> QED BY <1>0, <2>1, SMTT(60) DEF Paced
<1> QED BY <1>1, <1>2, ReadCases

\* Entries stay timely through a call that is not for a CPU share.
LEMMA OtherPace ==
  ASSUME IInv, Pace, UNCHANGED <<now, stepped, real, entry>>,
         \A q \in Pid : ~Waiting(q) /\ ~Waiting(q)',
         \A q \in Pid :
           /\ stat'.of = q => stat'.at <= real' /\ proc'[q].cpu <= stat'.cpu + (real' - stat'.at)
           /\ \A t, b \in Nat : Paced(q, t, b) => Paced(q, t, b)',
         SpikeBounded'
  PROVE  Pace'
<1>1. ASSUME ~stepped', NEW p \in Pid, entry'[p] # NULL
      PROVE  /\ entry'[p].last_time <= now'
             /\ entry'[p].sound /\ ~Waiting(p)' => Timely(p, entry[p])'
  <2>1. entry[p].last_time <= now /\ (entry[p].sound => Timely(p, entry[p]))
    BY <1>1 DEF Pace
  <2>2. entry[p].total \in Nat /\ entry[p].at \in Nat
    BY <1>1, PaceTypes
  <2>3. entry[p].sound => Timely(p, entry[p])'
    BY <2>1, <2>2 DEF Timely
  <2> QED BY <2>1, <2>3
<1> QED BY <1>1 DEF Pace

\* sigar_proc_time_get and sigar_proc_state_get only read.
LEMMA StatGetPace == ASSUME IInv, Pace, NEW p \in Pid, ProcStatGet(p) PROVE Pace'
<1>1. PICK out \in proc_stat_read(p) :
        stat' = out[2] /\ res' = Reply("stat", p, out[1], out[2], 0, 1) /\ Noted(p, out[1])
  BY DEF ProcStatGet
<1>2. Read(p, out) /\ call = NULL /\ UNCHANGED <<now, stepped, real, entry, call>>
  BY <1>1 DEF ProcStatGet, Read, cpuVars
<1>3. SpikeBounded'
  BY <1>1 DEF SpikeBounded, Reply
<1>4. \A q \in Pid : ~Waiting(q) /\ ~Waiting(q)'
  BY <1>2 DEF Waiting
<1> QED BY <1>2, <1>3, <1>4, OtherPace, ReadPace

\* So does sigar_proc_mem_get, up to the sizes.
LEMMA MemBeginPace == ASSUME IInv, Pace, NEW p \in Pid, ProcMemBegin(p) PROVE Pace'
<1>1. PICK out \in proc_stat_read(p) :
        /\ stat' = out[2] /\ Noted(p, out[1])
        /\ call' = [op |-> "mem", pid |-> p, time |-> real, faults |-> out[2]]
  BY DEF ProcMemBegin
<1>2. Read(p, out) /\ res' = NULL /\ call = NULL /\ UNCHANGED <<now, stepped, real, entry>>
  BY <1>1 DEF ProcMemBegin, Read, cpuVars
<1>3. SpikeBounded'
  BY <1>2 DEF SpikeBounded
<1>4. \A q \in Pid : ~Waiting(q) /\ ~Waiting(q)'
  BY <1>1, <1>2 DEF Waiting
<1> QED BY <1>2, <1>3, <1>4, OtherPace, ReadPace

\* The sizes come from another file.
LEMMA MemReadPace == ASSUME IInv, Pace, ProcMemRead PROVE Pace'
<1>1. PICK status \in proc_file2str(call.pid) :
        res' = [Reply("mem", call.pid, status, call.faults, 0, 1) EXCEPT !.time = call.time]
  BY DEF ProcMemRead
<1>2. call.op = "mem" /\ call' = NULL /\ UNCHANGED <<now, stepped, real, proc, stat, entry>>
  BY DEF ProcMemRead, statVars, cpuVars
<1>3. SpikeBounded'
  BY <1>1 DEF SpikeBounded, Reply
<1>4. \A q \in Pid : ~Waiting(q) /\ ~Waiting(q)'
  BY <1>2 DEF Waiting
<1>5. \A q \in Pid :
        /\ stat'.of = q => stat'.at <= real' /\ proc'[q].cpu <= stat'.cpu + (real' - stat'.at)
        /\ \A t, b \in Nat : Paced(q, t, b) => Paced(q, t, b)'
  BY <1>2 DEF Pace, Paced
<1> QED BY <1>2, <1>3, <1>4, <1>5, OtherPace

\* An unsigned difference of times in order is the difference.
LEMMA ElapsedInOrder ==
  ASSUME NEW t \in Nat, NEW t0 \in Nat
  PROVE  /\ Elapsed(t, t0) \in Nat
         /\ t0 <= t /\ t <= MaxNow => Elapsed(t, t0) = t - t0
BY StatAssumption, CpuAssumption, SMTT(60) DEF Elapsed

\* The interval starts at the time of the entry; a call in the same instant
\* leaves the entry as it was.
LEMMA CpuBeginPace == ASSUME IInv, Pace, NEW p \in Pid, ProcCpuBegin(p) PROVE Pace'
<1>0. PICK prev, diff : /\ prev = (IF Kept[p] = NULL THEN Zero ELSE Kept[p])
                        /\ diff = Elapsed(now, prev.last_time)
  OBVIOUS
<1>1. /\ entry' = [Kept EXCEPT ![p] = Touched(prev)] /\ call = NULL
      /\ UNCHANGED <<now, stepped, real, proc, used, stat, reported, tainted, unread>>
      /\ \/ diff = 0 /\ ~res'.sound /\ call' = NULL
         \/ /\ diff # 0 /\ res' = NULL
            /\ call' = [op |-> "cpu", pid |-> p, time |-> now, diff |-> diff, old |-> prev]
  BY <1>0, SMTT(60) DEF ProcCpuBegin, statVars
<1>2. /\ now \in Nat /\ DOMAIN Kept = Pid
      /\ \A q \in Pid : Kept[q] # NULL => Kept[q] = entry[q] /\ entry[q] \in Entry
  BY DEF IInv, Typed, Kept
<1>3. prev \in Entry /\ (prev.sound => Kept[p] # NULL /\ prev = entry[p])
      /\ (Kept[p] = NULL => prev.last_time = 0)
  BY <1>0, <1>2 DEF Zero, Entry
<1>4. /\ entry'[p].last_time = now /\ entry'[p].total = prev.total /\ entry'[p].at = prev.at
      /\ entry'[p].sound = prev.sound
      /\ \A q \in Pid \ {p} : entry'[q] = Kept[q]
  BY <1>1, <1>2, <1>3 DEF Touched, Entry
<1>5. ~stepped => prev.last_time <= now /\ diff = now - prev.last_time
  <2>1. prev.last_time \in Nat /\ now <= MaxNow
    BY <1>2, <1>3, StatAssumption, SMTT(60) DEF Pace, Entry, IInv, Typed
  <2>2. ~stepped => prev.last_time <= now
    BY <1>0, <1>2, <1>3, <2>1, SMTT(60) DEF Pace
  <2>3. prev.last_time <= now => Elapsed(now, prev.last_time) = now - prev.last_time
    BY <1>2, <2>1, ElapsedInOrder, ZenonT(60)
  <2> QED BY <1>0, <2>2, <2>3
<1>6. ~stepped /\ prev.sound => Timely(p, prev)
  BY <1>1, <1>2, <1>3 DEF Pace, Waiting
<1>7. diff \in Nat
  BY <1>0, <1>2, <1>3, ElapsedInOrder, ZenonT(60) DEF Entry
<1>8. \A q \in Pid, t, b \in Nat : Paced(q, t, b) => Paced(q, t, b)'
  BY <1>1 DEF Paced
<1>9. diff # 0 => Waiting(p)'
  <2>1. ASSUME diff # 0 PROVE call' \in CpuCall /\ call'.op = "cpu" /\ call'.pid = p
    BY <1>1, <1>2, <1>3, <1>7, <2>1, SMTT(60) DEF CpuCall
  <2> QED BY <2>1, NullAssumption DEF Waiting
<1>10. ASSUME ~stepped', NEW q \in Pid, entry'[q] # NULL
       PROVE  /\ entry'[q].last_time <= now'
              /\ entry'[q].sound /\ ~Waiting(q)' => Timely(q, entry[q])'
  <2>1. CASE q = p
    <3>1. entry'[q].last_time <= now'
      BY <1>1, <1>2, <1>4, <2>1, SMTT(60)
    <3>2. ASSUME entry'[q].sound, ~Waiting(q)' PROVE Timely(q, entry[q])'
      <4>1. diff = 0 /\ prev.sound /\ ~stepped
        BY <1>1, <1>4, <1>9, <1>10, <2>1, <3>2
      <4>2. prev.last_time = now /\ Timely(p, prev)
        BY <1>2, <1>3, <1>5, <1>6, <4>1, SMTT(60) DEF Entry
      <4>3. Paced(p, prev.total, prev.at)' /\ prev.total \in Nat /\ prev.at \in Nat
        BY <1>3, <1>8, <4>2 DEF Timely, Entry
      <4> QED BY <1>1, <1>4, <2>1, <4>2, <4>3 DEF Timely, Paced
    <3> QED BY <3>1, <3>2
  <2>2. CASE q # p
    <3>1. entry'[q] = entry[q] /\ entry[q] # NULL /\ ~Waiting(q)
      BY <1>1, <1>2, <1>4, <1>10, <2>2 DEF Waiting
    <3>2. entry[q].last_time <= now /\ (entry[q].sound => Timely(q, entry[q]))
      BY <1>1, <1>10, <3>1 DEF Pace
    <3>3. entry[q].sound => Timely(q, entry[q])'
      BY <1>8, <3>1, <3>2, PaceTypes DEF Timely
    <3> QED BY <1>1, <3>1, <3>2, <3>3
  <2> QED BY <2>1, <2>2
<1>11. ASSUME ~stepped', NEW q \in Pid, Waiting(q)'
       PROVE  /\ call'.old \in Entry /\ call'.time \in Nat /\ call'.time <= now'
              /\ call'.old.last_time <= call'.time /\ call'.diff = call'.time - call'.old.last_time
              /\ call'.old.sound => Timely(q, call.old)'
  <2>1. /\ call'.pid = p /\ call'.time = now /\ call'.diff = diff /\ call'.old = prev /\ q = p
    BY <1>1, <1>11, SMTT(60) DEF Waiting
  <2>2. prev.sound => Timely(p, prev) /\ Paced(p, prev.total, prev.at)'
    BY <1>1, <1>3, <1>6, <1>8, <1>11 DEF Timely, Entry
  <2>3. prev.sound => Timely(q, call.old)'
    BY <2>1, <2>2 DEF Timely, Paced
  <2> QED BY <1>1, <1>2, <1>3, <1>5, <1>11, <2>1, <2>3, SMTT(60)
<1>12. SpikeBounded'
  BY <1>1 DEF SpikeBounded
<1>13. /\ now' <= real' /\ real' <= MaxNow
       /\ \A q \in Pid : stat'.of = q =>
            stat'.at <= real' /\ proc'[q].cpu <= stat'.cpu + (real' - stat'.at)
  BY <1>1 DEF Pace
<1> QED BY <1>10, <1>11, <1>12, <1>13 DEF Pace

\* The CPU time of a reply was used between two reads: the one of the entry,
\* made not long before the entry's time, and one no later than now.
LEMMA CpuReadPace == ASSUME IInv, Pace, ProcCpuRead PROVE Pace'
<1>p. PICK p \in Pid : p = call.pid
  BY DEF ProcCpuRead, IInv, Typed
<1>0. PICK old, time, diff :
        p = call.pid /\ old = call.old /\ time = call.time /\ diff = call.diff
  BY <1>p
<1>1. PICK out \in proc_stat_read(p) :
        /\ stat' = out[2] /\ Noted(p, out[1])
        /\ \/ /\ out[1] = "OK"
              /\ entry' = [entry EXCEPT ![p] = Sampled(out[2])]
              /\ res' = [Reply("cpu", p, "OK", out[2], total_diff(out[2].cpu, old.total), diff)
                           EXCEPT !.sound = old.sound /\ Sound, !.delay = now - time]
           \/ /\ out[1] # "OK"
              /\ entry' = [entry EXCEPT ![p].sound = FALSE]
              /\ res' = Reply("cpu", p, out[1], out[2], 0, 1)
  BY <1>0, ZenonT(60) DEF ProcCpuRead
<1>2. /\ call # NULL /\ call.op = "cpu" /\ call' = NULL /\ Read(p, out) /\ Waiting(p)
      /\ UNCHANGED <<now, stepped, real, proc, used, cleaned>>
  BY <1>0, <1>1 DEF ProcCpuRead, Read, Waiting
<1>3. /\ entry[p] \in Entry /\ entry[p] # NULL /\ DOMAIN entry = Pid
      /\ \A q \in Pid : entry[q] # NULL => entry[q] \in Entry
      /\ now \in Nat /\ real \in Nat /\ proc[p].cpu \in Nat /\ (~stepped => now = real)
  BY <1>0, <1>2, NullAssumption DEF IInv, Typed, Pending, StatSound
<1>4. /\ stat' \in Stat /\ stat'.cpu \in Nat /\ stat'.at \in Nat
      /\ out[1] = "OK" => Recent(p, stat', real) \/ unread' \/ stepped
  BY <1>2, ReadSound DEF Stat
<1>5. ASSUME ~stepped
      PROVE  /\ old \in Entry /\ old.total \in Nat /\ old.at \in Nat /\ old.last_time \in Nat
             /\ time \in Nat /\ time <= now /\ old.last_time <= time /\ diff = time - old.last_time
             /\ old.sound => Timely(p, old)
             /\ entry[p].last_time <= now
  BY <1>0, <1>2, <1>3, <1>5 DEF Pace, Entry
<1>6. \A q \in Pid : /\ stat'.of = q =>
                          stat'.at <= real' /\ proc'[q].cpu <= stat'.cpu + (real' - stat'.at)
                     /\ \A t, b \in Nat : Paced(q, t, b) => Paced(q, t, b)'
  BY <1>2, ReadPace
<1>7. ASSUME ~stepped, NEW q \in Pid \ {p}, entry'[q] # NULL
      PROVE  entry'[q].last_time <= now /\ (entry'[q].sound => Timely(q, entry[q])')
  <2>1. entry'[q] = entry[q]
    BY <1>1, <1>3
  <2>2. ~Waiting(q) /\ entry[q].total \in Nat /\ entry[q].at \in Nat
    BY <1>0, <1>7, <2>1, PaceTypes DEF Waiting
  <2>3. entry[q].last_time <= now /\ (entry[q].sound => Timely(q, entry[q]))
    BY <1>7, <2>1, <2>2 DEF Pace
  <2>4. entry[q].sound => Timely(q, entry[q])'
    BY <1>6, <2>1, <2>2, <2>3 DEF Timely
  <2> QED BY <2>1, <2>3, <2>4
<1>8. /\ now' <= real' /\ real' <= MaxNow /\ \A q \in Pid : ~Waiting(q)'
  BY <1>2 DEF Pace, Waiting
<1>9. SUFFICES /\ ~stepped /\ entry'[p] # NULL =>
                    entry'[p].last_time <= now /\ (entry'[p].sound => Timely(p, entry[p])')
               /\ SpikeBounded'
  <2> SUFFICES ASSUME ~stepped /\ entry'[p] # NULL =>
                        entry'[p].last_time <= now /\ (entry'[p].sound => Timely(p, entry[p])'),
                      SpikeBounded'
               PROVE  Pace'
    OBVIOUS
  <2>1. ~stepped' => \A q \in Pid : entry'[q] # NULL =>
          entry'[q].last_time <= now' /\ (entry'[q].sound => Timely(q, entry[q])')
    BY <1>2, <1>7
  <2> QED BY <1>6, <1>8, <2>1 DEF Pace
<1>10. CASE out[1] # "OK"
  <2>1. entry'[p].last_time = entry[p].last_time /\ ~entry'[p].sound
    BY <1>1, <1>3, <1>10 DEF Entry
  <2>2. ~res'.sound
    BY <1>1, <1>10, SMTT(60) DEF Reply
  <2>3. SpikeBounded'
    BY <2>2 DEF SpikeBounded
  <2> QED BY <1>5, <2>1, <2>3
<1>11. CASE out[1] = "OK"
  <2> DEFINE es == StatExpire * Sec
             n == total_diff(stat'.cpu, old.total)
  <2>0. es \in Nat /\ es >= 1
    BY StatAssumption, SMTT(60)
  <2>1. /\ entry'[p].last_time = time /\ entry'[p].total = stat'.cpu /\ entry'[p].at = stat'.at
        /\ entry'[p].sound = Sound
    BY <1>0, <1>1, <1>3, <1>11, SMTT(60) DEF Sampled
  <2>2. /\ res'.sound = (old.sound /\ Sound) /\ res'.delay = now - time
        /\ res'.percent = <<n, diff>>
    BY <1>1, <1>11, ZenonT(60) DEF Reply
  <2>3. Sound => ~unread'
    BY <1>0, <1>2, <1>11, ReadCases DEF Sound, Hit, Loaded, Failed
  <2>4. ASSUME ~stepped, Sound
        PROVE  stat'.of = p /\ real - stat'.at < es /\ stat'.at <= real
               /\ proc[p].cpu <= stat'.cpu + (real - stat'.at)
    BY <1>2, <1>4, <1>6, <1>11, <2>3, <2>4 DEF Recent
  <2> HIDE DEF es, n
  <2>5. ASSUME ~stepped, Sound
        PROVE  Timely(p, entry[p])'
    <3>1. time - stat'.at < es
      BY <1>3, <1>4, <1>5, <2>0, <2>4, <2>5, SMTT(60)
    <3>2. Paced(p, entry[p].total, entry[p].at)'
      <4>1. entry'[p].total = stat'.cpu /\ entry'[p].at = stat'.at /\ real' = real /\ proc' = proc
        BY <1>2, <2>1, ZenonT(60)
      <4>2. stat'.at <= real /\ proc[p].cpu <= stat'.cpu + (real - stat'.at)
        BY <2>4, <2>5, ZenonT(60)
      <4>3. stat'.at <= stat'.at /\ stat'.cpu <= stat'.cpu + (stat'.at - stat'.at)
        BY <1>4, SMTT(60)
      <4> QED BY <4>1, <4>2, <4>3, ZenonT(60) DEF Paced
    <3> QED BY <2>1, <3>1, <3>2 DEF Timely, es
  <2>6. ASSUME ~stepped, old.sound, Sound
        PROVE  n <= diff + es - 1 + (now - time)
    <3>1. /\ old.at \in Nat /\ old.total \in Nat /\ old.last_time \in Nat /\ time \in Nat
          /\ time <= now /\ old.last_time <= time /\ diff = time - old.last_time
          /\ Paced(p, old.total, old.at) /\ old.last_time - old.at < es
      BY <1>5, <2>6 DEF Timely, es
    <3>2. old.at <= stat'.at /\ stat'.cpu <= old.total + (stat'.at - old.at)
      BY <1>6, <2>4, <2>6, <3>1 DEF Paced
    <3>3. n = 0 \/ n = stat'.cpu - old.total
      BY DEF total_diff, n
    <3>4. now = real /\ stat'.at <= real
      BY <1>3, <2>4, <2>6
    <3> QED BY <1>3, <1>4, <2>0, <3>1, <3>2, <3>3, <3>4, SMTT(60)
  <2>7. SpikeBounded'
    <3> SUFFICES ASSUME res'.sound, ~stepped'
                 PROVE  res'.percent[1] <= res'.percent[2] + StatExpire * Sec - 1 + res'.delay
      BY DEF SpikeBounded
    <3>1. old.sound /\ Sound /\ ~stepped
      BY <1>2, <2>2, ZenonT(60)
    <3>2. n <= diff + es - 1 + (now - time)
      BY <2>6, <3>1
    <3>3. res'.percent[1] = n /\ res'.percent[2] = diff /\ res'.delay = now - time
      BY <2>2, SMTT(60)
    <3> QED BY <3>2, <3>3 DEF es
  <2> QED BY <1>5, <2>1, <2>5, <2>7
<1> QED BY <1>10, <1>11

-----------------------------------------------------------------------------
(* The theorem.                                                            *)

\* Every step keeps the pace.
LEMMA NextPace == IInv /\ Pace /\ [Next]_vars => Pace'
<1> SUFFICES ASSUME IInv, Pace, [Next]_vars PROVE Pace'
  OBVIOUS
<1>1. CASE UNCHANGED vars
  <2>1. UNCHANGED <<now, stepped, real, proc, used, stat, entry, cleaned, reported, tainted,
                    call, res, unread>>
    BY <1>1 DEF vars, statVars, cpuVars
  <2> QED BY <2>1 DEF Pace, Timely, Paced, Waiting, SpikeBounded
<1>2. CASE Next
  <2>1. Watched \subseteq Pid
    BY CpuAssumption
  <2> QED BY <1>2, <2>1, KernelPace, CpuBeginPace, MemBeginPace, StatGetPace, CpuReadPace,
             MemReadPace DEF Next
<1> QED BY <1>1, <1>2

\* For every number of processes, instants, length of a second and cache
\* periods: until the clock is set back, the CPU time of a reply of
\* sigar_proc_cpu_get that rests on two good reads was used in the interval it is
\* divided by, in the StatExpire seconds before it, or while the call was running.
THEOREM SpikeBoundedHolds == Spec => []SpikeBounded
<1>1. Pace => SpikeBounded
  BY DEF Pace
<1>2. Spec => []Pace
  BY PaceInit, NextPace, IInvHolds, PTL DEF Spec
<1> QED BY <1>1, <1>2, PTL
-----------------------------------------------------------------------------
(* Types and times.                                                        *)

\* The invariant behind TypeOK: a total is bounded by the time that passed, and
\* the time of a call by the last instant.
Bounded ==
  /\ TypeOK
  /\ \A p \in Pid : proc[p].cpu <= real
  /\ stat.cpu <= MaxNow
  /\ call # NULL /\ call.op = "cpu" => call.time \in 1..MaxNow

\* Whole seconds do not go back while the clock does not.
LEMMA SecondsMono ==
  ASSUME NEW a \in Nat, NEW b \in Nat, a <= b
  PROVE  a \div Sec \in Nat /\ b \div Sec \in Nat /\ a \div Sec <= b \div Sec
<1> DEFINE x == a \div Sec
           y == b \div Sec
<1>0. Sec \in Nat \ {0}
  BY StatAssumption
<1>1. x \in Nat /\ y \in Nat /\ x * Sec <= a /\ b < (y + 1) * Sec
  BY <1>0, DivFacts, ZenonT(60)
<1> HIDE DEF x, y
<1>2. y + 1 <= x => (y + 1) * Sec <= x * Sec
  BY <1>0, <1>1, TimesMono, SMTT(60)
<1>3. (y + 1) * Sec \in Nat /\ x * Sec \in Nat
  BY <1>0, <1>1, SMTT(60)
<1>4. x <= y
  BY <1>1, <1>2, <1>3, SMTT(60)
<1> QED BY <1>1, <1>4 DEF x, y

\* The handle has just been opened.
LEMMA BoundedInit == Init => Bounded
<1> SUFFICES ASSUME Init PROVE Bounded
  OBVIOUS
<1>1. /\ now = 1 /\ real = 1 /\ call = NULL /\ res = NULL
      /\ stat = [pid |-> NoPid, mtime |-> 0, of |-> NoPid, cpu |-> 0, at |-> 0]
      /\ proc = [p \in Pid |-> [live |-> TRUE, inc |-> 1, cpu |-> 0]]
      /\ entry = [p \in Pid |-> NULL]
  BY DEF Init, StatInit
<1>2. 0 <= Seconds
  BY <1>1, SecondsMono, SMTT(60) DEF Seconds
<1>3. MaxNow \in Nat \ {0} /\ MaxInc \in Nat \ {0}
  BY StatAssumption
<1> QED BY <1>1, <1>2, <1>3, SMTT(60) DEF Bounded, TypeOK

\* The kernel's steps.
LEMMA KernelBounded == ASSUME IInv, Pace, Pace', Bounded, KernelStep PROVE Bounded'
<1>0. MaxNow \in Nat \ {0} /\ MaxInc \in Nat \ {0} /\ Active \subseteq Pid
  BY StatAssumption
<1>1. /\ UNCHANGED <<stat, entry, cleaned, reported, tainted, call, unread>> /\ res' = NULL
      /\ now \in Nat /\ real \in Nat /\ now \in 1..MaxNow
      /\ proc \in [Pid -> [live : BOOLEAN, inc : Nat, cpu : Nat]]
  BY DEF KernelStep, Kernel, Tick, SetBack, Exit, Spawn, cpuVars, IInv, Typed, Bounded, TypeOK
<1> DEFINE Forward ==
      /\ real' \in Nat /\ real' <= MaxNow /\ now' \in 1..MaxNow /\ (stepped => stepped')
      /\ (stepped' \/ now <= now')
<1>2. Forward
  <2>1. CASE Tick
    BY <1>0, <1>1, <2>1, SMTT(60) DEF Tick, Pace
  <2>2. CASE SetBack
    <3>1. now' \in 1..now - 1 /\ stepped' = TRUE /\ real' = real
      BY <2>2, ZenonT(60) DEF SetBack
    <3>2. real <= MaxNow
      BY ZenonT(60) DEF Pace
    <3>3. now' \in 1..MaxNow
      BY <1>0, <1>1, <3>1, SMTT(60)
    <3> QED BY <1>1, <3>1, <3>2, <3>3, ZenonT(60)
  <2>3. ASSUME NEW p \in Active, Exit(p) \/ Spawn(p) PROVE Forward
    BY <1>0, <1>1, <2>3, SMTT(60) DEF Exit, Spawn, Pace
  <2> QED BY <2>1, <2>2, <2>3 DEF KernelStep, Kernel
<1> DEFINE Fits(p) == proc'[p].inc \in 0..MaxInc /\ proc'[p].cpu \in Nat /\ proc'[p].cpu <= real'
<1>3. \A p \in Pid : Fits(p)
  <2> TAKE p \in Pid
  <2>0. proc[p].inc \in 0..MaxInc /\ proc[p].cpu \in Nat /\ proc[p].cpu <= real
    BY SMTT(60) DEF Bounded, TypeOK
  <2>1. CASE Tick
    BY <1>1, <2>0, <2>1, SMTT(60) DEF Tick
  <2>2. CASE SetBack
    BY <2>0, <2>2 DEF SetBack
  <2>3. ASSUME NEW q \in Active, Exit(q) PROVE Fits(p)
    BY <1>0, <1>1, <2>0, <2>3 DEF Exit
  <2>4. ASSUME NEW q \in Active, Spawn(q) PROVE Fits(p)
    BY <1>0, <1>1, <2>0, <2>4, SMTT(60) DEF Spawn
  <2> QED BY <2>1, <2>2, <2>3, <2>4 DEF KernelStep, Kernel
<1>4. stepped' \/ stat'.mtime <= Seconds'
  <2>1. stat.mtime \in Nat
    BY DEF IInv, Typed, Stat
  <2>2. ~stepped' => /\ stat.mtime <= Seconds /\ Seconds \in Nat /\ Seconds' \in Nat
                     /\ Seconds <= Seconds'
    BY <1>1, <1>2, SecondsMono, SMTT(60) DEF Bounded, TypeOK, Seconds
  <2> QED BY <1>1, <2>1, <2>2, SMTT(60)
<1>5. \A p \in Pid : entry[p] # NULL => stepped' \/ entry[p].last_time <= now'
  BY <1>1, <1>2, SMTT(60) DEF Bounded, TypeOK
<1> QED BY <1>0, <1>1, <1>2, <1>3, <1>4, <1>5, SMTT(60) DEF Bounded, TypeOK

\* After a read last_proc_stat holds a total and a time that are not to come, and
\* the read has one of the statuses.
LEMMA ReadBounded ==
  ASSUME IInv, Pace, Bounded, NEW p \in Pid, NEW out, Read(p, out)
  PROVE  /\ stat'.pid \in Pid \cup {NoPid} /\ stat'.of \in Pid \cup {NoPid}
         /\ stat'.cpu \in 0..MaxNow /\ stat'.cpu <= MaxNow
         /\ stepped' \/ stat'.mtime <= Seconds'
         /\ out[1] \in Status
<1>0. UNCHANGED <<now, stepped, real, proc, used>> /\ Seconds' = Seconds
  BY DEF Read, Seconds
<1>1. /\ real \in Nat /\ real <= MaxNow /\ MaxNow \in Nat /\ Seconds \in Nat
      /\ stat \in Stat /\ proc[p].cpu \in Nat /\ proc[p].cpu <= real
      /\ stat.cpu <= MaxNow /\ (stepped \/ stat.mtime <= Seconds)
  <2>1. now \in Nat /\ real \in Nat /\ stat \in Stat /\ proc[p].cpu \in Nat /\ MaxNow \in Nat
    BY StatAssumption DEF IInv, Typed
  <2>2. Seconds \in Nat
    BY <2>1, SecondsMono, SMTT(60) DEF Seconds
  <2> QED BY <2>1, <2>2, ZenonT(60) DEF Pace, Bounded, TypeOK
<1>2. out[1] \in Status
  <2>1. proc_file2str(p) \subseteq Status
    BY ZenonT(60) DEF proc_file2str, Status
  <2>2. CASE StatHit(p)
    <3>1. out = <<"OK", stat>>
      BY <2>2, ZenonT(60) DEF Read, proc_stat_read
    <3>2. out[1] = "OK"
      BY <3>1
    <3> QED BY <3>2, ZenonT(60) DEF Status
  <2>3. CASE ~StatHit(p)
    <3>1. PICK status \in proc_file2str(p) : \E s : out = <<status, s>>
      BY <2>3, ZenonT(60) DEF Read, proc_stat_read
    <3>2. out[1] = status
      BY <3>1, SMTT(60)
    <3> QED BY <2>1, <3>2, ZenonT(60)
  <2> QED BY <2>2, <2>3
<1>3. CASE Hit(p, out)
  BY <1>0, <1>1, <1>2, <1>3, SMTT(60) DEF Hit, Stat
<1>4. CASE Loaded(p, out)
  BY <1>0, <1>1, <1>2, <1>4, SMTT(60) DEF Loaded
<1>5. CASE Failed(p, out)
  BY <1>0, <1>1, <1>2, <1>5, SMTT(60) DEF Failed, Unread, Stat
<1> QED BY <1>3, <1>4, <1>5, ReadCases

\* The steps of the library.
LEMMA LibraryBounded ==
  ASSUME IInv, Pace, Bounded, NEW p \in Pid,
         \/ ProcStatGet(p) \/ ProcMemBegin(p) \/ ProcCpuBegin(p)
         \/ call.pid = p /\ (ProcCpuRead \/ ProcMemRead)
  PROVE  Bounded'
<1>0. /\ UNCHANGED <<now, stepped, real, proc>> /\ Seconds' = Seconds
      /\ now \in 1..MaxNow /\ now \in Nat /\ MaxNow \in Nat
  <2>1. UNCHANGED <<now, stepped, real, proc>>
    BY ZenonT(60) DEF ProcStatGet, ProcMemBegin, ProcCpuBegin, ProcCpuRead, ProcMemRead, statVars
  <2>2. now \in 1..MaxNow /\ MaxNow \in Nat
    BY StatAssumption DEF Bounded, TypeOK
  <2> QED BY <2>1, <2>2, SMTT(60) DEF Seconds
<1>1. CASE ProcStatGet(p)
  <2>1. PICK out : Read(p, out) /\ res' = Reply("stat", p, out[1], out[2], 0, 1)
    BY <1>1 DEF ProcStatGet, Read
  <2>2. UNCHANGED <<entry, call>>
    BY <1>1 DEF ProcStatGet, cpuVars
  <2>3. res'.pid \in Pid /\ res'.status \in Status
    BY <2>1, ReadBounded, ZenonT(60) DEF Reply
  <2> QED BY <1>0, <2>1, <2>2, <2>3, ReadBounded, ZenonT(60) DEF Bounded, TypeOK
<1>2. CASE ProcMemBegin(p)
  <2>1. PICK out : Read(p, out)
    BY <1>2 DEF ProcMemBegin, Read
  <2>2. entry' = entry /\ res' = NULL /\ call'.op = "mem" /\ call'.pid = p
    BY <1>2, SMTT(60) DEF ProcMemBegin, cpuVars
  <2>3. call'.pid \in Pid /\ call'.op \in {"cpu", "mem"} /\ call'.op # "cpu"
    BY <2>2
  <2> QED BY <1>0, <2>1, <2>2, <2>3, ReadBounded, ZenonT(60) DEF Bounded, TypeOK
<1>3. CASE ProcCpuBegin(p)
  <2> DEFINE prev == IF Kept[p] = NULL THEN Zero ELSE Kept[p]
  <2>1. /\ entry' = [Kept EXCEPT ![p] = Touched(prev)] /\ stat' = stat
        /\ \/ res'.pid = p /\ res'.status = "OK" /\ call' = NULL
           \/ res' = NULL /\ call'.op = "cpu" /\ call'.pid = p /\ call'.time = now
    BY <1>3, SMTT(60) DEF ProcCpuBegin, statVars
  <2>2. /\ DOMAIN Kept = Pid
        /\ \A q \in Pid : Kept[q] # NULL => Kept[q] = entry[q] /\ entry[q] \in Entry
    BY DEF IInv, Typed, Kept
  <2>3. prev \in Entry /\ prev.total \in 0..MaxNow
    <3>1. CASE Kept[p] = NULL
      BY <1>0, <3>1, SMTT(60) DEF Zero, Entry
    <3>2. CASE Kept[p] # NULL
      BY <2>2, <3>2 DEF Bounded, TypeOK
    <3> QED BY <3>1, <3>2
  <2>4. Touched(prev).last_time = now /\ Touched(prev).total \in 0..MaxNow
    BY <2>3 DEF Touched, Entry
  <2> HIDE DEF prev
  <2>5. ASSUME NEW q \in Pid, entry'[q] # NULL
        PROVE  /\ entry'[q].last_time \in 1..MaxNow /\ entry'[q].total \in 0..MaxNow
               /\ stepped' \/ entry'[q].last_time <= now'
    <3>1. CASE q = p
      BY <1>0, <2>1, <2>2, <2>4, <3>1, SMTT(60)
    <3>2. CASE q # p
      BY <1>0, <2>1, <2>2, <2>5, <3>2 DEF Bounded, TypeOK
    <3> QED BY <3>1, <3>2
  <2>6. call' # NULL => call'.pid \in Pid /\ call'.op \in {"cpu", "mem"}
    BY <2>1
  <2>7. res' # NULL => res'.pid \in Pid /\ res'.status \in Status
    BY <2>1 DEF Status
  <2> QED BY <1>0, <2>1, <2>5, <2>6, <2>7, ZenonT(60) DEF Bounded, TypeOK
<1>4. CASE call.pid = p /\ ProcCpuRead
  <2>0. PICK out \in proc_stat_read(p) :
          /\ stat' = out[2] /\ Noted(p, out[1])
          /\ \/ /\ out[1] = "OK" /\ entry' = [entry EXCEPT ![p] = Sampled(out[2])]
                /\ res' = [Reply("cpu", p, "OK", out[2],
                                 total_diff(out[2].cpu, call.old.total), call.diff) EXCEPT
                            !.sound = call.old.sound /\ Sound, !.delay = now - call.time]
             \/ /\ out[1] # "OK" /\ entry' = [entry EXCEPT ![p].sound = FALSE]
                /\ res' = Reply("cpu", p, out[1], out[2], 0, 1)
    BY <1>4, ZenonT(60) DEF ProcCpuRead
  <2>1. /\ Read(p, out) /\ call' = NULL
        /\ \/ entry' = [entry EXCEPT ![p] = Sampled(out[2])]
           \/ entry' = [entry EXCEPT ![p].sound = FALSE]
        /\ res'.pid = p /\ res'.status = out[1]
    <3>1. Read(p, out) /\ call' = NULL
      BY <1>4, <2>0, ZenonT(60) DEF ProcCpuRead, Read
    <3>2. res'.pid = p /\ res'.status = out[1]
      <4>1. CASE out[1] = "OK"
        BY <2>0, <4>1, ZenonT(60) DEF Reply
      <4>2. CASE out[1] # "OK"
        <5>1. res' = Reply("cpu", p, out[1], out[2], 0, 1)
          BY <2>0, <4>2, ZenonT(60)
        <5> QED BY <5>1 DEF Reply
      <4> QED BY <4>1, <4>2
    <3> QED BY <2>0, <3>1, <3>2, ZenonT(60)
  <2>2. /\ call # NULL /\ call.op = "cpu" /\ call.time \in 1..MaxNow
        /\ stepped \/ call.time <= now
    BY <1>4, ZenonT(60) DEF ProcCpuRead, Bounded, Pace, Waiting
  <2>3. Sampled(out[2]).last_time = call.time /\ Sampled(out[2]).total = stat'.cpu
    BY <2>1 DEF Sampled, Read
  <2>4. DOMAIN entry = Pid /\ entry[p] \in Entry /\ entry[p] # NULL
    BY <1>4, <2>2, NullAssumption DEF IInv, Typed, Pending
  <2>5. ASSUME NEW q \in Pid, entry'[q] # NULL
        PROVE  /\ entry'[q].last_time \in 1..MaxNow /\ entry'[q].total \in 0..MaxNow
               /\ stepped' \/ entry'[q].last_time <= now'
    <3>1. CASE q = p /\ entry'[q] = Sampled(out[2])
      BY <1>0, <2>1, <2>2, <2>3, <3>1, ReadBounded
    <3>2. CASE q = p /\ entry'[q] = [entry[p] EXCEPT !.sound = FALSE]
      BY <1>0, <2>4, <3>2 DEF Bounded, TypeOK, Entry
    <3>3. CASE q # p
      BY <1>0, <2>1, <2>4, <2>5, <3>3 DEF Bounded, TypeOK
    <3> QED BY <2>1, <2>4, <3>1, <3>2, <3>3, ZenonT(60)
  <2> QED BY <1>0, <2>1, <2>5, ReadBounded DEF Bounded, TypeOK
<1>5. CASE call.pid = p /\ ProcMemRead
  <2>1. PICK status \in proc_file2str(p) :
          /\ UNCHANGED <<stat, entry>> /\ call' = NULL
          /\ res' = [Reply("mem", p, status, call.faults, 0, 1) EXCEPT !.time = call.time]
    BY <1>5 DEF ProcMemRead, statVars, cpuVars
  <2>2. res'.pid \in Pid /\ res'.status \in Status
    BY <2>1 DEF Reply, proc_file2str, Status
  <2> QED BY <1>0, <2>1, <2>2 DEF Bounded, TypeOK
<1> QED BY <1>1, <1>2, <1>3, <1>4, <1>5

\* For every number of processes and instants: CPU totals stay below the time
\* that passed, replies carry the statuses of the readers, and until the clock
\* is set back neither last_proc_stat nor an entry of the cache carries a time to
\* come.
THEOREM TypeHolds == Spec => []TypeOK
<1>1. ASSUME IInv, Pace, Pace', Bounded, [Next]_vars PROVE Bounded'
  <2>1. CASE UNCHANGED vars
    BY <1>1, <2>1 DEF vars, statVars, cpuVars, Bounded, TypeOK, Seconds
  <2>2. CASE Next
    <3>1. Watched \subseteq Pid
      BY CpuAssumption
    <3>2. ProcCpuRead \/ ProcMemRead => call.pid \in Pid
      BY <1>1, ZenonT(60) DEF ProcCpuRead, ProcMemRead, IInv, Typed
    <3> QED BY <1>1, <2>2, <3>1, <3>2, KernelBounded, LibraryBounded DEF Next
  <2> QED BY <1>1, <2>1, <2>2, ZenonT(60)
<1>2. Spec => []Pace
  BY PaceInit, NextPace, IInvHolds, PTL DEF Spec
<1>3. Spec => []Bounded
  BY <1>1, <1>2, BoundedInit, IInvHolds, PTL DEF Spec
<1>4. Bounded => TypeOK
  BY DEF Bounded
<1> QED BY <1>3, <1>4, PTL
=============================================================================
