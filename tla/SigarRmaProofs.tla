--------------------------- MODULE SigarRmaProofs ---------------------------
(***************************************************************************)
(* The ring of SigarRma is its history, and its averages are over the      *)
(* newest samples, for rings of every size and every set of rates.         *)
(***************************************************************************)
EXTENDS SigarRma, FiniteSetTheorems, TLAPS

USE SMTT(60), ZenonT(60)

Walked ==
  walking => /\ pos = Back(count + 1) /\ count <= Len(hist)
             /\ \A k \in 1..count : cur - Newest(k).stime <= Head(todo)

Stamped == \A k \in 1..Len(hist) : hist[k].stime # 0

\* IInv by its parts.
LEMMA IInvParts ==
  IInv <=> TypeOK /\ RingIsHistory /\ AverageIsWindow /\ Stamped /\ Walked
BY DEF IInv, Walked, Stamped

\* The rate being computed.
LEMMA HeadRate ==
  ASSUME NEW q \in Seq(Rate), q # << >>
  PROVE  Head(q) \in Rate /\ Tail(q) \in Seq(Rate) /\ Head(q) \in Nat
<1>1. Head(q) \in Rate /\ Tail(q) \in Seq(Rate)
  OBVIOUS
<1> QED BY <1>1, RmaAssumption, ZenonT(60)

\* The fields of a sample.
LEMMA SampleFields ==
  ASSUME NEW s \in Sample PROVE s.value \in Int /\ s.stime \in Nat
<1>1. s.value \in Value \cup {0} /\ s.stime \in 0..MaxNow
  BY DEF Sample
<1>2. Value \subseteq Int /\ MaxNow \in Nat
  BY RmaAssumption
<1>3. s.value \in Int
  <2>1. 0 \in Int
    OBVIOUS
  <2> QED BY <1>1, <1>2, <2>1, ZenonT(60)
<1>4. s.stime \in Nat
  BY <1>1, <1>2
<1> QED BY <1>3, <1>4

\* sigar_rma_open: calloc leaves a ring without samples.
LEMMA InitIInv == Init => IInv
<1> SUFFICES ASSUME Init PROVE IInv
  OBVIOUS
<1> USE RmaAssumption DEF Init, NoRes, Index
<1>1. TypeOK
  <2>1. samples \in [Index -> Sample] /\ current_pos \in Index
    BY DEF Sample
  <2>2. hist \in Seq(Sample) /\ Len(hist) = 0 /\ todo \in Seq(Rate)
    OBVIOUS
  <2>3. res \in [rate : Rate \cup {0}, cur : 0..MaxNow, sum : Int, count : -1..N-1, len : Nat]
    OBVIOUS
  <2>4. now \in 1..MaxNow /\ cur \in 0..MaxNow /\ ~walking /\ pos \in Index /\ sum \in Int
    OBVIOUS
  <2>5. count \in 0..N-1 /\ res.len = 0 /\ MaxSamples \in Nat
    OBVIOUS
  <2>6. Len(hist) <= MaxSamples /\ res.len <= Len(hist)
    BY <2>2, <2>5
  <2>7. walking \in BOOLEAN
    OBVIOUS
  <2> QED BY <2>1, <2>2, <2>3, <2>4, <2>5, <2>6, <2>7, ZenonT(60) DEF TypeOK
<1>2. RingIsHistory
  BY DEF RingIsHistory, Back, Blank
<1>3. AverageIsWindow
  BY DEF AverageIsWindow
<1>4. Stamped /\ Walked
  BY DEF Stamped, Walked
<1> QED BY <1>1, <1>2, <1>3, <1>4, IInvParts

\* sigar_rma_add_sample overwrites the oldest slot and moves current_pos.
LEMMA AddStep ==
  ASSUME IInv, NEW v \in Value, NEW given \in BOOLEAN, NEW rates \in Seq(Rate),
         Add(v, given, rates)
  PROVE  IInv'
<1> DEFINE s == [value |-> v, stime |-> now]
<1> USE RmaAssumption
<1>0. TypeOK /\ RingIsHistory /\ AverageIsWindow /\ Stamped /\ Walked
  BY IInvParts
<1>1. /\ samples' = [samples EXCEPT ![current_pos] = s]
      /\ hist' = Append(hist, s) /\ current_pos' = next_pos(current_pos)
      /\ ~walking /\ walking' = walking /\ res' = res /\ Len(hist) < MaxSamples
      /\ cur' = (IF given THEN now ELSE 0) /\ todo' = rates
      /\ now' = now /\ pos' = pos /\ sum' = sum /\ count' = count
  BY DEF Add, walkVars
<1>2. now \in 1..MaxNow /\ s \in Sample /\ s.stime # 0
  BY <1>0 DEF TypeOK, Sample
<1>3. /\ Len(hist') = Len(hist) + 1 /\ Len(hist) \in Nat
      /\ \A k \in 1..Len(hist) : hist'[k] = hist[k]
      /\ hist'[Len(hist) + 1] = s
      /\ hist' \in Seq(Sample)
  BY <1>0, <1>1, <1>2 DEF TypeOK
<1> HIDE DEF s
<1>4. current_pos \in Index /\ current_pos' \in Index
  BY <1>0, <1>1 DEF TypeOK, next_pos, Index
<1>5. TypeOK'
  BY <1>0, <1>1, <1>2, <1>3, <1>4 DEF TypeOK, Index
<1>6. RingIsHistory'
  <2>1. ASSUME NEW k \in 1..N
        PROVE  samples'[Back(k)'] = IF k <= Len(hist') THEN Newest(k)' ELSE Blank
    <3>1. Back(k)' = IF k = 1 THEN current_pos ELSE Back(k - 1)
      BY <1>1, <1>4 DEF Back, next_pos, Index
    <3>2. CASE k = 1
      BY <3>1, <3>2, <1>0, <1>1, <1>3, <1>4 DEF TypeOK, Newest
    <3>3. CASE k # 1
      <4>1. k - 1 \in 1..N /\ Back(k - 1) # current_pos /\ Back(k - 1) \in Index
        BY <3>3, <1>4 DEF Back, Index
      <4>2. samples'[Back(k - 1)] = samples[Back(k - 1)]
        BY <4>1, <1>0, <1>1 DEF TypeOK
      <4>3. samples[Back(k - 1)] = IF k - 1 <= Len(hist) THEN Newest(k - 1) ELSE Blank
        BY <4>1, <1>0 DEF RingIsHistory
      <4>4. k <= Len(hist') <=> k - 1 <= Len(hist)
        BY <1>3
      <4>5. ASSUME k - 1 <= Len(hist) PROVE Newest(k)' = Newest(k - 1)
        BY <4>5, <4>1, <1>3 DEF Newest
      <4> QED BY <3>1, <3>3, <4>2, <4>3, <4>4, <4>5
    <3> QED BY <3>2, <3>3
  <2> QED BY <2>1 DEF RingIsHistory, Blank
<1>7. AverageIsWindow'
  <2>1. res.len <= Len(hist) /\ res.len \in Nat /\ res.count \in -1..N-1
    BY <1>0 DEF TypeOK
  <2>2. ASSUME NEW k \in 1..res.len PROVE Old(k)' <=> Old(k)
    <3>1. res.len + 1 - k \in 1..Len(hist)
      BY <2>1, <1>3
    <3> QED BY <3>1, <1>1, <1>3 DEF Old
  <2>3. CASE res.count = -1
    BY <2>3, <1>1 DEF AverageIsWindow
  <2>4. CASE res.count # -1
    <3>1. /\ res.count <= res.len /\ res.count <= N - 1
          /\ \A k \in 1..res.count : ~Old(k)
          /\ res.count = res.len \/ res.count = N - 1 \/ Old(res.count + 1)
      BY <2>4, <1>0 DEF AverageIsWindow
    <3>2. \A k \in 1..res.count : ~Old(k)'
      BY <3>1, <2>1, <2>2
    <3>3. PICK c : c = res.count
      OBVIOUS
    <3>4. c = res.len \/ c = N - 1 \/ Old(c + 1)'
      <4>1. CASE c # res.len /\ Old(c + 1)
        <5>1. c + 1 \in 1..res.len
          BY <4>1, <3>1, <3>3, <2>1, <2>4
        <5> QED BY <5>1, <4>1, <2>2
      <4> QED BY <4>1, <3>1, <3>3
    <3> QED BY <3>1, <3>2, <3>3, <3>4, <1>1, ZenonT(60) DEF AverageIsWindow
  <2> QED BY <2>3, <2>4
<1>8. Stamped'
  BY <1>0, <1>2, <1>3 DEF Stamped
<1>9. Walked'
  BY <1>1 DEF Walked
<1> QED BY <1>5, <1>6, <1>7, <1>8, <1>9, IInvParts DEF IInv, Walked, Stamped

\* A walk starts at the newest sample.
LEMMA WalkStartStep == ASSUME IInv, WalkStart PROVE IInv'
<1> USE RmaAssumption
<1>0. TypeOK /\ RingIsHistory /\ AverageIsWindow /\ Stamped /\ Walked
  BY IInvParts
<1>1. /\ todo # << >> /\ walking' = TRUE /\ pos' = prev_pos(current_pos)
      /\ sum' = 0 /\ count' = 0
      /\ UNCHANGED <<samples, current_pos, hist, now, cur, todo, res>>
  BY DEF WalkStart, ringVars
<1>2. pos' \in Index /\ pos' = Back(1)
  BY <1>0, <1>1 DEF TypeOK, prev_pos, Index, Back
<1>3. TypeOK'
  BY <1>0, <1>1, <1>2 DEF TypeOK, Index
<1>4. Walked'
  BY <1>0, <1>1, <1>2 DEF TypeOK, Walked, Back
<1>5. RingIsHistory' /\ AverageIsWindow' /\ Stamped'
  BY <1>0, <1>1 DEF RingIsHistory, AverageIsWindow, Stamped, Back, Newest, Old
<1> QED BY <1>3, <1>4, <1>5 DEF IInv, Walked, Stamped

\* What the walk reads at pos is the next older sample, or a blank.
LEMMA WalkReads ==
  ASSUME IInv, walking, pos # current_pos
  PROVE  /\ count + 1 \in 1..N-1
         /\ samples[pos] = IF count + 1 <= Len(hist) THEN Newest(count + 1) ELSE Blank
<1> USE RmaAssumption
<1>0. TypeOK /\ RingIsHistory /\ Walked
  BY IInvParts
<1>1. pos = Back(count + 1) /\ count \in 0..N-1 /\ current_pos \in Index
  BY <1>0 DEF Walked, TypeOK
<1>2. count + 1 \in 1..N-1
  BY <1>1 DEF Back, Index
<1> QED BY <1>0, <1>1, <1>2 DEF RingIsHistory

\* An iteration counts one sample more.
LEMMA WalkStepStep == ASSUME IInv, WalkStep PROVE IInv'
<1> USE RmaAssumption
<1>0. TypeOK /\ RingIsHistory /\ AverageIsWindow /\ Stamped /\ Walked
  BY IInvParts
<1>1. /\ walking /\ pos # current_pos /\ ~TooOld(samples[pos])
      /\ sum' = sum + samples[pos].value /\ count' = count + 1
      /\ pos' = prev_pos(pos)
      /\ UNCHANGED <<samples, current_pos, hist, walking, now, cur, todo, res>>
  BY DEF WalkStep, ringVars
<1>2. /\ count + 1 \in 1..N-1
      /\ samples[pos] = IF count + 1 <= Len(hist) THEN Newest(count + 1) ELSE Blank
  BY <1>1, WalkReads
<1>3. samples[pos].stime # 0 /\ cur - samples[pos].stime <= Head(todo)
  <2>1. /\ samples[pos].stime \in Int /\ cur \in Int /\ todo # << >> /\ todo \in Seq(Rate)
    BY <1>0, <1>1 DEF TypeOK, Sample
  <2>2. Head(todo) \in Int
    BY <2>1, HeadRate
  <2> QED BY <1>1, <2>1, <2>2 DEF TooOld
<1>4. count + 1 <= Len(hist) /\ samples[pos] = Newest(count + 1)
  BY <1>2, <1>3 DEF Blank
<1>5. pos' \in Index /\ pos' = Back(count + 2) /\ count' \in 0..N-1
  BY <1>0, <1>1, <1>2 DEF TypeOK, prev_pos, Index, Back, Walked
<1>6. sum' \in Int
  <2>1. samples[pos] \in Sample
    BY <1>0 DEF TypeOK
  <2>2. samples[pos].value \in Int
    BY <2>1, SampleFields
  <2> QED BY <2>2, <1>0, <1>1 DEF TypeOK
<1>7. TypeOK'
  BY <1>0, <1>1, <1>5, <1>6 DEF TypeOK, Index
<1>8. Walked'
  <2>1. ASSUME NEW k \in 1..count+1 PROVE cur - Newest(k).stime <= Head(todo)
    <3>1. CASE k = count + 1
      BY <3>1, <1>3, <1>4
    <3>2. CASE k \in 1..count
      BY <3>2, <1>0, <1>1 DEF Walked
    <3> QED BY <3>1, <3>2, <1>0 DEF TypeOK
  <2>2. count \in Int
    BY <1>0 DEF TypeOK
  <2> QED BY <2>1, <2>2, <1>1, <1>4, <1>5 DEF Walked, Back, Newest
<1>9. RingIsHistory' /\ AverageIsWindow' /\ Stamped'
  BY <1>0, <1>1 DEF RingIsHistory, AverageIsWindow, Stamped, Back, Newest, Old
<1> QED BY <1>7, <1>8, <1>9 DEF IInv, Walked, Stamped

\* The walk ends at the first sample that is too old, or when it has been
\* round the ring.
LEMMA WalkEndStep == ASSUME IInv, WalkEnd PROVE IInv'
<1> USE RmaAssumption
<1>0. TypeOK /\ RingIsHistory /\ AverageIsWindow /\ Stamped /\ Walked
  BY IInvParts
<1>1. /\ walking /\ (pos = current_pos \/ TooOld(samples[pos]))
      /\ walking' = FALSE /\ todo' = Tail(todo)
      /\ res' = [rate |-> Head(todo), cur |-> cur, sum |-> sum, count |-> count,
                 len |-> Len(hist)]
      /\ UNCHANGED <<samples, current_pos, hist, now, cur, pos, sum, count>>
  BY DEF WalkEnd, ringVars
<1>2. /\ todo # << >> /\ todo \in Seq(Rate) /\ hist \in Seq(Sample) /\ Len(hist) \in Nat
      /\ count \in 0..N-1 /\ cur \in 0..MaxNow /\ sum \in Int
  BY <1>0, <1>1 DEF TypeOK
<1>3. Head(todo) \in Rate /\ Tail(todo) \in Seq(Rate) /\ Head(todo) \in Nat
  BY <1>2, HeadRate
<1>4. TypeOK'
  <2>1. res' \in [rate : Rate \cup {0}, cur : 0..MaxNow, sum : Int, count : -1..N-1, len : Nat]
    BY <1>1, <1>2, <1>3
  <2>2. res'.len <= Len(hist')
    BY <1>1, <1>2
  <2> QED BY <2>1, <2>2, <1>0, <1>1, <1>3, ZenonT(60) DEF TypeOK
<1>5. count <= Len(hist) /\ \A k \in 1..count : cur - Newest(k).stime <= Head(todo)
  BY <1>0, <1>1 DEF Walked
<1>6. count = Len(hist) \/ count = N - 1 \/ cur - Newest(count + 1).stime > Head(todo)
  <2>1. CASE pos = current_pos
    BY <2>1, <1>0, <1>1, <1>2 DEF Walked, Back, TypeOK, Index
  <2>2. CASE pos # current_pos /\ count # Len(hist)
    <3>1. count + 1 <= Len(hist) /\ samples[pos] = Newest(count + 1)
      BY <2>2, <1>1, <1>2, <1>5, WalkReads
    <3>2. samples[pos].stime # 0
      BY <3>1, <1>0, <1>2 DEF Stamped, Newest
    <3> QED BY <2>2, <3>1, <3>2, <1>1 DEF TooOld
  <2> QED BY <2>1, <2>2
<1>7. AverageIsWindow'
  <2>1. ASSUME NEW k \in 1..Len(hist)
        PROVE  Old(k)' <=> cur - Newest(k).stime > Head(todo)
    BY <1>1 DEF Old, Newest
  <2>2. ASSUME NEW k \in 1..count PROVE ~Old(k)'
    <3>1. hist[Len(hist) + 1 - k] \in Sample
      BY <1>2, <1>5
    <3>2. Newest(k).stime \in Int
      BY <3>1 DEF Newest, Sample
    <3> QED BY <2>1, <3>2, <1>2, <1>3, <1>5
  <2> QED BY <2>1, <2>2, <1>1, <1>2, <1>5, <1>6 DEF AverageIsWindow
<1>8. RingIsHistory' /\ Stamped' /\ Walked'
  BY <1>0, <1>1 DEF RingIsHistory, Stamped, Walked, Back, Newest
<1> QED BY <1>4, <1>7, <1>8 DEF IInv, Walked, Stamped

\* Steps that leave the ring and the walk alone.
LEMMA QuietStep ==
  ASSUME IInv, UNCHANGED <<ringVars, walkVars, res>>,
         now' \in 1..MaxNow, cur' \in 0..MaxNow, todo' \in Seq(Rate),
         walking => cur' = cur /\ todo' = todo
  PROVE  IInv'
<1>0. TypeOK /\ RingIsHistory /\ AverageIsWindow /\ Stamped /\ Walked
  BY IInvParts
<1>1. TypeOK'
  BY <1>0, RmaAssumption DEF TypeOK, ringVars, walkVars
<1>2. RingIsHistory' /\ AverageIsWindow' /\ Stamped' /\ Walked'
  BY <1>0 DEF RingIsHistory, AverageIsWindow, Stamped, Walked, Back, Newest, Old,
              ringVars, walkVars
<1> QED BY <1>1, <1>2 DEF IInv, Walked, Stamped

\* The inductive invariant holds in every reachable state.
THEOREM IInvHolds == Spec => []IInv
<1>1. ASSUME IInv, [Next]_vars PROVE IInv'
  <2> USE RmaAssumption
  <2>0. TypeOK
    BY <1>1 DEF IInv
  <2>1. CASE Tick
    BY <2>0, <2>1, <1>1, QuietStep DEF Tick, TypeOK, ringVars, walkVars
  <2>2. ASSUME NEW v \in Value, NEW g \in GivesTime, NEW rates \in Seq(Rate),
               Add(v, g, rates)
        PROVE  IInv'
    BY <2>2, <1>1, AddStep
  <2>3. ASSUME NEW r \in Rate, NEW g \in GivesTime, get_average(r, g)
        PROVE  IInv'
    BY <2>0, <2>3, <1>1, QuietStep DEF get_average, TypeOK, ringVars, walkVars
  <2>4. CASE Walk
    BY <2>4, <1>1, WalkStartStep, WalkStepStep, WalkEndStep DEF Walk
  <2>5. CASE UNCHANGED vars
    BY <2>0, <2>5, <1>1, QuietStep DEF vars, TypeOK, ringVars, walkVars
  <2>6. /\ << >> \in Seq(Rate) /\ StdRates \in Seq(Rate)
        /\ \A r \in Rate : <<r>> \in Seq(Rate)
    OBVIOUS
  <2> QED BY <2>1, <2>2, <2>3, <2>4, <2>5, <2>6, <1>1, ZenonT(60)
          DEF Next, add_sample, add_fetch_std_sample, add_fetch_custom_sample
<1> QED BY InitIInv, <1>1, PTL DEF Spec

\* The ring of sigar_rma_add_sample always holds the last N samples.
THEOREM RingIsHistoryHolds == Spec => []RingIsHistory
<1>1. IInv => RingIsHistory
  BY DEF IInv
<1> QED BY <1>1, IInvHolds, PTL

\* sigar_rma_get_average counts exactly the newest samples, back to the first
\* one that is too old or to the slot at current_pos.
THEOREM AverageIsWindowHolds == Spec => []AverageIsWindow
<1>1. IInv => AverageIsWindow
  BY DEF IInv
<1> QED BY <1>1, IInvHolds, PTL

\* The walk never leaves the ring, and counts fit it.
THEOREM TypeHolds == Spec => []TypeOK
<1>1. IInv => TypeOK
  BY DEF IInv
<1> QED BY <1>1, IInvHolds, PTL

-----------------------------------------------------------------------------
(* The sums.  A sum is given by the function of its partial sums, so that  *)
(* one sample more makes it longer by one.                                 *)

\* A set of natural numbers has a least one.  The intervals below its members
\* are finite sets, of which one has no smaller one.
LEMMA Least ==
  ASSUME NEW T \in SUBSET Nat, T # {}
  PROVE  \E m \in T : \A k \in T : m <= k
<1> DEFINE U == {0..m : m \in T}
           R == StrictSubsetOrdering(Nat)
<1>1. U \subseteq FiniteSubsetsOf(Nat)
  <2> SUFFICES ASSUME NEW m \in T PROVE 0..m \in FiniteSubsetsOf(Nat)
    OBVIOUS
  <2>1. IsFiniteSet(0..m)
    BY FS_Interval
  <2> QED BY <2>1 DEF FiniteSubsetsOf
<1>2. IsWellFoundedOn(R, FiniteSubsetsOf(Nat))
  BY FS_StrictSubsetOrderingWellFounded
<1>3. U # {}
  BY ZenonT(60)
<1> HIDE DEF U, R
<1>4. PICK s \in U : \A y \in U : ~ (<<y, s>> \in R)
  BY <1>1, <1>2, <1>3, WFMin
<1>5. PICK m \in T : s = 0..m
  BY DEF U
<1>6. ASSUME NEW k \in T, k < m PROVE FALSE
  <2>1. <<0..k, 0..m>> \notin R
    BY <1>4, <1>5, <1>6, ZenonT(60) DEF U
  <2>2. m \in 0..m /\ m \notin 0..k
    BY <1>6
  <2>3. 0..k \subseteq 0..m /\ 0..k # 0..m /\ 0..k \in SUBSET Nat /\ 0..m \in SUBSET Nat
    BY <1>6, <2>2
  <2> QED BY <2>1, <2>3 DEF R, StrictSubsetOrdering
<1> QED BY <1>6

\* g holds the partial sums of v up to n.
Sums(g, v, n) ==
  g \in [0..n -> Int] /\ g[0] = 0 /\ \A k \in 1..n : g[k] = g[k-1] + v[k]

\* Partial sums can be continued by one.
LEMMA SumsExtend ==
  ASSUME NEW n \in Nat, NEW v, NEW g, Sums(g, v, n), v[n + 1] \in Int
  PROVE  Sums([k \in 0..n+1 |-> IF k = n + 1 THEN g[n] + v[n + 1] ELSE g[k]], v, n + 1)
<1> DEFINE h == [k \in 0..n+1 |-> IF k = n + 1 THEN g[n] + v[n + 1] ELSE g[k]]
<1>1. g \in [0..n -> Int] /\ g[0] = 0 /\ \A k \in 1..n : g[k] = g[k-1] + v[k]
  BY DEF Sums
<1>2. h \in [0..n+1 -> Int] /\ h[0] = 0
  BY <1>1
<1>3. ASSUME NEW k \in 1..n+1 PROVE h[k] = h[k-1] + v[k]
  BY <1>1, <1>3
<1> QED BY <1>2, <1>3 DEF Sums

\* There are partial sums of every length.
LEMMA SumsExist ==
  ASSUME NEW n \in Nat, NEW v, \A k \in 1..n : v[k] \in Int
  PROVE  \E g : Sums(g, v, n)
<1> DEFINE T == {m \in 0..n : ~\E g : Sums(g, v, m)}
<1>1. ASSUME T # {} PROVE FALSE
  <2>1. T \in SUBSET Nat
    OBVIOUS
  <2>2. PICK m \in T : \A k \in T : m <= k
    BY <1>1, <2>1, Least, ZenonT(60)
  <2>3. CASE m = 0
    <3>1. Sums([k \in 0..0 |-> 0], v, 0)
      BY DEF Sums
    <3> QED BY <2>2, <2>3, <3>1
  <2>4. CASE m # 0
    <3>1. m - 1 \in 0..n /\ m - 1 \notin T /\ m - 1 \in Nat
      BY <2>2, <2>4
    <3>2. PICK g : Sums(g, v, m - 1)
      BY <3>1
    <3>3. v[(m - 1) + 1] \in Int
      BY <2>2, <2>4
    <3>4. \E h : Sums(h, v, (m - 1) + 1)
      BY <3>1, <3>2, <3>3, SumsExtend, ZenonT(60)
    <3> QED BY <2>2, <3>4
  <2> QED BY <2>3, <2>4
<1> QED BY <1>1

\* The values of the samples there were when there were n, newest first.
Values(n) == [k \in 1..n |-> hist[n + 1 - k].value]

SumOf(x, n, c) == \E g : Sums(g, Values(n), c) /\ x = g[c]

\* While it walks get_average has added up what it has counted.
SumInv ==
  /\ walking => SumOf(sum, Len(hist), count)
  /\ res.count # -1 => SumOf(res.sum, res.len, res.count)

\* Samples that are added do not change the values of the older ones.
LEMMA SumOfKept ==
  ASSUME NEW n \in Nat, NEW c \in 0..n, NEW x, SumOf(x, n, c),
         \A k \in 1..n : hist'[k] = hist[k]
  PROVE  SumOf(x, n, c)'
<1>1. Values(n)' = Values(n)
  BY DEF Values
<1> QED BY <1>1 DEF SumOf

\* What a walk reads is a value of the history, an integer.
LEMMA ValuesType ==
  ASSUME TypeOK, NEW n \in Nat, n <= Len(hist), NEW k \in 1..n
  PROVE  Values(n)[k] = hist[n + 1 - k].value /\ Values(n)[k] \in Int
<1>1. hist[n + 1 - k] \in Sample
  BY DEF TypeOK
<1>2. hist[n + 1 - k].value \in Int
  BY <1>1, SampleFields
<1> QED BY <1>2 DEF Values

\* Every step keeps the sums.
LEMMA SumStep == ASSUME IInv, IInv', SumInv, [Next]_vars PROVE SumInv'
<1>0. TypeOK /\ Walked /\ AverageIsWindow /\ Len(hist) \in Nat
  BY IInvParts DEF TypeOK
<1>1. ASSUME \A k \in 1..Len(hist) : hist'[k] = hist[k], res' = res,
             walking' => walking /\ sum' = sum /\ count' = count /\ hist' = hist
      PROVE  SumInv'
  <2>1. ASSUME walking' PROVE SumOf(sum, Len(hist), count)'
    <3>1. walking /\ sum' = sum /\ count' = count /\ hist' = hist
      BY <1>1, <2>1
    <3> QED BY <3>1 DEF SumInv, SumOf, Values
  <2>2. ASSUME res.count # -1 PROVE SumOf(res.sum, res.len, res.count)'
    <3>1. /\ res.len \in Nat /\ res.len <= Len(hist) /\ res.count \in 0..res.len
          /\ SumOf(res.sum, res.len, res.count)
      BY <1>0, <2>2 DEF TypeOK, AverageIsWindow, SumInv
    <3>2. \A k \in 1..res.len : hist'[k] = hist[k]
      BY <1>0, <1>1, <3>1
    <3>3. PICK x, n, c : x = res.sum /\ n = res.len /\ c = res.count
      OBVIOUS
    <3>4. SumOf(x, n, c)'
      BY <3>1, <3>2, <3>3, SumOfKept
    <3> QED BY <1>1, <3>3, <3>4
  <2> QED BY <1>1, <2>1, <2>2 DEF SumInv
<1>2. ASSUME NEW v \in Value, NEW g \in GivesTime, NEW rates, Add(v, g, rates)
      PROVE  SumInv'
  <2>1. /\ hist' = Append(hist, [value |-> v, stime |-> now]) /\ ~walking /\ walking' = walking
        /\ res' = res
    BY <1>2 DEF Add, walkVars
  <2>2. \A k \in 1..Len(hist) : hist'[k] = hist[k]
    BY <1>0, <2>1 DEF TypeOK
  <2> QED BY <1>1, <2>1, <2>2
<1>3. CASE WalkStart
  <2>1. /\ sum' = 0 /\ count' = 0 /\ hist' = hist /\ res' = res
    BY <1>3 DEF WalkStart, ringVars
  <2>2. PICK g : Sums(g, Values(Len(hist)), 0) /\ g[0] = 0
    <3>1. Sums([k \in 0..0 |-> 0], Values(Len(hist)), 0)
      BY DEF Sums
    <3> QED BY <3>1
  <2>3. SumOf(sum, Len(hist), count)'
    BY <2>1, <2>2, ZenonT(60) DEF SumOf, Values
  <2>4. res.count # -1 => SumOf(res.sum, res.len, res.count)'
    BY <2>1 DEF SumInv, SumOf, Values
  <2> QED BY <2>1, <2>3, <2>4 DEF SumInv
<1>4. CASE WalkStep
  <2>1. /\ walking /\ pos # current_pos /\ sum' = sum + samples[pos].value
        /\ count' = count + 1 /\ walking' = walking /\ hist' = hist /\ res' = res
    BY <1>4 DEF WalkStep, ringVars
  <2>2. count' <= Len(hist) /\ count \in Nat
    BY <2>1, IInvParts, <1>0 DEF IInv, TypeOK
  <2>3. samples[pos] = Newest(count + 1)
    BY <2>1, <2>2, WalkReads
  <2>4. /\ Values(Len(hist))[count + 1] = samples[pos].value
        /\ Values(Len(hist))[count + 1] \in Int
    BY <1>0, <2>1, <2>2, <2>3, ValuesType DEF Newest
  <2>5. PICK g : Sums(g, Values(Len(hist)), count) /\ sum = g[count]
    BY <2>1 DEF SumInv, SumOf
  <2>6. PICK h : h = [k \in 0..count+1 |->
                        IF k = count + 1 THEN g[count] + Values(Len(hist))[count + 1] ELSE g[k]]
    BY ZenonT(60)
  <2>7. Sums(h, Values(Len(hist)), count + 1)
    BY <2>2, <2>4, <2>5, <2>6, SumsExtend
  <2>8. h[count + 1] = sum'
    BY <2>1, <2>2, <2>4, <2>5, <2>6
  <2>9. SumOf(sum, Len(hist), count)'
    BY <2>1, <2>7, <2>8, ZenonT(60) DEF SumOf, Values
  <2>10. res.count # -1 => SumOf(res.sum, res.len, res.count)'
    BY <2>1 DEF SumInv, SumOf, Values
  <2> QED BY <2>1, <2>9, <2>10 DEF SumInv
<1>5. CASE WalkEnd
  <2>1. /\ walking /\ ~walking' /\ hist' = hist
        /\ res'.sum = sum /\ res'.count = count /\ res'.len = Len(hist)
    BY <1>5 DEF WalkEnd, ringVars
  <2> QED BY <2>1 DEF SumInv, SumOf, Values
<1>6. CASE Tick
  BY <1>1, <1>6 DEF Tick, ringVars, walkVars
<1>7. ASSUME NEW r, NEW g, get_average(r, g) PROVE SumInv'
  BY <1>1, <1>7 DEF get_average, ringVars, walkVars
<1>8. CASE UNCHANGED vars
  BY <1>1, <1>8 DEF vars, ringVars, walkVars
<1> QED BY <1>2, <1>3, <1>4, <1>5, <1>6, <1>7, <1>8, ZenonT(60)
        DEF Next, Walk, add_sample, add_fetch_std_sample, add_fetch_custom_sample

\* A recursive definition of a sum is met by partial sums.
LEMMA RecursiveSum ==
  ASSUME TypeOK, NEW n \in Nat, n <= Len(hist), NEW c \in 0..n,
         NEW g, Sums(g, Values(n), c)
  PROVE  g[c] = (CHOOSE t : t = [k \in 0..n |->
                   IF k = 0 THEN 0 ELSE t[k-1] + hist[n + 1 - k].value])[c]
<1> DEFINE v == [k \in 1..n |-> hist[n + 1 - k].value]
<1>0. Values(n) = v /\ \A k \in 1..n : v[k] \in Int /\ v[k] = hist[n + 1 - k].value
  BY ValuesType DEF Values
<1>1. PICK h : Sums(h, v, n)
  BY <1>0, SumsExist, ZenonT(60)
<1>2. h = [k \in 0..n |-> IF k = 0 THEN 0 ELSE h[k-1] + hist[n + 1 - k].value]
  BY <1>0, <1>1 DEF Sums
<1> DEFINE total == CHOOSE t : t = [k \in 0..n |->
                      IF k = 0 THEN 0 ELSE t[k-1] + hist[n + 1 - k].value]
<1>3. total = [k \in 0..n |-> IF k = 0 THEN 0 ELSE total[k-1] + hist[n + 1 - k].value]
  BY <1>2, ZenonT(60)
<1> HIDE DEF total
<1> SUFFICES g[c] = total[c]
  BY DEF total
<1> DEFINE T == {k \in 0..c : g[k] # total[k]}
<1>4. ASSUME T # {} PROVE FALSE
  <2>1. T \in SUBSET Nat
    OBVIOUS
  <2>2. PICK k \in T : \A l \in T : k <= l
    BY <1>4, <2>1, Least, ZenonT(60)
  <2>3. k # 0
    BY <1>3 DEF Sums
  <2>4. k - 1 \in 0..c /\ k - 1 \notin T
    BY <2>2, <2>3
  <2>5. g[k-1] = total[k-1] /\ k \in 1..c /\ k \in 1..n
    BY <2>3, <2>4
  <2>6. g[k] = g[k-1] + Values(n)[k]
    BY <2>5 DEF Sums
  <2>7. Values(n)[k] = hist[n + 1 - k].value
    BY <2>5, ValuesType
  <2>8. total[k] = total[k-1] + hist[n + 1 - k].value
    BY <1>3, <2>5
  <2> QED BY <2>5, <2>6, <2>7, <2>8
<1> QED BY <1>4

\* The sum of sigar_rma_get_average is that of the samples it counts, for rings
\* of every size: no sample is added twice, and none of another slot.
THEOREM SumIsOfWindowHolds == Spec => []SumIsOfWindow
<1>1. Init => SumInv
  BY DEF Init, NoRes, SumInv
<1>2. Spec => []SumInv
  BY <1>1, IInvHolds, SumStep, PTL DEF Spec
<1>3. IInv /\ SumInv => SumIsOfWindow
  <2> SUFFICES ASSUME IInv, SumInv, res.count # -1
               PROVE  res.sum = (CHOOSE t : t = [k \in 0..res.len |->
                         IF k = 0 THEN 0 ELSE t[k-1] + hist[res.len + 1 - k].value])[res.count]
    BY DEF SumIsOfWindow
  <2>1. TypeOK /\ res.len \in Nat /\ res.len <= Len(hist) /\ res.count \in 0..res.len
    BY DEF IInv, TypeOK, AverageIsWindow
  <2>2. PICK g : Sums(g, Values(res.len), res.count) /\ res.sum = g[res.count]
    BY DEF SumInv, SumOf
  <2> QED BY <2>1, <2>2, RecursiveSum, ZenonT(60)
<1> QED BY <1>2, <1>3, IInvHolds, PTL

=============================================================================
