---------------------------- MODULE SigarPtqlProofs ----------------------------
(***************************************************************************)
(* Proofs about the process queries of SigarPtql, for every query the      *)
(* parser accepts, every host and every change of its processes: queries   *)
(* are freed safely, leak only what their text says and refer back; every  *)
(* process accepted satisfies the clauses; and a query finds exactly the   *)
(* processes its text describes.                                           *)
(*                                                                         *)
(* The layers of the invariant and what a step does to them are those of   *)
(* SigarPtqlSteps.  Here is what needs finite sets and their cardinality,  *)
(* beginning with the list of the processes in ascending order.            *)
(***************************************************************************)
EXTENDS SigarPtqlSteps, FiniteSetTheorems

USE ZenonT(60)

-----------------------------------------------------------------------------
(* Lists of processes.                                                     *)

\* Every set of natural numbers that is not empty has a least element.
LEMMA Least ==
  ASSUME NEW T \in SUBSET Nat, T # {}
  PROVE  \E m \in T : \A k \in T : m <= k
<1> DEFINE U == {0..m : m \in T}
           R == StrictSubsetOrdering(Nat)
<1>1. U \subseteq FiniteSubsetsOf(Nat)
  <2> SUFFICES ASSUME NEW m \in T PROVE 0..m \in FiniteSubsetsOf(Nat)
    OBVIOUS
  <2>1. IsFiniteSet(0..m) /\ 0..m \in SUBSET Nat
    BY Segment, FS_Interval
  <2> QED BY <2>1 DEF FiniteSubsetsOf
<1>2. IsWellFoundedOn(R, FiniteSubsetsOf(Nat))
  BY FS_StrictSubsetOrderingWellFounded
<1>3. U # {}
  OBVIOUS
<1> HIDE DEF U, R
<1>4. PICK s \in U : \A y \in U : ~ (<<y, s>> \in R)
  BY <1>1, <1>2, <1>3, WFMin
<1>5. PICK m \in T : s = 0..m
  BY <1>4 DEF U
<1>6. ASSUME NEW k \in T, k < m PROVE FALSE
  <2>1. <<0..k, 0..m>> \notin R
    BY <1>4, <1>5, <1>6 DEF U
  <2>2. m \in 0..m /\ m \notin 0..k
    BY <1>6, Segment, Ordered
  <2>3. 0..k \subseteq 0..m /\ 0..k # 0..m /\ 0..k \in SUBSET Nat /\ 0..m \in SUBSET Nat
    BY <1>6, <2>2, Segment, Ordered
  <2> QED BY <2>1, <2>3 DEF R, StrictSubsetOrdering
<1> QED BY <1>6, Ordered

Rises(s) == \A a, b \in DOMAIN s : a < b => s[a] < s[b]

\* A finite set of numbers can be listed in ascending order.
LEMMA Listable ==
  ASSUME NEW S \in SUBSET Nat, IsFiniteSet(S)
  PROVE  \E s \in [1..Cardinality(S) -> S] : Rises(s)
<1> DEFINE Has(U) == \E s \in [1..Cardinality(U) -> U] : Rises(s)
           T == {n \in Nat : \E U \in SUBSET Nat : IsFiniteSet(U) /\ Cardinality(U) = n /\ ~Has(U)}
<1> SUFFICES ASSUME ~Has(S) PROVE FALSE
  OBVIOUS
<1>1. Cardinality(S) \in T
  BY FS_CardinalityType
<1>2. PICK n \in T : \A k \in T : n <= k
  BY <1>1, Least
<1>3. n \in Nat
  OBVIOUS
<1>4. PICK U \in SUBSET Nat : IsFiniteSet(U) /\ Cardinality(U) = n /\ ~Has(U)
  BY <1>2
<1>5. U # {}
  <2> SUFFICES ASSUME U = {} PROVE FALSE
    OBVIOUS
  <2>1. n = 0
    BY <1>4, FS_EmptySet
  <2>2. 1..0 = {}
    BY Small
  <2>3. [k \in {} |-> 0] \in [{} -> {}] /\ Rises([k \in {} |-> 0])
    BY DEF Rises
  <2> QED BY <1>4, <2>1, <2>2, <2>3
<1>6. PICK m \in U : \A k \in U : m <= k
  BY <1>5, Least
<1> DEFINE V == U \ {m}
<1>7. IsFiniteSet(V) /\ Cardinality(V) = n - 1 /\ V \in SUBSET Nat
  BY <1>4, FS_RemoveElement
<1>8. n - 1 \in Nat /\ n # 0
  BY <1>3, <1>7, FS_CardinalityType, Before
<1>9. Has(V)
  <2>1. n - 1 \notin T
    BY <1>2, <1>3, <1>8, Before
  <2> QED BY <1>7, <1>8, <2>1
<1>10. PICK t \in [1..n - 1 -> V] : Rises(t)
  BY <1>7, <1>9
<1> DEFINE s == [k \in 1..n |-> IF k = 1 THEN m ELSE t[k - 1]]
<1> HIDE DEF T, Has
<1>11. s \in [1..n -> U]
  BY <1>3, <1>6, <1>10, Shifted
<1>12. ASSUME NEW a \in 1..n, NEW b \in 1..n, a < b PROVE s[a] < s[b]
  <2>1. b # 1 /\ b - 1 \in 1..n - 1 /\ s[b] = t[b - 1] /\ t[b - 1] \in V
    BY <1>3, <1>10, <1>12, Shifted
  <2>2. CASE a = 1
    <3>1. s[a] = m /\ m <= t[b - 1] /\ t[b - 1] # m /\ m \in Nat /\ t[b - 1] \in Nat
      BY <1>4, <1>6, <1>12, <2>1, <2>2
    <3> QED BY <2>1, <3>1, Ordered
  <2>3. CASE a # 1
    <3>1. a - 1 \in 1..n - 1 /\ a - 1 < b - 1 /\ s[a] = t[a - 1]
      BY <1>3, <1>12, <2>3, Shifted
    <3>2. DOMAIN t = 1..n - 1
      BY <1>10
    <3> QED BY <1>10, <2>1, <3>1, <3>2 DEF Rises
  <2> QED BY <2>2, <2>3
<1>13. Rises(s)
  BY <1>12 DEF Rises
<1>14. Has(U)
  BY <1>4, <1>11, <1>13 DEF Has
<1> QED BY <1>4, <1>14

\* The list of a set of processes has each of them once.
LEMMA AscendingFacts ==
  ASSUME NEW S \in SUBSET Pid
  PROVE  LET s == Ascending(S) IN s \in Seq(Pid) /\ Rng(s) = S /\ Distinct(s)
<1>1. S \in SUBSET Nat /\ IsFiniteSet(S)
  BY PtqlAssumption, FS_Subset
<1>2. PICK n : n = Cardinality(S)
  OBVIOUS
<1>3. n \in Nat
  BY <1>1, <1>2, FS_CardinalityType
<1>4. PICK s : s = Ascending(S)
  OBVIOUS
<1>5. s \in [1..n -> S] /\ \A a, b \in DOMAIN s : a < b => s[a] < s[b]
  BY <1>1, <1>2, <1>4, Listable DEF Ascending, Rises
<1>6. s \in Seq(Pid) /\ Len(s) = n
  <2>1. s \in [1..n -> Pid]
    BY <1>5
  <2> QED BY <1>3, <2>1, FunctionList
<1>7. ASSUME NEW a \in 1..n, NEW b \in 1..n, a # b PROVE s[a] # s[b]
  <2>1. s[a] \in Nat /\ s[b] \in Nat
    BY <1>1, <1>5
  <2>2. a < b \/ b < a
    BY <1>3, <1>7, Shifted, Ordered
  <2>3. s[a] < s[b] \/ s[b] < s[a]
    BY <1>5, <2>2
  <2> QED BY <2>1, <2>3, Ordered
<1>8. Distinct(s)
  BY <1>6, <1>7 DEF Distinct
<1>9. s \in Injection(1..n, S)
  BY <1>5, <1>7 DEF Injection, IsInjective
<1>10. Cardinality(1..n) = n
  <2>1. Cardinality(1..n) = IF 1 > n THEN 0 ELSE n - 1 + 1
    BY <1>3, Segment, FS_Interval
  <2> QED BY <1>3, <2>1, Segment
<1>11. s \in Surjection(1..n, S)
  BY <1>1, <1>2, <1>9, <1>10, FS_Injection
<1>12. Rng(s) = S
  BY <1>5, <1>6, <1>11 DEF Rng, Surjection
<1> QED BY <1>4, <1>6, <1>8, <1>12

-----------------------------------------------------------------------------
(* The branches of a query.                                                *)

\* The partial sums of Forgotten.
IsSum(f, bs, n) == f = [k \in 0..n |-> IF k = 0 THEN 0 ELSE f[k - 1] + Leaks(bs[k])]

\* There is a table of the partial sums of what the first n branches forget.
LEMMA SumExists ==
  ASSUME NEW bs, NEW n \in Nat
  PROVE  \E f : IsSum(f, bs, n)
<1> DEFINE T == {m \in Nat : ~\E f : IsSum(f, bs, m)}
<1> SUFFICES ASSUME n \in T PROVE FALSE
  OBVIOUS
<1>1. PICK m \in T : \A k \in T : m <= k
  BY Least
<1>2. m \in Nat /\ ~\E f : IsSum(f, bs, m)
  BY <1>1
<1>3. m # 0
  <2>1. 0..0 = {0}
    BY Small
  <2>2. IsSum([k \in 0..0 |-> 0], bs, 0)
    BY <2>1 DEF IsSum
  <2> QED BY <1>2, <2>2
<1>4. m - 1 \in Nat /\ m - 1 \notin T
  BY <1>1, <1>2, <1>3, Before
<1>5. PICK f : IsSum(f, bs, m - 1)
  BY <1>4
<1> HIDE DEF T
<1> DEFINE g == [k \in 0..m |-> IF k = m THEN f[m - 1] + Leaks(bs[m]) ELSE f[k]]
<1>6. ASSUME NEW k \in 0..m PROVE g[k] = IF k = 0 THEN 0 ELSE g[k - 1] + Leaks(bs[k])
  <2>1. CASE k = m
    BY <1>2, <1>3, <2>1, Before, Segment
  <2>2. CASE k # m
    <3>1. k \in 0..m - 1
      BY <1>2, <2>2, Before
    <3>2. f[k] = IF k = 0 THEN 0 ELSE f[k - 1] + Leaks(bs[k])
      BY <1>5, <3>1 DEF IsSum
    <3>3. g[k] = f[k] /\ (k # 0 => g[k - 1] = f[k - 1])
      BY <1>2, <2>2, Before
    <3> QED BY <3>2, <3>3
  <2> QED BY <2>1, <2>2
<1>7. g = [k \in 0..m |-> g[k]]
  OBVIOUS
<1> HIDE DEF g
<1>8. IsSum(g, bs, m)
  BY <1>6, <1>7 DEF IsSum
<1> QED BY <1>2, <1>8

\* Forgotten counts, and counts nothing when no branch leaks.
LEMMA ForgottenFacts ==
  ASSUME NEW S, NEW bs \in Seq(S)
  PROVE  /\ Forgotten(bs) \in Nat
         /\ (\A k \in 1..Len(bs) : Leaks(bs[k]) = 0) => Forgotten(bs) = 0
<1>1. PICK n \in Nat : n = Len(bs)
  BY Lists
<1>2. PICK f : IsSum(f, bs, n) /\ Forgotten(bs) = f[n]
  <2> DEFINE f == CHOOSE f : IsSum(f, bs, n)
  <2>1. IsSum(f, bs, n)
    BY SumExists
  <2>2. Forgotten(bs) = f[n]
    BY <1>1 DEF Forgotten, IsSum
  <2> QED BY <2>1, <2>2
<1>3. ASSUME NEW k \in 0..n PROVE f[k] = IF k = 0 THEN 0 ELSE f[k - 1] + Leaks(bs[k])
  BY <1>2 DEF IsSum
<1> DEFINE none == \A k \in 1..Len(bs) : Leaks(bs[k]) = 0
           T == {k \in 0..n : ~(f[k] \in Nat /\ (none => f[k] = 0))}
<1>4. T = {}
  <2> SUFFICES ASSUME T # {} PROVE FALSE
    OBVIOUS
  <2>1. T \in SUBSET Nat
    BY Segment
  <2>2. PICK k \in T : \A l \in T : k <= l
    BY <2>1, Least
  <2>3. k \in 0..n /\ ~(f[k] \in Nat /\ (none => f[k] = 0))
    OBVIOUS
  <2>4. k # 0
    <3> SUFFICES ASSUME k = 0 PROVE FALSE
      OBVIOUS
    <3>1. f[k] = 0
      BY <1>3, <2>3
    <3> QED BY <2>3, <3>1, Small
  <2>5. k - 1 \in 0..n /\ k - 1 \notin T /\ k \in 1..n
    BY <2>1, <2>2, <2>3, <2>4, Before
  <2>6. f[k - 1] \in Nat /\ (none => f[k - 1] = 0)
    BY <2>5
  <2>7. f[k] = f[k - 1] + Leaks(bs[k]) /\ Leaks(bs[k]) \in Nat /\ (none => Leaks(bs[k]) = 0)
    BY <1>1, <1>3, <2>3, <2>4, <2>5, LeaksType
  <2> QED BY <2>3, <2>6, <2>7, Sums
<1>5. n \in 0..n /\ n \notin T
  BY <1>4, Segment
<1> QED BY <1>2, <1>5

-----------------------------------------------------------------------------
(* The query from its creation to its destruction.                         *)

\* sigar_ptql_query_destroy leaves no query.
LEMMA QueryDestroy ==
  ASSUME Query, sigar_ptql_query_destroy
  PROVE  Query'
<1>1. /\ text' = << >> /\ branches' = << >> /\ size' = 0 /\ pc' = "idle" /\ Host' = Host
      /\ lost' = Forgotten(branches)
  BY DEF sigar_ptql_query_destroy, Host, kernel
<1>2. (\E S : branches' \in Seq(S)) /\ ListOK(branches', << >>) /\ AllOk(branches', << >>) /\ InOrder(branches')
  BY <1>1, EmptyList
<1>3. Filed'
  BY <1>1, <1>2 DEF Filed, Finding
<1>4. size' \in Nat /\ Len(branches') <= size'
  BY <1>1, Small, NoMembers
<1>5. lost' \in Nat
  <2>1. PICK S : branches \in Seq(S)
    BY DEF Query
  <2> QED BY <1>1, <2>1, ForgottenFacts
<1> QED BY <1>1, <1>2, <1>3, <1>4, <1>5, EmptyText DEF Query

-----------------------------------------------------------------------------
(* The loops of find.                                                      *)

\* The processes of the kernel form a list.
LEMMA LiveList == Live \in Seq(Pid)
<1>1. {p \in Pid : ~Gone(p)} \in SUBSET Pid
  OBVIOUS
<1> QED BY <1>1, AscendingFacts DEF Live

\* Listing the processes of a Pid branch keeps the loops in bounds.
LEMMA LoopsList ==
  ASSUME Query, Loops, ListStep
  PROVE  Loops' /\ pc' \in Finding
<1>1. pc = "list" /\ branches' = branches
  BY DEF ListStep, queryVars
<1>2. CASE Return("ERROR", << >>) /\ shared' = << >>
  <2>1. shared' \in Seq(Pid)
    BY <1>2, NoMembers
  <2> QED BY <1>2, <2>1, LoopsReturn DEF Finding
<1>3. CASE /\ shared' = Live
           /\ \E keep \in SUBSET {p \in Pid : TRUE \in PidMatches(branches[i], p)} :
                pids' = pids \o Ascending({p \in keep : ~Gone(p)})
           /\ i' = i + 1 /\ pc' = "filter" /\ UNCHANGED <<own, j, parent, out>>
  <2>1. PICK keep \in SUBSET Pid : pids' = pids \o Ascending({p \in keep : ~Gone(p)})
    BY <1>3
  <2>2. PICK S \in SUBSET Pid : pids' = pids \o Ascending(S)
    BY <2>1
  <2>3. Ascending(S) \in Seq(Pid)
    BY AscendingFacts
  <2>4. pids' \in Seq(Pid)
    BY <2>2, <2>3, Lists DEF Loops
  <2>5. i + 1 \in 1..Len(branches) + 1
    BY <1>1, BranchCount, Place DEF Loops
  <2>6. shared' \in Seq(Pid)
    BY <1>3, LiveList
  <2> QED BY <1>1, <1>3, <2>4, <2>5, <2>6 DEF Loops, Finding
<1> QED BY <1>2, <1>3 DEF ListStep

\* The walk over the processes starts at the first process and the first
\* branch.
LEMMA LoopsFilterEnd ==
  ASSUME Query, Loops, FilterEnd
  PROVE  Loops' /\ pc' \in Finding
<1>1. pc = "filter" /\ branches' = branches
  BY DEF FilterEnd, queryVars
<1>2. CASE Return("ERROR", << >>) /\ shared' = << >>
  <2>1. shared' \in Seq(Pid)
    BY <1>2, NoMembers
  <2> QED BY <1>2, <2>1, LoopsReturn DEF Finding
<1>3. CASE /\ shared' = IF own THEN shared ELSE Live
           /\ pc' = "match" /\ i' = 1 /\ j' = 1 /\ UNCHANGED <<own, pids, parent, out>>
  <2>1. shared' \in Seq(Pid)
    BY <1>3, LiveList DEF Loops
  <2>2. List' \in Seq(Pid)
    BY <1>3, <2>1 DEF List, Loops
  <2>3. 1 \in 1..Len(List') + 1 /\ Len(<< >>) < 1
    BY <2>2, Lists, NoMembers, Small, Place
  <2>4. out = << >> /\ parent = NoPid /\ 1 \in 1..Len(branches)
    BY <1>1, BranchCount DEF Loops, Finding
  <2> QED BY <1>1, <1>3, <2>1, <2>3, <2>4 DEF Loops, Finding
<1> QED BY <1>2, <1>3 DEF FilterEnd

-----------------------------------------------------------------------------
(* What holds of every state.                                              *)

\* So does every other step of find.
LEMMA SearchLoops ==
  ASSUME Query, Loops, Search
  PROVE  Loops' /\ pc \in Finding /\ pc' \in Finding /\ UNCHANGED <<kernel, queryVars>>
<1>1. CASE FindBegin
  BY <1>1, LoopsBegin DEF FindBegin, Finding
<1>2. CASE FilterStep
  BY <1>2, LoopsFilter DEF FilterStep, Finding
<1>3. CASE ListStep
  BY <1>3, LoopsList DEF ListStep, Finding
<1>4. CASE FilterEnd
  BY <1>4, LoopsFilterEnd DEF FilterEnd, Finding
<1>5. CASE MatchParent
  BY <1>5, LoopsParent DEF MatchParent, Finding
<1>6. CASE FindEnd
  <2>1. pc = "match" /\ Return("OK", out) /\ UNCHANGED <<kernel, queryVars, shared>>
    BY <1>6 DEF FindEnd
  <2> QED BY <2>1, LoopsReturn DEF Finding, Loops
<1> QED BY <1>1, <1>2, <1>3, <1>4, <1>5, <1>6 DEF Search

\* Every step keeps the basic invariant.
LEMMA BasicNext == Basic /\ [Next]_vars => Basic'
<1> SUFFICES ASSUME Kernel, Query, Loops, Clean, [Next]_vars PROVE Basic'
  BY DEF Basic
<1>1. ASSUME NEW t \in Host.texts, sigar_ptql_query_create(t) PROVE Basic'
  <2>1. UNCHANGED <<kernel, findVars>> /\ pc = "idle" /\ pc' = "create" /\ lost' = 0
    BY <1>1 DEF sigar_ptql_query_create
  <2>2. Loops'
    BY <2>1, LoopsRest DEF findVars, Resting, Loops
  <2> QED BY <1>1, <2>1, <2>2, KernelKept, QueryCreate DEF Basic, Clean
<1>2. ASSUME AddBranch PROVE Basic'
  <2>1. UNCHANGED <<kernel, findVars>> /\ pc = "create" /\ pc' \in Resting /\ lost' = lost
    BY <1>2 DEF AddBranch, Resting
  <2>2. Loops'
    BY <2>1, LoopsRest DEF findVars, Resting, Loops
  <2> QED BY <1>2, <2>1, <2>2, KernelKept, QueryAdd DEF Basic, Clean
<1>3. ASSUME sigar_ptql_query_destroy PROVE Basic'
  <2>1. /\ UNCHANGED <<kernel, shared, own, pids, i, j, parent, out>>
        /\ pc \in Resting /\ pc' = "idle" /\ res' = NoRes
    BY <1>3 DEF sigar_ptql_query_destroy, Resting
  <2>2. Loops'
    BY <2>1, LoopsRest DEF Resting
  <2> QED BY <1>3, <2>1, <2>2, KernelKept, QueryDestroy DEF Basic, Clean
<1>4. ASSUME Search PROVE Basic'
  <2>1. Loops' /\ pc \in Finding /\ pc' \in Finding /\ UNCHANGED <<kernel, queryVars>>
    BY <1>4, SearchLoops
  <2>2. Query'
    BY <2>1, QueryKept DEF kernel, queryVars
  <2>3. Clean'
    BY <2>1 DEF Clean, Finding, queryVars
  <2> QED BY <2>1, <2>2, <2>3, KernelKept DEF Basic
<1>5. ASSUME MatchStep PROVE Basic'
  <2>1. Loops' /\ Query' /\ pc' \in Finding
    BY <1>5, LoopsMatch
  <2>2. pc = "match" /\ UNCHANGED <<kernel, lost>>
    BY <1>5 DEF MatchStep
  <2> QED BY <2>1, <2>2, KernelKept DEF Basic, Clean
<1>6. ASSUME KernelStep PROVE Basic'
  <2>1. UNCHANGED <<queryVars, findVars, pc, host>>
    BY <1>6 DEF KernelStep
  <2>2. Query'
    BY <2>1, QueryKept DEF queryVars
  <2>3. Loops'
    BY <2>1, LoopsKept DEF queryVars
  <2> QED BY <1>6, <2>1, <2>2, <2>3, KernelNext DEF Basic, Clean, queryVars
<1>7. ASSUME UNCHANGED vars PROVE Basic'
  <2>1. UNCHANGED <<kernel, queryVars, findVars, pc>>
    BY <1>7 DEF vars
  <2>2. Query'
    BY <2>1, QueryKept DEF queryVars, kernel
  <2>3. Loops'
    BY <2>1, LoopsKept DEF queryVars
  <2> QED BY <2>1, <2>2, <2>3, KernelKept DEF Basic, Clean, queryVars
<1> QED BY <1>1, <1>2, <1>3, <1>4, <1>5, <1>6, <1>7 DEF Next, Search

\* The basic invariant: the kernel, the list of branches and the loops of
\* find are sound in every state, and a branch differs from what
\* ptql_branch_add made of its clause in its buffer only.
THEOREM BasicHolds == Spec => []Basic
BY BasicInit, BasicNext, PTL DEF Spec

\* The type invariant TypeOK: the list of branches has room for them, whatever
\* the query, and the loops of find never run past the branches or the
\* processes, however processes come and go between two steps.
THEOREM TypeHolds == Spec => []TypeOK
BY BasicHolds, BasicType, PTL

\* DestroySafe: in every state that ptql_branch_add, a failing init or a match
\* leaves a branch in, ptql_branch_destroy frees nothing but memory.
THEOREM DestroySafeHolds == Spec => []DestroySafe
<1>1. Basic => DestroySafe
  <2> SUFFICES ASSUME Basic, NEW k \in 1..Len(branches)
               PROVE  /\ FreesData(branches[k]) => branches[k].data.kind = "block"
                      /\ FreesValue(branches[k]) => branches[k].value.kind = "block"
    BY DEF DestroySafe
  <2>1. Entry(branches[k], text) /\ IsText(text)
    BY DEF Basic, Query, Filed, ListOK
  <2> QED BY <2>1, EntrySafe
<1> QED BY <1>1, BasicHolds, PTL

\* RefsPointBack: a reference $n reads the branch of clause n, which is
\* evaluated before it, for the branches are sorted only without references.
THEOREM RefsPointBackHolds == Spec => []RefsPointBack
<1>1. Basic => RefsPointBack
  BY RefBack DEF Basic, RefsPointBack
<1> QED BY <1>1, BasicHolds, PTL

\* LeaksOnlyUnseen: destroying a query, also one whose creation failed,
\* forgets no memory but a variable's value given to a number, an empty file
\* name and an empty name of an environment variable.
THEOREM LeaksOnlyUnseenHolds == Spec => LeaksOnlyUnseen
<1> DEFINE Excused == \E k \in 1..Len(text) : Unseen(Clause(k))
<1>1. ASSUME Basic, Next PROVE lost' > 0 => Excused
  <2>1. ~(0 > 0)
    BY Small
  <2>2. CASE lost' = 0
    BY <2>1, <2>2
  <2>3. CASE sigar_ptql_query_destroy
    <3> SUFFICES ASSUME lost' > 0 PROVE Excused
      OBVIOUS
    <3>1. PICK S : branches \in Seq(S)
      BY <1>1 DEF Basic, Query
    <3>2. lost' = Forgotten(branches)
      BY <2>3 DEF sigar_ptql_query_destroy
    <3>3. PICK k \in 1..Len(branches) : Leaks(branches[k]) # 0
      BY <2>1, <3>1, <3>2, ForgottenFacts
    <3>4. PICK b : b = branches[k]
      OBVIOUS
    <3>5. Entry(b, text) /\ IsText(text)
      BY <1>1, <3>4 DEF Basic, Query, Filed, ListOK
    <3>6. PICK c : c = ClauseOf(text, b.pos)
      OBVIOUS
    <3>7. Unseen(c) /\ b.pos \in 1..Len(text) /\ c = Clause(b.pos)
      BY <3>3, <3>4, <3>5, <3>6, EntryLeaks DEF Entry, Clause, ClauseOf
    <3> QED BY <3>7
  <2>4. CASE ~sigar_ptql_query_destroy
    <3>1. (\E t : sigar_ptql_query_create(t)) \/ (pc # "idle" /\ lost' = lost)
      BY <1>1, <2>4 DEF Next, AddBranch, FindBegin, FilterStep, ListStep, FilterEnd, MatchParent,
                        MatchStep, FindEnd, KernelStep, queryVars
    <3>2. lost' = 0
      BY <1>1, <3>1 DEF sigar_ptql_query_create, Basic, Clean
    <3> QED BY <2>1, <3>2
  <2> QED BY <2>3, <2>4
<1>2. Basic /\ [Next]_vars => [lost' > 0 => Excused]_vars
  BY <1>1
<1> QED BY <1>2, BasicHolds, PTL DEF Spec, LeaksOnlyUnseen

-----------------------------------------------------------------------------
(* Every process accepted satisfies the clauses.                           *)

\* There are as many branches as clauses, so every clause has its branch.
LEMMA EveryClause ==
  ASSUME Query, pc \in Finding, NEW k \in 1..Len(text)
  PROVE  \E n \in 1..Len(branches) : branches[n].pos = k
<1>1. PICK N : N = Len(branches)
  OBVIOUS
<1>2. N \in Nat /\ Len(text) = N
  BY <1>1, BranchCount DEF Query, Filed
<1>3. PICK f : f = [n \in 1..N |-> branches[n].pos]
  OBVIOUS
<1>4. f \in [1..N -> 1..N]
  BY <1>1, <1>2, <1>3, BranchStands
<1>5. ASSUME NEW m \in 1..N, NEW n \in 1..N, f[m] = f[n] PROVE m = n
  <2>1. branches[m].pos = branches[n].pos
    BY <1>3, <1>5
  <2> QED BY <1>1, <2>1 DEF Query, Filed, ListOK
<1>6. f \in Injection(1..N, 1..N)
  BY <1>4, <1>5 DEF Injection, IsInjective
<1>7. IsFiniteSet(1..N)
  BY <1>2, Segment, FS_Interval
<1>8. f \in Surjection(1..N, 1..N)
  BY <1>6, <1>7, FS_Injection
<1>9. k \in 1..N
  BY <1>2
<1>10. PICK n \in 1..N : f[n] = k
  BY <1>8, <1>9 DEF Surjection
<1> QED BY <1>1, <1>3, <1>10

\* The notes: the branches asked so far of the process at hand have all said
\* yes to what they read, and what they read of a steady process is what it
\* has.
THEOREM SeenHolds == Spec => [](Basic /\ Seen)
<1>1. Init => Seen
  BY DEF Init, Seen
<1> QED BY <1>1, BasicInit, BasicNext, SeenNext, PTL DEF Spec

\* AcceptedHolds: a process is added to the answer of a find only if every
\* clause of the text holds of what its branch read for this process or its
\* parent, also the clauses that refer to one another, whatever the order of
\* the branches and what their buffers held before.
THEOREM AcceptedHoldsAlways == Spec => AcceptedHolds
<1>1. ASSUME Basic, Seen, Next, Len(out') > Len(out), Meaningful, NEW k \in 1..Len(text)
      PROVE  Says(k, view')
  <2>1. MatchStep /\ Query /\ Loops
    BY <1>1, OnlyMatch DEF Basic
  <2>2. out' # out /\ out' # << >>
    BY <1>1, SMTT(60) DEF Basic, Loops
  <2>3. pc = "match" /\ i \in 1..Len(branches)
    BY <2>1 DEF MatchStep, Loops
  <2>4. \A st : ~NextProc(st)
    BY <2>2 DEF NextProc, Return
  <2>5. PICK m : Answered(m)
    BY <1>1, <2>1, <2>4, MatchAnswers DEF GaveUp
  <2>6. m /\ ~(i < Len(branches))
    BY <2>2, <2>4, <2>5 DEF Answered, Answer
  <2>7. i = Len(branches)
    BY <2>1, <2>3, <2>6, BranchCount, Place
  <2>8. PICK n \in 1..Len(branches) : branches[n].pos = k
    BY <1>1, <2>1, <2>3, EveryClause DEF Finding
  <2>9. Asked(branches'[n], view')
    BY <1>1, <2>1, <2>5, <2>6, <2>7, AskedNext
  <2>10. branches'[n].pos = k
    BY <2>1, <2>8, MatchKeeps
  <2> QED BY <2>9, <2>10 DEF Asked
<1>2. Basic /\ Seen /\ [Next]_vars =>
        [Len(out') > Len(out) /\ Meaningful => \A k \in 1..Len(text) : Says(k, view')]_vars
  BY <1>1
<1> QED BY <1>2, SeenHolds, PTL DEF Spec, AcceptedHolds

-----------------------------------------------------------------------------
(* The list of processes that find walks.                                  *)

\* A Pid branch adds exactly the processes it picks that the list does not
\* hold.
LEMMA ChosenList ==
  ASSUME Query, Loops, Chosen, ListStep
  PROVE  Chosen'
<1>1. CASE Return("ERROR", << >>)
  BY <1>1, ChosenRest DEF Return
<1>2. CASE ~Return("ERROR", << >>)
  <2>1. /\ pc = "list" /\ pc' = "filter" /\ i' = i + 1
        /\ UNCHANGED <<proc, os, text, branches, touched, own>> /\ i \in 1..Len(branches)
    BY <1>2 DEF ListStep, Loops, kernel, queryVars
  <2>2. PICK S \in SUBSET Pid :
           /\ pids' = pids \o Ascending(S)
           /\ 0 \notin touched /\ Meaningful => \A p \in Pid : p \in S <=> ~Gone(p) /\ Picks(branches[i], p)
    BY <2>1, ListKeeps
  <2>3. PICK k : k = i
    OBVIOUS
  <2>4. 1..k = (1..k - 1) \cup {k} /\ i' - 1 = k /\ 1..k - 1 \subseteq 1..Len(branches) /\ k \notin 1..k - 1
    BY <2>1, <2>3, BranchCount, UpTo
  <2>5. own /\ OfPids(k)
    BY <2>1, <2>3 DEF Chosen, Owned
  <2>6. PICK s \in Seq(Pid) : s = Ascending(S) /\ Rng(s) = S /\ Distinct(s)
    BY AscendingFacts
  <2>7. pids \in Seq(Pid)
    BY DEF Loops
  <2>8. Owned'
    BY <2>1, <2>3, <2>4, <2>5, PidsKept DEF Owned
  <2>9. Once'
    <3>1. ASSUME Single PROVE Distinct(pids')
      <4>1. \A n \in 1..k - 1 : ~OfPids(n)
        BY <2>1, <2>3, <2>4, <2>5, <3>1 DEF Single
      <4>2. pids = << >>
        BY <2>1, <2>3, <4>1 DEF Chosen, Once
      <4>3. pids' = s
        BY <2>2, <2>6, <4>2, Lists
      <4> QED BY <2>6, <4>3
    <3>2. k \in 1..i' - 1 /\ OfPids(k)'
      BY <2>1, <2>4, <2>5, PidsKept
    <3> QED BY <2>1, <3>1, <3>2, PidsKept DEF Once
  <2>10. Gathered'
    <3>1. Rng(pids') = Rng(pids) \cup S
      BY <2>2, <2>6, <2>7, RangeConcat
    <3>2. ASSUME 0 \notin touched, Meaningful, NEW p \in Pid \ touched
          PROVE  p \in Rng(pids') <=> ~Gone(p) /\ Wanted(p, k)
      <4>1. p \in Rng(pids) <=> ~Gone(p) /\ Wanted(p, k - 1)
        BY <2>1, <2>3, <3>2 DEF Chosen, Gathered
      <4>2. p \in S <=> ~Gone(p) /\ Picks(branches[k], p)
        BY <2>2, <2>3, <3>2
      <4>3. Wanted(p, k) <=> Wanted(p, k - 1) \/ Picks(branches[k], p)
        BY <2>1, <2>3, <2>5, WantedStep
      <4> QED BY <3>1, <4>1, <4>2, <4>3
    <3>3. \A p : (Wanted(p, k)' <=> Wanted(p, k)) /\ (Gone(p)' <=> Gone(p))
      BY <2>1, WantedKept, GoneKept
    <3> QED BY <2>1, <2>4, <3>2, <3>3, MeaningfulKept DEF Gathered
  <2> QED BY <2>8, <2>9, <2>10 DEF Chosen
<1> QED BY <1>1, <1>2

\* The list find walks: the chosen processes, or all.
LEMMA ChosenFilterEnd ==
  ASSUME Query, Loops, Chosen, FilterEnd
  PROVE  Chosen'
<1>1. CASE Return("ERROR", << >>)
  BY <1>1, ChosenRest DEF Return
<1>2. CASE ~Return("ERROR", << >>)
  <2>1. /\ pc = "filter" /\ pc' = "match" /\ i > Len(branches)
        /\ shared' = IF own THEN shared ELSE Live
        /\ UNCHANGED <<proc, os, text, branches, touched, own, pids>>
    BY <1>2 DEF FilterEnd, kernel, queryVars
  <2>2. PICK l : l = Len(branches)
    OBVIOUS
  <2>3. i - 1 = l
    <3>1. i \in 1..l + 1
      BY <2>1, <2>2 DEF Loops
    <3> QED BY <2>1, <2>2, <3>1, BranchCount, Place
  <2>4. own <=> \E n \in 1..l : OfPids(n)
    BY <2>1, <2>3 DEF Chosen, Owned
  <2>5. List' = IF own THEN pids ELSE Live
    BY <2>1 DEF List
  <2>6. PICK G \in SUBSET Pid : G = {p \in Pid : ~Gone(p)}
    OBVIOUS
  <2>7. Live = Ascending(G)
    BY <2>6 DEF Live
  <2>8. Rng(Live) = G /\ Distinct(Live)
    BY <2>7, AscendingFacts
  <2>9. Owned'
    BY <2>1, <2>2, <2>4, PidsKept DEF Owned
  <2>10. Once'
    <3>1. Single => Distinct(List')
      BY <2>1, <2>5, <2>8 DEF Chosen, Once
    <3> QED BY <2>1, <3>1, PidsKept DEF Once
  <2>11. Gathered'
    <3>1. ASSUME own => 0 \notin touched, Meaningful, NEW p \in Pid \ touched
          PROVE  p \in Rng(List') <=> ~Gone(p) /\ (own => Wanted(p, l))
      <4>1. CASE own
        BY <2>1, <2>3, <2>5, <3>1, <4>1 DEF Chosen, Gathered
      <4>2. CASE ~own
        BY <2>5, <2>6, <2>8, <4>2
      <4> QED BY <4>1, <4>2
    <3>2. \A p : (Wanted(p, l)' <=> Wanted(p, l)) /\ (Gone(p)' <=> Gone(p))
      BY <2>1, WantedKept, GoneKept
    <3> QED BY <2>1, <2>2, <3>1, <3>2, MeaningfulKept DEF Gathered
  <2> QED BY <2>9, <2>10, <2>11 DEF Chosen
<1> QED BY <1>1, <1>2

\* Every step keeps the choice right.
LEMMA ChosenNext == Basic /\ Chosen /\ [Next]_vars => Chosen'
<1> SUFFICES ASSUME Kernel, Query, Loops, Chosen, [Next]_vars PROVE Chosen'
  BY DEF Basic
<1>1. ASSUME NEW t, sigar_ptql_query_create(t) PROVE Chosen'
  BY <1>1, ChosenRest DEF sigar_ptql_query_create
<1>2. ASSUME AddBranch PROVE Chosen'
  BY <1>2, ChosenRest DEF AddBranch
<1>3. ASSUME sigar_ptql_query_destroy PROVE Chosen'
  BY <1>3, ChosenRest DEF sigar_ptql_query_destroy
<1>4. ASSUME FindEnd PROVE Chosen'
  BY <1>4, ChosenRest DEF FindEnd, Return
<1>5. ASSUME UNCHANGED vars PROVE Chosen'
  <2>1. UNCHANGED <<proc, os, text, branches, pc, shared, own, pids, i, j, match_pid, touched>>
    BY <1>5 DEF vars, kernel, queryVars, findVars
  <2>2. List' = List
    BY <2>1 DEF List
  <2>3. \A b : ptql_pid_get(b)' = ptql_pid_get(b)
    BY <2>1 DEF ptql_pid_get
  <2>4. Owned' /\ Once'
    BY <2>1, <2>2, <2>3, PidsKept DEF Chosen, Owned, Once
  <2>5. Gathered'
    BY <2>1, <2>2, WantedKept, GoneKept, MeaningfulKept DEF Chosen, Gathered
  <2> QED BY <2>4, <2>5 DEF Chosen
<1> QED BY <1>1, <1>2, <1>3, <1>4, <1>5, ChosenBegin, ChosenFilter, ChosenList, ChosenFilterEnd,
           ChosenMatch, ChosenKernel DEF Next

-----------------------------------------------------------------------------
(* What a query means of a process, in terms of its branches.              *)

\* A query has a Pid clause if it has a branch of one.
LEMMA PidClausesAre ==
  ASSUME Query, pc \in Finding
  PROVE  PidClauses # {} <=> \E n \in 1..Len(branches) : OfPids(n)
<1>1. ASSUME NEW n \in 1..Len(branches) PROVE OfPids(n) <=> branches[n].pos \in PidClauses
  BY <1>1, OfPidClause
<1>2. ASSUME NEW k \in PidClauses PROVE \E n \in 1..Len(branches) : branches[n].pos = k
  BY <1>2, EveryClause DEF PidClauses
<1> QED BY <1>1, <1>2

\* Nor do changes to other processes, for a process that is steady.
LEMMA FitsBack ==
  ASSUME Kernel, Query, KernelStep, NEW p \in Pid, Steady(p)'
  PROVE  Fits(p)' <=> Fits(p)
<1>1. UNCHANGED <<text, branches, pc>> /\ pc \in Finding
  BY DEF KernelStep, queryVars, Finding
<1>2. PICK l : l = Len(branches)
  OBVIOUS
<1>3. p \notin touched' /\ (PidClauses # {} => 0 \notin touched')
  BY SteadyBack
<1>4. Gone(p)' <=> Gone(p)
  BY <1>3, FrameStatus
<1>5. \A n : OfPids(n)' <=> OfPids(n)
  BY <1>1, PidsKept
<1>6. (\E n \in 1..l : OfPids(n)) => (Wanted(p, l)' <=> Wanted(p, l))
  <2> SUFFICES ASSUME \E n \in 1..l : OfPids(n) PROVE Wanted(p, l)' <=> Wanted(p, l)
    OBVIOUS
  <2>1. 0 \notin touched'
    BY <1>1, <1>2, <1>3, PidClausesAre
  <2>2. os' = os
    BY <2>1, KernelFrame
  <2> QED BY <1>1, <2>2, WantedKept
<1>7. ASSUME NEW n \in 1..l
      PROVE  /\ Gives(branches[n], p)' <=> Gives(branches[n], p)
             /\ Gives(branches[n], p) =>
                  Reads(branches[n], Source(branches[n], p))' = Reads(branches[n], Source(branches[n], p))
  <2>1. PICK b : b = branches[n]
    OBVIOUS
  <2>2. branches'[n] = b
    BY <1>1, <2>1
  <2>3. Gives(b, p)' <=> Gives(b, p)
    BY FrameGives
  <2>4. Gives(b, p) => Reads(b, Source(b, p))' = Reads(b, Source(b, p))
    BY FrameGives
  <2> QED BY <2>1, <2>2, <2>3, <2>4
<1>8. (\A n \in 1..l : Gives(branches[n], p)) => \A v : Views(v, p)' <=> Views(v, p)
  BY <1>1, <1>2, <1>7 DEF Views
<1>9. \A v : (\A n \in 1..l : Says(branches[n].pos, v))' <=> \A n \in 1..l : Says(branches[n].pos, v)
  BY <1>1, SaysKept
<1> QED BY <1>1, <1>2, <1>4, <1>5, <1>6, <1>7, <1>8, <1>9 DEF Fits

-----------------------------------------------------------------------------
(* The processes judged so far.                                            *)

\* What the list tells of its steady processes.
LEMMA Listed ==
  ASSUME Query, Loops, Chosen, pc = "match", Meaningful, NEW p \in Pid, Steady(p)
  PROVE  p \in Rng(List) <=>
           ~Gone(p) /\ ((\E n \in 1..Len(branches) : OfPids(n)) => Wanted(p, Len(branches)))
<1>1. own <=> \E n \in 1..Len(branches) : OfPids(n)
  BY DEF Chosen, Owned
<1>2. p \in Pid \ touched /\ (own => 0 \notin touched)
  BY <1>1, PidClausesAre DEF Steady, Finding
<1> QED BY <1>1, <1>2 DEF Chosen, Gathered

\* A process that the last branch accepts is meant.
LEMMA Accepts ==
  ASSUME Query, Loops, Seen, Chosen, MatchStep, NEW m, Answered(m), m, ~(i < Len(branches)),
         Meaningful, Steady(List[j])
  PROVE  Fits(List[j])
<1>1. pc = "match" /\ i \in 1..Len(branches) /\ j <= Len(List)
  BY DEF MatchStep, Loops
<1>2. PICK p : p = List[j]
  OBVIOUS
<1>3. i = Len(branches)
  BY <1>1, BranchCount, Place
<1>4. ~Gone(p) /\ ((\E n \in 1..Len(branches) : OfPids(n)) => Wanted(p, Len(branches)))
  BY <1>1, <1>2, AtHand, Listed
<1>5. \A n \in 1..Len(branches) : Gives(branches[n], p)
  BY <1>2, <1>3, GenuineNow
<1>6. PICK w : w = view'
  OBVIOUS
<1>7. Views(w, p)
  BY <1>2, <1>3, <1>6, GenuineNow DEF Views
<1>8. ASSUME NEW n \in 1..Len(branches) PROVE Says(branches[n].pos, w)
  <2>1. Asked(branches'[n], w)
    BY <1>3, <1>6, AskedNext
  <2>2. branches'[n].pos = branches[n].pos
    BY MatchKeeps
  <2> QED BY <2>1, <2>2 DEF Asked
<1> QED BY <1>2, <1>4, <1>5, <1>7, <1>8 DEF Fits

\* A match passes over, goes on with or accepts a process rightly.
LEMMA JudgedMatch ==
  ASSUME Query, Loops, Seen, Chosen, Judged, MatchStep
  PROVE  Judged'
<1>1. pc = "match" /\ j <= Len(List) /\ UNCHANGED shared
  BY DEF MatchStep
<1>2. Still
  BY MatchSimilar, LoopsMatch DEF Still, MatchStep, kernel
<1>3. CASE GaveUp
  <2>1. Meaningful /\ Steady(List[j]) => ~Fits(List[j])
    BY <1>3, Unreadable
  <2>2. PICK st : NextProc(st)
    BY <1>3 DEF GaveUp
  <2> QED BY <1>1, <1>2, <2>1, <2>2, JudgedNextProc
<1>4. ASSUME NEW m, Answered(m) PROVE Judged'
  <2>1. Answer(m)
    BY <1>4 DEF Answered
  <2>2. CASE ~m
    <3>1. Meaningful /\ Steady(List[j]) => ~Fits(List[j])
      <4>1. ASSUME Meaningful, Steady(List[j]) PROVE ~Fits(List[j])
        BY <1>4, <2>2, <4>1, Rejects, SMTT(60)
      <4> QED BY <4>1
    <3>2. PICK st : NextProc(st)
      BY <2>1, <2>2 DEF Answer
    <3> QED BY <1>1, <1>2, <3>1, <3>2, JudgedNextProc
  <2>3. CASE m /\ i < Len(branches)
    <3>1. pc' = "match" /\ UNCHANGED <<own, pids, j, out>>
      BY <1>1, <2>1, <2>3 DEF Answer
    <3>2. List' = List
      BY <1>1, <3>1 DEF List
    <3> QED BY <1>1, <1>2, <3>1, <3>2, JudgedStay
  <2>4. CASE m /\ ~(i < Len(branches))
    <3>1. pc' = "match" /\ j' = j + 1 /\ out' = Append(out, List[j]) /\ UNCHANGED <<own, pids>>
      BY <1>1, <2>1, <2>4 DEF Answer
    <3>2. List' = List
      BY <1>1, <3>1 DEF List
    <3>3. Meaningful /\ Steady(List[j]) => Fits(List[j])
      BY <1>4, <2>4, Accepts
    <3> QED BY <1>1, <1>2, <3>1, <3>2, <3>3, JudgedMove
  <2> QED BY <2>2, <2>3, <2>4
<1> QED BY <1>3, <1>4, MatchAnswers

\* A change of the kernel leaves the verdicts on steady processes right.
LEMMA JudgedKernel ==
  ASSUME Kernel, Query, Judged, KernelStep
  PROVE  Judged'
<1>1. UNCHANGED <<text, shared, own, pids, j, out, pc>>
  BY DEF KernelStep, queryVars, findVars
<1>2. List' = List /\ Passed' = Passed
  BY <1>1 DEF List, Passed
<1>3. ASSUME NEW p \in Pid, Steady(p)' PROVE Steady(p) /\ (Fits(p)' <=> Fits(p))
  BY <1>3, SteadyBack, FitsBack
<1> QED BY <1>1, <1>2, <1>3, MeaningfulKept DEF Judged

-----------------------------------------------------------------------------
(* What find returns.                                                      *)

\* At the end of the walk the accepted processes are the answer.
LEMMA FoundEnd ==
  ASSUME Query, Loops, Chosen, Judged, FindEnd
  PROVE  Found'
<1>1. /\ pc = "match" /\ j > Len(List) /\ Return("OK", out)
      /\ UNCHANGED <<host, proc, os, text, touched, branches>>
  BY DEF FindEnd, kernel, queryVars
<1>2. PICK r : r = [status |-> "OK", list |-> out, pid |-> IF Len(out) = 1 THEN out[1] ELSE NoPid]
  OBVIOUS
<1>3. res' = r
  BY <1>1, <1>2 DEF Return
<1>4. r.list = out /\ r.pid = IF Len(out) = 1 THEN out[1] ELSE NoPid
  BY <1>2, SMTT(60)
<1>5. r.pid # NoPid <=> Len(out) = 1
  <2>1. ASSUME Len(out) = 1 PROVE out[1] # NoPid
    <3>0. out \in Seq(Pid)
      BY DEF Loops
    <3>1. out[1] \in Pid
      BY <2>1, <3>0, Lists, Small
    <3>2. out[1] \in Nat
      BY <3>1, PtqlAssumption
    <3> QED BY <3>2, SMTT(60) DEF NoPid
  <2> QED BY <1>4, <2>1
<1>6. Still
  BY <1>1, StillSame
<1>7. Passed = Rng(List)
  <2>1. j - 1 = Len(List)
    BY <1>1, ListType, Lists, Place DEF Loops
  <2> QED BY <2>1 DEF Passed, Rng
<1>8. ASSUME Meaningful, NEW p \in Pid, Steady(p) PROVE Fits(p) <=> p \in Rng(out)
  <2>1. Fits(p) => p \in Passed
    BY <1>1, <1>7, <1>8, Listed DEF Fits
  <2>2. p \in Rng(out) => p \in Passed
    BY <1>1, <1>8 DEF Judged
  <2>3. p \in Passed => (Fits(p) <=> p \in Rng(out))
    BY <1>1, <1>8 DEF Judged
  <2> QED BY <2>1, <2>2, <2>3
<1>9. Meaningful /\ Single => Distinct(out)
  BY <1>1 DEF Chosen, Once, Judged
<1>10. Single' <=> Single
  BY <1>1, PidsKept
<1>11. (Meaningful' <=> Meaningful) /\ \A p : (Fits(p)' <=> Fits(p)) /\ (Steady(p)' <=> Steady(p))
  BY <1>1, <1>6, StillFits DEF Finding
<1> QED BY <1>3, <1>4, <1>5, <1>8, <1>9, <1>10, <1>11 DEF Found

\* A change of the kernel leaves the answer right for steady processes.
LEMMA FoundKernel ==
  ASSUME Kernel, Query, Found, KernelStep
  PROVE  Found'
<1>1. UNCHANGED <<text, branches, res, pc>>
  BY DEF KernelStep, queryVars, findVars
<1>2. ASSUME NEW p \in Pid, Steady(p)' PROVE Steady(p) /\ (Fits(p)' <=> Fits(p))
  BY <1>2, SteadyBack, FitsBack
<1> QED BY <1>1, <1>2, MeaningfulKept, PidsKept DEF Found

\* The verdicts so far, and those of the last find.
Answers == Judged /\ Found

\* Every step keeps the verdicts and the answer right.
LEMMA AnswersNext == Basic /\ Seen /\ Chosen /\ Answers /\ [Next]_vars => Answers'
<1> SUFFICES ASSUME Kernel, Query, Loops, Seen, Chosen, Judged, Found, [Next]_vars PROVE Judged' /\ Found'
  BY DEF Basic, Answers
<1>1. ASSUME NEW t, sigar_ptql_query_create(t) PROVE pc' = "create"
  BY <1>1 DEF sigar_ptql_query_create
<1>2. ASSUME AddBranch PROVE pc' # "match" /\ res'.status # "OK"
  <2>1. pc = "create" /\ res' = res /\ pc' # "match"
    BY <1>2 DEF AddBranch, findVars
  <2>2. res = NoRes
    BY <2>1 DEF Loops
  <2>3. NoRes.status # "OK"
    BY SMTT(60) DEF NoRes
  <2> QED BY <2>1, <2>2, <2>3
<1>3. ASSUME sigar_ptql_query_destroy PROVE pc' = "idle"
  BY <1>3 DEF sigar_ptql_query_destroy
<1>4. ASSUME FindBegin PROVE pc' = "filter"
  BY <1>4 DEF FindBegin
<1>5. ASSUME FilterStep \/ ListStep PROVE pc' # "match" /\ (pc' # "ready" \/ res'.status # "OK")
  BY <1>5, FailedReturn DEF FilterStep, ListStep, Return
<1>6. ASSUME FilterEnd PROVE Judged' /\ (pc' # "ready" \/ res'.status # "OK")
  BY <1>6, JudgedFirst, FailedReturn DEF FilterEnd
<1>7. ASSUME FindEnd PROVE Judged' /\ Found'
  BY <1>7, FoundEnd, JudgedRest DEF FindEnd, Return
<1>8. ASSUME MatchStep \/ MatchParent PROVE Judged' /\ Found'
  BY <1>8, FoundMatch, JudgedMatch, JudgedParent
<1>9. ASSUME KernelStep PROVE Judged' /\ Found'
  BY <1>9, FoundKernel, JudgedKernel
<1>10. ASSUME UNCHANGED vars PROVE Judged' /\ Found'
  <2>1. UNCHANGED <<host, proc, os, text, touched, branches, pc, shared, own, pids, j, out, res>>
    BY <1>10 DEF vars, kernel, queryVars, findVars
  <2>2. Still /\ List' = List
    BY <2>1, StillSame DEF List
  <2>3. Judged'
    <3>1. CASE pc = "match"
      BY <2>1, <2>2, <3>1, JudgedStay
    <3>2. CASE pc # "match"
      BY <2>1, <3>2, JudgedRest
    <3> QED BY <3>1, <3>2
  <2>4. Found'
    <3>1. CASE pc = "ready"
      BY <2>1, <2>2, <3>1, StillFits, PidsKept DEF Found, Finding
    <3>2. CASE pc # "ready"
      BY <2>1, <3>2, FoundElse
    <3> QED BY <3>1, <3>2
  <2> QED BY <2>3, <2>4
<1> QED BY <1>1, <1>2, <1>3, <1>4, <1>5, <1>6, <1>7, <1>8, <1>9, <1>10, JudgedRest, FoundElse DEF Next

-----------------------------------------------------------------------------
(* The meaning of the text is that of the branches.                        *)

\* At most one Pid clause is at most one branch that lists processes.
LEMMA SingleIf ==
  ASSUME Query, pc \in Finding, Cardinality(PidClauses) <= 1
  PROVE  Single
<1> SUFFICES ASSUME NEW m \in 1..Len(branches), NEW n \in 1..Len(branches), OfPids(m), OfPids(n), m # n
             PROVE  FALSE
  BY DEF Single
<1>1. PICK a : a = branches[m].pos
  OBVIOUS
<1>2. PICK b : b = branches[n].pos
  OBVIOUS
<1>3. a # b /\ a \in PidClauses /\ b \in PidClauses
  BY <1>1, <1>2, OfPidClause DEF Query, Filed, ListOK
<1>4. IsFiniteSet(PidClauses)
  <2>1. Len(text) \in Nat
    BY Lists DEF Query, IsText
  <2>2. IsFiniteSet(1..Len(text))
    BY <2>1, Segment, FS_Interval
  <2>3. PidClauses \subseteq 1..Len(text)
    BY DEF PidClauses
  <2> QED BY <2>2, <2>3, FS_Subset
<1>5. IsFiniteSet({a}) /\ Cardinality({a}) = 1
  BY FS_Singleton
<1>6. Cardinality({a} \cup {b}) = 2
  <2>1. Cardinality({a} \cup {b}) = IF b \in {a} THEN Cardinality({a}) ELSE Cardinality({a}) + 1
    BY <1>5, FS_AddElement
  <2>2. b \notin {a}
    BY <1>3
  <2> QED BY <1>5, <2>1, <2>2, Small
<1>7. {a} \cup {b} \subseteq PidClauses
  BY <1>3
<1>8. Cardinality({a} \cup {b}) <= Cardinality(PidClauses) /\ Cardinality(PidClauses) \in Nat
  BY <1>4, <1>7, FS_Subset, FS_CardinalityType
<1>9. PICK c : c = Cardinality(PidClauses)
  OBVIOUS
<1>10. c \in Nat /\ 2 <= c /\ c <= 1
  BY <1>6, <1>8, <1>9
<1>11. \A x \in Nat : ~(2 <= x /\ x <= 1)
  BY SMTT(60)
<1> QED BY <1>10, <1>11

\* What a clause of the text demands, its branch demands.
LEMMA MeansFits ==
  ASSUME Query, pc \in Finding, ~AsksUdp, NEW p
  PROVE  Means(p) <=> Fits(p)
<1>1. ASSUME NEW n \in 1..Len(branches)
      PROVE  branches[n].pos \in 1..Len(text)
  BY <1>1, BranchStands
<1>2. ASSUME NEW k \in 1..Len(text) PROVE \E n \in 1..Len(branches) : branches[n].pos = k
  BY <1>2, EveryClause
<1>3. (\E k \in PidClauses : Selects(k, p)) <=> Wanted(p, Len(branches))
  <2>1. ASSUME NEW n \in 1..Len(branches), OfPids(n)
        PROVE  Selects(branches[n].pos, p) <=> Picks(branches[n], p)
    <3>1. PICK b : b = branches[n]
      OBVIOUS
    <3>2. PICK k : k = b.pos
      OBVIOUS
    <3>3. Sorts(Clause(k), b) /\ b.op = Clause(k).op
      BY <3>1, <3>2, BranchStands DEF Stands, Meant
    <3>4. Told(Clause(k), b)
      BY <3>1, <3>2, BranchTold
    <3>5. IsPid(Clause(k)) /\ ~(Clause(k).name = "Port" /\ Clause(k).attr = "udp")
      BY <1>1, <2>1, <3>1, <3>2, <3>3 DEF Sorts, OfPids, AsksUdp
    <3>6. Selects(k, p) <=> Picks(b, p)
      BY <3>3, <3>4, <3>5, NamedIs
    <3> QED BY <3>1, <3>2, <3>6
  <2>2. PidClauses \subseteq 1..Len(text)
    BY DEF PidClauses
  <2> QED BY <1>2, <2>1, <2>2, OfPidClause DEF Wanted
<1>4. /\ \A k \in 1..Len(text) : "PARENT" \in Clause(k).mods => Status("State", p) = "OK"
      /\ \A k \in 1..Len(text) : IsStd(Clause(k)) => Status(Clause(k).name, Owner(k, p)) = "OK"
      <=> \A n \in 1..Len(branches) : Gives(branches[n], p)
  <2>1. ASSUME NEW n \in 1..Len(branches)
        PROVE  Gives(branches[n], p) <=>
                 /\ "PARENT" \in Clause(branches[n].pos).mods => Status("State", p) = "OK"
                 /\ IsStd(Clause(branches[n].pos)) =>
                      Status(Clause(branches[n].pos).name, Owner(branches[n].pos, p)) = "OK"
    BY <2>1, OwnerIs DEF Gives
  <2> QED BY <1>1, <1>2, <2>1
<1>5. (\A k \in 1..Len(text) : Says(k, ViewOf(p)))
      <=> \E v : Views(v, p) /\ \A n \in 1..Len(branches) : Says(branches[n].pos, v)
  <2>1. Views(ViewOf(p), p)
    BY ViewsOf
  <2>2. ASSUME NEW v, Views(v, p), \A n \in 1..Len(branches) : Says(branches[n].pos, v)
        PROVE  \A n \in 1..Len(branches) : Says(branches[n].pos, ViewOf(p))
    BY <2>1, <2>2, SaysView
  <2>3. (\A k \in 1..Len(text) : Says(k, ViewOf(p)))
        <=> \A n \in 1..Len(branches) : Says(branches[n].pos, ViewOf(p))
    BY <1>1, <1>2
  <2> QED BY <2>1, <2>2, <2>3
<1>6. PidClauses # {} <=> \E n \in 1..Len(branches) : OfPids(n)
  BY PidClausesAre
<1>7. Means(p) <=>
        /\ ~Gone(p) /\ (PidClauses # {} => \E k \in PidClauses : Selects(k, p))
        /\ \A k \in 1..Len(text) : "PARENT" \in Clause(k).mods => Status("State", p) = "OK"
        /\ \A k \in 1..Len(text) : IsStd(Clause(k)) => Status(Clause(k).name, Owner(k, p)) = "OK"
        /\ \A k \in 1..Len(text) : Says(k, ViewOf(p))
  BY DEF Means, ViewOf
<1> QED BY <1>3, <1>4, <1>5, <1>6, <1>7 DEF Fits

\* FindExact: a find that succeeds returns exactly the processes the text of
\* the query describes, among those that did not change while it ran, each
\* once if at most one clause of the text selects by pid, for every query the
\* parser accepts that has a meaning and asks for no UDP port, and however the
\* other processes come, go and change between two system calls of
\* sigar_ptql_query_find.
THEOREM FindExactHolds == Spec => []FindExact
<1>1. Init => Chosen /\ Answers
  BY DEF Init, Chosen, Owned, Once, Gathered, Answers, Judged, Found
<1>2. Basic /\ Found => FindExact
  <2> SUFFICES ASSUME Query, Found, pc = "ready", res.status = "OK", Meaningful
               PROVE  /\ ~AsksUdp => \A p \in Pid :
                           Steady(p) => (Means(p) <=> \E n \in 1..Len(res.list) : res.list[n] = p)
                      /\ Cardinality(PidClauses) <= 1 =>
                           \A m, n \in 1..Len(res.list) : m # n => res.list[m] # res.list[n]
                      /\ res.pid # NoPid <=> Len(res.list) = 1
    BY DEF Basic, FindExact
  <2>1. pc \in Finding
    BY DEF Finding
  <2>2. ~AsksUdp => \A p : Means(p) <=> Fits(p)
    BY <2>1, MeansFits
  <2>3. Cardinality(PidClauses) <= 1 => Single
    BY <2>1, SingleIf
  <2> QED BY <2>2, <2>3 DEF Found, Rng, Distinct
<1>3. Spec => [](Basic /\ Seen /\ Chosen /\ Answers)
  BY <1>1, SeenHolds, ChosenNext, AnswersNext, PTL DEF Spec
<1>4. Answers => Found
  BY DEF Answers
<1> QED BY <1>2, <1>3, <1>4, PTL
=============================================================================
