--------------------------- MODULE SigarTextProofs ---------------------------
(***************************************************************************)
(* Proofs about the string helpers, for strings of every length and every  *)
(* alphabet.  A loop is a recursive function; it is shown what it returns  *)
(* by induction, which Downwards and Upwards state in terms of the set of  *)
(* indices at which a claim fails.                                         *)
(***************************************************************************)
EXTENDS MCSigarText, FiniteSetTheorems, TLAPS

USE ZenonT(60)

Str == Seq(Nat \ {0})

-----------------------------------------------------------------------------
(* Induction and loops.                                                    *)

\* A set of natural numbers that has a smaller one with every number is empty:
\* the intervals below its members are finite sets, one of which is minimal.
LEMMA Upwards ==
  ASSUME NEW T \in SUBSET Nat, \A i \in T : \E k \in T : k < i
  PROVE  T = {}
<1> SUFFICES ASSUME T # {} PROVE FALSE
  OBVIOUS
<1>1. PICK U : U = {0..m : m \in T}
  OBVIOUS
<1>2. PICK R : R = StrictSubsetOrdering(Nat)
  OBVIOUS
<1>3. U \subseteq FiniteSubsetsOf(Nat) /\ U # {}
  <2>1. ASSUME NEW m \in T PROVE IsFiniteSet(0..m) /\ 0..m \in SUBSET Nat
    BY <2>1, FS_Interval, SMTT(60)
  <2> QED BY <1>1, <2>1 DEF FiniteSubsetsOf
<1>4. IsWellFoundedOn(R, FiniteSubsetsOf(Nat))
  BY <1>2, FS_StrictSubsetOrderingWellFounded
<1>5. PICK s \in U : \A y \in U : <<y, s>> \notin R
  BY <1>3, <1>4, WFMin
<1>6. PICK m \in T : s = 0..m
  BY <1>1, <1>5
<1>7. PICK k \in T : k < m
  BY <1>6
<1>8. 0..k \in U
  BY <1>1, <1>7
<1>9. 0..k \subseteq 0..m /\ 0..k # 0..m /\ 0..k \in SUBSET Nat /\ 0..m \in SUBSET Nat
  <2>1. m \in 0..m /\ m \notin 0..k
    BY <1>6, <1>7, SMTT(60)
  <2> QED BY <1>6, <1>7, <2>1, SMTT(60)
<1>10. <<0..k, 0..m>> \in R
  BY <1>2, <1>9 DEF StrictSubsetOrdering
<1> QED BY <1>5, <1>6, <1>8, <1>10

\* The same from n down.
LEMMA Downwards ==
  ASSUME NEW n \in Nat, NEW T \in SUBSET (1..n), \A i \in T : \E k \in T : k > i
  PROVE  T = {}
<1>1. PICK U : U = {d \in Nat : \E i \in T : d = n - i}
  OBVIOUS
<1>2. \A d \in U : \E e \in U : e < d
  <2> SUFFICES ASSUME NEW d \in U PROVE \E e \in U : e < d
    OBVIOUS
  <2>1. PICK i \in T : d = n - i
    BY <1>1
  <2>2. PICK k \in T : k > i
    BY <2>1
  <2>3. n - k \in Nat /\ n - k < d
    BY <2>1, <2>2, SMTT(60)
  <2> QED BY <1>1, <2>2, <2>3
<1>3. U = {}
  BY <1>1, <1>2, Upwards
<1>4. ASSUME NEW i \in T PROVE n - i \in Nat
  BY <1>4, SMTT(60)
<1> QED BY <1>1, <1>3, <1>4

\* m is the first member of S from i on.
IsFirst(m, S, i) == m \in S /\ m >= i /\ \A k \in S : k >= i => m <= k

\* A set with a member from i on has a first one.
LEMMA FirstExists ==
  ASSUME NEW n \in Nat, NEW S \in SUBSET (1..n), n \in S, NEW i \in 1..n
  PROVE  \E m \in S : IsFirst(m, S, i)
<1> SUFFICES ASSUME \A m \in S : ~IsFirst(m, S, i) PROVE FALSE
  OBVIOUS
<1>1. PICK T : T = {k \in S : k >= i}
  OBVIOUS
<1>2. \A m \in T : \E k \in T : k < m
  BY <1>1, SMTT(60) DEF IsFirst
<1>3. T \in SUBSET Nat
  <2>1. \A k \in 1..n : k \in Nat
    BY SMTT(60)
  <2> QED BY <1>1, <2>1
<1>4. T = {}
  BY <1>2, <1>3, Upwards
<1> QED BY <1>1, <1>4, SMTT(60)

\* A loop that stops at the members of S, with the values v.
Scans(f, n, S, v) == f = [i \in 1..n |-> IF i \in S THEN v[i] ELSE f[i + 1]]

\* There is one, and it stops at the first.
LEMMA ScanExists ==
  ASSUME NEW n \in Nat, NEW S \in SUBSET (1..n), n \in S, NEW v
  PROVE  \E f : Scans(f, n, S, v)
<1>1. PICK g : g = [i \in 1..n |-> CHOOSE m \in S : IsFirst(m, S, i)]
  OBVIOUS
<1>2. ASSUME NEW i \in 1..n PROVE g[i] \in S /\ IsFirst(g[i], S, i)
  BY <1>1, <1>2, FirstExists
<1>3. PICK f : f = [i \in 1..n |-> v[g[i]]]
  OBVIOUS
<1>0. ASSUME NEW i \in 1..n, NEW m \in S, NEW k \in S, IsFirst(m, S, i),
             i \in S \/ IsFirst(k, S, i + 1)
      PROVE  m = IF i \in S THEN i ELSE k
  BY <1>0, SMTT(60) DEF IsFirst
<1>4. ASSUME NEW i \in 1..n PROVE f[i] = IF i \in S THEN v[i] ELSE f[i + 1]
  <2>1. CASE i \in S
    <3>1. g[i] = i
      BY <1>0, <1>2, <2>1
    <3> QED BY <1>3, <2>1, <3>1
  <2>2. CASE i \notin S
    <3>1. i + 1 \in 1..n
      BY <2>2, SMTT(60)
    <3>2. g[i] = g[i + 1]
      <4>1. PICK m \in S, k \in S : /\ m = g[i] /\ k = g[i + 1]
                                   /\ IsFirst(m, S, i) /\ IsFirst(k, S, i + 1)
        BY <1>2, <3>1
      <4> QED BY <1>0, <2>2, <4>1
    <3> QED BY <1>3, <2>2, <3>1, <3>2
  <2> QED BY <2>1, <2>2
<1>5. f = [i \in 1..n |-> IF i \in S THEN v[i] ELSE f[i + 1]]
  BY <1>3, <1>4
<1> QED BY <1>5 DEF Scans

\* What a scan has at i is the value at the first stop from i on.
LEMMA ScanStops ==
  ASSUME NEW n \in Nat, NEW S \in SUBSET (1..n), n \in S, NEW v, NEW f, Scans(f, n, S, v), NEW i \in 1..n
  PROVE  \E m \in S : IsFirst(m, S, i) /\ f[i] = v[m]
<1>1. PICK T : T = {k \in 1..n : ~\E m \in S : IsFirst(m, S, k) /\ f[k] = v[m]}
  OBVIOUS
<1>2. ASSUME NEW k \in T PROVE \E l \in T : l > k
  <2>1. k \in 1..n /\ f[k] = IF k \in S THEN v[k] ELSE f[k + 1]
    BY <1>1, <1>2 DEF Scans
  <2>2. k \notin S
    <3>1. k \in S => IsFirst(k, S, k)
      BY <2>1, SMTT(60) DEF IsFirst
    <3> QED BY <1>1, <1>2, <2>1, <3>1
  <2>3. k + 1 \in 1..n /\ k + 1 > k
    BY <2>1, <2>2, SMTT(60)
  <2>4. ASSUME NEW m \in S, IsFirst(m, S, k + 1) PROVE IsFirst(m, S, k)
    BY <2>1, <2>2, <2>4, SMTT(60) DEF IsFirst
  <2>5. k + 1 \in T
    BY <1>1, <1>2, <2>1, <2>2, <2>3, <2>4
  <2> QED BY <2>3, <2>5
<1>3. T = {}
  BY <1>1, <1>2, Downwards
<1> QED BY <1>1, <1>3
-----------------------------------------------------------------------------
(* Characters.                                                             *)

Stops(f, n, S, v) == \A i \in 1..n : \E m \in S : IsFirst(m, S, i) /\ f[i] = v[m]

\* So it does everywhere.
LEMMA ScansStop ==
  ASSUME NEW n \in Nat, NEW S \in SUBSET (1..n), n \in S, NEW v, NEW f, Scans(f, n, S, v)
  PROVE  Stops(f, n, S, v)
<1> SUFFICES ASSUME NEW i \in 1..n PROVE \E m \in S : IsFirst(m, S, i) /\ f[i] = v[m]
  BY DEF Stops
<1> QED BY ScanStops, SMTT(60)

\* A C string ends with the first Nul.
LEMMA Characters ==
  ASSUME NEW s \in Str
  PROVE  /\ Len(s) \in Nat
         /\ \A i \in 1..Len(s) : At(s, i) = s[i] /\ At(s, i) \in Nat \ {0} /\ At(s, i) # Nul
         /\ \A i \in Nat : i > Len(s) => At(s, i) = Nul
         /\ \A i \in Nat \ {0} : At(s, i) \in Nat
BY SMTT(60) DEF Str, At, Nul

\* Two strings are the same if they are to the end of the first.
LEMMA SameString ==
  ASSUME NEW s \in Str, NEW t \in Str, \A i \in 1..Len(s) + 1 : At(s, i) = At(t, i)
  PROVE  s = t
<1>1. Len(t) = Len(s)
  <2>1. ASSUME Len(t) > Len(s) PROVE FALSE
    <3>1. Len(s) + 1 \in 1..Len(t) /\ Len(s) + 1 \in 1..Len(s) + 1 /\ Len(s) + 1 > Len(s) /\ Len(s) + 1 \in Nat
      BY <2>1, Characters, SMTT(60)
    <3> QED BY <3>1, Characters
  <2>2. ASSUME Len(t) < Len(s) PROVE FALSE
    <3>1. Len(t) + 1 \in 1..Len(s) /\ Len(t) + 1 \in 1..Len(s) + 1 /\ Len(t) + 1 > Len(t) /\ Len(t) + 1 \in Nat
      BY <2>2, Characters, SMTT(60)
    <3> QED BY <3>1, Characters
  <2> QED BY <2>1, <2>2, Characters, SMTT(60)
<1>2. ASSUME NEW i \in 1..Len(s) PROVE s[i] = t[i]
  <2>1. i \in 1..Len(s) + 1
    BY Characters, SMTT(60)
  <2> QED BY <1>1, <2>1, Characters
<1> QED BY <1>1, <1>2, SMTT(60) DEF Str

\* Folding the case keeps the characters of a string characters.
LEMMA LowerIs ==
  ASSUME NEW s \in Str
  PROVE  /\ Lower(s) \in Str /\ Len(Lower(s)) = Len(s)
         /\ \A i \in 1..Len(s) : Lower(s)[i] = sigar_tolower(s[i])
<1>1. ASSUME NEW i \in 1..Len(s) PROVE sigar_tolower(s[i]) \in Nat \ {0}
  <2>1. s[i] \in Nat \ {0}
    BY SMTT(60) DEF Str
  <2> QED BY <2>1, TextAssumption DEF sigar_tolower
<1>2. Len(s) \in Nat
  BY Characters
<1>3. PICK n : n = Len(s)
  OBVIOUS
<1>4. PICK f : f = Lower(s)
  OBVIOUS
<1>5. f = [i \in 1..n |-> sigar_tolower(s[i])]
  BY <1>3, <1>4 DEF Lower
<1>6. f \in [1..n -> Nat \ {0}]
  BY <1>1, <1>3, <1>5
<1>7. f \in Str /\ Len(f) = n
  BY <1>2, <1>3, <1>6, SMTT(60) DEF Str
<1> QED BY <1>3, <1>4, <1>5, <1>7

\* The loops that run to a character and over a character.
LEMMA UntilIs ==
  ASSUME NEW s \in Str, NEW p \in 1..Len(s) + 1, NEW C, Nul \in C
  PROVE  /\ Until(s, p, C) \in p..Len(s) + 1 /\ At(s, Until(s, p, C)) \in C
         /\ \A k \in p..Until(s, p, C) - 1 : At(s, k) \notin C
<1>1. PICK n : n = Len(s) + 1
  OBVIOUS
<1>2. n \in Nat /\ n \in 1..n /\ n > Len(s)
  BY <1>1, Characters, SMTT(60)
<1>3. PICK S : S = {i \in 1..n : At(s, i) \in C}
  OBVIOUS
<1>4. S \in SUBSET (1..n) /\ n \in S
  BY <1>2, <1>3, Characters
<1>5. PICK v : v = [i \in 1..n |-> i]
  OBVIOUS
<1>6. ASSUME NEW f PROVE Scans(f, n, S, v) <=> f = [i \in 1..n |-> IF At(s, i) \in C THEN i ELSE f[i + 1]]
  <2>1. ASSUME NEW i \in 1..n
        PROVE (IF i \in S THEN v[i] ELSE f[i + 1]) = (IF At(s, i) \in C THEN i ELSE f[i + 1])
    BY <1>3, <1>5, <2>1
  <2>2. [i \in 1..n |-> IF i \in S THEN v[i] ELSE f[i + 1]]
          = [i \in 1..n |-> IF At(s, i) \in C THEN i ELSE f[i + 1]]
    BY <2>1
  <2> QED BY <2>2 DEF Scans
<1>7. PICK g : g = CHOOSE f : f = [i \in 1..n |-> IF At(s, i) \in C THEN i ELSE f[i + 1]]
  OBVIOUS
<1>8. Scans(g, n, S, v)
  BY <1>2, <1>4, <1>6, <1>7, ScanExists
<1>p. p \in 1..n
  BY <1>1
<1>9. PICK m \in S : IsFirst(m, S, p) /\ g[p] = v[m]
  <2>1. n \in Nat /\ S \in SUBSET (1..n) /\ n \in S
    BY <1>2, <1>4
  <2>2. Stops(g, n, S, v)
    BY <1>8, <2>1, ScansStop
  <2> QED BY <1>p, <2>2 DEF Stops
<1>10. Until(s, p, C) = m
  BY <1>1, <1>4, <1>5, <1>7, <1>9 DEF Until
<1>11. m \in p..n /\ At(s, m) \in C
  BY <1>2, <1>3, <1>9, SMTT(60) DEF IsFirst
<1>12. ASSUME NEW k \in p..m - 1 PROVE At(s, k) \notin C
  BY <1>1, <1>2, <1>3, <1>9, <1>11, SMTT(60) DEF IsFirst
<1> QED BY <1>1, <1>10, <1>11, <1>12

\* Beyond: the end of a run of c, as the loop that skips it leaves the pointer.
LEMMA BeyondIs ==
  ASSUME NEW s \in Str, NEW p \in 1..Len(s) + 1, NEW c, c # Nul
  PROVE  /\ Beyond(s, p, c) \in p..Len(s) + 1 /\ At(s, Beyond(s, p, c)) # c
         /\ \A k \in p..Beyond(s, p, c) - 1 : At(s, k) = c
<1>1. PICK n : n = Len(s) + 1
  OBVIOUS
<1>2. n \in Nat /\ n \in 1..n /\ n > Len(s)
  BY <1>1, Characters, SMTT(60)
<1>3. PICK S : S = {i \in 1..n : At(s, i) # c}
  OBVIOUS
<1>4. S \in SUBSET (1..n) /\ n \in S
  BY <1>2, <1>3, Characters
<1>5. PICK v : v = [i \in 1..n |-> i]
  OBVIOUS
<1>6. ASSUME NEW f PROVE Scans(f, n, S, v) <=> f = [i \in 1..n |-> IF At(s, i) = c THEN f[i + 1] ELSE i]
  <2>1. ASSUME NEW i \in 1..n
        PROVE (IF i \in S THEN v[i] ELSE f[i + 1]) = (IF At(s, i) = c THEN f[i + 1] ELSE i)
    BY <1>3, <1>5, <2>1
  <2>2. [i \in 1..n |-> IF i \in S THEN v[i] ELSE f[i + 1]]
          = [i \in 1..n |-> IF At(s, i) = c THEN f[i + 1] ELSE i]
    BY <2>1
  <2> QED BY <2>2 DEF Scans
<1>7. PICK g : g = CHOOSE f : f = [i \in 1..n |-> IF At(s, i) = c THEN f[i + 1] ELSE i]
  OBVIOUS
<1>8. Scans(g, n, S, v)
  BY <1>2, <1>4, <1>6, <1>7, ScanExists
<1>p. p \in 1..n
  BY <1>1
<1>9. PICK m \in S : IsFirst(m, S, p) /\ g[p] = v[m]
  <2>1. n \in Nat /\ S \in SUBSET (1..n) /\ n \in S
    BY <1>2, <1>4
  <2>2. Stops(g, n, S, v)
    BY <1>8, <2>1, ScansStop
  <2> QED BY <1>p, <2>2 DEF Stops
<1>10. Beyond(s, p, c) = m
  BY <1>1, <1>4, <1>5, <1>7, <1>9 DEF Beyond
<1>11. m \in p..n /\ At(s, m) # c
  BY <1>2, <1>3, <1>9, SMTT(60) DEF IsFirst
<1>12. ASSUME NEW k \in p..m - 1 PROVE At(s, k) = c
  BY <1>1, <1>2, <1>3, <1>9, <1>11, SMTT(60) DEF IsFirst
<1> QED BY <1>1, <1>10, <1>11, <1>12

-----------------------------------------------------------------------------
(* Comparisons.                                                            *)

\* strcmp is the difference at the first place where the strings differ.
LEMMA StrcmpIs ==
  ASSUME NEW s \in Str, NEW t \in Str
  PROVE  \E m \in 1..Len(s) + 1 :
           /\ strcmp(s, t) = At(s, m) - At(t, m)
           /\ At(s, m) # At(t, m) \/ m = Len(s) + 1
           /\ \A k \in 1..m - 1 : At(s, k) = At(t, k)
<1>1. PICK n : n = Len(s) + 1
  OBVIOUS
<1>2. n \in Nat /\ n \in 1..n /\ n > Len(s) /\ 1 \in 1..n /\ Len(s) \in Nat
  BY <1>1, Characters, SMTT(60)
<1>3. PICK S : S = {i \in 1..n : At(s, i) # At(t, i) \/ i > Len(s)}
  OBVIOUS
<1>4. S \in SUBSET (1..n) /\ n \in S
  BY <1>2, <1>3
<1>5. PICK v : v = [i \in 1..n |-> At(s, i) - At(t, i)]
  OBVIOUS
<1>6. ASSUME NEW f
      PROVE  Scans(f, n, S, v) <=>
               f = [i \in 1..n |-> IF At(s, i) # At(t, i) THEN At(s, i) - At(t, i)
                                   ELSE IF i > Len(s) THEN 0 ELSE f[i + 1]]
  <2>1. ASSUME NEW i \in 1..n
        PROVE (IF i \in S THEN v[i] ELSE f[i + 1]) =
                (IF At(s, i) # At(t, i) THEN At(s, i) - At(t, i)
                 ELSE IF i > Len(s) THEN 0 ELSE f[i + 1])
    <3>1. At(s, i) \in Nat /\ At(t, i) \in Nat
      <4>1. i \in Nat \ {0}
        BY <1>2, SMTT(60)
      <4> QED BY <4>1, Characters
    <3>2. At(s, i) = At(t, i) => At(s, i) - At(t, i) = 0
      BY <3>1, SMTT(60)
    <3> QED BY <1>3, <1>5, <2>1, <3>2
  <2>2. [i \in 1..n |-> IF i \in S THEN v[i] ELSE f[i + 1]]
          = [i \in 1..n |-> IF At(s, i) # At(t, i) THEN At(s, i) - At(t, i)
                            ELSE IF i > Len(s) THEN 0 ELSE f[i + 1]]
    BY <2>1
  <2> QED BY <2>2 DEF Scans
<1>7. PICK g : g = CHOOSE f : f = [i \in 1..n |-> IF At(s, i) # At(t, i) THEN At(s, i) - At(t, i)
                                                 ELSE IF i > Len(s) THEN 0 ELSE f[i + 1]]
  OBVIOUS
<1>8. Scans(g, n, S, v)
  BY <1>2, <1>4, <1>6, <1>7, ScanExists
<1>9. PICK m \in S : IsFirst(m, S, 1) /\ g[1] = v[m]
  BY <1>2, <1>4, <1>8, ScanStops, SMTT(60)
<1>10. strcmp(s, t) = At(s, m) - At(t, m)
  <2>1. strcmp(s, t) = g[1]
    BY <1>1, <1>7 DEF strcmp
  <2> QED BY <1>4, <1>5, <1>9, <2>1
<1>11. m \in 1..n /\ (At(s, m) # At(t, m) \/ m = n)
  BY <1>1, <1>2, <1>3, <1>9, SMTT(60)
<1>12. ASSUME NEW k \in 1..m - 1 PROVE At(s, k) = At(t, k)
  <2>1. k \in 1..n /\ k < m /\ k >= 1 /\ ~(m <= k)
    BY <1>2, <1>11, SMTT(60)
  <2> QED BY <1>3, <1>9, <2>1 DEF IsFirst
<1> QED BY <1>1, <1>10, <1>11, <1>12

\* It is zero for equal strings only, and changes its sign with the order.
LEMMA StrcmpEqual ==
  ASSUME NEW s \in Str, NEW t \in Str
  PROVE  strcmp(s, t) \in Int /\ (strcmp(s, t) = 0 <=> s = t)
<1>1. PICK m \in 1..Len(s) + 1 :
        /\ strcmp(s, t) = At(s, m) - At(t, m)
        /\ At(s, m) # At(t, m) \/ m = Len(s) + 1
        /\ \A k \in 1..m - 1 : At(s, k) = At(t, k)
  BY StrcmpIs
<1>2. m \in Nat \ {0} /\ Len(s) \in Nat
  BY Characters, SMTT(60)
<1>3. At(s, m) \in Nat /\ At(t, m) \in Nat
  BY <1>2, Characters
<1>4. strcmp(s, t) \in Int /\ (strcmp(s, t) = 0 <=> At(s, m) = At(t, m))
  BY <1>1, <1>3, SMTT(60)
<1>5. ASSUME At(s, m) = At(t, m) PROVE s = t
  <2>1. m = Len(s) + 1
    BY <1>1, <1>5
  <2>2. ASSUME NEW k \in 1..Len(s) + 1 PROVE At(s, k) = At(t, k)
    <3>1. k \in 1..m - 1 \/ k = m
      BY <1>2, <2>1, SMTT(60)
    <3> QED BY <1>1, <1>5, <3>1
  <2> QED BY <2>2, SameString
<1> QED BY <1>4, <1>5

\* strcmp changes its sign when its arguments are swapped.
LEMMA StrcmpFlips ==
  ASSUME NEW s \in Str, NEW t \in Str
  PROVE  strcmp(t, s) = -strcmp(s, t)
<1>1. CASE s = t
  BY <1>1, StrcmpEqual, SMTT(60)
<1>2. CASE s # t
  <2>1. PICK m \in 1..Len(s) + 1 :
          /\ strcmp(s, t) = At(s, m) - At(t, m)
          /\ \A k \in 1..m - 1 : At(s, k) = At(t, k)
    BY StrcmpIs
  <2>2. PICK l \in 1..Len(t) + 1 :
          /\ strcmp(t, s) = At(t, l) - At(s, l)
          /\ \A k \in 1..l - 1 : At(t, k) = At(s, k)
    BY StrcmpIs
  <2>3. m \in Nat \ {0} /\ l \in Nat \ {0}
    <3>1. Len(s) \in Nat /\ Len(t) \in Nat
      BY Characters
    <3> QED BY <2>1, <2>2, <3>1, SMTT(60)
  <2>4. At(s, m) \in Nat /\ At(t, m) \in Nat /\ At(s, l) \in Nat /\ At(t, l) \in Nat
    BY <2>3, Characters
  <2>5. At(s, m) # At(t, m) /\ At(t, l) # At(s, l)
    <3>1. strcmp(s, t) # 0 /\ strcmp(t, s) # 0
      BY <1>2, StrcmpEqual
    <3> QED BY <2>1, <2>2, <2>4, <3>1, SMTT(60)
  <2>6. m = l
    <3>1. m \in 1..l - 1 \/ l \in 1..m - 1 \/ m = l
      BY <2>3, SMTT(60)
    <3> QED BY <2>1, <2>2, <2>5, <3>1
  <2> QED BY <2>1, <2>2, <2>4, <2>6, SMTT(60)
<1> QED BY <1>1, <1>2

\* Sequences of the same length are the same if their elements are.
LEMMA SameSequence ==
  ASSUME NEW s \in Str, NEW t \in Str, Len(s) = Len(t), \A i \in 1..Len(s) : s[i] = t[i]
  PROVE  s = t
BY SMTT(60) DEF Str

\* A prefix and a suffix, character by character.
LEMMA PrefixIs ==
  ASSUME NEW s \in Str, NEW t \in Str
  PROVE  IsPrefix(s, t) <=> Len(s) <= Len(t) /\ \A k \in 1..Len(s) : s[k] = t[k]
BY SMTT(60) DEF Str, IsPrefix

\* A suffix, by its characters.
LEMMA SuffixIs ==
  ASSUME NEW s \in Str, NEW t \in Str
  PROVE  IsSuffix(s, t) <=> Len(s) <= Len(t) /\ \A k \in 1..Len(s) : s[k] = t[Len(t) - Len(s) + k]
<1>1. Len(s) \in Nat /\ Len(t) \in Nat
  BY Characters
<1>2. SUFFICES ASSUME Len(s) <= Len(t)
      PROVE  SubSeq(t, Len(t) - Len(s) + 1, Len(t)) = s <=> \A k \in 1..Len(s) : s[k] = t[Len(t) - Len(s) + k]
  BY DEF IsSuffix
<1>3. PICK r : r = SubSeq(t, Len(t) - Len(s) + 1, Len(t))
  OBVIOUS
<1>4. r \in Str /\ Len(r) = Len(s) /\ \A k \in 1..Len(s) : r[k] = t[Len(t) - Len(s) + k]
  BY <1>1, <1>2, <1>3, SMTT(60) DEF Str
<1> QED BY <1>3, <1>4, SameSequence

\* The rest of a string from a place on.
LEMMA RestIs ==
  ASSUME NEW s \in Str, NEW i \in 1..Len(s) + 1
  PROVE  /\ SubSeq(s, i, Len(s)) \in Str /\ Len(SubSeq(s, i, Len(s))) = Len(s) - i + 1
         /\ \A k \in 1..Len(s) - i + 1 : SubSeq(s, i, Len(s))[k] = s[i + k - 1]
BY SMTT(60) DEF Str

\* Folding the case of the rest is taking the rest of the folded string.
LEMMA LowerRest ==
  ASSUME NEW s \in Str, NEW i \in 1..Len(s) + 1
  PROVE  Lower(SubSeq(s, i, Len(s))) = SubSeq(Lower(s), i, Len(s))
<1>1. PICK r : r = SubSeq(s, i, Len(s))
  OBVIOUS
<1>2. PICK l : l = Lower(s)
  OBVIOUS
<1>3. /\ r \in Str /\ Len(r) = Len(s) - i + 1
      /\ \A k \in 1..Len(s) - i + 1 : r[k] = s[i + k - 1]
  BY <1>1, RestIs
<1>4. l \in Str /\ Len(l) = Len(s) /\ \A k \in 1..Len(s) : l[k] = sigar_tolower(s[k])
  BY <1>2, LowerIs
<1>5. PICK q : q = SubSeq(l, i, Len(s))
  OBVIOUS
<1>6. /\ q \in Str /\ Len(q) = Len(s) - i + 1
      /\ \A k \in 1..Len(s) - i + 1 : q[k] = l[i + k - 1]
  <2>1. q = SubSeq(l, i, Len(l)) /\ i \in 1..Len(l) + 1
    BY <1>4, <1>5
  <2>2. /\ q \in Str /\ Len(q) = Len(l) - i + 1
        /\ \A k \in 1..Len(l) - i + 1 : q[k] = l[i + k - 1]
    BY <1>4, <2>1, RestIs
  <2> QED BY <1>4, <2>2
<1>7. PICK u : u = Lower(r)
  OBVIOUS
<1>8. u \in Str /\ Len(u) = Len(r) /\ \A k \in 1..Len(r) : u[k] = sigar_tolower(r[k])
  BY <1>3, <1>7, LowerIs
<1>9. ASSUME NEW k \in 1..Len(u) PROVE u[k] = q[k]
  <2>1. k \in 1..Len(s) - i + 1 /\ i + k - 1 \in 1..Len(s) /\ k \in 1..Len(r)
    BY <1>3, <1>8, Characters, SMTT(60)
  <2> QED BY <1>3, <1>4, <1>6, <1>8, <2>1
<1>10. u = q
  BY <1>3, <1>6, <1>8, <1>9, SameSequence
<1> QED BY <1>1, <1>2, <1>5, <1>7, <1>10

\* strncmp as far as the needle goes.
LEMMA StrncmpIs ==
  ASSUME NEW s \in Str, NEW t \in Str
  PROVE  strncmpEQ(s, t, Len(t)) <=> IsPrefix(t, s)
<1>1. PICK r : r = SubSeq(s, 1, IF Len(t) < Len(s) THEN Len(t) ELSE Len(s))
  OBVIOUS
<1>2. PICK u : u = SubSeq(t, 1, IF Len(t) < Len(t) THEN Len(t) ELSE Len(t))
  OBVIOUS
<1>3. u = t
  BY <1>2, SMTT(60) DEF Str
<1>4. /\ r \in Str /\ Len(r) = IF Len(t) < Len(s) THEN Len(t) ELSE Len(s)
      /\ \A k \in 1..Len(r) : r[k] = s[k]
  BY <1>1, SMTT(60) DEF Str
<1>5. strncmpEQ(s, t, Len(t)) <=> r = t
  <2>1. strncmpEQ(s, t, Len(t)) <=> strcmp(r, u) = 0
    BY <1>1, <1>2 DEF strncmpEQ
  <2> QED BY <1>3, <1>4, <2>1, StrcmpEqual
<1>6. r = t <=> Len(t) <= Len(s) /\ \A k \in 1..Len(t) : t[k] = s[k]
  <2>1. ASSUME r = t PROVE Len(t) <= Len(s) /\ \A k \in 1..Len(t) : t[k] = s[k]
    BY <1>4, <2>1, Characters, SMTT(60)
  <2>2. ASSUME Len(t) <= Len(s), \A k \in 1..Len(t) : t[k] = s[k] PROVE r = t
    <3>1. Len(r) = Len(t)
      BY <1>4, <2>2, Characters, SMTT(60)
    <3> QED BY <1>4, <2>2, <3>1, SameSequence
  <2> QED BY <2>1, <2>2
<1> QED BY <1>5, <1>6, PrefixIs

\* A nonempty set of numbers has a least one.
LEMMA Least ==
  ASSUME NEW T \in SUBSET Nat, T # {}
  PROVE  \E m \in T : \A k \in T : m <= k
<1> SUFFICES ASSUME \A m \in T : \E k \in T : ~(m <= k) PROVE FALSE
  OBVIOUS
<1>1. \A m \in T : \E k \in T : k < m
  BY SMTT(60)
<1> QED BY <1>1, Upwards

\* Where t occurs in s.
Occurs(s, t) == {i \in 1..Len(s) + 1 : IsPrefix(t, SubSeq(s, i, Len(s)))}

\* strstr finds t exactly when t occurs in s.
LEMMA StrstrIs ==
  ASSUME NEW s \in Str, NEW t \in Str
  PROVE  strstr(s, t) # NULL <=> Occurs(s, t) # {}
<1> DEFINE occ == {i \in 1..Len(s) + 1 : strncmpEQ(SubSeq(s, i, Len(s)), t, Len(t))}
<1>1. \A i : i \in occ => i \in 1..Len(s) + 1
  OBVIOUS
<1>2. occ = Occurs(s, t)
  <2>1. ASSUME NEW i \in 1..Len(s) + 1
        PROVE  strncmpEQ(SubSeq(s, i, Len(s)), t, Len(t)) <=> IsPrefix(t, SubSeq(s, i, Len(s)))
    BY RestIs, StrncmpIs
  <2> QED BY <2>1 DEF Occurs
<1>3. strstr(s, t) = IF occ = {} THEN NULL ELSE CHOOSE i \in occ : \A j \in occ : i <= j
  BY DEF strstr
<1> HIDE DEF occ
<1>4. ASSUME occ # {} PROVE strstr(s, t) \in occ
  <2>1. occ \in SUBSET Nat
    <3>1. \A i \in 1..Len(s) + 1 : i \in Nat
      BY Characters, SMTT(60)
    <3> QED BY <1>1, <3>1
  <2>2. \E i \in occ : \A j \in occ : i <= j
    BY <1>4, <2>1, Least
  <2> QED BY <1>3, <1>4, <2>2
<1>5. NULL \notin occ
  BY <1>1, Characters, SMTT(60) DEF NULL
<1> QED BY <1>2, <1>3, <1>4, <1>5

-----------------------------------------------------------------------------
(* sigar_strcasestr.                                                       *)

\* The inner loop compares the rest of b with what follows in a.
LEMMA RestMatchesIs ==
  ASSUME NEW a \in Str, NEW b \in Str, Len(b) >= 1, NEW i \in 1..Len(a)
  PROVE  RestMatches(a, b, i) <=> \A k \in 1..Len(b) - 1 : At(a, i + k) = At(b, 1 + k)
<1>1. PICK n : n = Len(b)
  OBVIOUS
<1>2. n \in Nat /\ n \in 1..n /\ 1 \in 1..n /\ 1 + n > Len(b) /\ 1 + n \in Nat
  BY <1>1, Characters, SMTT(60)
<1> DEFINE Same(k) == At(a, i + k) = At(b, 1 + k)
           Ended(k) == At(a, i + k) = Nul
           Used(k) == At(b, 1 + k) = Nul
           Loops(f) == f = [k \in 1..n |-> IF Same(k) THEN Ended(k) \/ f[k + 1] ELSE Used(k)]
<1>3. PICK S : S = {k \in 1..n : ~Same(k) \/ Ended(k)}
  OBVIOUS
<1>4. S \in SUBSET (1..n) /\ n \in S
  <2>1. Used(n)
    BY <1>2, Characters
  <2> QED BY <1>2, <1>3, <2>1
<1>5. PICK v : v = [k \in 1..n |-> Used(k)]
  OBVIOUS
<1>r. RestMatches(a, b, i) = (CHOOSE f : Loops(f))[1]
  BY <1>1 DEF RestMatches
<1>s. ASSUME NEW k \in 1..n PROVE Same(k) /\ Ended(k) => Used(k)
  OBVIOUS
<1>t. ASSUME NEW k \in 1..n PROVE Used(k) <=> k = n
  <2>1. 1 + k \in Nat /\ (1 + k > Len(b) <=> k = n) /\ (1 + k \in 1..Len(b) <=> k # n)
    BY <1>1, <1>2, Characters, SMTT(60)
  <2> QED BY <2>1, Characters
<1> HIDE DEF Same, Ended, Used
<1>6. ASSUME NEW f, \A k \in 1..n : f[k] \in BOOLEAN PROVE Scans(f, n, S, v) <=> Loops(f)
  <2>1. ASSUME NEW k \in 1..n
        PROVE (IF k \in S THEN v[k] ELSE f[k + 1]) = (IF Same(k) THEN Ended(k) \/ f[k + 1] ELSE Used(k))
    <3>1. CASE k \in S /\ Same(k)
      BY <1>3, <1>5, <1>s, <3>1
    <3>2. CASE k \in S /\ ~Same(k)
      BY <1>3, <1>5, <3>2
    <3>3. CASE k \notin S
      <4>1. k + 1 \in 1..n
        BY <1>2, <1>4, <3>3, SMTT(60)
      <4>2. f[k + 1] \in BOOLEAN
        BY <1>6, <4>1
      <4>3. Same(k) /\ ~Ended(k)
        BY <1>3, <3>3
      <4> QED BY <3>3, <4>2, <4>3
    <3> QED BY <3>1, <3>2, <3>3
  <2>2. [k \in 1..n |-> IF k \in S THEN v[k] ELSE f[k + 1]]
          = [k \in 1..n |-> IF Same(k) THEN Ended(k) \/ f[k + 1] ELSE Used(k)]
    BY <2>1
  <2> QED BY <2>2 DEF Scans
<1>7. \E f : Loops(f)
  <2>1. PICK f : Scans(f, n, S, v)
    BY <1>2, <1>4, ScanExists
  <2>2. ASSUME NEW k \in 1..n PROVE f[k] \in BOOLEAN
    <3>1. PICK m \in S : IsFirst(m, S, k) /\ f[k] = v[m]
      BY <1>2, <1>4, <2>1, <2>2, ScanStops, SMTT(60)
    <3>2. v[m] = Used(m) /\ m \in 1..n
      BY <1>4, <1>5, <3>1
    <3> QED BY <3>1, <3>2 DEF Used
  <2> QED BY <1>6, <2>1, <2>2
<1>8. PICK g : g = CHOOSE f : Loops(f)
  OBVIOUS
<1>9. Loops(g)
  BY <1>7, <1>8
<1>10. ASSUME NEW k \in 1..n PROVE g[k] \in BOOLEAN
  <2>1. g[k] = IF Same(k) THEN Ended(k) \/ g[k + 1] ELSE Used(k)
    BY <1>9
  <2> QED BY <2>1 DEF Same, Ended, Used
<1>11. Scans(g, n, S, v)
  BY <1>6, <1>9, <1>10
<1> HIDE DEF Loops
<1>12. PICK m \in S : IsFirst(m, S, 1) /\ g[1] = v[m]
  BY <1>2, <1>4, <1>11, ScanStops, SMTT(60)
<1>13. RestMatches(a, b, i) <=> m = n
  BY <1>4, <1>5, <1>8, <1>12, <1>r, <1>t
<1>14. ASSUME m = n, NEW k \in 1..Len(b) - 1 PROVE Same(k)
  <2>1. k \in 1..n /\ k >= 1 /\ ~(m <= k)
    BY <1>1, <1>2, <1>14, SMTT(60)
  <2> QED BY <1>3, <1>12, <2>1 DEF IsFirst
<1>15. ASSUME m # n PROVE \E k \in 1..Len(b) - 1 : ~Same(k)
  <2>1. m \in 1..Len(b) - 1 /\ m \in 1..n
    BY <1>1, <1>2, <1>4, <1>12, <1>15, SMTT(60)
  <2>2. ~Same(m)
    BY <1>3, <1>12, <1>15, <1>s, <1>t, <2>1
  <2> QED BY <2>1, <2>2
<1> QED BY <1>13, <1>14, <1>15 DEF Same

\* With the first character, that is an occurrence.
LEMMA MatchIs ==
  ASSUME NEW a \in Str, NEW b \in Str, Len(b) >= 1, NEW i \in 1..Len(a)
  PROVE  a[i] = b[1] /\ RestMatches(a, b, i) <=> IsPrefix(b, SubSeq(a, i, Len(a)))
<1>1. Len(a) \in Nat /\ Len(b) \in Nat /\ i \in 1..Len(a) + 1
  BY Characters, SMTT(60)
<1>2. PICK r : r = SubSeq(a, i, Len(a))
  OBVIOUS
<1>3. /\ r \in Str /\ Len(r) = Len(a) - i + 1
      /\ \A k \in 1..Len(a) - i + 1 : r[k] = a[i + k - 1]
  BY <1>1, <1>2, RestIs
<1>4. IsPrefix(b, r) <=> Len(b) <= Len(r) /\ \A k \in 1..Len(b) : b[k] = r[k]
  BY <1>3, PrefixIs
<1>5. ASSUME a[i] = b[1], \A k \in 1..Len(b) - 1 : At(a, i + k) = At(b, 1 + k)
      PROVE  Len(b) <= Len(r) /\ \A k \in 1..Len(b) : b[k] = r[k]
  <2>1. ASSUME NEW k \in 1..Len(b) PROVE k <= Len(r) /\ b[k] = r[k]
    <3>1. CASE k = 1
      BY <1>1, <1>3, <1>5, <3>1, SMTT(60)
    <3>2. CASE k # 1
      <4>1. PICK j : j = k - 1
        OBVIOUS
      <4>2. j \in 1..Len(b) - 1 /\ 1 + j \in 1..Len(b) /\ 1 + j = k /\ i + j \in Nat /\ i + j = i + k - 1
            /\ (~(i + j > Len(a)) => k \in 1..Len(a) - i + 1 /\ i + j \in 1..Len(a) /\ k <= Len(r))
        BY <1>1, <1>3, <3>2, <4>1, SMTT(60)
      <4>3. At(a, i + j) = b[k] /\ b[k] # Nul
        <5>1. At(a, i + j) = At(b, 1 + j)
          BY <1>5, <4>2
        <5>2. At(b, 1 + j) = b[1 + j] /\ At(b, 1 + j) # Nul
          BY <4>2, Characters
        <5> QED BY <4>2, <5>1, <5>2
      <4>4. ~(i + j > Len(a))
        BY <4>2, <4>3, Characters
      <4> QED BY <1>3, <4>2, <4>3, <4>4, Characters
    <3> QED BY <3>1, <3>2
  <2>2. Len(b) \in 1..Len(b)
    BY <1>1, SMTT(60)
  <2> QED BY <2>1, <2>2
<1>6. ASSUME Len(b) <= Len(r), \A k \in 1..Len(b) : b[k] = r[k]
      PROVE  a[i] = b[1] /\ \A k \in 1..Len(b) - 1 : At(a, i + k) = At(b, 1 + k)
  <2>1. a[i] = b[1]
    BY <1>1, <1>3, <1>6, SMTT(60)
  <2>2. ASSUME NEW k \in 1..Len(b) - 1 PROVE At(a, i + k) = At(b, 1 + k)
    <3>1. 1 + k \in 1..Len(b) /\ 1 + k \in 1..Len(a) - i + 1 /\ i + k \in 1..Len(a) /\ i + (1 + k) - 1 = i + k
      BY <1>1, <1>3, <1>6, SMTT(60)
    <3>2. b[1 + k] = a[i + k]
      BY <1>3, <1>6, <3>1
    <3> QED BY <3>1, <3>2, Characters
  <2> QED BY <2>1, <2>2
<1> QED BY <1>2, <1>4, <1>5, <1>6, RestMatchesIs

\* sigar_strcasestr, the case being folded.
Searched(a, b) ==
  LET scan[i \in 1..Len(a) + 1] ==
        IF i > Len(a) THEN NULL
        ELSE IF a[i] = b[1] /\ RestMatches(a, b, i) THEN i ELSE scan[i + 1]
  IN  IF b = << >> THEN 1 ELSE scan[1]

\* sigar_strcasestr returns the first occurrence, NULL if there is none.
LEMMA StrcasestrIs ==
  ASSUME NEW s \in Str, NEW t \in Str
  PROVE  LET occ == Occurs(Lower(s), Lower(t))
             r == sigar_strcasestr(s, t)
         IN  IF occ = {} THEN r = NULL ELSE r \in occ /\ \A i \in occ : r <= i
<1>1. PICK a : a = Lower(s)
  OBVIOUS
<1>2. PICK b : b = Lower(t)
  OBVIOUS
<1>3. a \in Str /\ b \in Str
  BY <1>1, <1>2, LowerIs
<1>4. PICK n : n = Len(a) + 1
  OBVIOUS
<1>5. n \in Nat /\ n \in 1..n /\ 1 \in 1..n /\ n > Len(a) /\ Len(a) \in Nat /\ Len(b) \in Nat
  BY <1>3, <1>4, Characters, SMTT(60)
<1>6. PICK occ : occ = Occurs(a, b)
  OBVIOUS
<1>7. ASSUME NEW i PROVE i \in occ <=> i \in 1..n /\ IsPrefix(b, SubSeq(a, i, Len(a)))
  BY <1>4, <1>6 DEF Occurs
<1>8. PICK r : r = sigar_strcasestr(s, t)
  OBVIOUS
<1> DEFINE Scan(f) == f = [i \in 1..Len(a) + 1 |-> IF i > Len(a) THEN NULL
                             ELSE IF a[i] = b[1] /\ RestMatches(a, b, i) THEN i ELSE f[i + 1]]
<1>9. r = IF b = << >> THEN 1 ELSE (CHOOSE f : Scan(f))[1]
  <2>1. sigar_strcasestr(s, t) = Searched(Lower(s), Lower(t))
    BY DEF sigar_strcasestr, Searched
  <2>2. r = Searched(a, b)
    BY <1>1, <1>2, <1>8, <2>1
  <2> QED BY <2>2 DEF Searched
<1> HIDE DEF Scan
<1>10. CASE b = << >>
  <2>1. 1 \in 1..Len(a) + 1
    BY <1>5, SMTT(60)
  <2>2. IsPrefix(b, SubSeq(a, 1, Len(a)))
    <3>1. PICK q : q = SubSeq(a, 1, Len(a))
      OBVIOUS
    <3>2. q \in Str /\ Len(q) \in Nat
      BY <1>3, <2>1, <3>1, RestIs, Characters
    <3>3. Len(b) <= Len(q) /\ \A k \in 1..Len(b) : b[k] = q[k]
      BY <1>10, <3>2, SMTT(60)
    <3> QED BY <1>3, <3>1, <3>2, <3>3, PrefixIs
  <2>3. 1 \in occ /\ r = 1
    BY <1>5, <1>7, <1>9, <1>10, <2>2
  <2>4. \A i \in occ : r <= i
    <3>1. \A i \in 1..n : 1 <= i
      BY <1>5, SMTT(60)
    <3> QED BY <1>7, <2>3, <3>1
  <2> QED BY <1>1, <1>2, <1>6, <1>8, <2>3, <2>4
<1>11. CASE b # << >>
  <2>0. Len(b) >= 1
    BY <1>3, <1>11, SMTT(60) DEF Str
  <2>1. PICK S : S = {i \in 1..n : i > Len(a) \/ (a[i] = b[1] /\ RestMatches(a, b, i))}
    OBVIOUS
  <2>2. S \in SUBSET (1..n) /\ n \in S
    BY <1>5, <2>1
  <2>3. PICK v : v = [i \in 1..n |-> IF i > Len(a) THEN NULL ELSE i]
    OBVIOUS
  <2>4. ASSUME NEW f PROVE Scans(f, n, S, v) <=> Scan(f)
    <3>1. ASSUME NEW i \in 1..n
          PROVE (IF i \in S THEN v[i] ELSE f[i + 1]) =
                  (IF i > Len(a) THEN NULL
                   ELSE IF a[i] = b[1] /\ RestMatches(a, b, i) THEN i ELSE f[i + 1])
      BY <2>1, <2>3, <3>1
    <3>2. [i \in 1..n |-> IF i \in S THEN v[i] ELSE f[i + 1]]
            = [i \in 1..n |-> IF i > Len(a) THEN NULL
                              ELSE IF a[i] = b[1] /\ RestMatches(a, b, i) THEN i ELSE f[i + 1]]
      BY <3>1
    <3> QED BY <1>4, <3>2 DEF Scans, Scan
  <2>5. PICK g : g = CHOOSE f : Scan(f)
    OBVIOUS
  <2>6. \E f : Scan(f)
    BY <1>5, <2>2, <2>4, ScanExists
  <2>7. Scans(g, n, S, v)
    BY <2>4, <2>5, <2>6
  <2>8. PICK m \in S : IsFirst(m, S, 1) /\ g[1] = v[m]
    BY <1>5, <2>2, <2>7, ScanStops, SMTT(60)
  <2>9. r = IF m > Len(a) THEN NULL ELSE m
    BY <1>9, <1>11, <2>2, <2>3, <2>5, <2>8
  <2>10. ASSUME NEW i \in 1..n PROVE i \in occ <=> i \in S /\ ~(i > Len(a))
    <3>1. CASE i > Len(a)
      <4>1. i = Len(a) + 1
        BY <1>4, <1>5, <3>1, SMTT(60)
      <4>2. PICK q : q = SubSeq(a, i, Len(a))
        OBVIOUS
      <4>3. q \in Str /\ Len(q) = Len(a) - i + 1
        BY <1>3, <1>4, <4>1, <4>2, RestIs
      <4>4. ~(Len(b) <= Len(q))
        BY <1>5, <2>0, <4>1, <4>3, SMTT(60)
      <4>5. ~IsPrefix(b, q)
        BY <1>3, <4>3, <4>4, PrefixIs
      <4> QED BY <1>7, <3>1, <4>2, <4>5
    <3>2. CASE ~(i > Len(a))
      <4>1. i \in 1..Len(a)
        BY <1>4, <1>5, <3>2, SMTT(60)
      <4>2. (a[i] = b[1] /\ RestMatches(a, b, i)) <=> IsPrefix(b, SubSeq(a, i, Len(a)))
        BY <1>3, <2>0, <4>1, MatchIs
      <4> QED BY <1>7, <2>1, <3>2, <4>2
    <3> QED BY <3>1, <3>2
  <2>11. ASSUME NEW i \in occ PROVE i \in S /\ i \in 1..n /\ m <= i /\ ~(i > Len(a))
    <3>1. i \in 1..n /\ i \in S /\ ~(i > Len(a))
      BY <1>7, <2>10, <2>11
    <3>2. i >= 1
      BY <1>5, <3>1, SMTT(60)
    <3> QED BY <2>8, <3>1, <3>2 DEF IsFirst
  <2>12. CASE m > Len(a)
    <3>1. occ = {}
      <4>1. ASSUME NEW i \in occ PROVE FALSE
        BY <1>5, <2>2, <2>8, <2>11, <2>12, <4>1, SMTT(60)
      <4> QED BY <4>1
    <3>2. r = NULL
      BY <2>9, <2>12
    <3> QED BY <1>1, <1>2, <1>6, <1>8, <3>1, <3>2
  <2>13. CASE ~(m > Len(a))
    <3>1. r = m /\ m \in occ
      BY <2>2, <2>8, <2>9, <2>10, <2>13
    <3>2. \A i \in occ : r <= i
      BY <2>11, <3>1
    <3> QED BY <1>1, <1>2, <1>6, <1>8, <3>1, <3>2
  <2> QED BY <2>12, <2>13
<1> QED BY <1>10, <1>11

-----------------------------------------------------------------------------
(* The operators of PTQL.                                                  *)

\* Folding the case or not.
LEMMA FoldIs ==
  ASSUME NEW icase \in BOOLEAN, NEW s \in Str
  PROVE  Fold(icase, s) \in Str /\ Len(Fold(icase, s)) = Len(s)
BY LowerIs DEF Fold

\* The comparisons of a branch are those of the folded strings.
LEMMA BranchIs ==
  ASSUME NEW icase \in BOOLEAN, NEW s \in Str, NEW t \in Str, NEW n
  PROVE  /\ branch_strcmp(icase, s, t) = strcmp(Fold(icase, s), Fold(icase, t))
         /\ branch_strnEQ(icase, s, t, n) <=> strncmpEQ(Fold(icase, s), Fold(icase, t), n)
BY DEF branch_strcmp, branch_strnEQ, Fold

\* Folding the rest of a string is the rest of the folded string.
LEMMA FoldRest ==
  ASSUME NEW icase \in BOOLEAN, NEW s \in Str, NEW i \in 1..Len(s) + 1
  PROVE  Fold(icase, SubSeq(s, i, Len(s))) = SubSeq(Fold(icase, s), i, Len(s))
BY LowerRest DEF Fold

\* ew is a suffix.
LEMMA EndsWith ==
  ASSUME NEW icase \in BOOLEAN, NEW s \in Str, NEW t \in Str
  PROVE  ptql_op_str_ew(icase, s, t) <=> IsSuffix(Fold(icase, t), Fold(icase, s))
<1>1. PICK h : h = Fold(icase, s)
  OBVIOUS
<1>2. PICK n : n = Fold(icase, t)
  OBVIOUS
<1>3. h \in Str /\ n \in Str /\ Len(h) = Len(s) /\ Len(n) = Len(t) /\ Len(s) \in Nat /\ Len(t) \in Nat
  BY <1>1, <1>2, FoldIs, Characters
<1>4. PICK i : i = Len(s) - Len(t) + 1
  OBVIOUS
<1>5. ptql_op_str_ew(icase, s, t) <=>
        Len(s) - Len(t) >= 0 /\ branch_strnEQ(icase, SubSeq(s, i, Len(s)), t, Len(t))
  BY <1>4 DEF ptql_op_str_ew
<1>6. CASE Len(t) <= Len(s)
  <2>1. i \in 1..Len(s) + 1 /\ Len(s) - Len(t) >= 0 /\ Len(s) - i + 1 = Len(t)
    BY <1>3, <1>4, <1>6, SMTT(60)
  <2>2. PICK q : q = SubSeq(h, i, Len(s))
    OBVIOUS
  <2>3. /\ q \in Str /\ Len(q) = Len(t)
        /\ \A k \in 1..Len(t) : q[k] = h[i + k - 1]
    <3>1. q = SubSeq(h, i, Len(h)) /\ i \in 1..Len(h) + 1 /\ Len(h) - i + 1 = Len(t)
      BY <1>3, <2>1, <2>2
    <3> QED BY <1>3, <3>1, RestIs
  <2>4. Fold(icase, SubSeq(s, i, Len(s))) = q
    BY <1>1, <2>1, <2>2, FoldRest
  <2>5. ptql_op_str_ew(icase, s, t) <=> strncmpEQ(q, n, Len(n))
    <3>1. SubSeq(s, i, Len(s)) \in Str
      BY <2>1, RestIs
    <3> QED BY <1>2, <1>3, <1>5, <2>1, <2>4, <3>1, BranchIs
  <2>6. ptql_op_str_ew(icase, s, t) <=> \A k \in 1..Len(n) : n[k] = q[k]
    <3>1. Len(n) <= Len(q)
      BY <1>3, <2>3, SMTT(60)
    <3> QED BY <1>3, <2>3, <2>5, <3>1, StrncmpIs, PrefixIs
  <2>7. ASSUME NEW k \in 1..Len(n) PROVE q[k] = h[Len(h) - Len(n) + k]
    <3>1. i + k - 1 = Len(h) - Len(n) + k
      BY <1>3, <1>4, <2>7, SMTT(60)
    <3> QED BY <1>3, <2>3, <3>1
  <2>8. IsSuffix(n, h) <=> \A k \in 1..Len(n) : n[k] = h[Len(h) - Len(n) + k]
    BY <1>3, <1>6, SuffixIs
  <2> QED BY <1>1, <1>2, <2>6, <2>7, <2>8
<1>7. CASE ~(Len(t) <= Len(s))
  <2>1. ~(Len(s) - Len(t) >= 0) /\ ~(Len(n) <= Len(h))
    BY <1>3, <1>7, SMTT(60)
  <2> QED BY <1>1, <1>2, <1>3, <1>5, <2>1, SuffixIs
<1> QED BY <1>6, <1>7

\* sw is a prefix.
LEMMA StartsWith ==
  ASSUME NEW icase \in BOOLEAN, NEW s \in Str, NEW t \in Str
  PROVE  ptql_op_str_sw(icase, s, t) <=> IsPrefix(Fold(icase, t), Fold(icase, s))
<1>1. ptql_op_str_sw(icase, s, t) <=> strncmpEQ(Fold(icase, s), Fold(icase, t), Len(Fold(icase, t)))
  BY BranchIs, FoldIs DEF ptql_op_str_sw
<1> QED BY <1>1, FoldIs, StrncmpIs

\* ct is an occurrence.
LEMMA Containing ==
  ASSUME NEW icase \in BOOLEAN, NEW s \in Str, NEW t \in Str
  PROVE  ptql_op_str_ct(icase, s, t) <=> Occurs(Fold(icase, s), Fold(icase, t)) # {}
<1>1. CASE icase = TRUE
  <2>1. PICK occ : occ = Occurs(Lower(s), Lower(t))
    OBVIOUS
  <2>2. PICK r : r = sigar_strcasestr(s, t)
    OBVIOUS
  <2>3. IF occ = {} THEN r = NULL ELSE r \in occ /\ \A i \in occ : r <= i
    BY <2>1, <2>2, StrcasestrIs
  <2>4. NULL \notin occ
    <3>1. PICK n : n = Len(Lower(s)) + 1
      OBVIOUS
    <3>2. NULL \notin 1..n
      BY <3>1, LowerIs, Characters, SMTT(60) DEF NULL
    <3> QED BY <2>1, <3>1, <3>2 DEF Occurs
  <2>5. ptql_op_str_ct(icase, s, t) <=> r # NULL
    BY <1>1, <2>2 DEF ptql_op_str_ct
  <2>6. Fold(icase, s) = Lower(s) /\ Fold(icase, t) = Lower(t)
    BY <1>1 DEF Fold
  <2> QED BY <2>1, <2>3, <2>4, <2>5, <2>6
<1>2. CASE icase = FALSE
  <2>1. Fold(icase, s) = s /\ Fold(icase, t) = t
    BY <1>2 DEF Fold
  <2> QED BY <1>2, <2>1, StrstrIs DEF ptql_op_str_ct
<1> QED BY <1>1, <1>2

-----------------------------------------------------------------------------
(* The strings of the specification.                                       *)

\* A sequence over a smaller set.
LEMMA WiderSeq ==
  ASSUME NEW A, NEW B, A \subseteq B, NEW s \in Seq(A)
  PROVE  s \in Seq(B)
BY SMTT(60)

Strings == hay \in Seq(Char) /\ needle \in Seq(Char)

\* They are C strings: no character of theirs is the terminator.
LEMMA StringsAreStr ==
  ASSUME Strings
  PROVE  hay \in Str /\ needle \in Str
<1>1. ASSUME NEW c \in Lowercase PROVE c + Shift \in Nat \ {0}
  BY <1>1, TextAssumption, SMTT(60)
<1>2. Char \subseteq Nat \ {0}
  BY <1>1, TextAssumption DEF Char
<1> QED BY <1>2, WiderSeq DEF Strings, Str

\* The specification builds strings of its characters.
THEOREM StringsHold == Spec => []Strings
<1>1. Init => Strings
  BY SMTT(60) DEF Init, Strings
<1>2. Strings /\ [Next]_<<hay, needle>> => Strings'
  <2>1. ASSUME NEW c \in Char, NEW s \in Seq(Char) PROVE Append(s, c) \in Seq(Char)
    BY SMTT(60)
  <2> QED BY <2>1 DEF Strings, Next
<1> QED BY <1>1, <1>2, PTL DEF Spec

\* FirstOccurrence: sigar_strcasestr returns the first place where the needle
\* occurs, letters of both cases being the same, and NULL only if there is
\* none, for all strings.
THEOREM FirstOccurrenceHolds == Spec => []FirstOccurrence
<1>1. ASSUME Strings PROVE FirstOccurrence
  <2>1. hay \in Str /\ needle \in Str
    BY <1>1, StringsAreStr
  <2>2. Len(Lower(hay)) = Len(hay)
    BY <2>1, LowerIs
  <2>3. PICK occ : occ = Occurs(Lower(hay), Lower(needle))
    OBVIOUS
  <2>4. occ = {i \in 1..Len(hay) + 1 : IsPrefix(Lower(needle), SubSeq(Lower(hay), i, Len(hay)))}
    BY <2>2, <2>3 DEF Occurs
  <2>5. PICK r : r = sigar_strcasestr(hay, needle)
    OBVIOUS
  <2>6. IF occ = {} THEN r = NULL ELSE r \in occ /\ \A i \in occ : r <= i
    BY <2>1, <2>3, <2>5, StrcasestrIs
  <2> QED BY <2>4, <2>5, <2>6 DEF FirstOccurrence
<1> QED BY <1>1, StringsHold, PTL

\* StringOps: the operators ew, sw and ct of PTQL are suffix, prefix and
\* substring, eq is equality, and the order that lt, ge and gt speak of is one
\* order, with and without the I modifier, for all strings.
THEOREM StringOpsHold == Spec => []StringOps
<1>1. ASSUME Strings, NEW icase \in BOOLEAN
      PROVE  LET h == Fold(icase, hay)
                 n == Fold(icase, needle)
             IN  /\ ptql_op_str("EW", icase, hay, needle) = IsSuffix(n, h)
                 /\ ptql_op_str("SW", icase, hay, needle) = IsPrefix(n, h)
                 /\ ptql_op_str("CT", icase, hay, needle) = \E i \in 1..Len(h) + 1 : IsPrefix(n, SubSeq(h, i, Len(h)))
                 /\ ptql_op_str("EQ", icase, hay, needle) = (h = n)
                 /\ ptql_op_str("LT", icase, hay, needle) # ptql_op_str("GE", icase, hay, needle)
                 /\ ptql_op_str("GT", icase, hay, needle) = ptql_op_str("LT", icase, needle, hay)
  <2>1. hay \in Str /\ needle \in Str
    BY <1>1, StringsAreStr
  <2>2. PICK h : h = Fold(icase, hay)
    OBVIOUS
  <2>3. PICK n : n = Fold(icase, needle)
    OBVIOUS
  <2>4. h \in Str /\ n \in Str
    BY <2>1, <2>2, <2>3, FoldIs
  <2>5. ptql_op_str("EW", icase, hay, needle) = IsSuffix(n, h)
    <3>1. ptql_op_str_ew(icase, hay, needle) <=> IsSuffix(n, h)
      BY <2>1, <2>2, <2>3, EndsWith
    <3>2. ptql_op_str_ew(icase, hay, needle) \in BOOLEAN /\ IsSuffix(n, h) \in BOOLEAN
      BY DEF ptql_op_str_ew, IsSuffix, IsPrefix
    <3>4. ptql_op_str("EW", icase, hay, needle) = ptql_op_str_ew(icase, hay, needle)
      BY DEF ptql_op_str
    <3> QED BY <3>1, <3>2, <3>4, SMTT(60)
  <2>6. ptql_op_str("SW", icase, hay, needle) = IsPrefix(n, h)
    <3>1. ptql_op_str_sw(icase, hay, needle) <=> IsPrefix(n, h)
      BY <2>1, <2>2, <2>3, StartsWith
    <3>2. ptql_op_str_sw(icase, hay, needle) \in BOOLEAN /\ IsPrefix(n, h) \in BOOLEAN
      BY DEF ptql_op_str_sw, branch_strnEQ, strncmpEQ, IsPrefix
    <3>4. ptql_op_str("SW", icase, hay, needle) = ptql_op_str_sw(icase, hay, needle)
      BY DEF ptql_op_str
    <3> QED BY <3>1, <3>2, <3>4, SMTT(60)
  <2>7. ptql_op_str("CT", icase, hay, needle) = \E i \in 1..Len(h) + 1 : IsPrefix(n, SubSeq(h, i, Len(h)))
    <3>1. ptql_op_str_ct(icase, hay, needle) <=> Occurs(h, n) # {}
      BY <2>1, <2>2, <2>3, Containing
    <3>0. PICK e : e = \E i \in 1..Len(h) + 1 : IsPrefix(n, SubSeq(h, i, Len(h)))
      OBVIOUS
    <3>5. e \in BOOLEAN
      BY <3>0
    <3>2. Occurs(h, n) # {} <=> e
      BY <3>0 DEF Occurs
    <3>3. ptql_op_str_ct(icase, hay, needle) \in BOOLEAN
      BY DEF ptql_op_str_ct
    <3>4. ptql_op_str("CT", icase, hay, needle) = ptql_op_str_ct(icase, hay, needle)
      BY DEF ptql_op_str
    <3>6. ptql_op_str("CT", icase, hay, needle) = e
      BY <3>1, <3>2, <3>3, <3>4, <3>5, SMTT(60)
    <3> QED BY <3>0, <3>6
  <2>8. PICK c : c = strcmp(h, n)
    OBVIOUS
  <2>9. PICK d : d = strcmp(n, h)
    OBVIOUS
  <2>10. branch_strcmp(icase, hay, needle) = c /\ branch_strcmp(icase, needle, hay) = d
    BY <2>1, <2>2, <2>3, <2>8, <2>9, BranchIs
  <2>11. c \in Int /\ d \in Int /\ d = -c /\ (c = 0 <=> h = n)
    BY <2>4, <2>8, <2>9, StrcmpEqual, StrcmpFlips
  <2>12. (c = 0) = (h = n) /\ (c < 0) # (c >= 0) /\ (c > 0) = (d < 0)
    BY <2>11, SMTT(60)
  <2>13. /\ ptql_op_str("EQ", icase, hay, needle) = (h = n)
         /\ ptql_op_str("LT", icase, hay, needle) # ptql_op_str("GE", icase, hay, needle)
         /\ ptql_op_str("GT", icase, hay, needle) = ptql_op_str("LT", icase, needle, hay)
    <3>1. /\ ptql_op_str("EQ", icase, hay, needle) = (c = 0)
          /\ ptql_op_str("LT", icase, hay, needle) = (c < 0)
          /\ ptql_op_str("GE", icase, hay, needle) = (c >= 0)
          /\ ptql_op_str("GT", icase, hay, needle) = (c > 0)
          /\ ptql_op_str("LT", icase, needle, hay) = (d < 0)
      BY <2>10 DEF ptql_op_str
    <3> QED BY <2>11, <3>1, SMTT(60)
  <2> QED BY <2>2, <2>3, <2>5, <2>6, <2>7, <2>13
<1>2. Strings => StringOps
  BY <1>1 DEF StringOps
<1> QED BY <1>2, StringsHold, PTL

-----------------------------------------------------------------------------
(* sigar_skip_multiple_token.                                              *)

\* A value is carried through the rounds of a loop.
Carries(f, n, a, h) == f = [i \in 0..n |-> IF i = 0 THEN a ELSE h[i][f[i - 1]]]

\* There is such a function.
LEMMA CarryExists ==
  ASSUME NEW n \in Nat, NEW V, NEW a \in V, NEW h \in [1..n -> [V -> V]]
  PROVE  \E f \in [0..n -> V] : Carries(f, n, a, h)
<1>1. PICK T : T = {k \in 0..n : ~\E f \in [0..k -> V] : Carries(f, k, a, h)}
  OBVIOUS
<1>2. ASSUME NEW k \in T PROVE \E l \in T : l < k
  <2>1. k \in 0..n /\ k \in Nat
    BY <1>1, SMTT(60)
  <2>2. CASE k = 0
    <3>1. PICK f : f = [i \in 0..0 |-> a]
      OBVIOUS
    <3>2. \A i \in 0..0 : i = 0
      BY SMTT(60)
    <3>3. f \in [0..0 -> V] /\ f = [i \in 0..0 |-> IF i = 0 THEN a ELSE h[i][f[i - 1]]]
      BY <3>1, <3>2
    <3> QED BY <1>1, <2>2, <3>3 DEF Carries
  <2>3. CASE k # 0
    <3>1. k - 1 \in 0..n /\ k - 1 < k /\ k \in 1..n /\ k - 1 \in 0..k - 1 /\ k - 1 \in 0..k
      BY <2>1, <2>3, SMTT(60)
    <3> SUFFICES ASSUME k - 1 \notin T PROVE FALSE
      BY <3>1
    <3>2. PICK f \in [0..k - 1 -> V] : Carries(f, k - 1, a, h)
      BY <1>1, <3>1
    <3>3. PICK x : x = h[k][f[k - 1]]
      OBVIOUS
    <3>4. x \in V
      BY <3>1, <3>2, <3>3
    <3>5. PICK g : g = [i \in 0..k |-> IF i = k THEN x ELSE f[i]]
      OBVIOUS
    <3>6. \A i \in 0..k : i # k => i \in 0..k - 1 /\ (i # 0 => i - 1 \in 0..k /\ i - 1 # k)
      BY <2>1, SMTT(60)
    <3>7. k - 1 # k
      BY <2>1, SMTT(60)
    <3>8. g \in [0..k -> V]
      BY <3>4, <3>5, <3>6
    <3>9. ASSUME NEW i \in 0..k PROVE g[i] = IF i = 0 THEN a ELSE h[i][g[i - 1]]
      <4>1. CASE i = k
        BY <2>3, <3>1, <3>3, <3>5, <3>7, <4>1
      <4>2. CASE i # k
        <5>1. f[i] = IF i = 0 THEN a ELSE h[i][f[i - 1]]
          BY <3>2, <3>6, <4>2 DEF Carries
        <5> QED BY <3>5, <3>6, <4>2, <5>1
      <4> QED BY <4>1, <4>2
    <3>10. g = [i \in 0..k |-> IF i = 0 THEN a ELSE h[i][g[i - 1]]]
      BY <3>5, <3>9
    <3> QED BY <1>1, <2>1, <3>8, <3>10 DEF Carries
  <2> QED BY <2>2, <2>3
<1>3. T \in SUBSET Nat
  <2>1. \A k \in 0..n : k \in Nat
    BY SMTT(60)
  <2> QED BY <1>1, <2>1
<1>4. T = {}
  BY <1>2, <1>3, Upwards
<1>5. n \in 0..n
  BY SMTT(60)
<1> QED BY <1>1, <1>4, <1>5

\* The places just behind a token.
Ends(s) == {i \in 2..Len(s) + 1 : NotSpace(s[i - 1]) /\ At(s, i) \in {Nul, Space}}

\* The space is a character, and not the terminator.
LEMMA SpaceIs == Space \in Nat \ {0} /\ Space # Nul
BY TextAssumption, SMTT(60) DEF Nul

\* sigar_skip_token stops at the first of them, or at the end.
LEMMA SkipIs ==
  ASSUME NEW s \in Str, NEW p \in 1..Len(s) + 1
  PROVE  LET q == sigar_skip_token(s, p) IN
         /\ q \in p..Len(s) + 1
         /\ \/ q \in Ends(s) /\ q > p
            \/ q = Len(s) + 1 /\ \A e \in Ends(s) : ~(e > p)
         /\ \A e \in Ends(s) : e > p => q <= e
<1>1. PICK b : b = Beyond(s, p, Space)
  OBVIOUS
<1>2. b \in p..Len(s) + 1 /\ At(s, b) # Space /\ \A k \in p..b - 1 : At(s, k) = Space
  BY <1>1, BeyondIs, SpaceIs
<1>3. Len(s) \in Nat /\ b \in 1..Len(s) + 1 /\ p \in Nat /\ b \in Nat /\ p <= b
  BY <1>2, Characters, SMTT(60)
<1>4. PICK q : q = sigar_skip_token(s, p)
  OBVIOUS
<1>5. /\ q \in b..Len(s) + 1 /\ At(s, q) \in {Nul, Space}
      /\ \A k \in b..q - 1 : At(s, k) \notin {Nul, Space}
  <2>1. q = Until(s, b, {Nul, Space})
    BY <1>1, <1>4 DEF sigar_skip_token
  <2> QED BY <1>3, <2>1, UntilIs
<1>6. q \in p..Len(s) + 1 /\ q \in Nat /\ b <= q
  BY <1>3, <1>5, SMTT(60)
<1>7. ASSUME NEW e \in Ends(s), e > p PROVE e > b /\ q <= e
  <2>1. e \in 2..Len(s) + 1 /\ s[e - 1] # Space /\ At(s, e) \in {Nul, Space}
    BY <1>7 DEF Ends, NotSpace
  <2>2. e - 1 \in 1..Len(s) /\ (~(e > b) => e - 1 \in p..b - 1) /\ (e > b /\ ~(q <= e) => e \in b..q - 1)
    BY <1>3, <1>6, <1>7, <2>1, SMTT(60)
  <2>3. At(s, e - 1) # Space
    BY <2>1, <2>2, Characters
  <2> QED BY <1>2, <1>5, <2>1, <2>2, <2>3
<1>8. CASE q > b
  <2>1. q - 1 \in b..q - 1 /\ q - 1 \in 1..Len(s) /\ q \in 2..Len(s) + 1 /\ q > p
    BY <1>3, <1>6, <1>8, SMTT(60)
  <2>2. s[q - 1] # Space
    BY <1>5, <2>1, Characters
  <2>3. q \in Ends(s)
    BY <1>5, <2>1, <2>2 DEF Ends, NotSpace
  <2> QED BY <1>4, <1>6, <1>7, <2>1, <2>3
<1>9. CASE ~(q > b)
  <2>1. q = b
    BY <1>3, <1>6, <1>9, SMTT(60)
  <2>2. At(s, b) = Nul
    BY <1>2, <1>5, <2>1
  <2>3. b \notin 1..Len(s)
    BY <2>2, Characters
  <2>4. b = Len(s) + 1
    BY <1>3, <2>3, SMTT(60)
  <2>5. ASSUME NEW e \in Ends(s), e > p PROVE FALSE
    <3>1. e \in 2..Len(s) + 1
      BY <2>5 DEF Ends
    <3> QED BY <1>3, <1>7, <2>4, <2>5, <3>1, SMTT(60)
  <2> QED BY <1>4, <1>6, <1>7, <2>1, <2>4, <2>5
<1> QED BY <1>8, <1>9

\* The places up to e, which are as many as the tokens up to e.
Below(s, e) == {i \in Ends(s) : i <= e}

\* After c rounds c tokens are skipped, or there are fewer.
Skipped(s, q, c) ==
  /\ q \in 1..Len(s) + 1
  /\ \/ Cardinality(Below(s, q)) = c /\ (IF c = 0 THEN q = 1 ELSE q \in Ends(s))
     \/ q = Len(s) + 1 /\ Cardinality(Ends(s)) < c

\* A line has finitely many tokens, and no more of them below a position.
LEMMA EndsFinite ==
  ASSUME NEW s \in Str
  PROVE  /\ IsFiniteSet(Ends(s)) /\ Cardinality(Ends(s)) \in Nat
         /\ \A e \in Ends(s) : e \in 2..Len(s) + 1 /\ e \in Nat
         /\ \A e : IsFiniteSet(Below(s, e)) /\ Cardinality(Below(s, e)) \in Nat
                   /\ Cardinality(Below(s, e)) <= Cardinality(Ends(s))
<1>1. PICK I : I = 2..Len(s) + 1
  OBVIOUS
<1>2. IsFiniteSet(I)
  <2>1. 2 \in Int /\ Len(s) + 1 \in Int
    BY Characters, SMTT(60)
  <2> QED BY <1>1, <2>1, FS_Interval
<1>3. Ends(s) \in SUBSET I
  BY <1>1 DEF Ends
<1>4. IsFiniteSet(Ends(s)) /\ Cardinality(Ends(s)) \in Nat
  BY <1>2, <1>3, FS_Subset, FS_CardinalityType
<1>5. ASSUME NEW e PROVE IsFiniteSet(Below(s, e)) /\ Cardinality(Below(s, e)) \in Nat
                         /\ Cardinality(Below(s, e)) <= Cardinality(Ends(s))
  <2>1. Below(s, e) \in SUBSET Ends(s)
    BY DEF Below
  <2> QED BY <1>4, <2>1, FS_Subset, FS_CardinalityType
<1>6. ASSUME NEW e \in Ends(s) PROVE e \in 2..Len(s) + 1 /\ e \in Nat
  <2>1. e \in 2..Len(s) + 1
    BY DEF Ends
  <2> QED BY <2>1, Characters, SMTT(60)
<1> QED BY <1>4, <1>5, <1>6

\* Nothing is skipped at the start.
LEMMA SkippedNone ==
  ASSUME NEW s \in Str
  PROVE  Skipped(s, 1, 0)
<1>1. 1 \in 1..Len(s) + 1
  BY Characters, SMTT(60)
<1>2. ASSUME NEW e \in Ends(s), e <= 1 PROVE FALSE
  BY <1>2, EndsFinite, SMTT(60)
<1>3. Below(s, 1) = {}
  BY <1>2 DEF Below
<1> QED BY <1>1, <1>3, FS_EmptySet DEF Skipped

\* sigar_skip_token skips one token more, or stays at the end of the line.
LEMMA SkippedNext ==
  ASSUME NEW s \in Str, NEW c \in Nat, NEW p, Skipped(s, p, c)
  PROVE  Skipped(s, sigar_skip_token(s, p), c + 1)
<1>1. PICK q : q = sigar_skip_token(s, p)
  OBVIOUS
<1>2. p \in 1..Len(s) + 1
  BY DEF Skipped
<1>3. /\ q \in p..Len(s) + 1
      /\ (q \in Ends(s) /\ q > p) \/ (q = Len(s) + 1 /\ \A e \in Ends(s) : ~(e > p))
      /\ \A e \in Ends(s) : e > p => q <= e
  BY <1>1, <1>2, SkipIs
<1>4. Len(s) \in Nat /\ p \in Nat /\ q \in Nat /\ q \in 1..Len(s) + 1 /\ p <= q /\ c + 1 \in Nat /\ c + 1 # 0
  BY <1>2, <1>3, Characters, SMTT(60)
<1>5. CASE p = Len(s) + 1 /\ Cardinality(Ends(s)) < c
  <2>1. q = Len(s) + 1
    BY <1>3, <1>4, <1>5, SMTT(60)
  <2>2. Cardinality(Ends(s)) < c + 1
    BY <1>5, EndsFinite, SMTT(60)
  <2> QED BY <1>1, <1>4, <2>1, <2>2 DEF Skipped
<1>6. CASE Cardinality(Below(s, p)) = c
  <2>1. CASE q \in Ends(s) /\ q > p
    <3>1. ASSUME NEW e \in Ends(s) PROVE e <= q <=> e <= p \/ e = q
      <4>1. e \in Nat /\ (e > p => q <= e)
        BY <1>3, EndsFinite
      <4> QED BY <1>4, <2>1, <4>1, SMTT(60)
    <3>2. Below(s, q) = Below(s, p) \cup {q}
      BY <2>1, <3>1 DEF Below
    <3>3. q \notin Below(s, p)
      <4>1. ~(q <= p)
        BY <1>4, <2>1, SMTT(60)
      <4> QED BY <4>1 DEF Below
    <3>4. Cardinality(Below(s, q)) = c + 1
      BY <1>6, <3>2, <3>3, EndsFinite, FS_AddElement
    <3> QED BY <1>1, <1>4, <2>1, <3>4 DEF Skipped
  <2>2. CASE q = Len(s) + 1 /\ \A e \in Ends(s) : ~(e > p)
    <3>1. \A e \in Ends(s) : e <= p
      BY <1>4, <2>2, EndsFinite, SMTT(60)
    <3>2. Below(s, p) = Ends(s)
      BY <3>1 DEF Below
    <3>3. Cardinality(Ends(s)) < c + 1
      BY <1>6, <3>2, SMTT(60)
    <3> QED BY <1>1, <1>4, <2>2, <3>3 DEF Skipped
  <2> QED BY <1>3, <2>1, <2>2
<1> QED BY <1>5, <1>6 DEF Skipped

\* sigar_skip_multiple_token does count rounds.
LEMMA MultipleIs ==
  ASSUME NEW s \in Str, NEW count \in Nat
  PROVE  Skipped(s, sigar_skip_multiple_token(s, 1, count), count)
<1> DEFINE Rounds(f) == f = [i \in 0..count |-> IF i = 0 THEN 1 ELSE sigar_skip_token(s, f[i - 1])]
<1>1. sigar_skip_multiple_token(s, 1, count) = (CHOOSE f : Rounds(f))[count]
  BY DEF sigar_skip_multiple_token
<1>2. PICK V : V = 1..Len(s) + 1
  OBVIOUS
<1>3. ASSUME NEW p \in V PROVE sigar_skip_token(s, p) \in V
  <2>1. sigar_skip_token(s, p) \in p..Len(s) + 1
    BY <1>2, SkipIs
  <2> QED BY <1>2, <2>1, Characters, SMTT(60)
<1>4. PICK h : h = [i \in 1..count |-> [p \in V |-> sigar_skip_token(s, p)]]
  OBVIOUS
<1>5. h \in [1..count -> [V -> V]] /\ 1 \in V
  <2>1. 1 \in V
    BY <1>2, Characters, SMTT(60)
  <2> QED BY <1>3, <1>4, <2>1
<1>6. PICK f \in [0..count -> V] : Carries(f, count, 1, h)
  BY <1>5, CarryExists
<1>7. ASSUME NEW i \in 0..count, i # 0 PROVE i \in 1..count /\ i - 1 \in 0..count
  BY <1>7, SMTT(60)
<1>8. ASSUME NEW i \in 0..count
      PROVE (IF i = 0 THEN 1 ELSE h[i][f[i - 1]]) = (IF i = 0 THEN 1 ELSE sigar_skip_token(s, f[i - 1]))
  BY <1>4, <1>6, <1>7
<1>9. Rounds(f)
  <2>1. [i \in 0..count |-> IF i = 0 THEN 1 ELSE h[i][f[i - 1]]]
          = [i \in 0..count |-> IF i = 0 THEN 1 ELSE sigar_skip_token(s, f[i - 1])]
    BY <1>8
  <2> QED BY <1>6, <2>1 DEF Carries
<1>10. PICK g : g = CHOOSE x : Rounds(x)
  OBVIOUS
<1>11. Rounds(g)
  BY <1>9, <1>10
<1>12. PICK T : T = {i \in 0..count : ~Skipped(s, g[i], i)}
  OBVIOUS
<1>13. ASSUME NEW i \in T PROVE \E k \in T : k < i
  <2>1. i \in 0..count /\ ~Skipped(s, g[i], i)
    BY <1>12
  <2>2. i # 0
    BY <1>11, <2>1, SkippedNone
  <2>3. i - 1 \in 0..count /\ i - 1 \in Nat /\ (i - 1) + 1 = i /\ i - 1 < i
    BY <2>1, <2>2, SMTT(60)
  <2>4. ~Skipped(s, g[i - 1], i - 1)
    <3>1. g[i] = sigar_skip_token(s, g[i - 1])
      BY <1>11, <2>1, <2>2
    <3>2. Skipped(s, g[i - 1], i - 1) => Skipped(s, sigar_skip_token(s, g[i - 1]), (i - 1) + 1)
      BY <2>3, SkippedNext
    <3> QED BY <2>1, <2>3, <3>1, <3>2
  <2> QED BY <1>12, <2>3, <2>4
<1>14. T \in SUBSET Nat
  <2>1. \A k \in 0..count : k \in Nat
    BY SMTT(60)
  <2> QED BY <1>12, <2>1
<1>15. T = {}
  BY <1>13, <1>14, Upwards
<1>16. count \in 0..count
  BY SMTT(60)
<1> HIDE DEF Rounds
<1> QED BY <1>1, <1>10, <1>12, <1>15, <1>16

\* SkipsTokens: skipping count tokens ends just behind the count-th token of
\* the line, or at its end when there are fewer, for lines of every length.
THEOREM SkipsTokensHold == Spec => []SkipsTokens
<1>1. ASSUME Strings, NEW count \in 1..MaxHay
      PROVE  sigar_skip_multiple_token(hay, 1, count) =
               IF Cardinality(Ends(hay)) < count THEN Len(hay) + 1
               ELSE CHOOSE e \in Ends(hay) : Cardinality(Below(hay, e)) = count
  <2>1. PICK s : s = hay
    OBVIOUS
  <2>2. s \in Str
    BY <1>1, <2>1, StringsAreStr
  <2>3. count \in Nat /\ count # 0
    BY MaxAssumption, SMTT(60)
  <2>4. PICK q : q = sigar_skip_multiple_token(s, 1, count)
    OBVIOUS
  <2>5. Skipped(s, q, count)
    BY <2>2, <2>3, <2>4, MultipleIs
  <2>6. CASE q = Len(s) + 1 /\ Cardinality(Ends(s)) < count
    BY <2>1, <2>4, <2>6
  <2>7. CASE Cardinality(Below(s, q)) = count /\ q \in Ends(s)
    <3>1. ~(Cardinality(Ends(s)) < count)
      BY <2>2, <2>3, <2>7, EndsFinite, SMTT(60)
    <3>2. ASSUME NEW e \in Ends(s), NEW d \in Ends(s), e < d,
                 Cardinality(Below(s, e)) = Cardinality(Below(s, d))
          PROVE  FALSE
      <4>1. e \in Nat /\ d \in Nat
        BY <2>2, EndsFinite
      <4>2. \A i \in Ends(s) : i <= e => i <= d
        BY <2>2, <3>2, <4>1, EndsFinite, SMTT(60)
      <4>3. Below(s, e) \in SUBSET Below(s, d)
        BY <4>2 DEF Below
      <4>4. Below(s, e) = Below(s, d)
        BY <2>2, <3>2, <4>3, EndsFinite, FS_Subset
      <4>5. d <= d /\ ~(d <= e)
        BY <3>2, <4>1, SMTT(60)
      <4> QED BY <4>4, <4>5 DEF Below
    <3>3. ASSUME NEW e \in Ends(s), Cardinality(Below(s, e)) = count PROVE e = q
      <4>1. e < q \/ q < e \/ e = q
        BY <2>2, <2>7, EndsFinite, SMTT(60)
      <4> QED BY <2>7, <3>2, <3>3, <4>1
    <3>4. q = CHOOSE e \in Ends(s) : Cardinality(Below(s, e)) = count
      BY <2>7, <3>3
    <3> QED BY <2>1, <2>4, <3>1, <3>4
  <2> QED BY <2>3, <2>5, <2>6, <2>7 DEF Skipped
<1>2. Strings => SkipsTokens
  BY <1>1 DEF SkipsTokens, Ends, Below
<1> QED BY <1>2, StringsHold, PTL

-----------------------------------------------------------------------------
(* Concatenations.                                                         *)

\* A concatenation of strings, and of the empty one.
LEMMA Concat ==
  ASSUME NEW x \in Str, NEW y \in Str
  PROVE  x \o y \in Str /\ << >> \in Str /\ << >> \o x = x /\ x \o << >> = x
BY SMTT(60) DEF Str

\* Concatenation is associative.
LEMMA Associative ==
  ASSUME NEW x \in Str, NEW y \in Str, NEW z \in Str
  PROVE  (x \o y) \o z = x \o (y \o z)
<1>1. PICK u, v : u = x \o y /\ v = y \o z
  OBVIOUS
<1>2. /\ u \in Str /\ Len(u) = Len(x) + Len(y)
      /\ \A k \in 1..Len(x) + Len(y) : u[k] = IF k <= Len(x) THEN x[k] ELSE y[k - Len(x)]
  BY <1>1, SMTT(60) DEF Str
<1>3. /\ v \in Str /\ Len(v) = Len(y) + Len(z)
      /\ \A k \in 1..Len(y) + Len(z) : v[k] = IF k <= Len(y) THEN y[k] ELSE z[k - Len(y)]
  BY <1>1, SMTT(60) DEF Str
<1>4. PICK a, b : a = u \o z /\ b = x \o v
  OBVIOUS
<1>5. /\ a \in Str /\ Len(a) = Len(u) + Len(z)
      /\ \A k \in 1..Len(u) + Len(z) : a[k] = IF k <= Len(u) THEN u[k] ELSE z[k - Len(u)]
  BY <1>2, <1>4, SMTT(60) DEF Str
<1>6. /\ b \in Str /\ Len(b) = Len(x) + Len(v)
      /\ \A k \in 1..Len(x) + Len(v) : b[k] = IF k <= Len(x) THEN x[k] ELSE v[k - Len(x)]
  BY <1>3, <1>4, SMTT(60) DEF Str
<1>7. Len(x) \in Nat /\ Len(y) \in Nat /\ Len(z) \in Nat
  BY Characters
<1>8. Len(a) = Len(b)
  BY <1>2, <1>3, <1>5, <1>6, <1>7, SMTT(60)
<1>9. ASSUME NEW k \in 1..Len(a) PROVE a[k] = b[k]
  <2>1. k \in Int /\ k >= 1 /\ k <= Len(x) + Len(y) + Len(z)
    BY <1>2, <1>5, <1>7, SMTT(60)
  <2>2. CASE k <= Len(x)
    BY <1>2, <1>3, <1>5, <1>6, <1>7, <2>1, <2>2, SMTT(60)
  <2>3. CASE k > Len(x) /\ k <= Len(x) + Len(y)
    BY <1>2, <1>3, <1>5, <1>6, <1>7, <2>1, <2>3, SMTT(60)
  <2>4. CASE k > Len(x) + Len(y)
    <3>1. PICK j, i : j = k - Len(x) /\ i = j - Len(y)
      OBVIOUS
    <3>2. /\ j \in 1..Len(y) + Len(z) /\ ~(j <= Len(y)) /\ ~(k <= Len(x)) /\ ~(k <= Len(u))
          /\ k \in 1..Len(u) + Len(z) /\ k \in 1..Len(x) + Len(v) /\ i = k - Len(u)
      BY <1>2, <1>3, <1>7, <2>1, <2>4, <3>1, SMTT(60)
    <3>3. v[j] = z[i] /\ a[k] = z[i] /\ b[k] = v[j]
      BY <1>3, <1>5, <1>6, <3>1, <3>2
    <3> QED BY <3>3
  <2> QED BY <1>7, <2>1, <2>2, <2>3, <2>4, SMTT(60)
<1> QED BY <1>1, <1>4, <1>5, <1>6, <1>8, <1>9, SameSequence DEF Str

\* Appending to a concatenation appends to its last part.
LEMMA AppendLast ==
  ASSUME NEW x \in Str, NEW y \in Str, NEW c \in Nat \ {0}
  PROVE  Append(x \o y, c) = x \o Append(y, c)
<1>1. PICK z : z = <<c>>
  OBVIOUS
<1>2. z \in Str
  BY <1>1, SMTT(60) DEF Str
<1>3. \A t \in Str : Append(t, c) = t \o z
  BY <1>1, SMTT(60) DEF Str
<1>4. x \o y \in Str
  BY Concat
<1>5. Append(x \o y, c) = (x \o y) \o z /\ Append(y, c) = y \o z
  BY <1>3, <1>4
<1>6. (x \o y) \o z = x \o (y \o z)
  BY <1>2, Associative
<1> QED BY <1>5, <1>6

\* A sequence without elements.
LEMMA EmptySequence ==
  ASSUME NEW A, NEW s \in Seq(A), Len(s) = 0
  PROVE  s = << >>
BY SMTT(60)

\* c[i] is the first i members of W, one after the other.
Joins(c, W) ==
  /\ c[0] = << >>
  /\ \A i \in 0..Len(W) : c[i] \in Str
  /\ \A i \in 1..Len(W) : c[i] = c[i - 1] \o W[i]

\* There is such a joining, and Joined is its last member.
LEMMA JoinedIs ==
  ASSUME NEW W \in Seq(Str)
  PROVE  \E c : Joins(c, W) /\ Joined(W) = c[Len(W)]
<1> DEFINE Join(f) == f = [i \in 0..Len(W) |-> IF i = 0 THEN << >> ELSE f[i - 1] \o W[i]]
<1>1. Joined(W) = (CHOOSE f : Join(f))[Len(W)]
  BY DEF Joined
<1>2. Len(W) \in Nat /\ \A i \in 1..Len(W) : W[i] \in Str
  BY SMTT(60)
<1>3. << >> \in Str
  BY SMTT(60) DEF Str
<1>4. \A i \in 0..Len(W) : i # 0 => i \in 1..Len(W) /\ i - 1 \in 0..Len(W) /\ i - 1 < i
  BY <1>2, SMTT(60)
<1>5. \E f : Join(f)
  <2>1. PICK h : h = [i \in 1..Len(W) |-> [x \in Str |-> x \o W[i]]]
    OBVIOUS
  <2>2. h \in [1..Len(W) -> [Str -> Str]]
    BY <1>2, <2>1, Concat
  <2>3. PICK f \in [0..Len(W) -> Str] : Carries(f, Len(W), << >>, h)
    BY <1>2, <1>3, <2>2, CarryExists
  <2>4. ASSUME NEW i \in 0..Len(W)
        PROVE  (IF i = 0 THEN << >> ELSE h[i][f[i - 1]]) = (IF i = 0 THEN << >> ELSE f[i - 1] \o W[i])
    BY <1>4, <2>1, <2>3
  <2>5. [i \in 0..Len(W) |-> IF i = 0 THEN << >> ELSE h[i][f[i - 1]]] =
          [i \in 0..Len(W) |-> IF i = 0 THEN << >> ELSE f[i - 1] \o W[i]]
    BY <2>4
  <2> QED BY <2>3, <2>5 DEF Carries
<1>6. PICK g : g = CHOOSE f : Join(f)
  OBVIOUS
<1>7. \A i \in 0..Len(W) : g[i] = IF i = 0 THEN << >> ELSE g[i - 1] \o W[i]
  <2>1. Join(g)
    BY <1>5, <1>6
  <2>2. PICK r : r = [i \in 0..Len(W) |-> IF i = 0 THEN << >> ELSE g[i - 1] \o W[i]]
    OBVIOUS
  <2>3. g = r
    BY <2>1, <2>2
  <2>4. \A i \in 0..Len(W) : r[i] = IF i = 0 THEN << >> ELSE g[i - 1] \o W[i]
    BY <2>2
  <2> QED BY <2>3, <2>4
<1> HIDE DEF Join
<1>8. PICK T : T = {i \in 0..Len(W) : g[i] \notin Str}
  OBVIOUS
<1>9. ASSUME NEW i \in T PROVE \E k \in T : k < i
  <2>1. i \in 0..Len(W) /\ g[i] \notin Str
    BY <1>8
  <2>2. i # 0
    BY <1>3, <1>7, <2>1
  <2>3. g[i - 1] \notin Str
    BY <1>2, <1>4, <1>7, <2>1, <2>2, Concat
  <2> QED BY <1>4, <1>8, <2>1, <2>2, <2>3
<1>10. T \in SUBSET Nat
  <2>1. \A k \in 0..Len(W) : k \in Nat
    BY <1>2, SMTT(60)
  <2> QED BY <1>8, <2>1
<1>11. T = {}
  BY <1>9, <1>10, Upwards
<1>12. 0 \in 0..Len(W) /\ \A i \in 1..Len(W) : i \in 0..Len(W) /\ i # 0
  BY <1>2, SMTT(60)
<1>13. Joins(g, W)
  BY <1>7, <1>8, <1>11, <1>12 DEF Joins
<1> QED BY <1>1, <1>6, <1>13

\* Joining a sequence with one string more in front.
LEMMA JoinedCons ==
  ASSUME NEW w \in Str, NEW W \in Seq(Str)
  PROVE  /\ Joined(W) \in Str
         /\ Joined(<<w>> \o W) = w \o Joined(W)
<1>1. PICK U : U = <<w>> \o W
  OBVIOUS
<1>2. PICK n : n = Len(W)
  OBVIOUS
<1>3. n \in Nat /\ \A i \in 1..n : W[i] \in Str
  BY <1>2, SMTT(60)
<1>4. U \in Seq(Str) /\ Len(U) = n + 1 /\ U[1] = w /\ \A i \in 1..n : U[i + 1] = W[i]
  BY <1>1, <1>2, SMTT(60)
<1>5. PICK c : Joins(c, W) /\ Joined(W) = c[n]
  BY <1>2, JoinedIs
<1>6. PICK d : Joins(d, U) /\ Joined(U) = d[n + 1]
  BY <1>4, JoinedIs
<1>7. c[0] = << >> /\ (\A i \in 0..n : c[i] \in Str) /\ \A i \in 1..n : c[i] = c[i - 1] \o W[i]
  BY <1>2, <1>5 DEF Joins
<1>8. d[0] = << >> /\ \A i \in 1..n + 1 : d[i] = d[i - 1] \o U[i]
  BY <1>4, <1>6 DEF Joins
<1>9. PICK T : T = {i \in 0..n : d[i + 1] # w \o c[i]}
  OBVIOUS
<1>10. ASSUME NEW i \in T PROVE \E k \in T : k < i
  <2>1. i \in 0..n /\ d[i + 1] # w \o c[i]
    BY <1>9
  <2>2. i + 1 \in 1..n + 1 /\ (i + 1) - 1 = i /\ i \in Nat
    BY <1>3, <2>1, SMTT(60)
  <2>3. d[i + 1] = d[i] \o U[i + 1]
    BY <1>8, <2>2
  <2>4. i # 0
    <3> SUFFICES ASSUME i = 0 PROVE FALSE
      OBVIOUS
    <3>1. i + 1 = 1
      BY SMTT(60)
    <3>2. d[i + 1] = << >> \o w
      BY <1>4, <1>8, <2>3, <3>1
    <3>3. << >> \o w = w /\ w \o << >> = w
      BY Concat
    <3> QED BY <1>7, <2>1, <3>2, <3>3
  <2>5. i \in 1..n /\ i - 1 \in 0..n /\ (i - 1) + 1 = i /\ i - 1 < i
    BY <1>3, <2>1, <2>4, SMTT(60)
  <2>6. d[i] # w \o c[i - 1]
    <3> SUFFICES ASSUME d[i] = w \o c[i - 1] PROVE FALSE
      OBVIOUS
    <3>1. d[i + 1] = (w \o c[i - 1]) \o W[i]
      BY <1>4, <2>3, <2>5
    <3>2. (w \o c[i - 1]) \o W[i] = w \o (c[i - 1] \o W[i])
      <4>1. c[i - 1] \in Str /\ W[i] \in Str
        BY <1>3, <1>7, <2>5
      <4>2. PICK x : x = c[i - 1]
        OBVIOUS
      <4>3. PICK y : y = W[i]
        OBVIOUS
      <4>4. (w \o x) \o y = w \o (x \o y)
        BY <4>1, <4>2, <4>3, Associative
      <4> QED BY <4>2, <4>3, <4>4
    <3> QED BY <1>7, <2>1, <2>5, <3>1, <3>2
  <2> QED BY <1>9, <2>5, <2>6
<1>11. T \in SUBSET Nat
  <2>1. \A k \in 0..n : k \in Nat
    BY <1>3, SMTT(60)
  <2> QED BY <1>9, <2>1
<1>12. T = {}
  BY <1>10, <1>11, Upwards
<1>13. n \in 0..n
  BY <1>3, SMTT(60)
<1> QED BY <1>1, <1>5, <1>6, <1>7, <1>9, <1>12, <1>13

-----------------------------------------------------------------------------
(* A line without its separators.                                          *)

\* g[i] is the first i characters of s without them.
Strips(g, s) ==
  /\ g[0] = << >>
  /\ \A i \in 0..Len(s) : g[i] \in Str
  /\ \A i \in 1..Len(s) : g[i] = IF s[i] # Space THEN Append(g[i - 1], s[i]) ELSE g[i - 1]

\* NoSpaces is the last member of such a stripping.
LEMMA NoSpacesIs ==
  ASSUME NEW s \in Str
  PROVE  \E g : Strips(g, s) /\ NoSpaces(s) = g[Len(s)]
<1> DEFINE Strip(f) == f = [i \in 0..Len(s) |-> IF i = 0 THEN << >>
                             ELSE IF s[i] # Space THEN Append(f[i - 1], s[i]) ELSE f[i - 1]]
<1>1. NoSpaces(s) = (CHOOSE f : Strip(f))[Len(s)]
  BY DEF NoSpaces, NotSpace
<1>2. Len(s) \in Nat /\ \A i \in 1..Len(s) : s[i] \in Nat \ {0}
  BY Characters
<1>3. ASSUME NEW x \in Str, NEW c \in Nat \ {0} PROVE Append(x, c) \in Str
  BY SMTT(60) DEF Str
<1>4. << >> \in Str
  BY SMTT(60) DEF Str
<1>5. \A i \in 0..Len(s) : i # 0 => i \in 1..Len(s) /\ i - 1 \in 0..Len(s) /\ i - 1 < i
  BY <1>2, SMTT(60)
<1>6. \E f : Strip(f)
  <2>1. PICK h : h = [i \in 1..Len(s) |-> [x \in Str |-> IF s[i] # Space THEN Append(x, s[i]) ELSE x]]
    OBVIOUS
  <2>2. h \in [1..Len(s) -> [Str -> Str]]
    BY <1>2, <1>3, <2>1
  <2>3. PICK f \in [0..Len(s) -> Str] : Carries(f, Len(s), << >>, h)
    BY <1>2, <1>4, <2>2, CarryExists
  <2>4. ASSUME NEW i \in 0..Len(s)
        PROVE  (IF i = 0 THEN << >> ELSE h[i][f[i - 1]]) =
                 (IF i = 0 THEN << >> ELSE IF s[i] # Space THEN Append(f[i - 1], s[i]) ELSE f[i - 1])
    BY <1>5, <2>1, <2>3
  <2>5. [i \in 0..Len(s) |-> IF i = 0 THEN << >> ELSE h[i][f[i - 1]]] =
          [i \in 0..Len(s) |-> IF i = 0 THEN << >>
                               ELSE IF s[i] # Space THEN Append(f[i - 1], s[i]) ELSE f[i - 1]]
    BY <2>4
  <2> QED BY <2>3, <2>5 DEF Carries
<1>7. PICK g : g = CHOOSE f : Strip(f)
  OBVIOUS
<1>8. \A i \in 0..Len(s) : g[i] = IF i = 0 THEN << >>
                             ELSE IF s[i] # Space THEN Append(g[i - 1], s[i]) ELSE g[i - 1]
  <2>1. Strip(g)
    BY <1>6, <1>7
  <2>2. PICK r : r = [i \in 0..Len(s) |-> IF i = 0 THEN << >>
                             ELSE IF s[i] # Space THEN Append(g[i - 1], s[i]) ELSE g[i - 1]]
    OBVIOUS
  <2>3. g = r
    BY <2>1, <2>2
  <2>4. \A i \in 0..Len(s) : r[i] = IF i = 0 THEN << >>
                             ELSE IF s[i] # Space THEN Append(g[i - 1], s[i]) ELSE g[i - 1]
    BY <2>2
  <2> QED BY <2>3, <2>4
<1> HIDE DEF Strip
<1>9. PICK T : T = {i \in 0..Len(s) : g[i] \notin Str}
  OBVIOUS
<1>10. ASSUME NEW i \in T PROVE \E k \in T : k < i
  <2>1. i \in 0..Len(s) /\ g[i] \notin Str
    BY <1>9
  <2>2. i # 0
    BY <1>4, <1>8, <2>1
  <2>3. g[i - 1] \notin Str
    BY <1>2, <1>3, <1>5, <1>8, <2>1, <2>2
  <2> QED BY <1>5, <1>9, <2>1, <2>2, <2>3
<1>11. T \in SUBSET Nat
  <2>1. \A k \in 0..Len(s) : k \in Nat
    BY <1>2, SMTT(60)
  <2> QED BY <1>9, <2>1
<1>12. T = {}
  BY <1>10, <1>11, Upwards
<1>13. 0 \in 0..Len(s) /\ \A i \in 1..Len(s) : i \in 0..Len(s) /\ i # 0
  BY <1>2, SMTT(60)
<1>14. Strips(g, s)
  BY <1>8, <1>9, <1>12, <1>13 DEF Strips
<1> QED BY <1>1, <1>7, <1>14

\* It grows by a word, and not by separators.
LEMMA StripsWord ==
  ASSUME NEW s \in Str, NEW g, Strips(g, s), NEW a \in 0..Len(s), NEW b \in 0..Len(s), a <= b,
         \A k \in a + 1..b : s[k] # Space
  PROVE  g[b] = g[a] \o SubSeq(s, a + 1, b)
<1>1. PICK T : T = {i \in a..b : g[i] # g[a] \o SubSeq(s, a + 1, i)}
  OBVIOUS
<1>2. Len(s) \in Nat
  BY Characters
<1>3. PICK x : x = g[a]
  OBVIOUS
<1>4. x \in Str
  BY <1>3 DEF Strips
<1>5. ASSUME NEW i \in T PROVE \E k \in T : k < i
  <2>1. i \in a..b /\ g[i] # x \o SubSeq(s, a + 1, i)
    BY <1>1, <1>3
  <2>2. i # a
    <3> SUFFICES ASSUME i = a PROVE FALSE
      OBVIOUS
    <3>1. SubSeq(s, a + 1, a) = << >>
      BY <1>2, SMTT(60) DEF Str
    <3>2. x \o << >> = x
      BY <1>4, Concat
    <3> QED BY <1>3, <2>1, <3>1, <3>2
  <2>3. i \in 1..Len(s) /\ i - 1 \in a..b /\ i - 1 < i /\ i \in a + 1..b
    BY <1>2, <2>1, <2>2, SMTT(60)
  <2>4. g[i] = Append(g[i - 1], s[i])
    BY <2>3 DEF Strips
  <2>5. Append(x \o SubSeq(s, a + 1, i - 1), s[i]) = x \o SubSeq(s, a + 1, i)
    <3>1. PICK u : u = SubSeq(s, a + 1, i - 1)
      OBVIOUS
    <3>2. PICK v : v = SubSeq(s, a + 1, i)
      OBVIOUS
    <3>3. u \in Str /\ v \in Str /\ s[i] \in Nat \ {0} /\ Len(u) = i - 1 - a /\ Len(v) = i - a
          /\ (\A k \in 1..i - 1 - a : u[k] = s[a + k]) /\ (\A k \in 1..i - a : v[k] = s[a + k])
      BY <1>2, <2>3, <3>1, <3>2, SMTT(60) DEF Str
    <3>4. v = Append(u, s[i])
      <4>1. PICK w : w = Append(u, s[i])
        OBVIOUS
      <4>2. PICK n : n = i - 1 - a
        OBVIOUS
      <4>3. n \in Nat /\ i - a = n + 1 /\ a + (n + 1) = i
        BY <1>2, <2>3, <4>2, SMTT(60)
      <4>4. /\ w \in Str /\ Len(w) = n + 1 /\ w[n + 1] = s[i]
            /\ \A k \in 1..n : w[k] = u[k]
        BY <3>3, <4>1, <4>2, SMTT(60) DEF Str
      <4>5. ASSUME NEW k \in 1..n + 1 PROVE w[k] = v[k]
        <5>1. k \in 1..n \/ k = n + 1
          BY <4>3, SMTT(60)
        <5> QED BY <3>3, <4>2, <4>3, <4>4, <5>1
      <4>6. w \in Str /\ v \in Str /\ Len(w) = Len(v) /\ \A k \in 1..Len(w) : w[k] = v[k]
        BY <3>3, <4>3, <4>4, <4>5
      <4> QED BY <4>1, <4>6, SameSequence
    <3>5. Append(x \o u, s[i]) = x \o Append(u, s[i])
      BY <1>4, <3>3, AppendLast
    <3> QED BY <3>1, <3>2, <3>4, <3>5
  <2>6. i - 1 \in T
    BY <1>1, <1>3, <2>1, <2>3, <2>4, <2>5
  <2> QED BY <2>3, <2>6
<1>6. T \in SUBSET Nat
  <2>1. \A k \in a..b : k \in Nat
    BY <1>2, SMTT(60)
  <2> QED BY <1>1, <2>1
<1>7. T = {}
  BY <1>5, <1>6, Upwards
<1>8. b \in a..b
  BY <1>2, SMTT(60)
<1> QED BY <1>1, <1>7, <1>8

\* A run of spaces adds nothing to what is stripped.
LEMMA StripsSpaces ==
  ASSUME NEW s \in Str, NEW g, Strips(g, s), NEW a \in 0..Len(s), NEW b \in 0..Len(s), a <= b,
         \A k \in a + 1..b : s[k] = Space
  PROVE  g[b] = g[a]
<1>1. PICK T : T = {i \in a..b : g[i] # g[a]}
  OBVIOUS
<1>2. Len(s) \in Nat
  BY Characters
<1>3. ASSUME NEW i \in T PROVE \E k \in T : k < i
  <2>1. i \in a..b /\ i # a
    BY <1>1
  <2>2. i \in 1..Len(s) /\ i - 1 \in a..b /\ i - 1 < i /\ i \in a + 1..b
    BY <1>2, <2>1, SMTT(60)
  <2>3. g[i] = g[i - 1]
    BY <2>2 DEF Strips
  <2> QED BY <1>1, <2>2, <2>3
<1>4. T \in SUBSET Nat
  <2>1. \A k \in a..b : k \in Nat
    BY <1>2, SMTT(60)
  <2> QED BY <1>1, <2>1
<1>5. T = {}
  BY <1>3, <1>4, Upwards
<1>6. b \in a..b
  BY <1>2, SMTT(60)
<1> QED BY <1>1, <1>5, <1>6

-----------------------------------------------------------------------------
(* The words of a line.                                                    *)

WordEnd(s, p) == Until(s, p, {Space, Nul})
NextWord(s, p) == Beyond(s, WordEnd(s, p), Space)

\* sigar_getword takes the characters up to a separator, and passes those that
\* follow; it gets further in any case.
LEMMA GetwordIs ==
  ASSUME NEW s \in Str, NEW p \in 1..Len(s)
  PROVE  LET e == WordEnd(s, p)
             l == NextWord(s, p)
         IN  /\ sigar_getword(s, p, Space).word = SubSeq(s, p, e - 1)
             /\ sigar_getword(s, p, Space).line = l
             /\ e \in p..Len(s) + 1 /\ l \in e..Len(s) + 1 /\ l > p
             /\ At(s, l) # Space
             /\ \A k \in p..e - 1 : s[k] # Space
             /\ \A k \in e..l - 1 : k \in 1..Len(s) /\ s[k] = Space
             /\ s[p] = Space <=> e = p
             /\ l <= Len(s) => l > e
<1>1. PICK e : e = WordEnd(s, p)
  OBVIOUS
<1>2. PICK l : l = NextWord(s, p)
  OBVIOUS
<1>3. sigar_getword(s, p, Space).word = SubSeq(s, p, e - 1) /\ sigar_getword(s, p, Space).line = l
  BY <1>1, <1>2, SpaceIs DEF sigar_getword, WordEnd, NextWord
<1>4. Len(s) \in Nat /\ p \in 1..Len(s) + 1 /\ p \in Nat
  BY Characters, SMTT(60)
<1>5. /\ e \in p..Len(s) + 1 /\ At(s, e) \in {Space, Nul}
      /\ \A k \in p..e - 1 : At(s, k) \notin {Space, Nul}
  BY <1>1, <1>4, UntilIs DEF WordEnd
<1>6. e \in 1..Len(s) + 1 /\ e \in Nat
  BY <1>4, <1>5, SMTT(60)
<1>7. /\ l \in e..Len(s) + 1 /\ At(s, l) # Space
      /\ \A k \in e..l - 1 : At(s, k) = Space
  BY <1>1, <1>2, <1>6, BeyondIs, SpaceIs DEF NextWord
<1>8. l \in Nat /\ l \in 1..Len(s) + 1
  BY <1>6, <1>7, SMTT(60)
<1>9. ASSUME NEW k \in p..e - 1 PROVE s[k] # Space
  <2>1. k \in 1..Len(s)
    BY <1>4, <1>5, SMTT(60)
  <2> QED BY <1>5, <2>1, Characters
<1>10. ASSUME NEW k \in e..l - 1 PROVE k \in 1..Len(s) /\ s[k] = Space
  <2>1. k \in 1..Len(s)
    BY <1>4, <1>6, <1>7, SMTT(60)
  <2> QED BY <1>7, <2>1, Characters
<1>11. s[p] = Space <=> e = p
  <2>1. At(s, p) = s[p] /\ s[p] # Nul
    BY Characters
  <2>2. e # p => p \in p..e - 1
    BY <1>4, <1>5, SMTT(60)
  <2> QED BY <1>5, <2>1, <2>2
<1>12. l <= Len(s) => l > e
  <2> SUFFICES ASSUME l <= Len(s), ~(l > e) PROVE FALSE
    OBVIOUS
  <2>1. l = e /\ e \in 1..Len(s)
    BY <1>4, <1>6, <1>7, SMTT(60)
  <2> QED BY <1>5, <1>7, <2>1, Characters
<1>13. l > p
  <2> SUFFICES ASSUME ~(l > p) PROVE FALSE
    OBVIOUS
  <2>1. l = p /\ e = p /\ l <= Len(s) /\ ~(l > e)
    BY <1>4, <1>5, <1>6, <1>7, SMTT(60)
  <2> QED BY <1>12, <2>1
<1> QED BY <1>1, <1>2, <1>3, <1>5, <1>7, <1>9, <1>10, <1>11, <1>12, <1>13

\* f[p] is what a loop that goes from p to j[p] makes of the line behind p.
Leads(j, n) == j \in [1..n -> 1..n] /\ \A p \in 1..n - 1 : j[p] > p
Jumps(f, n, a, h, j) == \A p \in 1..n : f[p] = IF p = n THEN a ELSE h[p][f[j[p]]]

\* There is such a function when every jump leads forward.
LEMMA JumpExists ==
  ASSUME NEW n \in Nat, n >= 1, NEW V, NEW a \in V, NEW h \in [1..n -> [V -> V]],
         NEW j, Leads(j, n)
  PROVE  \E f \in [1..n -> V] : Jumps(f, n, a, h, j)
<1> DEFINE Right(f, p) == f[p] = IF p = n THEN a ELSE h[p][f[j[p]]]
<1>1. PICK T : T = {k \in 1..n : ~\E f \in [1..n -> V] : \A p \in k..n : Right(f, p)}
  OBVIOUS
<1>2. ASSUME NEW k \in T PROVE \E l \in T : l > k
  <2>1. k \in 1..n /\ k \in Nat
    BY <1>1, SMTT(60)
  <2>2. CASE k = n
    <3>1. PICK f : f = [p \in 1..n |-> a]
      OBVIOUS
    <3>2. \A p \in k..n : p = n /\ p \in 1..n
      BY <2>1, <2>2, SMTT(60)
    <3>3. f \in [1..n -> V] /\ \A p \in k..n : Right(f, p)
      BY <3>1, <3>2
    <3> QED BY <1>1, <3>3
  <2>3. CASE k # n
    <3>1. k + 1 \in 1..n /\ k + 1 > k /\ k \in 1..n - 1
      BY <2>1, <2>3, SMTT(60)
    <3> SUFFICES ASSUME k + 1 \notin T PROVE FALSE
      BY <3>1
    <3>2. PICK f \in [1..n -> V] : \A p \in k + 1..n : Right(f, p)
      BY <1>1, <3>1
    <3>3. PICK x : x = h[k][f[j[k]]]
      OBVIOUS
    <3>4. x \in V
      BY <2>1, <3>2, <3>3 DEF Leads
    <3>5. PICK g : g = [p \in 1..n |-> IF p = k THEN x ELSE f[p]]
      OBVIOUS
    <3>6. g \in [1..n -> V]
      BY <3>2, <3>4, <3>5
    <3>7. ASSUME NEW p \in k..n, p # n PROVE p \in 1..n /\ p \in 1..n - 1 /\ j[p] \in 1..n /\ j[p] # k
      <4>1. p \in 1..n - 1 /\ p \in 1..n
        BY <2>1, <3>7, SMTT(60)
      <4>2. j[p] > p /\ j[p] \in 1..n
        BY <4>1 DEF Leads
      <4>3. j[p] # k
        BY <2>1, <3>7, <4>2, SMTT(60)
      <4> QED BY <4>1, <4>2, <4>3
    <3>8. ASSUME NEW p \in k..n PROVE Right(g, p)
      <4>0. p \in 1..n
        BY <2>1, SMTT(60)
      <4>1. CASE p = k
        <5>1. j[k] \in 1..n /\ j[k] # k
          BY <2>3, <3>7, <4>1
        <5>2. g[j[k]] = f[j[k]] /\ g[k] = x
          BY <2>1, <3>5, <5>1
        <5> QED BY <2>3, <3>3, <4>1, <5>2
      <4>2. CASE p # k
        <5>1. p \in k + 1..n
          BY <2>1, <4>2, SMTT(60)
        <5>2. Right(f, p)
          BY <3>2, <5>1
        <5>3. g[p] = f[p]
          BY <3>5, <4>0, <4>2
        <5>4. CASE p = n
          BY <5>2, <5>3, <5>4
        <5>5. CASE p # n
          <6>1. j[p] \in 1..n /\ j[p] # k
            BY <3>7, <5>5
          <6>2. g[j[p]] = f[j[p]]
            BY <3>5, <6>1
          <6> QED BY <5>2, <5>3, <5>5, <6>2
        <5> QED BY <5>4, <5>5
      <4> QED BY <4>1, <4>2
    <3> QED BY <1>1, <2>1, <3>6, <3>8
  <2> QED BY <2>2, <2>3
<1>3. T \in SUBSET (1..n)
  BY <1>1
<1>4. T = {}
  BY <1>2, <1>3, Downwards
<1>5. 1 \in 1..n
  BY SMTT(60)
<1> QED BY <1>1, <1>4, <1>5 DEF Jumps

\* The word at p, and the words from p on.
WordAt(s, p) == SubSeq(s, p, WordEnd(s, p) - 1)

\* Words takes the word at p and goes on with the next one.
LEMMA WordsIs ==
  ASSUME NEW s \in Str
  PROVE  \E f : /\ Words(s) = f[1]
                /\ \A p \in 1..Len(s) + 1 :
                     f[p] = IF p > Len(s) THEN << >> ELSE <<WordAt(s, p)>> \o f[NextWord(s, p)]
<1> DEFINE Take(f, p) == LET r == sigar_getword(s, p, Space) IN <<r.word>> \o f[r.line]
           From(f) == f = [p \in 1..Len(s) + 1 |-> IF p > Len(s) THEN << >> ELSE Take(f, p)]
<1>0. PICK g : g = CHOOSE f : From(f)
  OBVIOUS
<1>1. Words(s) = g[1]
  BY <1>0 DEF Words
<1>2. PICK n : n = Len(s) + 1
  OBVIOUS
<1>3. n \in Nat /\ n >= 1 /\ Len(s) \in Nat /\ \A p \in 1..n : p > Len(s) <=> p = n
  BY <1>2, Characters, SMTT(60)
<1>4. \A p \in 1..n : (p # n => p \in 1..Len(s)) /\ (p \in 1..n - 1 => p # n /\ p \in 1..Len(s))
  BY <1>2, <1>3, SMTT(60)
<1>5. ASSUME NEW p \in 1..Len(s)
      PROVE  WordAt(s, p) \in Str /\ NextWord(s, p) \in 1..n /\ NextWord(s, p) > p
  <2>1. PICK e : e = WordEnd(s, p)
    OBVIOUS
  <2>2. PICK l : l = NextWord(s, p)
    OBVIOUS
  <2>3. e \in p..Len(s) + 1 /\ l \in e..Len(s) + 1 /\ l > p
    BY <2>1, <2>2, GetwordIs
  <2>4. l \in 1..n /\ e - 1 \in 0..Len(s)
    BY <1>2, <1>3, <2>3, SMTT(60)
  <2>5. SubSeq(s, p, e - 1) \in Str
    BY <1>3, <2>4, SMTT(60) DEF Str
  <2> QED BY <2>1, <2>2, <2>3, <2>4, <2>5 DEF WordAt
<1>6. ASSUME NEW f, NEW p \in 1..Len(s) PROVE Take(f, p) = <<WordAt(s, p)>> \o f[NextWord(s, p)]
  <2>1. sigar_getword(s, p, Space).word = WordAt(s, p) /\ sigar_getword(s, p, Space).line = NextWord(s, p)
    BY GetwordIs DEF WordAt
  <2> QED BY <2>1
<1> HIDE DEF Take
<1>7. \E f : From(f)
  <2>1. PICK V : V = Seq(Str)
    OBVIOUS
  <2>2. << >> \in V /\ \A w \in Str, x \in V : <<w>> \o x \in V
    <3>1. << >> \in V
      BY <2>1, SMTT(60)
    <3>2. ASSUME NEW w \in Str, NEW x \in V PROVE <<w>> \o x \in V
      BY <2>1, SMTT(60)
    <3> QED BY <3>1, <3>2
  <2>3. PICK h : h = [p \in 1..n |-> [x \in V |-> IF p = n THEN x ELSE <<WordAt(s, p)>> \o x]]
    OBVIOUS
  <2>4. h \in [1..n -> [V -> V]]
    BY <1>4, <1>5, <2>2, <2>3
  <2>5. PICK j : j = [p \in 1..n |-> IF p = n THEN p ELSE NextWord(s, p)]
    OBVIOUS
  <2>6. j \in [1..n -> 1..n]
    BY <1>4, <1>5, <2>5
  <2>7. ASSUME NEW p \in 1..n - 1 PROVE j[p] > p
    <3>1. p \in 1..n
      BY <1>3, SMTT(60)
    <3> QED BY <1>4, <1>5, <2>5, <3>1
  <2>8. PICK f \in [1..n -> V] : \A p \in 1..n : f[p] = IF p = n THEN << >> ELSE h[p][f[j[p]]]
    <3>1. PICK a : a = << >>
      OBVIOUS
    <3>2. a \in V /\ Leads(j, n)
      BY <2>2, <2>6, <2>7, <3>1 DEF Leads
    <3>3. \E f \in [1..n -> V] : Jumps(f, n, a, h, j)
      BY <1>3, <2>4, <3>2, JumpExists
    <3> QED BY <3>1, <3>3 DEF Jumps
  <2>9. ASSUME NEW p \in 1..n PROVE f[p] = IF p > Len(s) THEN << >> ELSE Take(f, p)
    <3>1. CASE p = n
      BY <1>3, <2>8, <3>1
    <3>2. CASE p # n
      <4>1. p \in 1..Len(s) /\ ~(p > Len(s))
        BY <1>3, <1>4, <3>2
      <4>2. j[p] = NextWord(s, p) /\ f[j[p]] \in V
        BY <2>5, <2>6, <2>8, <3>2
      <4>3. f[p] = <<WordAt(s, p)>> \o f[j[p]]
        BY <2>3, <2>8, <3>2, <4>2
      <4> QED BY <1>6, <4>1, <4>2, <4>3
    <3> QED BY <3>1, <3>2
  <2>10. f = [p \in 1..n |-> IF p > Len(s) THEN << >> ELSE Take(f, p)]
    BY <2>8, <2>9
  <2> QED BY <1>2, <2>10
<1>9. From(g)
  BY <1>0, <1>7
<1>10. ASSUME NEW p \in 1..Len(s) + 1
       PROVE  g[p] = IF p > Len(s) THEN << >> ELSE <<WordAt(s, p)>> \o g[NextWord(s, p)]
  <2>1. g[p] = IF p > Len(s) THEN << >> ELSE Take(g, p)
    BY <1>9
  <2>2. ~(p > Len(s)) => p \in 1..Len(s)
    BY <1>3, SMTT(60)
  <2> QED BY <1>6, <2>1, <2>2
<1> HIDE DEF From
<1> QED BY <1>1, <1>10

\* Where words begin, from p on.
Starts(s, p) == {i \in p..Len(s) : s[i] # Space /\ (i = p \/ s[i - 1] = Space)}

\* Taking the word at p takes the one start of a word at p.
LEMMA StartsNext ==
  ASSUME NEW s \in Str, NEW p \in 1..Len(s)
  PROVE  /\ Starts(s, NextWord(s, p)) = Starts(s, p) \ {p}
         /\ p \in Starts(s, p) <=> s[p] # Space
<1>1. PICK e : e = WordEnd(s, p)
  OBVIOUS
<1>2. PICK l : l = NextWord(s, p)
  OBVIOUS
<1>3. /\ e \in p..Len(s) + 1 /\ l \in e..Len(s) + 1 /\ l > p
      /\ At(s, l) # Space
      /\ \A k \in p..e - 1 : s[k] # Space
      /\ \A k \in e..l - 1 : k \in 1..Len(s) /\ s[k] = Space
      /\ l <= Len(s) => l > e
  BY <1>1, <1>2, GetwordIs
<1>4. Len(s) \in Nat /\ p \in Nat /\ e \in Nat /\ l \in Nat /\ p <= e /\ e <= l /\ p \in p..Len(s)
  BY <1>3, Characters, SMTT(60)
<1>5. ASSUME NEW i \in Starts(s, l) PROVE i \in Starts(s, p) /\ i # p
  <2>1. i \in l..Len(s) /\ s[i] # Space /\ (i = l \/ s[i - 1] = Space)
    BY DEF Starts
  <2>2. i \in p..Len(s) /\ i # p /\ (i = l => i - 1 \in e..l - 1)
    BY <1>3, <1>4, <2>1, SMTT(60)
  <2> QED BY <1>3, <2>1, <2>2 DEF Starts
<1>6. ASSUME NEW i \in Starts(s, p), i # p PROVE i \in Starts(s, l)
  <2>1. i \in p..Len(s) /\ s[i] # Space /\ s[i - 1] = Space
    BY <1>6 DEF Starts
  <2>2. i \in l..Len(s) \/ i \in e..l - 1 \/ i - 1 \in p..e - 1
    BY <1>4, <1>6, <2>1, SMTT(60)
  <2> QED BY <1>3, <2>1, <2>2 DEF Starts
<1>7. p \in Starts(s, p) <=> s[p] # Space
  BY <1>4 DEF Starts
<1>8. Starts(s, l) = Starts(s, p) \ {p}
  BY <1>5, <1>6
<1> QED BY <1>2, <1>7, <1>8

\* A line has finitely many starts of words.
LEMMA StartsFinite ==
  ASSUME NEW s \in Str, NEW p \in 1..Len(s) + 1
  PROVE  IsFiniteSet(Starts(s, p)) /\ Cardinality(Starts(s, p)) \in Nat
<1>1. PICK I : I = p..Len(s)
  OBVIOUS
<1>2. p \in Int /\ Len(s) \in Int
  BY Characters, SMTT(60)
<1>3. IsFiniteSet(I)
  BY <1>1, <1>2, FS_Interval
<1>4. Starts(s, p) \in SUBSET I
  BY <1>1 DEF Starts
<1> QED BY <1>3, <1>4, FS_Subset, FS_CardinalityType

\* What the words W from p on are.
Told(s, g, p, W) ==
  /\ W \in Seq(Str) /\ g[p - 1] \o Joined(W) = g[Len(s)]
  /\ \A k \in 1..Len(W) : W[k] = << >> <=> k = 1 /\ At(s, p) = Space
  /\ Len(W) = Cardinality(Starts(s, p)) + (IF At(s, p) = Space THEN 1 ELSE 0)

\* At the end of the line nothing is left to tell.
LEMMA NoWords ==
  ASSUME NEW s \in Str, NEW g, Strips(g, s)
  PROVE  Told(s, g, Len(s) + 1, << >>)
<1>1. Len(s) \in Nat /\ (Len(s) + 1) - 1 = Len(s) /\ Len(s) + 1 \in Nat /\ Len(s) + 1 > Len(s)
      /\ Len(s) \in 0..Len(s)
  BY Characters, SMTT(60)
<1>2. At(s, Len(s) + 1) # Space
  BY <1>1, Characters, SpaceIs
<1>3. Starts(s, Len(s) + 1) = {}
  <2>1. \A i \in Len(s) + 1..Len(s) : FALSE
    BY <1>1, SMTT(60)
  <2> QED BY <2>1 DEF Starts
<1>4. PICK W : W = << >>
  OBVIOUS
<1>5. W \in Seq(Str) /\ Len(W) = 0 /\ \A k \in 1..Len(W) : FALSE
  BY <1>4, SMTT(60)
<1>6. Joined(W) = W
  <2>1. PICK c : Joins(c, W) /\ Joined(W) = c[Len(W)]
    BY <1>5, JoinedIs
  <2> QED BY <1>4, <1>5, <2>1 DEF Joins
<1>7. g[Len(s)] \o W = g[Len(s)]
  <2>1. PICK x : x = g[Len(s)]
    OBVIOUS
  <2>2. x \in Str
    BY <1>1, <2>1 DEF Strips
  <2>3. x \o << >> = x
    BY <2>2, Concat
  <2> QED BY <1>4, <2>1, <2>3
<1>8. Len(W) = Cardinality(Starts(s, Len(s) + 1)) + 0
  <2>1. Cardinality(Starts(s, Len(s) + 1)) = 0
    BY <1>3, FS_EmptySet
  <2> QED BY <1>5, <2>1, SMTT(60)
<1>9. g[(Len(s) + 1) - 1] \o Joined(W) = g[Len(s)]
  BY <1>1, <1>6, <1>7
<1>10. Len(W) = Cardinality(Starts(s, Len(s) + 1)) + (IF At(s, Len(s) + 1) = Space THEN 1 ELSE 0)
  BY <1>2, <1>8
<1>11. Told(s, g, Len(s) + 1, W)
  BY <1>5, <1>9, <1>10 DEF Told
<1> QED BY <1>4, <1>11

\* What is told from the next word on, with the word at p in front.
LEMMA OneMoreWord ==
  ASSUME NEW s \in Str, NEW g, Strips(g, s), NEW p \in 1..Len(s), NEW W,
         Told(s, g, NextWord(s, p), W)
  PROVE  Told(s, g, p, <<WordAt(s, p)>> \o W)
<1>1. PICK e : e = WordEnd(s, p)
  OBVIOUS
<1>2. PICK l : l = NextWord(s, p)
  OBVIOUS
<1>3. PICK w : w = WordAt(s, p)
  OBVIOUS
<1>4. /\ e \in p..Len(s) + 1 /\ l \in e..Len(s) + 1 /\ l > p
      /\ At(s, l) # Space
      /\ \A k \in p..e - 1 : s[k] # Space
      /\ \A k \in e..l - 1 : k \in 1..Len(s) /\ s[k] = Space
      /\ s[p] = Space <=> e = p
  BY <1>1, <1>2, GetwordIs
<1>5. /\ Len(s) \in Nat /\ p \in Nat /\ e \in Nat /\ l \in Nat /\ l \in 1..Len(s) + 1
      /\ p - 1 \in 0..Len(s) /\ e - 1 \in 0..Len(s) /\ l - 1 \in 0..Len(s)
      /\ p - 1 <= e - 1 /\ e - 1 <= l - 1 /\ (p - 1) + 1 = p /\ (e - 1) + 1 = e
  BY <1>4, Characters, SMTT(60)
<1>6. w \in Str /\ (w = << >> <=> s[p] = Space)
  <2>1. w = SubSeq(s, p, e - 1)
    BY <1>1, <1>3 DEF WordAt
  <2>2. w \in Str /\ Len(w) = e - p
    BY <1>4, <1>5, <2>1, SMTT(60) DEF Str
  <2>3. Len(w) = 0 <=> e = p
    BY <1>5, <2>2, SMTT(60)
  <2>4. w = << >> <=> Len(w) = 0
    BY <2>2, SMTT(60) DEF Str
  <2> QED BY <1>4, <2>2, <2>3, <2>4
<1>7. At(s, p) = s[p]
  BY Characters
<1>8. W \in Seq(Str) /\ Len(W) \in Nat
  <2>1. W \in Seq(Str)
    BY DEF Told
  <2> QED BY <2>1, SMTT(60)
<1>9. PICK U : U = <<w>> \o W
  OBVIOUS
<1>10. U \in Seq(Str) /\ Len(U) = Len(W) + 1 /\ U[1] = w /\ \A k \in 1..Len(W) : U[k + 1] = W[k]
  BY <1>6, <1>8, <1>9, SMTT(60)
<1>11. g[p - 1] \o Joined(U) = g[Len(s)]
  <2>1. PICK F : F = Joined(W)
    OBVIOUS
  <2>2. F \in Str /\ Joined(U) = w \o F
    BY <1>6, <1>8, <1>9, <2>1, JoinedCons
  <2>3. g[e - 1] = g[p - 1] \o w
    <3>1. g[e - 1] = g[p - 1] \o SubSeq(s, (p - 1) + 1, e - 1)
      <4>1. \A k \in (p - 1) + 1..e - 1 : s[k] # Space
        BY <1>4, <1>5
      <4> QED BY <1>5, <4>1, StripsWord
    <3> QED BY <1>1, <1>3, <1>5, <3>1 DEF WordAt
  <2>4. g[l - 1] = g[e - 1]
    <3>1. \A k \in (e - 1) + 1..l - 1 : s[k] = Space
      BY <1>4, <1>5
    <3> QED BY <1>5, <3>1, StripsSpaces
  <2>5. g[l - 1] \o F = g[Len(s)]
    BY <1>2, <2>1 DEF Told
  <2>6. PICK x : x = g[p - 1]
    OBVIOUS
  <2>7. x \in Str
    BY <1>5, <2>6 DEF Strips
  <2>8. (x \o w) \o F = x \o (w \o F)
    BY <1>6, <2>2, <2>7, Associative
  <2> QED BY <2>2, <2>3, <2>4, <2>5, <2>6, <2>8
<1>12. ASSUME NEW k \in 1..Len(U) PROVE U[k] = << >> <=> k = 1 /\ At(s, p) = Space
  <2>1. CASE k = 1
    BY <1>6, <1>7, <1>10, <2>1
  <2>2. CASE k # 1
    <3>1. k - 1 \in 1..Len(W) /\ (k - 1) + 1 = k
      BY <1>8, <1>10, <2>2, SMTT(60)
    <3>2. U[k] = W[k - 1]
      BY <1>10, <3>1
    <3>3. W[k - 1] # << >>
      BY <1>2, <1>4, <3>1 DEF Told
    <3> QED BY <2>2, <3>2, <3>3
  <2> QED BY <2>1, <2>2
<1>13. Len(U) = Cardinality(Starts(s, p)) + (IF At(s, p) = Space THEN 1 ELSE 0)
  <2>1. PICK c : c = Cardinality(Starts(s, l))
    OBVIOUS
  <2>2. Len(W) = c + 0
    BY <1>2, <1>4, <2>1 DEF Told
  <2>3. IsFiniteSet(Starts(s, l)) /\ c \in Nat
    BY <1>5, <2>1, StartsFinite
  <2>4. Starts(s, l) = Starts(s, p) \ {p} /\ (p \in Starts(s, p) <=> s[p] # Space)
    BY <1>2, StartsNext
  <2>5. CASE s[p] = Space
    <3>1. Starts(s, p) = Starts(s, l)
      BY <2>4, <2>5
    <3>2. Len(U) = c + 1
      BY <1>10, <2>2, <2>3, SMTT(60)
    <3> QED BY <1>7, <2>1, <2>5, <3>1, <3>2
  <2>6. CASE s[p] # Space
    <3>1. Starts(s, p) = Starts(s, l) \cup {p} /\ p \notin Starts(s, l)
      BY <2>4, <2>6
    <3>2. Cardinality(Starts(s, p)) = c + 1
      BY <2>1, <2>3, <3>1, FS_AddElement
    <3>3. Len(U) = (c + 1) + 0
      BY <1>10, <2>2, <2>3, SMTT(60)
    <3> QED BY <1>7, <2>6, <3>2, <3>3
  <2> QED BY <2>5, <2>6
<1>14. Told(s, g, p, U)
  BY <1>10, <1>11, <1>12, <1>13 DEF Told
<1> QED BY <1>3, <1>9, <1>14

\* WordsOfLine: taking words off a line until it is used up loses nothing but
\* separators and makes no empty word, except one in front of a line that
\* begins with a separator, for lines of every length.
THEOREM WordsOfLineHold == Spec => []WordsOfLine
<1>1. ASSUME Strings PROVE WordsOfLine
  <2>1. PICK s : s = hay
    OBVIOUS
  <2>2. s \in Str
    BY <1>1, <2>1, StringsAreStr
  <2>3. PICK n : n = Len(s) + 1
    OBVIOUS
  <2>4. n \in Nat /\ 1 \in 1..n /\ Len(s) \in Nat
    BY <2>2, <2>3, Characters, SMTT(60)
  <2>5. PICK g : Strips(g, s) /\ NoSpaces(s) = g[Len(s)]
    BY <2>2, NoSpacesIs
  <2>6. PICK f : /\ Words(s) = f[1]
                 /\ \A p \in 1..Len(s) + 1 :
                      f[p] = IF p > Len(s) THEN << >> ELSE <<WordAt(s, p)>> \o f[NextWord(s, p)]
    BY <2>2, WordsIs
  <2>7. PICK T : T = {p \in 1..n : ~Told(s, g, p, f[p])}
    OBVIOUS
  <2>8. ASSUME NEW p \in T PROVE \E l \in T : l > p
    <3>1. p \in 1..n /\ ~Told(s, g, p, f[p])
      BY <2>7
    <3>2. ~(p > Len(s))
      <4> SUFFICES ASSUME p > Len(s) PROVE FALSE
        OBVIOUS
      <4>1. p = Len(s) + 1
        BY <2>3, <2>4, <3>1, SMTT(60)
      <4>2. f[p] = << >>
        BY <2>3, <2>6, <3>1
      <4> QED BY <2>2, <2>5, <3>1, <4>1, <4>2, NoWords
    <3>3. p \in 1..Len(s)
      BY <2>3, <2>4, <3>1, <3>2, SMTT(60)
    <3>4. PICK l : l = NextWord(s, p)
      OBVIOUS
    <3>5. l > p /\ l \in 1..n
      <4>1. l > p /\ WordEnd(s, p) \in p..Len(s) + 1 /\ l \in WordEnd(s, p)..Len(s) + 1
        BY <2>2, <3>3, <3>4, GetwordIs
      <4> QED BY <2>3, <2>4, <3>3, <4>1, SMTT(60)
    <3>6. f[p] = <<WordAt(s, p)>> \o f[l]
      BY <2>3, <2>6, <3>1, <3>2, <3>4
    <3>7. ~Told(s, g, l, f[l])
      BY <2>2, <2>5, <3>1, <3>3, <3>4, <3>6, OneMoreWord
    <3> QED BY <2>7, <3>5, <3>7
  <2>9. T = {}
    <3>1. T \in SUBSET (1..n)
      BY <2>7
    <3> QED BY <2>4, <2>8, <3>1, Downwards
  <2>10. PICK W : W = Words(s)
    OBVIOUS
  <2>11. Told(s, g, 1, W)
    BY <2>4, <2>6, <2>7, <2>9, <2>10
  <2>12. Joined(W) = NoSpaces(s)
    <3>1. 1 - 1 = 0
      BY SMTT(60)
    <3>2. << >> \o Joined(W) = g[Len(s)] /\ W \in Seq(Str)
      BY <2>5, <2>11, <3>1 DEF Told, Strips
    <3>3. PICK F : F = Joined(W)
      OBVIOUS
    <3>4. F \in Str
      <4>1. << >> \in Str
        BY SMTT(60) DEF Str
      <4> QED BY <3>2, <3>3, <4>1, JoinedCons
    <3>5. << >> \o F = F
      BY <3>4, Concat
    <3> QED BY <2>5, <3>2, <3>3, <3>5
  <2>13. Starts(s, 1) = {i \in 1..Len(s) : NotSpace(s[i]) /\ (i = 1 \/ s[i - 1] = Space)}
    BY DEF Starts, NotSpace
  <2>14. /\ \A k \in 1..Len(W) : W[k] = << >> <=> k = 1 /\ At(s, 1) = Space
         /\ Len(W) = Cardinality({i \in 1..Len(s) : NotSpace(s[i]) /\ (i = 1 \/ s[i - 1] = Space)})
                       + (IF At(s, 1) = Space THEN 1 ELSE 0)
    BY <2>11, <2>13 DEF Told
  <2> QED BY <2>1, <2>10, <2>12, <2>14 DEF WordsOfLine
<1> QED BY <1>1, StringsHold, PTL

=============================================================================
