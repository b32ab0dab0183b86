-------------------------- MODULE SigarCacheProofs --------------------------
(***************************************************************************)
(* Machine-checked proofs about SigarCache for every number of keys, every *)
(* table size and every clock: its structural invariants, and that it      *)
(* implements SigarCacheMap when the clock is not set back.                *)
(***************************************************************************)
EXTENDS SigarCache, SequenceTheorems, FiniteSetTheorems, TLAPS

-----------------------------------------------------------------------------
(* Chains *)

USE ZenonT(60)

\* SIGAR_CACHE_IX stays inside the array.
LEMMA ModInRange ==
  ASSUME NEW k \in Nat, NEW n \in Nat \ {0}
  PROVE  k % n \in 0..n-1
BY SMTT(60)

\* The unsigned difference of two readings of a clock that was not set back.
LEMMA ElapsedInOrder ==
  ASSUME NEW t \in Time, NEW t0 \in Time, t0 <= t
  PROVE  Elapsed(t, t0) = t - t0
<1>1. t - t0 \in Nat /\ t - t0 < TimeMod /\ TimeMod \in Nat
  BY CacheAssumption, SMTT(60) DEF Time
<1>2. \A x, m \in Nat : x < m => x % m = x
  BY SMTT(60)
<1> QED BY <1>1, <1>2 DEF Elapsed

\* A key has a bucket in every table.
LEMMA KeyModInRange ==
  ASSUME NEW k \in Key, NEW n \in Nat \ {0}
  PROVE  k % n \in 0..n-1
BY ModInRange, CacheAssumption

\* Unlinking the entry at a position of a chain (cleanup loop).
LEMMA UnlinkChain ==
  ASSUME NEW S, NEW s \in Seq(S), NEW p \in 1..Len(s), IsInjective(s)
  PROVE  /\ Unlink(s, p) \in Seq(S)
         /\ IsInjective(Unlink(s, p))
         /\ Range(Unlink(s, p)) = Range(s) \ {s[p]}
<1> DEFINE a == SubSeq(s, 1, p-1)  b == SubSeq(s, p+1, Len(s))  r == Unlink(s, p)
<1>0. /\ Len(s) \in Nat /\ DOMAIN s = 1..Len(s)
      /\ \A q \in 1..Len(s) : s[q] \in S
  BY LenProperties, ElementOfSeq
<1>1. /\ a \in Seq(S) /\ Len(a) = p - 1
      /\ \A q \in 1..p-1 : a[q] = s[q]
  <2>1. \A q \in 1..p-1 : s[q] \in S
    BY <1>0, SMTT(60)
  <2>2. /\ a \in Seq(S)
        /\ Len(a) = IF 1 <= p-1 THEN p-1-1+1 ELSE 0
        /\ \A q \in 1..p-1-1+1 : a[q] = s[1+q-1]
    BY <2>1, SubSeqProperties, SMTT(60)
  <2> QED BY <2>2, <1>0, SMTT(60)
<1>2. /\ b \in Seq(S) /\ Len(b) = Len(s) - p
      /\ \A q \in 1..Len(s)-p : b[q] = s[p+q]
  <2>1. \A q \in p+1..Len(s) : s[q] \in S
    BY <1>0, SMTT(60)
  <2>2. /\ b \in Seq(S)
        /\ Len(b) = IF p+1 <= Len(s) THEN Len(s)-(p+1)+1 ELSE 0
        /\ \A q \in 1..Len(s)-(p+1)+1 : b[q] = s[p+1+q-1]
    BY <2>1, <1>0, SubSeqProperties, SMTT(60)
  <2> HIDE DEF b
  <2>3. Len(b) = Len(s) - p
    <3>1. CASE p+1 <= Len(s)
      BY <3>1, <2>2, <1>0, SMTT(60)
    <3>2. CASE ~(p+1 <= Len(s))
      <4>1. ASSUME NEW x \in Nat, p \in 1..x, ~(p+1 <= x) PROVE x - p = 0
        BY <4>1, SMTT(60)
      <4>2. Len(b) = 0
        BY <3>2, <2>2
      <4> QED BY <4>1, <4>2, <3>2, <1>0, ZenonT(60)
    <3> QED BY <3>1, <3>2
  <2>4. ASSUME NEW q \in 1..Len(s)-p PROVE b[q] = s[p+q]
    <3>1. q \in 1..Len(s)-(p+1)+1 /\ p+1+q-1 = p+q
      BY <1>0, SMTT(60)
    <3> QED BY <3>1, <2>2
  <2> QED BY <2>2, <2>3, <2>4
<1> HIDE DEF a, b
<1>3. r = a \o b
  BY DEF Unlink, a, b
<1>4. /\ r \in Seq(S) /\ Len(r) = Len(s) - 1
      /\ \A q \in 1..Len(s)-1 : r[q] = IF q < p THEN s[q] ELSE s[q+1]
  <2>0. /\ a \o b \in Seq(S) /\ Len(a \o b) = Len(a) + Len(b)
        /\ \A q \in 1..Len(a)+Len(b) :
             (a \o b)[q] = IF q <= Len(a) THEN a[q] ELSE b[q - Len(a)]
    BY <1>1, <1>2, ConcatProperties, ZenonT(60)
  <2>1. /\ r \in Seq(S) /\ Len(r) = Len(a) + Len(b)
        /\ \A q \in 1..Len(a)+Len(b) :
             r[q] = IF q <= Len(a) THEN a[q] ELSE b[q - Len(a)]
    BY <2>0, <1>3, ZenonT(60)
  <2> HIDE DEF r
  <2>2. Len(r) = Len(s) - 1
    BY <2>1, <1>0, <1>1, <1>2, SMTT(60)
  <2>3. ASSUME NEW q \in 1..Len(s)-1
        PROVE  r[q] = IF q < p THEN s[q] ELSE s[q+1]
    <3>1. CASE q < p
      BY <3>1, <2>1, <1>0, <1>1, <1>2, SMTT(60)
    <3>2. CASE q >= p
      <4>1. /\ q \in 1..Len(a)+Len(b) /\ ~(q <= Len(a))
            /\ q - Len(a) \in 1..Len(s)-p /\ p + (q - Len(a)) = q + 1
        BY <3>2, <1>0, <1>1, <1>2, SMTT(60)
      <4>2. r[q] = b[q - Len(a)] /\ b[q - Len(a)] = s[p + (q - Len(a))]
        BY <4>1, <2>1, <1>2
      <4> QED BY <4>1, <4>2, <3>2, <1>0, SMTT(60)
    <3> QED BY <3>1, <3>2, <1>0, SMTT(60)
  <2> QED BY <2>1, <2>2, <2>3
<1> HIDE DEF r
<1>5. DOMAIN r = 1..Len(s)-1
  BY <1>4, LenProperties
<1>6. IsInjective(r)
  <2> SUFFICES ASSUME NEW x \in 1..Len(s)-1, NEW y \in 1..Len(s)-1, r[x] = r[y]
               PROVE  x = y
    BY <1>5 DEF IsInjective
  <2> DEFINE f(q) == IF q < p THEN q ELSE q+1
  <2>1. f(x) \in DOMAIN s /\ f(y) \in DOMAIN s
    BY <1>0, SMTT(60)
  <2>2. r[x] = s[f(x)] /\ r[y] = s[f(y)]
    BY <1>4
  <2>3. f(x) = f(y)
    BY <2>1, <2>2, ZenonT(60) DEF IsInjective
  <2> QED BY <2>3, <1>0, SMTT(60)
<1>7. Range(r) \subseteq Range(s) \ {s[p]}
  BY <1>0, <1>4, <1>5, SMTT(60) DEF IsInjective, Range
<1>8. ASSUME NEW k \in Range(s), k # s[p]
      PROVE  k \in Range(r)
  <2>1. PICK q \in 1..Len(s) : k = s[q] /\ q # p
    BY <1>0, <1>8 DEF Range
  <2>2. CASE q < p
    BY <2>1, <2>2, <1>0, <1>4, <1>5, SMTT(60) DEF Range
  <2>3. CASE q > p
    <3>1. q-1 \in 1..Len(s)-1 /\ r[q-1] = s[q]
      BY <2>3, <1>0, <1>4, SMTT(60)
    <3> QED BY <3>1, <2>1, <1>5 DEF Range
  <2> QED BY <2>1, <2>2, <2>3, <1>0, SMTT(60)
<1>9. Range(r) = Range(s) \ {s[p]}
  BY <1>7, <1>8
<1> QED BY <1>4, <1>6, <1>9 DEF r

\* Taking the first entry off a chain (rehash).
LEMMA TailChain ==
  ASSUME NEW S, NEW s \in Seq(S), s # << >>, IsInjective(s)
  PROVE  /\ Tail(s) \in Seq(S)
         /\ IsInjective(Tail(s))
         /\ Range(Tail(s)) = Range(s) \ {Head(s)}
         /\ Head(s) \in Range(s)
<1> DEFINE t == Tail(s)
<1>0. /\ Len(s) \in Nat \ {0} /\ DOMAIN s = 1..Len(s)
  BY LenProperties, EmptySeq
<1>1. /\ t \in Seq(S) /\ Len(t) = Len(s)-1
      /\ \A q \in 1..Len(t) : t[q] = s[q+1]
  BY HeadTailProperties
<1>2. DOMAIN t = 1..Len(s)-1
  BY <1>1, LenProperties
<1>3. Head(s) = s[1]
  BY SMTT(60)
<1> HIDE DEF t
<1>4. IsInjective(t)
  <2> SUFFICES ASSUME NEW p \in DOMAIN t, NEW q \in DOMAIN t, t[p] = t[q]
               PROVE  p = q
    BY DEF IsInjective
  <2>1. s[p+1] = s[q+1] /\ p+1 \in DOMAIN s /\ q+1 \in DOMAIN s
    BY <1>0, <1>1, <1>2, SMTT(60)
  <2>2. p+1 = q+1
    BY <2>1 DEF IsInjective
  <2> QED BY <2>2, <1>0, <1>2, SMTT(60)
<1>5. Range(t) \subseteq Range(s) \ {s[1]}
  BY <1>0, <1>1, <1>2, SMTT(60) DEF IsInjective, Range
<1>6. ASSUME NEW k \in Range(s), k # s[1]
      PROVE  k \in Range(t)
  <2>1. PICK q \in 1..Len(s) : k = s[q] /\ q # 1
    BY <1>0, <1>6 DEF Range
  <2>2. q-1 \in 1..Len(s)-1 /\ t[q-1] = s[q]
    BY <2>1, <1>0, <1>1, SMTT(60)
  <2> QED BY <2>2, <2>1, <1>2 DEF Range
<1>7. Head(s) \in Range(s)
  <2>1. 1 \in DOMAIN s
    BY <1>0, SMTT(60)
  <2> QED BY <2>1, <1>3 DEF Range
<1>8. Range(t) = Range(s) \ {Head(s)}
  BY <1>3, <1>5, <1>6
<1> QED BY <1>1, <1>4, <1>7, <1>8 DEF t

\* Linking an entry at the head of a chain (rehash).
LEMMA ConsChain ==
  ASSUME NEW S, NEW s \in Seq(S), NEW k \in S, IsInjective(s), k \notin Range(s)
  PROVE  /\ <<k>> \o s \in Seq(S)
         /\ IsInjective(<<k>> \o s)
         /\ Range(<<k>> \o s) = Range(s) \cup {k}
<1> DEFINE t == <<k>> \o s
<1>0. /\ Len(s) \in Nat /\ DOMAIN s = 1..Len(s)
  BY LenProperties
<1>1. <<k>> \in Seq(S) /\ Len(<<k>>) = 1 /\ <<k>>[1] = k
  BY SMTT(60)
<1>2. /\ t \in Seq(S) /\ Len(t) = 1 + Len(s)
      /\ \A q \in 1..1+Len(s) : t[q] = IF q <= 1 THEN <<k>>[q] ELSE s[q-1]
  BY <1>1, ConcatProperties
<1>3. DOMAIN t = 1..1+Len(s)
  BY <1>2, LenProperties
<1> HIDE DEF t
<1>4. t[1] = k /\ \A q \in 2..1+Len(s) : t[q] = s[q-1] /\ q-1 \in DOMAIN s
  BY <1>0, <1>1, <1>2, SMTT(60)
<1>5. IsInjective(t)
  BY <1>0, <1>3, <1>4, SMTT(60) DEF IsInjective, Range
<1>6. Range(t) \subseteq Range(s) \cup {k}
  BY <1>0, <1>3, <1>4, SMTT(60) DEF Range
<1>7. ASSUME NEW q \in DOMAIN s PROVE s[q] \in Range(t)
  <2>1. q+1 \in DOMAIN t /\ t[q+1] = s[q]
    BY <1>0, <1>3, <1>4, SMTT(60)
  <2> QED BY <2>1 DEF Range
<1>8. k \in Range(t)
  BY <1>0, <1>3, <1>4, SMTT(60) DEF Range
<1> QED BY <1>2, <1>5, <1>6, <1>7, <1>8, ZenonT(60) DEF t, Range

\* Linking an entry at the end of a chain (sigar_cache_get).
LEMMA AppendChain ==
  ASSUME NEW S, NEW s \in Seq(S), NEW k \in S, IsInjective(s), k \notin Range(s)
  PROVE  /\ Append(s, k) \in Seq(S)
         /\ IsInjective(Append(s, k))
         /\ Range(Append(s, k)) = Range(s) \cup {k}
<1> DEFINE t == Append(s, k)
<1>0. /\ Len(s) \in Nat /\ DOMAIN s = 1..Len(s)
  BY LenProperties
<1>1. /\ t \in Seq(S) /\ Len(t) = Len(s) + 1
      /\ \A q \in 1..Len(s) : t[q] = s[q]
      /\ t[Len(s)+1] = k
  BY AppendProperties, SMTT(60)
<1>2. DOMAIN t = 1..Len(s)+1
  BY <1>1, LenProperties
<1> HIDE DEF t
<1>3. IsInjective(t)
  BY <1>0, <1>1, <1>2, SMTT(60) DEF IsInjective, Range
<1>4. Range(t) = Range(s) \cup {k}
  BY <1>0, <1>1, <1>2, SMTT(60) DEF Range
<1> QED BY <1>1, <1>3, <1>4 DEF t

-----------------------------------------------------------------------------
(* Arrays of chains *)

Array(t, n) == t \in [0..n-1 -> Seq(Key)] /\ WellPlaced(t, n)

Chain(s, b, n) ==
  s \in Seq(Key) /\ IsInjective(s) /\ \A k \in Range(s) : k % n = b

Updated(u, t, b, s) == u = [t EXCEPT ![b] = s]

\* Changing one chain of an array changes just the ids of that chain, because
\* the ids of different buckets are different.
LEMMA UpdateBucket ==
  ASSUME NEW n, NEW t, Array(t, n), NEW b \in 0..n-1, NEW s, Chain(s, b, n),
         NEW u, Updated(u, t, b, s)
  PROVE  Array(u, n) /\ Ids(u) = (Ids(t) \ Range(t[b])) \cup Range(s)
<1> USE DEF Array, Chain
<1>1. /\ u \in [0..n-1 -> Seq(Key)] /\ DOMAIN u = 0..n-1 /\ DOMAIN t = 0..n-1
      /\ u[b] = s /\ \A c \in 0..n-1 : c # b => u[c] = t[c]
  BY DEF Updated
<1>2. WellPlaced(u, n)
  BY <1>1 DEF WellPlaced
<1>3. ASSUME NEW k \in Ids(u) PROVE k \in (Ids(t) \ Range(t[b])) \cup Range(s)
  <2>1. PICK c \in 0..n-1 : k \in Range(u[c])
    BY <1>1 DEF Ids
  <2>2. CASE c = b
    BY <2>1, <2>2, <1>1
  <2>3. CASE c # b
    <3>1. k \in Range(t[c]) /\ k % n = c
      BY <2>1, <2>3, <1>1 DEF WellPlaced
    <3>2. k \notin Range(t[b])
      BY <3>1, <2>3, <1>1 DEF WellPlaced
    <3> QED BY <3>1, <3>2, <1>1 DEF Ids
  <2> QED BY <2>2, <2>3
<1>4. ASSUME NEW k \in Ids(t), k \notin Range(t[b]) PROVE k \in Ids(u)
  <2>1. PICK c \in 0..n-1 : k \in Range(t[c])
    BY <1>1 DEF Ids
  <2> QED BY <2>1, <1>1, <1>4 DEF Ids
<1>5. Range(s) \subseteq Ids(u)
  BY <1>1 DEF Ids
<1> QED BY <1>1, <1>2, <1>3, <1>4, <1>5

\* An array of empty chains.
LEMMA EmptyTableFacts ==
  ASSUME NEW n \in Nat \ {0}
  PROVE  /\ EmptyTable(n) \in [0..n-1 -> Seq(Key)]
         /\ WellPlaced(EmptyTable(n), n)
         /\ Ids(EmptyTable(n)) = {}
<1>1. /\ EmptyTable(n) \in [0..n-1 -> Seq(Key)]
      /\ DOMAIN EmptyTable(n) = 0..n-1
      /\ \A b \in 0..n-1 : EmptyTable(n)[b] = << >>
  BY EmptySeq DEF EmptyTable
<1>2. IsInjective(<< >>) /\ Range(<< >>) = {}
  BY SMTT(60) DEF IsInjective, Range
<1> QED BY <1>1, <1>2 DEF WellPlaced, Ids

\* No array: what new_table is outside a rehash.
LEMMA NoTableFacts ==
  ASSUME NEW n
  PROVE  WellPlaced(<< >>, n) /\ Ids(<< >>) = {}
BY SMTT(60) DEF WellPlaced, Ids

\* Ids are keys.
LEMMA IdsAreKeys ==
  ASSUME NEW n \in Nat, NEW t \in [0..n-1 -> Seq(Key)]
  PROVE  /\ \A b \in 0..n-1 : Range(t[b]) \subseteq Ids(t) /\ Range(t[b]) \subseteq Key
         /\ Ids(t) \subseteq Key
<1>1. ASSUME NEW b \in 0..n-1 PROVE Range(t[b]) \subseteq Key
  <2>1. t[b] \in Seq(Key)
    OBVIOUS
  <2> QED BY <2>1, LenProperties, ElementOfSeq, SMTT(60) DEF Range
<1> QED BY <1>1 DEF Ids

\* A well placed id is found in the chain of its bucket.
LEMMA IdInBucket ==
  ASSUME NEW n \in Nat \ {0}, NEW t \in [0..n-1 -> Seq(Key)], WellPlaced(t, n),
         NEW k \in Ids(t)
  PROVE  k % n \in 0..n-1 /\ k \in Range(t[k % n])
<1>1. PICK b \in 0..n-1 : k \in Range(t[b])
  BY DEF Ids
<1> QED BY <1>1 DEF WellPlaced

-----------------------------------------------------------------------------
(* The inductive invariant *)

\* It holds initially.
LEMMA InitIInv == Init => IInv
<1> SUFFICES ASSUME Init PROVE IInv
  OBVIOUS
<1> USE CacheAssumption
<1>1. /\ table \in [0..size-1 -> Seq(Key)]
      /\ WellPlaced(table, size) /\ Ids(table) = {}
  BY EmptyTableFacts DEF Init
<1>2. WellPlaced(new_table, NewSize(count)) /\ Ids(new_table) = {}
  BY NoTableFacts DEF Init
<1>3. TypeOK
  <2>1. stepped \in BOOLEAN
    BY ZenonT(60) DEF Init
  <2> QED BY <1>1, <2>1, SMTT(60) DEF Init, TypeOK, Time, NOTIMPL, NoCall
<1>4. Linked
  BY <1>1, <1>2 DEF Init, Linked
<1>5. IsFiniteSet(live) /\ Cardinality(live) = 0
  BY FS_EmptySet DEF Init
<1>6. Counted /\ Control
  BY <1>5, SMTT(60) DEF Init, Counted, Control, Inserting
<1> QED BY <1>3, <1>4, <1>6, ZenonT(60) DEF IInv

\* A step that changes neither the arrays nor the entries.
LEMMA SameLinks ==
  ASSUME Linked, UNCHANGED <<size, count, table, live, new_table>>
  PROVE  Linked'
BY SMTT(60) DEF Linked, WellPlaced, Ids, NewSize

\* The invariant is preserved by a call.
LEMMA CallStep ==
  ASSUME IInv, NEW kind \in {"find", "get"}, NEW k \in Key, Call(kind, k)
  PROVE  IInv'
<1> USE DEF tableVars
<1>1. TypeOK'
  BY DEF Call, IInv, TypeOK, NoCall, Time
<1>2. Linked'
  BY SameLinks DEF Call, IInv
<1>3. Counted'
  BY DEF Call, IInv, Counted, Inserting, Control
<1>4. Control'
  BY DEF Call, CleanupDue, IInv, Control, Counted, Inserting
<1> QED BY <1>1, <1>2, <1>3, <1>4, ZenonT(60) DEF IInv

\* The invariant is preserved by cleanup of one entry.
LEMMA CleanupEntryStep ==
  ASSUME IInv, CleanupEntry
  PROVE  IInv'
<1> USE DEF timeVars
<1> DEFINE k == table[i][j]
<1>0. /\ TypeOK /\ Linked /\ Counted /\ Control
      /\ pc = "cleanup" /\ i < size /\ j <= Len(table[i])
      /\ UNCHANGED <<size, timeVars, pc, op, i, ctime, new_table, after, ret>>
  BY DEF CleanupEntry, IInv
<1>1. CASE /\ ~Expired(k)
           /\ j' = j + 1
           /\ UNCHANGED <<table, live, value, atime, count>>
  <2>1. TypeOK'
    BY <1>0, <1>1, SMTT(60) DEF TypeOK
  <2>2. Linked'
    BY <1>0, <1>1, SameLinks
  <2>3. Counted' /\ Control'
    BY <1>0, <1>1 DEF Counted, Control, Inserting
  <2> QED BY <2>1, <2>2, <2>3, ZenonT(60) DEF IInv
<1>2. CASE /\ Expired(k)
           /\ table' = [table EXCEPT ![i] = Unlink(@, j)]
           /\ live' = live \ {k}
           /\ value' = [value EXCEPT ![k] = NULL]
           /\ atime' = [atime EXCEPT ![k] = 0]
           /\ count' = count - 1
           /\ UNCHANGED j
  <2>1. /\ i \in 0..size-1 /\ table[i] \in Seq(Key) /\ j \in 1..Len(table[i])
        /\ table \in [0..size-1 -> Seq(Key)]
        /\ WellPlaced(table, size) /\ new_table = << >>
    BY <1>0, SMTT(60) DEF TypeOK, Linked
  <2>2. IsInjective(table[i]) /\ (\A x \in Range(table[i]) : x % size = i)
    BY <2>1 DEF WellPlaced
  <2> DEFINE s == Unlink(table[i], j)
  <2>3. s \in Seq(Key) /\ IsInjective(s) /\ Range(s) = Range(table[i]) \ {k}
    BY <2>1, <2>2, UnlinkChain
  <2>4. k \in Range(table[i]) /\ k \in Key
    BY <2>1, LenProperties, ElementOfSeq DEF Range
  <2> HIDE DEF s, k
  <2>5. /\ i \in 0..size-1
        /\ Updated(table', table, i, s) /\ Array(table, size) /\ Chain(s, i, size)
    BY <1>2, <2>1, <2>2, <2>3 DEF s, Array, Chain, Updated
  <2>6. Array(table', size) /\ Ids(table') = (Ids(table) \ Range(table[i])) \cup Range(s)
    BY <2>5, UpdateBucket, SMTT(60)
  <2>7. Range(table[i]) \subseteq Ids(table)
    BY <2>1 DEF Ids
  <2>8. Ids(table') = Ids(table) \ {k} /\ k \in Ids(table)
    BY <2>3, <2>4, <2>6, <2>7
  <2>9. live = Ids(table) /\ live' = Ids(table') /\ k \in live
    <3>1. live = Ids(table)
      BY <1>0, <2>1, NoTableFacts DEF Linked
    <3> QED BY <3>1, <2>8, <1>2 DEF k
  <2>10. /\ IsFiniteSet(live') /\ Cardinality(live') = Cardinality(live) - 1
         /\ count = Cardinality(live) /\ Cardinality(live) \in Nat
         /\ count # 0
    <3>1. IsFiniteSet(live)
      BY <1>0 DEF Control
    <3>2. /\ IsFiniteSet(live \ {k}) /\ Cardinality(live \ {k}) = Cardinality(live) - 1
          /\ Cardinality(live) \in Nat /\ Cardinality(live) # 0
      BY <3>1, <2>9, FS_RemoveElement, FS_CardinalityType, FS_EmptySet
    <3>3. count = Cardinality(live)
      BY <1>0, <3>2, SMTT(60) DEF Counted, Inserting
    <3> QED BY <3>2, <3>3, <1>2
  <2>11. TypeOK'
    <3>1. value' \in [Key -> Value \cup {NULL}] /\ atime' \in [Key -> Time]
      BY <1>0, <1>2, <2>4, CacheAssumption, SMTT(60) DEF TypeOK, Time
    <3>2. count' \in Nat
      BY <1>2, <2>10, SMTT(60)
    <3>3. live' \subseteq Key
      <4>1. live \subseteq Key
        BY <1>0 DEF TypeOK
      <4> QED BY <4>1, <1>2, ZenonT(60)
    <3> QED BY <1>0, <1>2, <2>6, <3>1, <3>2, <3>3 DEF TypeOK, Array
  <2>12. Linked'
    BY <1>0, <2>1, <2>6, <2>9, NoTableFacts DEF Linked, Array
  <2>13. Counted' /\ Control'
    BY <1>0, <1>2, <2>10, SMTT(60) DEF Counted, Control, Inserting, TypeOK
  <2> QED BY <2>11, <2>12, <2>13, ZenonT(60) DEF IInv
<1> QED BY <1>1, <1>2 DEF CleanupEntry

\* The invariant is preserved by cleanup going to the next bucket.
LEMMA CleanupNextBucketStep ==
  ASSUME IInv, CleanupNextBucket
  PROVE  IInv'
<1> USE DEF timeVars, tableVars
<1>1. TypeOK'
  BY SMTT(60) DEF CleanupNextBucket, IInv, TypeOK
<1>2. Linked'
  BY SameLinks DEF CleanupNextBucket, IInv
<1>3. Counted' /\ Control'
  BY DEF CleanupNextBucket, IInv, Counted, Control, Inserting
<1> QED BY <1>1, <1>2, <1>3, ZenonT(60) DEF IInv

\* The new array of a rehash starts empty.
LEMMA StartRehashStep ==
  ASSUME IInv, NEW n \in Nat, NEW next, StartRehash(n, next),
         count' = n, pc # "rehash",
         UNCHANGED <<size, table, live>>
  PROVE  /\ Linked'
         /\ new_table' \in [0..NewSize(n)-1 -> Seq(Key)]
<1>0. NewSize(n) \in Nat \ {0}
  BY SMTT(60) DEF NewSize
<1>1. /\ new_table' \in [0..NewSize(n)-1 -> Seq(Key)]
      /\ WellPlaced(new_table', NewSize(n)) /\ Ids(new_table') = {}
  BY <1>0, EmptyTableFacts DEF StartRehash
<1>2. live = Ids(table) /\ WellPlaced(table, size)
  BY NoTableFacts DEF IInv, TypeOK, Linked
<1>3. Ids(table') = Ids(table) /\ WellPlaced(table', size')
  BY <1>2
<1>4. WellPlaced(new_table', NewSize(count)')
  BY <1>1 DEF NewSize
<1> QED BY <1>1, <1>2, <1>3, <1>4 DEF Linked

\* The invariant is preserved by the end of a cleanup.
LEMMA CleanupEndStep ==
  ASSUME IInv, CleanupEnd
  PROVE  IInv'
<1> USE DEF timeVars, tableVars
<1>0. /\ TypeOK /\ Linked /\ Counted /\ Control /\ pc = "cleanup"
      /\ after # "insert"
      /\ ctime' = 0 /\ UNCHANGED <<tableVars, timeVars, op, j, ret>>
  BY DEF CleanupEnd, IInv, Control
<1>1. CASE StartRehash(count, "lookup")
  <2>1. Linked' /\ new_table' \in [0..NewSize(count)-1 -> Seq(Key)]
    BY <1>0, <1>1, StartRehashStep DEF TypeOK
  <2>2. pc' = "rehash" /\ i' = 0 /\ after' = "lookup"
    BY <1>1 DEF StartRehash
  <2>3. TypeOK'
    BY <1>0, <2>1, <2>2, CacheAssumption, SMTT(60) DEF TypeOK, NewSize, Time
  <2>4. Counted' /\ Control'
    BY <1>0, <2>2, SMTT(60) DEF Counted, Control, Inserting
  <2> QED BY <2>1, <2>3, <2>4, ZenonT(60) DEF IInv
<1>2. CASE pc' = "lookup" /\ i' = 0 /\ UNCHANGED <<after, new_table>>
  <2>1. Linked'
    BY <1>0, <1>2, SameLinks
  <2>2. TypeOK'
    BY <1>0, <1>2, CacheAssumption, SMTT(60) DEF TypeOK, Time
  <2>3. Counted' /\ Control'
    BY <1>0, <1>2 DEF Counted, Control, Inserting
  <2> QED BY <2>1, <2>2, <2>3, ZenonT(60) DEF IInv
<1> QED BY <1>1, <1>2 DEF CleanupEnd

\* The invariant is preserved by rehashing one entry.
LEMMA RehashEntryStep ==
  ASSUME IInv, RehashEntry
  PROVE  IInv'
<1> USE DEF timeVars
<1> DEFINE n == NewSize(count)
           k == Head(table[i])
           h == k % n
           s == Tail(table[i])
           u == <<k>> \o new_table[h]
<1>0. /\ TypeOK /\ Linked /\ Counted /\ Control
      /\ pc = "rehash" /\ i < size /\ table[i] # << >>
      /\ new_table' = [new_table EXCEPT ![h] = u]
      /\ table' = [table EXCEPT ![i] = s]
      /\ UNCHANGED <<size, count, value, atime, live, timeVars,
                     pc, op, i, j, ctime, after, ret>>
  BY DEF RehashEntry, IInv
<1>1. /\ i \in 0..size-1 /\ table \in [0..size-1 -> Seq(Key)] /\ WellPlaced(table, size)
      /\ new_table \in [0..n-1 -> Seq(Key)] /\ WellPlaced(new_table, n)
      /\ n \in Nat \ {0} /\ table[i] \in Seq(Key)
  <2>1. /\ size \in Nat /\ count \in Nat /\ i \in 0..size /\ i < size
        /\ table \in [0..size-1 -> Seq(Key)] /\ WellPlaced(table, size)
        /\ new_table \in [0..n-1 -> Seq(Key)] /\ WellPlaced(new_table, n)
    BY <1>0 DEF TypeOK, Linked
  <2>2. i \in 0..size-1 /\ n \in Nat \ {0}
    BY <2>1, SMTT(60) DEF NewSize
  <2> QED BY <2>1, <2>2
<1>2. IsInjective(table[i]) /\ (\A x \in Range(table[i]) : x % size = i)
  BY <1>1 DEF WellPlaced
<1>3. /\ s \in Seq(Key) /\ IsInjective(s) /\ Range(s) = Range(table[i]) \ {k}
      /\ k \in Range(table[i])
  BY <1>0, <1>1, <1>2, TailChain
<1>4. k \in Key /\ k \in Ids(table) /\ Range(table[i]) \subseteq Ids(table)
  <2>1. k \in Ids(table) /\ Range(table[i]) \subseteq Ids(table)
    BY <1>1, <1>3 DEF Ids
  <2>2. k \in Key
    BY <1>0, <1>1, HeadTailProperties
  <2> QED BY <2>1, <2>2
<1> HIDE DEF n, k, s
<1>5. /\ i \in 0..size-1 /\ Updated(table', table, i, s)
      /\ Array(table, size) /\ Chain(s, i, size)
  BY <1>0, <1>1, <1>2, <1>3 DEF Updated, Array, Chain
<1>6. Array(table', size) /\ Ids(table') = (Ids(table) \ Range(table[i])) \cup Range(s)
  BY <1>5, UpdateBucket, SMTT(60)
<1>7. Ids(table') = Ids(table) \ {k}
  BY <1>3, <1>4, <1>6
<1>8. h \in 0..n-1
  BY <1>1, <1>4, KeyModInRange
<1> HIDE DEF h, u
<1>9. /\ new_table[h] \in Seq(Key) /\ IsInjective(new_table[h])
      /\ (\A x \in Range(new_table[h]) : x % n = h)
      /\ Range(new_table[h]) \subseteq Ids(new_table)
  BY <1>1, <1>8 DEF WellPlaced, Ids
<1>10. k \notin Range(new_table[h])
  BY <1>0, <1>4, <1>9 DEF Linked
<1>11. u \in Seq(Key) /\ IsInjective(u) /\ Range(u) = Range(new_table[h]) \cup {k}
  BY <1>4, <1>9, <1>10, ConsChain, SMTT(60) DEF u
<1>12. /\ h \in 0..n-1 /\ Updated(new_table', new_table, h, u)
       /\ Array(new_table, n) /\ Chain(u, h, n)
  BY <1>0, <1>1, <1>8, <1>9, <1>11 DEF Updated, Array, Chain, h
<1>13. /\ Array(new_table', n)
       /\ Ids(new_table') = (Ids(new_table) \ Range(new_table[h])) \cup Range(u)
  BY <1>12, UpdateBucket, SMTT(60)
<1>14. Ids(new_table') = Ids(new_table) \cup {k}
  BY <1>9, <1>11, <1>13
<1>15. n = NewSize(count')
  BY <1>0 DEF n
<1>16. TypeOK'
  <2>1. /\ table' \in [0..size'-1 -> Seq(Key)]
        /\ new_table' \in [0..NewSize(count')-1 -> Seq(Key)]
    BY <1>0, <1>6, <1>13, <1>15 DEF Array
  <2> QED BY <1>0, <2>1 DEF TypeOK, NewSize
<1>17. Linked'
  <2>1. WellPlaced(table', size') /\ WellPlaced(new_table', NewSize(count'))
    BY <1>0, <1>6, <1>13, <1>15 DEF Array
  <2>2. /\ Ids(table') \cap Ids(new_table') = {}
        /\ live' = Ids(table') \cup Ids(new_table')
    BY <1>0, <1>4, <1>7, <1>14, ZenonT(60) DEF Linked
  <2> QED BY <2>1, <2>2 DEF Linked, NewSize
<1>18. Counted'
  BY <1>0 DEF Counted, Inserting
<1>19. Control'
  <2>1. \A b \in 0..i-1 : table'[b] = << >>
    BY <1>0, <1>1, SMTT(60) DEF Control
  <2> QED BY <2>1, <1>0 DEF Control, Inserting
<1> QED BY <1>16, <1>17, <1>18, <1>19, ZenonT(60) DEF IInv

\* The invariant is preserved by rehashing going to the next bucket.
LEMMA RehashNextBucketStep ==
  ASSUME IInv, RehashNextBucket
  PROVE  IInv'
<1> USE DEF timeVars, tableVars
<1>0. /\ TypeOK /\ Linked /\ Counted /\ Control
      /\ pc = "rehash" /\ i < size /\ table[i] = << >> /\ i' = i + 1
      /\ UNCHANGED <<tableVars, timeVars, pc, op, j, ctime, new_table, after, ret>>
  BY DEF RehashNextBucket, IInv
<1>1. TypeOK'
  BY <1>0, SMTT(60) DEF TypeOK, NewSize
<1>2. Linked'
  BY <1>0, SameLinks, ZenonT(60)
<1>3. Counted'
  BY <1>0 DEF Counted, Inserting
<1>4. \A b \in 0..i'-1 : table'[b] = << >>
  <2>1. i \in Nat /\ \A b \in 0..i-1 : table[b] = << >>
    BY <1>0, SMTT(60) DEF TypeOK, Control
  <2> QED BY <1>0, <2>1, SMTT(60)
<1>5. Control'
  BY <1>0, <1>4 DEF Control, Inserting
<1> QED BY <1>1, <1>2, <1>3, <1>5, ZenonT(60) DEF IInv

\* The invariant is preserved by the end of a rehash, which installs the new table.
LEMMA RehashEndStep ==
  ASSUME IInv, RehashEnd
  PROVE  IInv'
<1> USE DEF timeVars
<1>0. /\ TypeOK /\ Linked /\ Counted /\ Control
      /\ pc = "rehash" /\ i = size
      /\ table' = new_table /\ size' = NewSize(count)
      /\ new_table' = << >> /\ i' = 0
      /\ pc' = after /\ after' = "lookup"
      /\ UNCHANGED <<count, value, atime, live, timeVars, op, j, ctime, ret>>
  BY DEF RehashEnd, IInv
<1>1. Ids(table) = {}
  <2>1. /\ DOMAIN table = 0..size-1 /\ \A b \in 0..size-1 : table[b] = << >>
    BY <1>0 DEF TypeOK, Control
  <2>2. Range(<< >>) = {}
    BY SMTT(60) DEF Range
  <2> QED BY <2>1, <2>2 DEF Ids
<1>2. TypeOK'
  BY <1>0, SMTT(60) DEF TypeOK, NewSize, NoCall
<1>3. Linked'
  <2>1. WellPlaced(table', size') /\ live' = Ids(table')
    BY <1>0, <1>1 DEF Linked
  <2>2. WellPlaced(new_table', NewSize(count)') /\ Ids(new_table') = {}
    BY <1>0, NoTableFacts
  <2> QED BY <2>1, <2>2 DEF Linked
<1>4. Counted' /\ Control'
  BY <1>0, SMTT(60) DEF Counted, Control, Inserting, TypeOK, NewSize
<1> QED BY <1>2, <1>3, <1>4, ZenonT(60) DEF IInv

\* The invariant is preserved by a lookup that finds the key.
LEMMA LookupHitStep ==
  ASSUME IInv, LookupHit
  PROVE  IInv'
<1> USE DEF timeVars
<1>0. /\ TypeOK /\ Linked /\ Counted /\ Control /\ pc = "lookup" /\ Found
      /\ atime' = [atime EXCEPT ![op.key] = now]
      /\ pc' = "idle" /\ op' = NoCall /\ ret' = op.key
      /\ UNCHANGED <<size, count, table, value, live, timeVars,
                     i, j, ctime, new_table, after>>
  BY DEF LookupHit, IInv, Return
<1>1. op.key \in Key
  BY <1>0 DEF TypeOK
<1>2. op.key \in live
  <2>1. /\ op.key % size \in 0..size-1 /\ DOMAIN table = 0..size-1
    BY <1>0, <1>1, KeyModInRange, ZenonT(60) DEF TypeOK
  <2>2. op.key \in Ids(table)
    BY <1>0, <2>1 DEF Found, Bucket, Ids
  <2> QED BY <1>0, <2>2 DEF Linked
<1>3. TypeOK'
  BY <1>0, <1>1 DEF TypeOK, Time
<1>4. Linked'
  BY <1>0, SameLinks, ZenonT(60)
<1>5. Counted' /\ Control'
  BY <1>0, <1>1, <1>2 DEF Counted, Control, Inserting
<1> QED BY <1>3, <1>4, <1>5, ZenonT(60) DEF IInv

\* The invariant is preserved by a lookup that does not.
LEMMA LookupMissStep ==
  ASSUME IInv, LookupMiss
  PROVE  IInv'
<1> USE DEF timeVars
<1>0. /\ TypeOK /\ Linked /\ Counted /\ Control /\ pc = "lookup" /\ ~Found
      /\ after = "lookup" /\ new_table = << >> /\ count \in Nat /\ count <= size
      /\ UNCHANGED <<size, table, value, atime, live, timeVars, j, ctime>>
  BY DEF LookupMiss, IInv, TypeOK, Control, Counted
<1>1. op.key \in Key
  BY <1>0 DEF TypeOK
<1>2. op.key \notin live
  <2>1. WellPlaced(table, size) /\ live = Ids(table)
    BY <1>0, NoTableFacts DEF Linked
  <2>2. size \in Nat \ {0} /\ table \in [0..size-1 -> Seq(Key)]
    BY <1>0 DEF TypeOK
  <2>3. \A x \in Ids(table) : x \in Range(table[x % size])
    BY <2>1, <2>2, IdInBucket, ZenonT(60)
  <2> QED BY <1>0, <2>1, <2>3 DEF Found, Bucket
<1>3. CASE Return(NULL) /\ UNCHANGED <<count, i, after, new_table>>
  <2>0. pc' = "idle" /\ op' = NoCall /\ ret' = NULL
    BY <1>3 DEF Return
  <2>1. TypeOK'
    BY <1>0, <1>3, <2>0 DEF TypeOK
  <2>2. Linked'
    BY <1>0, <1>3, SameLinks, ZenonT(60)
  <2>3. Counted' /\ Control'
    BY <1>0, <1>3, <2>0 DEF Counted, Control, Inserting
  <2> QED BY <2>1, <2>2, <2>3, ZenonT(60) DEF IInv
<1>4. CASE /\ count' = count + 1
           /\ StartRehash(count + 1, "insert")
           /\ UNCHANGED <<op, ret>>
  <2>0. pc' = "rehash" /\ i' = 0 /\ after' = "insert"
    BY <1>4 DEF StartRehash
  <2>1. Linked' /\ new_table' \in [0..NewSize(count+1)-1 -> Seq(Key)]
    BY <1>0, <1>4, StartRehashStep, SMTT(60)
  <2>2. TypeOK'
    BY <1>0, <1>4, <2>0, <2>1, SMTT(60) DEF TypeOK, NewSize
  <2>3. Counted' /\ Control'
    BY <1>0, <1>1, <1>2, <1>4, <2>0, FS_CardinalityType, SMTT(60) DEF Counted, Control, Inserting
  <2> QED BY <2>1, <2>2, <2>3, ZenonT(60) DEF IInv
<1>5. CASE /\ count' = count + 1 /\ count + 1 <= size
           /\ pc' = "insert" /\ UNCHANGED <<i, after, new_table>>
           /\ UNCHANGED <<op, ret>>
  <2>1. Linked'
    <3>1. WellPlaced(new_table', NewSize(count)') /\ Ids(new_table') = {}
      BY <1>0, <1>5, NoTableFacts
    <3>2. WellPlaced(table', size') /\ live' = Ids(table')
      BY <1>0, <1>5, NoTableFacts DEF Linked
    <3> QED BY <3>1, <3>2 DEF Linked
  <2>2. TypeOK'
    BY <1>0, <1>5, SMTT(60) DEF TypeOK
  <2>3. Counted' /\ Control'
    <3>1. IsFiniteSet(live) /\ Cardinality(live) \in Nat
      BY <1>0, FS_CardinalityType DEF Control
    <3>2. Counted'
      BY <1>0, <1>5, <3>1, SMTT(60) DEF Counted, Inserting
    <3>3. Control'
      BY <1>0, <1>2, <1>5, ZenonT(60) DEF Control, Inserting
    <3> QED BY <3>2, <3>3
  <2> QED BY <2>1, <2>2, <2>3, ZenonT(60) DEF IInv
<1> QED BY <1>3, <1>4, <1>5 DEF LookupMiss

\* The invariant is preserved by the insertion of a new entry.
LEMMA InsertStep ==
  ASSUME IInv, Insert
  PROVE  IInv'
<1> USE DEF timeVars
<1> DEFINE k == op.key
           b == k % size
           s == Append(table[b], k)
<1>0. /\ TypeOK /\ Linked /\ Counted /\ Control /\ pc = "insert"
      /\ new_table = << >> /\ after = "lookup"
      /\ table' = [table EXCEPT ![b] = s] /\ live' = live \cup {k}
      /\ value' = [value EXCEPT ![k] = NULL] /\ atime' = [atime EXCEPT ![k] = now]
      /\ pc' = "idle" /\ op' = NoCall /\ ret' = k
      /\ UNCHANGED <<size, count, timeVars, i, j, ctime, new_table, after>>
  BY DEF Insert, IInv, Return, Bucket, TypeOK, Control
<1>1. /\ k \in Key /\ size \in Nat \ {0} /\ table \in [0..size-1 -> Seq(Key)]
      /\ WellPlaced(table, size) /\ k \notin live
  BY <1>0 DEF TypeOK, Linked, Control, Inserting
<1>2. b \in 0..size-1
  BY <1>1, KeyModInRange, ZenonT(60)
<1> HIDE DEF k, s
<1>3. live = Ids(table) /\ live' = Ids(table) \cup {k}
  BY <1>0, NoTableFacts DEF Linked
<1>4. /\ table[b] \in Seq(Key) /\ IsInjective(table[b])
      /\ (\A x \in Range(table[b]) : x % size = b) /\ Range(table[b]) \subseteq Ids(table)
  BY <1>1, <1>2 DEF WellPlaced, Ids
<1>5. s \in Seq(Key) /\ IsInjective(s) /\ Range(s) = Range(table[b]) \cup {k}
  BY <1>1, <1>3, <1>4, AppendChain, SMTT(60) DEF s
<1>6. \A x \in Range(s) : x % size = b
  BY <1>4, <1>5
<1> HIDE DEF b
<1>7. /\ b \in 0..size-1 /\ Updated(table', table, b, s)
      /\ Array(table, size) /\ Chain(s, b, size)
  BY <1>0, <1>1, <1>2, <1>5, <1>6 DEF Updated, Array, Chain
<1>8. Array(table', size) /\ Ids(table') = (Ids(table) \ Range(table[b])) \cup Range(s)
  BY <1>7, UpdateBucket, SMTT(60)
<1>9. Ids(table') = live'
  BY <1>3, <1>4, <1>5, <1>8
<1>10. TypeOK'
  <2>1. value' \in [Key -> Value \cup {NULL}] /\ atime' \in [Key -> Time] /\ live' \subseteq Key
    BY <1>0, <1>1 DEF TypeOK
  <2>2. table' \in [0..size'-1 -> Seq(Key)]
    BY <1>0, <1>8 DEF Array
  <2> QED BY <1>0, <1>1, <2>1, <2>2 DEF TypeOK
<1>11. Linked'
  <2>1. WellPlaced(new_table', NewSize(count)') /\ Ids(new_table') = {}
    BY <1>0, NoTableFacts
  <2>2. WellPlaced(table', size')
    BY <1>0, <1>8 DEF Array
  <2> QED BY <1>9, <2>1, <2>2 DEF Linked
<1>12. IsFiniteSet(live') /\ Cardinality(live') = Cardinality(live) + 1
  BY <1>0, <1>1, FS_AddElement, ZenonT(60) DEF Control
<1>13. Counted'
  BY <1>0, <1>12, SMTT(60) DEF Counted, Inserting
<1>14. Control'
  BY <1>0, <1>12 DEF Control, Inserting
<1> QED BY <1>10, <1>11, <1>13, <1>14, ZenonT(60) DEF IInv

\* The invariant is preserved by storing a value in the entry.
LEMMA StoreStep ==
  ASSUME IInv, NEW v \in Value, Store(v)
  PROVE  IInv'
<1> USE DEF timeVars, ctlVars
<1>1. TypeOK'
  BY DEF Store, IInv, TypeOK, NewSize
<1>2. Linked'
  BY SameLinks DEF Store, IInv
<1>3. Counted' /\ Control'
  BY DEF Store, IInv, Counted, Control, Inserting
<1> QED BY <1>1, <1>2, <1>3, ZenonT(60) DEF IInv

\* The invariant is preserved by sigar_cache_destroy.
LEMMA DestroyStep ==
  ASSUME IInv, Destroy
  PROVE  IInv'
<1> USE DEF timeVars
<1>0. /\ TypeOK /\ Linked /\ Counted /\ Control /\ pc = "idle"
      /\ new_table = << >> /\ size \in Nat \ {0}
      /\ live' = live \ Ids(table)
      /\ value' = [k \in Key |-> IF k \in Ids(table) THEN NULL ELSE value[k]]
      /\ atime' = [k \in Key |-> IF k \in Ids(table) THEN 0 ELSE atime[k]]
      /\ table' = EmptyTable(size) /\ count' = 0 /\ ret' = NULL /\ pc' = "destroyed"
      /\ UNCHANGED <<size, timeVars, op, i, j, ctime, new_table, after>>
  BY DEF Destroy, IInv, TypeOK
<1>1. live = Ids(table)
  BY <1>0, NoTableFacts DEF Linked
<1>2. live' = {} /\ IsFiniteSet(live') /\ Cardinality(live') = 0
  <2>1. live' = {}
    BY <1>0, <1>1
  <2> QED BY <2>1, FS_EmptySet
<1>3. /\ table' \in [0..size-1 -> Seq(Key)] /\ WellPlaced(table', size)
      /\ Ids(table') = {}
  BY <1>0, EmptyTableFacts
<1>4. value' \in [Key -> Value \cup {NULL}] /\ atime' \in [Key -> Time]
  BY <1>0, CacheAssumption, SMTT(60) DEF TypeOK, Time
<1>5. TypeOK'
  BY <1>0, <1>2, <1>3, <1>4, ZenonT(60) DEF TypeOK
<1>6. Linked'
  <2>1. WellPlaced(new_table', NewSize(count)') /\ Ids(new_table') = {}
    BY <1>0, NoTableFacts, ZenonT(60)
  <2> QED BY <1>0, <1>2, <1>3, <2>1 DEF Linked
<1>7. Counted'
  BY <1>0, <1>2, SMTT(60) DEF Counted, Inserting
<1>8. Control'
  BY <1>0, <1>2, ZenonT(60) DEF Control, Inserting
<1> QED BY <1>5, <1>6, <1>7, <1>8, ZenonT(60) DEF IInv

\* The invariant is preserved by the clock.
LEMMA ClockStep ==
  ASSUME IInv, Tick \/ SetBack
  PROVE  IInv'
<1> USE DEF tableVars, ctlVars
<1>0. /\ now' \in Time /\ stepped' \in BOOLEAN
      /\ UNCHANGED <<tableVars, last_cleanup, cleanup_period, expire, ctlVars>>
  <2>1. now \in 0..MaxNow
    BY DEF IInv, TypeOK, Time
  <2>2. stepped' \in BOOLEAN
    BY ZenonT(60) DEF IInv, TypeOK, Tick, SetBack
  <2>3. now' \in Time
    BY <2>1, CacheAssumption, SMTT(60) DEF Tick, SetBack, Time
  <2> QED BY <2>2, <2>3, ZenonT(60) DEF Tick, SetBack
<1>1. TypeOK'
  BY <1>0 DEF IInv, TypeOK, NewSize
<1>2. Linked'
  BY <1>0, SameLinks DEF IInv
<1>3. Counted' /\ Control'
  BY <1>0 DEF IInv, Counted, Control, Inserting
<1> QED BY <1>1, <1>2, <1>3, ZenonT(60) DEF IInv

\* The invariant is preserved by a step that changes nothing.
LEMMA StutterStep ==
  ASSUME IInv, UNCHANGED vars
  PROVE  IInv'
<1> USE DEF vars, tableVars, timeVars, ctlVars
<1>1. TypeOK'
  BY DEF IInv, TypeOK, NewSize
<1>2. Linked'
  BY SameLinks DEF IInv
<1>3. Counted' /\ Control'
  BY DEF IInv, Counted, Control, Inserting
<1> QED BY <1>1, <1>2, <1>3, ZenonT(60) DEF IInv

\* The invariant is preserved by every step.
LEMMA NextIInv == IInv /\ [Next]_vars => IInv'
<1> SUFFICES ASSUME IInv, [Next]_vars PROVE IInv'
  OBVIOUS
<1>1. CASE \E kind \in {"find", "get"}, k \in Key : Call(kind, k)
  BY <1>1, CallStep
<1>2. CASE Internal
  BY <1>2, CleanupEntryStep, CleanupNextBucketStep, CleanupEndStep, RehashEntryStep,
     RehashNextBucketStep, RehashEndStep, LookupHitStep, LookupMissStep, InsertStep
     DEF Internal
<1>3. CASE \E v \in Value : Store(v)
  BY <1>3, StoreStep
<1>4. CASE Destroy
  BY <1>4, DestroyStep
<1>5. CASE Tick \/ SetBack
  BY <1>5, ClockStep
<1>6. CASE Finished \/ UNCHANGED vars
  BY <1>6, StutterStep DEF Finished
<1> QED BY <1>1, <1>2, <1>3, <1>4, <1>5, <1>6 DEF Next

\* In every state of every find, get, cleanup and rehash, whatever the clock
\* does, the table is well typed, no entry is lost, leaked or linked twice,
\* and table->count is the number of entries.
THEOREM IInvHolds == Spec => []IInv
<1>1. Init => IInv
  BY InitIInv
<1>2. IInv /\ [Next]_vars => IInv'
  BY NextIInv
<1> QED BY <1>1, <1>2, PTL DEF Spec

\* What sigar_cache_find and sigar_cache_get return is allocated and can be
\* found again.
THEOREM ReturnedIsLiveHolds == Spec => []ReturnedIsLive
<1>1. IInv => ReturnedIsLive
  <2> SUFFICES ASSUME IInv, pc = "idle", ret # NULL
               PROVE  ret \in live /\ ret \in Range(table[ret % size])
    BY DEF ReturnedIsLive, Bucket
  <2>1. ret \in live
    BY DEF IInv, Control
  <2>2. ret \in Ids(table) /\ WellPlaced(table, size)
    BY <2>1, NoTableFacts DEF IInv, TypeOK, Linked
  <2>3. size \in Nat \ {0} /\ table \in [0..size-1 -> Seq(Key)]
    BY DEF IInv, TypeOK
  <2> QED BY <2>1, <2>2, <2>3, IdInBucket, ZenonT(60)
<1> QED BY <1>1, IInvHolds, PTL

\* sigar_cache_destroy frees every entry.
THEOREM DestroyFreesAllHolds == Spec => []DestroyFreesAll
<1>1. IInv => DestroyFreesAll
  BY DEF IInv, Control, DestroyFreesAll
<1> QED BY <1>1, IInvHolds, PTL

\* The entries of a cache made by sigar_cache_new stay, with their values,
\* until it is destroyed.
THEOREM EntriesStayHolds == Spec => EntriesStay
<1> DEFINE Stay == cleanup_period = NOTIMPL /\ pc' # "destroyed" =>
                     /\ live \subseteq live'
                     /\ \A k \in live : value[k] # NULL => value'[k] = value[k]
<1>1. IInv /\ [Next]_vars => [Stay]_vars
  <2> SUFFICES ASSUME IInv, Next, cleanup_period = NOTIMPL, pc' # "destroyed"
               PROVE  /\ live \subseteq live'
                      /\ \A k \in live : value[k] # NULL => value'[k] = value[k]
    OBVIOUS
  <2> USE DEF tableVars, timeVars, ctlVars
  <2>1. CASE UNCHANGED <<live, value>>
    BY <2>1
  <2>2. ~CleanupEntry
    BY DEF CleanupEntry, IInv, Control
  <2>3. CASE Insert
    BY <2>3 DEF Insert, IInv, TypeOK, Control, Inserting
  <2>4. ASSUME NEW v \in Value, Store(v)
        PROVE  /\ live \subseteq live'
               /\ \A k \in live : value[k] # NULL => value'[k] = value[k]
    BY <2>4 DEF Store, IInv, TypeOK
  <2>5. CASE \E kind \in {"find", "get"}, k \in Key : Call(kind, k)
    BY <2>5, <2>1 DEF Call
  <2>6. CASE Internal
    BY <2>6, <2>1, <2>2, <2>3, ZenonT(60) DEF Internal, CleanupNextBucket, CleanupEnd,
       RehashEntry, RehashNextBucket, RehashEnd, LookupHit, LookupMiss
  <2>7. ~Destroy
    BY DEF Destroy
  <2>8. CASE Tick \/ SetBack \/ Finished
    BY <2>8, <2>1 DEF Tick, SetBack, Finished, vars
  <2> QED BY <2>4, <2>5, <2>6, <2>7, <2>8, ZenonT(60) DEF Next
<1>2. Spec => [][Stay]_vars
  BY <1>1, IInvHolds, PTL DEF Spec
<1> QED BY <1>2 DEF EntriesStay

-----------------------------------------------------------------------------
(* The hash table implements the map *)

\* As long as the clock was not set back, nothing was accessed, and no
\* cleanup started, in the future.
LEMMA PastHolds == Spec => []Past
<1> USE DEF tableVars, timeVars, ctlVars, Time
<1>1. Init => Past
  BY SMTT(60) DEF Init, Past
<1>2. TypeOK /\ Past /\ [Next]_vars => Past'
  <2> SUFFICES ASSUME TypeOK, Past, [Next]_vars, ~stepped' PROVE Past'
    BY DEF Past
  <2>a. ~stepped
    BY ZenonT(60) DEF Next, Internal, Call, CleanupEntry, CleanupNextBucket, CleanupEnd,
       RehashEntry, RehashNextBucket, RehashEnd, LookupHit, LookupMiss, Insert, Store,
       Destroy, Tick, SetBack, Finished, vars
  <2>0. /\ now \in Int /\ ctime \in Int /\ atime \in [Key -> Int]
        /\ \A k \in Key : atime[k] <= now /\ 0 <= atime[k]
        /\ pc = "cleanup" => ctime <= now /\ \A k \in Key : atime[k] <= ctime
        /\ pc = "lookup" \/ pc = "insert" => op.key \in Key
        /\ \A x \in 0..size-1 : table[x] \in Seq(Key)
        /\ i \in 0..size /\ j \in Nat \ {0} /\ size \in Nat /\ 0 <= now
    BY <2>a, SMTT(60) DEF TypeOK, Past
  <2>1. ASSUME NEW kind, NEW k, Call(kind, k) PROVE Past'
    BY <2>0, <2>1, SMTT(60) DEF Call, Past
  <2>2. CASE CleanupEntry
    <3>1. CASE UNCHANGED atime
      BY <2>0, <2>2, <3>1 DEF CleanupEntry, Past
    <3>2. CASE /\ atime' = [atime EXCEPT ![table[i][j]] = 0]
               /\ UNCHANGED <<now, ctime, pc>>
      <4>1. \A k \in Key : atime'[k] = atime[k] \/ atime'[k] = 0
        BY <2>0, <3>2
      <4>2. pc = "cleanup" /\ 0 <= ctime
        BY <2>2, SMTT(60) DEF CleanupEntry, TypeOK
      <4> QED BY <2>0, <3>2, <4>1, <4>2 DEF Past
    <3> QED BY <2>2, <3>1, <3>2 DEF CleanupEntry
  <2>3. CASE LookupHit \/ Insert
    <3>1. /\ op.key \in Key /\ atime' = [atime EXCEPT ![op.key] = now]
          /\ pc' = "idle" /\ now' = now
      BY <2>0, <2>3, ZenonT(60) DEF LookupHit, Insert, Return
    <3> QED BY <2>0, <3>1, SMTT(60) DEF Past
  <2>4. CASE Destroy
    <3>1. \A k \in Key : atime'[k] = atime[k] \/ atime'[k] = 0
      BY <2>4, ZenonT(60) DEF Destroy
    <3> QED BY <2>0, <2>4, <3>1, ZenonT(60) DEF Destroy, Past
  <2>5. CASE Tick \/ SetBack
    BY <2>0, <2>5, SMTT(60) DEF Tick, SetBack, Past
  <2>6. CASE UNCHANGED <<now, ctime, atime, pc>>
    BY <2>0, <2>6 DEF Past
  <2>7. CASE CleanupNextBucket \/ RehashEntry \/ RehashNextBucket \/ Finished \/ UNCHANGED vars
    BY <2>6, <2>7, ZenonT(60) DEF CleanupNextBucket, RehashEntry, RehashNextBucket, Finished, vars
  <2>8. CASE CleanupEnd
    BY <2>0, <2>8 DEF CleanupEnd, StartRehash, Past
  <2>9. CASE RehashEnd
    <3>1. after # "cleanup"
      BY DEF TypeOK
    <3> QED BY <2>0, <2>9, <3>1 DEF RehashEnd, Past
  <2>10. CASE LookupMiss
    BY <2>0, <2>10 DEF LookupMiss, StartRehash, Return, Past
  <2>11. ASSUME NEW v, Store(v) PROVE Past'
    BY <2>6, <2>11 DEF Store
  <2> QED
    BY <2>1, <2>2, <2>3, <2>4, <2>5, <2>7, <2>8, <2>9, <2>10, <2>11 DEF Next, Internal
<1>3. Spec => []TypeOK
  BY IInvHolds, PTL DEF IInv
<1> QED BY <1>1, <1>2, <1>3, PTL DEF Spec

\* The entries that the abstract map sees are the live ones.
LEMMA EntriesAreLive ==
  ASSUME Linked
  PROVE  Entries = [k \in live |-> [value |-> value[k], atime |-> atime[k]]]
BY ZenonT(60) DEF Linked, Entries

\* Every step of the hash table is a step of the map, or invisible in it.
LEMMA StepIsMapStep ==
  ASSUME IInv, IInv', Past, [Next]_vars
  PROVE  [Map!MapNext]_(Map!mapVars)
<1> USE DEF tableVars, timeVars, ctlVars
<1> DEFINE Rec(k) == [value |-> value[k], atime |-> atime[k]]
<1>0. /\ Entries = [k \in live |-> Rec(k)] /\ Entries' = [k \in live' |-> Rec(k)']
      /\ live \subseteq Key /\ live' \subseteq Key
      /\ value \in [Key -> Value \cup {NULL}] /\ atime \in [Key -> Time]
  <2>1. Linked /\ Linked' /\ TypeOK /\ TypeOK'
    BY DEF IInv
  <2>2. Entries = [k \in live |-> Rec(k)]
    BY <2>1, EntriesAreLive
  <2>3. Entries' = [k \in live' |-> Rec(k)']
    BY <2>1, ZenonT(60) DEF Linked, Entries
  <2>4. /\ live \subseteq Key /\ live' \subseteq Key
        /\ value \in [Key -> Value \cup {NULL}] /\ atime \in [Key -> Time]
    BY <2>1, ZenonT(60) DEF TypeOK
  <2> QED BY <2>2, <2>3, <2>4
<1> HIDE DEF Rec
<1>1. CASE UNCHANGED <<live, value, atime, ret, now, stepped, expire>>
  <2>1. Entries' = Entries
    BY <1>0, <1>1 DEF Rec
  <2> QED BY <1>1, <2>1 DEF Map!mapVars
<1>2. ASSUME NEW kind, NEW k, Call(kind, k) PROVE Map!MapNext
  <2>1. UNCHANGED <<live, value, atime, now, stepped, expire>> /\ ret' = NULL
    BY <1>2 DEF Call
  <2>2. Entries' = Entries
    BY <1>0, <2>1 DEF Rec
  <2> QED BY <2>1, <2>2 DEF Map!MapNext, Map!Forget
<1>3. CASE CleanupEntry
  <2> DEFINE k == table[i][j]
  <2>1. CASE UNCHANGED <<live, value, atime>>
    BY <1>1, <1>3, <2>1 DEF CleanupEntry
  <2>2. CASE /\ Expired(k)
             /\ live' = live \ {k}
             /\ value' = [value EXCEPT ![k] = NULL]
             /\ atime' = [atime EXCEPT ![k] = 0]
    <3>1. /\ i \in 0..size-1 /\ j \in DOMAIN table[i] /\ DOMAIN table = 0..size-1
      <4>1. /\ i \in 0..size /\ j \in Nat \ {0} /\ size \in Nat
            /\ table \in [0..size-1 -> Seq(Key)]
        BY DEF IInv, TypeOK
      <4>2. i < size /\ j <= Len(table[i])
        BY <1>3 DEF CleanupEntry
      <4>3. i \in 0..size-1
        BY <4>1, <4>2, SMTT(60)
      <4>4. Len(table[i]) \in Nat /\ DOMAIN table[i] = 1..Len(table[i])
        BY <4>1, <4>3, LenProperties
      <4> QED BY <4>1, <4>2, <4>3, <4>4, SMTT(60)
    <3>2. k \in live
      <4>1. Ids(table) \subseteq live
        BY DEF IInv, Linked
      <4> QED BY <4>1, <3>1, SMTT(60) DEF Ids, Range
    <3>3. pc = "cleanup" /\ ret = NULL /\ UNCHANGED <<ret, now, stepped, expire>>
      BY <1>3 DEF CleanupEntry, IInv, Control
    <3> HIDE DEF k
    <3>4. /\ ctime \in Time /\ atime[k] \in Time /\ now \in Time /\ expire \in Nat
          /\ k \in Key
          /\ stepped \/ (atime[k] <= ctime /\ ctime <= now)
      BY <3>2, <3>3, SMTT(60) DEF IInv, TypeOK, Past
    <3>5. stepped \/ Elapsed(ctime, atime[k]) = ctime - atime[k]
      BY <3>4, ElapsedInOrder
    <3>6. stepped \/ now - atime[k] > expire
      BY <2>2, <3>4, <3>5, SMTT(60) DEF Expired, Time
    <3>7. k \in DOMAIN Entries /\ Entries[k].atime = atime[k]
      BY <1>0, <3>2, ZenonT(60) DEF Rec
    <3>8. Entries' = [x \in DOMAIN Entries \ {k} |-> Entries[x]]
      <4>1. ASSUME NEW x \in live \ {k} PROVE Rec(x)' = Rec(x)
        BY <1>0, <2>2, <4>1 DEF Rec
      <4>2. DOMAIN Entries = live
        BY <1>0
      <4> QED BY <1>0, <2>2, <4>1, <4>2, ZenonT(60)
    <3>9. Map!Drop(k)
      BY <3>3, <3>6, <3>7, <3>8 DEF Map!Drop
    <3> QED BY <3>4, <3>9 DEF Map!MapNext
  <2> QED BY <1>3, <2>1, <2>2 DEF CleanupEntry
<1>4. CASE LookupHit
  <2> DEFINE k == op.key
  <2>1. /\ atime' = [atime EXCEPT ![k] = now] /\ ret' = k
        /\ UNCHANGED <<live, value, now, stepped, expire>>
    BY <1>4 DEF LookupHit, Return
  <2>2. k \in live
    <3>1. pc = "lookup" /\ live' = live
      BY <1>4 DEF LookupHit
    <3>2. k \in Key
      BY <3>1, ZenonT(60) DEF IInv, TypeOK
    <3>3. ret' # NULL => ret' \in live'
      BY ZenonT(60) DEF IInv, Control
    <3> QED BY <2>1, <3>1, <3>2, <3>3, CacheAssumption
  <2> HIDE DEF k
  <2>3. k \in DOMAIN Entries
    BY <1>0, <2>2
  <2>4. Entries' = Map!Put(k, [Entries[k] EXCEPT !.atime = now])
    <3>1. DOMAIN Entries \cup {k} = live /\ live' = live
      BY <1>0, <2>1, <2>2
    <3>2. ASSUME NEW x \in live
          PROVE  Rec(x)' = IF x = k THEN [Entries[k] EXCEPT !.atime = now] ELSE Entries[x]
      BY <1>0, <2>1, <2>2 DEF Rec
    <3> QED BY <1>0, <3>1, <3>2 DEF Map!Put
  <2>5. Map!Hit(k)
    BY <2>1, <2>3, <2>4 DEF Map!Hit
  <2> QED BY <1>0, <2>2, <2>5 DEF Map!MapNext
<1>5. CASE LookupMiss
  <2>1. UNCHANGED <<live, value, atime, now, stepped, expire>> /\ (ret' = NULL \/ ret' = ret)
    BY <1>5 DEF LookupMiss, Return
  <2>2. Entries' = Entries
    BY <1>0, <2>1 DEF Rec
  <2> QED BY <1>1, <2>1, <2>2 DEF Map!MapNext, Map!Forget
<1>6. CASE Insert
  <2> DEFINE k == op.key
  <2>1. /\ live' = live \cup {k} /\ value' = [value EXCEPT ![k] = NULL]
        /\ atime' = [atime EXCEPT ![k] = now] /\ ret' = k
        /\ UNCHANGED <<now, stepped, expire>>
    BY <1>6 DEF Insert, Return
  <2>2. k \notin live /\ k \in Key
    BY <1>6 DEF Insert, IInv, Control, Inserting, TypeOK
  <2> HIDE DEF k
  <2>3. Entries' = Map!Put(k, [value |-> NULL, atime |-> now]) /\ k \notin DOMAIN Entries
    <3>1. DOMAIN Entries \cup {k} = live' /\ k \notin DOMAIN Entries
      BY <1>0, <2>1, <2>2
    <3>2. ASSUME NEW x \in live'
          PROVE  Rec(x)' = IF x = k THEN [value |-> NULL, atime |-> now] ELSE Entries[x]
      BY <1>0, <2>1, <2>2 DEF Rec
    <3> QED BY <1>0, <3>1, <3>2 DEF Map!Put
  <2>4. Map!Create(k)
    BY <2>1, <2>3 DEF Map!Create
  <2> QED BY <2>2, <2>4 DEF Map!MapNext
<1>7. ASSUME NEW v \in Value, Store(v) PROVE Map!MapNext
  <2>1. /\ value[ret] = NULL /\ value' = [value EXCEPT ![ret] = v] /\ ret \in live
        /\ UNCHANGED <<live, atime, ret, now, stepped, expire>>
    BY <1>7, ZenonT(60) DEF Store, IInv, Control
  <2>2. Entries' = Map!Put(ret, [Entries[ret] EXCEPT !.value = v])
    <3>1. DOMAIN Entries \cup {ret} = live /\ live' = live
      BY <1>0, <2>1
    <3>2. ASSUME NEW x \in live
          PROVE  Rec(x)' = IF x = ret THEN [Entries[ret] EXCEPT !.value = v] ELSE Entries[x]
      BY <1>0, <2>1 DEF Rec
    <3> QED BY <1>0, <3>1, <3>2 DEF Map!Put
  <2>3. ret \in DOMAIN Entries /\ Entries[ret].value = NULL /\ ret \in Key
    BY <1>0, <2>1 DEF Rec
  <2>4. Map!Store(ret, v)
    BY <2>1, <2>2, <2>3 DEF Map!Store
  <2> QED BY <2>3, <2>4 DEF Map!MapNext
<1>8. CASE Destroy
  <2>1. ret' = NULL /\ UNCHANGED <<now, stepped, expire>> /\ live' = {}
    BY <1>8, ZenonT(60) DEF Destroy, IInv, Control
  <2>2. Entries' = Map!NoEntries
    BY <1>0, <2>1 DEF Map!NoEntries
  <2> QED BY <2>1, <2>2 DEF Map!MapNext, Map!Destroy
<1>9. CASE Tick \/ SetBack
  <2>1. /\ UNCHANGED <<live, value, atime, ret, expire>>
        /\ \/ now' \in now..MaxNow /\ stepped' = stepped
           \/ now' \in 0..now /\ stepped' = TRUE
    <3>1. now \in Time
      BY DEF IInv, TypeOK
    <3> QED BY <1>9, <3>1, CacheAssumption, SMTT(60) DEF Tick, SetBack, Time
  <2>2. Entries' = Entries
    BY <1>0, <2>1 DEF Rec
  <2> QED BY <2>1, <2>2 DEF Map!MapNext, Map!Tick, Map!SetBack
<1>10. CASE \/ CleanupNextBucket \/ CleanupEnd \/ RehashEntry \/ RehashNextBucket
            \/ RehashEnd \/ Finished \/ UNCHANGED vars
  BY <1>1, <1>10, ZenonT(60) DEF CleanupNextBucket, CleanupEnd, RehashEntry, RehashNextBucket,
     RehashEnd, Finished, vars
<1> QED
  BY <1>2, <1>3, <1>4, <1>5, <1>6, <1>7, <1>8, <1>9, <1>10, ZenonT(60) DEF Next, Internal

\* The first states are first states of the map.
LEMMA InitIsMapInit == Init => Map!MapInit
<1> SUFFICES ASSUME Init PROVE Map!MapInit
  OBVIOUS
<1>1. live = {} /\ Linked
  BY InitIInv DEF Init, IInv
<1>2. Entries = Map!NoEntries
  BY <1>1, EntriesAreLive DEF Map!NoEntries
<1>3. ret = NULL /\ now \in 0..MaxNow /\ stepped = FALSE /\ expire \in Nat
  BY CacheAssumption, SMTT(60) DEF Init, Time, NOTIMPL
<1> QED BY <1>2, <1>3 DEF Map!MapInit

\* sigar_cache.c is a map from keys to entries that, unless the clock was set
\* back, drops an entry only after it was idle for too long.
THEOREM IsMapHolds == Spec => IsMap
<1>1. Init => Map!MapInit
  BY InitIsMapInit
<1>2. IInv /\ IInv' /\ Past /\ [Next]_vars => [Map!MapNext]_(Map!mapVars)
  BY StepIsMapStep
<1>3. Spec => []IInv
  BY IInvHolds
<1>4. Spec => []Past
  BY PastHolds
<1>5. Spec => Map!MapSpec
  BY <1>1, <1>2, <1>3, <1>4, PTL DEF Spec, Map!MapSpec
<1> QED BY <1>5 DEF IsMap
=============================================================================
