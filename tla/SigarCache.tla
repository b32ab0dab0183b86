----------------------------- MODULE SigarCache -----------------------------
(***************************************************************************)
(* The hash table of sigar_cache.c: an array of chains that grows when     *)
(* there are more entries than buckets, and, for an expiring cache,        *)
(* periodically frees the entries nobody accessed and shrinks.             *)
(*                                                                         *)
(* A handle is used by one thread, but the loops over the chains are       *)
(* modelled one iteration per step: relinking a chain while it is walked   *)
(* is what can go wrong, and the wall clock moves between two reads of it  *)
(* within one call.                                                        *)
(***************************************************************************)
EXTENDS Integers, Sequences, FiniteSets, Functions

CONSTANTS
  Key,             \* the numbers used as keys (sigar_uint64_t)
  Value,           \* pointers callers store in an entry
  NULL,            \* the null pointer
  InitSize,        \* size passed to sigar_expired_cache_new
  CleanupPeriod,   \* cleanup_period_millis of an expiring cache
  ExpirePeriod,    \* entry_expire_period of an expiring cache
  TimeMod,         \* 2^64: the wall clock is a sigar_uint64_t
  MaxNow           \* last instant of the clock: bounds the model

ASSUME CacheAssumption ==
  /\ Key \subseteq Nat
  /\ NULL \notin Key /\ NULL \notin Value
  /\ InitSize \in Nat \ {0}
  /\ MaxNow \in Nat
  /\ TimeMod \in Nat /\ MaxNow + 1 < TimeMod
  /\ CleanupPeriod \in 0..TimeMod - 2
  /\ ExpirePeriod \in 0..TimeMod - 2

VARIABLES
  size, count,     \* table->size, table->count
  table,           \* table->entries: bucket |-> chain of entry ids
  value, atime,    \* entry->value and entry->last_access_time, by entry id
  live,            \* ids of the entries that are malloc'd and not freed
  last_cleanup, cleanup_period, expire,
  now,             \* the wall clock
  stepped,         \* whether the wall clock was ever set back
  pc,              \* where the current call is
  op,              \* the call in progress: [kind, key]
  i, j,            \* loop variables: bucket, position in its chain
  ctime,           \* current_time, read once at the start of a cleanup
  new_table,       \* new_entries of a rehash
  after,           \* what the function that called rehash does next
  ret              \* the entry the last call returned, or NULL

tableVars == <<size, count, table, value, atime, live>>
timeVars  == <<now, stepped, last_cleanup, cleanup_period, expire>>
ctlVars   == <<pc, op, i, j, ctime, new_table, after, ret>>
vars      == <<tableVars, timeVars, ctlVars>>

NOTIMPL == TimeMod - 1                    \* SIGAR_FIELD_NOTIMPL as uint64
Elapsed(t, t0) == (t - t0) % TimeMod      \* uint64 subtraction
Bucket(k) == k % size                     \* SIGAR_CACHE_IX
NewSize(n) == 2 * n + 1                   \* new_size of a rehash
EmptyTable(n) == [b \in 0..n-1 |-> << >>]
Time == 0..MaxNow
NoCall == [kind |-> "none", key |-> NULL]

\* sigar_expired_cache_new, or sigar_cache_new, whose entries never expire.
Init ==
  /\ size = InitSize /\ count = 0
  /\ table = EmptyTable(InitSize)
  /\ value = [k \in Key |-> NULL] /\ atime = [k \in Key |-> 0]
  /\ live = {}
  /\ now \in Time /\ stepped = FALSE /\ last_cleanup = now
  /\ \/ cleanup_period = CleanupPeriod /\ expire = ExpirePeriod
     \/ cleanup_period = NOTIMPL /\ expire = NOTIMPL
  /\ pc = "idle" /\ op = NoCall /\ ret = NULL
  /\ i = 0 /\ j = 1 /\ ctime = 0
  /\ new_table = << >> /\ after = "lookup"

CleanupDue ==
  /\ cleanup_period # NOTIMPL
  /\ Elapsed(now, last_cleanup) >= cleanup_period

\* Entry of sigar_cache_find and sigar_cache_get, up to the loop of
\* sigar_perform_cleanup_if_necessary.
Call(kind, k) ==
  /\ pc = "idle"
  /\ op' = [kind |-> kind, key |-> k]
  /\ ret' = NULL
  /\ \/ ~CleanupDue /\ pc' = "lookup" /\ UNCHANGED <<last_cleanup, ctime>>
     \/ CleanupDue /\ pc' = "cleanup" /\ last_cleanup' = now /\ ctime' = now
  /\ UNCHANGED <<tableVars, now, stepped, cleanup_period, expire, i, j, new_table, after>>

\* entry_prev->next = ptr, or *entry_in_table = ptr for the first entry.
Unlink(chain, p) == SubSeq(chain, 1, p-1) \o SubSeq(chain, p+1, Len(chain))

\* Mutant: <= for <.
ExpiredEarly(k) == expire <= Elapsed(ctime, atime[k])

Expired(k) == expire < Elapsed(ctime, atime[k])

\* One iteration of the inner loop: free the entry and unlink it from its
\* predecessor, or from the bucket when it is the first; otherwise advance.
CleanupEntry ==
  /\ pc = "cleanup" /\ i < size /\ j <= Len(table[i])
  /\ LET k == table[i][j] IN
       \/ /\ Expired(k)
          /\ table' = [table EXCEPT ![i] = Unlink(@, j)]
          /\ live' = live \ {k}
          /\ value' = [value EXCEPT ![k] = NULL]
          /\ atime' = [atime EXCEPT ![k] = 0]
          /\ count' = count - 1
          /\ UNCHANGED j
       \/ /\ ~Expired(k)
          /\ j' = j + 1
          /\ UNCHANGED <<table, live, value, atime, count>>
  /\ UNCHANGED <<size, timeVars, pc, op, i, ctime, new_table, after, ret>>

\* Mutant: the loop variable is not advanced.
CleanupSameBucket ==
  /\ pc = "cleanup" /\ i < size /\ j > Len(table[i])
  /\ j' = 1
  /\ UNCHANGED <<tableVars, timeVars, pc, op, i, ctime, new_table, after, ret>>

CleanupNextBucket ==
  /\ pc = "cleanup" /\ i < size /\ j > Len(table[i])
  /\ i' = i + 1 /\ j' = 1
  /\ UNCHANGED <<tableVars, timeVars, pc, op, ctime, new_table, after, ret>>

\* First lines of sigar_cache_rehash.
StartRehash(n, next) ==
  /\ new_table' = EmptyTable(NewSize(n))
  /\ i' = 0
  /\ after' = next
  /\ pc' = "rehash"

\* After the loops: shrink a table that is more than three quarters empty.
CleanupEnd ==
  /\ pc = "cleanup" /\ i = size
  /\ ctime' = 0
  /\ \/ count < size \div 4 /\ StartRehash(count, "lookup")
     \/ count >= size \div 4 /\ pc' = "lookup" /\ i' = 0 /\ UNCHANGED <<after, new_table>>
  /\ UNCHANGED <<tableVars, timeVars, op, j, ret>>

\* Mutant: the new bucket is computed from the old size.
RehashEntryOldSize ==
  /\ pc = "rehash" /\ i < size /\ table[i] # << >>
  /\ LET k == Head(table[i])
         h == (k % size) % NewSize(count)
     IN /\ new_table' = [new_table EXCEPT ![h] = <<k>> \o @]
        /\ table' = [table EXCEPT ![i] = Tail(@)]
  /\ UNCHANGED <<size, count, value, atime, live, timeVars,
                 pc, op, i, j, ctime, after, ret>>

\* One iteration of the loops of sigar_cache_rehash: the head of the old
\* chain becomes the head of its new one.
RehashEntry ==
  /\ pc = "rehash" /\ i < size /\ table[i] # << >>
  /\ LET k == Head(table[i])
         h == k % NewSize(count)
     IN /\ new_table' = [new_table EXCEPT ![h] = <<k>> \o @]
        /\ table' = [table EXCEPT ![i] = Tail(@)]
  /\ UNCHANGED <<size, count, value, atime, live, timeVars,
                 pc, op, i, j, ctime, after, ret>>

RehashNextBucket ==
  /\ pc = "rehash" /\ i < size /\ table[i] = << >>
  /\ i' = i + 1
  /\ UNCHANGED <<tableVars, timeVars, pc, op, j, ctime, new_table, after, ret>>

RehashEnd ==
  /\ pc = "rehash" /\ i = size
  /\ table' = new_table /\ size' = NewSize(count)
  /\ new_table' = << >> /\ i' = 0
  /\ pc' = after /\ after' = "lookup"
  /\ UNCHANGED <<count, value, atime, live, timeVars, op, j, ctime, ret>>

Found == op.key \in Range(table[Bucket(op.key)])

Return(r) == pc' = "idle" /\ op' = NoCall /\ ret' = r

\* Mutant: a hit initialises the entry again.
LookupHitClears ==
  /\ pc = "lookup" /\ Found
  /\ atime' = [atime EXCEPT ![op.key] = now]
  /\ value' = [value EXCEPT ![op.key] = NULL]
  /\ Return(op.key)
  /\ UNCHANGED <<size, count, table, live, timeVars,
                 i, j, ctime, new_table, after>>

\* The search of the bucket ends at the entry: refresh its access time.
LookupHit ==
  /\ pc = "lookup" /\ Found
  /\ atime' = [atime EXCEPT ![op.key] = now]
  /\ Return(op.key)
  /\ UNCHANGED <<size, count, table, value, live, timeVars,
                 i, j, ctime, new_table, after>>

\* The search ends at the end of the chain: find returns NULL, get counts
\* the new entry first and grows the table when it no longer fits.
LookupMiss ==
  /\ pc = "lookup" /\ ~Found
  /\ \/ /\ op.kind = "find"
        /\ Return(NULL)
        /\ UNCHANGED <<count, i, after, new_table>>
     \/ /\ op.kind = "get"
        /\ count' = count + 1
        /\ \/ count + 1 > size /\ StartRehash(count + 1, "insert")
           \/ count + 1 <= size /\ pc' = "insert" /\ UNCHANGED <<i, after, new_table>>
        /\ UNCHANGED <<op, ret>>
  /\ UNCHANGED <<size, table, value, atime, live, timeVars, j, ctime>>

\* Mutant: ptr still points into the array that the rehash freed.
InsertStalePtr ==
  /\ pc = "insert"
  /\ table' = IF size = InitSize
                THEN [table EXCEPT ![Bucket(op.key)] = Append(@, op.key)]
                ELSE table
  /\ live' = live \cup {op.key}
  /\ value' = [value EXCEPT ![op.key] = NULL]
  /\ atime' = [atime EXCEPT ![op.key] = now]
  /\ Return(op.key)
  /\ UNCHANGED <<size, count, timeVars, i, j, ctime, new_table, after>>

\* *ptr = entry = malloc(...): linked at the end of the chain.
Insert ==
  /\ pc = "insert"
  /\ table' = [table EXCEPT ![Bucket(op.key)] = Append(@, op.key)]
  /\ live' = live \cup {op.key}
  /\ value' = [value EXCEPT ![op.key] = NULL]
  /\ atime' = [atime EXCEPT ![op.key] = now]
  /\ Return(op.key)
  /\ UNCHANGED <<size, count, timeVars, i, j, ctime, new_table, after>>

\* The caller fills the entry it was given (entry->value = malloc(...)).
Store(v) ==
  /\ pc = "idle" /\ ret # NULL /\ value[ret] = NULL
  /\ value' = [value EXCEPT ![ret] = v]
  /\ UNCHANGED <<size, count, table, atime, live, timeVars, ctlVars>>

Ids(t) == UNION {Range(t[b]) : b \in DOMAIN t}

\* Mutant: the loop stops one bucket early.
DestroyShort ==
  /\ pc = "idle"
  /\ LET freed == UNION {Range(table[b]) : b \in 0..size-2} IN
       /\ live' = live \ freed
       /\ value' = [k \in Key |-> IF k \in freed THEN NULL ELSE value[k]]
       /\ atime' = [k \in Key |-> IF k \in freed THEN 0 ELSE atime[k]]
  /\ table' = EmptyTable(size) /\ count' = 0
  /\ ret' = NULL
  /\ pc' = "destroyed"
  /\ UNCHANGED <<size, timeVars, op, i, j, ctime, new_table, after>>

\* sigar_cache_destroy frees what it reaches from the array.
Destroy ==
  /\ pc = "idle"
  /\ live' = live \ Ids(table)
  /\ value' = [k \in Key |-> IF k \in Ids(table) THEN NULL ELSE value[k]]
  /\ atime' = [k \in Key |-> IF k \in Ids(table) THEN 0 ELSE atime[k]]
  /\ table' = EmptyTable(size) /\ count' = 0
  /\ ret' = NULL
  /\ pc' = "destroyed"
  /\ UNCHANGED <<size, timeVars, op, i, j, ctime, new_table, after>>

\* The environment: time passes, and may be set back (settimeofday, NTP).
Tick ==
  /\ pc # "destroyed"
  /\ now < MaxNow /\ now' = now + 1
  /\ UNCHANGED <<tableVars, stepped, last_cleanup, cleanup_period, expire, ctlVars>>

SetBack ==
  /\ pc # "destroyed"
  /\ now' \in 0..now - 1 /\ stepped' = TRUE
  /\ UNCHANGED <<tableVars, last_cleanup, cleanup_period, expire, ctlVars>>

\* sigar_close was called; nothing more happens to the cache.
Finished == pc = "destroyed" /\ UNCHANGED vars

Internal ==
  \/ CleanupEntry \/ CleanupNextBucket \/ CleanupEnd
  \/ RehashEntry \/ RehashNextBucket \/ RehashEnd
  \/ LookupHit \/ LookupMiss \/ Insert

Next ==
  \/ \E kind \in {"find", "get"}, k \in Key : Call(kind, k)
  \/ Internal
  \/ \E v \in Value : Store(v)
  \/ Destroy
  \/ Tick
  \/ SetBack
  \/ Finished

Spec == Init /\ [][Next]_vars

\* A call runs to completion: nothing in sigar_cache.c waits.
FairSpec == Spec /\ WF_vars(Internal)

-----------------------------------------------------------------------------
\* The fields have their C types; loop variables stay inside their arrays.
TypeOK ==
  /\ size \in Nat \ {0} /\ count \in Nat
  /\ table \in [0..size-1 -> Seq(Key)]
  /\ value \in [Key -> Value \cup {NULL}] /\ atime \in [Key -> Time]
  /\ live \subseteq Key
  /\ now \in Time /\ stepped \in BOOLEAN /\ last_cleanup \in Time /\ ctime \in Time
  /\ cleanup_period \in 0..TimeMod-1 /\ expire \in 0..TimeMod-1
  /\ pc \in {"idle", "cleanup", "rehash", "lookup", "insert", "destroyed"}
  /\ op \in [kind : {"find", "get"}, key : Key] \cup {NoCall}
  /\ (op = NoCall) <=> pc \in {"idle", "destroyed"}
  /\ i \in 0..size /\ j \in Nat \ {0}
  /\ new_table \in IF pc = "rehash" THEN [0..NewSize(count)-1 -> Seq(Key)] ELSE {<< >>}
  /\ after \in {"lookup", "insert"}
  /\ ret \in Key \cup {NULL}

WellPlaced(t, n) ==
  \A b \in DOMAIN t : IsInjective(t[b]) /\ \A k \in Range(t[b]) : k % n = b

\* sigar_cache_rehash and the cleanup loop relink chains while walking them,
\* yet no entry is lost, leaked or linked twice: every chain holds different
\* ids, each in the bucket SIGAR_CACHE_IX computes for the array it is in, no
\* id is in both arrays, and the entries reachable from the arrays are exactly
\* the ones that were malloc'd and not freed.
Linked ==
  /\ WellPlaced(table, size)
  /\ WellPlaced(new_table, NewSize(count))
  /\ Ids(table) \cap Ids(new_table) = {}
  /\ live = Ids(table) \cup Ids(new_table)

Inserting == pc = "insert" \/ (pc = "rehash" /\ after = "insert")

\* table->count, which sigar_cache_get increments before there is an entry
\* and the cleanup decrements one by one, is the number of entries, and a
\* table between two calls never holds more entries than it has buckets.
Counted ==
  /\ count = Cardinality(live) + (IF Inserting THEN 1 ELSE 0)
  /\ pc \in {"idle", "lookup", "insert"} => count <= size

\* What holds inside a call: a rehash has emptied the old buckets it passed,
\* the key being inserted has no entry yet, only an expiring cache is cleaned
\* up, and only a completed call has a result.
Control ==
  /\ IsFiniteSet(live)
  /\ pc = "rehash" => \A b \in 0..i-1 : table[b] = << >>
  /\ Inserting => op.key \notin live
  /\ after = "insert" => pc = "rehash"
  /\ pc = "cleanup" => count <= size /\ cleanup_period # NOTIMPL
  /\ ret # NULL => pc = "idle" /\ ret \in live
  /\ pc = "destroyed" => live = {}

\* The inductive invariant of a find or get in any state of its loops.
IInv == TypeOK /\ Linked /\ Counted /\ Control

\* Access times and the time of a cleanup lie in the past, unless the clock
\* is set back.
Past ==
  ~stepped =>
    /\ \A k \in Key : atime[k] <= now
    /\ pc = "cleanup" => ctime <= now /\ \A k \in Key : atime[k] <= ctime

\* The entry a find or a get returned can be used until the next call: it is
\* allocated and reachable, although the call may have freed and rehashed.
ReturnedIsLive ==
  pc = "idle" /\ ret # NULL => ret \in live /\ ret \in Range(table[Bucket(ret)])

\* sigar_cache_destroy leaves no entry allocated.
DestroyFreesAll == pc = "destroyed" => live = {}

\* A cache made by sigar_cache_new keeps its entries and their values until
\* it is destroyed: sigar_iodev_get and the network caches hold on to them.
EntriesStay ==
  [][cleanup_period = NOTIMPL /\ pc' # "destroyed" =>
       /\ live \subseteq live'
       /\ \A k \in live : value[k] # NULL => value'[k] = value[k]]_vars

\* Every find and every get returns, whatever the cleanup has to do first.
CallReturns == (pc \notin {"idle", "destroyed"}) ~> (pc = "idle")

\* The hash table is a map: every step is a step of SigarCacheMap on the
\* entries reachable from the arrays.
Entries == [k \in Ids(table) \cup Ids(new_table) |->
              [value |-> value[k], atime |-> atime[k]]]
Map == INSTANCE SigarCacheMap WITH entries <- Entries
IsMap == Map!MapSpec
=============================================================================
