--------------------------- MODULE SigarCacheMap ---------------------------
(***************************************************************************)
(* What sigar_cache.c promises its callers, without the hash table: a      *)
(* partial map from keys (pids, ports, device numbers, interface indexes)  *)
(* to entries.  An entry is created by a get, keeps its value until it is  *)
(* dropped, and is dropped only when nobody has accessed it for longer     *)
(* than the expiry period, or by the destruction of the whole cache.       *)
(* The clock is the millisecond wall clock: once it was set back the       *)
(* promise about idle entries is off, the rest stands.                     *)
(***************************************************************************)
EXTENDS Integers

CONSTANTS Key,      \* numbers used as keys
          Value,    \* pointers callers store in an entry
          NULL,     \* the null pointer
          MaxNow    \* last instant of the clock

VARIABLES entries,  \* function from the live keys to [value, atime]
          ret,      \* what the last completed call returned: a key or NULL
          now,      \* the clock
          stepped,  \* whether it was ever set back
          expire    \* entry_expire_period, fixed at creation

mapVars == <<entries, ret, now, stepped, expire>>

NoEntries == [k \in {} |-> NULL]

Put(k, e) == [x \in DOMAIN entries \cup {k} |-> IF x = k THEN e ELSE entries[x]]

MapInit ==
  /\ entries = NoEntries
  /\ ret = NULL
  /\ now \in 0..MaxNow /\ stepped = FALSE
  /\ expire \in Nat

\* A hit of find or get: the access time is refreshed, nothing else changes.
Hit(k) ==
  /\ k \in DOMAIN entries
  /\ entries' = Put(k, [entries[k] EXCEPT !.atime = now])
  /\ ret' = k
  /\ UNCHANGED <<now, stepped, expire>>

\* A get of an absent key creates an entry with no value.
Create(k) ==
  /\ k \notin DOMAIN entries
  /\ entries' = Put(k, [value |-> NULL, atime |-> now])
  /\ ret' = k
  /\ UNCHANGED <<now, stepped, expire>>

\* A find of an absent key.
Miss(k) ==
  /\ k \notin DOMAIN entries
  /\ ret' = NULL
  /\ UNCHANGED <<entries, now, stepped, expire>>

\* The caller stores a value in the entry it was given.
Store(k, v) ==
  /\ k \in DOMAIN entries
  /\ entries[k].value = NULL
  /\ entries' = Put(k, [entries[k] EXCEPT !.value = v])
  /\ UNCHANGED <<ret, now, stepped, expire>>

\* Only an entry that was idle for longer than the expiry period is dropped.
Drop(k) ==
  /\ k \in DOMAIN entries
  /\ stepped \/ now - entries[k].atime > expire
  /\ entries' = [x \in DOMAIN entries \ {k} |-> entries[x]]
  /\ ret' = NULL
  /\ UNCHANGED <<now, stepped, expire>>

\* A new call forgets the entry the previous one returned.
Forget ==
  /\ ret' = NULL
  /\ UNCHANGED <<entries, now, stepped, expire>>

Destroy ==
  /\ entries' = NoEntries
  /\ ret' = NULL
  /\ UNCHANGED <<now, stepped, expire>>

Tick ==
  /\ now' \in now..MaxNow
  /\ UNCHANGED <<entries, ret, stepped, expire>>

SetBack ==
  /\ now' \in 0..now /\ stepped' = TRUE
  /\ UNCHANGED <<entries, ret, expire>>

MapNext ==
  \/ \E k \in Key : Hit(k) \/ Create(k) \/ Miss(k) \/ Drop(k)
  \/ \E k \in Key, v \in Value : Store(k, v)
  \/ Forget
  \/ Destroy
  \/ Tick
  \/ SetBack

MapSpec == MapInit /\ [][MapNext]_mapVars
=============================================================================
