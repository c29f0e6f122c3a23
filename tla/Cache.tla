---------------------------------- MODULE Cache ---------------------------------
(***************************************************************************)
(* internal/cache/cache.go: the map, the recency list, the byte counter and *)
(* the expiry times of one node's cache.                                    *)
(*                                                                          *)
(* Every operation runs under the exclusive lock c.mu from beginning to end *)
(* (Get too, although its comment speaks of readers), so each is one action.*)
(* The list is the sequence that LRU.tla is shown to implement.  Metrics    *)
(* are left out, except currentMemoryBytes, the running total they report.  *)
(***************************************************************************)
EXTENDS RecencyOrder, Integers, FiniteSets, FiniteSetsExt, Functions

CONSTANTS Key, Value,
          KeyLen, ValueLen,   \* len() of each key and of each value
          MaxSize,            \* maxSize: 0 when the YAML has no max_cache_size
          TTL,                \* the ttl arguments clients pass, in clock ticks
          MaxClock            \* bound on the clock, for TLC

ASSUME SizeAssumption == MaxSize \in Nat
ASSUME LenAssumption == KeyLen \in [Key -> Nat] /\ ValueLen \in [Value -> Nat]
ASSUME ClockAssumption == TTL \subseteq Int /\ MaxClock \in Nat

VARIABLES data,                 \* a partial function from Key to CacheItem
          lru,                  \* the keys of the list, most recent first
          currentMemoryBytes,
          now,                  \* time.Now()
          recent                \* history: <<a, b>> says a was used after b

vars == <<data, lru, currentMemoryBytes, now, recent>>

Never == 0   \* the zero time.Time: no expiry

CacheItem == [value : Value, expiresAt : Nat]

calculateItemSize(k, v) == (KeyLen[k] + 16) + (ValueLen[v] + 16) + 64

\* A plausible bug: a negative ttl is added to the clock like any other.
ExpiryOfNonZero(ttl) == IF ttl # 0 THEN now + ttl ELSE Never

\* expiresAt stays zero unless ttl > 0: SET with EX 0 or a negative EX never
\* expires.
ExpiryOf(ttl) == IF ttl > 0 THEN now + ttl ELSE Never

\* time.Now().After(expiresAt) is strict.
Expired(k) == data[k].expiresAt # Never /\ now > data[k].expiresAt

\* History, not code: key k has just been used.
Touch(k) ==
  {p \in recent : p[1] # k /\ p[2] # k} \cup {<<k, j>> : j \in Key \ {k}}

--------------------------------------------------------------------------------
Init ==
  /\ data = [k \in {} |-> Never]
  /\ lru = <<>>
  /\ currentMemoryBytes = 0
  /\ now = 1
  /\ recent = {}

\* Overwriting: subtract the old size, replace the item, bring it to the front.
Update(k, v, ttl) ==
  /\ k \in DOMAIN data
  /\ data' = [data EXCEPT ![k] = [value |-> v, expiresAt |-> ExpiryOf(ttl)]]
  /\ lru' = ToFront(lru, k)
  /\ currentMemoryBytes' = currentMemoryBytes
       - calculateItemSize(k, data[k].value) + calculateItemSize(k, v)
  /\ recent' = Touch(k)
  /\ UNCHANGED now

\* A plausible bug: an off-by-one in len(c.data) >= c.maxSize.
VictimsOffByOne == IF Cardinality(DOMAIN data) > MaxSize /\ lru # <<>>
                   THEN {LeastRecent(lru)} ELSE {}

\* What Set evicts to make room for a new key.  On an empty list RemoveLRU
\* returns "", which no item has as its key at that point.
Victims == IF Cardinality(DOMAIN data) >= MaxSize /\ lru # <<>>
           THEN {LeastRecent(lru)} ELSE {}

\* A plausible bug: the evicted item's bytes are not subtracted.
EvictedBytesForgotten == 0

EvictedBytes ==
  IF Victims # {} /\ LeastRecent(lru) \in DOMAIN data
  THEN calculateItemSize(LeastRecent(lru), data[LeastRecent(lru)].value)
  ELSE 0

Insert(k, v, ttl) ==
  LET kept == IF Victims = {} THEN lru ELSE Without(lru, LeastRecent(lru)) IN
  /\ k \notin DOMAIN data
  /\ data' = [j \in (DOMAIN data \ Victims) \cup {k} |->
                IF j = k THEN [value |-> v, expiresAt |-> ExpiryOf(ttl)]
                         ELSE data[j]]
  /\ lru' = PushFront(kept, k)
  /\ currentMemoryBytes' =
       currentMemoryBytes - EvictedBytes + calculateItemSize(k, v)
  /\ recent' = Touch(k)
  /\ UNCHANGED now

Set(k, v, ttl) == Update(k, v, ttl) \/ Insert(k, v, ttl)

\* A plausible bug: a hit does not refresh the key's recency.
GetHitWithoutMove(k) ==
  /\ k \in DOMAIN data /\ ~Expired(k)
  /\ recent' = Touch(k)
  /\ UNCHANGED <<data, lru, currentMemoryBytes, now>>

GetHit(k) ==
  /\ k \in DOMAIN data /\ ~Expired(k)
  /\ lru' = ToFront(lru, k)
  /\ recent' = Touch(k)
  /\ UNCHANGED <<data, currentMemoryBytes, now>>

\* A miss changes nothing; an expired item stays where it is.
GetMiss(k) ==
  /\ k \in DOMAIN data => Expired(k)
  /\ UNCHANGED vars

Get(k) == GetHit(k) \/ GetMiss(k)

\* A plausible bug: the item leaves the map but its node stays linked.
DeleteKeepsNode(k) ==
  /\ IF k \in DOMAIN data
     THEN /\ data' = Restrict(data, DOMAIN data \ {k})
          /\ currentMemoryBytes' =
               currentMemoryBytes - calculateItemSize(k, data[k].value)
     ELSE UNCHANGED <<data, currentMemoryBytes>>
  /\ UNCHANGED <<lru, now, recent>>

Delete(k) ==
  /\ IF k \in DOMAIN data
     THEN /\ data' = Restrict(data, DOMAIN data \ {k})
          /\ lru' = Without(lru, k)
          /\ currentMemoryBytes' =
               currentMemoryBytes - calculateItemSize(k, data[k].value)
     ELSE UNCHANGED <<data, lru, currentMemoryBytes>>
  /\ UNCHANGED <<now, recent>>

\* RemoveNode of each key, in the order in which a map is ranged over: any.
WithoutAll(s, keys) == FoldSet(LAMBDA k, t : Without(t, k), s, keys)

\* Every expired item leaves in one locked pass.
CleanupExpired ==
  LET gone == {k \in DOMAIN data : Expired(k)} IN
  /\ data' = Restrict(data, DOMAIN data \ gone)
  /\ lru' = WithoutAll(lru, gone)
  /\ currentMemoryBytes' = currentMemoryBytes
       - SumFunction([k \in gone |-> calculateItemSize(k, data[k].value)])
  /\ UNCHANGED <<now, recent>>

Tick == now < MaxClock /\ now' = now + 1
        /\ UNCHANGED <<data, lru, currentMemoryBytes, recent>>

\* Nothing in the repository calls CleanupExpired; it is part of the cache all
\* the same.
Next ==
  \/ \E k \in Key : Get(k) \/ Delete(k)
  \/ \E k \in Key, v \in Value, ttl \in TTL : Set(k, v, ttl)
  \/ Tick
  \/ CleanupExpired

Spec == Init /\ [][Next]_vars

--------------------------------------------------------------------------------
TypeOK ==
  /\ DOMAIN data \subseteq Key
  /\ data \in [DOMAIN data -> CacheItem]
  /\ lru \in Seq(Key)
  /\ currentMemoryBytes \in Int
  /\ now \in Nat
  /\ recent \subseteq Key \X Key

(***************************************************************************)
(* The map and the list never drift apart: each stored key has exactly one  *)
(* node.  A node without an item makes Set evict nothing while the map      *)
(* grows past maxSize; an item without a node can never be evicted.         *)
(***************************************************************************)
ListMatchesData == NoDuplicates(lru) /\ Elements(lru) = DOMAIN data

(***************************************************************************)
(* However Set, Delete and CleanupExpired are mixed, the cache holds at     *)
(* most maxSize keys, except that maxSize 0 behaves as 1: Set has nothing   *)
(* to evict from an empty cache and stores the key all the same.            *)
(***************************************************************************)
SizeBounded ==
  Cardinality(DOMAIN data) <= IF MaxSize = 0 THEN 1 ELSE MaxSize

(***************************************************************************)
(* The running total that updates, evictions, deletions and expirations     *)
(* each adjust by a difference is the sum over the stored items.            *)
(***************************************************************************)
MemoryExact ==
  currentMemoryBytes = SumFunction([k \in DOMAIN data |-> calculateItemSize(k, data[k].value)])

\* The list is sorted by the history of uses.  Strengthens EvictsLeastRecent
\* to an inductive invariant.
SortedByUse == SortedBy(lru, recent)

(***************************************************************************)
(* When Set makes room for a new key it drops at most one key, only from a  *)
(* full cache, and every other stored key has been used (written, or read   *)
(* before it expired) more recently than the one dropped.                   *)
(***************************************************************************)
EvictsLeastRecent ==
  [][ DOMAIN data' \ DOMAIN data # {} =>
        \A k \in DOMAIN data \ DOMAIN data' :
          /\ Cardinality(DOMAIN data) >= MaxSize
          /\ \A j \in DOMAIN data \ {k} :
               j \in DOMAIN data' /\ <<j, k>> \in recent ]_vars
================================================================================
