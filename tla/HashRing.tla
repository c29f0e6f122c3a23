-------------------------------- MODULE HashRing --------------------------------
(***************************************************************************)
(* internal/cluster/hash.go and migration.go: the hash ring as a value, its *)
(* operations as functions of it, and the ranges that change hands.         *)
(*                                                                          *)
(* Abstractions.  sha-256 is an arbitrary function: vnode gives the places  *)
(* of a shard's virtual nodes, numbers below 2^32 in the code.  hashValues, *)
(* a sorted slice that may hold a value several times, is a bag: count says *)
(* how often a value occurs.                                                *)
(***************************************************************************)
EXTENDS Integers, FiniteSets, FiniteSetsExt

CONSTANTS Pos,     \* the hash values
          Shard    \* the names that are hashed: shards, and nodes taken for shards

NoShard == "no shard"

\* Hash values are bounded: they have 32 bits.
ASSUME PosAssumption == Pos \subseteq Nat /\ \E top \in Pos : \A p \in Pos : p <= top

\* count is hashValues and owner is hashToShard.
Rings == [count : [Pos -> Nat], owner : [Pos -> Shard \cup {NoShard}]]

EmptyRing == [count |-> [p \in Pos |-> 0], owner |-> [p \in Pos |-> NoShard]]

Places(ring) == {p \in Pos : ring.count[p] > 0}

\* A shard that is there already gets every place a second time.
AddShard(ring, vnode, s) ==
  [count |-> [p \in Pos |-> IF p \in vnode[s] THEN ring.count[p] + 1 ELSE ring.count[p]],
   owner |-> [p \in Pos |-> IF p \in vnode[s] THEN s ELSE ring.owner[p]]]

\* Of every place only one copy goes, but the owner goes with it.
RemoveShard(ring, vnode, s) ==
  [count |-> [p \in Pos |-> IF p \in vnode[s] /\ ring.count[p] > 0 THEN ring.count[p] - 1
                            ELSE ring.count[p]],
   owner |-> [p \in Pos |-> IF p \in vnode[s] THEN NoShard ELSE ring.owner[p]]]

GetAllShards(ring) == {ring.owner[p] : p \in Pos} \ {NoShard}

\* sort.Search: the first place at or after h, around the ring.
FirstFrom(ring, h) ==
  LET above == {p \in Places(ring) : p >= h} IN
  IF above # {} THEN Min(above) ELSE Min(Places(ring))

\* The place before h, around the ring.
LastBefore(ring, h) ==
  LET below == {p \in Places(ring) : p < h} IN
  IF below # {} THEN Max(below) ELSE Max(Places(ring))

\* The element of hashValues after the first one at or after h.
NextFrom(ring, h) ==
  LET p == FirstFrom(ring, h) IN
  IF ring.count[p] > 1 THEN p ELSE FirstFrom(ring, p + 1)

GetShard(ring, h) ==
  IF Places(ring) = {} THEN NoShard ELSE ring.owner[FirstFrom(ring, h)]

\* A plausible bug: ranges do not wrap.
InRangeNoWrap(h, t) == t.start <= h /\ h < t.end

\* hashInRange: [start, end), which wraps when it is not increasing.
InRange(h, t) ==
  IF t.start < t.end THEN t.start <= h /\ h < t.end ELSE t.start <= h \/ h < t.end

\* The ranges that a new shard takes over, one for each of its places.
CalculateMigrations(ring, vnode, s) ==
  {[to |-> s, start |-> LastBefore(ring, v), end |-> v] :
     v \in {u \in vnode[s] : ring.owner[LastBefore(ring, u)] # s}}

\* The ranges that a leaving shard gives up, and to whom.
CalculateMigrationsForRemoval(ring, vnode, s) ==
  IF Places(ring) = {} THEN {}
  ELSE {[to |-> ring.owner[NextFrom(ring, v)], start |-> LastBefore(ring, v), end |-> v] :
          v \in {u \in vnode[s] : ring.owner[NextFrom(ring, u)] # s}}
================================================================================
