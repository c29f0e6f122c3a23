--------------------------- MODULE Persistence_proofs ---------------------------
(***************************************************************************)
(* For any keys, values, TTLs and writers, any policy and any number of     *)
(* writes, jobs, I/O failures, crashes and restarts: what was acknowledged  *)
(* is durable outside the named races, and the files stand for the cache.   *)
(*                                                                          *)
(* Both speak of the files as they are.  The invariant also speaks of what  *)
(* is about to become a file: a job's copy and its temp file (CopiesAgree), *)
(* which stand for the last append or a write whose append is still to come *)
(* (Settled), unless the key was appended since and so is at risk.  That a  *)
(* copy of the cache is right needs the cache to hold the last write not    *)
(* yet logged, or else the last one logged (Served), and that a sync may    *)
(* forget older items needs the whole log to stand for Settled              *)
(* (DiskAgrees).  During recovery the cache is what has been read so far    *)
(* (Recovering).  What a record stands for depends on the time, but once it *)
(* stands for an item it always will (FitsLater).                           *)
(***************************************************************************)
EXTENDS Persistence, FiniteSetTheorems, SequenceTheorems, WellFoundedInduction, TLAPS

--------------------------------------------------------------------------------
\* Records and what they stand for.

\* A restart at time t would find item a in the record, as in Agrees.
StandsFor(t, r, a) ==
  IF r.type = "SET"
  THEN /\ a # None /\ a.value = r.value
       /\ IF r.ttl > 0
          THEN a.expiresAt # Never /\ t + r.ttl * TicksPerSecond + TicksPerSecond > a.expiresAt
          ELSE a.expiresAt = Never
  ELSE a = None \/ (a # None /\ a.expiresAt # Never /\ a.expiresAt < t)

Fits(t, r, A) == \E a \in A : StandsFor(t, r, a)

\* The last record on k of the first m.
IsLast(log, m, k, i) == log[i].key = k /\ \A j \in (i + 1)..m : log[j].key # k

SetFits(t, S, k, A) ==
  /\ \A r \in S : r.key = k => Fits(t, r, A)
  /\ (\A r \in S : r.key # k) => Fits(t, DelRecord(k), A)

FilesFit(t, S, log, m, k, A) ==
  /\ \A i \in 1..m : IsLast(log, m, k, i) => Fits(t, log[i], A)
  /\ (\A i \in 1..m : log[i].key # k) => SetFits(t, S, k, A)

\* A cached item is what the record made of it, now or earlier.
Matches(t, item, r) ==
  IF r.type = "SET"
  THEN /\ item # None /\ item.value = r.value
       /\ IF r.ttl > 0
          THEN item.expiresAt # Never /\ t + r.ttl * TicksPerSecond >= item.expiresAt
          ELSE item.expiresAt = Never
  ELSE item = None

Distinct(S) == \A r, q \in S : r.key = q.key => r = q

Stored(c) == {k \in Key : c[k] # None}

--------------------------------------------------------------------------------
\* The invariant.

\* What a key may be found to be: its last append or a write still to be appended.
Settled(k) ==
  {logged[k]} \cup {effect[u] : u \in {x \in Writer : pc[x] = "append" /\ op[x].key = k}}

\* A writer that has changed the cache has the record of that to append.  One of
\* the writers of a key has changed it last.
Pending ==
  /\ \A w \in Writer : pc[w] = "append" =>
       phase = "up" /\ op[w] \in RecordType /\ Matches(now, effect[w], op[w])
  /\ \A w \in latest : pc[w] = "append"
  /\ \A w, u \in latest : op[w].key = op[u].key => w = u

\* Files and copies are finite and have a key once.
Finite ==
  /\ IsFiniteSet(Stored(cache)) /\ IsFiniteSet(Stored(snap.copy)) /\ IsFiniteSet(Stored(rew.copy))
  /\ IsFiniteSet(snapFile) /\ IsFiniteSet(snap.temp) /\ IsFiniteSet(rew.temp)
  /\ Distinct(snapFile) /\ Distinct(snap.temp) /\ Distinct(rew.temp)

Allowed == \A k \in Key : Settled(k) \subseteq allowed[k]

\* The cache is what its last writer made of it.
Served ==
  phase = "up" => \A k \in Key :
    /\ \A w \in latest : op[w].key = k => cache[k] = effect[w]
    /\ (\A w \in latest : op[w].key # k) /\ k \notin atRisk => cache[k] = logged[k]

\* So is what the jobs have copied of it.
CopiesOf(k) ==
  /\ snap.pc = "copied" => snap.copy[k] \in Settled(k)
  /\ snap.pc = "written" => SetFits(now, snap.temp, k, Settled(k))
  /\ snap.pc = "renamed" => SetFits(now, snapFile, k, Settled(k))
  /\ rew.pc = "copied" => rew.copy[k] \in Settled(k)
  /\ rew.pc = "written" => SetFits(now, rew.temp, k, Settled(k))

CopiesAgree == \A k \in Key \ atRisk : CopiesOf(k)

\* And so are the files, as far as they are on disk and as far as they go.
DiskOf(k) ==
  /\ \A m \in synced..Len(aof) : FilesFit(now, snapFile, aof, m, k, allowed[k])
  /\ phase = "up" \/ synced < Len(aof) => FilesFit(now, snapFile, aof, Len(aof), k, Settled(k))

DiskAgrees == \A k \in Key \ (atRisk \cup forgotten) : DiskOf(k)

\* While the node is down or recovering nothing is written but an early snapshot.
Recovering ==
  /\ phase # "up" => rew.pc = "idle"
  /\ phase = "down" => snap.pc = "idle"
  /\ phase \in {"load", "read", "replay"} =>
       IF early THEN atRisk = Key
       ELSE /\ snap.pc = "idle"
            /\ phase = "replay" => ops = aof
            /\ phase # "load" => \A k \in Key :
                 /\ \A r \in snapFile : r.key = k => Matches(now, cache[k], r)
                 /\ (\A r \in snapFile : r.key # k) => cache[k] = None

DiskInv ==
  /\ TypeOK /\ Pending /\ Finite /\ Allowed
  /\ Served /\ CopiesAgree /\ DiskAgrees /\ Recovering

--------------------------------------------------------------------------------
\* Records.

LEMMA RecordFacts ==
  /\ \A r \in RecordType : /\ r.key \in Key
                           /\ r.type = "SET" => r.value \in Value /\ r.ttl \in Nat
  /\ \A k \in Key : DelRecord(k) \in RecordType /\ DelRecord(k).key = k /\ DelRecord(k).type = "DEL"
  /\ \A k \in Key, v \in Value, ttl \in Nat : SetRecord(k, v, ttl) \in RecordType
  /\ \A k, v, ttl : /\ SetRecord(k, v, ttl).key = k /\ SetRecord(k, v, ttl).type = "SET"
                    /\ SetRecord(k, v, ttl).value = v /\ SetRecord(k, v, ttl).ttl = ttl
  <1>1. \A r \in RecordType : /\ r.key \in Key
                              /\ r.type = "SET" => r.value \in Value /\ r.ttl \in Nat
    BY DEF RecordType
  <1>2. \A k \in Key : DelRecord(k) \in RecordType /\ DelRecord(k).key = k /\ DelRecord(k).type = "DEL"
    BY DEF DelRecord, RecordType
  <1>3. \A k \in Key, v \in Value, ttl \in Nat : SetRecord(k, v, ttl) \in RecordType
    BY DEF SetRecord, RecordType
  <1>4. \A k, v, ttl : /\ SetRecord(k, v, ttl).key = k /\ SetRecord(k, v, ttl).type = "SET"
                       /\ SetRecord(k, v, ttl).value = v /\ SetRecord(k, v, ttl).ttl = ttl
    BY DEF SetRecord
  <1>5. QED
    BY <1>1, <1>2, <1>3, <1>4

\* An item is None or has a value and an expiry.
LEMMA ItemFacts ==
  /\ None \in ItemType
  /\ \A v \in Value, e \in Nat :
       LET item == [value |-> v, expiresAt |-> e] IN item \in ItemType /\ item # None
  /\ \A item \in ItemType : item # None => item.value \in Value /\ item.expiresAt \in Nat
  <1>1. \A v, e : [value |-> v, expiresAt |-> e] # None
    BY DEF None
  <1>2. None \in ItemType
    BY DEF ItemType
  <1>3. \A item \in ItemType : item # None => item.value \in Value /\ item.expiresAt \in Nat
    BY DEF ItemType
  <1>4. \A v \in Value, e \in Nat :
          LET item == [value |-> v, expiresAt |-> e] IN item \in ItemType /\ item # None
    BY <1>1 DEF ItemType
  <1>5. QED
    BY <1>2, <1>3, <1>4

\* A TTL in ticks.
LEMMA TicksFacts ==
  ASSUME NEW r \in RecordType, r.type = "SET"
  PROVE  /\ r.ttl \in Nat /\ r.value \in Value /\ TicksPerSecond \in Nat \ {0}
         /\ r.ttl * TicksPerSecond \in Nat /\ (r.ttl > 0 => r.ttl * TicksPerSecond > 0)
  <1>1. r.value \in Value /\ r.ttl \in Nat /\ TicksPerSecond \in Nat \ {0}
    BY RecordFacts, NumbersAssumption
  <1>2. QED
    BY <1>1

\* What Set and Delete make of a record is what the record stands for.
LEMMA ItemOfFacts ==
  ASSUME now \in Nat, NEW r \in RecordType
  PROVE  /\ ItemOf(r) \in ItemType /\ Matches(now, ItemOf(r), r)
         /\ \A a \in ItemType : StandsFor(now, r, a) => Agrees(ItemOf(r), a)
  <1>1. CASE r.type = "SET"
    <2>1. PICK d : d = r.ttl * TicksPerSecond
      OBVIOUS
    <2>2. /\ r.value \in Value /\ r.ttl \in Nat /\ TicksPerSecond \in Nat \ {0}
          /\ d \in Nat /\ (r.ttl > 0 => d > 0)
      BY <1>1, <2>1, TicksFacts
    <2>3. PICK e : e = IF r.ttl > 0 THEN now + d ELSE Never
      OBVIOUS
    <2>4. e \in Nat /\ (e # Never <=> r.ttl > 0) /\ (r.ttl > 0 => e = now + d)
      BY <2>2, <2>3 DEF Never
    <2>5. PICK item : item = ItemOf(r)
      OBVIOUS
    <2>6. item = [value |-> r.value, expiresAt |-> e]
      BY <1>1, <2>1, <2>3, <2>5 DEF ItemOf
    <2>7. item \in ItemType /\ item # None /\ item.value = r.value /\ item.expiresAt = e
      BY <2>2, <2>4, <2>6, ItemFacts
    <2>8. Matches(now, item, r)
      BY <1>1, <2>1, <2>2, <2>4, <2>7 DEF Matches
    <2>9. ASSUME NEW a \in ItemType, StandsFor(now, r, a) PROVE Agrees(item, a)
      <3>1. /\ a # None /\ a.value = r.value
            /\ r.ttl > 0 => a.expiresAt # Never /\ now + d + TicksPerSecond > a.expiresAt
            /\ ~(r.ttl > 0) => a.expiresAt = Never
        BY <1>1, <2>1, <2>9 DEF StandsFor
      <3>2. a.expiresAt \in Nat
        BY <3>1, ItemFacts
      <3>3. item.expiresAt + TicksPerSecond > a.expiresAt
        BY <2>2, <2>4, <2>7, <3>1, <3>2 DEF Never
      <3>4. QED
        BY <2>4, <2>7, <3>1, <3>3 DEF Agrees
    <2>10. QED
      BY <2>5, <2>7, <2>8, <2>9
  <1>2. CASE r.type # "SET"
    <2>1. ItemOf(r) = None
      BY <1>2 DEF ItemOf
    <2>2. QED
      BY <1>2, <2>1, ItemFacts DEF Matches, StandsFor, Agrees
  <1>3. QED
    BY <1>1, <1>2

\* A record stands for what it made of the cache.
LEMMA MatchesFits ==
  ASSUME NEW t \in Nat, NEW r \in RecordType, NEW item \in ItemType, Matches(t, item, r),
         NEW A, item \in A
  PROVE  Fits(t, r, A)
  <1>1. StandsFor(t, r, item)
    <2>1. CASE r.type = "SET"
      <3>1. PICK d : d = r.ttl * TicksPerSecond
        OBVIOUS
      <3>2. d \in Nat /\ TicksPerSecond \in Nat \ {0}
        BY <2>1, <3>1, TicksFacts
      <3>3. /\ item # None /\ item.value = r.value
            /\ r.ttl > 0 => item.expiresAt # Never /\ t + d >= item.expiresAt
            /\ ~(r.ttl > 0) => item.expiresAt = Never
        BY <2>1, <3>1 DEF Matches
      <3>4. item.expiresAt \in Nat
        BY <3>3, ItemFacts
      <3>5. r.ttl > 0 => t + d + TicksPerSecond > item.expiresAt
        BY <3>2, <3>3, <3>4
      <3>6. QED
        BY <2>1, <3>1, <3>3, <3>5 DEF StandsFor
    <2>2. CASE r.type # "SET"
      BY <2>2 DEF Matches, StandsFor
    <2>3. QED
      BY <2>1, <2>2
  <1>2. QED
    BY <1>1 DEF Fits

--------------------------------------------------------------------------------
\* What the files stand for.

LEMMA FitsMore ==
  ASSUME NEW A, NEW B, A \subseteq B
  PROVE  /\ \A t, r : Fits(t, r, A) => Fits(t, r, B)
         /\ \A t, S, k : SetFits(t, S, k, A) => SetFits(t, S, k, B)
         /\ \A t, S, log, m, k : FilesFit(t, S, log, m, k, A) => FilesFit(t, S, log, m, k, B)
  <1>1. \A t, r : Fits(t, r, A) => Fits(t, r, B)
    BY DEF Fits
  <1>2. \A t, S, k : SetFits(t, S, k, A) => SetFits(t, S, k, B)
    BY <1>1 DEF SetFits
  <1>3. QED
    BY <1>1, <1>2 DEF FilesFit

\* What a record stands for it stands for ever after.
LEMMA FitsLater ==
  ASSUME NEW t \in Nat, NEW A, A \subseteq ItemType, NEW k \in Key
  PROVE  /\ \A r \in RecordType : Fits(t, r, A) => Fits(t + 1, r, A)
         /\ \A S \in SUBSET RecordType : SetFits(t, S, k, A) => SetFits(t + 1, S, k, A)
         /\ \A S \in SUBSET RecordType : \A log \in Seq(RecordType) : \A m \in 0..Len(log) :
              FilesFit(t, S, log, m, k, A) => FilesFit(t + 1, S, log, m, k, A)
         /\ \A r \in RecordType : \A item \in ItemType : Matches(t, item, r) => Matches(t + 1, item, r)
  <1>1. ASSUME NEW r \in RecordType, NEW a \in ItemType
        PROVE  /\ StandsFor(t, r, a) => StandsFor(t + 1, r, a)
               /\ Matches(t, a, r) => Matches(t + 1, a, r)
    <2>1. CASE r.type = "SET"
      <3>1. PICK d : d = r.ttl * TicksPerSecond
        OBVIOUS
      <3>2. d \in Nat /\ TicksPerSecond \in Nat \ {0}
        BY <2>1, <3>1, TicksFacts
      <3>3. a # None => a.expiresAt \in Nat
        BY ItemFacts
      <3>4. QED
        BY <2>1, <3>1, <3>2, <3>3 DEF StandsFor, Matches
    <2>2. CASE r.type # "SET"
      <3>1. a # None => a.expiresAt \in Nat
        BY ItemFacts
      <3>2. QED
        BY <2>2, <3>1 DEF StandsFor, Matches
    <2>3. QED
      BY <2>1, <2>2
  <1>2. ASSUME NEW r \in RecordType, Fits(t, r, A) PROVE Fits(t + 1, r, A)
    BY <1>1, <1>2 DEF Fits
  <1>3. ASSUME NEW S \in SUBSET RecordType, SetFits(t, S, k, A) PROVE SetFits(t + 1, S, k, A)
    <2>1. DelRecord(k) \in RecordType
      BY RecordFacts
    <2>2. QED
      BY <1>2, <1>3, <2>1 DEF SetFits
  <1>4. ASSUME NEW S \in SUBSET RecordType, NEW log \in Seq(RecordType), NEW m \in 0..Len(log),
               FilesFit(t, S, log, m, k, A)
        PROVE  FilesFit(t + 1, S, log, m, k, A)
    <2>1. \A i \in 1..m : log[i] \in RecordType
      OBVIOUS
    <2>2. QED
      BY <1>2, <1>3, <1>4, <2>1 DEF FilesFit
  <1>5. QED
    BY <1>1, <1>2, <1>3, <1>4

\* Another snapshot that fits.
LEMMA FitsWithSnapshot ==
  ASSUME NEW t, NEW S, NEW T, NEW log, NEW m, NEW k, NEW A, FilesFit(t, S, log, m, k, A),
         SetFits(t, T, k, A)
  PROVE  FilesFit(t, T, log, m, k, A)
  BY DEF FilesFit

\* An empty log.
LEMMA FitsWithoutLog ==
  ASSUME NEW t, NEW S, NEW log, NEW k, NEW A, SetFits(t, S, k, A)
  PROVE  FilesFit(t, S, log, 0, k, A)
  BY DEF FilesFit

\* One more record.
LEMMA FitsAppended ==
  ASSUME NEW u, NEW S, NEW log \in Seq(RecordType), NEW r \in RecordType, NEW k, NEW A
  PROVE  /\ \A m \in 0..Len(log) : FilesFit(u, S, log, m, k, A) => FilesFit(u, S, Append(log, r), m, k, A)
         /\ r.key = k /\ Fits(u, r, A) => FilesFit(u, S, Append(log, r), Len(log) + 1, k, A)
         /\ r.key # k /\ FilesFit(u, S, log, Len(log), k, A) =>
              FilesFit(u, S, Append(log, r), Len(log) + 1, k, A)
  <1>1. PICK n \in Nat : n = Len(log)
    OBVIOUS
  <1>2. PICK t : t = Append(log, r)
    OBVIOUS
  <1>3. t[n + 1] = r /\ \A i \in 1..n : t[i] = log[i]
    BY <1>1, <1>2
  <1>4. ASSUME NEW m \in 0..n, FilesFit(u, S, log, m, k, A)
        PROVE  FilesFit(u, S, t, m, k, A)
    BY <1>3, <1>4 DEF FilesFit, IsLast
  <1>5. ASSUME r.key = k, Fits(u, r, A)
        PROVE  FilesFit(u, S, t, n + 1, k, A)
    <2>1. ASSUME NEW i \in 1..(n + 1), IsLast(t, n + 1, k, i) PROVE Fits(u, t[i], A)
      <3>1. i = n + 1
        BY <1>3, <1>5, <2>1 DEF IsLast
      <3>2. QED
        BY <1>3, <1>5, <3>1
    <2>2. QED
      BY <1>3, <1>5, <2>1 DEF FilesFit
  <1>6. ASSUME r.key # k, FilesFit(u, S, log, n, k, A)
        PROVE  FilesFit(u, S, t, n + 1, k, A)
    <2>1. ASSUME NEW i \in 1..(n + 1), IsLast(t, n + 1, k, i) PROVE Fits(u, t[i], A)
      <3>1. i \in 1..n /\ t[i] = log[i]
        BY <1>3, <1>6, <2>1 DEF IsLast
      <3>2. IsLast(log, n, k, i)
        BY <1>3, <2>1, <3>1 DEF IsLast
      <3>3. QED
        BY <1>6, <3>1, <3>2 DEF FilesFit
    <2>2. (\A i \in 1..(n + 1) : t[i].key # k) => SetFits(u, S, k, A)
      BY <1>3, <1>6 DEF FilesFit
    <2>3. QED
      BY <2>1, <2>2 DEF FilesFit
  <1>7. QED
    BY <1>1, <1>2, <1>4, <1>5, <1>6

\* A prefix of the log.
LEMMA FitsPrefix ==
  ASSUME NEW u, NEW S, NEW log \in Seq(RecordType), NEW m \in 0..Len(log), NEW k, NEW A,
         FilesFit(u, S, log, m, k, A)
  PROVE  FilesFit(u, S, SubSeq(log, 1, m), m, k, A)
  <1>1. PICK t : t = SubSeq(log, 1, m)
    OBVIOUS
  <1>2. \A i \in 1..m : t[i] = log[i]
    BY <1>1
  <1>3. QED
    BY <1>1, <1>2 DEF FilesFit, IsLast

\* A finite set is enumerated by SetToSeq.
LEMMA SetToSeqFacts ==
  ASSUME NEW S, IsFiniteSet(S)
  PROVE  /\ SetToSeq(S) \in Seq(S)
         /\ \A y \in S : \E i \in 1..Len(SetToSeq(S)) : SetToSeq(S)[i] = y
  <1>1. Cardinality(S) \in Nat /\ ExistsBijection(1..Cardinality(S), S)
    BY FS_CardinalityType
  <1>2. PICK n \in Nat : n = Cardinality(S)
    BY <1>1
  <1>3. PICK g : g \in Bijection(1..n, S)
    BY <1>1, <1>2 DEF ExistsBijection
  <1>4. g \in [1..n -> S] /\ IsInjective(g)
    BY <1>3 DEF Bijection, Injection
  <1>5. PICK f : f = SetToSeq(S)
    OBVIOUS
  <1>6. f \in [1..n -> S] /\ IsInjective(f)
    BY <1>2, <1>4, <1>5 DEF SetToSeq
  <1>7. f \in Injection(1..n, S)
    BY <1>6 DEF Injection
  <1>8. Cardinality(1..n) = n
    BY <1>2, FS_Interval
  <1>9. f \in Surjection(1..n, S)
    BY <1>2, <1>7, <1>8, FS_Injection
  <1>10. f \in Seq(S) /\ Len(f) = n
    BY <1>6
  <1>11. QED
    BY <1>5, <1>9, <1>10 DEF Surjection

\* The log a rewrite leaves, unless the snapshot has a key that the log has not.
LEMMA FitsRewritten ==
  ASSUME NEW u, NEW S, NEW T, IsFiniteSet(T), NEW k, NEW A, SetFits(u, T, k, A),
         k \notin KeysOf(S) \ KeysOf(T)
  PROVE  FilesFit(u, S, SetToSeq(T), Len(SetToSeq(T)), k, A)
  <1>1. PICK t : t = SetToSeq(T)
    OBVIOUS
  <1>2. PICK n \in Nat : n = Len(t)
    BY <1>1, SetToSeqFacts
  <1>3. (\A i \in 1..n : t[i] \in T) /\ \A r \in T : \E i \in 1..n : t[i] = r
    BY <1>1, <1>2, SetToSeqFacts
  <1>4. \A i \in 1..n : IsLast(t, n, k, i) => Fits(u, t[i], A)
    BY <1>3 DEF IsLast, SetFits
  <1>5. ASSUME \A i \in 1..n : t[i].key # k
        PROVE  SetFits(u, S, k, A)
    <2>1. \A r \in T : r.key # k
      BY <1>3, <1>5
    <2>2. \A r \in S : r.key # k
      BY <2>1 DEF KeysOf
    <2>3. QED
      BY <2>1, <2>2 DEF SetFits
  <1>6. QED
    BY <1>1, <1>2, <1>4, <1>5 DEF FilesFit

\* A set of naturals below a bound has a greatest element.
LEMMA GreatestNat ==
  ASSUME NEW n \in Nat, NEW S, S \subseteq 0..n, S # {}
  PROVE  Max(S) \in S /\ \A x \in S : x <= Max(S)
  <1> DEFINE D == {d \in 0..n : n - d \in S}
  <1>1. D \subseteq Nat /\ D # {}
    <2>1. PICK x \in S : TRUE
      OBVIOUS
    <2>2. n - x \in 0..n /\ n - (n - x) = x
      OBVIOUS
    <2>3. n - x \in D
      BY <2>2
    <2>4. D \subseteq Nat
      OBVIOUS
    <2> HIDE DEF D
    <2>5. QED
      BY <2>3, <2>4
  <1>2. PICK d \in D : \A y \in D : ~(<<y, d>> \in OpToRel(<, Nat))
    BY <1>1, NatLessThanWellFounded, WFMin, Zenon
  <1>3. \A y \in D : d <= y
    <2> HIDE DEF D
    <2>1. d \in Nat /\ \A y \in D : y \in Nat /\ ~(y < d)
      BY <1>1, <1>2 DEF OpToRel
    <2>2. QED
      BY <2>1
  <1>4. n - d \in S
    OBVIOUS
  <1>5. \A x \in S : n - d >= x
    <2> SUFFICES ASSUME NEW x \in S PROVE n - d >= x
      OBVIOUS
    <2>1. x \in 0..n /\ n - x \in 0..n /\ n - (n - x) = x
      OBVIOUS
    <2>2. n - x \in D
      BY <2>1
    <2>3. d <= n - x /\ d \in 0..n
      BY <1>3, <2>2
    <2>4. QED
      BY <2>1, <2>3
  <1>6. \E x \in S : \A y \in S : x >= y
    BY <1>4, <1>5
  <1>7. PICK g : g = Max(S)
    OBVIOUS
  <1>8. g \in S /\ \A y \in S : g >= y
    BY <1>6, <1>7 DEF Max
  <1>9. QED
    BY <1>7, <1>8

\* LastOn finds the last record on a key, or 0.
LEMMA LastOnFacts ==
  ASSUME NEW log \in Seq(RecordType), NEW k
  PROVE  /\ LastOn(log, k) \in 0..Len(log)
         /\ LastOn(log, k) = 0 => \A i \in 1..Len(log) : log[i].key # k
         /\ LastOn(log, k) # 0 => IsLast(log, Len(log), k, LastOn(log, k))
  <1> DEFINE S == {0} \cup {i \in 1..Len(log) : log[i].key = k}
  <1>1. Len(log) \in Nat /\ S \subseteq 0..Len(log) /\ S # {}
    OBVIOUS
  <1>2. PICK x : x = LastOn(log, k)
    OBVIOUS
  <1>3. x \in S /\ \A y \in S : y <= x
    <2> HIDE DEF S
    <2>1. Max(S) \in S /\ \A y \in S : y <= Max(S)
      BY <1>1, GreatestNat
    <2>2. x = Max(S)
      BY <1>2 DEF LastOn, S
    <2>3. QED
      BY <2>1, <2>2
  <1>4. QED
    BY <1>1, <1>2, <1>3 DEF IsLast

\* The snapshot's record of a key.
LEMMA LoadFacts ==
  ASSUME now \in Nat, NEW S, S \subseteq RecordType, NEW k \in Key
  PROVE  /\ LoadSnapshot(S)[k] \in ItemType
         /\ (\A r \in S : r.key # k) => LoadSnapshot(S)[k] = None
         /\ (\E r \in S : r.key = k) => \E r \in S : r.key = k /\ LoadSnapshot(S)[k] = ItemOf(r)
  <1>1. LoadSnapshot(S)[k] = IF \E r \in S : r.key = k THEN ItemOf(CHOOSE r \in S : r.key = k) ELSE None
    BY DEF LoadSnapshot
  <1>2. CASE \E r \in S : r.key = k
    <2>1. PICK r : r = CHOOSE q \in S : q.key = k
      OBVIOUS
    <2>2. r \in S /\ r.key = k
      BY <1>2, <2>1
    <2>3. LoadSnapshot(S)[k] = ItemOf(r)
      BY <1>1, <1>2, <2>1
    <2>4. QED
      BY <2>2, <2>3, <1>2, ItemOfFacts
  <1>3. CASE ~\E r \in S : r.key = k
    BY <1>1, <1>3, ItemFacts
  <1>4. QED
    BY <1>2, <1>3

\* What a restart would make of files that fit.
LEMMA RecoveredFits ==
  ASSUME now \in Nat, NEW S, S \subseteq RecordType, NEW log \in Seq(RecordType), NEW k \in Key,
         NEW A, A \subseteq ItemType, FilesFit(now, S, log, Len(log), k, A)
  PROVE  \E a \in A : Agrees(Replay(LoadSnapshot(S), log)[k], a)
  <1>1. PICK x : x = LastOn(log, k)
    OBVIOUS
  <1>2. PICK item : item = Replay(LoadSnapshot(S), log)[k]
    OBVIOUS
  <1>3. item = IF x = 0 THEN LoadSnapshot(S)[k] ELSE ItemOf(log[x])
    BY <1>1, <1>2 DEF Replay
  <1>4. ASSUME NEW r \in RecordType, Fits(now, r, A), item = ItemOf(r)
        PROVE  \E a \in A : Agrees(item, a)
    <2>1. PICK a \in A : StandsFor(now, r, a)
      BY <1>4 DEF Fits
    <2>2. QED
      BY <1>4, <2>1, ItemOfFacts
  <1>5. CASE x # 0
    <2>1. x \in 1..Len(log) /\ IsLast(log, Len(log), k, x)
      BY <1>1, <1>5, LastOnFacts
    <2>2. Fits(now, log[x], A) /\ log[x] \in RecordType
      BY <2>1 DEF FilesFit
    <2>3. QED
      BY <1>2, <1>3, <1>4, <1>5, <2>2
  <1>6. CASE x = 0
    <2>1. SetFits(now, S, k, A)
      BY <1>1, <1>6, LastOnFacts DEF FilesFit
    <2>2. CASE \E r \in S : r.key = k
      <3>1. PICK r \in S : r.key = k /\ LoadSnapshot(S)[k] = ItemOf(r)
        BY <2>2, LoadFacts
      <3>2. QED
        BY <1>2, <1>3, <1>4, <1>6, <2>1, <3>1 DEF SetFits
    <2>3. CASE \A r \in S : r.key # k
      <3>1. item = None
        BY <1>3, <1>6, <2>3, LoadFacts
      <3>2. Fits(now, DelRecord(k), A) /\ DelRecord(k) \in RecordType /\ DelRecord(k).type = "DEL"
        BY <2>1, <2>3, RecordFacts DEF SetFits
      <3>3. ItemOf(DelRecord(k)) = None
        BY <3>2 DEF ItemOf
      <3>4. QED
        BY <1>2, <1>4, <3>1, <3>2, <3>3
    <2>4. QED
      BY <2>2, <2>3
  <1>7. QED
    BY <1>5, <1>6

\* The records a job writes for a copy.
LEMMA RecordsFacts ==
  ASSUME now \in Nat, NEW c \in [Key -> ItemType], IsFiniteSet(Stored(c))
  PROVE  /\ Records(c) \subseteq RecordType /\ IsFiniteSet(Records(c)) /\ Distinct(Records(c))
         /\ \A k \in Key \ InLastSecond(c) : \A A : c[k] \in A => SetFits(now, Records(c), k, A)
  <1> DEFINE ttl(k) == IF c[k].expiresAt = Never THEN 0 ELSE Remaining(c[k]) \div TicksPerSecond
             K == {j \in Key : Live(c[j])}
             f == [k \in K |-> SetRecord(k, c[k].value, ttl(k))]
             R == Records(c)
  <1>1. R = {SetRecord(k, c[k].value, ttl(k)) : k \in K}
    BY DEF Records
  <1>2. ASSUME NEW k \in K
        PROVE  /\ c[k] # None /\ c[k].value \in Value /\ ttl(k) \in Nat
               /\ k \notin InLastSecond(c) => (ttl(k) > 0 <=> c[k].expiresAt # Never)
               /\ c[k].expiresAt # Never =>
                    now + ttl(k) * TicksPerSecond + TicksPerSecond > c[k].expiresAt
    <2>1. c[k] \in ItemType /\ c[k] # None
      BY DEF Live
    <2>2. c[k].value \in Value /\ c[k].expiresAt \in Nat
      BY <2>1, ItemFacts
    <2>3. PICK d \in Int : d = Remaining(c[k])
      BY <2>2 DEF Remaining
    <2>4. c[k].expiresAt # Never => d \in Nat
      BY <2>3 DEF Live
    <2>5. TicksPerSecond \in Nat \ {0}
      BY NumbersAssumption
    <2>6. d \in Nat => d \div TicksPerSecond \in Nat
      BY <2>5
    <2>7. d \in Nat /\ d >= TicksPerSecond => d \div TicksPerSecond > 0
      BY <2>5
    <2>8. k \notin InLastSecond(c) /\ c[k].expiresAt # Never => d >= TicksPerSecond
      BY <2>3, <2>5 DEF InLastSecond
    <2>9. ASSUME c[k].expiresAt # Never
          PROVE  now + ttl(k) * TicksPerSecond + TicksPerSecond > c[k].expiresAt
      <3>1. PICK q : q = d \div TicksPerSecond
        OBVIOUS
      <3>2. PICK e : e = c[k].expiresAt
        OBVIOUS
      <3>3. d \in Nat /\ q \in Nat /\ e \in Nat /\ d = e - now
        BY <2>2, <2>3, <2>4, <2>6, <2>9, <3>1, <3>2 DEF Remaining
      <3>4. q * TicksPerSecond + TicksPerSecond > d
        BY <2>5, <3>1, <3>3
      <3>5. q * TicksPerSecond \in Nat
        BY <2>5, <3>3
      <3>6. now + q * TicksPerSecond + TicksPerSecond > e
        BY <2>5, <3>3, <3>4, <3>5
      <3>7. ttl(k) = q
        BY <2>3, <2>9, <3>1
      <3>8. QED
        BY <3>2, <3>6, <3>7
    <2>10. QED
      BY <2>1, <2>2, <2>3, <2>4, <2>6, <2>7, <2>8, <2>9
  <1>3. K \subseteq Stored(c) /\ IsFiniteSet(K)
    BY FS_Subset DEF Stored, Live
  <1>4. f \in Surjection(K, R)
    BY <1>1 DEF Surjection
  <1>5. IsFiniteSet(R)
    BY <1>3, <1>4, FS_Surjection
  <1> HIDE DEF K, f, R
  <1>6. R \subseteq RecordType
    <2> SUFFICES ASSUME NEW r \in R PROVE r \in RecordType
      OBVIOUS
    <2>1. PICK k \in K : r = SetRecord(k, c[k].value, ttl(k))
      BY <1>1
    <2>2. k \in Key
      BY DEF K
    <2> HIDE DEF ttl
    <2>3. QED
      BY <1>2, <2>1, <2>2, RecordFacts
  <1>7. Distinct(R)
    <2> HIDE DEF ttl
    <2>1. \A r \in R : r.key \in K /\ r = SetRecord(r.key, c[r.key].value, ttl(r.key))
      BY <1>1, RecordFacts
    <2>2. QED
      BY <2>1 DEF Distinct
  <1>8. ASSUME NEW k \in Key \ InLastSecond(c), NEW A, c[k] \in A
        PROVE  SetFits(now, R, k, A)
    <2>1. ASSUME NEW r \in R, r.key = k PROVE Fits(now, r, A)
      <3> HIDE DEF ttl
      <3>1. k \in K /\ r = SetRecord(k, c[k].value, ttl(k))
        BY <1>1, <2>1, RecordFacts
      <3>2. r.type = "SET" /\ r.value = c[k].value /\ r.ttl = ttl(k)
        BY <3>1, RecordFacts
      <3>3. /\ c[k] # None /\ (ttl(k) > 0 <=> c[k].expiresAt # Never)
            /\ c[k].expiresAt # Never =>
                 now + ttl(k) * TicksPerSecond + TicksPerSecond > c[k].expiresAt
        BY <1>2, <3>1
      <3>4. StandsFor(now, r, c[k])
        BY <3>2, <3>3 DEF StandsFor
      <3>5. QED
        BY <1>8, <3>4 DEF Fits
    <2>2. ASSUME \A r \in R : r.key # k PROVE Fits(now, DelRecord(k), A)
      <3>1. k \notin K
        <4> SUFFICES ASSUME k \in K PROVE FALSE
          OBVIOUS
        <4> HIDE DEF ttl
        <4>1. SetRecord(k, c[k].value, ttl(k)) \in R
          BY <1>1
        <4>2. QED
          BY <2>2, <4>1, RecordFacts
      <3>2. DelRecord(k).type = "DEL"
        BY RecordFacts
      <3>3. c[k] # None => c[k].expiresAt # Never /\ c[k].expiresAt < now
        <4> SUFFICES ASSUME c[k] # None PROVE c[k].expiresAt # Never /\ c[k].expiresAt < now
          OBVIOUS
        <4>1. c[k].expiresAt \in Nat
          BY ItemFacts
        <4>2. ~Live(c[k])
          BY <3>1 DEF K
        <4>3. QED
          BY <4>1, <4>2 DEF Live, Remaining
      <3>4. StandsFor(now, DelRecord(k), c[k])
        BY <3>2, <3>3 DEF StandsFor
      <3>5. QED
        BY <1>8, <3>4 DEF Fits
    <2>3. QED
      BY <2>1, <2>2 DEF SetFits
  <1>9. QED
    BY <1>5, <1>6, <1>7, <1>8 DEF R

--------------------------------------------------------------------------------
\* Types.

SnapPc == {"idle", "copied", "written", "renamed"}
RewPc == {"idle", "started", "copied", "written", "done"}

LEMMA EmptyFacts ==
  /\ Empty \in [Key -> ItemType] /\ Stored(Empty) = {} /\ IsFiniteSet(Stored(Empty))
  /\ IdleJob.pc = "idle" /\ IdleJob.copy = Empty /\ IdleJob.temp = {}
  /\ \A P : "idle" \in P => IdleJob \in JobType(P)
  /\ \A P : "done" \in P => [IdleJob EXCEPT !.pc = "done"] \in JobType(P)
  /\ LET j == [IdleJob EXCEPT !.pc = "done"] IN j.pc = "done" /\ j.copy = Empty /\ j.temp = {}
  <1>1. Empty \in [Key -> ItemType] /\ Stored(Empty) = {}
    BY DEF Empty, ItemType, Stored
  <1>2. QED
    BY <1>1, FS_EmptySet DEF IdleJob, JobType

\* The steps of a job.
LEMMA JobFacts ==
  ASSUME NEW P, NEW j \in JobType(P)
  PROVE  /\ j.pc \in P /\ j.copy \in [Key -> ItemType] /\ j.temp \subseteq RecordType
         /\ \A q \in P : LET i == [j EXCEPT !.pc = q] IN
              i \in JobType(P) /\ i.pc = q /\ i.copy = j.copy /\ i.temp = j.temp
         /\ \A q \in P : \A c \in [Key -> ItemType] : LET i == [j EXCEPT !.pc = q, !.copy = c] IN
              i \in JobType(P) /\ i.pc = q /\ i.copy = c /\ i.temp = j.temp
         /\ \A q \in P : \A T \in SUBSET RecordType : LET i == [j EXCEPT !.pc = q, !.copy = Empty, !.temp = T] IN
              i \in JobType(P) /\ i.pc = q /\ i.copy = Empty /\ i.temp = T
         /\ \A q \in P : LET i == [j EXCEPT !.pc = q, !.temp = {}] IN
              i \in JobType(P) /\ i.pc = q /\ i.copy = j.copy /\ i.temp = {}
  BY EmptyFacts DEF JobType

\* The fields of a job after each step of it.
LEMMA JobSteps ==
  ASSUME TypeOK
  PROVE  /\ SnapshotCopy => snap'.pc = "copied" /\ snap'.copy = cache /\ snap'.temp = snap.temp
         /\ SnapshotWrite => snap'.pc = "written" /\ snap'.copy = Empty /\ snap'.temp = Records(snap.copy)
         /\ SnapshotRename => snap'.pc = "renamed" /\ snap'.copy = snap.copy /\ snap'.temp = {}
         /\ RewriteCopy => rew'.pc = "copied" /\ rew'.copy = cache /\ rew'.temp = rew.temp
         /\ RewriteWrite => rew'.pc = "written" /\ rew'.copy = Empty /\ rew'.temp = Records(rew.copy)
         /\ \A w \in Writer : LogWrite(w) =>
              (rew'.pc = rew.pc \/ rew'.pc = "started") /\ rew'.copy = rew.copy /\ rew'.temp = rew.temp
  <1>1. snap \in JobType(SnapPc) /\ rew \in JobType(RewPc)
    BY DEF TypeOK, SnapPc, RewPc
  <1>2. SnapshotCopy => snap'.pc = "copied" /\ snap'.copy = cache /\ snap'.temp = snap.temp
    BY <1>1 DEF SnapshotCopy, JobType
  <1>3. SnapshotWrite => snap'.pc = "written" /\ snap'.copy = Empty /\ snap'.temp = Records(snap.copy)
    BY <1>1 DEF SnapshotWrite, JobType
  <1>4. SnapshotRename => snap'.pc = "renamed" /\ snap'.copy = snap.copy /\ snap'.temp = {}
    BY <1>1 DEF SnapshotRename, JobType
  <1>5. RewriteCopy => rew'.pc = "copied" /\ rew'.copy = cache /\ rew'.temp = rew.temp
    BY <1>1 DEF RewriteCopy, JobType
  <1>6. RewriteWrite => rew'.pc = "written" /\ rew'.copy = Empty /\ rew'.temp = Records(rew.copy)
    BY <1>1 DEF RewriteWrite, JobType
  <1>7. ASSUME NEW w \in Writer, LogWrite(w)
        PROVE  (rew'.pc = rew.pc \/ rew'.pc = "started") /\ rew'.copy = rew.copy /\ rew'.temp = rew.temp
    <2>1. rew' = rew \/ rew' = [rew EXCEPT !.pc = "started"]
      BY <1>7 DEF LogWrite, AppendOp, AppendFails, CheckRewriteTrigger
    <2>2. QED
      BY <1>1, <2>1 DEF JobType
  <1>8. QED
    BY <1>2, <1>3, <1>4, <1>5, <1>6, <1>7

LEMMA WriteFacts ==
  ASSUME NEW w \in Writer, Write(w)
  PROVE  \E r \in RecordType : CacheWrite(w, r)
  <1>1. PICK k \in Key : \/ CacheWrite(w, DelRecord(k))
                        \/ \E v \in Value, ttl \in TTL : CacheWrite(w, SetRecord(k, v, ttl))
    BY DEF Write
  <1>2. CASE CacheWrite(w, DelRecord(k))
    BY <1>2, RecordFacts
  <1>3. ASSUME NEW v \in Value, NEW ttl \in TTL, CacheWrite(w, SetRecord(k, v, ttl))
        PROVE  \E r \in RecordType : CacheWrite(w, r)
    <2>1. SetRecord(k, v, ttl) \in RecordType
      BY RecordFacts, NumbersAssumption
    <2>2. QED
      BY <1>3, <2>1
  <1>4. QED
    BY <1>1, <1>2, <1>3

LEMMA SettledTyped ==
  ASSUME TypeOK, NEW lg \in [Key -> ItemType], NEW p
  PROVE  SettledBy(lg, p) \in [Key -> SUBSET ItemType]
  <1>1. \A u \in Writer : effect[u] \in ItemType
    BY DEF TypeOK
  <1>2. QED
    BY <1>1 DEF SettledBy

\* What the process has of a write that is being logged.
LEMMA AppendingFacts ==
  ASSUME TypeOK, Pending, NEW w \in Writer, Appending(w)
  PROVE  /\ op[w] \in RecordType /\ op[w].key \in Key /\ pc[w] = "append" /\ phase = "up"
         /\ Matches(now, effect[w], op[w]) /\ effect[w] \in ItemType
         /\ \A u \in Writer : IF u = w THEN pc'[u] = "idle"
              ELSE pc'[u] = pc[u] /\ op'[u] = op[u] /\ effect'[u] = effect[u]
         /\ UNCHANGED <<policy, phase, cache, now, aofOpen, snapFile, snap, ops, early>>
         /\ latest' = latest \ {w}
         /\ pc' \in [Writer -> {"idle", "append"}] /\ op' \in [Writer -> RecordType \cup {NoRecord}]
         /\ effect' \in [Writer -> ItemType] /\ latest' \subseteq Writer
  <1>1. pc[w] = "append" /\ phase = "up"
    BY DEF Appending
  <1>2. op[w] \in RecordType /\ op[w].key \in Key /\ Matches(now, effect[w], op[w])
    BY <1>1, RecordFacts DEF Pending
  <1>3. effect[w] \in ItemType
    BY DEF TypeOK
  <1>4. \A u \in Writer : IF u = w THEN pc'[u] = "idle"
          ELSE pc'[u] = pc[u] /\ op'[u] = op[u] /\ effect'[u] = effect[u]
    BY DEF Appending, TypeOK
  <1>5. UNCHANGED <<policy, phase, cache, now, aofOpen, snapFile, snap, ops, early>>
    BY DEF Appending
  <1>6. /\ pc' \in [Writer -> {"idle", "append"}] /\ op' \in [Writer -> RecordType \cup {NoRecord}]
        /\ effect' \in [Writer -> ItemType] /\ latest' \subseteq Writer /\ latest' = latest \ {w}
    BY ItemFacts DEF Appending, TypeOK
  <1>7. QED
    BY <1>1, <1>2, <1>3, <1>4, <1>5, <1>6

LEMMA ReplayTyped ==
  ASSUME now \in Nat, NEW c \in [Key -> ItemType], NEW log \in Seq(RecordType)
  PROVE  Replay(c, log) \in [Key -> ItemType]
  <1> SUFFICES ASSUME NEW k \in Key
               PROVE  (IF LastOn(log, k) = 0 THEN c[k] ELSE ItemOf(log[LastOn(log, k)])) \in ItemType
    BY DEF Replay
  <1>1. PICK x : x = LastOn(log, k)
    OBVIOUS
  <1>2. x \in 0..Len(log)
    BY <1>1, LastOnFacts
  <1>3. x # 0 => log[x] \in RecordType
    BY <1>2
  <1>4. QED
    BY <1>1, <1>3, ItemOfFacts

LEMMA TypedNext ==
  ASSUME TypeOK, Pending, Finite, [Next]_vars
  PROVE  TypeOK'
  <1>1. /\ snap \in JobType(SnapPc) /\ rew \in JobType(RewPc)
        /\ now \in Nat /\ cache \in [Key -> ItemType] /\ snapFile \subseteq RecordType
        /\ aof \in Seq(RecordType) /\ Len(aof) \in Nat /\ synced \in 0..Len(aof) /\ ops \in Seq(RecordType)
    BY DEF TypeOK, SnapPc, RewPc
  <1>2. ASSUME NEW w \in Writer, Write(w) PROVE TypeOK'
    <2>1. PICK r \in RecordType : CacheWrite(w, r)
      BY <1>2, WriteFacts
    <2>2. ItemOf(r) \in ItemType /\ r.key \in Key
      BY <1>1, ItemOfFacts, RecordFacts
    <2>3. cache' \in [Key -> ItemType]
      BY <1>1, <2>1, <2>2 DEF CacheWrite
    <2>4. /\ allowed' \in [Key -> SUBSET ItemType]
          /\ effect' \in [Writer -> ItemType] /\ latest' \subseteq Writer
      BY <2>1, <2>2 DEF CacheWrite, TypeOK
    <2>5. pc' \in [Writer -> {"idle", "append"}] /\ op' \in [Writer -> RecordType \cup {NoRecord}]
      BY <2>1 DEF CacheWrite, TypeOK
    <2>6. QED
      BY <2>1, <2>3, <2>4, <2>5 DEF CacheWrite, TypeOK, files, jobs
  <1>3. ASSUME NEW w \in Writer, LogWrite(w) PROVE TypeOK'
    <2>1. Appending(w)
      BY <1>3 DEF LogWrite, AppendOp, AppendFails
    <2>2. PICK r : r = op[w]
      OBVIOUS
    <2>3. /\ r \in RecordType /\ r.key \in Key /\ effect[w] \in ItemType
          /\ UNCHANGED <<policy, phase, cache, now, aofOpen, snapFile, snap, ops, early>>
          /\ pc' \in [Writer -> {"idle", "append"}] /\ op' \in [Writer -> RecordType \cup {NoRecord}]
          /\ effect' \in [Writer -> ItemType] /\ latest' \subseteq Writer
      BY <2>1, <2>2, AppendingFacts
    <2>4. ASSUME NEW f \in BOOLEAN, AppendOp(w, f) PROVE TypeOK'
      <3>1. aof' = Append(aof, r)
        BY <2>2, <2>4 DEF AppendOp, Appended
      <3>2. aof' \in Seq(RecordType) /\ Len(aof') = Len(aof) + 1
        BY <1>1, <2>3, <3>1
      <3>3. synced' \in 0..Len(aof')
        BY <1>1, <2>4, <3>2 DEF AppendOp
      <3>4. rew' \in JobType(RewPc)
        <4>1. rew' = rew \/ rew' = [rew EXCEPT !.pc = "started"]
          BY <2>4 DEF AppendOp, CheckRewriteTrigger
        <4>2. "started" \in RewPc
          BY DEF RewPc
        <4>3. [rew EXCEPT !.pc = "started"] \in JobType(RewPc)
          BY <1>1, <4>2, JobFacts
        <4>4. QED
          BY <1>1, <4>1, <4>3
      <3>5. lastRewriteSize' \in Nat
        BY <1>1, <2>4, <3>2 DEF AppendOp, CheckRewriteTrigger, TypeOK
      <3>6. logged' \in [Key -> ItemType]
        BY <2>2, <2>3, <2>4 DEF AppendOp, TypeOK
      <3>7. allowed' \in [Key -> SUBSET ItemType]
        <4>1. allowed' = SettledBy(logged', pc') \/ allowed' = allowed
          BY <2>4 DEF AppendOp
        <4>2. SettledBy(logged', pc') \in [Key -> SUBSET ItemType]
          BY <3>6, SettledTyped
        <4>3. QED
          BY <4>1, <4>2 DEF TypeOK
      <3>8. atRisk' \subseteq Key /\ forgotten' \subseteq Key
        BY <2>2, <2>3, <2>4 DEF AppendOp, TypeOK
      <3>9. aofMu' = aofMu
        BY <2>1 DEF Appending
      <3>10. QED
        BY <2>3, <3>2, <3>3, <3>4, <3>5, <3>6, <3>7, <3>8, <3>9 DEF TypeOK, RewPc
    <2>5. CASE AppendFails(w)
      <3>1. atRisk' \subseteq Key /\ UNCHANGED <<aof, synced, rew, lastRewriteSize, logged, allowed, forgotten>>
        BY <2>2, <2>3, <2>5 DEF AppendFails, TypeOK
      <3>2. aofMu' = aofMu
        BY <2>1 DEF Appending
      <3>3. QED
        BY <2>3, <3>1, <3>2 DEF TypeOK
    <2>6. QED
      BY <1>3, <2>4, <2>5 DEF LogWrite
  <1>4. CASE PeriodicSync
    <2>1. SettledBy(logged, pc) \in [Key -> SUBSET ItemType]
      BY SettledTyped DEF TypeOK
    <2>2. QED
      BY <1>1, <1>4, <2>1 DEF PeriodicSync, TypeOK, jobs
  <1>5. CASE Tick
    BY <1>5 DEF Tick, TypeOK, files, jobs, history
  <1>6. CASE SnapshotCopy
    <2>1. snap' \in JobType(SnapPc)
      BY <1>1, <1>6, JobFacts DEF SnapshotCopy, SnapPc
    <2>2. QED
      BY <1>6, <2>1 DEF SnapshotCopy, TypeOK, files, SnapPc
  <1>7. CASE SnapshotWrite
    <2>1. snap.copy \in [Key -> ItemType] /\ IsFiniteSet(Stored(snap.copy))
      BY <1>1, JobFacts DEF Finite
    <2>2. Records(snap.copy) \in SUBSET RecordType
      BY <1>1, <2>1, RecordsFacts
    <2>3. snap' \in JobType(SnapPc)
      <3>1. snap' = [snap EXCEPT !.pc = "written", !.copy = Empty, !.temp = Records(snap.copy)]
        BY <1>7 DEF SnapshotWrite
      <3>2. "written" \in SnapPc
        BY DEF SnapPc
      <3>3. QED
        BY <1>1, <2>2, <3>1, <3>2, JobFacts
    <2>4. InLastSecond(snap.copy) \subseteq Key
      BY DEF InLastSecond
    <2>5. QED
      BY <1>7, <2>3, <2>4 DEF SnapshotWrite, TypeOK, files, SnapPc
  <1>8. CASE SnapshotRename
    <2>1. snap' \in JobType(SnapPc) /\ snapFile' \subseteq RecordType
      BY <1>1, <1>8, JobFacts DEF SnapshotRename, SnapPc
    <2>2. QED
      BY <1>8, <2>1 DEF SnapshotRename, TypeOK, history, SnapPc
  <1>9. ASSUME NEW t \in BOOLEAN, NEW r \in BOOLEAN, SnapshotTruncate(t, r) PROVE TypeOK'
    <2>1. snap' \in JobType(SnapPc)
      BY <1>9, EmptyFacts DEF SnapshotTruncate, SnapPc
    <2>2. aof' \in Seq(RecordType) /\ synced' \in 0..Len(aof')
      BY <1>1, <1>9 DEF SnapshotTruncate
    <2>3. QED
      BY <1>9, <2>1, <2>2 DEF SnapshotTruncate, TypeOK, history, SnapPc
  <1>10. CASE SnapshotFails
    <2>1. snap' \in JobType(SnapPc)
      BY <1>10, EmptyFacts DEF SnapshotFails, SnapPc
    <2>2. QED
      BY <1>10, <2>1 DEF SnapshotFails, TypeOK, files, history, SnapPc
  <1>11. CASE RewriteCopy
    <2>1. rew' \in JobType(RewPc)
      BY <1>1, <1>11, JobFacts DEF RewriteCopy, RewPc
    <2>2. QED
      BY <1>11, <2>1 DEF RewriteCopy, TypeOK, files, history, RewPc
  <1>12. CASE RewriteWrite
    <2>1. rew.copy \in [Key -> ItemType] /\ IsFiniteSet(Stored(rew.copy))
      BY <1>1, JobFacts DEF Finite
    <2>2. Records(rew.copy) \in SUBSET RecordType
      BY <1>1, <2>1, RecordsFacts
    <2>3. rew' \in JobType(RewPc)
      <3>1. rew' = [rew EXCEPT !.pc = "written", !.copy = Empty, !.temp = Records(rew.copy)]
        BY <1>12 DEF RewriteWrite
      <3>2. "written" \in RewPc
        BY DEF RewPc
      <3>3. QED
        BY <1>1, <2>2, <3>1, <3>2, JobFacts
    <2>4. InLastSecond(rew.copy) \subseteq Key
      BY DEF InLastSecond
    <2>5. QED
      BY <1>12, <2>3, <2>4 DEF RewriteWrite, TypeOK, files, RewPc
  <1>13. ASSUME NEW n \in BOOLEAN, NEW r \in BOOLEAN, RewriteSwap(n, r) PROVE TypeOK'
    <2>1. rew' \in JobType(RewPc)
      BY <1>13, EmptyFacts DEF RewriteSwap, RewPc
    <2>2. rew.temp \subseteq RecordType /\ IsFiniteSet(rew.temp)
      BY <1>1, JobFacts DEF Finite
    <2>3. SetToSeq(rew.temp) \in Seq(RecordType)
      BY <2>2, SetToSeqFacts
    <2>4. aof' \in Seq(RecordType) /\ synced' \in 0..Len(aof') /\ lastRewriteSize' \in Nat
      BY <1>1, <1>13, <2>3 DEF RewriteSwap, TypeOK
    <2>5. forgotten' \subseteq Key
      BY <1>1, <1>13, RecordFacts DEF RewriteSwap, TypeOK, KeysOf
    <2>6. QED
      BY <1>13, <2>1, <2>4, <2>5 DEF RewriteSwap, TypeOK, RewPc
  <1>14. CASE RewriteFails
    <2>1. rew' \in JobType(RewPc)
      BY <1>14, EmptyFacts DEF RewriteFails, RewPc
    <2>2. QED
      BY <1>14, <2>1 DEF RewriteFails, TypeOK, files, history, RewPc
  <1>15. CASE RewriteDone
    <2>1. rew' \in JobType(RewPc)
      BY <1>15, EmptyFacts DEF RewriteDone, RewPc
    <2>2. QED
      BY <1>15, <2>1 DEF RewriteDone, TypeOK, files, history, RewPc
  <1>16. ASSUME MemoryGone, aof' \in Seq(RecordType), synced' \in 0..Len(aof'),
                allowed' \in [Key -> SUBSET ItemType], UNCHANGED <<logged, atRisk, forgotten, early>>
         PROVE  TypeOK'
    <2>1. snap' \in JobType(SnapPc) /\ rew' \in JobType(RewPc) /\ cache' \in [Key -> ItemType]
      BY <1>16, EmptyFacts DEF MemoryGone, SnapPc, RewPc
    <2>2. /\ pc' \in [Writer -> {"idle", "append"}] /\ op' \in [Writer -> RecordType \cup {NoRecord}]
          /\ effect' \in [Writer -> ItemType] /\ latest' \subseteq Writer
      BY <1>16, ItemFacts DEF MemoryGone
    <2>3. ops' \in Seq(RecordType)
      BY <1>16 DEF MemoryGone
    <2>4. QED
      BY <1>16, <2>1, <2>2, <2>3 DEF MemoryGone, TypeOK, SnapPc, RewPc
  <1>17. CASE Crash
    <2>1. PICK m \in synced..Len(aof) : aof' = SubSeq(aof, 1, m) /\ synced' = m
      BY <1>17 DEF Crash
    <2>2. aof' \in Seq(RecordType) /\ Len(aof') = m
      BY <1>1, <2>1
    <2>3. QED
      BY <1>1, <1>16, <1>17, <2>1, <2>2 DEF Crash, TypeOK
  <1>18. CASE Close
    <2>1. SettledBy(logged, pc) \in [Key -> SUBSET ItemType]
      BY SettledTyped DEF TypeOK
    <2>2. QED
      BY <1>1, <1>16, <1>18, <2>1 DEF Close, TypeOK
  <1>19. CASE Restart
    BY <1>19 DEF Restart, TypeOK, jobs
  <1>20. CASE RecoverSnapshot
    <2>1. cache' \in [Key -> ItemType]
      BY <1>1, <1>20, LoadFacts DEF RecoverSnapshot, LoadSnapshot
    <2>2. QED
      BY <1>20, <2>1 DEF RecoverSnapshot, TypeOK, files, jobs, history
  <1>21. CASE ReadOperations
    BY <1>21 DEF ReadOperations, TypeOK, files, jobs, history
  <1>22. CASE RecoverOperations
    <2>1. cache' \in [Key -> ItemType]
      BY <1>1, <1>22, ReplayTyped DEF RecoverOperations
    <2>2. logged' \in [Key -> ItemType]
      BY <1>22, <2>1 DEF RecoverOperations
    <2>3. allowed' \in [Key -> SUBSET ItemType]
      BY <1>22, <2>2 DEF RecoverOperations, TypeOK
    <2>4. QED
      BY <1>22, <2>1, <2>2, <2>3 DEF RecoverOperations, TypeOK, files, jobs
  <1>23. CASE UNCHANGED vars
    BY <1>23 DEF vars, TypeOK, files, jobs, history
  <1>24. QED
    BY <1>2, <1>3, <1>4, <1>5, <1>6, <1>7, <1>8, <1>9, <1>10, <1>11, <1>12, <1>13, <1>14, <1>15,
       <1>17, <1>18, <1>19, <1>20, <1>21, <1>22, <1>23
    DEF Next, SnapshotStep, RewriteStep, Recover

--------------------------------------------------------------------------------
\* Pending and Finite.

LEMMA PendingNext ==
  ASSUME TypeOK, Pending, [Next]_vars
  PROVE  Pending'
  <1>1. ASSUME NEW w \in Writer, Write(w) PROVE Pending'
    <2>1. PICK r \in RecordType : CacheWrite(w, r)
      BY <1>1, WriteFacts
    <2>2. PICK item : item = ItemOf(r)
      OBVIOUS
    <2>3. /\ phase' = phase /\ phase = "up" /\ now' = now /\ pc[w] = "idle"
          /\ \A u \in Writer :
               IF u = w THEN pc'[u] = "append" /\ op'[u] = r /\ effect'[u] = item
               ELSE pc'[u] = pc[u] /\ op'[u] = op[u] /\ effect'[u] = effect[u]
      BY <2>1, <2>2 DEF CacheWrite, TypeOK
    <2>4. Matches(now, item, r)
      BY <2>2, ItemOfFacts DEF TypeOK
    <2>5. latest \subseteq Writer /\ w \notin latest /\ latest' = {u \in latest : op[u].key # r.key} \cup {w}
      BY <2>1, <2>3 DEF CacheWrite, TypeOK, Pending
    <2>6. \A u \in Writer : pc'[u] = "append" =>
            phase' = "up" /\ op'[u] \in RecordType /\ Matches(now', effect'[u], op'[u])
      BY <2>3, <2>4 DEF Pending
    <2>7. \A u \in latest' : pc'[u] = "append"
      BY <2>3, <2>5 DEF Pending
    <2>8. \A v, u \in latest' : op'[v].key = op'[u].key => v = u
      BY <2>3, <2>5 DEF Pending
    <2>9. QED
      BY <2>6, <2>7, <2>8 DEF Pending
  <1>2. ASSUME NEW w \in Writer, LogWrite(w) PROVE Pending'
    <2>1. Appending(w)
      BY <1>2 DEF LogWrite, AppendOp, AppendFails
    <2>2. /\ phase' = phase /\ now' = now /\ latest' = latest \ {w}
          /\ \A u \in Writer : IF u = w THEN pc'[u] = "idle"
               ELSE pc'[u] = pc[u] /\ op'[u] = op[u] /\ effect'[u] = effect[u]
      BY <2>1, AppendingFacts
    <2>3. latest \subseteq Writer
      BY DEF TypeOK
    <2>4. \A u \in Writer : pc'[u] = "append" =>
            phase' = "up" /\ op'[u] \in RecordType /\ Matches(now', effect'[u], op'[u])
      BY <2>2 DEF Pending
    <2>5. /\ \A u \in latest' : pc'[u] = "append"
          /\ \A v, u \in latest' : op'[v].key = op'[u].key => v = u
      BY <2>2, <2>3 DEF Pending
    <2>6. QED
      BY <2>4, <2>5 DEF Pending
  <1>3. CASE MemoryGone
    BY <1>3 DEF MemoryGone, Pending
  <1>4. ASSUME UNCHANGED <<pc, op, effect, latest, now>>, phase' = phase \/ phase # "up" PROVE Pending'
    BY <1>4 DEF Pending
  <1>5. CASE Tick
    <2>1. UNCHANGED <<pc, op, effect, latest, phase>> /\ now' = now + 1 /\ now \in Nat
      BY <1>5 DEF Tick, TypeOK, history
    <2>2. PICK t \in Nat : t = now
      BY <2>1
    <2>3. ASSUME NEW w \in Writer, pc[w] = "append" PROVE Matches(t + 1, effect[w], op[w])
      <3>1. op[w] \in RecordType /\ effect[w] \in ItemType /\ Matches(t, effect[w], op[w]) /\ op[w].key \in Key
        BY <2>2, <2>3, RecordFacts DEF Pending, TypeOK
      <3>2. QED
        BY <3>1, FitsLater
    <2>4. QED
      BY <2>1, <2>2, <2>3 DEF Pending
  <1>6. CASE PeriodicSync \/ SnapshotCopy \/ SnapshotWrite \/ SnapshotRename \/ SnapshotFails
    BY <1>4, <1>6 DEF PeriodicSync, SnapshotCopy, SnapshotWrite, SnapshotRename, SnapshotFails, history
  <1>7. CASE RewriteCopy \/ RewriteWrite \/ RewriteDone \/ RewriteFails
    BY <1>4, <1>7 DEF RewriteCopy, RewriteWrite, RewriteDone, RewriteFails, history
  <1>8. ASSUME NEW t \in BOOLEAN, NEW r \in BOOLEAN, SnapshotTruncate(t, r) \/ RewriteSwap(t, r) PROVE Pending'
    BY <1>4, <1>8 DEF SnapshotTruncate, RewriteSwap, history
  <1>9. CASE Recover
    BY <1>4, <1>9 DEF Recover, Restart, RecoverSnapshot, ReadOperations, RecoverOperations, history
  <1>10. CASE UNCHANGED vars
    BY <1>4, <1>10 DEF vars, history
  <1>11. QED
    BY <1>1, <1>2, <1>3, <1>5, <1>6, <1>7, <1>8, <1>9, <1>10
    DEF Next, SnapshotStep, RewriteStep, Crash, Close

\* What is loaded is finite.
LEMMA LoadFinite ==
  ASSUME NEW S, IsFiniteSet(S)
  PROVE  IsFiniteSet(Stored(LoadSnapshot(S)))
  <1> DEFINE f == [r \in S |-> r.key]
  <1>1. f \in Surjection(S, KeysOf(S))
    BY DEF Surjection, KeysOf
  <1>2. IsFiniteSet(KeysOf(S))
    BY <1>1, FS_Surjection
  <1>3. Stored(LoadSnapshot(S)) \subseteq KeysOf(S)
    BY DEF Stored, LoadSnapshot, KeysOf
  <1>4. QED
    BY <1>2, <1>3, FS_Subset

LEMMA ReplayFinite ==
  ASSUME NEW c, NEW log \in Seq(RecordType), IsFiniteSet(Stored(c))
  PROVE  IsFiniteSet(Stored(Replay(c, log)))
  <1> DEFINE D == 1..Len(log)
             f == [i \in D |-> log[i].key]
             K == {log[i].key : i \in D}
  <1>1. f \in Surjection(D, K)
    BY DEF Surjection
  <1>2. IsFiniteSet(D)
    BY FS_Interval
  <1>3. IsFiniteSet(K)
    BY <1>1, <1>2, FS_Surjection
  <1>4. IsFiniteSet(Stored(c) \cup K)
    <2> HIDE DEF K
    <2> QED
      BY <1>3, FS_Union
  <1>5. ASSUME NEW k \in Stored(Replay(c, log)) PROVE k \in Stored(c) \cup K
    <2>1. PICK x : x = LastOn(log, k)
      OBVIOUS
    <2>2. x \in 0..Len(log) /\ (x # 0 => log[x].key = k)
      BY <2>1, LastOnFacts DEF IsLast
    <2>3. k \in Key /\ (x = 0 => c[k] # None)
      BY <2>1 DEF Stored, Replay
    <2>4. QED
      BY <2>2, <2>3 DEF Stored
  <1>6. QED
    BY <1>4, <1>5, FS_Subset

LEMMA FiniteNext ==
  ASSUME TypeOK, Pending, Finite, [Next]_vars
  PROVE  Finite'
  <1>1. /\ snap \in JobType(SnapPc) /\ rew \in JobType(RewPc)
        /\ now \in Nat /\ cache \in [Key -> ItemType] /\ ops \in Seq(RecordType)
    BY DEF TypeOK, SnapPc, RewPc
  <1>2. /\ snap.copy \in [Key -> ItemType] /\ rew.copy \in [Key -> ItemType]
    BY <1>1, JobFacts
  <1>3. /\ IsFiniteSet({}) /\ Distinct({}) /\ IdleJob.temp = {} /\ IdleJob.copy = Empty
        /\ IsFiniteSet(Stored(Empty))
        /\ [IdleJob EXCEPT !.pc = "done"].copy = Empty /\ [IdleJob EXCEPT !.pc = "done"].temp = {}
    BY EmptyFacts, FS_EmptySet DEF Distinct
  <1>4. ASSUME NEW c, c = cache', IsFiniteSet(Stored(c)), UNCHANGED <<jobs, snapFile>> PROVE Finite'
    BY <1>4 DEF Finite, jobs, Stored
  <1>5. ASSUME NEW w \in Writer, Write(w) PROVE Finite'
    <2>1. PICK r \in RecordType : CacheWrite(w, r)
      BY <1>5, WriteFacts
    <2>2. PICK c : c = cache'
      OBVIOUS
    <2>3. r.key \in Key /\ c = [cache EXCEPT ![r.key] = ItemOf(r)]
      BY <2>1, <2>2, RecordFacts DEF CacheWrite
    <2>4. Stored(c) \subseteq Stored(cache) \cup {r.key}
      BY <1>1, <2>3 DEF Stored
    <2>5. IsFiniteSet(Stored(cache) \cup {r.key})
      BY FS_AddElement DEF Finite
    <2>6. IsFiniteSet(Stored(c))
      BY <2>4, <2>5, FS_Subset
    <2>7. QED
      BY <1>4, <2>1, <2>2, <2>6 DEF CacheWrite, files
  <1>6. ASSUME NEW w \in Writer, LogWrite(w) PROVE Finite'
    <2>1. rew'.copy = rew.copy /\ rew'.temp = rew.temp
      BY <1>6, JobSteps
    <2>2. Appending(w)
      BY <1>6 DEF LogWrite, AppendOp, AppendFails
    <2>3. QED
      BY <2>1, <2>2 DEF Appending, Finite, Stored
  <1>7. CASE SnapshotCopy
    <2>1. snap'.copy = cache /\ snap'.temp = snap.temp
      BY <1>7, JobSteps
    <2>2. QED
      BY <1>7, <2>1 DEF SnapshotCopy, files, Finite, Stored
  <1>8. CASE SnapshotWrite
    <2>1. /\ Records(snap.copy) \in SUBSET RecordType
          /\ IsFiniteSet(Records(snap.copy)) /\ Distinct(Records(snap.copy))
      BY <1>1, <1>2, RecordsFacts DEF Finite
    <2>2. snap'.copy = Empty /\ snap'.temp = Records(snap.copy)
      BY <1>8, JobSteps
    <2>3. IsFiniteSet(Stored(snap'.copy)) /\ IsFiniteSet(snap'.temp) /\ Distinct(snap'.temp)
      BY <1>3, <2>1, <2>2
    <2>4. QED
      BY <1>8, <2>3 DEF SnapshotWrite, files, Finite, Stored, Distinct
  <1>9. CASE SnapshotRename
    <2>1. snap'.copy = snap.copy /\ snap'.temp = {}
      BY <1>9, JobSteps
    <2>2. IsFiniteSet(snap'.temp) /\ Distinct(snap'.temp)
      BY <1>3, <2>1
    <2>3. QED
      BY <1>9, <2>1, <2>2 DEF SnapshotRename, Finite, Stored, Distinct
  <1>10. ASSUME snap' = IdleJob, UNCHANGED <<cache, rew, snapFile>> PROVE Finite'
    <2>1. IsFiniteSet(Stored(snap'.copy)) /\ IsFiniteSet(snap'.temp) /\ Distinct(snap'.temp)
      BY <1>3, <1>10
    <2>2. QED
      BY <1>10, <2>1 DEF Finite, Stored, Distinct
  <1>11. CASE RewriteCopy
    <2>1. rew'.copy = cache /\ rew'.temp = rew.temp
      BY <1>11, JobSteps
    <2>2. QED
      BY <1>11, <2>1 DEF RewriteCopy, files, Finite, Stored
  <1>12. CASE RewriteWrite
    <2>1. /\ Records(rew.copy) \in SUBSET RecordType
          /\ IsFiniteSet(Records(rew.copy)) /\ Distinct(Records(rew.copy))
      BY <1>1, <1>2, RecordsFacts DEF Finite
    <2>2. rew'.copy = Empty /\ rew'.temp = Records(rew.copy)
      BY <1>12, JobSteps
    <2>3. IsFiniteSet(Stored(rew'.copy)) /\ IsFiniteSet(rew'.temp) /\ Distinct(rew'.temp)
      BY <1>3, <2>1, <2>2
    <2>4. QED
      BY <1>12, <2>3 DEF RewriteWrite, files, Finite, Stored, Distinct
  <1>13. ASSUME rew' = IdleJob \/ rew' = [IdleJob EXCEPT !.pc = "done"], UNCHANGED <<cache, snap, snapFile>>
         PROVE  Finite'
    <2>1. rew'.copy = Empty /\ rew'.temp = {}
      BY <1>3, <1>13
    <2>2. IsFiniteSet(Stored(rew'.copy)) /\ IsFiniteSet(rew'.temp) /\ Distinct(rew'.temp)
      BY <1>3, <2>1
    <2>3. QED
      BY <1>13, <2>2 DEF Finite, Stored, Distinct
  <1>14. CASE MemoryGone
    <2>1. /\ IsFiniteSet(Stored(snap'.copy)) /\ IsFiniteSet(snap'.temp) /\ Distinct(snap'.temp)
          /\ IsFiniteSet(Stored(rew'.copy)) /\ IsFiniteSet(rew'.temp) /\ Distinct(rew'.temp)
          /\ IsFiniteSet(Stored(cache'))
      BY <1>3, <1>14 DEF MemoryGone
    <2>2. QED
      BY <1>14, <2>1 DEF MemoryGone, Finite, Stored, Distinct
  <1>15. CASE RecoverSnapshot
    <2>1. PICK c : c = LoadSnapshot(snapFile)
      OBVIOUS
    <2>2. IsFiniteSet(Stored(c))
      BY <2>1, LoadFinite DEF Finite
    <2>3. QED
      BY <1>4, <1>15, <2>1, <2>2 DEF RecoverSnapshot, files
  <1>16. CASE RecoverOperations
    <2>1. PICK c : c = Replay(cache, ops)
      OBVIOUS
    <2>2. IsFiniteSet(Stored(c))
      BY <1>1, <2>1, ReplayFinite DEF Finite
    <2>3. QED
      BY <1>4, <1>16, <2>1, <2>2 DEF RecoverOperations, files
  <1>17. ASSUME UNCHANGED <<cache, snap, rew, snapFile>> PROVE Finite'
    BY <1>17 DEF Finite, Stored, Distinct
  <1>18. CASE PeriodicSync \/ Tick \/ Restart \/ ReadOperations \/ UNCHANGED vars
    BY <1>17, <1>18 DEF PeriodicSync, Tick, Restart, ReadOperations, vars, files, jobs
  <1>19. ASSUME NEW t \in BOOLEAN, NEW r \in BOOLEAN, SnapshotTruncate(t, r) PROVE Finite'
    BY <1>10, <1>19 DEF SnapshotTruncate
  <1>20. CASE SnapshotFails
    BY <1>10, <1>20 DEF SnapshotFails, files
  <1>21. ASSUME NEW t \in BOOLEAN, NEW r \in BOOLEAN, RewriteSwap(t, r) PROVE Finite'
    BY <1>13, <1>21 DEF RewriteSwap
  <1>22. CASE RewriteFails \/ RewriteDone
    BY <1>13, <1>22 DEF RewriteFails, RewriteDone, files
  <1>23. QED
    BY <1>5, <1>6, <1>7, <1>8, <1>9, <1>11, <1>12, <1>14, <1>15, <1>16, <1>18, <1>19, <1>20, <1>21, <1>22
    DEF Next, SnapshotStep, RewriteStep, Recover, Crash, Close

--------------------------------------------------------------------------------
\* What a key may be found to be.

\* A step that leaves the writers and the last appends alone leaves it alone.
LEMMA SettledKept ==
  ASSUME UNCHANGED <<logged, pc, op, effect>>, NEW k
  PROVE  Settled(k)' = Settled(k)
  BY DEF Settled

LEMMA SettledItems ==
  ASSUME TypeOK, NEW k \in Key
  PROVE  Settled(k) \subseteq ItemType /\ allowed[k] \subseteq ItemType
  BY DEF TypeOK, Settled

\* A write adds its item, to its key.
LEMMA WriteSettles ==
  ASSUME TypeOK, Pending, NEW w \in Writer, NEW r \in RecordType, CacheWrite(w, r), NEW k \in Key
  PROVE  /\ Settled(k) \subseteq Settled(k)'
         /\ allowed[k] \subseteq allowed'[k]
         /\ Settled(k)' \subseteq Settled(k) \cup (IF r.key = k THEN {ItemOf(r)} ELSE {})
         /\ r.key = k => ItemOf(r) \in allowed'[k] /\ cache'[k] = ItemOf(r)
         /\ r.key # k => cache'[k] = cache[k]
  <1>1. /\ logged' = logged /\ pc[w] = "idle" /\ r.key \in Key
        /\ \A u \in Writer :
             IF u = w THEN pc'[u] = "append" /\ op'[u] = r /\ effect'[u] = ItemOf(r)
             ELSE pc'[u] = pc[u] /\ op'[u] = op[u] /\ effect'[u] = effect[u]
    BY RecordFacts DEF CacheWrite, TypeOK
  <1>2. /\ r.key = k => allowed'[k] = allowed[k] \cup {ItemOf(r)} /\ cache'[k] = ItemOf(r)
        /\ r.key # k => allowed'[k] = allowed[k] /\ cache'[k] = cache[k]
    BY <1>1 DEF CacheWrite, TypeOK
  <1>3. Settled(k) \subseteq Settled(k)'
    BY <1>1 DEF Settled
  <1>4. Settled(k)' \subseteq Settled(k) \cup (IF r.key = k THEN {ItemOf(r)} ELSE {})
    BY <1>1 DEF Settled
  <1>5. QED
    BY <1>2, <1>3, <1>4

\* An append decides for its key, and changes nothing for the others.
LEMMA AppendSettles ==
  ASSUME TypeOK, Pending, NEW w \in Writer, Appending(w), NEW k \in Key,
         logged' = logged \/ logged' = [logged EXCEPT ![op[w].key] = effect[w]]
  PROVE  /\ Settled(k)' \subseteq Settled(k)
         /\ op[w].key # k => Settled(k)' = Settled(k) /\ logged'[k] = logged[k]
         /\ logged' = [logged EXCEPT ![op[w].key] = effect[w]] /\ op[w].key = k => logged'[k] = effect[w]
         /\ logged'[k] \in Settled(k)'
         /\ SettledBy(logged', pc')[k] = Settled(k)'
  <1>1. PICK r : r = op[w]
    OBVIOUS
  <1>2. /\ r \in RecordType /\ r.key \in Key /\ pc[w] = "append"
        /\ \A u \in Writer : IF u = w THEN pc'[u] = "idle"
             ELSE pc'[u] = pc[u] /\ op'[u] = op[u] /\ effect'[u] = effect[u]
    BY <1>1, AppendingFacts
  <1>3. /\ r.key # k => logged'[k] = logged[k]
        /\ logged'[k] = logged[k] \/ (r.key = k /\ logged'[k] = effect[w])
        /\ logged' = [logged EXCEPT ![r.key] = effect[w]] /\ r.key = k => logged'[k] = effect[w]
    BY <1>1, <1>2 DEF TypeOK
  <1>4. Settled(k)' \subseteq Settled(k)
    BY <1>1, <1>2, <1>3 DEF Settled
  <1>5. r.key # k => Settled(k)' = Settled(k)
    BY <1>1, <1>2, <1>3 DEF Settled
  <1>6. SettledBy(logged', pc')[k] = Settled(k)'
    <2>1. SettledBy(logged', pc')[k] =
            {logged'[k]} \cup {effect[u] : u \in {x \in Writer : pc'[x] = "append" /\ op[x].key = k}}
      BY DEF SettledBy
    <2>2. QED
      BY <1>2, <2>1 DEF Settled
  <1>7. logged'[k] \in Settled(k)'
    BY DEF Settled
  <1>8. QED
    BY <1>1, <1>3, <1>4, <1>5, <1>6, <1>7

\* Nothing is pending outside the "up" phase.
LEMMA SettledDown ==
  ASSUME Pending, phase # "up" \/ \A w \in Writer : pc[w] = "idle", NEW k
  PROVE  Settled(k) = {logged[k]}
  BY DEF Pending, Settled

LEMMA SettledGone ==
  ASSUME MemoryGone, logged' = logged, NEW k
  PROVE  Settled(k)' = {logged[k]}
  BY DEF MemoryGone, Settled

LEMMA SyncSettles ==
  ASSUME NEW k \in Key
  PROVE  SettledBy(logged, pc)[k] = Settled(k)
  BY DEF SettledBy, Settled

LEMMA AllowedNext ==
  ASSUME TypeOK, Pending, Allowed, [Next]_vars
  PROVE  Allowed'
  <1> SUFFICES ASSUME NEW k \in Key PROVE Settled(k)' \subseteq allowed'[k]
    BY DEF Allowed
  <1>1. Settled(k) \subseteq allowed[k] /\ logged[k] \in Settled(k)
    BY DEF Allowed, Settled
  <1>2. ASSUME NEW w \in Writer, Write(w) PROVE Settled(k)' \subseteq allowed'[k]
    <2>1. PICK r \in RecordType : CacheWrite(w, r)
      BY <1>2, WriteFacts
    <2>2. QED
      BY <1>1, <2>1, WriteSettles
  <1>3. ASSUME NEW w \in Writer, LogWrite(w) PROVE Settled(k)' \subseteq allowed'[k]
    <2>1. Appending(w) /\ (logged' = logged \/ logged' = [logged EXCEPT ![op[w].key] = effect[w]])
      BY <1>3 DEF LogWrite, AppendOp, AppendFails
    <2>2. allowed' = allowed \/ allowed' = SettledBy(logged', pc')
      BY <1>3 DEF LogWrite, AppendOp, AppendFails
    <2>3. QED
      BY <1>1, <2>1, <2>2, AppendSettles
  <1>4. ASSUME UNCHANGED <<logged, pc, op, effect>>, allowed' = allowed \/ allowed' = SettledBy(logged, pc)
        PROVE  Settled(k)' \subseteq allowed'[k]
    BY <1>1, <1>4, SettledKept, SyncSettles
  <1>5. ASSUME MemoryGone, logged' = logged, allowed' = allowed \/ allowed' = SettledBy(logged, pc)
        PROVE  Settled(k)' \subseteq allowed'[k]
    BY <1>1, <1>5, SettledGone, SyncSettles
  <1>6. CASE RecoverOperations
    <2>1. logged'[k] \in allowed'[k]
      BY <1>6 DEF RecoverOperations
    <2>2. \A w \in Writer : pc'[w] # "append"
      BY <1>6 DEF RecoverOperations, Pending
    <2>3. Settled(k)' = {logged'[k]}
      BY <2>2 DEF Settled
    <2>4. QED
      BY <2>1, <2>3
  <1>7. CASE PeriodicSync \/ Tick \/ SnapshotCopy \/ SnapshotWrite \/ SnapshotRename \/ SnapshotFails
    BY <1>4, <1>7
    DEF PeriodicSync, Tick, SnapshotCopy, SnapshotWrite, SnapshotRename, SnapshotFails, history
  <1>8. CASE RewriteCopy \/ RewriteWrite \/ RewriteDone \/ RewriteFails
    BY <1>4, <1>8 DEF RewriteCopy, RewriteWrite, RewriteDone, RewriteFails, history
  <1>9. ASSUME NEW t \in BOOLEAN, NEW r \in BOOLEAN, SnapshotTruncate(t, r) \/ RewriteSwap(t, r)
        PROVE  Settled(k)' \subseteq allowed'[k]
    BY <1>4, <1>9 DEF SnapshotTruncate, RewriteSwap, history
  <1>10. CASE Restart \/ RecoverSnapshot \/ ReadOperations \/ UNCHANGED vars
    BY <1>4, <1>10 DEF Restart, RecoverSnapshot, ReadOperations, history, vars
  <1>11. CASE Crash \/ Close
    BY <1>5, <1>11 DEF Crash, Close
  <1>12. QED
    BY <1>2, <1>3, <1>6, <1>7, <1>8, <1>9, <1>10, <1>11 DEF Next, SnapshotStep, RewriteStep, Recover

--------------------------------------------------------------------------------
\* The cache and the jobs' copies of it.

LEMMA ServedNext ==
  ASSUME TypeOK, Pending, Served, [Next]_vars
  PROVE  Served'
  <1> DEFINE Goal(k) == /\ \A w \in latest' : op'[w].key = k => cache'[k] = effect'[w]
                        /\ (\A w \in latest' : op'[w].key # k) /\ k \notin atRisk' => cache'[k] = logged'[k]
  <1> SUFFICES ASSUME phase' = "up", NEW k \in Key PROVE Goal(k)
    BY DEF Served
  <1>1. phase = "up" =>
          /\ \A w \in latest : op[w].key = k => cache[k] = effect[w]
          /\ (\A w \in latest : op[w].key # k) /\ k \notin atRisk => cache[k] = logged[k]
    BY DEF Served
  <1>2. ASSUME NEW w \in Writer, Write(w) PROVE Goal(k)
    <2>1. PICK r \in RecordType : CacheWrite(w, r)
      BY <1>2, WriteFacts
    <2>2. PICK item : item = ItemOf(r)
      OBVIOUS
    <2>3. /\ logged' = logged /\ atRisk' = atRisk /\ phase = "up" /\ pc[w] = "idle"
          /\ latest' = {u \in latest : op[u].key # r.key} \cup {w}
          /\ \A u \in Writer :
               IF u = w THEN op'[u] = r /\ effect'[u] = item ELSE op'[u] = op[u] /\ effect'[u] = effect[u]
      BY <2>1, <2>2 DEF CacheWrite, TypeOK
    <2>4. latest \subseteq Writer /\ w \notin latest
      BY <2>3 DEF TypeOK, Pending
    <2>5. CASE r.key = k
      <3>1. cache'[k] = item
        BY <2>1, <2>2, <2>5, WriteSettles
      <3>2. \A u \in latest' : op'[u].key = k => u = w
        BY <2>3, <2>4, <2>5
      <3>3. QED
        BY <2>3, <2>5, <3>1, <3>2
    <2>6. CASE r.key # k
      <3>1. cache'[k] = cache[k]
        BY <2>1, <2>6, WriteSettles
      <3>2. \A u \in latest' : op'[u].key = k => u \in latest /\ op[u].key = k /\ effect'[u] = effect[u]
        BY <2>3, <2>4, <2>6
      <3>3. \A u \in latest : op[u].key = k => u \in latest' /\ op'[u].key = k
        BY <2>3, <2>4, <2>6
      <3>4. QED
        BY <1>1, <2>3, <3>1, <3>2, <3>3
    <2>7. QED
      BY <2>5, <2>6
  <1>3. ASSUME NEW w \in Writer, LogWrite(w) PROVE Goal(k)
    <2>1. Appending(w)
      BY <1>3 DEF LogWrite, AppendOp, AppendFails
    <2>2. /\ phase = "up" /\ cache' = cache /\ latest' = latest \ {w} /\ op[w].key \in Key
          /\ \A u \in Writer : u # w => op'[u] = op[u] /\ effect'[u] = effect[u]
      BY <2>1, AppendingFacts
    <2>3. latest \subseteq Writer
      BY DEF TypeOK
    <2>4. \A u \in latest' : op'[u].key = k => u \in latest /\ op[u].key = k /\ cache'[k] = effect'[u]
      BY <1>1, <2>2, <2>3
    <2>5. \A u \in latest : u # w /\ op[u].key = k => u \in latest' /\ op'[u].key = k
      BY <2>2, <2>3
    <2>6. ASSUME \A u \in latest' : op'[u].key # k, k \notin atRisk'
          PROVE  cache'[k] = logged'[k]
      <3>1. CASE op[w].key # k
        <4>1. \A u \in latest : op[u].key # k
          BY <2>5, <2>6, <3>1
        <4>2. k \notin atRisk /\ logged'[k] = logged[k]
          BY <1>3, <2>6, <3>1 DEF LogWrite, AppendOp, AppendFails, TypeOK
        <4>3. QED
          BY <1>1, <2>2, <4>1, <4>2
      <3>2. CASE op[w].key = k
        <4>1. PICK f \in BOOLEAN : AppendOp(w, f)
          BY <1>3, <2>6, <3>2 DEF LogWrite, AppendFails
        <4>2. logged'[k] = effect[w] /\ ~Overtaken(w)
          BY <2>2, <2>6, <3>2, <4>1 DEF AppendOp, TypeOK
        <4>3. PICK u \in latest : op[u].key = k
          BY <3>2, <4>2 DEF Overtaken
        <4>4. u = w
          BY <2>5, <2>6, <4>3
        <4>5. QED
          BY <1>1, <2>2, <4>2, <4>3, <4>4
      <3>3. QED
        BY <3>1, <3>2
    <2>7. QED
      BY <2>4, <2>6
  <1>4. CASE RecoverOperations
    <2>1. logged' = cache' /\ latest' = latest /\ phase = "replay"
      BY <1>4 DEF RecoverOperations
    <2>2. latest' = {}
      BY <2>1 DEF Pending, TypeOK
    <2>3. QED
      BY <2>1, <2>2
  <1>5. ASSUME UNCHANGED <<phase, cache, latest, op, effect, logged>>, atRisk \subseteq atRisk' PROVE Goal(k)
    BY <1>1, <1>5
  <1>6. CASE SnapshotCopy
    <2>1. phase' = phase /\ (phase = "up" => atRisk' = atRisk)
      BY <1>6 DEF SnapshotCopy
    <2>2. QED
      BY <1>5, <1>6, <2>1 DEF SnapshotCopy
  <1>7. CASE PeriodicSync \/ Tick \/ SnapshotWrite \/ SnapshotRename \/ SnapshotFails
    BY <1>5, <1>7 DEF PeriodicSync, Tick, SnapshotWrite, SnapshotRename, SnapshotFails, history
  <1>8. CASE RewriteCopy \/ RewriteWrite \/ RewriteDone \/ RewriteFails
    BY <1>5, <1>8 DEF RewriteCopy, RewriteWrite, RewriteDone, RewriteFails, history
  <1>9. ASSUME NEW t \in BOOLEAN, NEW r \in BOOLEAN, SnapshotTruncate(t, r) \/ RewriteSwap(t, r) PROVE Goal(k)
    BY <1>5, <1>9 DEF SnapshotTruncate, RewriteSwap, history
  <1>10. CASE Restart \/ RecoverSnapshot \/ ReadOperations \/ Crash \/ Close
    <2>1. phase' # "up"
      BY <1>10 DEF Restart, RecoverSnapshot, ReadOperations, Crash, Close, MemoryGone
    <2>2. QED
      BY <2>1
  <1>11. CASE UNCHANGED vars
    BY <1>5, <1>11 DEF vars, history
  <1>12. QED
    BY <1>2, <1>3, <1>4, <1>6, <1>7, <1>8, <1>9, <1>10, <1>11 DEF Next, SnapshotStep, RewriteStep, Recover

LEMMA ServedSettled ==
  ASSUME TypeOK, Pending, Served, phase = "up", NEW k \in Key \ atRisk
  PROVE  cache[k] \in Settled(k)
  <1>1. CASE \E w \in latest : op[w].key = k
    <2>1. PICK w \in latest : op[w].key = k
      BY <1>1
    <2>2. w \in Writer /\ pc[w] = "append" /\ cache[k] = effect[w]
      BY <2>1 DEF TypeOK, Pending, Served
    <2>3. QED
      BY <2>1, <2>2 DEF Settled
  <1>2. CASE \A w \in latest : op[w].key # k
    BY <1>2 DEF Served, Settled
  <1>3. QED
    BY <1>1, <1>2

LEMMA CopiesNext ==
  ASSUME TypeOK, Pending, Finite, Served, CopiesAgree, Recovering, [Next]_vars
  PROVE  CopiesAgree'
  <1> SUFFICES ASSUME NEW k \in Key, k \notin atRisk' PROVE CopiesOf(k)'
    BY DEF CopiesAgree
  <1>1. k \notin atRisk => CopiesOf(k)
    BY DEF CopiesAgree
  <1>2. /\ snap.copy \in [Key -> ItemType] /\ rew.copy \in [Key -> ItemType] /\ now \in Nat
        /\ IsFiniteSet(Stored(snap.copy)) /\ IsFiniteSet(Stored(rew.copy))
    <2>1. snap \in JobType(SnapPc) /\ rew \in JobType(RewPc)
      BY DEF TypeOK, SnapPc, RewPc
    <2>2. QED
      BY <2>1, JobFacts DEF TypeOK, Finite
  <1>3. ASSUME NEW A, NEW B, A \subseteq B, A = Settled(k), B = Settled(k)', CopiesOf(k), UNCHANGED <<jobs, snapFile, now>>
        PROVE  CopiesOf(k)'
    BY <1>3, FitsMore DEF CopiesOf, jobs
  <1>4. ASSUME UNCHANGED <<logged, pc, op, effect, now, jobs, snapFile>>, atRisk \subseteq atRisk' PROVE CopiesOf(k)'
    <2>1. Settled(k)' = Settled(k) /\ k \notin atRisk
      BY <1>4, SettledKept
    <2>2. QED
      BY <1>1, <1>4, <2>1 DEF CopiesOf, jobs
  <1>5. ASSUME NEW w \in Writer, Write(w) PROVE CopiesOf(k)'
    <2>1. PICK r \in RecordType : CacheWrite(w, r)
      BY <1>5, WriteFacts
    <2>2. Settled(k) \subseteq Settled(k)'
      BY <2>1, WriteSettles
    <2>3. PICK A, B : A = Settled(k) /\ B = Settled(k)'
      OBVIOUS
    <2>4. CopiesOf(k) /\ UNCHANGED <<jobs, snapFile, now>>
      BY <1>1, <2>1 DEF CacheWrite, files
    <2>5. QED
      BY <1>3, <2>2, <2>3, <2>4
  <1>6. ASSUME NEW w \in Writer, LogWrite(w) PROVE CopiesOf(k)'
    <2>1. /\ rew'.pc = rew.pc \/ rew'.pc = "started"
          /\ rew'.copy = rew.copy /\ rew'.temp = rew.temp
      BY <1>6, JobSteps
    <2>2. Appending(w) /\ (logged' = logged \/ logged' = [logged EXCEPT ![op[w].key] = effect[w]])
      BY <1>6 DEF LogWrite, AppendOp, AppendFails
    <2>3. snap' = snap /\ snapFile' = snapFile /\ now' = now
      BY <2>2, AppendingFacts
    <2>4. CASE CopyOutstanding \/ AppendFails(w)
      <3>1. op[w].key # k /\ k \notin atRisk
        BY <1>6, <2>4 DEF LogWrite, AppendOp, AppendFails
      <3>2. Settled(k)' = Settled(k)
        BY <2>2, <3>1, AppendSettles
      <3>3. QED
        BY <1>1, <2>1, <2>3, <3>1, <3>2 DEF CopiesOf
    <2>5. CASE ~CopyOutstanding
      BY <2>1, <2>3, <2>5 DEF CopiesOf, CopyOutstanding
    <2>6. QED
      BY <2>4, <2>5
  <1>7. CASE SnapshotCopy
    <2>1. phase = "up" /\ k \notin atRisk /\ rew' = rew /\ now' = now /\ Settled(k)' = Settled(k)
      BY <1>7, SettledKept DEF SnapshotCopy
    <2>2. cache[k] \in Settled(k)
      BY <2>1, ServedSettled
    <2>3. snap'.pc = "copied" /\ snap'.copy = cache
      BY <1>7, JobSteps
    <2>4. QED
      BY <1>1, <2>1, <2>2, <2>3 DEF CopiesOf
  <1>8. CASE SnapshotWrite
    <2>1. k \notin atRisk /\ k \notin InLastSecond(snap.copy) /\ rew' = rew /\ now' = now /\ Settled(k)' = Settled(k)
      BY <1>8, SettledKept DEF SnapshotWrite
    <2>2. snap.copy[k] \in Settled(k)
      BY <1>1, <1>8, <2>1 DEF SnapshotWrite, CopiesOf
    <2>3. SetFits(now, Records(snap.copy), k, Settled(k))
      BY <1>2, <2>1, <2>2, RecordsFacts
    <2>4. snap'.pc = "written" /\ snap'.temp = Records(snap.copy)
      BY <1>8, JobSteps
    <2>5. QED
      BY <1>1, <2>1, <2>3, <2>4 DEF CopiesOf
  <1>9. CASE SnapshotRename
    <2>1. k \notin atRisk /\ rew' = rew /\ now' = now /\ Settled(k)' = Settled(k) /\ snapFile' = snap.temp /\ snap.pc = "written"
      BY <1>9, SettledKept DEF SnapshotRename, history
    <2>2. snap'.pc = "renamed"
      BY <1>9, JobSteps
    <2>3. QED
      BY <1>1, <2>1, <2>2 DEF CopiesOf
  <1>10. ASSUME snap' = IdleJob, UNCHANGED <<logged, pc, op, effect, now, rew, snapFile, atRisk>> PROVE CopiesOf(k)'
    <2>1. Settled(k)' = Settled(k) /\ snap'.pc = "idle"
      BY <1>10, SettledKept, EmptyFacts
    <2>2. QED
      BY <1>1, <1>10, <2>1 DEF CopiesOf
  <1>11. CASE RewriteCopy
    <2>1. phase = "up" /\ k \notin atRisk /\ snap' = snap /\ snapFile' = snapFile /\ now' = now /\ Settled(k)' = Settled(k)
      BY <1>11, SettledKept DEF RewriteCopy, history, files, Recovering
    <2>2. cache[k] \in Settled(k)
      BY <2>1, ServedSettled
    <2>3. rew'.pc = "copied" /\ rew'.copy = cache
      BY <1>11, JobSteps
    <2>4. QED
      BY <1>1, <2>1, <2>2, <2>3 DEF CopiesOf
  <1>12. CASE RewriteWrite
    <2>1. /\ k \notin atRisk /\ k \notin InLastSecond(rew.copy) /\ snap' = snap /\ snapFile' = snapFile
          /\ now' = now /\ Settled(k)' = Settled(k)
      BY <1>12, SettledKept DEF RewriteWrite, files
    <2>2. rew.copy[k] \in Settled(k)
      BY <1>1, <1>12, <2>1 DEF RewriteWrite, CopiesOf
    <2>3. SetFits(now, Records(rew.copy), k, Settled(k))
      BY <1>2, <2>1, <2>2, RecordsFacts
    <2>4. rew'.pc = "written" /\ rew'.temp = Records(rew.copy)
      BY <1>12, JobSteps
    <2>5. QED
      BY <1>1, <2>1, <2>3, <2>4 DEF CopiesOf
  <1>13. ASSUME rew' = IdleJob \/ rew' = [IdleJob EXCEPT !.pc = "done"],
                UNCHANGED <<logged, pc, op, effect, now, snap, snapFile, atRisk>>
         PROVE  CopiesOf(k)'
    <2>1. Settled(k)' = Settled(k) /\ rew'.pc \in {"idle", "done"}
      BY <1>13, SettledKept, EmptyFacts
    <2>2. QED
      BY <1>1, <1>13, <2>1 DEF CopiesOf
  <1>14. CASE MemoryGone
    <2>1. snap'.pc = "idle" /\ rew'.pc = "idle"
      BY <1>14, EmptyFacts DEF MemoryGone
    <2>2. QED
      BY <2>1 DEF CopiesOf
  <1>15. CASE RecoverOperations
    <2>1. ~early
      BY <1>15 DEF RecoverOperations, Recovering, TypeOK
    <2>2. snap'.pc = "idle" /\ rew'.pc = "idle"
      BY <1>15, <2>1 DEF RecoverOperations, Recovering, jobs
    <2>3. QED
      BY <2>2 DEF CopiesOf
  <1>16. CASE PeriodicSync \/ Restart \/ RecoverSnapshot \/ ReadOperations \/ UNCHANGED vars
    BY <1>4, <1>16 DEF PeriodicSync, Restart, RecoverSnapshot, ReadOperations, vars, files, history
  <1>17. ASSUME NEW t \in BOOLEAN, NEW r \in BOOLEAN, SnapshotTruncate(t, r) PROVE CopiesOf(k)'
    BY <1>10, <1>17 DEF SnapshotTruncate, history
  <1>18. CASE SnapshotFails
    BY <1>10, <1>18 DEF SnapshotFails, files, history
  <1>19. ASSUME NEW t \in BOOLEAN, NEW r \in BOOLEAN, RewriteSwap(t, r) PROVE CopiesOf(k)'
    BY <1>13, <1>19 DEF RewriteSwap
  <1>20. CASE RewriteFails \/ RewriteDone
    BY <1>13, <1>20 DEF RewriteFails, RewriteDone, files, history
  <1>21. CASE Tick
    <2>1. /\ UNCHANGED <<logged, pc, op, effect, jobs, snapFile, atRisk>> /\ now' = now + 1
      BY <1>21 DEF Tick, files, history
    <2>2. Settled(k)' = Settled(k) /\ Settled(k) \subseteq ItemType /\ CopiesOf(k)
      BY <1>1, <2>1, SettledKept, SettledItems
    <2>3. PICK A, t : A = Settled(k) /\ t = now /\ t \in Nat
      BY <1>2
    <2>4. snap.temp \in SUBSET RecordType /\ rew.temp \in SUBSET RecordType /\ snapFile \in SUBSET RecordType
      <3>1. snap \in JobType(SnapPc) /\ rew \in JobType(RewPc)
        BY DEF TypeOK, SnapPc, RewPc
      <3>2. QED
        BY <3>1, JobFacts DEF TypeOK
    <2>5. \A S \in SUBSET RecordType : SetFits(t, S, k, A) => SetFits(t + 1, S, k, A)
      BY <2>2, <2>3, FitsLater
    <2>6. QED
      BY <2>1, <2>2, <2>3, <2>4, <2>5 DEF CopiesOf, jobs
  <1>22. QED
    BY <1>5, <1>6, <1>7, <1>8, <1>9, <1>11, <1>12, <1>14, <1>15, <1>16, <1>17, <1>18, <1>19, <1>20, <1>21
    DEF Next, SnapshotStep, RewriteStep, Recover, Crash, Close

--------------------------------------------------------------------------------
\* The files.

\* What is recovered stands for the files it was read from.
LEMMA ReplayedFits ==
  ASSUME TypeOK, NEW k \in Key,
         \A r \in snapFile : r.key = k => Matches(now, cache[k], r),
         (\A r \in snapFile : r.key # k) => cache[k] = None
  PROVE  FilesFit(now, snapFile, aof, Len(aof), k, {Replay(cache, aof)[k]})
  <1>1. PICK x : x = LastOn(aof, k)
    OBVIOUS
  <1>2. PICK item : item = Replay(cache, aof)[k]
    OBVIOUS
  <1>3. item = IF x = 0 THEN cache[k] ELSE ItemOf(aof[x])
    BY <1>1, <1>2 DEF Replay
  <1>4. PICK n \in Nat : n = Len(aof)
    BY DEF TypeOK
  <1>5. /\ x \in 0..n /\ (x = 0 => \A i \in 1..n : aof[i].key # k)
        /\ (x # 0 => IsLast(aof, n, k, x))
    BY <1>1, <1>4, LastOnFacts DEF TypeOK
  <1>6. now \in Nat /\ cache[k] \in ItemType
    BY DEF TypeOK
  <1>7. ASSUME NEW i \in 1..n, IsLast(aof, n, k, i) PROVE Fits(now, aof[i], {item})
    <2>1. x # 0 /\ i = x
      BY <1>5, <1>7 DEF IsLast
    <2>2. aof[i] \in RecordType
      BY <1>4 DEF TypeOK
    <2>3. item \in ItemType /\ Matches(now, item, aof[i])
      BY <1>3, <1>6, <2>1, <2>2, ItemOfFacts
    <2>4. QED
      BY <1>6, <2>2, <2>3, MatchesFits
  <1>8. ASSUME \A i \in 1..n : aof[i].key # k PROVE SetFits(now, snapFile, k, {item})
    <2>1. item = cache[k]
      BY <1>3, <1>5, <1>8 DEF IsLast
    <2>2. ASSUME NEW r \in snapFile, r.key = k PROVE Fits(now, r, {item})
      <3>1. r \in RecordType /\ Matches(now, item, r)
        BY <2>1, <2>2 DEF TypeOK
      <3>2. QED
        BY <1>6, <2>1, <3>1, MatchesFits
    <2>3. ASSUME \A r \in snapFile : r.key # k PROVE Fits(now, DelRecord(k), {item})
      <3>1. item = None /\ DelRecord(k).type # "SET"
        BY <2>1, <2>3, RecordFacts
      <3>2. QED
        BY <3>1 DEF Fits, StandsFor
    <2>4. QED
      BY <2>2, <2>3 DEF SetFits
  <1>9. QED
    BY <1>2, <1>4, <1>7, <1>8 DEF FilesFit

LEMMA DiskNext ==
  ASSUME TypeOK, Pending, Finite, Allowed, CopiesAgree, DiskAgrees, Recovering, [Next]_vars
  PROVE  DiskAgrees'
  <1> SUFFICES ASSUME NEW k \in Key, k \notin atRisk', k \notin forgotten' PROVE DiskOf(k)'
    BY DEF DiskAgrees
  <1>1. /\ k \notin atRisk /\ k \notin forgotten => DiskOf(k)
        /\ k \notin atRisk => CopiesOf(k)
    BY DEF DiskAgrees, CopiesAgree
  <1>2. /\ aof \in Seq(RecordType) /\ Len(aof) \in Nat /\ synced \in 0..Len(aof) /\ synced \in Nat
        /\ Settled(k) \subseteq allowed[k]
    BY DEF TypeOK, Allowed
  <1>3. ASSUME UNCHANGED <<logged, pc, op, effect, now, phase, aof, synced, snapFile, allowed>>,
               atRisk \subseteq atRisk', forgotten \subseteq forgotten'
        PROVE  DiskOf(k)'
    <2>1. DiskOf(k) /\ Settled(k)' = Settled(k)
      BY <1>1, <1>3, SettledKept
    <2>2. QED
      BY <1>3, <2>1 DEF DiskOf
  <1>4. ASSUME NEW w \in Writer, Write(w) PROVE DiskOf(k)'
    <2>1. PICK r \in RecordType : CacheWrite(w, r)
      BY <1>4, WriteFacts
    <2>2. UNCHANGED <<phase, now, aof, synced, snapFile>> /\ DiskOf(k)
      BY <1>1, <2>1 DEF CacheWrite, files
    <2>3. PICK A, B, C, D : A = Settled(k) /\ B = Settled(k)' /\ C = allowed[k] /\ D = allowed'[k]
      OBVIOUS
    <2>4. A \subseteq B /\ C \subseteq D
      BY <2>1, <2>3, WriteSettles
    <2>5. QED
      BY <2>2, <2>3, <2>4, FitsMore DEF DiskOf
  <1>5. ASSUME NEW w \in Writer, LogWrite(w) PROVE DiskOf(k)'
    <2>1. PICK r : r = op[w]
      OBVIOUS
    <2>2. Appending(w) /\ (logged' = logged \/ logged' = [logged EXCEPT ![r.key] = effect[w]])
      BY <1>5, <2>1 DEF LogWrite, AppendOp, AppendFails
    <2>3. /\ r \in RecordType /\ effect[w] \in ItemType /\ Matches(now, effect[w], r)
          /\ phase = "up" /\ UNCHANGED <<phase, snapFile, now>>
      BY <2>1, <2>2, AppendingFacts
    <2>4. /\ Settled(k)' \subseteq Settled(k) /\ SettledBy(logged', pc')[k] = Settled(k)'
          /\ r.key # k => Settled(k)' = Settled(k)
          /\ logged' = [logged EXCEPT ![r.key] = effect[w]] /\ r.key = k => effect[w] \in Settled(k)'
      <3>1. /\ logged'[k] \in Settled(k)'
            /\ logged' = [logged EXCEPT ![r.key] = effect[w]] /\ r.key = k => logged'[k] = effect[w]
        BY <2>1, <2>2, AppendSettles
      <3>2. QED
        BY <2>1, <2>2, <3>1, AppendSettles
    <2>5. r.key # k => k \notin atRisk /\ k \notin forgotten
      BY <1>5, <2>1 DEF LogWrite, AppendOp, AppendFails
    <2>6. ASSUME NEW f \in BOOLEAN, AppendOp(w, f) PROVE DiskOf(k)'
      <3>1. aof' = Append(aof, r) /\ logged' = [logged EXCEPT ![r.key] = effect[w]]
        BY <2>1, <2>6 DEF AppendOp, Appended
      <3>2. PICK n, S, B, t, u : /\ n \in Nat /\ n = Len(aof) /\ S = snapFile /\ B = Settled(k)'
                                 /\ t = aof' /\ u = now /\ u \in Nat
        BY <1>2 DEF TypeOK
      <3>3. Len(aof') = n + 1
        BY <1>2, <2>3, <3>1, <3>2
      <3>4. FilesFit(u, S, t, n + 1, k, B)
        <4>1. CASE r.key = k
          <5>1. Fits(u, r, B)
            BY <2>3, <2>4, <3>1, <3>2, <4>1, MatchesFits
          <5>2. QED
            BY <1>2, <2>3, <3>1, <3>2, <4>1, <5>1, FitsAppended
        <4>2. CASE r.key # k
          <5>1. FilesFit(u, S, aof, n, k, B)
            BY <1>1, <2>3, <2>4, <2>5, <3>2, <4>2 DEF DiskOf
          <5>2. QED
            BY <1>2, <2>3, <3>1, <3>2, <4>2, <5>1, FitsAppended
        <4>3. QED
          BY <4>1, <4>2
      <3>5. CASE f
        <4>1. synced' = n + 1 /\ allowed'[k] = B
          BY <2>4, <2>6, <3>2, <3>3, <3>5 DEF AppendOp
        <4>2. \A m \in synced'..Len(aof') : m = n + 1
          BY <3>2, <3>3, <4>1
        <4>3. QED
          BY <2>3, <3>2, <3>3, <3>4, <4>1, <4>2 DEF DiskOf
      <3>6. CASE ~f
        <4>1. synced' = synced /\ allowed' = allowed /\ k \notin atRisk /\ k \notin forgotten
          BY <2>6, <3>6 DEF AppendOp
        <4>2. PICK C : C = allowed[k]
          OBVIOUS
        <4>3. FilesFit(u, S, t, n + 1, k, C)
          BY <1>2, <2>4, <3>2, <3>4, <4>2, FitsMore
        <4>4. \A m \in synced..n : FilesFit(u, S, t, m, k, C)
          <5>1. \A m \in synced..n : m \in 0..n /\ FilesFit(u, S, aof, m, k, C)
            BY <1>1, <1>2, <3>2, <4>1, <4>2 DEF DiskOf
          <5>2. QED
            BY <1>2, <2>3, <3>1, <3>2, <5>1, FitsAppended
        <4>5. \A m \in synced'..Len(aof') : m = n + 1 \/ m \in synced..n
          BY <1>2, <3>2, <3>3, <4>1
        <4>6. QED
          BY <2>3, <3>2, <3>3, <3>4, <4>1, <4>2, <4>3, <4>4, <4>5 DEF DiskOf
      <3>7. QED
        BY <3>5, <3>6
    <2>7. CASE AppendFails(w)
      <3>1. UNCHANGED <<aof, synced, allowed>> /\ r.key # k
        BY <2>1, <2>7 DEF AppendFails
      <3>2. QED
        BY <1>1, <2>3, <2>4, <2>5, <3>1 DEF DiskOf
    <2>8. QED
      BY <1>5, <2>6, <2>7 DEF LogWrite
  <1>6. CASE PeriodicSync
    <2>1. /\ UNCHANGED <<logged, pc, op, effect, now, phase, aof, snapFile, atRisk, forgotten>>
          /\ synced < Len(aof) /\ synced' = Len(aof) /\ allowed' = SettledBy(logged, pc)
      BY <1>6 DEF PeriodicSync
    <2>2. allowed'[k] = Settled(k) /\ Settled(k)' = Settled(k) /\ DiskOf(k)
      BY <1>1, <2>1, SyncSettles, SettledKept
    <2>3. \A m \in synced'..Len(aof') : m = Len(aof)
      BY <1>2, <2>1
    <2>4. QED
      BY <1>2, <2>1, <2>2, <2>3 DEF DiskOf
  <1>7. CASE SnapshotCopy
    <2>1. phase = "up" /\ atRisk' = atRisk
      BY <1>7 DEF SnapshotCopy
    <2>2. QED
      BY <1>3, <1>7, <2>1 DEF SnapshotCopy, files
  <1>8. CASE SnapshotRename
    <2>1. /\ UNCHANGED <<logged, pc, op, effect, now, phase, aof, synced, allowed, atRisk, forgotten>>
          /\ snap.pc = "written" /\ snapFile' = snap.temp
      BY <1>8 DEF SnapshotRename, history
    <2>2. Settled(k)' = Settled(k) /\ DiskOf(k) /\ SetFits(now, snap.temp, k, Settled(k))
      BY <1>1, <2>1, SettledKept DEF CopiesOf
    <2>3. SetFits(now, snap.temp, k, allowed[k])
      BY <1>2, <2>2, FitsMore
    <2>4. QED
      BY <2>1, <2>2, <2>3, FitsWithSnapshot DEF DiskOf
  <1>9. ASSUME NEW t \in BOOLEAN, NEW r \in BOOLEAN, SnapshotTruncate(t, r) PROVE DiskOf(k)'
    <2>1. /\ UNCHANGED <<logged, pc, op, effect, now, phase, snapFile, allowed, atRisk, forgotten>>
          /\ snap.pc = "renamed"
      BY <1>9 DEF SnapshotTruncate, history
    <2>2. CASE t
      <3>1. aof' = <<>> /\ synced' = 0
        BY <1>9, <2>2 DEF SnapshotTruncate
      <3>2. Settled(k)' = Settled(k) /\ SetFits(now, snapFile, k, Settled(k))
        BY <1>1, <2>1, SettledKept DEF CopiesOf
      <3>3. SetFits(now, snapFile, k, allowed[k])
        BY <1>2, <3>2, FitsMore
      <3>4. FilesFit(now, snapFile, <<>>, 0, k, Settled(k)) /\ FilesFit(now, snapFile, <<>>, 0, k, allowed[k])
        BY <3>2, <3>3, FitsWithoutLog
      <3>5. Len(aof') = 0 /\ \A m \in synced'..Len(aof') : m = 0
        BY <3>1
      <3>6. QED
        BY <2>1, <3>1, <3>2, <3>4, <3>5 DEF DiskOf
    <2>3. CASE ~t
      BY <1>3, <1>9, <2>1, <2>3 DEF SnapshotTruncate
    <2>4. QED
      BY <2>2, <2>3
  <1>10. ASSUME NEW t \in BOOLEAN, NEW r \in BOOLEAN, RewriteSwap(t, r) PROVE DiskOf(k)'
    <2>1. /\ UNCHANGED <<logged, pc, op, effect, now, phase, snapFile, allowed, atRisk>>
          /\ rew.pc = "written" /\ forgotten \subseteq forgotten'
      BY <1>10 DEF RewriteSwap
    <2>2. CASE t
      <3>1. /\ aof' = SetToSeq(rew.temp) /\ synced' = Len(aof')
            /\ k \notin KeysOf(snapFile) \ KeysOf(rew.temp)
        BY <1>10, <2>2 DEF RewriteSwap
      <3>2. Settled(k)' = Settled(k) /\ SetFits(now, rew.temp, k, Settled(k))
        BY <1>1, <2>1, SettledKept DEF CopiesOf
      <3>3. PICK S, T, g, n, A, C : /\ S = snapFile /\ T = rew.temp /\ g = SetToSeq(T) /\ n = Len(g)
                                    /\ A = Settled(k) /\ C = allowed[k]
        OBVIOUS
      <3>4. IsFiniteSet(T) /\ n \in Nat
        <4>1. IsFiniteSet(T)
          BY <3>3 DEF Finite
        <4>2. QED
          BY <3>3, <4>1, SetToSeqFacts
      <3>5. FilesFit(now, S, g, n, k, A)
        BY <3>1, <3>2, <3>3, <3>4, FitsRewritten
      <3>6. FilesFit(now, S, g, n, k, C)
        BY <1>2, <3>3, <3>5, FitsMore
      <3>7. \A m \in synced'..Len(aof') : m = n
        BY <3>1, <3>3, <3>4
      <3>8. QED
        BY <2>1, <3>1, <3>2, <3>3, <3>5, <3>6, <3>7 DEF DiskOf
    <2>3. CASE ~t
      BY <1>3, <1>10, <2>1, <2>3 DEF RewriteSwap
    <2>4. QED
      BY <2>2, <2>3
  <1>11. CASE Crash
    <2>1. PICK m \in synced..Len(aof) : aof' = SubSeq(aof, 1, m) /\ synced' = m
      BY <1>11 DEF Crash
    <2>2. /\ m \in 0..Len(aof) /\ Len(aof') = m
          /\ UNCHANGED <<allowed, atRisk, forgotten, snapFile, now>> /\ phase' = "down"
      BY <1>2, <1>11, <2>1 DEF Crash, MemoryGone
    <2>3. FilesFit(now, snapFile, aof, m, k, allowed[k])
      BY <1>1, <2>1, <2>2 DEF DiskOf
    <2>4. FilesFit(now, snapFile, aof', m, k, allowed[k])
      BY <1>2, <2>1, <2>2, <2>3, FitsPrefix
    <2>5. \A i \in synced'..Len(aof') : i = m
      BY <2>1, <2>2
    <2>6. ~(synced' < Len(aof')) /\ phase' # "up"
      BY <2>1, <2>2
    <2>7. QED
      BY <2>2, <2>4, <2>5, <2>6 DEF DiskOf
  <1>12. CASE Close
    <2>1. /\ phase = "up" /\ phase' = "down" /\ MemoryGone
          /\ UNCHANGED <<aof, snapFile, logged, atRisk, forgotten, now>>
      BY <1>12 DEF Close, MemoryGone
    <2>2. Settled(k)' = Settled(k) /\ DiskOf(k)
      BY <1>1, <1>12, <2>1, SettledDown, SettledGone DEF Close
    <2>3. CASE aofOpen
      <3>1. synced' = Len(aof) /\ allowed'[k] = Settled(k)
        BY <1>12, <2>3, SyncSettles DEF Close
      <3>2. \A m \in synced'..Len(aof') : m = Len(aof)
        BY <1>2, <2>1, <3>1
      <3>3. QED
        BY <1>2, <2>1, <2>2, <3>1, <3>2 DEF DiskOf
    <2>4. CASE ~aofOpen
      BY <1>12, <2>1, <2>2, <2>4 DEF Close, DiskOf
    <2>5. QED
      BY <2>3, <2>4
  <1>13. CASE Restart \/ RecoverSnapshot \/ ReadOperations
    <2>1. /\ UNCHANGED <<logged, pc, op, effect, now, aof, synced, snapFile, allowed, atRisk, forgotten>> /\ phase' # "up"
      BY <1>13 DEF Restart, RecoverSnapshot, ReadOperations, files, history
    <2>2. DiskOf(k) /\ Settled(k)' = Settled(k)
      BY <1>1, <2>1, SettledKept
    <2>3. QED
      BY <2>1, <2>2 DEF DiskOf
  <1>14. CASE RecoverOperations
    <2>1. /\ phase = "replay" /\ UNCHANGED <<pc, op, now, aof, synced, snapFile>>
          /\ logged'[k] = Replay(cache, ops)[k]
          /\ synced = Len(aof) => allowed'[k] = {logged'[k]}
          /\ synced # Len(aof) => allowed[k] \subseteq allowed'[k] /\ logged'[k] \in allowed'[k]
          /\ synced # Len(aof) \/ early => atRisk' = atRisk /\ forgotten' = forgotten
      BY <1>14 DEF RecoverOperations, files
    <2>2. ~early
      BY <2>1 DEF Recovering, TypeOK
    <2>3. /\ ops = aof
          /\ \A r \in snapFile : r.key = k => Matches(now, cache[k], r)
          /\ (\A r \in snapFile : r.key # k) => cache[k] = None
      BY <2>1, <2>2 DEF Recovering
    <2>4. PICK n, S, l, B, C, D : /\ n = Len(aof) /\ S = snapFile /\ l = aof /\ B = Settled(k)'
                                  /\ C = allowed[k] /\ D = allowed'[k]
      OBVIOUS
    <2>5. FilesFit(now, S, l, n, k, {Replay(cache, ops)[k]})
      BY <2>3, <2>4, ReplayedFits
    <2>6. \A w \in Writer : pc'[w] # "append"
      BY <2>1 DEF Pending
    <2>7. B = {logged'[k]}
      BY <2>4, <2>6 DEF Settled
    <2>8. FilesFit(now, S, l, n, k, B)
      BY <2>1, <2>5, <2>7
    <2>9. \A m \in synced..n : FilesFit(now, S, l, m, k, D)
      <3>1. CASE synced = Len(aof)
        <4>1. D = B /\ \A m \in synced..n : m = n
          BY <1>2, <2>1, <2>4, <2>7, <3>1
        <4>2. QED
          BY <2>8, <4>1
      <3>2. CASE synced # Len(aof)
        <4>1. C \subseteq D /\ \A m \in synced..n : FilesFit(now, S, l, m, k, C)
          BY <1>1, <2>1, <2>4, <3>2 DEF DiskOf
        <4>2. QED
          BY <4>1, FitsMore
      <3>3. QED
        BY <3>1, <3>2
    <2>10. QED
      BY <2>1, <2>4, <2>8, <2>9 DEF DiskOf
  <1>15. CASE SnapshotWrite \/ SnapshotFails
    BY <1>3, <1>15 DEF SnapshotWrite, SnapshotFails, files, history
  <1>16. CASE RewriteCopy \/ RewriteWrite \/ RewriteDone \/ RewriteFails \/ UNCHANGED vars
    BY <1>3, <1>16 DEF RewriteCopy, RewriteWrite, RewriteDone, RewriteFails, vars, files, history
  <1>17. CASE Tick
    <2>1. /\ UNCHANGED <<logged, pc, op, effect, phase, aof, synced, snapFile, allowed, atRisk, forgotten>>
          /\ now' = now + 1 /\ now \in Nat
      BY <1>17 DEF Tick, files, history, TypeOK
    <2>2. /\ Settled(k)' = Settled(k) /\ Settled(k) \subseteq ItemType /\ allowed[k] \subseteq ItemType
          /\ DiskOf(k)
      BY <1>1, <2>1, SettledKept, SettledItems
    <2>3. PICK A, C, t, S, l : /\ A = Settled(k) /\ C = allowed[k] /\ t = now /\ t \in Nat
                               /\ S = snapFile /\ S \in SUBSET RecordType /\ l = aof /\ l \in Seq(RecordType)
      BY <2>1 DEF TypeOK
    <2>4. \A m \in 0..Len(l) : FilesFit(t, S, l, m, k, A) => FilesFit(t + 1, S, l, m, k, A)
      BY <2>2, <2>3, FitsLater
    <2>5. \A m \in 0..Len(l) : FilesFit(t, S, l, m, k, C) => FilesFit(t + 1, S, l, m, k, C)
      BY <2>2, <2>3, FitsLater
    <2>6. Len(l) \in 0..Len(l) /\ \A m \in synced..Len(aof) : m \in 0..Len(l)
      BY <1>2, <2>3
    <2>7. QED
      BY <2>1, <2>2, <2>3, <2>4, <2>5, <2>6 DEF DiskOf
  <1>18. QED
    BY <1>4, <1>5, <1>6, <1>7, <1>8, <1>9, <1>10, <1>11, <1>12, <1>13, <1>14, <1>15, <1>16, <1>17
    DEF Next, SnapshotStep, RewriteStep, Recover

--------------------------------------------------------------------------------
\* Recovery.

\* The cache is what the snapshot made of it.
LoadedFrom(t, S, c) ==
  \A k \in Key : /\ \A r \in S : r.key = k => Matches(t, c[k], r)
                 /\ (\A r \in S : r.key # k) => c[k] = None

LEMMA RecoveringNext ==
  ASSUME TypeOK, Pending, Finite, Recovering, [Next]_vars
  PROVE  Recovering'
  <1>1. /\ phase \in {"down", "load", "read", "replay", "up"} /\ early \in BOOLEAN
        /\ atRisk \subseteq Key /\ IdleJob.pc = "idle"
    BY EmptyFacts DEF TypeOK
  <1>2. ASSUME phase = "up", phase' = phase PROVE Recovering'
    BY <1>2 DEF Recovering
  <1>3. ASSUME UNCHANGED <<phase, rew, snap, early, atRisk, ops, aof, snapFile, cache, now>> PROVE Recovering'
    BY <1>3 DEF Recovering
  <1>4. ASSUME phase' = phase, snap.pc # "idle", rew' = rew, early' = early, atRisk \subseteq atRisk',
               atRisk' \subseteq Key
        PROVE  Recovering'
    <2>1. phase # "down" /\ (phase \in {"load", "read", "replay"} => early = TRUE /\ atRisk = Key)
      BY <1>1, <1>4 DEF Recovering
    <2>2. phase' \in {"load", "read", "replay"} => early' = TRUE /\ atRisk' = Key
      BY <1>4, <2>1
    <2>3. QED
      BY <1>4, <2>1, <2>2 DEF Recovering
  <1>5. ASSUME NEW w \in Writer, Write(w) \/ LogWrite(w) PROVE Recovering'
    BY <1>2, <1>5, WriteFacts DEF CacheWrite, LogWrite, AppendOp, AppendFails, Appending
  <1>6. CASE SnapshotCopy
    <2>1. CASE phase = "up"
      BY <1>2, <1>6, <2>1 DEF SnapshotCopy
    <2>2. CASE phase # "up"
      <3>1. phase' = phase /\ phase # "down" /\ rew' = rew /\ early' = TRUE /\ atRisk' = Key
        BY <1>6, <2>2 DEF SnapshotCopy
      <3>2. QED
        BY <2>2, <3>1 DEF Recovering
    <2>3. QED
      BY <2>1, <2>2
  <1>7. CASE SnapshotWrite
    <2>1. InLastSecond(snap.copy) \subseteq Key
      BY DEF InLastSecond
    <2>2. QED
      BY <1>1, <1>4, <1>7, <2>1 DEF SnapshotWrite
  <1>8. CASE SnapshotRename \/ SnapshotFails
    BY <1>1, <1>4, <1>8 DEF SnapshotRename, SnapshotFails, history
  <1>9. ASSUME NEW t \in BOOLEAN, NEW r \in BOOLEAN, SnapshotTruncate(t, r) PROVE Recovering'
    BY <1>1, <1>4, <1>9 DEF SnapshotTruncate, history
  <1>10. CASE RewriteCopy \/ RewriteWrite \/ RewriteDone \/ RewriteFails
    <2>1. rew.pc # "idle" /\ phase' = phase
      BY <1>10 DEF RewriteCopy, RewriteWrite, RewriteDone, RewriteFails
    <2>2. QED
      BY <1>2, <2>1 DEF Recovering
  <1>11. ASSUME NEW t \in BOOLEAN, NEW r \in BOOLEAN, RewriteSwap(t, r) PROVE Recovering'
    <2>1. rew.pc # "idle" /\ phase' = phase
      BY <1>11 DEF RewriteSwap
    <2>2. QED
      BY <1>2, <2>1 DEF Recovering
  <1>12. CASE Crash \/ Close
    <2>1. phase' = "down" /\ snap'.pc = "idle" /\ rew'.pc = "idle"
      BY <1>1, <1>12 DEF Crash, Close, MemoryGone
    <2>2. QED
      BY <2>1 DEF Recovering
  <1>13. CASE Restart
    <2>1. phase' = "load" /\ early' = FALSE /\ snap'.pc = "idle" /\ rew'.pc = "idle"
      BY <1>13 DEF Restart, jobs, Recovering
    <2>2. QED
      BY <2>1 DEF Recovering
  <1>14. CASE RecoverSnapshot
    <2>1. /\ phase = "load" /\ phase' = "read" /\ cache' = LoadSnapshot(snapFile)
          /\ UNCHANGED <<snap, rew, snapFile, early, atRisk, now>>
      BY <1>14 DEF RecoverSnapshot, files, jobs, history
    <2>2. PICK c, S, t : c = LoadSnapshot(snapFile) /\ S = snapFile /\ t = now
      OBVIOUS
    <2>3. LoadedFrom(t, S, c)
      <3> SUFFICES ASSUME NEW k \in Key
                   PROVE  /\ \A r \in S : r.key = k => Matches(t, c[k], r)
                          /\ (\A r \in S : r.key # k) => c[k] = None
        BY DEF LoadedFrom
      <3>1. S \subseteq RecordType /\ Distinct(S) /\ now \in Nat
        BY <2>2 DEF TypeOK, Finite
      <3>2. /\ (\A r \in S : r.key # k) => c[k] = None
            /\ (\E r \in S : r.key = k) => \E r \in S : r.key = k /\ c[k] = ItemOf(r)
        BY <2>2, <3>1, LoadFacts
      <3>3. \A r \in S : Matches(t, ItemOf(r), r)
        BY <2>2, <3>1, ItemOfFacts
      <3>4. QED
        BY <3>1, <3>2, <3>3 DEF Distinct
    <2>4. QED
      BY <2>1, <2>2, <2>3 DEF Recovering, LoadedFrom
  <1>15. CASE ReadOperations
    <2>1. /\ phase = "read" /\ phase' = "replay" /\ ops' = aof
          /\ UNCHANGED <<snap, rew, snapFile, cache, aof, early, atRisk, now>>
      BY <1>15 DEF ReadOperations, files, jobs, history
    <2>2. QED
      BY <2>1 DEF Recovering
  <1>16. CASE RecoverOperations
    <2>1. phase' = "up"
      BY <1>16 DEF RecoverOperations
    <2>2. QED
      BY <2>1 DEF Recovering
  <1>17. CASE PeriodicSync \/ UNCHANGED vars
    BY <1>3, <1>17 DEF PeriodicSync, vars, files, jobs, history
  <1>18. CASE Tick
    <2>1. /\ UNCHANGED <<phase, rew, snap, early, atRisk, ops, aof, snapFile, cache>>
          /\ now' = now + 1 /\ now \in Nat
      BY <1>18 DEF Tick, files, jobs, history, TypeOK
    <2>2. PICK c, S, t : c = cache /\ S = snapFile /\ t = now /\ t \in Nat
      BY <2>1
    <2>3. LoadedFrom(t, S, c) => LoadedFrom(t + 1, S, c)
      <3> SUFFICES ASSUME LoadedFrom(t, S, c), NEW k \in Key, NEW r \in S, r.key = k
                   PROVE  Matches(t + 1, c[k], r)
        BY DEF LoadedFrom
      <3>1. Matches(t, c[k], r) /\ c[k] \in ItemType /\ r \in RecordType
        BY <2>2 DEF LoadedFrom, TypeOK
      <3>2. QED
        BY <2>2, <3>1, FitsLater
    <2>4. QED
      BY <2>1, <2>2, <2>3 DEF Recovering, LoadedFrom
  <1>19. QED
    BY <1>5, <1>6, <1>7, <1>8, <1>9, <1>10, <1>11, <1>12, <1>13, <1>14, <1>15, <1>16, <1>17, <1>18
    DEF Next, SnapshotStep, RewriteStep, Recover

--------------------------------------------------------------------------------
\* The theorems.

LEMMA InitDisk == Init => DiskInv
  <1> SUFFICES ASSUME Init PROVE DiskInv
    OBVIOUS
  <1>1. /\ Empty \in [Key -> ItemType] /\ IsFiniteSet(Stored(Empty))
        /\ IdleJob \in JobType(SnapPc) /\ IdleJob \in JobType(RewPc)
        /\ IdleJob.pc = "idle" /\ IdleJob.copy = Empty /\ IdleJob.temp = {}
    BY EmptyFacts DEF SnapPc, RewPc
  <1>2. None \in ItemType
    BY ItemFacts
  <1>3. TypeOK
    <2>1. aof \in Seq(RecordType) /\ ops \in Seq(RecordType) /\ synced \in 0..Len(aof)
      BY DEF Init
    <2>2. /\ logged \in [Key -> ItemType] /\ allowed \in [Key -> SUBSET ItemType]
          /\ effect \in [Writer -> ItemType] /\ latest \subseteq Writer
      BY <1>2 DEF Init
    <2>3. QED
      BY <1>1, <2>1, <2>2 DEF Init, TypeOK, SnapPc, RewPc
  <1>4. Pending
    BY DEF Init, Pending
  <1>5. Finite
    BY <1>1, FS_EmptySet DEF Init, Finite, Distinct
  <1>6. \A k \in Key : Settled(k) = {None} /\ allowed[k] = {None} /\ cache[k] = None
    BY DEF Init, Settled, Empty
  <1>7. Allowed
    BY <1>6 DEF Allowed
  <1>8. Served
    BY <1>6 DEF Init, Served
  <1>9. CopiesAgree
    BY <1>1 DEF Init, CopiesAgree, CopiesOf
  <1>10. DiskAgrees
    <2> SUFFICES ASSUME NEW k \in Key PROVE DiskOf(k)
      BY DEF DiskAgrees
    <2>1. SetFits(now, {}, k, {None})
      BY RecordFacts DEF SetFits, Fits, StandsFor
    <2>2. FilesFit(now, {}, <<>>, 0, k, {None})
      BY <2>1, FitsWithoutLog
    <2>3. Len(aof) = 0 /\ \A m \in synced..Len(aof) : m = 0
      BY DEF Init
    <2>4. snapFile = {} /\ aof = <<>>
      BY DEF Init
    <2>5. QED
      BY <1>6, <2>2, <2>3, <2>4 DEF DiskOf
  <1>11. Recovering
    BY DEF Init, Recovering
  <1>12. QED
    BY <1>3, <1>4, <1>5, <1>7, <1>8, <1>9, <1>10, <1>11 DEF DiskInv

(***************************************************************************)
(* The types hold throughout: what a job copies and writes, what a crash    *)
(* leaves of the log and what a restart reads are caches, records and logs. *)
(***************************************************************************)
THEOREM PersistenceTyped == Spec => []TypeOK
  <1>1. Init => TypeOK /\ Pending /\ Finite
    BY InitDisk DEF DiskInv
  <1>2. TypeOK /\ Pending /\ Finite /\ [Next]_vars => (TypeOK /\ Pending /\ Finite)'
    BY TypedNext, PendingNext, FiniteNext
  <1>3. QED
    BY <1>1, <1>2, PTL DEF Spec

LEMMA DiskHolds == Spec => []DiskInv
  <1>1. DiskInv /\ [Next]_vars => DiskInv'
    <2> SUFFICES ASSUME DiskInv, [Next]_vars PROVE DiskInv'
      OBVIOUS
    <2>1. TypeOK /\ Pending /\ Finite /\ Allowed /\ Served /\ CopiesAgree /\ DiskAgrees /\ Recovering
      BY DEF DiskInv
    <2>2. TypeOK' /\ Pending' /\ Finite' /\ Allowed'
      BY <2>1, TypedNext, PendingNext, FiniteNext, AllowedNext
    <2>3. Served' /\ CopiesAgree'
      BY <2>1, ServedNext, CopiesNext
    <2>4. DiskAgrees' /\ Recovering'
      BY <2>1, DiskNext, RecoveringNext
    <2>5. QED
      BY <2>2, <2>3, <2>4 DEF DiskInv
  <1>2. QED
    BY <1>1, InitDisk, PTL DEF Spec

(***************************************************************************)
(* Whatever the policy and whatever fails, no write known to be on disk is  *)
(* lost, rolled back or stripped of its expiry outside the named races.     *)
(***************************************************************************)
THEOREM AcknowledgedIsDurable == Spec => []DurableUnlessAtRisk
  <1>1. DiskInv => DurableUnlessAtRisk
    <2> SUFFICES ASSUME DiskInv, NEW k \in Key, k \notin atRisk, k \notin forgotten,
                        NEW m \in synced..Len(aof)
                 PROVE  \E a \in allowed[k] : Agrees(Replay(LoadSnapshot(snapFile), SubSeq(aof, 1, m))[k], a)
      BY DEF DurableUnlessAtRisk, Recoverable
    <2>1. /\ now \in Nat /\ snapFile \subseteq RecordType /\ aof \in Seq(RecordType)
          /\ synced \in 0..Len(aof) /\ Len(aof) \in Nat
      BY DEF DiskInv, TypeOK
    <2>2. m \in 0..Len(aof)
      BY <2>1
    <2>3. FilesFit(now, snapFile, aof, m, k, allowed[k])
      BY DEF DiskInv, DiskAgrees, DiskOf
    <2>4. PICK t : t = SubSeq(aof, 1, m)
      OBVIOUS
    <2>5. t \in Seq(RecordType) /\ Len(t) = m
      BY <2>1, <2>2, <2>4
    <2>6. FilesFit(now, snapFile, t, m, k, allowed[k])
      BY <2>1, <2>2, <2>3, <2>4, FitsPrefix
    <2>7. allowed[k] \subseteq ItemType
      BY DEF DiskInv, TypeOK
    <2>8. QED
      BY <2>1, <2>4, <2>5, <2>6, <2>7, RecoveredFits
  <1>2. QED
    BY <1>1, DiskHolds, PTL

(***************************************************************************)
(* With no write under way a clean restart would serve what is served now,  *)
(* with the same exceptions.                                                *)
(***************************************************************************)
THEOREM FilesStandForCache == Spec => []FilesMatchCache
  <1>1. DiskInv => FilesMatchCache
    <2> SUFFICES ASSUME DiskInv, Quiescent, NEW k \in Key, k \notin atRisk, k \notin forgotten
                 PROVE  Agrees(Recovered(k), cache[k])
      BY DEF FilesMatchCache
    <2>1. now \in Nat /\ snapFile \subseteq RecordType /\ aof \in Seq(RecordType)
      BY DEF DiskInv, TypeOK
    <2>2. cache[k] = logged[k]
      <3>1. latest = {}
        BY DEF DiskInv, TypeOK, Pending, Quiescent
      <3>2. QED
        BY <3>1 DEF DiskInv, Served, Quiescent
    <2>3. Settled(k) = {logged[k]}
      BY SettledDown DEF DiskInv, Quiescent
    <2>4. FilesFit(now, snapFile, aof, Len(aof), k, Settled(k))
      BY DEF DiskInv, DiskAgrees, DiskOf, Quiescent
    <2>5. \E a \in Settled(k) : Agrees(Replay(LoadSnapshot(snapFile), aof)[k], a)
      BY <2>1, <2>4, SettledItems, RecoveredFits DEF DiskInv
    <2>6. QED
      BY <2>2, <2>3, <2>5 DEF Recovered
  <1>2. QED
    BY <1>1, DiskHolds, PTL
================================================================================
