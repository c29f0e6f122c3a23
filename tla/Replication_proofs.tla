--------------------------- MODULE Replication_proofs ---------------------------
(***************************************************************************)
(* Proofs about Replication.tla, for every set of keys, values, clients and *)
(* followers and any number of connections, writes, losses and probes:      *)
(* types, the number of entries in l.followers, and convergence.            *)
(*                                                                          *)
(* All three rest on BaseInv: a write under way carries a record, the cache *)
(* holds finitely many keys (so that the copy is a sequence), and only a    *)
(* connection whose copy has been sent is listed, so that a stream is the   *)
(* copy first and then what was replicated.                                 *)
(*                                                                          *)
(* The entries are counted per id.  Convergence says, of a follower's open  *)
(* connection, what the follower will hold once it has read the stream      *)
(* (Ends): the leader's value, unless the last write of the key is still to *)
(* be sent over this connection (Pending) or was missed.                    *)
(***************************************************************************)
EXTENDS Replication, FiniteSetTheorems, SequenceTheorems, TLAPS

\* A set of naturals has a least element.
LEMMA LeastNat ==
  ASSUME NEW S \in SUBSET Nat, S # {}
  PROVE  \E n \in S : \A m \in S : n <= m
  <1>1. PICK n \in S : \A m \in S : ~(<<m, n>> \in OpToRel(<, Nat))
    BY NatLessThanWellFounded, WFMin
  <1>2. ASSUME NEW m \in S, m < n PROVE FALSE
    <2>1. <<m, n>> \in Nat \X Nat /\ <<m, n>>[1] < <<m, n>>[2]
      BY <1>2
    <2>2. <<m, n>> \in OpToRel(<, Nat)
      BY <2>1 DEF OpToRel
    <2>3. QED
      BY <1>1, <2>2
  <1>3. QED
    BY <1>2

--------------------------------------------------------------------------------
\* Records and streams.

Message == RecordType \cup {SyncEnd}

\* A record writes its key, SYNCEND writes none.
Writes(r, k) == r \in RecordType /\ r.key = k
ValueOf(r) == IF r.type = "SET" THEN r.value ELSE None

\* After the messages of s a cache that held old under k holds v.
Ends(s, old, k, v) ==
  \/ v = old /\ \A i \in 1..Len(s) : ~Writes(s[i], k)
  \/ \E i \in 1..Len(s) :
       /\ Writes(s[i], k) /\ v = ValueOf(s[i])
       /\ \A j \in (i + 1)..Len(s) : ~Writes(s[j], k)

LEMMA RecordFacts ==
  ASSUME NEW r \in RecordType
  PROVE  /\ r.key \in Key /\ ValueOf(r) \in Value \cup {None}
         /\ r # SyncEnd /\ r # NoRecord
  <1>1. CASE r \in {SetRecord(k, v) : k \in Key, v \in Value}
    BY <1>1 DEF SetRecord, ValueOf, SyncEnd, NoRecord
  <1>2. CASE r \in {DelRecord(k) : k \in Key}
    BY <1>2 DEF DelRecord, ValueOf, SyncEnd, NoRecord
  <1>3. QED
    BY <1>1, <1>2 DEF RecordType

\* A record changes its key's value and no other.
LEMMA ApplyFacts ==
  ASSUME NEW r \in RecordType, NEW c \in CacheType
  PROVE  /\ Apply(c, r) \in CacheType
         /\ \A k \in Key : Apply(c, r)[k] = IF Writes(r, k) THEN ValueOf(r) ELSE c[k]
  <1>1. Apply(c, r) = [c EXCEPT ![r.key] = ValueOf(r)]
    BY DEF Apply, ValueOf
  <1>2. QED
    BY <1>1, RecordFacts DEF CacheType, Writes

\* The first message of a stream is applied: the rest ends where the whole did.
LEMMA EndsHead ==
  ASSUME NEW s \in Seq(Message), s # <<>>, NEW old, NEW k, NEW v, Ends(s, old, k, v)
  PROVE  Ends(Tail(s), IF Writes(Head(s), k) THEN ValueOf(Head(s)) ELSE old, k, v)
  <1>1. /\ Len(s) \in Nat /\ Len(s) > 0 /\ Head(s) = s[1]
        /\ Len(Tail(s)) = Len(s) - 1 /\ \A i \in 1..(Len(s) - 1) : Tail(s)[i] = s[i + 1]
    BY HeadTailProperties
  <1>2. CASE v = old /\ \A i \in 1..Len(s) : ~Writes(s[i], k)
    BY <1>1, <1>2 DEF Ends
  <1>3. ASSUME NEW i \in 1..Len(s), Writes(s[i], k), v = ValueOf(s[i]),
               \A j \in (i + 1)..Len(s) : ~Writes(s[j], k)
        PROVE  Ends(Tail(s), IF Writes(Head(s), k) THEN ValueOf(Head(s)) ELSE old, k, v)
    <2>1. CASE i = 1
      <3>1. \A j \in 1..(Len(s) - 1) : ~Writes(Tail(s)[j], k)
        BY <1>1, <1>3, <2>1
      <3>2. QED
        BY <1>1, <1>3, <2>1, <3>1 DEF Ends
    <2>2. CASE i > 1
      <3>1. PICK h \in 1..(Len(s) - 1) : i = h + 1
        BY <1>1, <2>2
      <3>2. Writes(Tail(s)[h], k) /\ v = ValueOf(Tail(s)[h])
        BY <1>1, <1>3, <3>1
      <3>3. \A j \in (h + 1)..(Len(s) - 1) : ~Writes(Tail(s)[j], k)
        BY <1>1, <1>3, <3>1
      <3>4. QED
        BY <1>1, <3>1, <3>2, <3>3 DEF Ends
    <2>3. QED
      BY <2>1, <2>2
  <1>4. QED
    BY <1>2, <1>3 DEF Ends

\* A record is sent after the stream: its key will hold its value, the others what
\* they would have held.
LEMMA EndsAppend ==
  ASSUME NEW s \in Seq(Message), NEW r \in RecordType, NEW old, NEW k
  PROVE  /\ r.key = k => Ends(Append(s, r), old, k, ValueOf(r))
         /\ \A v : r.key # k /\ Ends(s, old, k, v) => Ends(Append(s, r), old, k, v)
  <1> DEFINE t == Append(s, r)
  <1>1. /\ Len(s) \in Nat /\ Len(t) = Len(s) + 1 /\ t[Len(s) + 1] = r
        /\ \A i \in 1..Len(s) : t[i] = s[i]
    BY AppendProperties DEF Message
  <1> HIDE DEF t
  <1>2. CASE r.key = k
    <2>1. \A j \in (Len(s) + 2)..Len(t) : ~Writes(t[j], k)
      BY <1>1
    <2>2. Len(s) + 1 \in 1..Len(t)
      BY <1>1
    <2>3. Writes(t[Len(s) + 1], k)
      BY <1>1, <1>2 DEF Writes
    <2>4. Ends(t, old, k, ValueOf(r))
      BY <1>1, <2>1, <2>2, <2>3 DEF Ends
    <2>5. QED
      BY <1>2, <2>4 DEF t
  <1>3. ASSUME r.key # k, NEW v, Ends(s, old, k, v)
        PROVE  Ends(t, old, k, v)
    <2>1. ~Writes(r, k)
      BY <1>3 DEF Writes
    <2>2. CASE v = old /\ \A i \in 1..Len(s) : ~Writes(s[i], k)
      <3>1. \A i \in 1..Len(t) : ~Writes(t[i], k)
        BY <1>1, <2>1, <2>2
      <3>2. QED
        BY <2>2, <3>1 DEF Ends
    <2>3. ASSUME NEW i \in 1..Len(s), Writes(s[i], k), v = ValueOf(s[i]),
                 \A j \in (i + 1)..Len(s) : ~Writes(s[j], k)
          PROVE  Ends(t, old, k, v)
      <3>1. i \in 1..Len(t) /\ t[i] = s[i]
        BY <1>1
      <3>2. \A j \in (i + 1)..Len(t) : ~Writes(t[j], k)
        BY <1>1, <2>1, <2>3
      <3>3. QED
        BY <2>3, <3>1, <3>2 DEF Ends
    <2>4. QED
      BY <1>3, <2>2, <2>3 DEF Ends
  <1>4. QED
    BY <1>2, <1>3 DEF t

\* What is stored in a cache.
Stored(c) == {k \in Key : c[k] # None}

\* A finite set is enumerated by SetToSeq.
LEMMA SetToSeqFacts ==
  ASSUME NEW S, IsFiniteSet(S)
  PROVE  /\ SetToSeq(S) \in Seq(S)
         /\ \A y \in S : \E i \in 1..Len(SetToSeq(S)) : SetToSeq(S)[i] = y
  <1>1. Cardinality(S) \in Nat /\ ExistsBijection(1..Cardinality(S), S)
    BY FS_CardinalityType
  <1>2. PICK n \in Nat : n = Cardinality(S)
    BY <1>1
  <1>3. PICK g : g \in Bijection(1..n, S)
    BY <1>1, <1>2 DEF ExistsBijection
  <1>4. g \in [1..n -> S] /\ IsInjective(g)
    BY <1>3 DEF Bijection, Injection
  <1>5. PICK f : f = SetToSeq(S)
    OBVIOUS
  <1>6. f \in [1..n -> S] /\ IsInjective(f)
    BY <1>2, <1>4, <1>5 DEF SetToSeq
  <1>7. f \in Injection(1..n, S)
    BY <1>6 DEF Injection
  <1>8. Cardinality(1..n) = n
    BY <1>2, FS_Interval
  <1>9. f \in Surjection(1..n, S)
    BY <1>2, <1>7, <1>8, FS_Injection
  <1>10. f \in Seq(S) /\ Len(f) = n
    BY <1>6
  <1>11. QED
    BY <1>5, <1>9, <1>10 DEF Surjection

\* The copy a follower is sent ends in the leader's cache, but for the keys the
\* cache does not hold: of those it leaves the follower's value.
LEMMA SnapshotFacts ==
  ASSUME NEW c \in CacheType, IsFiniteSet(Stored(c))
  PROVE  /\ SnapshotStream(c) \in Seq(Message)
         /\ \A k \in Key : c[k] # None => \A old : Ends(SnapshotStream(c), old, k, c[k])
         /\ \A k \in Key : c[k] = None => \A old : Ends(SnapshotStream(c), old, k, old)
  <1> DEFINE K == Stored(c)
             R == {SetRecord(k, c[k]) : k \in K}
             g == [k \in K |-> SetRecord(k, c[k])]
  <1>1. IsFiniteSet(R)
    <2>1. g \in Surjection(K, R)
      BY DEF Surjection
    <2>2. QED
      BY <2>1, FS_Surjection
  <1>2. R \subseteq RecordType /\ \A r \in R : r.key \in K /\ ValueOf(r) = c[r.key]
    BY DEF Stored, RecordType, SetRecord, CacheType, ValueOf
  <1>3. \A k \in Key : c[k] # None => SetRecord(k, c[k]) \in R /\ SetRecord(k, c[k]).key = k
    BY DEF Stored, SetRecord
  <1>4. SnapshotStream(c) = Append(SetToSeq(R), SyncEnd)
    BY DEF SnapshotStream, Stored
  <1> HIDE DEF R, g
  <1>5. PICK s : s = SetToSeq(R)
    OBVIOUS
  <1>6. s \in Seq(R) /\ \A y \in R : \E i \in 1..Len(s) : s[i] = y
    BY <1>1, <1>5, SetToSeqFacts
  <1>7. s \in Seq(Message) /\ SyncEnd \in Message /\ \A i \in 1..Len(s) : s[i] \in R
    BY <1>2, <1>6 DEF Message
  <1>8. \A k : ~Writes(SyncEnd, k)
    BY RecordFacts DEF Writes
  <1>9. PICK t : t = Append(s, SyncEnd)
    OBVIOUS
  <1>10. /\ t \in Seq(Message) /\ Len(s) \in Nat /\ Len(t) = Len(s) + 1 /\ t[Len(s) + 1] = SyncEnd
         /\ \A i \in 1..Len(s) : t[i] = s[i]
    BY <1>7, <1>9, AppendProperties
  <1>11. \A i \in 1..Len(t) : \A k \in Key :
           Writes(t[i], k) => t[i] \in R /\ k \in K /\ ValueOf(t[i]) = c[k]
    <2> SUFFICES ASSUME NEW i \in 1..Len(t), NEW k \in Key, Writes(t[i], k)
                 PROVE  t[i] \in R /\ k \in K /\ ValueOf(t[i]) = c[k]
      OBVIOUS
    <2>1. i \in 1..Len(s)
      BY <1>8, <1>10
    <2>2. QED
      BY <1>2, <1>7, <1>10, <2>1 DEF Writes
  <1>12. ASSUME NEW k \in Key, c[k] = None, NEW old
         PROVE  Ends(t, old, k, old)
    BY <1>11, <1>12 DEF Ends, Stored
  <1>13. ASSUME NEW k \in Key, c[k] # None, NEW old
         PROVE  Ends(t, old, k, c[k])
    <2> DEFINE W == {i \in 1..Len(t) : Writes(t[i], k)}
               N == {n \in Nat : \E i \in W : n = Len(t) - i}
    <2>1. W # {}
      <3>1. PICK i \in 1..Len(s) : s[i] = SetRecord(k, c[k])
        BY <1>3, <1>6, <1>13
      <3>2. Writes(t[i], k) /\ i \in 1..Len(t)
        BY <1>2, <1>3, <1>10, <1>13, <3>1 DEF Writes
      <3>3. QED
        BY <3>2
    <2>2. PICK n \in N : \A m \in N : n <= m
      <3>1. PICK i \in W : TRUE
        BY <2>1
      <3>2. Len(t) - i \in Nat
        BY <1>10
      <3>3. Len(t) - i \in N
        BY <3>1, <3>2
      <3>4. N \in SUBSET Nat /\ N # {}
        BY <3>3
      <3>5. QED
        BY <3>4, LeastNat
    <2>3. PICK i \in W : n = Len(t) - i
      BY <2>2
    <2>4. ASSUME NEW j \in (i + 1)..Len(t), Writes(t[j], k) PROVE FALSE
      <3>1. i \in 1..Len(t) /\ Len(t) \in Nat
        BY <1>10
      <3>2. j \in W /\ Len(t) - j \in Nat /\ Len(t) - j < n
        BY <2>3, <2>4, <3>1
      <3>3. Len(t) - j \in N
        BY <3>2
      <3>4. n <= Len(t) - j
        BY <2>2, <3>3
      <3>5. QED
        BY <2>3, <3>1, <3>2, <3>4
    <2>5. QED
      BY <1>11, <2>3, <2>4 DEF Ends
  <1>14. QED
    BY <1>4, <1>5, <1>9, <1>10, <1>12, <1>13

--------------------------------------------------------------------------------
\* The list of followers.

\* The positions of s that hold a link of id.
Entries(s, id) == {i \in 1..Len(s) : link[s[i]].id = id}

LEMMA EntriesFinite ==
  ASSUME NEW s \in Seq(Link), NEW id
  PROVE  IsFiniteSet(Entries(s, id)) /\ Cardinality(Entries(s, id)) \in Nat
  <1>1. Len(s) \in Nat
    OBVIOUS
  <1>2. IsFiniteSet(1..Len(s))
    BY <1>1, FS_Interval
  <1>3. Entries(s, id) \in SUBSET (1..Len(s))
    BY DEF Entries
  <1>4. QED
    BY <1>2, <1>3, FS_Subset, FS_CardinalityType

\* removeFollower takes out one entry of the id, if there is one, and moves the
\* last entry to its place: of no other id the number of entries changes.
LEMMA RemovalFacts ==
  ASSUME NEW s \in Seq(Link), NEW id, NEW t, t = WithoutFirstOf(s, id)
  PROVE  /\ t \in Seq(Link)
         /\ \A i \in 1..Len(t) : \E j \in 1..Len(s) : t[i] = s[j]
         /\ \A g : g # id => Cardinality(Entries(t, g)) = Cardinality(Entries(s, g))
         /\ Entries(s, id) # {} =>
              Cardinality(Entries(t, id)) = Cardinality(Entries(s, id)) - 1
  <1>1. Len(s) \in Nat
    OBVIOUS
  <1>2. CASE Entries(s, id) = {}
    BY <1>2 DEF Entries, WithoutFirstOf
  <1>3. CASE Entries(s, id) # {}
    <2>1. \E j \in 1..Len(s) : link[s[j]].id = id /\ \A h \in 1..(j - 1) : link[s[h]].id # id
      <3>1. Entries(s, id) \in SUBSET Nat
        BY <1>1 DEF Entries
      <3>2. PICK j \in Entries(s, id) : \A h \in Entries(s, id) : j <= h
        BY <1>3, <3>1, LeastNat
      <3>3. QED
        BY <1>1, <3>2 DEF Entries
    <2>2. PICK i : i = CHOOSE j \in 1..Len(s) :
                         link[s[j]].id = id /\ \A h \in 1..(j - 1) : link[s[h]].id # id
      OBVIOUS
    <2>3. i \in 1..Len(s) /\ link[s[i]].id = id
      BY <2>1, <2>2
    <2>4. PICK n \in Nat : n = Len(s) /\ n > 0
      BY <1>1, <2>3
    <2>5. PICK m : m = [s EXCEPT ![i] = s[n]]
      OBVIOUS
    <2>6. t = SubSeq(m, 1, n - 1)
      <3>1. ~(\A j \in 1..Len(s) : link[s[j]].id # id)
        BY <2>3
      <3>2. QED
        BY <2>2, <2>4, <2>5, <3>1 DEF WithoutFirstOf
    <2>7. \A j \in 1..n : m[j] = IF j = i THEN s[n] ELSE s[j]
      BY <2>3, <2>4, <2>5, ExceptSeq
    <2>8. s[n] \in Link /\ \A j \in 1..n : m[j] \in Link
      BY <2>4, <2>7
    <2>9. /\ t \in Seq(Link) /\ Len(t) = n - 1
          /\ \A j \in 1..(n - 1) : t[j] = IF j = i THEN s[n] ELSE s[j]
      <3>1. /\ SubSeq(m, 1, n - 1) \in Seq(Link)
            /\ Len(SubSeq(m, 1, n - 1)) = IF 1 <= n - 1 THEN (n - 1) - 1 + 1 ELSE 0
            /\ \A j \in 1..((n - 1) - 1 + 1) : SubSeq(m, 1, n - 1)[j] = m[1 + j - 1]
        BY <2>8, SubSeqProperties
      <3>2. QED
        BY <2>4, <2>6, <2>7, <3>1
    <2>10. \A j \in 1..Len(t) : \E h \in 1..Len(s) : t[j] = s[h]
      BY <2>4, <2>9
    <2>11. Cardinality(Entries(t, id)) = Cardinality(Entries(s, id)) - 1
      <3>1. CASE link[s[n]].id = id
        <4>1. Entries(t, id) = Entries(s, id) \ {n} /\ n \in Entries(s, id)
          BY <2>3, <2>4, <2>9, <3>1 DEF Entries
        <4>2. QED
          BY <4>1, EntriesFinite, FS_RemoveElement
      <3>2. CASE link[s[n]].id # id
        <4>1. i # n
          BY <2>3, <3>2
        <4>2. Entries(t, id) = Entries(s, id) \ {i} /\ i \in Entries(s, id)
          BY <2>3, <2>4, <2>9, <3>2, <4>1 DEF Entries
        <4>3. QED
          BY <4>2, EntriesFinite, FS_RemoveElement
      <3>3. QED
        BY <3>1, <3>2
    <2>12. ASSUME NEW g, g # id
           PROVE  Cardinality(Entries(t, g)) = Cardinality(Entries(s, g))
      <3>1. i \notin Entries(s, g)
        BY <2>3, <2>12 DEF Entries
      <3>2. CASE link[s[n]].id = g
        <4>1. i # n /\ n \in Entries(s, g)
          BY <2>3, <2>4, <2>12, <3>2 DEF Entries
        <4>2. Entries(t, g) = (Entries(s, g) \ {n}) \cup {i}
          BY <2>3, <2>4, <2>9, <2>12, <3>2, <4>1 DEF Entries
        <4>3. PICK E : E = Entries(s, g) \ {n}
          OBVIOUS
        <4>4. IsFiniteSet(E) /\ Cardinality(E) = Cardinality(Entries(s, g)) - 1
          BY <4>1, <4>3, EntriesFinite, FS_RemoveElement
        <4>5. Cardinality(E \cup {i}) = Cardinality(E) + 1
          BY <3>1, <4>3, <4>4, FS_AddElement
        <4>6. QED
          BY <4>2, <4>3, <4>4, <4>5, EntriesFinite
      <3>3. CASE link[s[n]].id # g
        <4>1. Entries(t, g) = Entries(s, g)
          BY <2>3, <2>4, <2>9, <2>12, <3>3 DEF Entries
        <4>2. QED
          BY <4>1
      <3>4. QED
        BY <3>2, <3>3
    <2>13. QED
      BY <2>9, <2>10, <2>11, <2>12, <1>3
  <1>4. QED
    BY <1>2, <1>3

\* The connection that is opened had not been used.
LEMMA OpensUnused ==
  ASSUME NEW f, NEW x \in Link, NEW open, Opens(f, x, open)
  PROVE  link[x].handler = "unused"
  <1> DEFINE U == {y \in Link : link[y].handler = "unused"} \cup {MaxLinks + 1}
  <1>1. MaxLinks \in Nat /\ U \in SUBSET Nat /\ U # {}
    BY BoundAssumption DEF Link
  <1>2. \E n \in U : \A m \in U : n <= m
    BY <1>1, LeastNat
  <1>3. x = CHOOSE n \in U : \A m \in U : n =< m
    BY DEF Opens, Min
  <1>4. x \in U /\ x # MaxLinks + 1
    BY <1>1, <1>2, <1>3 DEF Link
  <1>5. QED
    BY <1>4

--------------------------------------------------------------------------------
\* The link x becomes r, the others stay.  What each action makes of its link:

Becomes(x, r) == r \in LinkType /\ link' = [link EXCEPT ![x] = r]

LEMMA BecomesFacts ==
  ASSUME TypeOK, NEW x \in Link, NEW r, Becomes(x, r)
  PROVE  /\ link' \in [Link -> LinkType] /\ link'[x] = r
         /\ \A y \in Link : y # x => link'[y] = link[y]
  BY DEF Becomes, TypeOK

LEMMA SendLink ==
  ASSUME TypeOK, NEW w \in Writer, ReplicateSend(w), op[w] \in RecordType,
         NEW x, x = Head(targets[w])
  PROVE  x \in Link /\ \E r : /\ Becomes(x, r)
                              /\ r.id = link[x].id /\ r.handler = link[x].handler
                              /\ r.open = link[x].open /\ r.copy = link[x].copy
                              /\ r.stream = Send(x, op[w])
  <1>1. targets[w] \in Seq(Link) /\ targets[w] # <<>>
    BY DEF TypeOK, ReplicateSend
  <1>2. x \in Link
    BY <1>1, HeadTailProperties
  <1>3. PICK l \in LinkType : l = link[x]
    BY <1>2 DEF TypeOK
  <1>4. Send(x, op[w]) \in Seq(Message)
    BY <1>3 DEF Send, LinkType, Message
  <1>5. PICK t \in Seq(Message) : t = Send(x, op[w])
    BY <1>4
  <1>6. PICK r : r = [l EXCEPT !.stream = t]
    OBVIOUS
  <1>7. /\ r \in LinkType /\ r.id = l.id /\ r.handler = l.handler /\ r.open = l.open
        /\ r.copy = l.copy /\ r.stream = t
    BY <1>6 DEF LinkType, Message
  <1>8. link' = [link EXCEPT ![x] = r]
    BY <1>3, <1>5, <1>6 DEF ReplicateSend
  <1>9. QED
    BY <1>2, <1>3, <1>5, <1>7, <1>8 DEF Becomes

LEMMA SnapshotLink ==
  ASSUME TypeOK, IsFiniteSet(Stored(cache)), NEW x \in Link, SendSnapshot(x)
  PROVE  \E r : /\ Becomes(x, r)
                /\ r.id = link[x].id /\ r.handler = "sent"
                /\ r.open = link[x].open /\ r.copy = cache
                /\ r.open => r.stream = SnapshotStream(cache)
  <1>1. PICK l \in LinkType : l = link[x]
    BY DEF TypeOK
  <1>2. PICK c \in CacheType : c = cache
    BY DEF TypeOK
  <1>3. PICK t \in Seq(Message) : t = IF l.open THEN SnapshotStream(c) ELSE <<>>
    <2>1. SnapshotStream(c) \in Seq(Message) /\ <<>> \in Seq(Message)
      BY <1>2, SnapshotFacts
    <2>2. QED
      BY <2>1
  <1>4. PICK r : r = [l EXCEPT !.handler = "sent", !.copy = c, !.stream = t]
    OBVIOUS
  <1>5. /\ r \in LinkType /\ r.id = l.id /\ r.handler = "sent" /\ r.open = l.open
        /\ r.copy = c /\ r.stream = t
    BY <1>4 DEF LinkType, Message
  <1>6. link' = [link EXCEPT ![x] = r]
    BY <1>1, <1>2, <1>3, <1>4 DEF SendSnapshot
  <1>7. QED
    BY <1>1, <1>2, <1>3, <1>5, <1>6 DEF Becomes

LEMMA NoMessages == <<>> \in Seq(Message)
  BY EmptySeq

LEMMA EmptyCache == Empty \in CacheType
  BY DEF Empty, CacheType

LEMMA UnusedType ==
  /\ Unused \in LinkType
  /\ Unused.id = NoId /\ Unused.handler = "unused" /\ Unused.open = FALSE /\ Unused.stream = <<>>
  <1>1. PICK t \in Seq(Message) : t = <<>>
    BY NoMessages
  <1>2. Unused = [id |-> NoId, handler |-> "unused", open |-> FALSE, stream |-> t, copy |-> Empty]
    BY <1>1 DEF Unused
  <1>3. QED
    BY <1>1, <1>2, EmptyCache DEF LinkType, Message

LEMMA SyncFailsLink ==
  ASSUME NEW x \in Link, SyncFails(x)
  PROVE  \E r : Becomes(x, r) /\ r.handler = "ended" /\ ~r.open
  <1>1. PICK u \in LinkType : u = Unused /\ u.open = FALSE
    BY UnusedType
  <1>2. PICK r : r = [u EXCEPT !.handler = "ended"]
    OBVIOUS
  <1>3. r \in LinkType /\ r.handler = "ended" /\ r.open = FALSE
    BY <1>1, <1>2 DEF LinkType
  <1>4. link' = [link EXCEPT ![x] = r]
    BY <1>1, <1>2 DEF SyncFails
  <1>5. QED
    BY <1>3, <1>4 DEF Becomes

LEMMA AddLink ==
  ASSUME TypeOK, NEW x \in Link, addFollower(x)
  PROVE  \E r : /\ Becomes(x, r)
                /\ r.id = link[x].id /\ r.handler = "tracked"
                /\ r.open = link[x].open /\ r.stream = link[x].stream
  <1>1. PICK l \in LinkType : l = link[x]
    BY DEF TypeOK
  <1>2. PICK r : r = [l EXCEPT !.handler = "tracked", !.copy = Empty]
    OBVIOUS
  <1>3. /\ r \in LinkType /\ r.id = l.id /\ r.handler = "tracked" /\ r.open = l.open
        /\ r.stream = l.stream
    BY <1>2, EmptyCache DEF LinkType
  <1>4. link' = [link EXCEPT ![x] = r]
    BY <1>1, <1>2 DEF addFollower
  <1>5. QED
    BY <1>1, <1>3, <1>4 DEF Becomes

LEMMA RemoveLink ==
  ASSUME TypeOK, NEW x \in Link, removeFollower(x)
  PROVE  \E r : /\ Becomes(x, r)
                /\ r.id = link[x].id /\ r.handler = "ended" /\ r.open = link[x].open
  <1>1. PICK l \in LinkType : l = link[x]
    BY DEF TypeOK
  <1>2. PICK t \in Seq(Message) : t = <<>>
    BY NoMessages
  <1>3. PICK r : r = [l EXCEPT !.handler = "ended", !.stream = t]
    OBVIOUS
  <1>4. r \in LinkType /\ r.id = l.id /\ r.handler = "ended" /\ r.open = l.open
    BY <1>3 DEF LinkType, Message
  <1>5. link' = [link EXCEPT ![x] = r]
    BY <1>1, <1>2, <1>3 DEF removeFollower
  <1>6. QED
    BY <1>1, <1>4, <1>5 DEF Becomes

LEMMA OpensLink ==
  ASSUME NEW f \in Follower, NEW x \in Link, NEW open \in BOOLEAN, Opens(f, x, open)
  PROVE  \E r : /\ Becomes(x, r)
                /\ r.id = f /\ r.handler = "accepted" /\ r.open = open
  <1>1. PICK u \in LinkType : u = Unused
    BY UnusedType
  <1>2. PICK r : r = [u EXCEPT !.id = f, !.handler = "accepted", !.open = open]
    OBVIOUS
  <1>3. r \in LinkType /\ r.id = f /\ r.handler = "accepted" /\ r.open = open
    BY <1>2 DEF LinkType
  <1>4. link' = [link EXCEPT ![x] = r]
    BY <1>1, <1>2 DEF Opens
  <1>5. QED
    BY <1>3, <1>4 DEF Becomes

LEMMA ReceiveLink ==
  ASSUME TypeOK, NEW f \in Follower, Receive(f), NEW x, x = current[f]
  PROVE  x \in Link /\ \E r : /\ Becomes(x, r)
                              /\ r.id = link[x].id /\ r.handler = link[x].handler
                              /\ r.open = link[x].open /\ r.copy = link[x].copy
                              /\ r.stream = Tail(link[x].stream)
  <1>1. x \in Link /\ link[x].stream # <<>>
    BY DEF Receive, TypeOK
  <1>2. PICK l \in LinkType : l = link[x]
    BY <1>1 DEF TypeOK
  <1>3. PICK t \in Seq(Message) : t = Tail(l.stream)
    BY <1>1, <1>2, HeadTailProperties DEF LinkType, Message
  <1>4. PICK r : r = [l EXCEPT !.stream = t]
    OBVIOUS
  <1>5. /\ r \in LinkType /\ r.id = l.id /\ r.handler = l.handler /\ r.open = l.open
        /\ r.copy = l.copy /\ r.stream = t
    BY <1>4 DEF LinkType, Message
  <1>6. link' = [link EXCEPT ![x] = r]
    BY <1>2, <1>3, <1>4 DEF Receive
  <1>7. QED
    BY <1>1, <1>2, <1>3, <1>5, <1>6 DEF Becomes

LEMMA BreaksLink ==
  ASSUME TypeOK, NEW x \in Link, LinkBreaks(x)
  PROVE  \E r : /\ Becomes(x, r)
                /\ r.id = link[x].id /\ r.handler = link[x].handler /\ ~r.open
  <1>1. PICK l \in LinkType : l = link[x]
    BY DEF TypeOK
  <1>2. PICK r : r = [l EXCEPT !.open = FALSE]
    OBVIOUS
  <1>3. r \in LinkType /\ r.id = l.id /\ r.handler = l.handler /\ r.open = FALSE
    BY <1>2 DEF LinkType
  <1>4. link' = [link EXCEPT ![x] = r]
    BY <1>1, <1>2 DEF LinkBreaks
  <1>5. QED
    BY <1>1, <1>3, <1>4 DEF Becomes

LEMMA CloseLink ==
  ASSUME TypeOK, NEW f \in Follower, closeConn(f)
  PROVE  \/ /\ current[f] = NoLink /\ mode[f] = "dial"
            /\ UNCHANGED <<link, current, mode>>
         \/ /\ current[f] \in Link
            /\ current' = [current EXCEPT ![f] = NoLink] /\ mode' = [mode EXCEPT ![f] = "dial"]
            /\ \E r : /\ Becomes(current[f], r)
                      /\ r.id = link[current[f]].id /\ r.handler = link[current[f]].handler
                      /\ ~r.open
  <1>1. CASE current[f] = NoLink
    BY <1>1 DEF closeConn, TypeOK
  <1>2. CASE current[f] # NoLink
    <2>1. PICK x \in Link : x = current[f]
      BY <1>2 DEF TypeOK
    <2>2. PICK l \in LinkType : l = link[x]
      BY DEF TypeOK
    <2>3. PICK t \in Seq(Message) : t = <<>>
      BY NoMessages
    <2>4. PICK r : r = [l EXCEPT !.open = FALSE, !.stream = t]
      OBVIOUS
    <2>5. r \in LinkType /\ r.id = l.id /\ r.handler = l.handler /\ r.open = FALSE
      BY <2>4 DEF LinkType, Message
    <2>6. link' = [link EXCEPT ![x] = r]
      BY <1>2, <2>1, <2>2, <2>3, <2>4 DEF closeConn
    <2>7. current' = [current EXCEPT ![f] = NoLink] /\ mode' = [mode EXCEPT ![f] = "dial"]
      BY <1>2 DEF closeConn
    <2>8. QED
      BY <2>1, <2>2, <2>5, <2>6, <2>7 DEF Becomes
  <1>3. QED
    BY <1>1, <1>2

--------------------------------------------------------------------------------
\* The invariant on which both results rest.

StoredFinite == IsFiniteSet(Stored(cache))

InFlight == \A w \in Writer : pc[w] # "idle" => op[w] \in RecordType

\* The link is in the list, or in the copy of it a Replicate is working on.
Listed(x) ==
  \/ \E i \in 1..Len(followers) : followers[i] = x
  \/ \E w \in Writer : \E i \in 1..Len(targets[w]) : targets[w][i] = x

\* Nothing is replicated to a connection that is still being synchronised.
Settled == \A x \in Link : Listed(x) => link[x].handler \in {"tracked", "ended"}

BaseInv == TypeOK /\ StoredFinite /\ InFlight /\ Settled

LEMMA BaseInit == Init => BaseInv
  <1> SUFFICES ASSUME Init PROVE BaseInv
    OBVIOUS
  <1>1. \A x \in Link : ~Listed(x)
    BY EmptySeq DEF Init, Listed
  <1>2. StoredFinite
    <2>1. Stored(cache) = {}
      BY DEF Init, Empty, Stored
    <2>2. QED
      BY <2>1, FS_EmptySet DEF StoredFinite
  <1>3. TypeOK
    BY EmptyCache, UnusedType, EmptySeq DEF Init, TypeOK, NoLink
  <1>4. QED
    BY <1>1, <1>2, <1>3 DEF BaseInv, InFlight, Settled, Init

LEMMA BaseWrite ==
  ASSUME BaseInv, NEW w \in Writer, NEW r \in RecordType, CacheWrite(w, r)
  PROVE  BaseInv'
  <1>1. cache \in CacheType /\ cache' = Apply(cache, r)
    BY DEF BaseInv, TypeOK, CacheWrite
  <1>2. /\ cache' \in CacheType
        /\ \A k \in Key : cache'[k] = IF Writes(r, k) THEN ValueOf(r) ELSE cache[k]
    BY <1>1, ApplyFacts
  <1>3. TypeOK'
    BY <1>2 DEF BaseInv, TypeOK, CacheWrite, followerVars
  <1>4. StoredFinite'
    <2>1. PICK S : S = Stored(cache)
      OBVIOUS
    <2>2. PICK T : T = Stored(cache')
      OBVIOUS
    <2>3. T \in SUBSET (S \cup {r.key})
      BY <1>2, <2>1, <2>2 DEF Stored, Writes
    <2>4. IsFiniteSet(S \cup {r.key})
      BY <2>1, FS_AddElement DEF BaseInv, StoredFinite
    <2>5. IsFiniteSet(T)
      BY <2>3, <2>4, FS_Subset
    <2>6. QED
      BY <2>2, <2>5 DEF StoredFinite, Stored
  <1>5. InFlight'
    BY DEF BaseInv, TypeOK, CacheWrite, InFlight
  <1>6. Settled'
    BY DEF BaseInv, Settled, Listed, CacheWrite
  <1>7. QED
    BY <1>3, <1>4, <1>5, <1>6 DEF BaseInv

LEMMA BaseCopy ==
  ASSUME BaseInv, NEW w \in Writer, ReplicateCopy(w)
  PROVE  BaseInv'
  <1>1. /\ targets' = [targets EXCEPT ![w] = followers] /\ pc' = [pc EXCEPT ![w] = "send"]
        /\ pc[w] = "replicate"
        /\ UNCHANGED <<cache, followers, op, writes, latest, link, followerVars, breaks, probes>>
    BY DEF ReplicateCopy, FollowersCopy
  <1>2. missed' \in [Follower -> SUBSET Key]
    <2>1. op[w] \in RecordType
      BY <1>1 DEF BaseInv, InFlight
    <2>2. PICK k \in Key : k = op[w].key
      BY <2>1, RecordFacts
    <2>3. \A f \in Follower : MissedBy(f, k) \subseteq Key
      BY DEF MissedBy
    <2>4. QED
      BY <2>2, <2>3 DEF ReplicateCopy, BaseInv, TypeOK
  <1>3. TypeOK'
    BY <1>1, <1>2 DEF BaseInv, TypeOK, followerVars
  <1>4. StoredFinite' /\ InFlight'
    BY <1>1 DEF BaseInv, TypeOK, StoredFinite, Stored, InFlight
  <1>5. Settled'
    <2>1. \A x \in Link : Listed(x)' => Listed(x)
      BY <1>1 DEF BaseInv, TypeOK, Listed
    <2>2. QED
      BY <1>1, <2>1 DEF BaseInv, Settled
  <1>6. QED
    BY <1>3, <1>4, <1>5 DEF BaseInv

LEMMA BaseSend ==
  ASSUME BaseInv, NEW w \in Writer, ReplicateSend(w)
  PROVE  BaseInv'
  <1>1. PICK x : x = Head(targets[w])
    OBVIOUS
  <1>2. op[w] \in RecordType
    BY DEF ReplicateSend, BaseInv, InFlight
  <1>3. x \in Link
    BY <1>1, <1>2, SendLink DEF BaseInv
  <1>4. PICK r : Becomes(x, r) /\ r.handler = link[x].handler
    BY <1>1, <1>2, SendLink DEF BaseInv
  <1>5. PICK s \in Seq(Link) : s = targets[w] /\ s # <<>>
    BY DEF BaseInv, TypeOK, ReplicateSend
  <1>6. /\ Tail(s) \in Seq(Link)
        /\ \A i \in 1..Len(Tail(s)) : i + 1 \in 1..Len(s) /\ Tail(s)[i] = s[i + 1]
    BY <1>5, HeadTailProperties
  <1>7. /\ targets' = [targets EXCEPT ![w] = Tail(s)]
        /\ UNCHANGED <<cache, followers, pc, op, writes, latest, followerVars, breaks, probes>>
    BY <1>5 DEF ReplicateSend
  <1>8. TypeOK'
    <2>1. missed' \in [Follower -> SUBSET Key]
      <3>1. PICK k \in Key : k = op[w].key
        BY <1>2, RecordFacts
      <3>2. \A f \in Follower : missed[f] \in SUBSET Key
        BY DEF BaseInv, TypeOK
      <3>3. \A f \in Follower : MissedAfter(f, w, x) \in {missed[f], missed[f] \ {k}, missed[f] \cup {k}}
        BY <3>1 DEF MissedAfter
      <3>4. \A f \in Follower : MissedAfter(f, w, x) \in SUBSET Key
        BY <3>2, <3>3
      <3>5. QED
        BY <1>1, <3>4 DEF ReplicateSend
    <2>2. QED
      BY <1>3, <1>4, <1>6, <1>7, <2>1, BecomesFacts DEF BaseInv, TypeOK, followerVars
  <1>9. StoredFinite' /\ InFlight'
    BY <1>7 DEF BaseInv, StoredFinite, Stored, InFlight
  <1>10. Settled'
    <2>1. \A y \in Link : Listed(y)' => Listed(y)
      BY <1>5, <1>6, <1>7 DEF BaseInv, TypeOK, Listed
    <2>2. \A y \in Link : link'[y].handler = link[y].handler
      BY <1>3, <1>4, BecomesFacts DEF BaseInv
    <2>3. QED
      BY <2>1, <2>2 DEF BaseInv, Settled
  <1>11. QED
    BY <1>8, <1>9, <1>10 DEF BaseInv

LEMMA BaseDone ==
  ASSUME BaseInv, NEW w \in Writer, ReplicateDone(w)
  PROVE  BaseInv'
  <1>1. TypeOK'
    BY DEF BaseInv, TypeOK, ReplicateDone, followerVars
  <1>2. StoredFinite' /\ InFlight'
    BY DEF BaseInv, TypeOK, StoredFinite, Stored, InFlight, ReplicateDone
  <1>3. Settled'
    BY DEF BaseInv, Settled, Listed, ReplicateDone
  <1>4. QED
    BY <1>1, <1>2, <1>3 DEF BaseInv

\* A step of the connections: cache, writers and copies stay, one link becomes r.
LEMMA BaseLink ==
  ASSUME BaseInv, NEW x \in Link, NEW r, Becomes(x, r),
         link[x].handler \in {"tracked", "ended"} => r.handler \in {"tracked", "ended"},
         UNCHANGED <<cache, pc, op, targets, writes, latest>>,
         followers' \in Seq(Link),
         \A i \in 1..Len(followers') :
           \/ \E j \in 1..Len(followers) : followers'[i] = followers[j]
           \/ followers'[i] = x /\ r.handler \in {"tracked", "ended"},
         replica' \in [Follower -> CacheType],
         current' \in [Follower -> Link \cup {NoLink}],
         mode' \in [Follower -> {"dial", "sync", "stream"}],
         monitors' \in [Follower -> Nat], electing' \in [Follower -> Nat],
         breaks' \in Nat, probes' \in Nat, missed' \in [Follower -> SUBSET Key],
         \A f \in Follower : current'[f] = NoLink <=> mode'[f] = "dial"
  PROVE  BaseInv'
  <1>1. TypeOK'
    <2>1. link' \in [Link -> LinkType]
      BY BecomesFacts DEF BaseInv
    <2>2. QED
      BY <2>1 DEF BaseInv, TypeOK
  <1>2. StoredFinite' /\ InFlight'
    BY DEF BaseInv, StoredFinite, Stored, InFlight
  <1>3. Settled'
    <2> SUFFICES ASSUME NEW y \in Link, Listed(y)'
                 PROVE  link'[y].handler \in {"tracked", "ended"}
      BY DEF Settled
    <2>1. link'[x] = r /\ (y # x => link'[y] = link[y])
      BY BecomesFacts DEF BaseInv
    <2>2. Listed(y) \/ (y = x /\ r.handler \in {"tracked", "ended"})
      BY DEF Listed
    <2>3. QED
      BY <2>1, <2>2 DEF BaseInv, Settled
  <1>4. QED
    BY <1>1, <1>2, <1>3 DEF BaseInv

\* For the steps that leave the list of followers alone.
LEMMA SameList ==
  ASSUME BaseInv, followers' = followers
  PROVE  /\ followers' \in Seq(Link)
         /\ \A i \in 1..Len(followers') : \E j \in 1..Len(followers) : followers'[i] = followers[j]
  BY DEF BaseInv, TypeOK

LEMMA BaseHandler ==
  ASSUME BaseInv, NEW x \in Link, handleFollower(x)
  PROVE  BaseInv'
  <1>1. CASE SendSnapshot(x)
    <2>1. PICK r : Becomes(x, r) /\ r.handler = "sent"
      BY <1>1, SnapshotLink DEF BaseInv, StoredFinite
    <2>2. UNCHANGED <<leaderVars, followerVars, breaks, probes>> /\ link[x].handler = "accepted"
      BY <1>1 DEF SendSnapshot
    <2>3. missed' \in [Follower -> SUBSET Key]
      BY <1>1 DEF SendSnapshot, Deleted, BaseInv, TypeOK
    <2>4. QED
      BY <2>1, <2>2, <2>3, SameList, BaseLink DEF BaseInv, TypeOK, leaderVars, followerVars
  <1>2. CASE SyncFails(x)
    <2>1. PICK r : Becomes(x, r) /\ r.handler = "ended"
      BY <1>2, SyncFailsLink
    <2>2. UNCHANGED <<leaderVars, followerVars, breaks, probes, missed>>
      BY <1>2 DEF SyncFails
    <2>3. QED
      BY <2>1, <2>2, SameList, BaseLink DEF BaseInv, TypeOK, leaderVars, followerVars
  <1>3. CASE addFollower(x)
    <2>1. PICK r : Becomes(x, r) /\ r.handler = "tracked"
      BY <1>3, AddLink DEF BaseInv
    <2>2. /\ followers' = Append(followers, x)
          /\ UNCHANGED <<cache, pc, op, targets, writes, latest, followerVars, breaks, probes, missed>>
      BY <1>3 DEF addFollower
    <2>3. /\ followers' \in Seq(Link)
          /\ \A i \in 1..Len(followers') :
               \/ \E j \in 1..Len(followers) : followers'[i] = followers[j]
               \/ followers'[i] = x
      BY <2>2, AppendProperties DEF BaseInv, TypeOK
    <2>4. QED
      BY <2>1, <2>2, <2>3, BaseLink DEF BaseInv, TypeOK, followerVars
  <1>4. CASE removeFollower(x)
    <2>1. PICK r : Becomes(x, r) /\ r.handler = "ended"
      BY <1>4, RemoveLink DEF BaseInv
    <2>2. /\ followers' = WithoutFirstOf(followers, link[x].id)
          /\ UNCHANGED <<cache, pc, op, targets, writes, latest, followerVars, breaks, probes, missed>>
      BY <1>4 DEF removeFollower
    <2>3. PICK t : t = WithoutFirstOf(followers, link[x].id)
      OBVIOUS
    <2>4. t \in Seq(Link) /\ \A i \in 1..Len(t) : \E j \in 1..Len(followers) : t[i] = followers[j]
      BY <2>3, RemovalFacts DEF BaseInv, TypeOK
    <2>5. /\ followers' \in Seq(Link)
          /\ \A i \in 1..Len(followers') : \E j \in 1..Len(followers) : followers'[i] = followers[j]
      BY <2>2, <2>3, <2>4
    <2>6. QED
      BY <2>1, <2>2, <2>5, BaseLink DEF BaseInv, TypeOK, followerVars
  <1>5. QED
    BY <1>1, <1>2, <1>3, <1>4 DEF handleFollower

LEMMA BaseBreaks ==
  ASSUME BaseInv, NEW x \in Link, LinkBreaks(x)
  PROVE  BaseInv'
  <1>1. PICK r : Becomes(x, r) /\ r.handler = link[x].handler
    BY BreaksLink DEF BaseInv
  <1>2. UNCHANGED <<leaderVars, followerVars, probes, missed>> /\ breaks' = breaks + 1
    BY DEF LinkBreaks
  <1>3. breaks' \in Nat
    BY <1>2 DEF BaseInv, TypeOK
  <1>4. QED
    BY <1>1, <1>2, <1>3, SameList, BaseLink DEF BaseInv, TypeOK, leaderVars, followerVars

LEMMA BaseReceive ==
  ASSUME BaseInv, NEW f \in Follower, Receive(f)
  PROVE  BaseInv'
  <1>1. PICK x \in Link : x = current[f]
    BY DEF Receive, BaseInv, TypeOK
  <1>2. PICK r : Becomes(x, r) /\ r.handler = link[x].handler
    BY <1>1, ReceiveLink DEF BaseInv
  <1>3. PICK m \in Message : m = Head(link[x].stream)
    <2>1. link[x].stream \in Seq(Message) /\ link[x].stream # <<>>
      BY <1>1 DEF Receive, BaseInv, TypeOK, LinkType, Message
    <2>2. QED
      BY <2>1, HeadTailProperties
  <1>4. UNCHANGED <<leaderVars, current, electing, breaks, probes, missed>>
    BY DEF Receive
  <1>5. x # NoLink
    BY DEF Link, NoLink
  <1>6. CASE m = SyncEnd
    <2>1. /\ mode' = [mode EXCEPT ![f] = "stream"]
          /\ monitors' = [monitors EXCEPT ![f] = @ + 1] /\ UNCHANGED replica
      BY <1>1, <1>3, <1>6 DEF Receive, Synchronised
    <2>2. /\ mode' \in [Follower -> {"dial", "sync", "stream"}] /\ monitors' \in [Follower -> Nat]
          /\ \A g \in Follower : current'[g] = NoLink <=> mode'[g] = "dial"
      BY <1>1, <1>4, <1>5, <2>1 DEF BaseInv, TypeOK
    <2>3. QED
      BY <1>1, <1>2, <1>4, <2>1, <2>2, SameList, BaseLink DEF BaseInv, TypeOK, leaderVars
  <1>7. CASE m # SyncEnd
    <2>1. m \in RecordType
      BY <1>3, <1>7 DEF Message
    <2>2. /\ replica' = [replica EXCEPT ![f] = Apply(@, m)] /\ UNCHANGED <<mode, monitors>>
      BY <1>1, <1>3, <1>7 DEF Receive
    <2>3. replica' \in [Follower -> CacheType]
      <3>1. Apply(replica[f], m) \in CacheType
        BY <2>1, ApplyFacts DEF BaseInv, TypeOK
      <3>2. QED
        BY <2>2, <3>1 DEF BaseInv, TypeOK
    <2>4. QED
      BY <1>1, <1>2, <1>4, <2>2, <2>3, SameList, BaseLink DEF BaseInv, TypeOK, leaderVars
  <1>8. QED
    BY <1>6, <1>7

\* closeConn, whoever calls it: the link it closes, if there is one.
LEMMA BaseClose ==
  ASSUME BaseInv, NEW f \in Follower, closeConn(f),
         UNCHANGED <<leaderVars, replica, breaks, missed>>,
         monitors' \in [Follower -> Nat], electing' \in [Follower -> Nat], probes' \in Nat
  PROVE  BaseInv'
  <1>1. CASE UNCHANGED <<link, current, mode>>
    <2>1. TypeOK'
      BY <1>1 DEF BaseInv, TypeOK, leaderVars
    <2>2. StoredFinite' /\ InFlight' /\ Settled'
      BY <1>1 DEF BaseInv, StoredFinite, Stored, InFlight, Settled, Listed, leaderVars
    <2>3. QED
      BY <2>1, <2>2 DEF BaseInv
  <1>2. CASE /\ current[f] \in Link
             /\ current' = [current EXCEPT ![f] = NoLink] /\ mode' = [mode EXCEPT ![f] = "dial"]
             /\ \E r : /\ Becomes(current[f], r)
                       /\ r.id = link[current[f]].id /\ r.handler = link[current[f]].handler
                       /\ ~r.open
    <2>1. PICK x \in Link : x = current[f]
      BY <1>2
    <2>2. PICK r : Becomes(x, r) /\ r.handler = link[x].handler
      BY <1>2, <2>1
    <2>3. /\ current' \in [Follower -> Link \cup {NoLink}]
          /\ mode' \in [Follower -> {"dial", "sync", "stream"}]
          /\ \A g \in Follower : current'[g] = NoLink <=> mode'[g] = "dial"
      BY <1>2 DEF BaseInv, TypeOK
    <2>4. QED
      BY <2>2, <2>3, SameList, BaseLink DEF BaseInv, TypeOK, leaderVars
  <1>3. QED
    BY <1>1, <1>2, CloseLink DEF BaseInv

LEMMA BaseLoses ==
  ASSUME BaseInv, NEW f \in Follower, ReadFails(f) \/ LeaderTimeout(f)
  PROVE  BaseInv'
  <1>1. CASE ReadFails(f)
    BY <1>1, BaseClose DEF ReadFails, BaseInv, TypeOK
  <1>2. CASE LeaderTimeout(f)
    <2>1. monitors' \in [Follower -> Nat] /\ electing' \in [Follower -> Nat] /\ probes' \in Nat
      BY <1>2 DEF LeaderTimeout, BaseInv, TypeOK
    <2>2. QED
      BY <1>2, <2>1, BaseClose DEF LeaderTimeout
  <1>3. QED
    BY <1>1, <1>2

LEMMA BaseDials ==
  ASSUME BaseInv, NEW f \in Follower, NEW x \in Link, Dial(f, x) \/ findNewLeader(f, x)
  PROVE  BaseInv'
  <1>1. CASE Dial(f, x)
    <2>1. PICK r : Becomes(x, r) /\ r.handler = "accepted"
      <3>1. Opens(f, x, TRUE)
        BY <1>1 DEF Dial
      <3>2. QED
        BY <3>1, OpensLink
    <2>2. link[x].handler = "unused"
      BY <1>1, OpensUnused DEF Dial
    <2>3. /\ current' \in [Follower -> Link \cup {NoLink}]
          /\ mode' \in [Follower -> {"dial", "sync", "stream"}]
          /\ \A g \in Follower : current'[g] = NoLink <=> mode'[g] = "dial"
      BY <1>1 DEF Dial, BaseInv, TypeOK, Link, NoLink
    <2>4. UNCHANGED <<leaderVars, replica, monitors, electing, breaks, probes, missed>>
      BY <1>1 DEF Dial
    <2>5. QED
      BY <2>1, <2>2, <2>3, <2>4, SameList, BaseLink DEF BaseInv, TypeOK, leaderVars
  <1>2. CASE findNewLeader(f, x)
    <2>1. PICK r : Becomes(x, r) /\ r.handler = "accepted"
      BY <1>2, OpensLink DEF findNewLeader
    <2>2. link[x].handler = "unused"
      BY <1>2, OpensUnused DEF findNewLeader
    <2>3. electing' \in [Follower -> Nat]
      BY <1>2 DEF findNewLeader, BaseInv, TypeOK
    <2>4. UNCHANGED <<leaderVars, replica, current, mode, monitors, breaks, probes, missed>>
      BY <1>2 DEF findNewLeader
    <2>5. QED
      BY <2>1, <2>2, <2>3, <2>4, SameList, BaseLink DEF BaseInv, TypeOK, leaderVars
  <1>3. QED
    BY <1>1, <1>2

\* What a client writes is a record.
LEMMA WriteRecord ==
  ASSUME NEW w \in Writer, Write(w)
  PROVE  \E r \in RecordType : CacheWrite(w, r)
  <1>1. PICK k \in Key : \/ CacheWrite(w, DelRecord(k))
                         \/ \E v \in Value : CacheWrite(w, SetRecord(k, v))
    BY DEF Write
  <1>2. DelRecord(k) \in RecordType /\ \A v \in Value : SetRecord(k, v) \in RecordType
    BY DEF RecordType
  <1>3. QED
    BY <1>1, <1>2

LEMMA BaseNext == BaseInv /\ [Next]_vars => BaseInv'
  <1> SUFFICES ASSUME BaseInv, [Next]_vars
               PROVE  BaseInv'
    OBVIOUS
  <1>1. ASSUME NEW w \in Writer, Write(w) \/ Replicate(w)
        PROVE  BaseInv'
    BY <1>1, WriteRecord, BaseWrite, BaseCopy, BaseSend, BaseDone DEF Replicate
  <1>2. CASE UNCHANGED vars
    <2>1. TypeOK'
      BY <1>2 DEF vars, leaderVars, followerVars, BaseInv, TypeOK
    <2>2. StoredFinite' /\ InFlight' /\ Settled'
      BY <1>2 DEF vars, leaderVars, BaseInv, StoredFinite, Stored, InFlight, Settled, Listed
    <2>3. QED
      BY <2>1, <2>2 DEF BaseInv
  <1>3. QED
    BY <1>1, <1>2, BaseHandler, BaseBreaks, BaseReceive, BaseLoses, BaseDials DEF Next

LEMMA BaseAlways == Spec => []BaseInv
  BY BaseInit, BaseNext, PTL DEF Spec

--------------------------------------------------------------------------------
\* Entries and handlers.

\* EntriesMatchHandlers, of the links without an id too.
EntriesInv ==
  \A g \in Follower \cup {NoId} :
    Cardinality({i \in 1..Len(followers) : link[followers[i]].id = g})
      = Cardinality({x \in Link : link[x].handler = "tracked" /\ link[x].id = g})

\* A step that changes neither the list nor a link that is listed or tracked, as
\* far as id and "tracked" go.
LEMMA EntriesKept ==
  ASSUME BaseInv, EntriesInv, followers' = followers,
         \A y \in Link : Listed(y) => link'[y].id = link[y].id,
         \A y \in Link : link'[y].handler = "tracked" <=> link[y].handler = "tracked",
         \A y \in Link : link[y].handler = "tracked" => link'[y].id = link[y].id
  PROVE  EntriesInv'
  <1> SUFFICES ASSUME NEW g \in Follower \cup {NoId}
               PROVE  Cardinality({i \in 1..Len(followers') : link'[followers'[i]].id = g})
                        = Cardinality({x \in Link : link'[x].handler = "tracked" /\ link'[x].id = g})
    BY DEF EntriesInv
  <1>1. {i \in 1..Len(followers') : link'[followers'[i]].id = g}
          = {i \in 1..Len(followers) : link[followers[i]].id = g}
    <2>1. \A i \in 1..Len(followers) : followers[i] \in Link /\ Listed(followers[i])
      BY DEF BaseInv, TypeOK, Listed
    <2>2. QED
      BY <2>1
  <1>2. {x \in Link : link'[x].handler = "tracked" /\ link'[x].id = g}
          = {x \in Link : link[x].handler = "tracked" /\ link[x].id = g}
    OBVIOUS
  <1>3. QED
    BY <1>1, <1>2 DEF EntriesInv

\* One link becomes r and keeps its id, and its being tracked or not; or its id
\* does not matter.
LEMMA EntriesLink ==
  ASSUME BaseInv, EntriesInv, NEW x \in Link, NEW r, Becomes(x, r), followers' = followers,
         \/ r.id = link[x].id /\ (r.handler = "tracked" <=> link[x].handler = "tracked")
         \/ link[x].handler \notin {"tracked", "ended"} /\ r.handler # "tracked"
  PROVE  EntriesInv'
  <1>1. link'[x] = r /\ \A y \in Link : y # x => link'[y] = link[y]
    BY BecomesFacts DEF BaseInv
  <1>2. \A y \in Link : Listed(y) => link[y].handler \in {"tracked", "ended"}
    BY DEF BaseInv, Settled
  <1>3. QED
    BY <1>1, <1>2, EntriesKept

LEMMA HandlersFinite ==
  ASSUME NEW H \in SUBSET Link
  PROVE  IsFiniteSet(H) /\ Cardinality(H) \in Nat
  <1>1. IsFiniteSet(Link)
    BY BoundAssumption, FS_Interval DEF Link
  <1>2. QED
    BY <1>1, FS_Subset, FS_CardinalityType

LEMMA EntriesAdd ==
  ASSUME BaseInv, EntriesInv, NEW x \in Link, addFollower(x)
  PROVE  EntriesInv'
  <1>1. PICK r : Becomes(x, r) /\ r.id = link[x].id /\ r.handler = "tracked"
    BY AddLink DEF BaseInv
  <1>2. link'[x] = r /\ \A y \in Link : y # x => link'[y] = link[y]
    BY <1>1, BecomesFacts DEF BaseInv
  <1>3. link[x].handler = "sent" /\ followers' = Append(followers, x)
    BY DEF addFollower
  <1>4. PICK s \in Seq(Link) : s = followers
    BY DEF BaseInv, TypeOK
  <1>5. /\ Len(s) \in Nat /\ Len(Append(s, x)) = Len(s) + 1 /\ Append(s, x)[Len(s) + 1] = x
        /\ \A i \in 1..Len(s) : Append(s, x)[i] = s[i] /\ s[i] \in Link
    BY AppendProperties
  <1> SUFFICES ASSUME NEW g \in Follower \cup {NoId}
               PROVE  Cardinality({i \in 1..Len(followers') : link'[followers'[i]].id = g})
                        = Cardinality({y \in Link : link'[y].handler = "tracked" /\ link'[y].id = g})
    BY DEF EntriesInv
  <1> DEFINE H == {y \in Link : link[y].handler = "tracked" /\ link[y].id = g}
             I == {i \in 1..Len(followers') : link'[followers'[i]].id = g}
             J == {y \in Link : link'[y].handler = "tracked" /\ link'[y].id = g}
  <1>6. Cardinality(Entries(s, g)) = Cardinality(H)
    BY <1>4 DEF EntriesInv, Entries
  <1>7. \A y \in Link : link'[y].id = link[y].id
    BY <1>1, <1>2
  <1>8. CASE link[x].id = g
    <2>1. I = Entries(s, g) \cup {Len(s) + 1} /\ Len(s) + 1 \notin Entries(s, g)
      BY <1>3, <1>4, <1>5, <1>7, <1>8 DEF Entries
    <2>2. J = H \cup {x} /\ x \notin H
      BY <1>1, <1>2, <1>3, <1>8
    <2>3. Cardinality(I) = Cardinality(Entries(s, g)) + 1
      BY <2>1, EntriesFinite, FS_AddElement
    <2>4. Cardinality(J) = Cardinality(H) + 1
      <3>1. IsFiniteSet(H)
        BY HandlersFinite
      <3>2. QED
        BY <2>2, <3>1, FS_AddElement
    <2>5. QED
      BY <1>6, <2>3, <2>4
  <1>9. CASE link[x].id # g
    <2>1. I = Entries(s, g)
      BY <1>3, <1>4, <1>5, <1>7, <1>9 DEF Entries
    <2>2. J = H
      BY <1>1, <1>2, <1>9
    <2>3. QED
      BY <1>6, <2>1, <2>2
  <1>10. QED
    BY <1>8, <1>9

LEMMA EntriesRemove ==
  ASSUME BaseInv, EntriesInv, NEW x \in Link, removeFollower(x)
  PROVE  EntriesInv'
  <1>1. PICK r : Becomes(x, r) /\ r.id = link[x].id /\ r.handler = "ended"
    BY RemoveLink DEF BaseInv
  <1>2. link'[x] = r /\ \A y \in Link : y # x => link'[y] = link[y]
    BY <1>1, BecomesFacts DEF BaseInv
  <1>3. PICK s \in Seq(Link) : s = followers
    BY DEF BaseInv, TypeOK
  <1>4. PICK id : id = link[x].id
    OBVIOUS
  <1>5. PICK t : t = WithoutFirstOf(s, id)
    OBVIOUS
  <1>6. link[x].handler = "tracked" /\ followers' = t
    BY <1>3, <1>4, <1>5 DEF removeFollower
  <1>7. /\ t \in Seq(Link)
        /\ \A g : g # id => Cardinality(Entries(t, g)) = Cardinality(Entries(s, g))
        /\ Entries(s, id) # {} => Cardinality(Entries(t, id)) = Cardinality(Entries(s, id)) - 1
    BY <1>5, RemovalFacts
  <1> SUFFICES ASSUME NEW g \in Follower \cup {NoId}
               PROVE  Cardinality({i \in 1..Len(followers') : link'[followers'[i]].id = g})
                        = Cardinality({y \in Link : link'[y].handler = "tracked" /\ link'[y].id = g})
    BY DEF EntriesInv
  <1> DEFINE H == {y \in Link : link[y].handler = "tracked" /\ link[y].id = g}
             I == {i \in 1..Len(followers') : link'[followers'[i]].id = g}
             J == {y \in Link : link'[y].handler = "tracked" /\ link'[y].id = g}
  <1>8. Cardinality(Entries(s, g)) = Cardinality(H)
    BY <1>3 DEF EntriesInv, Entries
  <1>9. I = Entries(t, g)
    <2>1. \A i \in 1..Len(t) : t[i] \in Link
      BY <1>7
    <2>2. QED
      BY <1>1, <1>2, <1>6, <2>1 DEF Entries
  <1>10. CASE g = id
    <2>1. J = H \ {x} /\ x \in H
      BY <1>1, <1>2, <1>4, <1>6, <1>10
    <2>2. IsFiniteSet(H)
      BY HandlersFinite
    <2>3. Cardinality(J) = Cardinality(H) - 1
      BY <2>1, <2>2, FS_RemoveElement
    <2>4. Cardinality(H) # 0
      BY <2>1, <2>2, FS_EmptySet
    <2>5. Entries(s, id) # {}
      BY <1>8, <1>10, <2>4, FS_EmptySet
    <2>6. QED
      BY <1>7, <1>8, <1>9, <1>10, <2>3, <2>5
  <1>11. CASE g # id
    <2>1. J = H
      BY <1>1, <1>2, <1>4, <1>11
    <2>2. QED
      BY <1>7, <1>8, <1>9, <1>11, <2>1
  <1>12. QED
    BY <1>10, <1>11

LEMMA EntriesNext == BaseInv /\ EntriesInv /\ [Next]_vars => EntriesInv'
  <1> SUFFICES ASSUME BaseInv, EntriesInv, [Next]_vars
               PROVE  EntriesInv'
    OBVIOUS
  <1>1. ASSUME NEW w \in Writer, Write(w) \/ Replicate(w)
        PROVE  EntriesInv'
    <2>1. CASE Write(w) \/ ReplicateCopy(w) \/ ReplicateDone(w)
      <3>1. UNCHANGED <<followers, link>>
        BY <2>1 DEF Write, CacheWrite, ReplicateCopy, ReplicateDone
      <3>2. QED
        BY <3>1 DEF EntriesInv
    <2>2. CASE ReplicateSend(w)
      <3>1. PICK x : x = Head(targets[w])
        OBVIOUS
      <3>2. op[w] \in RecordType
        BY <2>2 DEF ReplicateSend, BaseInv, InFlight
      <3>3. x \in Link
        BY <2>2, <3>1, <3>2, SendLink DEF BaseInv
      <3>4. PICK r : Becomes(x, r) /\ r.id = link[x].id /\ r.handler = link[x].handler
        BY <2>2, <3>1, <3>2, SendLink DEF BaseInv
      <3>5. followers' = followers
        BY <2>2 DEF ReplicateSend
      <3>6. QED
        BY <3>3, <3>4, <3>5, EntriesLink
    <2>3. QED
      BY <1>1, <2>1, <2>2 DEF Replicate
  <1>2. ASSUME NEW x \in Link, handleFollower(x) \/ LinkBreaks(x)
        PROVE  EntriesInv'
    <2>1. CASE SendSnapshot(x)
      <3>1. PICK r : Becomes(x, r) /\ r.id = link[x].id /\ r.handler = "sent"
        BY <2>1, SnapshotLink DEF BaseInv, StoredFinite
      <3>2. followers' = followers /\ link[x].handler = "accepted"
        BY <2>1 DEF SendSnapshot, leaderVars
      <3>3. QED
        BY <3>1, <3>2, EntriesLink
    <2>2. CASE SyncFails(x)
      <3>1. PICK r : Becomes(x, r) /\ r.handler = "ended"
        BY <2>2, SyncFailsLink
      <3>2. followers' = followers /\ link[x].handler \in {"accepted", "sent"}
        BY <2>2 DEF SyncFails, leaderVars
      <3>3. QED
        BY <3>1, <3>2, EntriesLink
    <2>3. CASE LinkBreaks(x)
      <3>1. PICK r : Becomes(x, r) /\ r.id = link[x].id /\ r.handler = link[x].handler
        BY <2>3, BreaksLink DEF BaseInv
      <3>2. followers' = followers
        BY <2>3 DEF LinkBreaks, leaderVars
      <3>3. QED
        BY <3>1, <3>2, EntriesLink
    <2>4. QED
      BY <1>2, <2>1, <2>2, <2>3, EntriesAdd, EntriesRemove DEF handleFollower
  <1>3. ASSUME NEW f \in Follower, Receive(f)
        PROVE  EntriesInv'
    <2>1. PICK x \in Link : x = current[f]
      BY <1>3 DEF Receive, BaseInv, TypeOK
    <2>2. PICK r : Becomes(x, r) /\ r.id = link[x].id /\ r.handler = link[x].handler
      BY <1>3, <2>1, ReceiveLink DEF BaseInv
    <2>3. followers' = followers
      BY <1>3 DEF Receive, leaderVars
    <2>4. QED
      BY <2>2, <2>3, EntriesLink
  <1>4. ASSUME NEW f \in Follower, ReadFails(f) \/ LeaderTimeout(f)
        PROVE  EntriesInv'
    <2>1. closeConn(f) /\ followers' = followers
      BY <1>4 DEF ReadFails, LeaderTimeout, leaderVars
    <2>2. CASE UNCHANGED link
      BY <2>1, <2>2 DEF EntriesInv
    <2>3. ASSUME current[f] \in Link, NEW r, Becomes(current[f], r),
                 r.id = link[current[f]].id, r.handler = link[current[f]].handler
          PROVE  EntriesInv'
      BY <2>1, <2>3, EntriesLink
    <2>4. QED
      BY <2>1, <2>2, <2>3, CloseLink DEF BaseInv
  <1>5. ASSUME NEW f \in Follower, NEW x \in Link, Dial(f, x) \/ findNewLeader(f, x)
        PROVE  EntriesInv'
    <2>1. PICK o \in BOOLEAN : Opens(f, x, o)
      BY <1>5 DEF Dial, findNewLeader
    <2>2. PICK r : Becomes(x, r) /\ r.handler = "accepted"
      BY <2>1, OpensLink
    <2>3. link[x].handler = "unused" /\ followers' = followers
      BY <1>5, <2>1, OpensUnused DEF Dial, findNewLeader, leaderVars
    <2>4. QED
      BY <2>2, <2>3, EntriesLink
  <1>6. CASE UNCHANGED vars
    BY <1>6 DEF vars, leaderVars, EntriesInv
  <1>7. QED
    BY <1>1, <1>2, <1>3, <1>4, <1>5, <1>6 DEF Next

--------------------------------------------------------------------------------
\* Convergence.

\* The write last applied to its key is what the cache holds.
WriteKnown ==
  \A w \in latest : pc[w] # "idle" /\ cache[op[w].key] = ValueOf(op[w])

\* A follower's connection is its own while it is up.
OwnLink ==
  \A f \in Follower : \A x \in Link : current[f] = x =>
    link[x].handler # "unused" /\ (link[x].open => link[x].id = f)

\* The last write to k has still to be handed to the followers, or to be sent
\* over x.
Replicating(k) == \E w \in latest : pc[w] = "replicate" /\ op[w].key = k

Pending(x, k) ==
  \/ Replicating(k)
  \/ \E w \in latest : /\ pc[w] = "send" /\ op[w].key = k
                       /\ \E i \in 1..Len(targets[w]) : targets[w][i] = x

InList(x) == \E i \in 1..Len(followers) : followers[i] = x

\* What the follower f will hold under k once it has read the stream of x.
UpToDate(f, x, k) ==
  /\ link[x].handler = "sent" =>
       \/ k \in missed[f]
       \/ /\ Ends(link[x].stream, replica[f][k], k, link[x].copy[k])
          /\ link[x].copy[k] = cache[k] \/ Replicating(k)
  /\ link[x].handler = "tracked" /\ InList(x) =>
       k \in missed[f] \/ Pending(x, k) \/ Ends(link[x].stream, replica[f][k], k, cache[k])

Converging ==
  \A f \in Follower : \A x \in Link : \A k \in Key :
    current[f] = x /\ link[x].open => UpToDate(f, x, k)

ConvergenceInv == WriteKnown /\ OwnLink /\ Converging

\* A step that does not touch the link, the follower, the key or the writers.
LEMMA UpToDateKept ==
  ASSUME NEW f \in Follower, NEW x \in Link, NEW k \in Key, UpToDate(f, x, k),
         link'[x] = link[x], replica'[f] = replica[f], cache' = cache,
         missed[f] \subseteq missed'[f],
         UNCHANGED <<pc, op, targets, latest>>, InList(x)' => InList(x)
  PROVE  UpToDate(f, x, k)'
  BY DEF UpToDate, Pending, Replicating

\* A step of the connections in which link x becomes r: what is left to show is
\* that a follower whose current and open link is x is up to date.
LEMMA ConvergingLink ==
  ASSUME BaseInv, ConvergenceInv, NEW x \in Link, NEW r, Becomes(x, r),
         UNCHANGED <<cache, pc, op, targets, latest>>,
         \A y \in Link : y # x /\ InList(y)' => InList(y),
         \A f \in Follower : \A y \in Link : y # x /\ current'[f] = y =>
           current[f] = y /\ (link[y].open => replica'[f] = replica[f] /\ missed[f] \subseteq missed'[f]),
         \A f \in Follower : current'[f] = x =>
           r.handler # "unused" /\ (r.open => r.id = f /\ \A k \in Key : UpToDate(f, x, k)')
  PROVE  ConvergenceInv'
  <1>1. link'[x] = r /\ \A y \in Link : y # x => link'[y] = link[y]
    BY BecomesFacts DEF BaseInv
  <1>2. WriteKnown'
    BY DEF ConvergenceInv, WriteKnown
  <1>3. OwnLink'
    BY <1>1 DEF ConvergenceInv, OwnLink
  <1>4. Converging'
    <2> SUFFICES ASSUME NEW f \in Follower, NEW y \in Link, NEW k \in Key,
                        current'[f] = y, link'[y].open
                 PROVE  UpToDate(f, y, k)'
      BY DEF Converging
    <2>1. CASE y = x
      BY <1>1, <2>1
    <2>2. CASE y # x
      <3>1. current[f] = y /\ link'[y] = link[y] /\ link[y].open
        BY <1>1, <2>2
      <3>2. UpToDate(f, y, k)
        BY <3>1 DEF ConvergenceInv, Converging
      <3>3. QED
        BY <2>2, <3>1, <3>2, UpToDateKept
    <2>3. QED
      BY <2>1, <2>2
  <1>5. QED
    BY <1>2, <1>3, <1>4 DEF ConvergenceInv

LEMMA ConvergenceInit == Init => ConvergenceInv
  BY DEF Init, ConvergenceInv, WriteKnown, OwnLink, Converging, NoLink, Link

LEMMA ConvergenceWrite ==
  ASSUME BaseInv, ConvergenceInv, NEW w \in Writer, NEW r \in RecordType, CacheWrite(w, r)
  PROVE  ConvergenceInv'
  <1>1. /\ pc[w] = "idle" /\ pc' = [pc EXCEPT ![w] = "replicate"] /\ op' = [op EXCEPT ![w] = r]
        /\ latest' = {v \in latest : op[v].key # r.key} \cup {w}
        /\ UNCHANGED <<followers, targets, link, followerVars, missed>>
    BY DEF CacheWrite
  <1>2. /\ \A k \in Key : cache'[k] = IF k = r.key THEN ValueOf(r) ELSE cache[k]
        /\ r.key \in Key
    BY ApplyFacts, RecordFacts DEF CacheWrite, BaseInv, TypeOK, Writes
  <1>3. /\ pc'[w] = "replicate" /\ op'[w] = r
        /\ \A w2 \in Writer : w2 # w => pc'[w2] = pc[w2] /\ op'[w2] = op[w2]
    BY <1>1 DEF BaseInv, TypeOK
  <1>4. WriteKnown'
    <2> SUFFICES ASSUME NEW w2 \in latest'
                 PROVE  pc'[w2] # "idle" /\ cache'[op'[w2].key] = ValueOf(op'[w2])
      BY DEF WriteKnown
    <2>1. CASE w2 = w
      BY <1>2, <1>3, <2>1
    <2>2. CASE w2 # w
      <3>1. w2 \in latest /\ w2 \in Writer /\ op[w2].key # r.key /\ pc[w2] # "idle"
        BY <1>1, <2>2 DEF BaseInv, TypeOK, ConvergenceInv, WriteKnown
      <3>2. op[w2].key \in Key
        BY <3>1, RecordFacts DEF BaseInv, InFlight
      <3>3. QED
        BY <1>2, <1>3, <2>2, <3>1, <3>2 DEF ConvergenceInv, WriteKnown
    <2>3. QED
      BY <2>1, <2>2
  <1>5. OwnLink'
    BY <1>1 DEF ConvergenceInv, OwnLink, followerVars
  <1>6. Converging'
    <2> SUFFICES ASSUME NEW f \in Follower, NEW x \in Link, NEW k \in Key,
                        current'[f] = x, link'[x].open
                 PROVE  UpToDate(f, x, k)'
      BY DEF Converging
    <2>1. UpToDate(f, x, k)
      BY <1>1 DEF ConvergenceInv, Converging, followerVars
    <2>2. CASE k = r.key
      <3>1. Replicating(k)' /\ Pending(x, k)'
        BY <1>1, <1>3, <2>2 DEF Replicating, Pending
      <3>2. QED
        BY <1>1, <2>1, <3>1 DEF UpToDate, followerVars
    <2>3. CASE k # r.key
      <3>1. \A v \in latest : op[v].key = k =>
              v \in latest' /\ v \in Writer /\ pc'[v] = pc[v] /\ op'[v] = op[v]
        BY <1>1, <1>3, <2>3 DEF BaseInv, TypeOK, ConvergenceInv, WriteKnown
      <3>2. (Replicating(k) => Replicating(k)') /\ (Pending(x, k) => Pending(x, k)')
        BY <1>1, <3>1 DEF Replicating, Pending
      <3>3. cache'[k] = cache[k] /\ (InList(x)' => InList(x))
        BY <1>1, <1>2, <2>3 DEF InList
      <3>4. QED
        BY <1>1, <2>1, <3>2, <3>3 DEF UpToDate, followerVars
    <2>4. QED
      BY <2>2, <2>3
  <1>7. QED
    BY <1>4, <1>5, <1>6 DEF ConvergenceInv

\* The copy of the list has every link in it; a follower that is being
\* synchronised from an older copy has missed the write.
LEMMA ConvergenceCopy ==
  ASSUME BaseInv, ConvergenceInv, NEW w \in Writer, ReplicateCopy(w)
  PROVE  ConvergenceInv'
  <1>1. /\ pc[w] = "replicate" /\ targets' = [targets EXCEPT ![w] = followers]
        /\ pc' = [pc EXCEPT ![w] = "send"]
        /\ missed' = [f \in Follower |->
                       IF w \in latest THEN missed[f] \cup MissedBy(f, op[w].key) ELSE missed[f]]
        /\ UNCHANGED <<cache, followers, op, latest, link, followerVars>>
    BY DEF ReplicateCopy, FollowersCopy
  <1>2. /\ pc'[w] = "send" /\ targets'[w] = followers
        /\ \A w2 \in Writer : w2 # w => pc'[w2] = pc[w2] /\ targets'[w2] = targets[w2]
    BY <1>1 DEF BaseInv, TypeOK
  <1>3. WriteKnown' /\ OwnLink'
    <2>1. \A v \in latest : v \in Writer /\ pc[v] # "idle" /\ cache[op[v].key] = ValueOf(op[v])
      BY DEF BaseInv, TypeOK, ConvergenceInv, WriteKnown
    <2>2. QED
      BY <1>1, <1>2, <2>1 DEF ConvergenceInv, WriteKnown, OwnLink, followerVars
  <1>4. Converging'
    <2> SUFFICES ASSUME NEW f \in Follower, NEW x \in Link, NEW k \in Key,
                        current'[f] = x, link'[x].open
                 PROVE  UpToDate(f, x, k)'
      BY DEF Converging
    <2> latest \subseteq Writer
      BY DEF BaseInv, TypeOK
    <2>1. UpToDate(f, x, k) /\ current[f] = x /\ x # NoLink
      BY <1>1 DEF ConvergenceInv, Converging, followerVars, Link, NoLink
    <2>2. missed[f] \subseteq missed'[f]
      BY <1>1
    <2>3. InList(x) => (Pending(x, k) => Pending(x, k)')
      BY <1>1, <1>2 DEF Pending, Replicating, InList
    <2>4. CASE w \in latest /\ k = op[w].key /\ link[x].handler = "sent" /\ link[x].copy[k] # cache[k]
      <3>1. MissedBy(f, op[w].key) = {k}
        BY <2>1, <2>4 DEF MissedBy
      <3>2. k \in missed'[f]
        BY <1>1, <2>4, <3>1
      <3>3. QED
        BY <3>2 DEF UpToDate
    <2>5. CASE ~(w \in latest /\ k = op[w].key /\ link[x].handler = "sent" /\ link[x].copy[k] # cache[k])
      <3>1. link[x].handler = "sent" /\ link[x].copy[k] # cache[k] /\ Replicating(k) => Replicating(k)'
        BY <1>1, <1>2, <2>5 DEF Replicating
      <3>2. InList(x)' => InList(x)
        BY <1>1 DEF InList
      <3>3. QED
        BY <1>1, <2>1, <2>2, <2>3, <3>1, <3>2 DEF UpToDate, followerVars
    <2>6. QED
      BY <2>4, <2>5
  <1>5. QED
    BY <1>3, <1>4 DEF ConvergenceInv

LEMMA ConvergenceSend ==
  ASSUME BaseInv, ConvergenceInv, NEW w \in Writer, ReplicateSend(w)
  PROVE  ConvergenceInv'
  <1>1. PICK m \in RecordType : m = op[w]
    BY DEF ReplicateSend, BaseInv, InFlight
  <1>2. PICK z \in Link : z = Head(targets[w])
    BY <1>1, SendLink DEF BaseInv
  <1>3. PICK r : /\ Becomes(z, r)
                 /\ r.id = link[z].id /\ r.handler = link[z].handler
                 /\ r.open = link[z].open /\ r.copy = link[z].copy
                 /\ r.stream = Send(z, op[w])
    BY <1>1, <1>2, SendLink DEF BaseInv
  <1>4. link'[z] = r /\ \A y \in Link : y # z => link'[y] = link[y]
    BY <1>3, BecomesFacts DEF BaseInv
  <1>5. PICK s \in Seq(Link) : s = targets[w] /\ s # <<>>
    BY DEF BaseInv, TypeOK, ReplicateSend
  <1>6. /\ Len(s) \in Nat /\ Len(s) > 0 /\ Head(s) = s[1] /\ Len(Tail(s)) = Len(s) - 1
        /\ \A i \in 1..(Len(s) - 1) : Tail(s)[i] = s[i + 1]
    BY <1>5, HeadTailProperties
  <1>7. /\ pc[w] = "send" /\ targets' = [targets EXCEPT ![w] = Tail(s)]
        /\ missed' = [f \in Follower |-> MissedAfter(f, w, z)]
        /\ UNCHANGED <<cache, followers, pc, op, latest, followerVars>>
    BY <1>2, <1>5 DEF ReplicateSend
  <1>8. targets'[w] = Tail(s) /\ \A w2 \in Writer : w2 # w => targets'[w2] = targets[w2]
    BY <1>7 DEF BaseInv, TypeOK
  <1>9. WriteKnown'
    BY <1>7 DEF ConvergenceInv, WriteKnown
  <1>10. OwnLink'
    BY <1>3, <1>4, <1>7 DEF ConvergenceInv, OwnLink, followerVars
  <1>11. link[z].handler \in {"tracked", "ended"}
    <2>1. Listed(z)
      BY <1>2, <1>5, <1>6 DEF Listed
    <2>2. QED
      BY <2>1 DEF BaseInv, Settled
  <1>12. Converging'
    <2> SUFFICES ASSUME NEW f \in Follower, NEW x \in Link, NEW k \in Key,
                        current'[f] = x, link'[x].open
                 PROVE  UpToDate(f, x, k)'
      BY DEF Converging
    <2>1. link[x].open /\ current[f] = x
      BY <1>3, <1>4, <1>7 DEF followerVars
    <2>2. UpToDate(f, x, k)
      BY <2>1 DEF ConvergenceInv, Converging
    <2>3. (Replicating(k) <=> Replicating(k)') /\ (InList(x) <=> InList(x)')
      BY <1>7 DEF Replicating, InList
    <2>4. x # z \/ k # m.key => (Pending(x, k) => Pending(x, k)')
      <3>1. SUFFICES ASSUME x # z \/ k # m.key, NEW w2 \in latest, pc[w2] = "send", op[w2].key = k,
                            NEW i \in 1..Len(targets[w2]), targets[w2][i] = x
                     PROVE  Pending(x, k)'
        BY <2>3 DEF Pending
      <3>2. CASE w2 # w
        <4>1. w2 \in Writer
          BY DEF BaseInv, TypeOK
        <4>2. QED
          BY <1>7, <1>8, <3>1, <3>2, <4>1 DEF Pending
      <3>3. CASE w2 = w
        <4>1. i # 1
          BY <1>1, <1>2, <1>5, <1>6, <3>1, <3>3
        <4>2. PICK j \in 1..(Len(s) - 1) : i = j + 1
          BY <1>5, <1>6, <3>3, <4>1
        <4>3. targets'[w][j] = x /\ j \in 1..Len(targets'[w])
          BY <1>5, <1>6, <1>8, <3>1, <3>3, <4>2
        <4>4. QED
          BY <1>7, <3>1, <3>3, <4>3 DEF Pending
      <3>4. QED
        BY <3>2, <3>3
    <2>5. CASE x # z
      <3>1. link'[x] = link[x] /\ missed'[f] = missed[f]
        BY <1>4, <1>7, <2>1, <2>5 DEF MissedAfter
      <3>2. QED
        BY <1>7, <2>2, <2>3, <2>4, <2>5, <3>1 DEF UpToDate, followerVars
    <2>6. CASE x = z
      <3>1. PICK t \in Seq(Message) : t = link[x].stream
        BY DEF BaseInv, TypeOK, LinkType, Message
      <3>2. link'[x].stream = Append(t, m) /\ link'[x].handler = link[x].handler
        BY <1>1, <1>3, <1>4, <2>1, <2>6, <3>1 DEF Send
      <3>3. link'[x].handler # "sent"
        BY <1>11, <2>6, <3>2
      <3>4. PICK old : old = replica[f][k]
        OBVIOUS
      <3>5. CASE m.key = k
        <4>1. CASE w \in latest
          <5>1. Ends(Append(t, m), old, k, ValueOf(m))
            BY <3>5, EndsAppend
          <5>2. ValueOf(m) = cache[k]
            BY <1>1, <3>5, <4>1 DEF ConvergenceInv, WriteKnown
          <5>3. Ends(link'[x].stream, replica'[f][k], k, cache'[k])
            BY <1>7, <3>2, <3>4, <5>1, <5>2 DEF followerVars
          <5>4. QED
            BY <3>3, <5>3 DEF UpToDate
        <4>2. CASE w \notin latest /\ Awaited(x, k)
          <5>1. PICK v \in latest :
                  /\ op[v].key = k /\ v \in Writer /\ v # w
                  /\ pc[v] = "replicate" \/ (pc[v] = "send" /\ Contains(targets[v], x))
            BY <4>2 DEF Awaited, BaseInv, TypeOK
          <5>2. Pending(x, k)'
            BY <1>7, <1>8, <5>1 DEF Pending, Replicating, Contains
          <5>3. QED
            BY <3>3, <5>2 DEF UpToDate
        <4>3. CASE w \notin latest /\ ~Awaited(x, k)
          <5>1. k \in missed'[f]
            BY <1>1, <1>7, <2>1, <2>6, <3>5, <4>3 DEF MissedAfter
          <5>2. QED
            BY <3>3, <5>1 DEF UpToDate
        <4>4. QED
          BY <4>1, <4>2, <4>3
      <3>6. CASE m.key # k
        <4>1. Ends(t, old, k, cache[k]) => Ends(Append(t, m), old, k, cache[k])
          BY <3>6, EndsAppend
        <4>2. replica'[f][k] = old /\ cache'[k] = cache[k] /\ (k \in missed[f] => k \in missed'[f])
          BY <1>1, <1>7, <3>4, <3>6 DEF followerVars, MissedAfter
        <4>3. QED
          BY <2>2, <2>3, <2>4, <3>1, <3>2, <3>3, <3>4, <3>6, <4>1, <4>2 DEF UpToDate
      <3>7. QED
        BY <3>5, <3>6
    <2>7. QED
      BY <2>5, <2>6
  <1>13. QED
    BY <1>9, <1>10, <1>12 DEF ConvergenceInv

LEMMA ConvergenceDone ==
  ASSUME BaseInv, ConvergenceInv, NEW w \in Writer, ReplicateDone(w)
  PROVE  ConvergenceInv'
  <1>1. /\ pc[w] = "send" /\ targets[w] = <<>>
        /\ pc' = [pc EXCEPT ![w] = "idle"] /\ op' = [op EXCEPT ![w] = NoRecord]
        /\ latest' = latest \ {w}
        /\ UNCHANGED <<cache, followers, targets, link, followerVars, missed>>
    BY DEF ReplicateDone
  <1>2. /\ pc'[w] = "idle"
        /\ \A w2 \in Writer : w2 # w => pc'[w2] = pc[w2] /\ op'[w2] = op[w2]
    BY <1>1 DEF BaseInv, TypeOK
  <1> latest \subseteq Writer
    BY DEF BaseInv, TypeOK
  <1>3. WriteKnown' /\ OwnLink'
    BY <1>1, <1>2 DEF ConvergenceInv, WriteKnown, OwnLink, followerVars
  <1>4. Converging'
    <2> SUFFICES ASSUME NEW f \in Follower, NEW x \in Link, NEW k \in Key,
                        current'[f] = x, link'[x].open
                 PROVE  UpToDate(f, x, k)'
      BY DEF Converging
    <2>1. UpToDate(f, x, k)
      BY <1>1 DEF ConvergenceInv, Converging, followerVars
    <2>2. Replicating(k) => Replicating(k)'
      BY <1>1, <1>2 DEF Replicating
    <2>3. Len(targets[w]) = 0
      BY <1>1, EmptySeq
    <2>4. Pending(x, k) => Pending(x, k)'
      BY <1>1, <1>2, <2>2, <2>3 DEF Pending
    <2>5. InList(x)' => InList(x)
      BY <1>1 DEF InList
    <2>6. QED
      BY <1>1, <2>1, <2>2, <2>4, <2>5 DEF UpToDate, followerVars
  <1>5. QED
    BY <1>3, <1>4 DEF ConvergenceInv

\* The copy goes to a follower that keeps what the copy lacks.
LEMMA ConvergenceSnapshot ==
  ASSUME BaseInv, ConvergenceInv, NEW x \in Link, SendSnapshot(x)
  PROVE  ConvergenceInv'
  <1>1. PICK r : /\ Becomes(x, r)
                 /\ r.id = link[x].id /\ r.handler = "sent"
                 /\ r.open = link[x].open /\ r.copy = cache
                 /\ r.open => r.stream = SnapshotStream(cache)
    BY SnapshotLink DEF BaseInv, StoredFinite
  <1>2. /\ missed' = [f \in Follower |-> IF current[f] = x THEN Deleted(f) ELSE missed[f]]
        /\ UNCHANGED <<leaderVars, followerVars>>
    BY DEF SendSnapshot
  <1>3. link'[x] = r
    BY <1>1, BecomesFacts DEF BaseInv
  <1>4. PICK c \in CacheType : c = cache
    BY DEF BaseInv, TypeOK
  <1>5. ASSUME NEW f \in Follower, current[f] = x, r.open, NEW k \in Key
        PROVE  UpToDate(f, x, k)'
    <2>1. replica'[f][k] = replica[f][k] /\ cache' = c /\ link'[x].copy = c
      BY <1>1, <1>2, <1>3, <1>4 DEF leaderVars, followerVars
    <2>2. missed'[f] = Deleted(f)
      BY <1>2, <1>5
    <2>3. PICK t : t = SnapshotStream(c)
      OBVIOUS
    <2>4. PICK old : old = replica[f][k]
      OBVIOUS
    <2>5. /\ c[k] # None => Ends(t, old, k, c[k])
          /\ c[k] = None => Ends(t, old, k, old)
      BY <1>4, <2>3, SnapshotFacts DEF BaseInv, StoredFinite
    <2>6. link'[x].stream = t /\ link'[x].handler = "sent"
      BY <1>1, <1>3, <1>4, <1>5, <2>3
    <2>7. k \in missed'[f] \/ Ends(t, old, k, c[k])
      BY <1>4, <2>2, <2>4, <2>5 DEF Deleted
    <2>8. QED
      BY <2>1, <2>4, <2>6, <2>7 DEF UpToDate
  <1>6. \A f \in Follower : current'[f] = x => (r.open => r.id = f)
    BY <1>1, <1>2 DEF ConvergenceInv, OwnLink, followerVars
  <1>7. QED
    BY <1>1, <1>2, <1>5, <1>6, ConvergingLink DEF leaderVars, followerVars, InList

LEMMA ConvergenceSyncFails ==
  ASSUME BaseInv, ConvergenceInv, NEW x \in Link, SyncFails(x)
  PROVE  ConvergenceInv'
  <1>1. PICK r : Becomes(x, r) /\ r.handler = "ended" /\ ~r.open
    BY SyncFailsLink
  <1>2. UNCHANGED <<leaderVars, followerVars, missed>>
    BY DEF SyncFails
  <1>3. QED
    BY <1>1, <1>2, ConvergingLink DEF leaderVars, followerVars, InList

\* From the entry in the list on, what is written to k is sent.
LEMMA ConvergenceAdd ==
  ASSUME BaseInv, ConvergenceInv, NEW x \in Link, addFollower(x)
  PROVE  ConvergenceInv'
  <1>1. PICK r : /\ Becomes(x, r)
                 /\ r.id = link[x].id /\ r.handler = "tracked"
                 /\ r.open = link[x].open /\ r.stream = link[x].stream
    BY AddLink DEF BaseInv
  <1>2. /\ link[x].handler = "sent" /\ followers' = Append(followers, x)
        /\ UNCHANGED <<cache, pc, op, targets, latest, followerVars, missed>>
    BY DEF addFollower
  <1>3. link'[x] = r
    BY <1>1, BecomesFacts DEF BaseInv
  <1>4. \A y \in Link : y # x /\ InList(y)' => InList(y)
    BY <1>2, AppendProperties DEF InList, BaseInv, TypeOK
  <1>5. ASSUME NEW f \in Follower, current[f] = x, r.open, NEW k \in Key
        PROVE  UpToDate(f, x, k)'
    <2>1. UpToDate(f, x, k)
      BY <1>1, <1>5 DEF ConvergenceInv, Converging
    <2>2. Replicating(k) => Pending(x, k)'
      BY <1>2 DEF Replicating, Pending
    <2>3. QED
      BY <1>1, <1>2, <1>3, <2>1, <2>2 DEF UpToDate, followerVars
  <1>6. \A f \in Follower : current'[f] = x => (r.open => r.id = f)
    BY <1>1, <1>2 DEF ConvergenceInv, OwnLink, followerVars
  <1>7. QED
    BY <1>1, <1>2, <1>4, <1>5, <1>6, ConvergingLink DEF followerVars

LEMMA ConvergenceRemove ==
  ASSUME BaseInv, ConvergenceInv, NEW x \in Link, removeFollower(x)
  PROVE  ConvergenceInv'
  <1>1. PICK r : Becomes(x, r) /\ r.handler = "ended" /\ r.open = link[x].open
    BY RemoveLink DEF BaseInv
  <1>2. /\ ~link[x].open /\ followers' = WithoutFirstOf(followers, link[x].id)
        /\ UNCHANGED <<cache, pc, op, targets, latest, followerVars, missed>>
    BY DEF removeFollower
  <1>3. PICK t : t = WithoutFirstOf(followers, link[x].id)
    OBVIOUS
  <1>4. \A i \in 1..Len(t) : \E j \in 1..Len(followers) : t[i] = followers[j]
    BY <1>3, RemovalFacts DEF BaseInv, TypeOK
  <1>5. \A y \in Link : InList(y)' => InList(y)
    BY <1>2, <1>3, <1>4 DEF InList
  <1>6. QED
    BY <1>1, <1>2, <1>5, ConvergingLink DEF followerVars

LEMMA ConvergenceBreaks ==
  ASSUME BaseInv, ConvergenceInv, NEW x \in Link, LinkBreaks(x)
  PROVE  ConvergenceInv'
  <1>1. PICK r : Becomes(x, r) /\ r.handler = link[x].handler /\ ~r.open
    BY BreaksLink DEF BaseInv
  <1>2. UNCHANGED <<leaderVars, followerVars, missed>>
    BY DEF LinkBreaks
  <1>3. \A f \in Follower : current[f] = x => link[x].handler # "unused"
    BY DEF ConvergenceInv, OwnLink
  <1>4. QED
    BY <1>1, <1>2, <1>3, ConvergingLink DEF leaderVars, followerVars, InList

\* The follower applies the first message of its stream.
LEMMA ConvergenceReceive ==
  ASSUME BaseInv, ConvergenceInv, NEW f \in Follower, Receive(f)
  PROVE  ConvergenceInv'
  <1>1. PICK x \in Link : x = current[f]
    BY DEF Receive, BaseInv, TypeOK
  <1>2. PICK r : /\ Becomes(x, r)
                 /\ r.id = link[x].id /\ r.handler = link[x].handler
                 /\ r.open = link[x].open /\ r.copy = link[x].copy
                 /\ r.stream = Tail(link[x].stream)
    BY <1>1, ReceiveLink DEF BaseInv
  <1>3. link'[x] = r
    BY <1>2, BecomesFacts DEF BaseInv
  <1>4. PICK s \in Seq(Message) : s = link[x].stream /\ s # <<>>
    BY <1>1 DEF Receive, BaseInv, TypeOK, LinkType, Message
  <1>5. PICK m \in Message : m = Head(s)
    BY <1>4, HeadTailProperties
  <1>6. UNCHANGED <<leaderVars, current, missed>>
    BY DEF Receive
  <1>7. /\ \A k \in Key : replica'[f][k] = IF Writes(m, k) THEN ValueOf(m) ELSE replica[f][k]
        /\ \A g \in Follower : g # f => replica'[g] = replica[g]
    <2>1. CASE m = SyncEnd
      <3>1. UNCHANGED replica
        BY <1>1, <1>4, <1>5, <2>1 DEF Receive
      <3>2. \A k : ~Writes(m, k)
        BY <2>1, RecordFacts DEF Writes
      <3>3. QED
        BY <3>1, <3>2
    <2>2. CASE m # SyncEnd
      <3>1. m \in RecordType
        BY <2>2 DEF Message
      <3>2. PICK c \in CacheType : c = replica[f]
        BY DEF BaseInv, TypeOK
      <3>3. replica' = [replica EXCEPT ![f] = Apply(c, m)]
        BY <1>1, <1>4, <1>5, <2>2, <3>2 DEF Receive
      <3>4. replica'[f] = Apply(c, m) /\ \A g \in Follower : g # f => replica'[g] = replica[g]
        BY <3>3 DEF BaseInv, TypeOK
      <3>5. QED
        BY <3>1, <3>2, <3>4, ApplyFacts
    <2>3. QED
      BY <2>1, <2>2
  <1>8. ASSUME NEW g \in Follower, current[g] = x, r.open
        PROVE  r.handler # "unused" /\ r.id = g /\ g = f
    <2>1. link[x].open
      BY <1>2, <1>8
    <2>2. link[x].id = f /\ link[x].id = g /\ link[x].handler # "unused"
      BY <1>1, <1>8, <2>1 DEF ConvergenceInv, OwnLink
    <2>3. QED
      BY <1>2, <2>2
  <1>9. ASSUME r.open, NEW k \in Key
        PROVE  UpToDate(f, x, k)'
    <2>1. UpToDate(f, x, k)
      BY <1>1, <1>2, <1>9 DEF ConvergenceInv, Converging
    <2>2. PICK old : old = replica[f][k]
      OBVIOUS
    <2>3. PICK new : new = replica'[f][k]
      OBVIOUS
    <2>4. \A v : Ends(s, old, k, v) => Ends(Tail(s), new, k, v)
      BY <1>4, <1>5, <1>7, <2>2, <2>3, EndsHead
    <2>5. /\ (Replicating(k) => Replicating(k)') /\ (Pending(x, k) => Pending(x, k)')
          /\ (InList(x)' => InList(x))
      BY <1>6 DEF Replicating, Pending, InList, leaderVars
    <2>6. /\ link'[x].handler = link[x].handler /\ link'[x].copy = link[x].copy
          /\ link'[x].stream = Tail(s) /\ cache' = cache /\ missed' = missed
      BY <1>2, <1>3, <1>4, <1>6 DEF leaderVars
    <2>7. QED
      BY <1>4, <2>1, <2>2, <2>3, <2>4, <2>5, <2>6 DEF UpToDate
  <1>10. \A g \in Follower : current[g] = x => r.handler # "unused"
    BY <1>2 DEF ConvergenceInv, OwnLink
  <1>11. \A g \in Follower : \A y \in Link : y # x /\ current'[g] = y =>
           current[g] = y /\ replica'[g] = replica[g] /\ missed[g] \subseteq missed'[g]
    BY <1>1, <1>6, <1>7
  <1>12. QED
    BY <1>2, <1>6, <1>8, <1>9, <1>10, <1>11, ConvergingLink DEF leaderVars, InList

LEMMA ConvergenceLoses ==
  ASSUME BaseInv, ConvergenceInv, NEW f \in Follower, ReadFails(f) \/ LeaderTimeout(f)
  PROVE  ConvergenceInv'
  <1>1. closeConn(f) /\ UNCHANGED <<leaderVars, replica, missed>>
    BY DEF ReadFails, LeaderTimeout
  <1>2. CASE UNCHANGED <<link, current>>
    <2>1. WriteKnown' /\ OwnLink'
      BY <1>1, <1>2 DEF ConvergenceInv, WriteKnown, OwnLink, leaderVars
    <2>2. \A g \in Follower : \A x \in Link : \A k \in Key : UpToDate(g, x, k) => UpToDate(g, x, k)'
      BY <1>1, <1>2, UpToDateKept DEF leaderVars, InList
    <2>3. Converging'
      BY <1>2, <2>2 DEF ConvergenceInv, Converging
    <2>4. QED
      BY <2>1, <2>3 DEF ConvergenceInv
  <1>3. ASSUME current[f] \in Link, current' = [current EXCEPT ![f] = NoLink],
               NEW r, Becomes(current[f], r), r.handler = link[current[f]].handler, ~r.open
        PROVE  ConvergenceInv'
    <2>1. PICK x \in Link : x = current[f]
      BY <1>3
    <2>2. \A g \in Follower : \A y \in Link : current'[g] = y => current[g] = y
      BY <1>3 DEF BaseInv, TypeOK, Link, NoLink
    <2>3. \A g \in Follower : current[g] = x => link[x].handler # "unused"
      BY DEF ConvergenceInv, OwnLink
    <2>4. QED
      BY <1>1, <1>3, <2>1, <2>2, <2>3, ConvergingLink DEF leaderVars, InList
  <1>4. QED
    BY <1>1, <1>2, <1>3, CloseLink DEF BaseInv

LEMMA ConvergenceDials ==
  ASSUME BaseInv, ConvergenceInv,
         NEW f \in Follower, NEW x \in Link, Dial(f, x) \/ findNewLeader(f, x)
  PROVE  ConvergenceInv'
  <1>1. PICK o \in BOOLEAN : Opens(f, x, o)
    BY DEF Dial, findNewLeader
  <1>2. PICK r : Becomes(x, r) /\ r.id = f /\ r.handler = "accepted"
    BY <1>1, OpensLink
  <1>3. link'[x] = r
    BY <1>2, BecomesFacts DEF BaseInv
  <1>4. UNCHANGED <<leaderVars, replica, missed>>
    BY DEF Dial, findNewLeader
  <1>5. \A g \in Follower : current[g] # x
    BY <1>1, OpensUnused DEF ConvergenceInv, OwnLink
  <1>6. \A g \in Follower : (current'[g] = x => g = f) /\ (current'[g] # x => current'[g] = current[g])
    BY <1>5 DEF Dial, findNewLeader, BaseInv, TypeOK
  <1>7. \A k \in Key : UpToDate(f, x, k)'
    BY <1>2, <1>3 DEF UpToDate
  <1>8. QED
    BY <1>2, <1>4, <1>6, <1>7, ConvergingLink DEF leaderVars, InList

LEMMA ConvergenceNext == BaseInv /\ ConvergenceInv /\ [Next]_vars => ConvergenceInv'
  <1> SUFFICES ASSUME BaseInv, ConvergenceInv, [Next]_vars
               PROVE  ConvergenceInv'
    OBVIOUS
  <1>1. ASSUME NEW w \in Writer, Write(w) \/ Replicate(w)
        PROVE  ConvergenceInv'
    BY <1>1, WriteRecord, ConvergenceWrite, ConvergenceCopy, ConvergenceSend, ConvergenceDone
       DEF Replicate
  <1>2. ASSUME NEW x \in Link, handleFollower(x)
        PROVE  ConvergenceInv'
    BY <1>2, ConvergenceSnapshot, ConvergenceSyncFails, ConvergenceAdd, ConvergenceRemove
       DEF handleFollower
  <1>3. CASE UNCHANGED vars
    <2>1. UNCHANGED <<cache, followers, pc, op, targets, latest, link, replica, current, missed>>
      BY <1>3 DEF vars, leaderVars, followerVars
    <2>2. WriteKnown' /\ OwnLink'
      BY <2>1 DEF ConvergenceInv, WriteKnown, OwnLink
    <2>3. \A g \in Follower : \A x \in Link : \A k \in Key : UpToDate(g, x, k) => UpToDate(g, x, k)'
      BY <2>1, UpToDateKept DEF InList
    <2>4. Converging'
      BY <2>1, <2>3 DEF ConvergenceInv, Converging
    <2>5. QED
      BY <2>2, <2>4 DEF ConvergenceInv
  <1>4. QED
    BY <1>1, <1>2, <1>3, ConvergenceBreaks, ConvergenceReceive, ConvergenceLoses,
       ConvergenceDials DEF Next

--------------------------------------------------------------------------------
(***************************************************************************)
(* The leader, its connections and its followers keep their types: what a   *)
(* handler sends and a follower applies is always a record or the end of    *)
(* the copy, and a follower is dialling exactly when it has no connection.  *)
(***************************************************************************)
THEOREM ReplicationTyped == Spec => []TypeOK
  <1>1. BaseInv => TypeOK
    BY DEF BaseInv
  <1>2. QED
    BY <1>1, BaseAlways, PTL

(***************************************************************************)
(* Every follower has as many entries in l.followers as it has handlers in  *)
(* their loops, although removeFollower searches by id: for any number of   *)
(* followers, connections, losses, reconnections and election probes.       *)
(***************************************************************************)
THEOREM EntriesCounted == Spec => []EntriesMatchHandlers
  <1>1. Init => EntriesInv
    <2> SUFFICES ASSUME Init, NEW g \in Follower \cup {NoId}
                 PROVE  Cardinality({i \in 1..Len(followers) : link[followers[i]].id = g})
                          = Cardinality({x \in Link : link[x].handler = "tracked" /\ link[x].id = g})
      BY DEF EntriesInv
    <2>1. Len(followers) = 0
      BY EmptySeq DEF Init
    <2>2. {i \in 1..Len(followers) : link[followers[i]].id = g} = {}
      BY <2>1
    <2>3. {x \in Link : link[x].handler = "tracked" /\ link[x].id = g} = {}
      BY UnusedType DEF Init
    <2>4. QED
      BY <2>2, <2>3
  <1>2. EntriesInv => EntriesMatchHandlers
    BY DEF EntriesInv, EntriesMatchHandlers
  <1>3. QED
    BY <1>1, <1>2, BaseAlways, EntriesNext, PTL DEF Spec

(***************************************************************************)
(* Whoever writes which key, a follower that reads a quiet stream and is in *)
(* the leader's list has the leader's cache, but for the keys it is known   *)
(* to have missed: those whose last write came between the copy and its     *)
(* entry in the list, deleted the key while it was away, or was followed on *)
(* its connection by an earlier one.                                        *)
(***************************************************************************)
THEOREM FollowersConverge == Spec => []ConvergedWhileListed
  <1>1. BaseInv /\ ConvergenceInv => ConvergedWhileListed
    <2> SUFFICES ASSUME BaseInv, ConvergenceInv, NEW f \in Follower,
                        Quiet(f), Contains(followers, current[f]),
                        NEW k \in Key, replica[f][k] # cache[k]
                 PROVE  k \in missed[f]
      BY DEF ConvergedWhileListed
    <2>1. PICK x \in Link : x = current[f]
      BY DEF Quiet, BaseInv, TypeOK
    <2>2. InList(x)
      BY <2>1 DEF Contains, InList
    <2>3. UpToDate(f, x, k)
      BY <2>1 DEF Quiet, ConvergenceInv, Converging
    <2>4. ~Pending(x, k)
      BY DEF Quiet, Pending, Replicating, BaseInv, TypeOK
    <2>5. Len(link[x].stream) = 0
      BY <2>1, EmptySeq DEF Quiet
    <2>6. ~Ends(link[x].stream, replica[f][k], k, cache[k])
      BY <2>5 DEF Ends
    <2>7. QED
      BY <2>1, <2>2, <2>3, <2>4, <2>6 DEF Quiet, UpToDate
  <1>2. BaseInv /\ ConvergenceInv /\ [Next]_vars => ConvergenceInv'
    BY ConvergenceNext
  <1>3. QED
    BY <1>1, <1>2, BaseAlways, ConvergenceInit, PTL DEF Spec
================================================================================
