----------------------------- MODULE Failover_proofs ----------------------------
(***************************************************************************)
(* For any number of nodes, configurations, elections at once, crashes and  *)
(* restarts: two leaders of a shard have looked for each other in vain, and *)
(* in a timely cluster the follower with the higher priority goes first.    *)
(*                                                                          *)
(* SplitBrainOnlyIfBlind speaks of the nodes that lead.  The invariant says *)
(* where they came from: whom an election has still to dial and who did not *)
(* answer are together all the nodes its follower knows (Looked), and that  *)
(* is what a follower that listens has recorded (Blind).                    *)
(*                                                                          *)
(* PriorityGoesFirst speaks of the end of a wait.  The invariant orders the *)
(* waits: those ahead of an election have less of theirs left (Order),      *)
(* which Tick keeps since it runs all of them down together.                *)
(***************************************************************************)
EXTENDS Failover, WellFoundedInduction, TLAPS

ElectionType ==
  [state : {"none", "wait", "probe", "bind", "announce"}, wait : Nat,
   targets : Seq(Node), unseen : SUBSET Node, ahead : SUBSET (Node \X Slot)]

ElectionsTyped ==
  /\ cfg \in Configs
  /\ listening \in [Node -> BOOLEAN]
  /\ election \in [Node -> [Slot -> ElectionType]]
  /\ blind \in [Node -> SUBSET Node]
  /\ faults \in Nat

\* Everyone a follower with a priority knows has yet to be dialled or did not answer.
Looked ==
  \A n \in Node, e \in Slot :
    LET r == election[n][e] IN
    /\ r.state \in {"bind", "announce"} => r.targets = <<>>
    /\ r.state # "none" /\ cfg.priority[n] > 0 =>
         Range(Known(n)) \ {n} \subseteq r.unseen \cup Range(r.targets)

\* A follower that listens has looked for everyone it knows.
Blind ==
  \A n \in Follower : listening[n] /\ cfg.priority[n] > 0 => Range(Known(n)) \ {n} \subseteq blind[n]

FailoverInv == ElectionsTyped /\ Looked /\ Blind

--------------------------------------------------------------------------------
\* Naturals and the highest priority.

\* A nonempty set of naturals has a least element.
LEMMA LeastNat ==
  ASSUME NEW S \in SUBSET Nat, S # {}
  PROVE  \E x \in S : \A y \in S : x <= y
<1>1. PICK x \in S : \A y \in S : ~(<<y, x>> \in OpToRel(<, Nat))
  BY NatLessThanWellFounded, WFMin
<1>2. ASSUME NEW y \in S, y < x PROVE FALSE
  <2>1. <<y, x>> \in Nat \X Nat /\ <<y, x>>[1] < <<y, x>>[2]
    BY <1>2
  <2>2. <<y, x>> \in OpToRel(<, Nat)
    BY <2>1 DEF OpToRel
  <2> QED BY <1>1, <2>2
<1> QED BY <1>2

\* The priorities on a list have a highest one: the list has no shortest prefix
\* whose priorities have none.
LEMMA HighestOnList ==
  ASSUME NEW s \in Seq(Node), NEW f \in [Node -> Nat], NEW p \in Nat
  PROVE  \E x \in {p} \cup {f[z] : z \in Range(s)} :
           \A y \in {p} \cup {f[z] : z \in Range(s)} : x >= y
<1> DEFINE P(k) == {p} \cup {f[s[i]] : i \in 1..k}
           HasMax(k) == \E x \in P(k) : \A y \in P(k) : x >= y
           Bad == {k \in Nat : k <= Len(s) /\ ~HasMax(k)}
<1>1. \A k \in Nat : k <= Len(s) => P(k) \subseteq Nat
  <2>1. \A i \in 1..Len(s) : f[s[i]] \in Nat
    OBVIOUS
  <2> QED BY <2>1
<1>2. HasMax(0)
  <2>1. P(0) = {p}
    OBVIOUS
  <2> QED BY <2>1
<1>3. ASSUME NEW k \in Nat, k + 1 <= Len(s), HasMax(k)
      PROVE  HasMax(k + 1)
  <2>1. PICK x \in P(k) : \A y \in P(k) : x >= y
    BY <1>3
  <2>2. P(k + 1) = P(k) \cup {f[s[k + 1]]}
    <3>1. 1..(k + 1) = (1..k) \cup {k + 1}
      OBVIOUS
    <3> QED BY <3>1
  <2>3. P(k + 1) \subseteq Nat
    BY <1>1, <1>3
  <2> HIDE DEF P
  <2>4. CASE x >= f[s[k + 1]]
    BY <2>1, <2>2, <2>4
  <2>5. CASE ~(x >= f[s[k + 1]])
    <3>1. \A y \in P(k + 1) : f[s[k + 1]] >= y
      BY <2>1, <2>2, <2>3, <2>5
    <3> QED BY <2>2, <3>1
  <2> QED BY <2>4, <2>5
<1>4. Bad = {}
  <2> SUFFICES ASSUME Bad # {} PROVE FALSE
    OBVIOUS
  <2>1. PICK k \in Bad : \A j \in Bad : k <= j
    <3>1. Bad \in SUBSET Nat
      OBVIOUS
    <3> QED BY <3>1, LeastNat
  <2> HIDE DEF HasMax
  <2>2. k # 0 /\ k \in Nat /\ k <= Len(s) /\ ~HasMax(k)
    BY <1>2
  <2>3. k - 1 \in Nat /\ (k - 1) + 1 = k /\ k - 1 <= Len(s) /\ k - 1 \notin Bad
    BY <2>1, <2>2
  <2>4. HasMax(k - 1)
    BY <2>3
  <2> QED BY <1>3, <2>2, <2>3, <2>4
<1>5. HasMax(Len(s))
  <2> HIDE DEF HasMax
  <2> QED BY <1>4
<1>6. P(Len(s)) = {p} \cup {f[z] : z \in Range(s)}
  BY DEF Range
<1> QED BY <1>5, <1>6

\* What a configuration gives.
LEMMA ConfigFacts ==
  ASSUME cfg \in Configs
  PROVE  /\ cfg.nodes \in Seq(Node) /\ cfg.priority \in [Node -> Nat]
         /\ cfg.peers \in [Node -> Seq(Node)] /\ cfg.leaderOf \in [Node -> Node]
         /\ cfg.cluster => Range(cfg.nodes) = Node
BY ConfigAssumption DEF ConfigOK

\* A wait lasts at least one step, and in a cluster longer the lower the priority.
LEMMA WaitFacts ==
  ASSUME cfg \in Configs, NEW n \in Node
  PROVE  /\ Wait(n) \in Nat /\ Wait(n) > 0
         /\ \A m \in Node : cfg.cluster /\ cfg.priority[m] > cfg.priority[n] => Wait(m) < Wait(n)
<1> DEFINE P(k) == {cfg.priority[k]} \cup
                     IF cfg.cluster THEN {cfg.priority[m] : m \in Range(cfg.nodes)} ELSE {}
<1>0. cfg.priority \in [Node -> Nat] /\ cfg.nodes \in Seq(Node)
  BY ConfigFacts
<1>1. \A k \in Node : Highest(k) = Max(P(k))
  BY DEF Highest
<1>2. ASSUME NEW k \in Node
      PROVE  Highest(k) \in Nat /\ Highest(k) >= cfg.priority[k]
  <2>1. P(k) \subseteq Nat
    <3>1. Range(cfg.nodes) \subseteq Node
      BY <1>0 DEF Range
    <3> QED BY <1>0, <3>1
  <2>2. \E x \in P(k) : \A y \in P(k) : x >= y
    <3>1. CASE cfg.cluster
      <4>1. PICK p, s, f : p = cfg.priority[k] /\ s = cfg.nodes /\ f = cfg.priority
        OBVIOUS
      <4>2. s \in Seq(Node) /\ f \in [Node -> Nat] /\ p \in Nat
        BY <1>0, <4>1
      <4>3. \E x \in {p} \cup {f[z] : z \in Range(s)} :
              \A y \in {p} \cup {f[z] : z \in Range(s)} : x >= y
        BY <4>2, HighestOnList, Zenon
      <4>4. P(k) = {p} \cup {f[z] : z \in Range(s)}
        BY <3>1, <4>1
      <4> HIDE DEF P
      <4> QED BY <4>3, <4>4
    <3>2. CASE ~cfg.cluster
      <4>1. P(k) = {cfg.priority[k]}
        BY <3>2
      <4> HIDE DEF P
      <4> QED BY <1>0, <4>1
    <3> QED BY <3>1, <3>2
  <2>3. cfg.priority[k] \in P(k)
    OBVIOUS
  <2> HIDE DEF P
  <2>4. Max(P(k)) \in P(k) /\ \A y \in P(k) : Max(P(k)) >= y
    BY <2>2 DEF Max
  <2> QED BY <1>1, <2>1, <2>3, <2>4
<1>3. ASSUME NEW m \in Node, cfg.cluster
      PROVE  Highest(m) = Highest(n)
  <2>1. P(m) = {cfg.priority[k] : k \in Node} /\ P(n) = {cfg.priority[k] : k \in Node}
    BY <1>3, ConfigFacts
  <2> HIDE DEF P
  <2> QED BY <1>1, <2>1
<1>4. Wait(n) \in Nat /\ Wait(n) > 0
  BY <1>0, <1>2 DEF Wait
<1>5. ASSUME NEW m \in Node, cfg.cluster, cfg.priority[m] > cfg.priority[n]
      PROVE  Wait(m) < Wait(n)
  BY <1>0, <1>2, <1>3, <1>5 DEF Wait
<1> QED BY <1>4, <1>5

--------------------------------------------------------------------------------
\* Elections, one at a time.

\* But for those that were ahead of it and are over, an election stays as it is.
SameButAhead(m, f) ==
  /\ election'[m][f].state = election[m][f].state /\ election'[m][f].wait = election[m][f].wait
  /\ election'[m][f].targets = election[m][f].targets
  /\ election'[m][f].unseen = election[m][f].unseen
  /\ election'[m][f].ahead \subseteq election[m][f].ahead

\* Becomes changes one election, and takes it from before the others if it is over.
LEMMA BecomesFacts ==
  ASSUME ElectionsTyped, NEW n \in Node, NEW e \in Slot, NEW r \in ElectionType, Becomes(n, e, r)
  PROVE  /\ election' \in [Node -> [Slot -> ElectionType]] /\ election'[n][e] = r
         /\ \A m \in Node, f \in Slot : ~(m = n /\ f = e) => SameButAhead(m, f)
         /\ r.state = "none" =>
              \A m \in Node, f \in Slot : ~(m = n /\ f = e) => <<n, e>> \notin election'[m][f].ahead
<1>1. \A m \in Node, f \in Slot : election[m][f] \in ElectionType
  BY DEF ElectionsTyped
<1> DEFINE q(m, f) == IF m = n /\ f = e THEN r
                      ELSE IF r.state = "none"
                           THEN [election[m][f] EXCEPT !.ahead = election[m][f].ahead \ {<<n, e>>}]
                           ELSE election[m][f]
<1>2. \A m \in Node, f \in Slot : q(m, f) \in ElectionType
  BY <1>1 DEF ElectionType
<1>3. election' = [m \in Node |-> [f \in Slot |-> q(m, f)]]
  BY DEF Becomes
<1>4. election' \in [Node -> [Slot -> ElectionType]] /\ \A m \in Node, f \in Slot : election'[m][f] = q(m, f)
  <2> HIDE DEF q
  <2> QED BY <1>2, <1>3
<1>5. ASSUME NEW m \in Node, NEW f \in Slot, ~(m = n /\ f = e)
      PROVE  /\ SameButAhead(m, f)
             /\ r.state = "none" => <<n, e>> \notin election'[m][f].ahead
  <2>1. CASE r.state = "none"
    <3>1. election'[m][f] = [election[m][f] EXCEPT !.ahead = election[m][f].ahead \ {<<n, e>>}]
      BY <1>4, <1>5, <2>1
    <3> QED BY <1>1, <2>1, <3>1 DEF SameButAhead, ElectionType
  <2>2. CASE r.state # "none"
    <3>1. election'[m][f] = election[m][f]
      BY <1>4, <1>5, <2>2
    <3> QED BY <2>2, <3>1 DEF SameButAhead
  <2> QED BY <2>1, <2>2
<1>6. election'[n][e] = r
  BY <1>4
<1> QED BY <1>4, <1>5, <1>6

\* Whom a follower knows is fixed.
LEMMA KnownFacts ==
  ASSUME cfg \in Configs
  PROVE  \A n \in Node : Known(n) \in Seq(Node)
BY ConfigFacts DEF Known

\* What one election has to show.
Complete(n, r) ==
  /\ r.state \in {"bind", "announce"} => r.targets = <<>>
  /\ r.state # "none" /\ cfg.priority[n] > 0 =>
       Range(Known(n)) \ {n} \subseteq r.unseen \cup Range(r.targets)

\* A step of one election, its listener apart.
LEMMA OneElection ==
  ASSUME FailoverInv, cfg' = cfg, NEW n \in Node, NEW e \in Slot, NEW r,
         election'[n][e] = r, Complete(n, r),
         \A m \in Node, f \in Slot : ~(m = n /\ f = e) => SameButAhead(m, f)
  PROVE  Looked'
<1>1. \A k \in Node : Known(k)' = Known(k)
  BY DEF Known
<1>2. \A m \in Node, f \in Slot : Complete(m, election[m][f])
  BY DEF FailoverInv, Looked, Complete
<1>3. \A m \in Node, f \in Slot : Complete(m, election'[m][f])
  BY <1>2 DEF SameButAhead, Complete
<1> QED BY <1>1, <1>3 DEF Looked, Complete

\* Where neither listeners nor configuration change, followers have still looked.
LEMMA BlindKept ==
  ASSUME FailoverInv, cfg' = cfg, UNCHANGED <<listening, blind>>
  PROVE  Blind'
BY DEF FailoverInv, Blind, Follower, Known

\* The steps of an election.
LEMMA ElectionKeeps ==
  ASSUME FailoverInv, NEW n \in Node, NEW e \in Slot, ElectionStep(n, e)
  PROVE  FailoverInv'
<1> DEFINE old == election[n][e]
<1>1. /\ ElectionsTyped /\ cfg' = cfg /\ cfg \in Configs /\ old \in ElectionType
      /\ Complete(n, old) /\ faults \in Nat /\ listening \in [Node -> BOOLEAN]
      /\ blind \in [Node -> SUBSET Node]
  BY DEF FailoverInv, ElectionsTyped, Looked, Complete, ElectionStep, WaitIsOver, Found, NotFound,
         Stand, Bind, BindFails, Announce
<1>2. ASSUME NEW r \in ElectionType, Becomes(n, e, r), Complete(n, r), faults' \in Nat,
             UNCHANGED <<listening, blind>>
      PROVE  FailoverInv'
  <2>1. /\ election' \in [Node -> [Slot -> ElectionType]] /\ election'[n][e] = r
        /\ \A m \in Node, f \in Slot : ~(m = n /\ f = e) => SameButAhead(m, f)
    BY <1>1, <1>2, BecomesFacts
  <2>2. Looked'
    BY <1>1, <1>2, <2>1, OneElection
  <2>3. Blind'
    BY <1>1, <1>2, BlindKept
  <2>4. ElectionsTyped'
    BY <1>1, <1>2, <2>1 DEF ElectionsTyped
  <2> QED BY <2>2, <2>3, <2>4 DEF FailoverInv
<1>3. CASE WaitIsOver(n, e)
  <2> DEFINE r == [old EXCEPT !.state = "probe"]
  <2>1. /\ r \in ElectionType /\ r.state = "probe" /\ r.targets = old.targets /\ r.unseen = old.unseen
        /\ old.state = "wait"
    BY <1>1, <1>3 DEF ElectionType, WaitIsOver
  <2>2. Becomes(n, e, r) /\ UNCHANGED <<listening, blind, faults>>
    BY <1>3 DEF WaitIsOver
  <2> HIDE DEF r
  <2>3. Complete(n, r)
    BY <1>1, <2>1 DEF Complete
  <2> QED BY <1>1, <1>2, <2>1, <2>2, <2>3
<1>4. ASSUME Becomes(n, e, NoElection), UNCHANGED <<listening, blind>>, faults' \in Nat
      PROVE  FailoverInv'
  <2>1. NoElection \in ElectionType /\ NoElection.state = "none"
    BY DEF NoElection, ElectionType
  <2> QED BY <1>2, <1>4, <2>1 DEF Complete
<1>5. CASE Found(n, e)
  BY <1>1, <1>4, <1>5 DEF Found
<1>6. CASE NotFound(n, e)
  <2>1. PICK m : m = Head(old.targets)
    OBVIOUS
  <2> DEFINE u == IF listening[m] /\ faults' = faults THEN old.unseen ELSE old.unseen \cup {m}
             r == [old EXCEPT !.targets = Tail(old.targets), !.unseen = u]
  <2>2. /\ Becomes(n, e, r) /\ UNCHANGED <<listening, blind>> /\ faults' \in Nat
        /\ old.state = "probe" /\ old.targets # <<>>
    BY <1>1, <1>6, <2>1 DEF NotFound
  <2>3. /\ m \in Node /\ Tail(old.targets) \in Seq(Node)
        /\ Range(old.targets) = {m} \cup Range(Tail(old.targets))
    <3>1. old.targets \in Seq(Node)
      BY <1>1 DEF ElectionType
    <3>2. PICK s \in Seq(Node) : s = old.targets
      BY <3>1
    <3>3. s # <<>> /\ m = s[1]
      BY <2>1, <2>2, <3>2
    <3>4. /\ m \in Node /\ Tail(s) \in Seq(Node) /\ Len(Tail(s)) = Len(s) - 1
          /\ \A i \in 1..(Len(s) - 1) : Tail(s)[i] = s[i + 1]
      BY <3>3
    <3>5. Range(s) = {m} \cup Range(Tail(s))
      <4>1. \A i \in 1..Len(s) : i = 1 \/ (i - 1 \in 1..(Len(s) - 1) /\ (i - 1) + 1 = i)
        OBVIOUS
      <4>2. \A i \in 1..(Len(s) - 1) : i + 1 \in 1..Len(s)
        OBVIOUS
      <4>3. 1 \in 1..Len(s) /\ DOMAIN s = 1..Len(s) /\ DOMAIN Tail(s) = 1..(Len(s) - 1)
        BY <3>3, <3>4
      <4>4. ASSUME NEW i \in 1..Len(s)
            PROVE  s[i] \in {m} \cup {Tail(s)[j] : j \in 1..(Len(s) - 1)}
        <5>1. CASE i = 1
          BY <3>3, <5>1
        <5>2. CASE i # 1
          <6>1. i - 1 \in 1..(Len(s) - 1) /\ s[i] = Tail(s)[i - 1]
            BY <3>4, <4>1, <5>2
          <6> QED BY <6>1
        <5> QED BY <5>1, <5>2
      <4>5. ASSUME NEW j \in 1..(Len(s) - 1)
            PROVE  Tail(s)[j] \in {s[i] : i \in 1..Len(s)}
        BY <3>4, <4>2
      <4>6. m \in {s[i] : i \in 1..Len(s)}
        BY <3>3, <4>3
      <4> QED BY <4>3, <4>4, <4>5, <4>6 DEF Range
    <3> QED BY <3>2, <3>4, <3>5
  <2>4. m # n /\ listening[m] => faults' # faults
    <3>1. m # n /\ listening[m] => Answers(n, e)
      BY <2>1 DEF Answers
    <3> QED BY <1>1, <1>6, <3>1 DEF NotFound
  <2>5. u \in SUBSET Node /\ old.unseen \subseteq u /\ (m # n => m \in u)
    <3>1. old.unseen \in SUBSET Node
      BY <1>1 DEF ElectionType
    <3> QED BY <2>3, <2>4, <3>1
  <2> HIDE DEF u
  <2>6. /\ r \in ElectionType /\ r.state = "probe" /\ r.targets = Tail(old.targets) /\ r.unseen = u
    BY <1>1, <2>2, <2>3, <2>5 DEF ElectionType
  <2> HIDE DEF r
  <2>7. Complete(n, r)
    BY <1>1, <2>2, <2>3, <2>5, <2>6 DEF Complete
  <2> QED BY <1>2, <2>2, <2>6, <2>7
<1>7. CASE Stand(n, e)
  <2> DEFINE r == [old EXCEPT !.state = "bind"]
  <2>1. /\ r \in ElectionType /\ r.state = "bind" /\ r.targets = old.targets /\ r.unseen = old.unseen
        /\ old.state = "probe" /\ old.targets = <<>>
    BY <1>1, <1>7 DEF ElectionType, Stand
  <2>2. Becomes(n, e, r) /\ UNCHANGED <<listening, blind, faults>>
    BY <1>7 DEF Stand
  <2> HIDE DEF r
  <2>3. Complete(n, r)
    BY <1>1, <2>1 DEF Complete
  <2> QED BY <1>1, <1>2, <2>1, <2>2, <2>3
<1>8. CASE Bind(n, e)
  <2> DEFINE r == [old EXCEPT !.state = "announce"]
  <2>1. /\ r \in ElectionType /\ r.state = "announce" /\ r.targets = old.targets /\ r.unseen = old.unseen
        /\ old.state = "bind" /\ old.unseen \in SUBSET Node
    BY <1>1, <1>8 DEF ElectionType, Bind
  <2>2. /\ Becomes(n, e, r) /\ faults' = faults
        /\ listening' = [listening EXCEPT ![n] = TRUE] /\ blind' = [blind EXCEPT ![n] = old.unseen]
    BY <1>8 DEF Bind
  <2> HIDE DEF r
  <2>3. Complete(n, r) /\ old.targets = <<>>
    BY <1>1, <2>1 DEF Complete
  <2>4. /\ election' \in [Node -> [Slot -> ElectionType]] /\ election'[n][e] = r
        /\ \A m \in Node, f \in Slot : ~(m = n /\ f = e) => SameButAhead(m, f)
    BY <1>1, <2>1, <2>2, BecomesFacts
  <2>5. Looked'
    BY <1>1, <2>3, <2>4, OneElection
  <2>6. ElectionsTyped'
    BY <1>1, <2>1, <2>2, <2>4 DEF ElectionsTyped
  <2>7. cfg.priority[n] > 0 => Range(Known(n)) \ {n} \subseteq old.unseen
    <3>1. Range(old.targets) = {}
      BY <2>3 DEF Range
    <3> QED BY <1>1, <2>1, <3>1 DEF Complete
  <2>8. Blind'
    <3> SUFFICES ASSUME NEW m \in Follower, listening'[m], cfg.priority[m] > 0
                 PROVE  Range(Known(m)) \ {m} \subseteq blind'[m]
      BY <1>1 DEF Blind, Follower, Known
    <3>1. CASE m = n
      BY <1>1, <2>2, <2>7, <3>1
    <3>2. CASE m # n
      <4>1. m \in Node /\ listening'[m] = listening[m] /\ blind'[m] = blind[m]
        BY <1>1, <2>2, <3>2 DEF Follower
      <4> QED BY <4>1 DEF FailoverInv, Blind
    <3> QED BY <3>1, <3>2
  <2> QED BY <2>5, <2>6, <2>8 DEF FailoverInv
<1>9. CASE BindFails(n, e)
  BY <1>1, <1>4, <1>9 DEF BindFails
<1>10. CASE Announce(n, e)
  BY <1>1, <1>4, <1>10 DEF Announce
<1> QED BY <1>3, <1>5, <1>6, <1>7, <1>8, <1>9, <1>10 DEF ElectionStep

\* What startElection begins with.
LEMMA BegunFacts ==
  ASSUME ElectionsTyped, NEW n \in Node, NEW e \in Slot, StartElection(n, e)
  PROVE  /\ Begun(n) \in ElectionType /\ Complete(n, Begun(n))
         /\ Begun(n).wait <= Wait(n) /\ (Begun(n).ahead # {} => Begun(n).state = "wait" /\ Begun(n).wait = Wait(n))
         /\ Begun(n).ahead \subseteq Ahead(n)
         /\ election' \in [Node -> [Slot -> ElectionType]] /\ election'[n][e] = Begun(n)
         /\ \A m \in Node, f \in Slot : ~(m = n /\ f = e) => election'[m][f] = election[m][f]
<1>1. cfg \in Configs /\ election \in [Node -> [Slot -> ElectionType]]
  BY DEF ElectionsTyped
<1>2. Wait(n) \in Nat /\ Known(n) \in Seq(Node) /\ cfg.priority[n] \in Nat
  BY <1>1, WaitFacts, KnownFacts, ConfigFacts
<1>3. Ahead(n) \in SUBSET (Node \X Slot)
  BY DEF Ahead, Shard
<1>4. /\ Begun(n) \in ElectionType /\ Complete(n, Begun(n))
      /\ Begun(n).wait <= Wait(n) /\ (Begun(n).ahead # {} => Begun(n).state = "wait" /\ Begun(n).wait = Wait(n))
      /\ Begun(n).ahead \subseteq Ahead(n)
  <2>1. CASE cfg.priority[n] > 0
    <3>1. Begun(n) = [state |-> "wait", wait |-> Wait(n), targets |-> Known(n), unseen |-> {}, ahead |-> Ahead(n)]
      BY <2>1 DEF Begun
    <3> QED BY <1>2, <1>3, <3>1 DEF ElectionType, Complete
  <2>2. CASE ~(cfg.priority[n] > 0)
    <3>1. Begun(n) \in {NoElection, [NoElection EXCEPT !.state = "probe"]}
      BY <2>2 DEF Begun
    <3>2. /\ Begun(n) \in ElectionType /\ Begun(n).state \in {"none", "probe"} /\ Begun(n).wait = 0
          /\ Begun(n).ahead = {}
      <4>1. CASE Begun(n) = NoElection
        BY <4>1 DEF NoElection, ElectionType
      <4>2. CASE Begun(n) = [NoElection EXCEPT !.state = "probe"]
        <5>1. Begun(n) = [state |-> "probe", wait |-> 0, targets |-> <<>>, unseen |-> {}, ahead |-> {}]
          BY <4>2 DEF NoElection
        <5> QED BY <5>1 DEF ElectionType
      <4> QED BY <3>1, <4>1, <4>2
    <3> QED BY <1>2, <2>2, <3>2 DEF Complete
  <2> QED BY <2>1, <2>2
<1>5. election' = [election EXCEPT ![n] = [election[n] EXCEPT ![e] = Begun(n)]]
  BY DEF StartElection
<1> QED BY <1>1, <1>4, <1>5

\* A step that is not an election's own.
LEMMA OtherKeeps ==
  ASSUME FailoverInv, NEW n \in Node,
         Loop(n) \/ Monitor(n) \/ Expire(n) \/ BreakLink(n)
  PROVE  FailoverInv'
<1>1. /\ UNCHANGED <<cfg, listening, blind>> /\ faults' \in Nat
      /\ election' = election \/ \E e \in Slot : StartElection(n, e)
  BY DEF FailoverInv, ElectionsTyped, Loop, Monitor, Expire, BreakLink, Connect, ConnectFails,
         StreamFails, LeaderTimeout, MonitorReturns
<1>2. Blind'
  BY <1>1, BlindKept
<1>3. CASE election' = election
  <2>1. Looked'
    BY <1>1, <1>3 DEF FailoverInv, Looked, Known
  <2>2. ElectionsTyped'
    BY <1>1, <1>3 DEF FailoverInv, ElectionsTyped
  <2> QED BY <1>2, <2>1, <2>2 DEF FailoverInv
<1>4. ASSUME NEW e \in Slot, StartElection(n, e) PROVE FailoverInv'
  <2>1. /\ Begun(n) \in ElectionType /\ Complete(n, Begun(n))
        /\ election' \in [Node -> [Slot -> ElectionType]] /\ election'[n][e] = Begun(n)
        /\ \A m \in Node, f \in Slot : ~(m = n /\ f = e) => election'[m][f] = election[m][f]
    BY <1>4, BegunFacts DEF FailoverInv
  <2>2. Looked'
    BY <1>1, <2>1, OneElection DEF SameButAhead
  <2>3. ElectionsTyped'
    BY <1>1, <2>1 DEF FailoverInv, ElectionsTyped
  <2> QED BY <1>2, <2>2, <2>3 DEF FailoverInv
<1> QED BY <1>1, <1>3, <1>4

\* Time passes in every election.
LEMMA TickFacts ==
  ASSUME ElectionsTyped, Tick
  PROVE  /\ election' \in [Node -> [Slot -> ElectionType]]
         /\ \A m \in Node, f \in Slot :
              /\ election'[m][f].state = election[m][f].state
              /\ election'[m][f].targets = election[m][f].targets
              /\ election'[m][f].unseen = election[m][f].unseen
              /\ election'[m][f].ahead = election[m][f].ahead
              /\ election'[m][f].wait = IF election[m][f].wait > 0 THEN election[m][f].wait - 1 ELSE 0
<1>1. \A m \in Node, f \in Slot : election[m][f] \in ElectionType
  BY DEF ElectionsTyped
<1> DEFINE w(m, f) == IF election[m][f].wait > 0 THEN election[m][f].wait - 1 ELSE 0
           q(m, f) == [election[m][f] EXCEPT !.wait = w(m, f)]
<1>0. \A m \in Node, f \in Slot : w(m, f) \in Nat
  <2>1. \A m \in Node, f \in Slot : election[m][f].wait \in Nat
    BY <1>1 DEF ElectionType
  <2> QED BY <2>1
<1>2. \A m \in Node, f \in Slot :
        /\ q(m, f) \in ElectionType /\ q(m, f).state = election[m][f].state
        /\ q(m, f).targets = election[m][f].targets /\ q(m, f).unseen = election[m][f].unseen
        /\ q(m, f).ahead = election[m][f].ahead
        /\ q(m, f).wait = w(m, f)
  <2> HIDE DEF w
  <2> QED BY <1>0, <1>1 DEF ElectionType
<1>3. election' = [m \in Node |-> [f \in Slot |-> q(m, f)]]
  BY DEF Tick
<1> HIDE DEF q
<1> QED BY <1>2, <1>3

\* A crash ends the elections of one node, and those ahead of others with them.
LEMMA CrashFacts ==
  ASSUME ElectionsTyped, NEW n \in Node, Crash(n)
  PROVE  /\ election' \in [Node -> [Slot -> ElectionType]]
         /\ \A f \in Slot : election'[n][f] = NoElection
         /\ \A m \in Node \ {n}, f \in Slot : SameButAhead(m, f) /\ \A g \in Slot : <<n, g>> \notin election'[m][f].ahead
<1>1. \A m \in Node, f \in Slot : election[m][f] \in ElectionType
  BY DEF ElectionsTyped
<1> DEFINE b(m, f) == election[m][f].ahead \ ({n} \X Slot)
           q(m, f) == IF m = n THEN NoElection ELSE [election[m][f] EXCEPT !.ahead = b(m, f)]
<1>2. NoElection \in ElectionType
  BY DEF NoElection, ElectionType
<1>3. \A m \in Node \ {n}, f \in Slot :
        /\ q(m, f) \in ElectionType /\ q(m, f).state = election[m][f].state
        /\ q(m, f).targets = election[m][f].targets /\ q(m, f).unseen = election[m][f].unseen
        /\ q(m, f).ahead = b(m, f) /\ q(m, f).wait = election[m][f].wait
  <2>1. \A m \in Node, f \in Slot : b(m, f) \in SUBSET (Node \X Slot)
    BY <1>1 DEF ElectionType
  <2> HIDE DEF b
  <2>2. \A m \in Node \ {n}, f \in Slot : q(m, f) = [election[m][f] EXCEPT !.ahead = b(m, f)]
    OBVIOUS
  <2> HIDE DEF q
  <2>3. ASSUME NEW r \in ElectionType, NEW x \in SUBSET (Node \X Slot)
        PROVE  LET t == [r EXCEPT !.ahead = x] IN
               /\ t \in ElectionType /\ t.state = r.state /\ t.targets = r.targets
               /\ t.unseen = r.unseen /\ t.ahead = x /\ t.wait = r.wait
    BY DEF ElectionType
  <2>4. ASSUME NEW m \in Node \ {n}, NEW f \in Slot
        PROVE  /\ q(m, f) \in ElectionType /\ q(m, f).state = election[m][f].state
               /\ q(m, f).targets = election[m][f].targets /\ q(m, f).unseen = election[m][f].unseen
               /\ q(m, f).ahead = b(m, f) /\ q(m, f).wait = election[m][f].wait
    <3>1. PICK r \in ElectionType : r = election[m][f]
      BY <1>1
    <3>2. PICK x \in SUBSET (Node \X Slot) : x = b(m, f)
      BY <2>1
    <3>3. q(m, f) = [r EXCEPT !.ahead = x]
      BY <2>2, <3>1, <3>2
    <3> QED BY <2>3, <3>1, <3>2, <3>3
  <2> QED BY <2>4
<1>4. \A f \in Slot : q(n, f) = NoElection
  OBVIOUS
<1>5. election' = [m \in Node |-> [f \in Slot |-> q(m, f)]]
  BY DEF Crash
<1> HIDE DEF q
<1>6. \A m \in Node, f \in Slot : election'[m][f] = q(m, f)
  BY <1>5
<1>7. election' \in [Node -> [Slot -> ElectionType]]
  <2>1. \A m \in Node, f \in Slot : q(m, f) \in ElectionType
    BY <1>2, <1>3, <1>4
  <2> QED BY <1>5, <2>1
<1> QED BY <1>3, <1>4, <1>6, <1>7 DEF SameButAhead

\* Every step keeps the invariant.
LEMMA FailoverStep == FailoverInv /\ [Next]_vars => FailoverInv'
<1> SUFFICES ASSUME FailoverInv, [Next]_vars PROVE FailoverInv'
  OBVIOUS
<1>0. ElectionsTyped /\ Looked /\ Blind
  BY DEF FailoverInv
<1>1. CASE Tick
  <2>1. UNCHANGED <<cfg, listening, blind, faults>>
    BY <1>1 DEF Tick
  <2>2. Looked'
    BY <1>0, <1>1, <2>1, TickFacts DEF Looked, Known
  <2>3. ElectionsTyped'
    BY <1>0, <1>1, <2>1, TickFacts DEF ElectionsTyped
  <2> QED BY <2>1, <2>2, <2>3, BlindKept DEF FailoverInv
<1>2. ASSUME NEW n \in Node, Crash(n) PROVE FailoverInv'
  <2>1. /\ cfg' = cfg /\ faults' = faults + 1
        /\ listening' = [listening EXCEPT ![n] = FALSE] /\ blind' = [blind EXCEPT ![n] = {}]
    BY <1>2 DEF Crash
  <2>2. ElectionsTyped'
    BY <1>0, <1>2, <2>1, CrashFacts DEF ElectionsTyped
  <2>3. Looked'
    <3>1. NoElection.state = "none"
      BY DEF NoElection
    <3>2. \A m \in Node, f \in Slot : Complete(m, election'[m][f])
      BY <1>0, <1>2, <3>1, CrashFacts DEF Looked, Complete, SameButAhead
    <3> QED BY <2>1, <3>2 DEF Looked, Complete, Known
  <2>4. Blind'
    <3>1. \A m \in Node : listening'[m] => listening[m] /\ blind'[m] = blind[m]
      BY <1>0, <2>1 DEF ElectionsTyped
    <3> QED BY <1>0, <2>1, <3>1 DEF Blind, Follower, Known
  <2> QED BY <2>2, <2>3, <2>4 DEF FailoverInv
<1>3. ASSUME NEW n \in Node, Restart(n) PROVE FailoverInv'
  <2>1. /\ UNCHANGED <<cfg, election, blind, faults>>
        /\ listening' = [listening EXCEPT ![n] = n \notin Follower]
    BY <1>3 DEF Restart, StartFollower
  <2>2. ElectionsTyped' /\ Looked'
    BY <1>0, <2>1 DEF ElectionsTyped, Looked, Known
  <2>3. Blind'
    <3>1. \A m \in Follower : listening'[m] => listening[m]
      BY <1>0, <2>1 DEF ElectionsTyped, Follower
    <3> QED BY <1>0, <2>1, <3>1 DEF Blind, Follower, Known
  <2> QED BY <2>2, <2>3 DEF FailoverInv
<1>4. CASE UNCHANGED vars
  <2>1. UNCHANGED <<cfg, listening, blind, faults, election>>
    BY <1>4 DEF vars, nodeVars
  <2>2. ElectionsTyped' /\ Looked'
    BY <1>0, <2>1 DEF ElectionsTyped, Looked, Known
  <2> QED BY <2>1, <2>2, BlindKept DEF FailoverInv
<1> QED BY <1>1, <1>2, <1>3, <1>4, ElectionKeeps, OtherKeeps DEF Next

\* At the start only leaders listen.
LEMMA InitFailover == Init => FailoverInv
<1> SUFFICES ASSUME Init PROVE FailoverInv
  OBVIOUS
<1>1. NoElection \in ElectionType /\ NoElection.state = "none"
  BY DEF NoElection, ElectionType
<1>2. ElectionsTyped
  BY <1>1 DEF Init, ElectionsTyped
<1>3. \A n \in Node, e \in Slot : election[n][e].state = "none"
  BY <1>1 DEF Init
<1>4. Looked /\ Blind
  BY <1>3 DEF Init, Looked, Blind, Follower
<1> QED BY <1>2, <1>4 DEF FailoverInv

\* However elections, crashes, restarts and lost dials interleave.
LEMMA FailoverAlways == Spec => []FailoverInv
BY InitFailover, FailoverStep, PTL DEF Spec

\* Two nodes lead a shard only if a promoted one among them had dialled the other
\* in vain, never knew of it, or had no priority and did not look.
THEOREM SplitBrainExplained == Spec => []SplitBrainOnlyIfBlind
<1>1. FailoverInv => SplitBrainOnlyIfBlind
  <2> SUFFICES ASSUME FailoverInv, NEW n \in Follower, NEW m \in Shard(n) \ {n},
                      Leads(n), m \notin blind[n], m \in Range(Known(n))
               PROVE  cfg.priority[n] = 0
    BY DEF SplitBrainOnlyIfBlind
  <2>1. n \in Node /\ cfg.priority[n] \in Nat
    BY ConfigFacts DEF Follower, FailoverInv, ElectionsTyped
  <2>2. listening[n]
    BY DEF Leads
  <2>3. ~(cfg.priority[n] > 0)
    BY <2>2 DEF FailoverInv, Blind
  <2> QED BY <2>1, <2>3
<1> QED BY <1>1, FailoverAlways, PTL

--------------------------------------------------------------------------------
\* Priorities.

\* Nobody has longer to wait than its priority says.
WaitBounded == \A n \in Node, e \in Slot : election[n][e].wait <= Wait(n)

\* Those ahead of an election are under way and have less of their wait left.
Order ==
  cfg.cluster /\ cfg.timely =>
    \A n \in Node, e \in Slot, m \in Node, f \in Slot :
      <<m, f>> \in election[n][e].ahead =>
        /\ Electing(m, f) /\ election[n][e].state = "wait"
        /\ election[m][f].wait < election[n][e].wait

OrderInv == WaitBounded /\ Order

\* An election that goes on without changing its wait, or ends.
LEMMA OneElectionOrder ==
  ASSUME ElectionsTyped, OrderInv, cfg' = cfg, NEW n \in Node, NEW e \in Slot,
         NEW r \in ElectionType, Becomes(n, e, r),
         r.wait <= election[n][e].wait,
         r.state # "none" => r.wait = election[n][e].wait,
         cfg.cluster /\ cfg.timely => r.ahead = {},
         Electing(n, e)
  PROVE  OrderInv'
<1>1. /\ election'[n][e] = r
      /\ \A m \in Node, f \in Slot : ~(m = n /\ f = e) => SameButAhead(m, f)
      /\ r.state = "none" =>
           \A m \in Node, f \in Slot : ~(m = n /\ f = e) => <<n, e>> \notin election'[m][f].ahead
  BY BecomesFacts
<1>2. /\ \A m \in Node : Wait(m)' = Wait(m) /\ Wait(m) \in Nat
      /\ \A m \in Node, f \in Slot : election[m][f].wait \in Nat
      /\ r.wait \in Nat
  <2>1. \A m \in Node : Wait(m)' = Wait(m)
    BY DEF Wait, Highest
  <2>2. \A m \in Node : Wait(m) \in Nat
    BY WaitFacts DEF ElectionsTyped
  <2> QED BY <2>1, <2>2 DEF ElectionsTyped, ElectionType
<1>3. WaitBounded'
  <2> SUFFICES ASSUME NEW m \in Node, NEW f \in Slot PROVE election'[m][f].wait <= Wait(m)
    BY <1>2 DEF WaitBounded
  <2>1. election[m][f].wait <= Wait(m)
    BY DEF OrderInv, WaitBounded
  <2>2. CASE m = n /\ f = e
    BY <1>1, <1>2, <2>1, <2>2
  <2>3. CASE ~(m = n /\ f = e)
    BY <1>1, <2>1, <2>3 DEF SameButAhead
  <2> QED BY <2>2, <2>3
<1>4. Order'
  <2> SUFFICES ASSUME cfg.cluster, cfg.timely,
                      NEW k \in Node, NEW g \in Slot, NEW m \in Node, NEW f \in Slot,
                      <<m, f>> \in election'[k][g].ahead
               PROVE  /\ election'[m][f].state # "none" /\ election'[k][g].state = "wait"
                      /\ election'[m][f].wait < election'[k][g].wait
    BY DEF Order, Electing
  <2>1. ~(k = n /\ g = e)
    BY <1>1
  <2>2. /\ <<m, f>> \in election[k][g].ahead /\ election'[k][g].state = election[k][g].state
        /\ election'[k][g].wait = election[k][g].wait
    BY <1>1, <2>1 DEF SameButAhead
  <2>3. /\ election[m][f].state # "none" /\ election[k][g].state = "wait"
        /\ election[m][f].wait < election[k][g].wait
    BY <2>2 DEF OrderInv, Order, Electing
  <2>4. CASE m = n /\ f = e
    <3>1. r.state # "none"
      BY <1>1, <2>1, <2>4
    <3> QED BY <1>1, <2>2, <2>3, <2>4, <3>1
  <2>5. CASE ~(m = n /\ f = e)
    BY <1>1, <2>2, <2>3, <2>5 DEF SameButAhead
  <2> QED BY <2>4, <2>5
<1> QED BY <1>3, <1>4 DEF OrderInv

\* The steps of an election: a wait that is over has nobody ahead of it.
LEMMA ElectionOrder ==
  ASSUME ElectionsTyped, OrderInv, NEW n \in Node, NEW e \in Slot, ElectionStep(n, e)
  PROVE  OrderInv'
<1> DEFINE old == election[n][e]
<1>1. cfg' = cfg /\ Electing(n, e)
  BY DEF ElectionStep, WaitIsOver, Found, NotFound, Stand, Bind, BindFails, Announce, Electing
<1>2. old \in ElectionType /\ \A m \in Node, f \in Slot : election[m][f].wait \in Nat
  BY DEF ElectionsTyped, ElectionType
<1>3. ASSUME cfg.cluster, cfg.timely, old.state # "wait" \/ old.wait = 0
      PROVE  old.ahead = {}
  <2>1. \A m \in Node, f \in Slot : <<m, f>> \in old.ahead => FALSE
    BY <1>2, <1>3 DEF OrderInv, Order
  <2>2. old.ahead \in SUBSET (Node \X Slot)
    BY <1>2 DEF ElectionType
  <2> QED BY <2>1, <2>2
<1>4. old.state # "wait" \/ old.wait = 0
  BY DEF ElectionStep, WaitIsOver, Found, NotFound, Stand, Bind, BindFails, Announce
<1>5. ASSUME Becomes(n, e, NoElection) PROVE OrderInv'
  <2>1. NoElection \in ElectionType /\ NoElection.state = "none" /\ NoElection.wait = 0 /\ NoElection.ahead = {}
    BY DEF NoElection, ElectionType
  <2>2. NoElection.wait <= old.wait
    BY <1>2, <2>1
  <2> QED BY <1>1, <1>5, <2>1, <2>2, OneElectionOrder
<1>6. ASSUME NEW r \in ElectionType, Becomes(n, e, r), r.wait = old.wait, r.ahead = old.ahead
      PROVE  OrderInv'
  <2>1. r.wait <= old.wait
    BY <1>2, <1>6
  <2>2. cfg.cluster /\ cfg.timely => r.ahead = {}
    BY <1>3, <1>4, <1>6
  <2> QED BY <1>1, <1>6, <2>1, <2>2, OneElectionOrder
<1>7. ASSUME NEW s \in {"probe", "bind", "announce"}, Becomes(n, e, [old EXCEPT !.state = s])
      PROVE  OrderInv'
  <2> DEFINE r == [old EXCEPT !.state = s]
  <2>1. r \in ElectionType /\ r.wait = old.wait /\ r.ahead = old.ahead
    BY <1>2 DEF ElectionType
  <2> HIDE DEF r
  <2> QED BY <1>6, <1>7, <2>1 DEF r
<1>8. CASE NotFound(n, e)
  <2> DEFINE u == IF listening[Head(old.targets)] /\ faults' = faults THEN old.unseen
                  ELSE old.unseen \cup {Head(old.targets)}
             r == [old EXCEPT !.targets = Tail(old.targets), !.unseen = u]
  <2>1. Becomes(n, e, r) /\ old.targets # <<>>
    BY <1>8 DEF NotFound
  <2>2. old.targets \in Seq(Node) /\ old.unseen \in SUBSET Node
    BY <1>2 DEF ElectionType
  <2>3. Tail(old.targets) \in Seq(Node) /\ Head(old.targets) \in Node
    <3>1. PICK s \in Seq(Node) : s = old.targets
      BY <2>2
    <3>2. Tail(s) \in Seq(Node) /\ Head(s) \in Node
      BY <2>1, <3>1
    <3> QED BY <3>1, <3>2
  <2>4. u \in SUBSET Node
    BY <2>2, <2>3
  <2> HIDE DEF u
  <2>5. r \in ElectionType /\ r.wait = old.wait /\ r.ahead = old.ahead
    BY <1>2, <2>3, <2>4 DEF ElectionType
  <2> HIDE DEF r
  <2> QED BY <1>6, <2>1, <2>5
<1>9. CASE WaitIsOver(n, e) \/ Stand(n, e) \/ Bind(n, e)
  BY <1>7, <1>9 DEF WaitIsOver, Stand, Bind
<1>10. CASE Found(n, e) \/ BindFails(n, e) \/ Announce(n, e)
  BY <1>5, <1>10 DEF Found, BindFails, Announce
<1> QED BY <1>8, <1>9, <1>10 DEF ElectionStep

\* An election that begins gets a longer wait than those ahead of it have.
LEMMA StartOrder ==
  ASSUME ElectionsTyped, OrderInv, cfg' = cfg, NEW n \in Node, NEW e \in Slot,
         FreeSlot(n, e), StartElection(n, e)
  PROVE  OrderInv'
<1>1. /\ Begun(n) \in ElectionType /\ Begun(n).wait <= Wait(n)
      /\ Begun(n).ahead # {} => Begun(n).state = "wait" /\ Begun(n).wait = Wait(n)
      /\ Begun(n).ahead \subseteq Ahead(n)
      /\ election'[n][e] = Begun(n)
      /\ \A m \in Node, f \in Slot : ~(m = n /\ f = e) => election'[m][f] = election[m][f]
  BY BegunFacts
<1>2. /\ \A m \in Node : Wait(m)' = Wait(m) /\ Wait(m) \in Nat
      /\ \A m \in Node, f \in Slot : election[m][f].wait \in Nat
      /\ ~Electing(n, e) /\ cfg.priority \in [Node -> Nat]
  BY WaitFacts, ConfigFacts DEF ElectionsTyped, ElectionType, Wait, Highest, FreeSlot
<1>3. WaitBounded'
  <2> SUFFICES ASSUME NEW m \in Node, NEW f \in Slot PROVE election'[m][f].wait <= Wait(m)
    BY <1>2 DEF WaitBounded
  <2>1. election[m][f].wait <= Wait(m)
    BY DEF OrderInv, WaitBounded
  <2> QED BY <1>1, <2>1
<1>4. Order'
  <2> SUFFICES ASSUME cfg.cluster, cfg.timely,
                      NEW k \in Node, NEW g \in Slot, NEW m \in Node, NEW f \in Slot,
                      <<m, f>> \in election'[k][g].ahead
               PROVE  /\ election'[m][f].state # "none" /\ election'[k][g].state = "wait"
                      /\ election'[m][f].wait < election'[k][g].wait
    BY DEF Order, Electing
  <2>1. CASE k = n /\ g = e
    <3>1. <<m, f>> \in Ahead(n) /\ Begun(n).state = "wait" /\ Begun(n).wait = Wait(n)
      BY <1>1, <2>1
    <3>2. cfg.priority[m] > cfg.priority[n] /\ Electing(m, f)
      BY <3>1 DEF Ahead
    <3>3. m # n
      BY <1>2, <3>2
    <3>4. Wait(m) < Wait(n)
      BY <3>2, WaitFacts DEF ElectionsTyped
    <3>5. election[m][f].wait <= Wait(m)
      BY DEF OrderInv, WaitBounded
    <3>6. election[m][f].wait < Wait(n)
      BY <1>2, <3>4, <3>5
    <3> QED BY <1>1, <2>1, <3>1, <3>2, <3>3, <3>6 DEF Electing
  <2>2. CASE ~(k = n /\ g = e)
    <3>1. election'[k][g] = election[k][g]
      BY <1>1, <2>2
    <3>2. /\ Electing(m, f) /\ election[k][g].state = "wait"
          /\ election[m][f].wait < election[k][g].wait
      BY <3>1 DEF OrderInv, Order
    <3>3. election'[m][f] = election[m][f]
      BY <1>1, <1>2, <3>2
    <3> QED BY <3>1, <3>2, <3>3 DEF Electing
  <2> QED BY <2>1, <2>2
<1> QED BY <1>3, <1>4 DEF OrderInv

\* Every step keeps the order of the waits.
LEMMA OrderStep == FailoverInv /\ OrderInv /\ [Next]_vars => OrderInv'
<1> SUFFICES ASSUME ElectionsTyped, OrderInv, [Next]_vars PROVE OrderInv'
  BY DEF FailoverInv
<1>1. ASSUME UNCHANGED <<cfg, election>> PROVE OrderInv'
  BY <1>1 DEF OrderInv, WaitBounded, Order, Electing, Wait, Highest
<1>2. /\ \A m \in Node : Wait(m) \in Nat
      /\ \A m \in Node, f \in Slot : election[m][f].wait \in Nat
  BY WaitFacts DEF ElectionsTyped, ElectionType
<1>3. ASSUME NEW n \in Node, Loop(n) \/ Monitor(n) \/ Expire(n) \/ BreakLink(n) \/ Restart(n)
      PROVE  OrderInv'
  <2>1. cfg' = cfg /\ (election' = election \/ \E e \in Slot : FreeSlot(n, e) /\ StartElection(n, e))
    BY <1>3 DEF Loop, Monitor, Expire, BreakLink, Restart, Connect, ConnectFails, StreamFails,
                LeaderTimeout, MonitorReturns
  <2> QED BY <1>1, <2>1, StartOrder
<1>4. CASE Tick
  <2>1. cfg' = cfg /\ (cfg.timely => \A n \in Node, e \in Slot : Electing(n, e) => election[n][e].wait > 0)
    BY <1>4 DEF Tick
  <2>2. \A m \in Node, f \in Slot :
          /\ election'[m][f].state = election[m][f].state
          /\ election'[m][f].ahead = election[m][f].ahead
          /\ election'[m][f].wait = IF election[m][f].wait > 0 THEN election[m][f].wait - 1 ELSE 0
    BY <1>4, TickFacts
  <2>3. WaitBounded'
    BY <1>2, <2>1, <2>2 DEF OrderInv, WaitBounded, Wait, Highest
  <2>4. Order'
    BY <1>2, <2>1, <2>2 DEF OrderInv, Order, Electing
  <2> QED BY <2>3, <2>4 DEF OrderInv
<1>5. ASSUME NEW n \in Node, Crash(n) PROVE OrderInv'
  <2>1. cfg' = cfg /\ NoElection.wait = 0 /\ NoElection.ahead = {}
    BY <1>5 DEF Crash, NoElection
  <2>2. /\ \A f \in Slot : election'[n][f] = NoElection
        /\ \A m \in Node \ {n}, f \in Slot : SameButAhead(m, f) /\ \A g \in Slot : <<n, g>> \notin election'[m][f].ahead
    BY <1>5, CrashFacts
  <2>3. WaitBounded'
    <3> SUFFICES ASSUME NEW m \in Node, NEW f \in Slot PROVE election'[m][f].wait <= Wait(m)
      BY <2>1 DEF WaitBounded, Wait, Highest
    <3>1. election[m][f].wait <= Wait(m)
      BY DEF OrderInv, WaitBounded
    <3> QED BY <1>2, <2>1, <2>2, <3>1 DEF SameButAhead
  <2>4. Order'
    <3> SUFFICES ASSUME cfg.cluster, cfg.timely,
                        NEW k \in Node, NEW g \in Slot, NEW m \in Node, NEW f \in Slot,
                        <<m, f>> \in election'[k][g].ahead
                 PROVE  /\ election'[m][f].state # "none" /\ election'[k][g].state = "wait"
                        /\ election'[m][f].wait < election'[k][g].wait
      BY <2>1 DEF Order, Electing
    <3>1. k # n /\ m # n
      BY <2>1, <2>2
    <3>2. SameButAhead(k, g) /\ SameButAhead(m, f)
      BY <2>2, <3>1
    <3> QED BY <3>2 DEF OrderInv, Order, Electing, SameButAhead
  <2> QED BY <2>3, <2>4 DEF OrderInv
<1>6. CASE UNCHANGED vars
  BY <1>1, <1>6 DEF vars, nodeVars
<1> QED BY <1>3, <1>4, <1>5, <1>6, ElectionOrder DEF Next

\* In a cluster whose nodes dial and bind in time, a follower stands only when
\* every election that a follower of higher priority had begun before it is over.
THEOREM HigherPriorityFirst == Spec => []PriorityGoesFirst
<1>1. Init => OrderInv
  <2> SUFFICES ASSUME Init PROVE OrderInv
    OBVIOUS
  <2>1. \A n \in Node, e \in Slot : election[n][e].wait = 0 /\ election[n][e].ahead = {}
    BY DEF Init, NoElection
  <2>2. \A n \in Node : Wait(n) \in Nat
    BY WaitFacts DEF Init
  <2>3. WaitBounded /\ Order
    BY <2>1, <2>2 DEF WaitBounded, Order
  <2> QED BY <2>3 DEF OrderInv
<1>2. FailoverInv /\ OrderInv => PriorityGoesFirst
  <2> SUFFICES ASSUME ElectionsTyped, Order, NEW n \in Node, NEW e \in Slot,
                      cfg.cluster, cfg.timely, election[n][e].state \in {"bind", "announce"}
               PROVE  election[n][e].ahead = {}
    BY DEF PriorityGoesFirst, FailoverInv, OrderInv
  <2>1. election[n][e].ahead \in SUBSET (Node \X Slot)
    BY DEF ElectionsTyped, ElectionType
  <2>2. \A m \in Node, f \in Slot : <<m, f>> \notin election[n][e].ahead
    BY DEF Order
  <2> QED BY <2>1, <2>2
<1> QED BY <1>1, <1>2, OrderStep, FailoverAlways, PTL DEF Spec
================================================================================
