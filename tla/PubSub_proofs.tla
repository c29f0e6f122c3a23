------------------------------ MODULE PubSub_proofs -----------------------------
(***************************************************************************)
(* For any number of connections, channels and subscribers: the three maps  *)
(* agree, no goroutine panics and none is left behind, subscriber mode      *)
(* follows the subscriptions, and a message is delivered at most once.      *)
(*                                                                          *)
(* NoPanic is not inductive.  That CloseSubscriber closes an open channel   *)
(* follows from Attached: the subscriber a connection maps to is its own    *)
(* and open.  That PublishTo sends on an open one follows from Serving: the *)
(* subscribers a Publish has still to serve are open, and stay so because   *)
(* whoever closes one holds mu, when no Publish is under way.               *)
(*                                                                          *)
(* Delivery follows a message from Publish to the socket: it is in one      *)
(* place (OnePlace), and one subscriber of a connection carries it          *)
(* (OneCarrier), also when the connection has left and joined meanwhile.    *)
(***************************************************************************)
EXTENDS PubSub, SequenceTheorems, TLAPS

\* The subscriber of a connection is its own, in use and open.
Attached ==
  \A c \in DOMAIN connectionToSubscriber :
    /\ c \in open
    /\ sub[connectionToSubscriber[c]].conn = c
    /\ ~sub[connectionToSubscriber[c]].closed
    /\ sub[connectionToSubscriber[c]].sender # "unused"

\* Only a Publish under way has subscribers to serve, and all of them are open.
Serving ==
  \A c \in Conn :
    /\ message[c] = NoMessage => publishing[c] = {}
    /\ \A s \in publishing[c] : ~sub[s].closed /\ sub[s].sender # "unused"

\* A sender that writes has a message in hand.
Writing == \A s \in Sub : sub[s].sender = "writing" => sub[s].inHand \in 1..MaxMessages

PubSubInv ==
  TypeOK /\ MapsAgree /\ NoPanic /\ NoOrphanSender /\ Attached /\ Serving /\ Writing

--------------------------------------------------------------------------------
\* Partial maps, as Put and Remove make them.

\* What it is to be one of the maps of the PubSub struct.
LEMMA PartialMapFacts ==
  ASSUME NEW S, NEW T, NEW m \in PartialMap(S, T)
  PROVE  DOMAIN m \subseteq S /\ \A x \in DOMAIN m : m[x] \in T
BY DEF PartialMap

\* A function on some of S with values in T is such a map.
LEMMA PartialMapIntro ==
  ASSUME NEW S, NEW T, NEW D \in SUBSET S, NEW m \in [D -> T]
  PROVE  m \in PartialMap(S, T)
BY DEF PartialMap

\* m[x] = y in Go keeps the type of the map.
LEMMA PutType ==
  ASSUME NEW S, NEW T, NEW m \in PartialMap(S, T), NEW x \in S, NEW y \in T
  PROVE  Put(m, x, y) \in PartialMap(S, T)
<1>1. DOMAIN m \subseteq S /\ \A z \in DOMAIN m : m[z] \in T
  BY PartialMapFacts
<1>2. Put(m, x, y) \in [DOMAIN m \cup {x} -> T]
  BY <1>1 DEF Put
<1>3. DOMAIN m \cup {x} \in SUBSET S
  BY <1>1
<1> QED BY <1>2, <1>3, PartialMapIntro

\* delete(m, x) keeps the type of the map.
LEMMA RemoveType ==
  ASSUME NEW S, NEW T, NEW m \in PartialMap(S, T), NEW x
  PROVE  Remove(m, x) \in PartialMap(S, T)
<1>1. DOMAIN m \subseteq S /\ \A z \in DOMAIN m : m[z] \in T
  BY PartialMapFacts
<1>2. Remove(m, x) \in [DOMAIN m \ {x} -> T]
  BY <1>1 DEF Remove, Restrict
<1>3. DOMAIN m \ {x} \in SUBSET S
  BY <1>1
<1> QED BY <1>2, <1>3, PartialMapIntro

\* Overwriting an entry keeps the type of the map.
LEMMA UpdateType ==
  ASSUME NEW S, NEW T, NEW m \in PartialMap(S, T), NEW x \in DOMAIN m, NEW y \in T
  PROVE  [m EXCEPT ![x] = y] \in PartialMap(S, T)
<1>1. m \in [DOMAIN m -> T] /\ DOMAIN m \in SUBSET S
  BY DEF PartialMap
<1>2. [m EXCEPT ![x] = y] \in [DOMAIN m -> T]
  BY <1>1
<1> QED BY <1>1, <1>2, PartialMapIntro

--------------------------------------------------------------------------------
\* NewPubSub establishes the invariant.
LEMMA InitPubSub == Init => PubSubInv
<1> SUFFICES ASSUME Init PROVE PubSubInv
  OBVIOUS
<1> USE DEF Init
<1>1. \A S, T : NoMap \in PartialMap(S, T) /\ DOMAIN NoMap = {}
  <2> TAKE S, T
  <2>1. NoMap \in [{} -> T] /\ {} \in SUBSET S
    BY DEF NoMap
  <2>2. NoMap \in PartialMap(S, T)
    BY <2>1, PartialMapIntro
  <2> QED BY <2>2 DEF NoMap
<1>2. Unused \in SubType /\ Len(Unused.buf) <= BufferSize
  BY BufferAssumption DEF Unused, SubType, NoMessage
<1>3. TypeOK
  <2>1. /\ connectionToSubscriber \in PartialMap(Conn, Sub)
        /\ subscribers \in [Channel -> PartialMap(Conn, Sub)]
        /\ subscriptions \in PartialMap(Conn, SUBSET Channel)
    BY <1>1
  <2>2. sub \in [Sub -> SubType] /\ \A s \in Sub : Len(sub[s].buf) <= BufferSize
    BY <1>2
  <2>3. message \in [Conn -> 0..MaxMessages] /\ published \in 0..MaxMessages
    BY BufferAssumption DEF NoMessage
  <2>4. received \in [Conn -> Seq(1..MaxMessages)]
    OBVIOUS
  <2> QED BY <2>1, <2>2, <2>3, <2>4 DEF TypeOK
<1>4. MapsAgree
  BY <1>1 DEF MapsAgree
<1>5. NoPanic
  BY DEF NoPanic
<1>6. NoOrphanSender
  BY DEF NoOrphanSender, Unused
<1>7. Attached
  BY <1>1 DEF Attached
<1>8. Serving
  BY DEF Serving
<1>9. Writing
  BY DEF Writing, Unused
<1> QED BY <1>3, <1>4, <1>5, <1>6, <1>7, <1>8, <1>9 DEF PubSubInv

\* What the invariant says of one connection and its subscriber.
LEMMA Subscribed ==
  ASSUME PubSubInv, NEW c \in DOMAIN connectionToSubscriber
  PROVE  /\ c \in Conn /\ c \in open /\ c \in DOMAIN subscriptions
         /\ connectionToSubscriber[c] \in Sub
         /\ sub[connectionToSubscriber[c]].conn = c
         /\ ~sub[connectionToSubscriber[c]].closed
         /\ subscriptions[c] \in SUBSET Channel
<1>1. connectionToSubscriber \in PartialMap(Conn, Sub)
      /\ subscriptions \in PartialMap(Conn, SUBSET Channel)
  BY DEF PubSubInv, TypeOK
<1>2. c \in Conn /\ connectionToSubscriber[c] \in Sub
  BY <1>1, PartialMapFacts
<1>3. c \in DOMAIN subscriptions
  BY DEF PubSubInv, MapsAgree
<1>4. subscriptions[c] \in SUBSET Channel
  BY <1>1, <1>3, PartialMapFacts
<1> QED BY <1>2, <1>3, <1>4 DEF PubSubInv, Attached

\* The Subscriber that Subscribe allocates.
Fresh(c) == [Unused EXCEPT !.conn = c, !.sender = "waiting"]

\* A newly made Subscriber is open, empty and owned by its connection.
LEMMA FreshFacts ==
  ASSUME NEW c \in Conn
  PROVE  /\ Fresh(c) \in SubType /\ Fresh(c).conn = c /\ ~Fresh(c).closed
         /\ Fresh(c).sender = "waiting" /\ Len(Fresh(c).buf) <= BufferSize
<1>1. Unused \in SubType
  BY BufferAssumption DEF Unused, SubType, NoMessage
<1>2. Fresh(c) \in SubType /\ Fresh(c).conn = c /\ ~Fresh(c).closed
      /\ Fresh(c).sender = "waiting" /\ Fresh(c).buf = <<>>
  BY <1>1 DEF Unused, SubType, Fresh
<1> QED BY <1>2, BufferAssumption

\* The first SUBSCRIBE of a connection, which makes its Subscriber.
LEMMA SubscribeNewStep ==
  ASSUME PubSubInv, NEW c \in Conn, NEW ch \in Channel, NEW s \in Sub,
         NEW ok \in BOOLEAN, SubscribeNew(c, ch, s, ok)
  PROVE  PubSubInv'
<1>0. /\ connectionToSubscriber \in PartialMap(Conn, Sub)
      /\ subscriptions \in PartialMap(Conn, SUBSET Channel)
      /\ subscribers[ch] \in PartialMap(Conn, Sub)
  BY DEF PubSubInv, TypeOK
<1>1. /\ connectionToSubscriber' \in PartialMap(Conn, Sub)
      /\ DOMAIN connectionToSubscriber' = DOMAIN connectionToSubscriber \cup {c}
      /\ connectionToSubscriber'[c] = s
      /\ \A z \in DOMAIN connectionToSubscriber \ {c} :
           connectionToSubscriber'[z] = connectionToSubscriber[z]
  <2>1. connectionToSubscriber' = Put(connectionToSubscriber, c, s)
    BY DEF SubscribeNew
  <2>2. connectionToSubscriber' \in PartialMap(Conn, Sub)
    BY <2>1, <1>0, PutType
  <2> QED BY <2>1, <2>2 DEF Put
<1>2. /\ subscriptions' \in PartialMap(Conn, SUBSET Channel)
      /\ DOMAIN subscriptions' = DOMAIN subscriptions \cup {c}
      /\ subscriptions'[c] = {ch}
      /\ \A z \in DOMAIN subscriptions \ {c} : subscriptions'[z] = subscriptions[z]
  <2>1. subscriptions' = Put(subscriptions, c, {ch}) /\ {ch} \in SUBSET Channel
    BY DEF SubscribeNew
  <2>2. subscriptions' \in PartialMap(Conn, SUBSET Channel)
    BY <2>1, <1>0, PutType
  <2> QED BY <2>1, <2>2 DEF Put
<1>3. /\ Put(subscribers[ch], c, s) \in PartialMap(Conn, Sub)
      /\ DOMAIN Put(subscribers[ch], c, s) = DOMAIN subscribers[ch] \cup {c}
      /\ Put(subscribers[ch], c, s)[c] = s
      /\ \A z \in DOMAIN subscribers[ch] \ {c} :
           Put(subscribers[ch], c, s)[z] = subscribers[ch][z]
  <2>1. Put(subscribers[ch], c, s) \in PartialMap(Conn, Sub)
    BY <1>0, PutType
  <2> QED BY <2>1 DEF Put
<1> USE DEF PubSubInv, SubscribeNew
<1>4. /\ subscribers' \in [Channel -> PartialMap(Conn, Sub)]
      /\ subscribers'[ch] = Put(subscribers[ch], c, s)
      /\ \A d \in Channel \ {ch} : subscribers'[d] = subscribers[d]
  BY <1>3 DEF TypeOK
<1>6. /\ sub' \in [Sub -> SubType] /\ \A t \in Sub : Len(sub'[t].buf) <= BufferSize
      /\ sub'[s].conn = c /\ ~sub'[s].closed /\ sub'[s].sender = "waiting"
      /\ \A t \in Sub \ {s} : sub'[t] = sub[t]
  <2>1. /\ Fresh(c) \in SubType /\ Fresh(c).conn = c /\ ~Fresh(c).closed
        /\ Fresh(c).sender = "waiting" /\ Len(Fresh(c).buf) <= BufferSize
    BY FreshFacts
  <2>2. sub' = [sub EXCEPT ![s] = Fresh(c)] /\ sub \in [Sub -> SubType]
        /\ \A t \in Sub : Len(sub[t].buf) <= BufferSize
    BY DEF TypeOK, Fresh
  <2>3. sub'[s] = Fresh(c) /\ \A t \in Sub \ {s} : sub'[t] = sub[t]
    BY <2>2
  <2>4. sub' \in [Sub -> SubType]
    BY <2>1, <2>2
  <2> QED BY <2>1, <2>2, <2>3, <2>4
<1>7. TypeOK'
  BY <1>1, <1>2, <1>4, <1>6 DEF TypeOK, EndedEarly, ModeOnSubscribe
<1>8. c \notin DOMAIN subscriptions /\ \A d \in Channel : c \notin DOMAIN subscribers[d]
  BY DEF MapsAgree
<1>9. MapsAgree'
  <2>1. DOMAIN subscriptions' = DOMAIN connectionToSubscriber'
    BY <1>1, <1>2 DEF MapsAgree
  <2>2. ASSUME NEW d \in Conn, NEW x \in Channel
        PROVE  (d \in DOMAIN subscribers'[x])
                 <=> (d \in DOMAIN subscriptions' /\ x \in subscriptions'[d])
    BY <1>2, <1>3, <1>4, <1>8 DEF MapsAgree
  <2>3. ASSUME NEW x \in Channel, NEW d \in DOMAIN subscribers'[x]
        PROVE  subscribers'[x][d] = connectionToSubscriber'[d]
    <3>1. CASE d = c
      BY <1>1, <1>3, <1>4, <1>8, <3>1
    <3>2. CASE d # c
      <4>1. d \in DOMAIN subscribers[x] /\ subscribers'[x][d] = subscribers[x][d]
        BY <1>3, <1>4, <3>2
      <4>2. d \in DOMAIN connectionToSubscriber
        BY <4>1, <1>0, PartialMapFacts DEF MapsAgree, TypeOK
      <4> QED BY <4>1, <4>2, <3>2, <1>1 DEF MapsAgree
    <3> QED BY <3>1, <3>2
  <2> QED BY <2>1, <2>2, <2>3 DEF MapsAgree
<1>10. \A d \in DOMAIN connectionToSubscriber :
         connectionToSubscriber[d] \in Sub \ {s} /\ d # c
  BY Subscribed DEF Attached
<1>11. Attached'
  BY <1>1, <1>6, <1>10, Subscribed DEF Attached, Exclusive
<1>12. NoOrphanSender'
  BY <1>1, <1>6, <1>10 DEF NoOrphanSender, Exclusive
<1>13. \A d \in Conn : publishing[d] = {}
  BY DEF Serving, Exclusive
<1>14. Serving' /\ NoPanic' /\ Writing'
  BY <1>6, <1>13 DEF Serving, NoPanic, Writing
<1> QED BY <1>7, <1>9, <1>11, <1>12, <1>14

\* A further SUBSCRIBE of a connection, which reuses its Subscriber.
LEMMA SubscribeMoreStep ==
  ASSUME PubSubInv, NEW c \in Conn, NEW ch \in Channel, NEW ok \in BOOLEAN,
         SubscribeMore(c, ch, ok)
  PROVE  PubSubInv'
<1> USE DEF PubSubInv, SubscribeMore
<1>1. c \in DOMAIN subscriptions /\ subscriptions[c] \in SUBSET Channel
      /\ connectionToSubscriber[c] \in Sub
  BY Subscribed
<1>2. CASE ch \in subscriptions[c]
  <2>1. TypeOK'
    BY <1>2 DEF TypeOK, EndedEarly, ModeOnSubscribe
  <2>2. MapsAgree' /\ Attached' /\ NoOrphanSender' /\ Serving' /\ NoPanic' /\ Writing'
    BY <1>2 DEF MapsAgree, Attached, NoOrphanSender, Serving, NoPanic, Writing
  <2> QED BY <2>1, <2>2
<1>3. CASE ch \notin subscriptions[c]
  <2> DEFINE more == subscriptions[c] \cup {ch}
             s == connectionToSubscriber[c]
  <2>1. subscriptions' = [subscriptions EXCEPT ![c] = more]
        /\ subscribers' = [subscribers EXCEPT ![ch] = Put(subscribers[ch], c, s)]
    BY <1>3
  <2>2. more \in SUBSET Channel
    BY <1>1
  <2>3. /\ subscriptions' \in PartialMap(Conn, SUBSET Channel)
        /\ DOMAIN subscriptions' = DOMAIN subscriptions
        /\ subscriptions'[c] = more
        /\ \A z \in DOMAIN subscriptions \ {c} : subscriptions'[z] = subscriptions[z]
    <3>1. subscriptions \in PartialMap(Conn, SUBSET Channel)
      BY DEF TypeOK
    <3>2. subscriptions' \in PartialMap(Conn, SUBSET Channel)
      BY <1>1, <2>1, <2>2, <3>1, UpdateType
    <3> QED BY <1>1, <2>1, <3>2
  <2>4. /\ Put(subscribers[ch], c, s) \in PartialMap(Conn, Sub)
        /\ DOMAIN Put(subscribers[ch], c, s) = DOMAIN subscribers[ch] \cup {c}
        /\ Put(subscribers[ch], c, s)[c] = s
        /\ \A z \in DOMAIN subscribers[ch] \ {c} :
             Put(subscribers[ch], c, s)[z] = subscribers[ch][z]
    <3>1. subscribers[ch] \in PartialMap(Conn, Sub)
      BY DEF TypeOK
    <3>2. Put(subscribers[ch], c, s) \in PartialMap(Conn, Sub)
      BY <1>1, <3>1, PutType
    <3> QED BY <3>2 DEF Put
  <2>5. /\ subscribers' \in [Channel -> PartialMap(Conn, Sub)]
        /\ subscribers'[ch] = Put(subscribers[ch], c, s)
        /\ \A d \in Channel \ {ch} : subscribers'[d] = subscribers[d]
    BY <2>1, <2>4 DEF TypeOK
  <2>6. TypeOK'
    BY <2>3, <2>5 DEF TypeOK, EndedEarly, ModeOnSubscribe
  <2>7. MapsAgree'
    BY <1>1, <2>3, <2>4, <2>5 DEF MapsAgree
  <2>8. Attached' /\ NoOrphanSender' /\ Serving' /\ NoPanic' /\ Writing'
    BY DEF Attached, NoOrphanSender, Serving, NoPanic, Writing
  <2> QED BY <2>6, <2>7, <2>8
<1> QED BY <1>2, <1>3

--------------------------------------------------------------------------------
\* Leaving channels, and closing the subscriber with the last one.

\* Leave takes c out of the channels chs and touches nothing else.
LEMMA LeaveFacts ==
  ASSUME TypeOK, NEW c \in Conn, NEW chs \in SUBSET Channel
  PROVE  /\ Leave(c, chs) \in [Channel -> PartialMap(Conn, Sub)]
         /\ \A x \in Channel : DOMAIN Leave(c, chs)[x] =
              IF x \in chs THEN DOMAIN subscribers[x] \ {c} ELSE DOMAIN subscribers[x]
         /\ \A x \in Channel : \A d \in DOMAIN Leave(c, chs)[x] :
              Leave(c, chs)[x][d] = subscribers[x][d]
<1>1. \A x \in Channel : subscribers[x] \in PartialMap(Conn, Sub)
  BY DEF TypeOK
<1>2. \A x \in Channel : Remove(subscribers[x], c) \in PartialMap(Conn, Sub)
  BY <1>1, RemoveType
<1>3. Leave(c, chs) \in [Channel -> PartialMap(Conn, Sub)]
  BY <1>1, <1>2 DEF Leave
<1> QED BY <1>3 DEF Leave, Remove, Restrict

\* Closing changes nothing else of a Subscriber.
LEMMA CloseFacts ==
  ASSUME NEW r \in SubType
  PROVE  [r EXCEPT !.closed = TRUE] \in SubType
BY DEF SubType

\* CloseSubscriber, run with mu held for writing, by a connection that has left
\* all its channels.
LEMMA CloseStep ==
  ASSUME PubSubInv, NEW c \in DOMAIN connectionToSubscriber, Exclusive(c),
         CloseSubscriber(c), subscribers' = Leave(c, subscriptions[c]),
         open' \in {open, open \ {c}},
         UNCHANGED <<gone, publishing, message, published, audience, received>>,
         subscriberMode' \in [Conn -> BOOLEAN], malformed' \in SUBSET Conn
  PROVE  PubSubInv'
<1> DEFINE s == connectionToSubscriber[c]
<1>1. /\ c \in Conn /\ c \in open /\ s \in Sub /\ sub[s].conn = c /\ ~sub[s].closed
      /\ subscriptions[c] \in SUBSET Channel
  BY Subscribed
<1>2. /\ connectionToSubscriber' = Remove(connectionToSubscriber, c)
      /\ connectionToSubscriber' \in PartialMap(Conn, Sub)
      /\ DOMAIN connectionToSubscriber' = DOMAIN connectionToSubscriber \ {c}
      /\ \A d \in DOMAIN connectionToSubscriber' :
           connectionToSubscriber'[d] = connectionToSubscriber[d]
  <2>1. /\ connectionToSubscriber \in PartialMap(Conn, Sub)
        /\ connectionToSubscriber' = Remove(connectionToSubscriber, c)
    BY DEF PubSubInv, TypeOK, CloseSubscriber
  <2>2. connectionToSubscriber' \in PartialMap(Conn, Sub)
    BY <2>1, RemoveType
  <2> QED BY <2>1, <2>2 DEF Remove, Restrict
<1>3. /\ subscriptions' \in PartialMap(Conn, SUBSET Channel)
      /\ DOMAIN subscriptions' = DOMAIN subscriptions \ {c}
      /\ \A d \in DOMAIN subscriptions' : subscriptions'[d] = subscriptions[d]
  <2>1. /\ subscriptions \in PartialMap(Conn, SUBSET Channel)
        /\ subscriptions' = Remove(subscriptions, c)
    BY DEF PubSubInv, TypeOK, CloseSubscriber
  <2>2. subscriptions' \in PartialMap(Conn, SUBSET Channel)
    BY <2>1, RemoveType
  <2> QED BY <2>1, <2>2 DEF Remove, Restrict
<1>4. /\ subscribers' \in [Channel -> PartialMap(Conn, Sub)]
      /\ \A x \in Channel : DOMAIN subscribers'[x] =
           IF x \in subscriptions[c] THEN DOMAIN subscribers[x] \ {c}
                                     ELSE DOMAIN subscribers[x]
      /\ \A x \in Channel : \A d \in DOMAIN subscribers'[x] :
           subscribers'[x][d] = subscribers[x][d]
  <2>1. TypeOK /\ subscribers' = Leave(c, subscriptions[c])
    BY DEF PubSubInv
  <2>2. /\ Leave(c, subscriptions[c]) \in [Channel -> PartialMap(Conn, Sub)]
        /\ \A x \in Channel : DOMAIN Leave(c, subscriptions[c])[x] =
             IF x \in subscriptions[c] THEN DOMAIN subscribers[x] \ {c}
                                       ELSE DOMAIN subscribers[x]
        /\ \A x \in Channel : \A d \in DOMAIN Leave(c, subscriptions[c])[x] :
             Leave(c, subscriptions[c])[x][d] = subscribers[x][d]
    BY <1>1, <2>1, LeaveFacts
  <2> QED BY <2>1, <2>2
<1>5. /\ sub' \in [Sub -> SubType] /\ sub'[s] = [sub[s] EXCEPT !.closed = TRUE]
      /\ \A t \in Sub \ {s} : sub'[t] = sub[t]
  <2>1. sub \in [Sub -> SubType] /\ sub' = [sub EXCEPT ![s] = [sub[s] EXCEPT !.closed = TRUE]]
    BY DEF PubSubInv, TypeOK, CloseSubscriber
  <2>2. [sub[s] EXCEPT !.closed = TRUE] \in SubType
    BY <1>1, <2>1, CloseFacts
  <2> QED BY <1>1, <2>1, <2>2
<1>6. /\ sub'[s].closed /\ sub'[s].buf = sub[s].buf /\ sub'[s].sender = sub[s].sender
      /\ sub'[s].inHand = sub[s].inHand
  BY <1>1, <1>5 DEF PubSubInv, TypeOK, SubType
<1>7. \A t \in Sub : Len(sub'[t].buf) <= BufferSize
  BY <1>5, <1>6 DEF PubSubInv, TypeOK
<1>8. panicked' = FALSE
  <2>1. panicked' = (panicked \/ sub[s].closed)
    BY DEF CloseSubscriber
  <2>2. panicked = FALSE /\ sub[s].closed = FALSE
    BY <1>1 DEF PubSubInv, NoPanic, TypeOK, SubType
  <2> QED BY <2>1, <2>2
<1>9. TypeOK'
  BY <1>2, <1>3, <1>4, <1>5, <1>7, <1>8 DEF PubSubInv, TypeOK
<1>10. MapsAgree'
  <2>1. DOMAIN subscriptions' = DOMAIN connectionToSubscriber'
    BY <1>2, <1>3 DEF PubSubInv, MapsAgree
  <2>2. ASSUME NEW d \in Conn, NEW x \in Channel
        PROVE  (d \in DOMAIN subscribers'[x])
                 <=> (d \in DOMAIN subscriptions' /\ x \in subscriptions'[d])
    <3>1. (d \in DOMAIN subscribers[x])
            <=> (d \in DOMAIN subscriptions /\ x \in subscriptions[d])
      BY DEF PubSubInv, MapsAgree
    <3>2. CASE d = c
      BY <1>3, <1>4, <3>1, <3>2
    <3>3. CASE d # c
      BY <1>3, <1>4, <3>1, <3>3
    <3> QED BY <3>2, <3>3
  <2>3. ASSUME NEW x \in Channel, NEW d \in DOMAIN subscribers'[x]
        PROVE  subscribers'[x][d] = connectionToSubscriber'[d]
    <3>1. d \in DOMAIN subscribers[x] /\ subscribers'[x][d] = subscribers[x][d]
      BY <1>4
    <3>2. d \in Conn
      BY <3>1, PartialMapFacts DEF PubSubInv, TypeOK
    <3>3. d \in DOMAIN connectionToSubscriber'
      BY <2>1, <2>2, <3>2
    <3> QED BY <3>1, <3>3, <1>2 DEF PubSubInv, MapsAgree
  <2> QED BY <2>1, <2>2, <2>3 DEF MapsAgree
<1>11. ASSUME NEW d \in DOMAIN connectionToSubscriber'
       PROVE  /\ d # c /\ connectionToSubscriber'[d] = connectionToSubscriber[d]
              /\ connectionToSubscriber[d] \in Sub \ {s}
  BY <1>1, <1>2, Subscribed
<1>12. Attached'
  BY <1>2, <1>5, <1>11 DEF PubSubInv, Attached
<1>13. NoOrphanSender'
  <2> SUFFICES ASSUME NEW t \in Sub, sub'[t].sender \in {"waiting", "writing"}
               PROVE  \/ sub'[t].closed
                      \/ /\ sub'[t].conn \in open' \cap DOMAIN connectionToSubscriber'
                         /\ connectionToSubscriber'[sub'[t].conn] = t
    BY DEF NoOrphanSender
  <2>1. CASE t = s
    BY <2>1, <1>6
  <2>2. CASE t # s
    BY <2>2, <1>1, <1>2, <1>5 DEF PubSubInv, NoOrphanSender
  <2> QED BY <2>1, <2>2
<1>14. Serving' /\ NoPanic'
  <2>1. \A d \in Conn : publishing[d] = {}
    BY DEF PubSubInv, Serving, Exclusive
  <2> QED BY <1>8, <2>1 DEF PubSubInv, Serving, NoPanic
<1>15. Writing'
  BY <1>5, <1>6 DEF PubSubInv, Writing
<1> QED BY <1>9, <1>10, <1>12, <1>13, <1>14, <1>15 DEF PubSubInv

--------------------------------------------------------------------------------
\* UNSUBSCRIBE: nothing to leave, the last channel, or one of several.
LEMMA UnsubscribeStep ==
  ASSUME PubSubInv, NEW c \in Conn, NEW ch \in Channel, NEW ok \in BOOLEAN,
         Unsubscribe(c, ch, ok)
  PROVE  PubSubInv'
<1> DEFINE mine == IF c \in DOMAIN subscriptions THEN subscriptions[c] ELSE {}
           rest == mine \ {ch}
<1>1. /\ Exclusive(c)
      /\ IF ch \notin mine
         THEN UNCHANGED <<maps, sub, panicked>>
         ELSE /\ subscribers' = Leave(c, {ch})
              /\ IF rest = {}
                 THEN CloseSubscriber(c)
                 ELSE /\ subscriptions' = [subscriptions EXCEPT ![c] = rest]
                      /\ UNCHANGED <<connectionToSubscriber, sub, panicked>>
      /\ UNCHANGED <<open, gone, publishing, message, published, audience, received>>
  BY DEF Unsubscribe
<1>2. subscriberMode' \in [Conn -> BOOLEAN] /\ malformed' \in SUBSET Conn
  BY DEF Unsubscribe, PubSubInv, TypeOK, ModeAfter, EndedEarly
<1>3. CASE ch \notin mine
  <2>1. UNCHANGED <<connectionToSubscriber, subscribers, subscriptions, sub, panicked>>
    BY <1>1, <1>3 DEF maps
  <2>2. TypeOK'
    BY <1>1, <1>2, <2>1 DEF PubSubInv, TypeOK
  <2>3. MapsAgree' /\ NoPanic' /\ NoOrphanSender' /\ Attached' /\ Serving' /\ Writing'
    BY <1>1, <2>1
       DEF PubSubInv, MapsAgree, NoPanic, NoOrphanSender, Attached, Serving, Writing
  <2> QED BY <2>2, <2>3 DEF PubSubInv
<1>4. CASE ch \in mine
  <2>1. c \in DOMAIN subscriptions /\ ch \in subscriptions[c] /\ mine = subscriptions[c]
    BY <1>4
  <2>2. c \in DOMAIN connectionToSubscriber
    BY <2>1 DEF PubSubInv, MapsAgree
  <2>3. subscriptions[c] \in SUBSET Channel
    BY <2>2, Subscribed
  <2>4. CASE rest = {}
    <3>1. subscriptions[c] = {ch}
      BY <2>1, <2>4
    <3>2. CloseSubscriber(c) /\ subscribers' = Leave(c, subscriptions[c])
      BY <1>1, <1>4, <2>4, <3>1
    <3> QED BY <1>1, <1>2, <2>2, <3>2, CloseStep
  <2>5. CASE rest # {}
    <3>1. /\ subscribers' = Leave(c, {ch})
          /\ subscriptions' = [subscriptions EXCEPT ![c] = rest]
          /\ UNCHANGED <<connectionToSubscriber, sub, panicked>>
      BY <1>1, <1>4, <2>5
    <3>2. rest \in SUBSET Channel
      BY <2>1, <2>3
    <3>3. /\ subscriptions' \in PartialMap(Conn, SUBSET Channel)
          /\ DOMAIN subscriptions' = DOMAIN subscriptions
          /\ subscriptions'[c] = rest
          /\ \A d \in DOMAIN subscriptions \ {c} : subscriptions'[d] = subscriptions[d]
      <4>1. subscriptions \in PartialMap(Conn, SUBSET Channel)
        BY DEF PubSubInv, TypeOK
      <4>2. subscriptions' \in PartialMap(Conn, SUBSET Channel)
        BY <2>1, <3>1, <3>2, <4>1, UpdateType
      <4> QED BY <2>1, <3>1, <4>2
    <3>4. /\ subscribers' \in [Channel -> PartialMap(Conn, Sub)]
          /\ \A x \in Channel : DOMAIN subscribers'[x] =
               IF x \in {ch} THEN DOMAIN subscribers[x] \ {c} ELSE DOMAIN subscribers[x]
          /\ \A x \in Channel : \A d \in DOMAIN subscribers'[x] :
               subscribers'[x][d] = subscribers[x][d]
      <4>1. TypeOK /\ {ch} \in SUBSET Channel
        BY DEF PubSubInv
      <4>2. /\ Leave(c, {ch}) \in [Channel -> PartialMap(Conn, Sub)]
            /\ \A x \in Channel : DOMAIN Leave(c, {ch})[x] =
                 IF x \in {ch} THEN DOMAIN subscribers[x] \ {c} ELSE DOMAIN subscribers[x]
            /\ \A x \in Channel : \A d \in DOMAIN Leave(c, {ch})[x] :
                 Leave(c, {ch})[x][d] = subscribers[x][d]
        BY <4>1, LeaveFacts
      <4> QED BY <3>1, <4>2
    <3>5. TypeOK'
      BY <1>1, <1>2, <3>1, <3>3, <3>4 DEF PubSubInv, TypeOK
    <3>6. MapsAgree'
      <4>1. DOMAIN subscriptions' = DOMAIN connectionToSubscriber'
        BY <3>1, <3>3 DEF PubSubInv, MapsAgree
      <4>2. ASSUME NEW d \in Conn, NEW x \in Channel
            PROVE  (d \in DOMAIN subscribers'[x])
                     <=> (d \in DOMAIN subscriptions' /\ x \in subscriptions'[d])
        <5>1. (d \in DOMAIN subscribers[x])
                <=> (d \in DOMAIN subscriptions /\ x \in subscriptions[d])
          BY DEF PubSubInv, MapsAgree
        <5> QED BY <2>1, <3>3, <3>4, <5>1
      <4>3. ASSUME NEW x \in Channel, NEW d \in DOMAIN subscribers'[x]
            PROVE  subscribers'[x][d] = connectionToSubscriber'[d]
        BY <3>1, <3>4 DEF PubSubInv, MapsAgree
      <4> QED BY <4>1, <4>2, <4>3 DEF MapsAgree
    <3>7. NoPanic' /\ NoOrphanSender' /\ Attached' /\ Serving' /\ Writing'
      BY <1>1, <3>1 DEF PubSubInv, NoPanic, NoOrphanSender, Attached, Serving, Writing
    <3> QED BY <3>5, <3>6, <3>7 DEF PubSubInv
  <2> QED BY <2>4, <2>5
<1> QED BY <1>3, <1>4

\* The end of a connection, subscribed or not.
LEMMA RemoveConnectionStep ==
  ASSUME PubSubInv, NEW c \in Conn, RemoveConnection(c)
  PROVE  PubSubInv'
<1>1. /\ Exclusive(c) /\ open' = open \ {c}
      /\ UNCHANGED <<gone, subscriberMode, publishing, message, published, audience,
                     received, malformed>>
  BY DEF RemoveConnection
<1>2. subscriberMode' \in [Conn -> BOOLEAN] /\ malformed' \in SUBSET Conn
  BY <1>1 DEF PubSubInv, TypeOK
<1>3. CASE c \in DOMAIN connectionToSubscriber
  <2>1. subscribers' = Leave(c, subscriptions[c]) /\ CloseSubscriber(c)
    BY <1>3 DEF RemoveConnection
  <2> QED BY <1>1, <1>2, <1>3, <2>1, CloseStep
<1>4. CASE c \notin DOMAIN connectionToSubscriber
  <2>1. UNCHANGED <<connectionToSubscriber, subscribers, subscriptions, sub, panicked>>
    BY <1>4 DEF RemoveConnection, maps
  <2>2. TypeOK'
    BY <1>1, <2>1 DEF PubSubInv, TypeOK
  <2>3. MapsAgree' /\ NoPanic' /\ NoOrphanSender' /\ Attached' /\ Serving' /\ Writing'
    BY <1>1, <1>4, <2>1
       DEF PubSubInv, MapsAgree, NoPanic, NoOrphanSender, Attached, Serving, Writing
  <2> QED BY <2>2, <2>3 DEF PubSubInv
<1> QED BY <1>3, <1>4

--------------------------------------------------------------------------------
\* PUBLISH takes the lock: those it will serve are attached, hence open.
LEMMA PublishStartStep ==
  ASSUME PubSubInv, NEW c \in Conn, NEW ch \in Channel, PublishStart(c, ch)
  PROVE  PubSubInv'
<1> DEFINE served == {subscribers[ch][d] : d \in DOMAIN subscribers[ch]}
<1>1. /\ published < MaxMessages /\ published' = published + 1
      /\ message' = [message EXCEPT ![c] = published']
      /\ publishing' = [publishing EXCEPT ![c] = served]
      /\ audience' = [audience EXCEPT ![published'] = DOMAIN subscribers[ch]]
      /\ UNCHANGED <<connectionToSubscriber, subscribers, subscriptions, sub, open,
                     gone, subscriberMode, panicked, received, malformed>>
  BY DEF PublishStart, maps
<1>2. published \in 0..MaxMessages /\ published' \in 1..MaxMessages
  BY <1>1, BufferAssumption DEF PubSubInv, TypeOK
<1>3. DOMAIN subscribers[ch] \subseteq Conn /\ served \subseteq Sub
  <2>1. subscribers[ch] \in PartialMap(Conn, Sub)
    BY DEF PubSubInv, TypeOK
  <2> QED BY <2>1, PartialMapFacts
<1>4. \A s \in served : ~sub[s].closed /\ sub[s].sender # "unused"
  <2> SUFFICES ASSUME NEW d \in DOMAIN subscribers[ch]
               PROVE  /\ ~sub[subscribers[ch][d]].closed
                      /\ sub[subscribers[ch][d]].sender # "unused"
    OBVIOUS
  <2>1. d \in Conn
    BY <1>3
  <2>2. d \in DOMAIN connectionToSubscriber
        /\ subscribers[ch][d] = connectionToSubscriber[d]
    BY <2>1 DEF PubSubInv, MapsAgree
  <2> QED BY <2>2 DEF PubSubInv, Attached
<1>5. TypeOK'
  <2>1. message' \in [Conn -> 0..MaxMessages] /\ published' \in 0..MaxMessages
    BY <1>1, <1>2 DEF PubSubInv, TypeOK
  <2>2. publishing' \in [Conn -> SUBSET Sub]
    BY <1>1, <1>3 DEF PubSubInv, TypeOK
  <2>3. audience' \in [1..MaxMessages -> SUBSET Conn]
    BY <1>1, <1>2, <1>3 DEF PubSubInv, TypeOK
  <2> QED BY <1>1, <2>1, <2>2, <2>3 DEF PubSubInv, TypeOK
<1>6. Serving'
  <2> SUFFICES ASSUME NEW d \in Conn
               PROVE  /\ message'[d] = NoMessage => publishing'[d] = {}
                      /\ \A s \in publishing'[d] : ~sub'[s].closed /\ sub'[s].sender # "unused"
    BY DEF Serving
  <2>1. CASE d = c
    <3>1. message'[d] = published' /\ publishing'[d] = served
      BY <1>1, <2>1 DEF PubSubInv, TypeOK
    <3>2. published' # NoMessage
      BY <1>2 DEF NoMessage
    <3> QED BY <1>1, <1>4, <3>1, <3>2
  <2>2. CASE d # c
    BY <1>1, <2>2 DEF PubSubInv, TypeOK, Serving
  <2> QED BY <2>1, <2>2
<1>7. MapsAgree' /\ NoPanic' /\ NoOrphanSender' /\ Attached' /\ Writing'
  BY <1>1 DEF PubSubInv, MapsAgree, NoPanic, NoOrphanSender, Attached, Writing
<1> QED BY <1>5, <1>6, <1>7 DEF PubSubInv

\* The non-blocking send keeps a buffer within its capacity.
LEMMA QueueType ==
  ASSUME NEW buf \in Seq(1..MaxMessages), Len(buf) <= BufferSize, NEW m \in 1..MaxMessages
  PROVE  Queue(buf, m) \in Seq(1..MaxMessages) /\ Len(Queue(buf, m)) <= BufferSize
<1>1. CASE Len(buf) < BufferSize
  BY <1>1, BufferAssumption DEF Queue
<1>2. CASE ~(Len(buf) < BufferSize)
  BY <1>2 DEF Queue
<1> QED BY <1>1, <1>2

\* Taking the first message off a buffer.
LEMMA DequeueType ==
  ASSUME NEW buf \in Seq(1..MaxMessages), buf # <<>>, Len(buf) <= BufferSize
  PROVE  /\ Head(buf) \in 1..MaxMessages /\ Tail(buf) \in Seq(1..MaxMessages)
         /\ Len(Tail(buf)) <= BufferSize
<1>1. /\ Head(buf) \in 1..MaxMessages /\ Tail(buf) \in Seq(1..MaxMessages)
      /\ Len(Tail(buf)) = Len(buf) - 1
  BY HeadTailProperties
<1>2. Len(buf) \in Nat
  OBVIOUS
<1> QED BY <1>1, <1>2, BufferAssumption

\* A step that changes one subscriber's buffer, sender and message in hand, and
\* neither its connection nor whether it is closed, nor starts it.
LEMMA SubscriberStep ==
  ASSUME PubSubInv, NEW s \in Sub, NEW r \in SubType, sub' = [sub EXCEPT ![s] = r],
         Len(r.buf) <= BufferSize, r.conn = sub[s].conn, r.closed = sub[s].closed,
         sub[s].sender # "unused", r.sender # "unused",
         r.sender \in {"waiting", "writing"} => sub[s].sender \in {"waiting", "writing"},
         r.sender = "writing" => r.inHand \in 1..MaxMessages,
         UNCHANGED <<connectionToSubscriber, subscribers, subscriptions, open, gone,
                     subscriberMode, message, published, audience, malformed>>,
         panicked' = FALSE,
         publishing' \in [Conn -> SUBSET Sub],
         \A c \in Conn : publishing'[c] \subseteq publishing[c],
         received' \in [Conn -> Seq(1..MaxMessages)]
  PROVE  PubSubInv'
<1>1. /\ sub' \in [Sub -> SubType] /\ sub'[s] = r
      /\ \A t \in Sub \ {s} : sub'[t] = sub[t]
  BY DEF PubSubInv, TypeOK
<1>2. \A t \in Sub : /\ Len(sub'[t].buf) <= BufferSize
                     /\ sub'[t].conn = sub[t].conn /\ sub'[t].closed = sub[t].closed
                     /\ sub[t].sender # "unused" => sub'[t].sender # "unused"
                     /\ sub'[t].sender \in {"waiting", "writing"}
                          => sub[t].sender \in {"waiting", "writing"}
  BY <1>1 DEF PubSubInv, TypeOK
<1>3. TypeOK'
  BY <1>1, <1>2 DEF PubSubInv, TypeOK
<1>4. MapsAgree' /\ NoPanic'
  BY DEF PubSubInv, MapsAgree, NoPanic
<1>5. NoOrphanSender'
  BY <1>2 DEF PubSubInv, NoOrphanSender
<1>6. Attached'
  <2> SUFFICES ASSUME NEW c \in DOMAIN connectionToSubscriber
               PROVE  /\ c \in open
                      /\ sub'[connectionToSubscriber[c]].conn = c
                      /\ ~sub'[connectionToSubscriber[c]].closed
                      /\ sub'[connectionToSubscriber[c]].sender # "unused"
    BY DEF Attached
  <2>1. connectionToSubscriber[c] \in Sub
    BY Subscribed
  <2> QED BY <1>2, <2>1 DEF PubSubInv, Attached
<1>7. Serving'
  <2> SUFFICES ASSUME NEW c \in Conn
               PROVE  /\ message[c] = NoMessage => publishing'[c] = {}
                      /\ \A t \in publishing'[c] : ~sub'[t].closed /\ sub'[t].sender # "unused"
    BY DEF Serving
  <2>1. publishing'[c] \subseteq publishing[c] /\ publishing[c] \subseteq Sub
    BY DEF PubSubInv, TypeOK
  <2> QED BY <1>2, <2>1 DEF PubSubInv, Serving
<1>8. Writing'
  BY <1>1 DEF PubSubInv, Writing
<1> QED BY <1>3, <1>4, <1>5, <1>6, <1>7, <1>8 DEF PubSubInv

\* One turn of the loop of Publish sends on an open channel.
LEMMA PublishToStep ==
  ASSUME PubSubInv, NEW c \in Conn, NEW s \in Sub, PublishTo(c, s)
  PROVE  PubSubInv'
<1> DEFINE r == [sub[s] EXCEPT !.buf = Queue(sub[s].buf, message[c])]
<1>1. /\ s \in publishing[c]
      /\ publishing' = [publishing EXCEPT ![c] = publishing[c] \ {s}]
      /\ sub' = [sub EXCEPT ![s] = r]
      /\ panicked' = (panicked \/ sub[s].closed)
      /\ UNCHANGED <<connectionToSubscriber, subscribers, subscriptions, open, gone,
                     subscriberMode, message, published, audience, received, malformed>>
  BY DEF PublishTo, maps
<1>2. message[c] # NoMessage /\ ~sub[s].closed /\ sub[s].sender # "unused"
  BY <1>1 DEF PubSubInv, Serving
<1>3. message[c] \in 1..MaxMessages
  BY <1>2, BufferAssumption DEF PubSubInv, TypeOK, NoMessage
<1>4. sub[s] \in SubType /\ Len(sub[s].buf) <= BufferSize
  BY DEF PubSubInv, TypeOK
<1>5. sub[s].buf \in Seq(1..MaxMessages)
  BY <1>4 DEF SubType
<1>6. Queue(sub[s].buf, message[c]) \in Seq(1..MaxMessages)
      /\ Len(Queue(sub[s].buf, message[c])) <= BufferSize
  BY <1>3, <1>4, <1>5, QueueType
<1>7. /\ r \in SubType /\ Len(r.buf) <= BufferSize /\ r.conn = sub[s].conn
      /\ r.closed = sub[s].closed /\ r.sender = sub[s].sender
      /\ r.inHand = sub[s].inHand
  BY <1>4, <1>6 DEF SubType
<1>8. panicked' = FALSE
  <2>1. panicked = FALSE /\ sub[s].closed = FALSE
    BY <1>2, <1>4 DEF PubSubInv, NoPanic, TypeOK, SubType
  <2> QED BY <1>1, <2>1
<1>9. /\ publishing' \in [Conn -> SUBSET Sub]
      /\ \A d \in Conn : publishing'[d] \subseteq publishing[d]
      /\ received' \in [Conn -> Seq(1..MaxMessages)]
  BY <1>1 DEF PubSubInv, TypeOK
<1>10. r.sender = "writing" => r.inHand \in 1..MaxMessages
  BY <1>7 DEF PubSubInv, Writing
<1> HIDE DEF r
<1> QED BY <1>1, <1>2, <1>7, <1>8, <1>9, <1>10, SubscriberStep

\* PUBLISH releases the lock.
LEMMA PublishEndStep ==
  ASSUME PubSubInv, NEW c \in Conn, PublishEnd(c)
  PROVE  PubSubInv'
<1> USE DEF PubSubInv, PublishEnd, maps
<1>1. TypeOK'
  BY BufferAssumption DEF TypeOK, NoMessage
<1>2. Serving'
  BY DEF Serving, TypeOK
<1>3. MapsAgree' /\ NoPanic' /\ NoOrphanSender' /\ Attached' /\ Writing'
  BY DEF MapsAgree, NoPanic, NoOrphanSender, Attached, Writing
<1> QED BY <1>1, <1>2, <1>3

\* A client hangs up.
LEMMA ClientGoneStep ==
  ASSUME PubSubInv, NEW c \in Conn, ClientGone(c)
  PROVE  PubSubInv'
<1> USE DEF PubSubInv, ClientGone, maps
<1>1. TypeOK'
  BY DEF TypeOK
<1>2. MapsAgree' /\ NoPanic' /\ NoOrphanSender' /\ Attached' /\ Serving' /\ Writing'
  BY DEF MapsAgree, NoPanic, NoOrphanSender, Attached, Serving, Writing
<1> QED BY <1>1, <1>2

\* The sender goroutine of s.
LEMMA SenderStep ==
  ASSUME PubSubInv, NEW s \in Sub, Sender(s)
  PROVE  PubSubInv'
<1>1. /\ sub[s] \in SubType /\ sub \in [Sub -> SubType] /\ Len(sub[s].buf) <= BufferSize
      /\ publishing \in [Conn -> SUBSET Sub]
      /\ received \in [Conn -> Seq(1..MaxMessages)]
      /\ panicked = FALSE
  BY DEF PubSubInv, TypeOK, NoPanic
<1>2. /\ UNCHANGED <<connectionToSubscriber, subscribers, subscriptions, open, gone,
                     subscriberMode, message, published, audience, malformed, publishing>>
      /\ panicked' = panicked
      /\ sub[s].sender \in {"waiting", "writing"}
  BY DEF Sender, Take, Deliver, DeliverFails, SenderStops, maps
<1>3. /\ publishing' \in [Conn -> SUBSET Sub]
      /\ \A c \in Conn : publishing'[c] \subseteq publishing[c]
      /\ panicked' = FALSE
  BY <1>1, <1>2
<1>4. CASE Take(s)
  <2> DEFINE r == [sub[s] EXCEPT !.sender = "writing", !.inHand = Head(sub[s].buf),
                                 !.buf = Tail(sub[s].buf)]
  <2>1. sub' = [sub EXCEPT ![s] = r] /\ received' = received /\ sub[s].buf # <<>>
    BY <1>1, <1>4 DEF Take
  <2>2. sub[s].buf \in Seq(1..MaxMessages)
    BY <1>1 DEF SubType
  <2>3. /\ Head(sub[s].buf) \in 1..MaxMessages /\ Tail(sub[s].buf) \in Seq(1..MaxMessages)
        /\ Len(Tail(sub[s].buf)) <= BufferSize
    BY <1>1, <2>1, <2>2, DequeueType
  <2>4. /\ r \in SubType /\ Len(r.buf) <= BufferSize /\ r.conn = sub[s].conn
        /\ r.closed = sub[s].closed /\ r.sender = "writing"
        /\ r.inHand \in 1..MaxMessages
    <3>1. Head(sub[s].buf) \in 0..MaxMessages
      BY <2>3, BufferAssumption
    <3> QED BY <1>1, <2>3, <3>1 DEF SubType
  <2> HIDE DEF r
  <2> QED BY <1>1, <1>2, <1>3, <2>1, <2>4, SubscriberStep
<1>5. CASE Deliver(s)
  <2> DEFINE r == [sub[s] EXCEPT !.sender = "waiting", !.inHand = NoMessage]
  <2>1. sub' = [sub EXCEPT ![s] = r]
    BY <1>1, <1>5 DEF Deliver
  <2>2. /\ r \in SubType /\ Len(r.buf) <= BufferSize /\ r.conn = sub[s].conn
        /\ r.closed = sub[s].closed /\ r.sender = "waiting"
    <3>1. NoMessage \in 0..MaxMessages
      BY BufferAssumption DEF NoMessage
    <3> QED BY <1>1, <3>1 DEF SubType
  <2>3. received' \in [Conn -> Seq(1..MaxMessages)]
    <3>1. sub[s].inHand \in 1..MaxMessages /\ sub[s].conn \in Conn
      BY <1>5 DEF Deliver, PubSubInv, Writing, TypeOK
    <3>2. Append(received[sub[s].conn], sub[s].inHand) \in Seq(1..MaxMessages)
      BY <1>1, <3>1
    <3> QED BY <1>1, <1>5, <3>2 DEF Deliver
  <2> HIDE DEF r
  <2> QED BY <1>1, <1>2, <1>3, <2>1, <2>2, <2>3, SubscriberStep
<1>6. CASE DeliverFails(s)
  <2> DEFINE r == [sub[s] EXCEPT !.sender = "exited", !.inHand = NoMessage]
  <2>1. sub' = [sub EXCEPT ![s] = r] /\ received' = received
    BY <1>1, <1>6 DEF DeliverFails
  <2>2. /\ r \in SubType /\ Len(r.buf) <= BufferSize /\ r.conn = sub[s].conn
        /\ r.closed = sub[s].closed /\ r.sender = "exited"
    <3>1. NoMessage \in 0..MaxMessages
      BY BufferAssumption DEF NoMessage
    <3> QED BY <1>1, <3>1 DEF SubType
  <2> HIDE DEF r
  <2> QED BY <1>1, <1>2, <1>3, <2>1, <2>2, SubscriberStep
<1>7. CASE SenderStops(s)
  <2> DEFINE r == [sub[s] EXCEPT !.sender = "exited"]
  <2>1. sub' = [sub EXCEPT ![s] = r] /\ received' = received
    BY <1>1, <1>7 DEF SenderStops
  <2>2. /\ r \in SubType /\ Len(r.buf) <= BufferSize /\ r.conn = sub[s].conn
        /\ r.closed = sub[s].closed /\ r.sender = "exited"
    BY <1>1 DEF SubType
  <2> HIDE DEF r
  <2> QED BY <1>1, <1>2, <1>3, <2>1, <2>2, SubscriberStep
<1> QED BY <1>4, <1>5, <1>6, <1>7 DEF Sender

\* Every step keeps the invariant.
LEMMA PubSubStep == PubSubInv /\ [Next]_vars => PubSubInv'
<1> SUFFICES ASSUME PubSubInv, [Next]_vars PROVE PubSubInv'
  OBVIOUS
<1>1. ASSUME NEW c \in Conn, NEW ch \in Channel, NEW ok \in BOOLEAN, Subscribe(c, ch, ok)
      PROVE  PubSubInv'
  BY <1>1, SubscribeMoreStep, SubscribeNewStep DEF Subscribe
<1>2. ASSUME NEW c \in Conn, Handler(c)
      PROVE  PubSubInv'
  BY <1>1, <1>2, UnsubscribeStep, PublishStartStep, PublishToStep, PublishEndStep,
     RemoveConnectionStep DEF Handler
<1>3. CASE UNCHANGED vars
  <2>1. UNCHANGED <<connectionToSubscriber, subscribers, subscriptions, sub, open, gone,
                    subscriberMode, publishing, message, published, panicked, audience,
                    received, malformed>>
    BY <1>3 DEF vars, maps
  <2>2. TypeOK'
    BY <2>1 DEF PubSubInv, TypeOK
  <2>3. MapsAgree' /\ NoPanic' /\ NoOrphanSender' /\ Attached' /\ Serving' /\ Writing'
    BY <2>1 DEF PubSubInv, MapsAgree, NoPanic, NoOrphanSender, Attached, Serving, Writing
  <2> QED BY <2>2, <2>3 DEF PubSubInv
<1> QED BY <1>2, <1>3, ClientGoneStep, SenderStep DEF Next

\* However many connections subscribe, unsubscribe, publish and hang up at once,
\* and whatever the capacity of the buffers, the invariant holds.
LEMMA PubSubAlways == Spec => []PubSubInv
BY InitPubSub, PubSubStep, PTL DEF Spec

\* The maps of the PubSub struct relate connections, channels and subscribers, and
\* no messageChan holds more than its capacity.
THEOREM PubSubTyped == Spec => []TypeOK
<1>1. PubSubInv => TypeOK
  BY DEF PubSubInv
<1> QED BY <1>1, PubSubAlways, PTL

\* The three maps say the same whenever mu is free: who is subscribed to what, with
\* which subscriber.
THEOREM ThreeMapsAgree == Spec => []MapsAgree
<1>1. PubSubInv => MapsAgree
  BY DEF PubSubInv
<1> QED BY <1>1, PubSubAlways, PTL

\* No handler and no sender goroutine of pubsub.go closes a closed channel or sends
\* on one.
THEOREM NeverPanics == Spec => []NoPanic
<1>1. PubSubInv => NoPanic
  BY DEF PubSubInv
<1> QED BY <1>1, PubSubAlways, PTL

\* Every sender goroutine still running belongs to a live subscription or has been
\* told to stop.
THEOREM SendersOwned == Spec => []NoOrphanSender
<1>1. PubSubInv => NoOrphanSender
  BY DEF PubSubInv
<1> QED BY <1>1, PubSubAlways, PTL

--------------------------------------------------------------------------------
\* Subscriber mode.

\* A connection that has left its last channel is forgotten.
NoneEmpty == \A c \in DOMAIN subscriptions : subscriptions[c] # {}

ModeInv == ModeMatchesSubscriptions /\ NoneEmpty

\* The commands of a connection keep mode and subscriptions together.
LEMMA ModeStep == PubSubInv /\ ModeInv /\ [Next]_vars => ModeInv'
<1> SUFFICES ASSUME PubSubInv, ModeInv, [Next]_vars PROVE ModeInv'
  OBVIOUS
<1>1. ASSUME UNCHANGED <<subscriptions, subscriberMode, malformed>>, open' \subseteq open
      PROVE  ModeInv'
  BY <1>1 DEF ModeInv, ModeMatchesSubscriptions, NoneEmpty
<1>2. subscriberMode \in [Conn -> BOOLEAN] /\ open \subseteq Conn
      /\ DOMAIN subscriptions = DOMAIN connectionToSubscriber
  BY DEF PubSubInv, TypeOK, MapsAgree
<1>3. ASSUME NEW c \in Conn, NEW ch \in Channel, NEW s \in Sub, NEW ok \in BOOLEAN,
             SubscribeNew(c, ch, s, ok)
      PROVE  ModeInv'
  <2>1. /\ DOMAIN subscriptions' = DOMAIN subscriptions \cup {c} /\ subscriptions'[c] = {ch}
        /\ \A z \in DOMAIN subscriptions \ {c} : subscriptions'[z] = subscriptions[z]
    BY <1>3 DEF SubscribeNew, Put
  <2>2. /\ subscriberMode' = [subscriberMode EXCEPT ![c] = subscriberMode[c] \/ ok]
        /\ open' = open /\ malformed' = IF ~ok THEN malformed \cup {c} ELSE malformed \ {c}
    BY <1>3 DEF SubscribeNew, ModeOnSubscribe, EndedEarly
  <2> QED BY <1>2, <2>1, <2>2 DEF ModeInv, ModeMatchesSubscriptions, NoneEmpty
<1>4. ASSUME NEW c \in Conn, NEW ch \in Channel, NEW ok \in BOOLEAN, SubscribeMore(c, ch, ok)
      PROVE  ModeInv'
  <2>1. c \in DOMAIN subscriptions
    BY <1>2, <1>4 DEF SubscribeMore
  <2>2. /\ DOMAIN subscriptions' = DOMAIN subscriptions
        /\ \A z \in DOMAIN subscriptions : subscriptions'[z] # {}
    BY <1>4, <2>1 DEF SubscribeMore, ModeInv, NoneEmpty
  <2>3. /\ subscriberMode' = [subscriberMode EXCEPT ![c] = subscriberMode[c] \/ ok]
        /\ open' = open /\ malformed' = IF ~ok THEN malformed \cup {c} ELSE malformed \ {c}
    BY <1>4 DEF SubscribeMore, ModeOnSubscribe, EndedEarly
  <2> QED BY <1>2, <2>1, <2>2, <2>3 DEF ModeInv, ModeMatchesSubscriptions, NoneEmpty
<1>5. ASSUME NEW c \in Conn, NEW ch \in Channel, NEW ok \in BOOLEAN, Unsubscribe(c, ch, ok)
      PROVE  ModeInv'
  <2> DEFINE mine == IF c \in DOMAIN subscriptions THEN subscriptions[c] ELSE {}
             rest == mine \ {ch}
  <2>1. /\ subscriberMode' = [subscriberMode EXCEPT ![c] = subscriberMode[c] /\ (rest # {} \/ ~ok)]
        /\ malformed' = IF ~ok \/ (rest # {} /\ c \in malformed) THEN malformed \cup {c}
                                                                 ELSE malformed \ {c}
        /\ open' = open
    BY <1>5 DEF Unsubscribe, ModeAfter, EndedEarly
  <2>2. /\ DOMAIN subscriptions' \cup {c} = DOMAIN subscriptions \cup {c}
        /\ c \in DOMAIN subscriptions' <=> rest # {}
        /\ \A d \in DOMAIN subscriptions' : subscriptions'[d] # {}
    <3>1. \A d \in DOMAIN subscriptions : subscriptions[d] # {}
      BY DEF ModeInv, NoneEmpty
    <3>2. CASE ch \notin mine
      <4>1. subscriptions' = subscriptions
        BY <1>5, <3>2 DEF Unsubscribe, maps
      <4> QED BY <3>1, <3>2, <4>1
    <3>3. CASE ch \in mine /\ rest = {}
      <4>1. subscriptions' = Remove(subscriptions, c)
        BY <1>5, <3>3 DEF Unsubscribe, CloseSubscriber
      <4> QED BY <3>1, <3>3, <4>1 DEF Remove, Restrict
    <3>4. CASE ch \in mine /\ rest # {}
      <4>1. subscriptions' = [subscriptions EXCEPT ![c] = rest] /\ c \in DOMAIN subscriptions
        BY <1>5, <3>4 DEF Unsubscribe
      <4> HIDE DEF rest
      <4> QED BY <3>1, <3>4, <4>1
    <3> QED BY <3>2, <3>3, <3>4
  <2>3. rest # {} => c \in DOMAIN subscriptions
    OBVIOUS
  <2> HIDE DEF rest, mine
  <2>4. ASSUME NEW d \in open \ malformed'
        PROVE  subscriberMode'[d] <=> d \in DOMAIN subscriptions'
    BY <1>2, <2>1, <2>2, <2>3 DEF ModeInv, ModeMatchesSubscriptions
  <2> QED BY <2>1, <2>2, <2>4 DEF ModeInv, ModeMatchesSubscriptions, NoneEmpty
<1>6. ASSUME NEW c \in Conn, RemoveConnection(c)
      PROVE  ModeInv'
  <2>1. /\ open' = open \ {c} /\ UNCHANGED <<subscriberMode, malformed>>
        /\ DOMAIN subscriptions' \cup {c} = DOMAIN subscriptions \cup {c}
        /\ \A d \in DOMAIN subscriptions' : d \in DOMAIN subscriptions /\ subscriptions'[d] = subscriptions[d]
    BY <1>6, <1>2 DEF RemoveConnection, CloseSubscriber, Remove, Restrict, maps
  <2> QED BY <2>1 DEF ModeInv, ModeMatchesSubscriptions, NoneEmpty
<1>7. ASSUME NEW c \in Conn, \/ \E ch \in Channel : PublishStart(c, ch)
                             \/ \E s \in Sub : PublishTo(c, s)
                             \/ PublishEnd(c) \/ ClientGone(c)
      PROVE  ModeInv'
  BY <1>1, <1>7 DEF PublishStart, PublishTo, PublishEnd, ClientGone, maps
<1>8. ASSUME NEW s \in Sub, Sender(s)
      PROVE  ModeInv'
  BY <1>1, <1>8 DEF Sender, Take, Deliver, DeliverFails, SenderStops, maps
<1>9. CASE UNCHANGED vars
  BY <1>1, <1>9 DEF vars, maps
<1> QED BY <1>3, <1>4, <1>5, <1>6, <1>7, <1>8, <1>9 DEF Next, Handler, Subscribe

\* Subscriber mode is on exactly while the connection has channels, save after a
\* command that returned early on a malformed argument.
THEOREM ModeIsSubscribed == Spec => []ModeMatchesSubscriptions
<1>1. Init => ModeInv
  BY DEF Init, ModeInv, ModeMatchesSubscriptions, NoneEmpty, NoMap
<1>2. ModeInv => ModeMatchesSubscriptions
  BY DEF ModeInv
<1> QED BY <1>1, <1>2, ModeStep, PubSubAlways, PTL DEF Spec

--------------------------------------------------------------------------------
\* Delivery.  A message on its way to a subscriber is in one place: still to be
\* queued by its Publish, in the buffer, or in the hand of the sender.

Buffered(s, m) == \E i \in DOMAIN sub[s].buf : sub[s].buf[i] = m
Held(s, m) == sub[s].sender = "writing" /\ sub[s].inHand = m
Due(s, m) == \E c \in Conn : s \in publishing[c] /\ message[c] = m
OnItsWay(s, m) == Buffered(s, m) \/ Held(s, m) \/ Due(s, m)
Got(c, m) == \E i \in DOMAIN received[c] : received[c][i] = m

\* Whoever has a message on its way was in its audience, is alone in this for its
\* connection, and has not delivered it yet.
OneCarrier ==
  \A s \in Sub, m \in 1..MaxMessages : OnItsWay(s, m) =>
    /\ m <= published
    /\ sub[s].conn \in audience[m]
    /\ ~Got(sub[s].conn, m)
    /\ \A t \in Sub : OnItsWay(t, m) /\ sub[t].conn = sub[s].conn => t = s

\* It has it in one place, once.
OnePlace ==
  /\ \A s \in Sub, m \in 1..MaxMessages :
       /\ ~(Buffered(s, m) /\ Held(s, m))
       /\ ~(Buffered(s, m) /\ Due(s, m))
       /\ ~(Held(s, m) /\ Due(s, m))
  /\ \A s \in Sub : \A i, j \in DOMAIN sub[s].buf : sub[s].buf[i] = sub[s].buf[j] => i = j

\* Every PUBLISH has its own message.
OwnMessage ==
  /\ \A c \in Conn : message[c] <= published
  /\ \A c, d \in Conn : message[c] = message[d] /\ message[c] # NoMessage => c = d

ReceivedIsPublished == \A c \in Conn : \A i \in DOMAIN received[c] : received[c][i] <= published

DeliveryInv ==
  OneCarrier /\ OnePlace /\ OwnMessage /\ ReceivedIsPublished /\ DeliveredOnceToAudience

\* A step that puts no message on its way and publishes and delivers none.
LEMMA NothingNew ==
  ASSUME DeliveryInv, UNCHANGED <<published, audience, received>>,
         \A s \in Sub, m \in 1..MaxMessages :
           OnItsWay(s, m)' => OnItsWay(s, m) /\ sub'[s].conn = sub[s].conn,
         \A c \in Conn : message'[c] \in {message[c], NoMessage},
         published \in Nat
  PROVE  OneCarrier' /\ OwnMessage' /\ ReceivedIsPublished' /\ DeliveredOnceToAudience'
<1>1. OneCarrier'
  BY DEF DeliveryInv, OneCarrier, Got
<1>2. OwnMessage'
  BY DEF DeliveryInv, OwnMessage, NoMessage
<1>3. ReceivedIsPublished' /\ DeliveredOnceToAudience'
  BY DEF DeliveryInv, ReceivedIsPublished, DeliveredOnceToAudience
<1> QED BY <1>1, <1>2, <1>3

\* A step that leaves buffers, senders and publishes alone but may start a
\* subscriber or close one.
LEMMA NoTraffic ==
  ASSUME DeliveryInv, PubSubInv, UNCHANGED <<published, audience, received, publishing, message>>,
         \A s \in Sub : \/ /\ sub'[s].buf = sub[s].buf /\ sub'[s].conn = sub[s].conn
                             /\ sub'[s].sender = sub[s].sender /\ sub'[s].inHand = sub[s].inHand
                          \/ /\ sub'[s].buf = <<>> /\ sub'[s].sender = "waiting"
                             /\ \A c \in Conn : s \notin publishing[c]
  PROVE  DeliveryInv'
<1>1. published \in Nat
  BY BufferAssumption DEF PubSubInv, TypeOK
<1>2. \A s \in Sub, m \in 1..MaxMessages :
        /\ Buffered(s, m)' => Buffered(s, m) /\ sub'[s].conn = sub[s].conn
        /\ Held(s, m)' => Held(s, m) /\ sub'[s].conn = sub[s].conn
        /\ Due(s, m)' => Due(s, m) /\ sub'[s].conn = sub[s].conn
  BY DEF Buffered, Held, Due
<1>3. OnePlace'
  <2>1. \A s \in Sub : \A i, j \in DOMAIN sub'[s].buf : sub'[s].buf[i] = sub'[s].buf[j] => i = j
    BY DEF DeliveryInv, OnePlace
  <2> QED BY <1>2, <2>1 DEF DeliveryInv, OnePlace
<1>4. OneCarrier' /\ OwnMessage' /\ ReceivedIsPublished' /\ DeliveredOnceToAudience'
  BY <1>1, <1>2, NothingNew DEF OnItsWay
<1> QED BY <1>3, <1>4 DEF DeliveryInv

\* Subscribing, unsubscribing, hanging up.
LEMMA ConnectionDelivery ==
  ASSUME DeliveryInv, PubSubInv, NEW c \in Conn,
         \/ \E ch \in Channel, ok \in BOOLEAN : Subscribe(c, ch, ok) \/ Unsubscribe(c, ch, ok)
         \/ RemoveConnection(c) \/ ClientGone(c)
  PROVE  DeliveryInv'
<1>1. UNCHANGED <<published, audience, received, publishing, message>>
  BY DEF Subscribe, SubscribeNew, SubscribeMore, Unsubscribe, RemoveConnection, ClientGone
<1>2. sub \in [Sub -> SubType]
  BY DEF PubSubInv, TypeOK
<1>3. CASE sub' = sub
  BY <1>1, <1>3, NoTraffic
<1>4. ASSUME c \in DOMAIN connectionToSubscriber, CloseSubscriber(c)
      PROVE  DeliveryInv'
  <2> DEFINE s == connectionToSubscriber[c]
  <2>1. s \in Sub
    BY <1>4, Subscribed
  <2>2. sub' = [sub EXCEPT ![s] = [sub[s] EXCEPT !.closed = TRUE]]
    BY <1>4 DEF CloseSubscriber
  <2>3. \A t \in Sub : /\ sub'[t].buf = sub[t].buf /\ sub'[t].conn = sub[t].conn
                       /\ sub'[t].sender = sub[t].sender /\ sub'[t].inHand = sub[t].inHand
    BY <1>2, <2>1, <2>2 DEF SubType
  <2> QED BY <1>1, <2>3, NoTraffic
<1>5. ASSUME NEW ch \in Channel, NEW ok \in BOOLEAN, NEW s \in Sub, SubscribeNew(c, ch, s, ok)
      PROVE  DeliveryInv'
  <2>1. sub' = [sub EXCEPT ![s] = Fresh(c)]
    BY <1>5 DEF SubscribeNew, Fresh
  <2>2. Fresh(c).buf = <<>> /\ Fresh(c).sender = "waiting"
    BY DEF Fresh, Unused
  <2>3. \A t \in Sub \ {s} : sub'[t] = sub[t]
    BY <1>2, <2>1
  <2>4. sub'[s].buf = <<>> /\ sub'[s].sender = "waiting"
    BY <1>2, <2>1, <2>2
  <2>5. \A d \in Conn : s \notin publishing[d]
    BY <1>5 DEF SubscribeNew, Exclusive, PubSubInv, Serving
  <2> QED BY <1>1, <2>3, <2>4, <2>5, NoTraffic
<1>6. ASSUME NEW ch \in Channel, NEW ok \in BOOLEAN, SubscribeMore(c, ch, ok)
      PROVE  DeliveryInv'
  BY <1>3, <1>6 DEF SubscribeMore
<1>7. ASSUME NEW ch \in Channel, NEW ok \in BOOLEAN, Unsubscribe(c, ch, ok)
      PROVE  DeliveryInv'
  <2>1. sub' = sub \/ (c \in DOMAIN subscriptions /\ CloseSubscriber(c))
    BY <1>7 DEF Unsubscribe
  <2>2. DOMAIN subscriptions = DOMAIN connectionToSubscriber
    BY DEF PubSubInv, MapsAgree
  <2> QED BY <1>3, <1>4, <2>1, <2>2
<1>8. CASE RemoveConnection(c)
  BY <1>3, <1>4, <1>8 DEF RemoveConnection
<1>9. CASE ClientGone(c)
  BY <1>3, <1>9 DEF ClientGone
<1> QED BY <1>5, <1>6, <1>7, <1>8, <1>9 DEF Subscribe

\* PUBLISH begins: a new message, due to one subscriber of each connection.
LEMMA PublishStartDelivery ==
  ASSUME DeliveryInv, PubSubInv, NEW c \in Conn, NEW ch \in Channel, PublishStart(c, ch)
  PROVE  DeliveryInv'
<1> DEFINE served == {subscribers[ch][d] : d \in DOMAIN subscribers[ch]}
<1>0. PICK n : n = published + 1
  OBVIOUS
<1>1. /\ published < MaxMessages /\ published' = n /\ message' = [message EXCEPT ![c] = n]
      /\ publishing' = [publishing EXCEPT ![c] = served]
      /\ audience' = [audience EXCEPT ![n] = DOMAIN subscribers[ch]]
      /\ UNCHANGED <<sub, received>> /\ message[c] = NoMessage
  BY <1>0 DEF PublishStart
<1>2. /\ published \in Nat /\ n \in 1..MaxMessages /\ n > published
      /\ message \in [Conn -> 0..MaxMessages] /\ publishing \in [Conn -> SUBSET Sub]
      /\ audience \in [1..MaxMessages -> SUBSET Conn]
      /\ received \in [Conn -> Seq(1..MaxMessages)]
  BY <1>0, <1>1, BufferAssumption DEF PubSubInv, TypeOK
<1>3. /\ message'[c] = n /\ publishing'[c] = served
      /\ \A d \in Conn \ {c} : message'[d] = message[d] /\ publishing'[d] = publishing[d]
      /\ audience'[n] = DOMAIN subscribers[ch]
      /\ \A m \in 1..MaxMessages \ {n} : audience'[m] = audience[m]
  BY <1>1, <1>2
<1>4. \A s \in served : s \in Sub /\ sub[s].conn \in DOMAIN subscribers[ch]
                         /\ connectionToSubscriber[sub[s].conn] = s
  <2> SUFFICES ASSUME NEW d \in DOMAIN subscribers[ch]
               PROVE  /\ subscribers[ch][d] \in Sub /\ sub[subscribers[ch][d]].conn = d
                      /\ connectionToSubscriber[d] = subscribers[ch][d]
    OBVIOUS
  <2>1. subscribers[ch] \in PartialMap(Conn, Sub)
    BY DEF PubSubInv, TypeOK
  <2>2. d \in Conn /\ subscribers[ch][d] \in Sub
    BY <2>1, PartialMapFacts
  <2>3. d \in DOMAIN connectionToSubscriber /\ subscribers[ch][d] = connectionToSubscriber[d]
    BY <2>2 DEF PubSubInv, MapsAgree
  <2> QED BY <2>2, <2>3 DEF PubSubInv, Attached
<1> HIDE DEF served
<1>5. \A s \in Sub, m \in 1..MaxMessages :
        /\ Buffered(s, m)' <=> Buffered(s, m)
        /\ Held(s, m)' <=> Held(s, m)
        /\ Due(s, m)' => Due(s, m) \/ (m = n /\ s \in served)
  <2>1. \A s \in Sub, m \in 1..MaxMessages : (Buffered(s, m)' <=> Buffered(s, m))
                                              /\ (Held(s, m)' <=> Held(s, m))
    BY <1>1 DEF Buffered, Held
  <2>2. ASSUME NEW s \in Sub, NEW m \in 1..MaxMessages, Due(s, m)', ~(m = n /\ s \in served)
        PROVE  Due(s, m)
    <3>1. PICK d \in Conn : s \in publishing'[d] /\ message'[d] = m
      BY <2>2 DEF Due
    <3>2. d # c
      BY <1>3, <2>2, <3>1
    <3> QED BY <1>3, <3>1, <3>2 DEF Due
  <2> QED BY <2>1, <2>2
<1>6. \A s \in Sub, m \in 1..MaxMessages : OnItsWay(s, m) => m <= published /\ m # n
  BY <1>2 DEF DeliveryInv, OneCarrier
<1>7. \A d \in Conn : ~Got(d, n)
  <2> SUFFICES ASSUME NEW d \in Conn, NEW i \in DOMAIN received[d], received[d][i] = n
               PROVE  FALSE
    BY DEF Got
  <2>1. received[d][i] <= published
    BY DEF DeliveryInv, ReceivedIsPublished
  <2> QED BY <1>2, <2>1
<1>8. OneCarrier'
  <2> SUFFICES ASSUME NEW s \in Sub, NEW m \in 1..MaxMessages, OnItsWay(s, m)'
               PROVE  /\ m <= published' /\ sub[s].conn \in audience'[m]
                      /\ ~Got(sub[s].conn, m)
                      /\ \A t \in Sub : OnItsWay(t, m)' /\ sub[t].conn = sub[s].conn => t = s
    BY <1>1 DEF OneCarrier, Got
  <2>1. CASE m = n
    <3>1. \A t \in Sub : OnItsWay(t, n)' => t \in served
      BY <1>2, <1>5, <1>6 DEF OnItsWay
    <3>2. s \in served
      BY <2>1, <3>1
    <3>3. sub[s].conn \in audience'[m] /\ sub[s].conn \in Conn
      BY <1>2, <1>3, <1>4, <2>1, <3>2, PartialMapFacts DEF PubSubInv, TypeOK
    <3>4. \A t \in Sub : OnItsWay(t, m)' /\ sub[t].conn = sub[s].conn => t = s
      BY <1>4, <2>1, <3>1, <3>2
    <3> QED BY <1>1, <1>2, <1>7, <2>1, <3>3, <3>4
  <2>2. CASE m # n
    <3>1. \A t \in Sub : OnItsWay(t, m)' => OnItsWay(t, m)
      BY <1>5, <2>2 DEF OnItsWay
    <3>2. m <= published' /\ sub[s].conn \in audience'[m]
      <4>1. m <= published /\ sub[s].conn \in audience[m]
        BY <3>1 DEF DeliveryInv, OneCarrier
      <4> QED BY <1>1, <1>2, <1>3, <2>2, <4>1
    <3> QED BY <3>1, <3>2 DEF DeliveryInv, OneCarrier
  <2> QED BY <2>1, <2>2
<1>9. OnePlace'
  <2>1. \A s \in Sub : ~Buffered(s, n) /\ ~Held(s, n)
    BY <1>2, <1>6 DEF OnItsWay
  <2>2. \A s \in Sub : \A i, j \in DOMAIN sub'[s].buf : sub'[s].buf[i] = sub'[s].buf[j] => i = j
    BY <1>1 DEF DeliveryInv, OnePlace
  <2> QED BY <1>5, <2>1, <2>2 DEF DeliveryInv, OnePlace
<1>10. OwnMessage'
  <2>1. \A d \in Conn : message[d] \in Nat /\ message[d] <= published
    BY <1>2, BufferAssumption DEF DeliveryInv, OwnMessage
  <2>2. \A d \in Conn : message'[d] <= published' /\ (d # c => message'[d] # n)
    BY <1>0, <1>1, <1>2, <1>3, <2>1
  <2> QED BY <1>3, <2>2 DEF DeliveryInv, OwnMessage
<1>11. ReceivedIsPublished' /\ DeliveredOnceToAudience'
  <2>1. ASSUME NEW d \in Conn, NEW i \in DOMAIN received[d]
        PROVE  /\ received[d][i] \in 1..MaxMessages \ {n} /\ received[d][i] <= n
    <3>1. received[d][i] \in 1..MaxMessages
      <4>1. received[d] \in Seq(1..MaxMessages) /\ i \in 1..Len(received[d])
        BY <1>2
      <4> QED BY <4>1, ElementOfSeq
    <3>2. received[d][i] <= published
      BY DEF DeliveryInv, ReceivedIsPublished
    <3> QED BY <1>2, <3>1, <3>2
  <2>2. ReceivedIsPublished'
    BY <1>1, <2>1 DEF ReceivedIsPublished
  <2> QED BY <1>1, <1>3, <2>1, <2>2 DEF DeliveryInv, DeliveredOnceToAudience
<1> QED BY <1>8, <1>9, <1>10, <1>11 DEF DeliveryInv

\* One turn of the loop of Publish: the message goes from due to buffered, or is
\* dropped.
LEMMA PublishToDelivery ==
  ASSUME DeliveryInv, PubSubInv, NEW c \in Conn, NEW s \in Sub, PublishTo(c, s)
  PROVE  DeliveryInv'
<1>0. PICK n : n = message[c]
  OBVIOUS
<1>1. /\ s \in publishing[c] /\ publishing' = [publishing EXCEPT ![c] = publishing[c] \ {s}]
      /\ sub' = [sub EXCEPT ![s] = [sub[s] EXCEPT !.buf = Queue(sub[s].buf, n)]]
      /\ UNCHANGED <<message, published, audience, received>>
  BY <1>0 DEF PublishTo
<1>2. /\ sub \in [Sub -> SubType] /\ publishing \in [Conn -> SUBSET Sub] /\ published \in Nat
      /\ message \in [Conn -> 0..MaxMessages]
  BY BufferAssumption DEF PubSubInv, TypeOK
<1>3. n \in 1..MaxMessages
  <2>1. n # NoMessage
    BY <1>0, <1>1 DEF PubSubInv, Serving
  <2> QED BY <1>0, <1>2, <2>1, BufferAssumption DEF NoMessage
<1>4. /\ sub'[s].buf = Queue(sub[s].buf, n) /\ sub'[s].conn = sub[s].conn
      /\ sub'[s].sender = sub[s].sender /\ sub'[s].inHand = sub[s].inHand
      /\ \A t \in Sub \ {s} : sub'[t] = sub[t]
      /\ sub[s].buf \in Seq(1..MaxMessages)
  BY <1>1, <1>2 DEF SubType
<1>5. Due(s, n) /\ ~Buffered(s, n) /\ ~Held(s, n)
  <2>1. Due(s, n)
    BY <1>0, <1>1 DEF Due
  <2> QED BY <1>3, <2>1 DEF DeliveryInv, OnePlace
<1>6. /\ \A t \in Sub, m \in 1..MaxMessages : Due(t, m)' => Due(t, m)
      /\ ~Due(s, n)'
  <2>1. \A d \in Conn : publishing'[d] \subseteq publishing[d] /\ s \notin publishing'[c]
    BY <1>1, <1>2
  <2>2. \A d \in Conn : message[d] = n => d = c
    BY <1>0, <1>3 DEF DeliveryInv, OwnMessage, NoMessage
  <2>3. ~Due(s, n)'
    BY <1>1, <2>1, <2>2 DEF Due
  <2> QED BY <1>1, <2>1, <2>3 DEF Due
<1>7. \A t \in Sub, m \in 1..MaxMessages :
        /\ Held(t, m)' <=> Held(t, m)
        /\ Buffered(t, m)' => Buffered(t, m) \/ (t = s /\ m = n)
  <2>1. \A i \in DOMAIN sub'[s].buf : sub'[s].buf[i] = n \/ \E j \in DOMAIN sub[s].buf : sub'[s].buf[i] = sub[s].buf[j]
    BY <1>3, <1>4 DEF Queue
  <2> QED BY <1>4, <2>1 DEF Held, Buffered
<1>8. \A t \in Sub : \A i, j \in DOMAIN sub'[t].buf : sub'[t].buf[i] = sub'[t].buf[j] => i = j
  <2>1. \A i, j \in DOMAIN sub[s].buf : sub[s].buf[i] = sub[s].buf[j] => i = j
    BY DEF DeliveryInv, OnePlace
  <2>2. \A i \in DOMAIN sub[s].buf : sub[s].buf[i] # n
    BY <1>5 DEF Buffered
  <2>3. \A i, j \in DOMAIN sub'[s].buf : sub'[s].buf[i] = sub'[s].buf[j] => i = j
    BY <1>3, <1>4, <2>1, <2>2 DEF Queue
  <2> QED BY <1>4, <2>3 DEF DeliveryInv, OnePlace
<1>9. OnePlace'
  BY <1>5, <1>6, <1>7, <1>8 DEF DeliveryInv, OnePlace
<1>10. \A t \in Sub, m \in 1..MaxMessages :
         OnItsWay(t, m)' => OnItsWay(t, m) /\ sub'[t].conn = sub[t].conn
  BY <1>4, <1>5, <1>6, <1>7 DEF OnItsWay
<1> QED BY <1>1, <1>2, <1>9, <1>10, NothingNew DEF DeliveryInv

\* The sender takes a message off the buffer.
LEMMA TakeDelivery ==
  ASSUME DeliveryInv, PubSubInv, NEW s \in Sub, Take(s)
  PROVE  DeliveryInv'
<1>0. PICK n : n = Head(sub[s].buf)
  OBVIOUS
<1>1. /\ sub[s].sender = "waiting" /\ sub[s].buf # <<>>
      /\ sub' = [sub EXCEPT ![s] = [sub[s] EXCEPT !.sender = "writing", !.inHand = n, !.buf = Tail(sub[s].buf)]]
      /\ UNCHANGED <<message, published, audience, received, publishing>>
  BY <1>0 DEF Take
<1>2. sub \in [Sub -> SubType] /\ published \in Nat
  BY BufferAssumption DEF PubSubInv, TypeOK
<1>3. /\ sub'[s].buf = Tail(sub[s].buf) /\ sub'[s].conn = sub[s].conn
      /\ sub'[s].sender = "writing" /\ sub'[s].inHand = n
      /\ \A t \in Sub \ {s} : sub'[t] = sub[t]
      /\ sub[s].buf \in Seq(1..MaxMessages)
  BY <1>1, <1>2 DEF SubType
<1>4. /\ n = sub[s].buf[1] /\ 1 \in DOMAIN sub[s].buf
      /\ \A i \in DOMAIN sub'[s].buf : i + 1 \in DOMAIN sub[s].buf /\ i + 1 # 1 /\ sub'[s].buf[i] = sub[s].buf[i + 1]
      /\ DOMAIN sub'[s].buf \subseteq Nat
  BY <1>0, <1>1, <1>3
<1>5. \A i, j \in DOMAIN sub[s].buf : sub[s].buf[i] = sub[s].buf[j] => i = j
  BY DEF DeliveryInv, OnePlace
<1>6. Buffered(s, n) /\ ~Buffered(s, n)' /\ \A m : Buffered(s, m)' => Buffered(s, m)
  BY <1>4, <1>5 DEF Buffered
<1>7. \A t \in Sub, m \in 1..MaxMessages :
        /\ Due(t, m)' <=> Due(t, m)
        /\ Buffered(t, m)' => Buffered(t, m)
        /\ Held(t, m)' => Held(t, m) \/ (t = s /\ m = n)
  <2>1. \A t \in Sub, m \in 1..MaxMessages : Due(t, m)' <=> Due(t, m)
    BY <1>1 DEF Due
  <2>2. \A t \in Sub, m \in 1..MaxMessages : Buffered(t, m)' => Buffered(t, m)
    BY <1>3, <1>6 DEF Buffered
  <2>3. \A t \in Sub, m \in 1..MaxMessages : Held(t, m)' => Held(t, m) \/ (t = s /\ m = n)
    BY <1>3 DEF Held
  <2> QED BY <2>1, <2>2, <2>3
<1>8. \A t \in Sub : \A i, j \in DOMAIN sub'[t].buf : sub'[t].buf[i] = sub'[t].buf[j] => i = j
  <2>1. \A i, j \in DOMAIN sub'[s].buf : sub'[s].buf[i] = sub'[s].buf[j] => i = j
    BY <1>4, <1>5
  <2> QED BY <1>3, <2>1 DEF DeliveryInv, OnePlace
<1>9. OnePlace'
  BY <1>6, <1>7, <1>8 DEF DeliveryInv, OnePlace
<1>10. \A t \in Sub, m \in 1..MaxMessages :
         OnItsWay(t, m)' => OnItsWay(t, m) /\ sub'[t].conn = sub[t].conn
  BY <1>3, <1>6, <1>7 DEF OnItsWay
<1> QED BY <1>1, <1>2, <1>9, <1>10, NothingNew DEF DeliveryInv

\* The sender has written the message it held.
LEMMA DeliverDelivery ==
  ASSUME DeliveryInv, PubSubInv, NEW s \in Sub, Deliver(s)
  PROVE  DeliveryInv'
<1>0. PICK n, c : n = sub[s].inHand /\ c = sub[s].conn
  OBVIOUS
<1>1. /\ sub[s].sender = "writing" /\ c \in open
      /\ sub' = [sub EXCEPT ![s] = [sub[s] EXCEPT !.sender = "waiting", !.inHand = NoMessage]]
      /\ received' = [received EXCEPT ![c] = Append(received[c], n)]
      /\ UNCHANGED <<message, published, audience, publishing>>
  BY <1>0 DEF Deliver
<1>2. /\ sub \in [Sub -> SubType] /\ c \in Conn /\ n \in 1..MaxMessages
      /\ received \in [Conn -> Seq(1..MaxMessages)]
  BY <1>0, <1>1 DEF PubSubInv, TypeOK, Writing
<1>3. /\ sub'[s].buf = sub[s].buf /\ sub'[s].conn = sub[s].conn /\ sub'[s].sender = "waiting"
      /\ \A t \in Sub \ {s} : sub'[t] = sub[t]
  BY <1>1, <1>2 DEF SubType
<1>4. Held(s, n) /\ OnItsWay(s, n)
  BY <1>0, <1>1 DEF Held, OnItsWay
<1>5. /\ n <= published /\ c \in audience[n] /\ ~Got(c, n)
      /\ \A t \in Sub : OnItsWay(t, n) /\ sub[t].conn = c => t = s
  BY <1>0, <1>2, <1>4 DEF DeliveryInv, OneCarrier
<1>6. \A t \in Sub, m \in 1..MaxMessages :
        /\ Due(t, m)' <=> Due(t, m)
        /\ Buffered(t, m)' <=> Buffered(t, m)
        /\ Held(t, m)' => Held(t, m) /\ t # s
  BY <1>1, <1>3 DEF Due, Buffered, Held
<1>7. ~OnItsWay(s, n)'
  BY <1>2, <1>4, <1>6 DEF DeliveryInv, OnePlace, OnItsWay
<1>8. OnePlace'
  <2>1. \A t \in Sub : \A i, j \in DOMAIN sub'[t].buf : sub'[t].buf[i] = sub'[t].buf[j] => i = j
    BY <1>3 DEF DeliveryInv, OnePlace
  <2> QED BY <1>6, <2>1 DEF DeliveryInv, OnePlace
<1>9. /\ \A d \in Conn \ {c} : received'[d] = received[d]
      /\ received'[c] = Append(received[c], n) /\ received[c] \in Seq(1..MaxMessages)
  BY <1>1, <1>2
<1>10. \A d \in Conn, m \in 1..MaxMessages : Got(d, m)' => Got(d, m) \/ (d = c /\ m = n)
  <2>1. \A i \in DOMAIN received'[c] : received'[c][i] = n \/ \E j \in DOMAIN received[c] : received'[c][i] = received[c][j]
    BY <1>2, <1>9
  <2> QED BY <1>9, <2>1 DEF Got
<1>11. OneCarrier'
  <2> SUFFICES ASSUME NEW t \in Sub, NEW m \in 1..MaxMessages, OnItsWay(t, m)'
               PROVE  /\ m <= published /\ sub'[t].conn \in audience[m]
                      /\ ~Got(sub[t].conn, m)'
                      /\ \A u \in Sub : OnItsWay(u, m)' /\ sub'[u].conn = sub'[t].conn => u = t
    BY <1>1 DEF OneCarrier
  <2>1. \A u \in Sub : sub'[u].conn = sub[u].conn /\ (OnItsWay(u, m)' => OnItsWay(u, m))
    BY <1>3, <1>6 DEF OnItsWay
  <2>2. /\ m <= published /\ sub[t].conn \in audience[m] /\ ~Got(sub[t].conn, m)
        /\ \A u \in Sub : OnItsWay(u, m) /\ sub[u].conn = sub[t].conn => u = t
    BY <2>1 DEF DeliveryInv, OneCarrier
  <2>3. sub[t].conn \in Conn
    BY <2>2 DEF PubSubInv, TypeOK
  <2>4. PICK d : d = sub[t].conn
    OBVIOUS
  <2>5. ~Got(d, m)'
    <3>1. ~(d = c /\ m = n)
      BY <1>5, <1>7, <2>1, <2>4
    <3> QED BY <1>10, <2>2, <2>3, <2>4, <3>1
  <2>6. ~Got(sub[t].conn, m)'
    BY <2>1, <2>4, <2>5 DEF Got
  <2> QED BY <2>1, <2>2, <2>6
<1>12. OwnMessage' /\ ReceivedIsPublished' /\ DeliveredOnceToAudience'
  <2>1. OwnMessage'
    BY <1>1 DEF DeliveryInv, OwnMessage
  <2>2. \A i \in DOMAIN received[c] : received[c][i] # n
    BY <1>5 DEF Got
  <2>3. /\ \A i \in DOMAIN received[c] : received[c][i] <= published /\ c \in audience[received[c][i]]
        /\ \A i, j \in DOMAIN received[c] : received[c][i] = received[c][j] => i = j
    BY <1>2 DEF DeliveryInv, ReceivedIsPublished, DeliveredOnceToAudience
  <2>4. /\ DOMAIN received'[c] = DOMAIN received[c] \cup {Len(received[c]) + 1}
        /\ \A i \in DOMAIN received[c] : received'[c][i] = received[c][i]
        /\ received'[c][Len(received[c]) + 1] = n
    BY <1>2, <1>9
  <2>5. /\ \A i \in DOMAIN received'[c] : received'[c][i] <= published /\ c \in audience[received'[c][i]]
        /\ \A i, j \in DOMAIN received'[c] : received'[c][i] = received'[c][j] => i = j
    BY <1>5, <2>2, <2>3, <2>4
  <2>6. ReceivedIsPublished'
    BY <1>1, <1>9, <2>5 DEF DeliveryInv, ReceivedIsPublished
  <2>7. DeliveredOnceToAudience'
    BY <1>1, <1>9, <2>5 DEF DeliveryInv, DeliveredOnceToAudience
  <2> QED BY <2>1, <2>6, <2>7
<1> QED BY <1>8, <1>11, <1>12 DEF DeliveryInv

\* The sender returns, with or without losing the message in its hand.
LEMMA ExitDelivery ==
  ASSUME DeliveryInv, PubSubInv, NEW s \in Sub, DeliverFails(s) \/ SenderStops(s)
  PROVE  DeliveryInv'
<1>1. UNCHANGED <<message, published, audience, received, publishing>>
  BY DEF DeliverFails, SenderStops
<1>2. sub \in [Sub -> SubType] /\ published \in Nat
  BY BufferAssumption DEF PubSubInv, TypeOK
<1>3. /\ sub'[s].buf = sub[s].buf /\ sub'[s].conn = sub[s].conn /\ sub'[s].sender = "exited"
      /\ \A t \in Sub \ {s} : sub'[t] = sub[t]
  BY <1>2 DEF DeliverFails, SenderStops, SubType
<1>4. \A t \in Sub, m \in 1..MaxMessages :
        /\ Due(t, m)' <=> Due(t, m)
        /\ Buffered(t, m)' <=> Buffered(t, m)
        /\ Held(t, m)' => Held(t, m)
  BY <1>1, <1>3 DEF Due, Buffered, Held
<1>5. OnePlace'
  <2>1. \A t \in Sub : \A i, j \in DOMAIN sub'[t].buf : sub'[t].buf[i] = sub'[t].buf[j] => i = j
    BY <1>3 DEF DeliveryInv, OnePlace
  <2> QED BY <1>4, <2>1 DEF DeliveryInv, OnePlace
<1>6. \A t \in Sub, m \in 1..MaxMessages :
        OnItsWay(t, m)' => OnItsWay(t, m) /\ sub'[t].conn = sub[t].conn
  BY <1>3, <1>4 DEF OnItsWay
<1> QED BY <1>1, <1>2, <1>5, <1>6, NothingNew DEF DeliveryInv

\* Every step keeps track of every copy of every message.
LEMMA DeliveryStep == PubSubInv /\ DeliveryInv /\ [Next]_vars => DeliveryInv'
<1> SUFFICES ASSUME PubSubInv, DeliveryInv, [Next]_vars PROVE DeliveryInv'
  OBVIOUS
<1>1. ASSUME NEW c \in Conn, PublishEnd(c) PROVE DeliveryInv'
  <2>1. /\ UNCHANGED <<sub, published, audience, received, publishing>> /\ publishing[c] = {}
        /\ message' = [message EXCEPT ![c] = NoMessage]
    BY <1>1 DEF PublishEnd
  <2>2. published \in Nat /\ message \in [Conn -> 0..MaxMessages]
    BY BufferAssumption DEF PubSubInv, TypeOK
  <2>3. \A s \in Sub, m \in 1..MaxMessages :
          /\ Due(s, m)' => Due(s, m)
          /\ Buffered(s, m)' <=> Buffered(s, m)
          /\ Held(s, m)' <=> Held(s, m)
    BY <2>1, <2>2 DEF Due, Buffered, Held
  <2>4. OnePlace'
    BY <2>1, <2>3 DEF DeliveryInv, OnePlace
  <2>5. \A s \in Sub, m \in 1..MaxMessages :
          OnItsWay(s, m)' => OnItsWay(s, m) /\ sub'[s].conn = sub[s].conn
    BY <2>1, <2>3 DEF OnItsWay
  <2>6. \A d \in Conn : message'[d] \in {message[d], NoMessage}
    BY <2>1, <2>2
  <2> QED BY <2>1, <2>2, <2>4, <2>5, <2>6, NothingNew DEF DeliveryInv
<1>2. CASE UNCHANGED vars
  BY <1>2, NoTraffic DEF vars
<1>3. ASSUME NEW c \in Conn, Handler(c) PROVE DeliveryInv'
  BY <1>1, <1>3, ConnectionDelivery, PublishStartDelivery, PublishToDelivery DEF Handler
<1>4. ASSUME NEW s \in Sub, Sender(s) PROVE DeliveryInv'
  BY <1>4, TakeDelivery, DeliverDelivery, ExitDelivery DEF Sender
<1> QED BY <1>2, <1>3, <1>4, ConnectionDelivery DEF Next

\* A connection gets a message at most once and only if it was subscribed when the
\* message was published, also while the goroutines of two of its subscriptions
\* are sending to it.
THEOREM DeliveredOnce == Spec => []DeliveredOnceToAudience
<1>1. Init => DeliveryInv
  <2> SUFFICES ASSUME Init PROVE DeliveryInv
    OBVIOUS
  <2>1. \A s \in Sub : sub[s].buf = <<>> /\ sub[s].sender = "unused"
    BY DEF Init, Unused
  <2>2. \A c \in Conn : publishing[c] = {} /\ received[c] = <<>> /\ message[c] = 0
    BY DEF Init, NoMessage
  <2>3. \A s \in Sub, m \in 1..MaxMessages : ~Buffered(s, m) /\ ~Held(s, m) /\ ~Due(s, m)
    BY <2>1, <2>2 DEF Buffered, Held, Due
  <2>4. OnePlace /\ OneCarrier
    BY <2>1, <2>3 DEF OnePlace, OneCarrier, OnItsWay
  <2>5. OwnMessage /\ ReceivedIsPublished /\ DeliveredOnceToAudience
    BY <2>2 DEF Init, OwnMessage, ReceivedIsPublished, DeliveredOnceToAudience, NoMessage
  <2> QED BY <2>4, <2>5 DEF DeliveryInv
<1>2. DeliveryInv => DeliveredOnceToAudience
  BY DEF DeliveryInv
<1> QED BY <1>1, <1>2, DeliveryStep, PubSubAlways, PTL DEF Spec
================================================================================
