---------------------------------- MODULE PubSub --------------------------------
(***************************************************************************)
(* internal/pubsub/pubsub.go with its callers in internal/server/handler.go *)
(* (handleSubscribe, handleUnsubscribe, handlePublish, and the deferred     *)
(* RemoveConnection of handleConnection).                                   *)
(*                                                                          *)
(* Three kinds of goroutine meet here: one handler per connection, one      *)
(* sendMessages per Subscriber object, and any number of handlers inside    *)
(* Publish at once, which holds mu for reading while it loops over the      *)
(* subscribers.  Subscribe, Unsubscribe and RemoveConnection hold it for    *)
(* writing.  A connection that leaves its last channel and subscribes again *)
(* gets a new Subscriber while the goroutine of the old one may still be    *)
(* sending.                                                                 *)
(***************************************************************************)
EXTENDS Naturals, Sequences, FiniteSets, Functions

CONSTANTS Conn, Channel,
          Sub,          \* Subscriber objects that can be allocated
          BufferSize,   \* capacity of the messages channel, 100 in the code
          MaxMessages   \* bound on PUBLISH calls, for TLC

ASSUME BufferAssumption == BufferSize \in Nat \ {0} /\ MaxMessages \in Nat

VARIABLES
  connectionToSubscriber,   \* partial function Conn -> Sub
  subscribers,              \* [Channel -> partial function Conn -> Sub]
  subscriptions,            \* partial function Conn -> SUBSET Channel
  sub,        \* [Sub -> [conn, buf, closed, sender, inHand]]
  open,       \* connections whose handler is running
  gone,       \* connections whose client has hung up
  subscriberMode,
  publishing, \* [Conn -> the subscribers its Publish has still to serve]
  message,    \* [Conn -> the message it is publishing]
  published,  \* number of PUBLISH calls so far: message m is the m-th
  panicked,   \* a goroutine closed a closed channel or sent on one
  \* History, not code:
  audience,   \* [1..MaxMessages -> the subscribers when it was published]
  received,   \* [Conn -> sequence of messages written to it]
  malformed   \* connections with a command that ended early, see EndedEarly

maps == <<connectionToSubscriber, subscribers, subscriptions>>
vars == <<maps, sub, open, gone, subscriberMode, publishing, message, published,
          panicked, audience, received, malformed>>

NoConn == "none"
NoMessage == 0

\* close(messages) and close(done) come together; sendMessages may leave on
\* either, with or without draining the buffer first.
Unused ==
  [conn |-> NoConn, buf |-> <<>>, closed |-> FALSE, sender |-> "unused",
   inHand |-> NoMessage]

NoMap == [c \in {} |-> NoConn]

\* m with x mapped to y.
Put(m, x, y) == [z \in DOMAIN m \cup {x} |-> IF z = x THEN y ELSE m[z]]
Remove(m, x) == Restrict(m, DOMAIN m \ {x})

Init ==
  /\ connectionToSubscriber = NoMap
  /\ subscribers = [ch \in Channel |-> NoMap]
  /\ subscriptions = NoMap
  /\ sub = [s \in Sub |-> Unused]
  /\ open = Conn /\ gone = {}
  /\ subscriberMode = [c \in Conn |-> FALSE]
  /\ publishing = [c \in Conn |-> {}]
  /\ message = [c \in Conn |-> NoMessage]
  /\ published = 0
  /\ panicked = FALSE
  /\ audience = [m \in 1..MaxMessages |-> {}]
  /\ received = [c \in Conn |-> <<>>]
  /\ malformed = {}

\* A plausible bug: Publish does not hold mu while it loops.
ExclusiveOfWriters(c) == c \in open /\ message[c] = NoMessage

\* mu is free for a writer; the handler of c is not inside Publish.
Exclusive(c) == c \in open /\ \A d \in Conn : message[d] = NoMessage

--------------------------------------------------------------------------------
\* Subscribe, called by handleSubscribe for each channel.  After the last one
\* it enters subscriber mode, unless an argument that is no string has made it
\* return early.  A command with several channels is as many actions.

\* History: has a command of c ended early, and its mode not been set since?
EndedEarly(c, b) == IF b THEN malformed \cup {c} ELSE malformed \ {c}

ModeOnSubscribe(c, ok) == subscriberMode[c] \/ ok

SubscribeNew(c, ch, s, ok) ==
  /\ Exclusive(c) /\ c \notin DOMAIN connectionToSubscriber
  /\ sub[s].sender = "unused"
  /\ sub' = [sub EXCEPT ![s] = [Unused EXCEPT !.conn = c, !.sender = "waiting"]]
  /\ connectionToSubscriber' = Put(connectionToSubscriber, c, s)
  /\ subscriptions' = Put(subscriptions, c, {ch})
  /\ subscribers' = [subscribers EXCEPT ![ch] = Put(@, c, s)]
  /\ subscriberMode' = [subscriberMode EXCEPT ![c] = ModeOnSubscribe(c, ok)]
  /\ malformed' = EndedEarly(c, ~ok)
  /\ UNCHANGED <<open, gone, publishing, message, published, panicked, audience, received>>

SubscribeMore(c, ch, ok) ==
  /\ Exclusive(c) /\ c \in DOMAIN connectionToSubscriber
  /\ IF ch \in subscriptions[c]
     THEN UNCHANGED <<subscriptions, subscribers>>
     ELSE /\ subscriptions' = [subscriptions EXCEPT ![c] = @ \cup {ch}]
          /\ subscribers' =
               [subscribers EXCEPT ![ch] = Put(@, c, connectionToSubscriber[c])]
  /\ subscriberMode' = [subscriberMode EXCEPT ![c] = ModeOnSubscribe(c, ok)]
  /\ malformed' = EndedEarly(c, ~ok)
  /\ UNCHANGED <<connectionToSubscriber, sub, open, gone, publishing, message,
                 published, panicked, audience, received>>

Subscribe(c, ch, ok) ==
  SubscribeMore(c, ch, ok) \/ \E s \in Sub : SubscribeNew(c, ch, s, ok)

\* A plausible bug: the maps forget the subscriber, whose channels stay open.
ForgetSubscriber(c) ==
  /\ subscriptions' = Remove(subscriptions, c)
  /\ connectionToSubscriber' = Remove(connectionToSubscriber, c)
  /\ UNCHANGED <<sub, panicked>>

\* cleanupConnection, and the same lines of RemoveConnection: closing a closed
\* channel panics.
CloseSubscriber(c) ==
  LET s == connectionToSubscriber[c] IN
  /\ sub' = [sub EXCEPT ![s].closed = TRUE]
  /\ panicked' = (panicked \/ sub[s].closed)
  /\ subscriptions' = Remove(subscriptions, c)
  /\ connectionToSubscriber' = Remove(connectionToSubscriber, c)

\* A plausible bug: the subscriber is closed but stays in the channel's set.
LeaveLate(c, chs) == subscribers

\* subscribers without c in each of the channels chs.
Leave(c, chs) ==
  [ch \in Channel |-> IF ch \in chs THEN Remove(subscribers[ch], c)
                                    ELSE subscribers[ch]]

\* A plausible bug: subscriber mode is left whatever channels remain.
ModeAfterAlways(c, rest, ok) == FALSE

\* handleUnsubscribe leaves subscriber mode when no channel remains, unless an
\* argument that is no string has made it return early.
ModeAfter(c, rest, ok) == subscriberMode[c] /\ (rest # {} \/ ~ok)

\* Unsubscribe of one channel.  Not being subscribed is an error that
\* handleUnsubscribe only logs.
Unsubscribe(c, ch, ok) ==
  LET mine == IF c \in DOMAIN subscriptions THEN subscriptions[c] ELSE {}
      rest == mine \ {ch}
  IN
  /\ Exclusive(c)
  /\ IF ch \notin mine
     THEN UNCHANGED <<maps, sub, panicked>>
     ELSE /\ subscribers' = Leave(c, {ch})
          /\ IF rest = {}
             THEN CloseSubscriber(c)
             ELSE /\ subscriptions' = [subscriptions EXCEPT ![c] = rest]
                  /\ UNCHANGED <<connectionToSubscriber, sub, panicked>>
  /\ subscriberMode' = [subscriberMode EXCEPT ![c] = ModeAfter(c, rest, ok)]
  /\ malformed' = EndedEarly(c, ~ok \/ (rest # {} /\ c \in malformed))
  /\ UNCHANGED <<open, gone, publishing, message, published, audience, received>>

ClientGone(c) ==
  /\ c \in open \ gone
  /\ gone' = gone \cup {c}
  /\ UNCHANGED <<maps, sub, open, subscriberMode, publishing, message, published,
                 panicked, audience, received, malformed>>

\* handleConnection returns: RemoveConnection, then conn.Close.
RemoveConnection(c) ==
  /\ Exclusive(c) /\ c \in gone
  /\ IF c \in DOMAIN connectionToSubscriber
     THEN subscribers' = Leave(c, subscriptions[c]) /\ CloseSubscriber(c)
     ELSE UNCHANGED <<maps, sub, panicked>>
  /\ open' = open \ {c}
  /\ UNCHANGED <<gone, subscriberMode, publishing, message, published, audience, received, malformed>>

--------------------------------------------------------------------------------
\* Publish: read-locked from PublishStart to PublishEnd.  handleConnection
\* refuses PUBLISH in subscriber mode.

PublishStart(c, ch) ==
  /\ c \in open /\ ~subscriberMode[c] /\ message[c] = NoMessage
  /\ published < MaxMessages
  /\ published' = published + 1
  /\ message' = [message EXCEPT ![c] = published']
  /\ publishing' = [publishing EXCEPT ![c] = {subscribers[ch][d] : d \in DOMAIN subscribers[ch]}]
  /\ audience' = [audience EXCEPT ![published'] = DOMAIN subscribers[ch]]
  /\ UNCHANGED <<maps, sub, open, gone, subscriberMode, panicked, received, malformed>>

\* A plausible bug: an off-by-one in the capacity.
QueueOneMore(buf, m) == IF Len(buf) <= BufferSize THEN Append(buf, m) ELSE buf

\* A full buffer drops the message.
Queue(buf, m) == IF Len(buf) < BufferSize THEN Append(buf, m) ELSE buf

\* One turn of the loop: a closed channel panics.
PublishTo(c, s) ==
  /\ s \in publishing[c]
  /\ publishing' = [publishing EXCEPT ![c] = @ \ {s}]
  /\ sub' = [sub EXCEPT ![s].buf = Queue(@, message[c])]
  /\ panicked' = (panicked \/ sub[s].closed)
  /\ UNCHANGED <<maps, open, gone, subscriberMode, message, published, audience, received, malformed>>

PublishEnd(c) ==
  /\ message[c] # NoMessage /\ publishing[c] = {}
  /\ message' = [message EXCEPT ![c] = NoMessage]
  /\ UNCHANGED <<maps, sub, open, gone, subscriberMode, publishing, published,
                 panicked, audience, received, malformed>>

--------------------------------------------------------------------------------
\* sendMessages, one goroutine per Subscriber.

\* A plausible bug: the message is read but not taken off the queue.
TakeWithoutRemoving(s) ==
  /\ sub[s].sender = "waiting" /\ sub[s].buf # <<>>
  /\ sub' = [sub EXCEPT ![s].sender = "writing", ![s].inHand = Head(sub[s].buf)]
  /\ UNCHANGED <<maps, open, gone, subscriberMode, publishing, message, published,
                 panicked, audience, received, malformed>>

Take(s) ==
  /\ sub[s].sender = "waiting" /\ sub[s].buf # <<>>
  /\ sub' = [sub EXCEPT ![s].sender = "writing", ![s].inHand = Head(sub[s].buf),
                        ![s].buf = Tail(@)]
  /\ UNCHANGED <<maps, open, gone, subscriberMode, publishing, message, published,
                 panicked, audience, received, malformed>>

Deliver(s) ==
  /\ sub[s].sender = "writing" /\ sub[s].conn \in open
  /\ received' = [received EXCEPT ![sub[s].conn] = Append(@, sub[s].inHand)]
  /\ sub' = [sub EXCEPT ![s].sender = "waiting", ![s].inHand = NoMessage]
  /\ UNCHANGED <<maps, open, gone, subscriberMode, publishing, message, published,
                 panicked, audience, malformed>>

\* A write fails once the client has gone, and always after conn.Close.
DeliverFails(s) ==
  /\ sub[s].sender = "writing" /\ sub[s].conn \in gone
  /\ sub' = [sub EXCEPT ![s].sender = "exited", ![s].inHand = NoMessage]
  /\ UNCHANGED <<maps, open, gone, subscriberMode, publishing, message, published,
                 panicked, audience, received, malformed>>

SenderStops(s) ==
  /\ sub[s].sender = "waiting" /\ sub[s].closed
  /\ sub' = [sub EXCEPT ![s].sender = "exited"]
  /\ UNCHANGED <<maps, open, gone, subscriberMode, publishing, message, published,
                 panicked, audience, received, malformed>>

Handler(c) ==
  \/ \E ch \in Channel, ok \in BOOLEAN : Subscribe(c, ch, ok) \/ Unsubscribe(c, ch, ok)
  \/ \E ch \in Channel : PublishStart(c, ch)
  \/ \E s \in Sub : PublishTo(c, s)
  \/ PublishEnd(c)
  \/ RemoveConnection(c)

Sender(s) == Take(s) \/ Deliver(s) \/ DeliverFails(s) \/ SenderStops(s)

Next ==
  \/ \E c \in Conn : Handler(c) \/ ClientGone(c)
  \/ \E s \in Sub : Sender(s)

Spec == Init /\ [][Next]_vars

--------------------------------------------------------------------------------
SubType ==
  [conn : Conn \cup {NoConn}, buf : Seq(1..MaxMessages), closed : BOOLEAN,
   sender : {"unused", "waiting", "writing", "exited"}, inHand : 0..MaxMessages]

PartialMap(S, T) == UNION {[D -> T] : D \in SUBSET S}

TypeOK ==
  /\ connectionToSubscriber \in PartialMap(Conn, Sub)
  /\ subscribers \in [Channel -> PartialMap(Conn, Sub)]
  /\ subscriptions \in PartialMap(Conn, SUBSET Channel)
  /\ sub \in [Sub -> SubType] /\ \A s \in Sub : Len(sub[s].buf) <= BufferSize
  /\ open \subseteq Conn /\ gone \subseteq Conn
  /\ subscriberMode \in [Conn -> BOOLEAN]
  /\ publishing \in [Conn -> SUBSET Sub]
  /\ message \in [Conn -> 0..MaxMessages] /\ published \in 0..MaxMessages
  /\ panicked \in BOOLEAN
  /\ audience \in [1..MaxMessages -> SUBSET Conn]
  /\ received \in [Conn -> Seq(1..MaxMessages)] /\ malformed \subseteq Conn

(***************************************************************************)
(* The three maps say the same thing: who is subscribed, to what, through   *)
(* which Subscriber.  RemoveConnection has a branch that only runs when     *)
(* they do not, and then leaves the subscriber's goroutine behind.          *)
(***************************************************************************)
MapsAgree ==
  /\ DOMAIN subscriptions = DOMAIN connectionToSubscriber
  /\ \A c \in Conn, ch \in Channel :
       (c \in DOMAIN subscribers[ch]) <=> (c \in DOMAIN subscriptions /\ ch \in subscriptions[c])
  /\ \A ch \in Channel : \A c \in DOMAIN subscribers[ch] :
       subscribers[ch][c] = connectionToSubscriber[c]

(***************************************************************************)
(* No goroutine panics: neither two clean-ups (an UNSUBSCRIBE of the last   *)
(* channel and the end of the connection) close the same subscriber twice,  *)
(* nor does a Publish in progress send on a channel that was closed.        *)
(***************************************************************************)
NoPanic == ~panicked

(***************************************************************************)
(* A connection receives a message at most once, and only if it was         *)
(* subscribed when the message was published, also while the goroutine of   *)
(* an earlier subscription is still draining its buffer beside that of the  *)
(* present one.                                                             *)
(***************************************************************************)
DeliveredOnceToAudience ==
  \A c \in Conn : \A i \in DOMAIN received[c] :
    /\ c \in audience[received[c][i]]
    /\ \A j \in DOMAIN received[c] : received[c][i] = received[c][j] => i = j

(***************************************************************************)
(* docs/api.md:241: subscriber mode begins with SUBSCRIBE and lasts "until   *)
(* the connection unsubscribes from all channels", and no longer.  The      *)
(* exception is a command with an argument that is no string: it returns    *)
(* after its first channels were handled and before the mode is set.        *)
(***************************************************************************)
ModeMatchesSubscriptions ==
  \A c \in open \ malformed : subscriberMode[c] <=> c \in DOMAIN subscriptions

(***************************************************************************)
(* No goroutine is left behind: a sendMessages that is still running is     *)
(* either that of its connection's present subscription or has had its      *)
(* channels closed, on which it returns.  So neither a re-subscription nor  *)
(* the end of a connection leaks one, also when it is blocked in a write.   *)
(***************************************************************************)
NoOrphanSender ==
  \A s \in Sub : sub[s].sender \in {"waiting", "writing"} =>
    \/ sub[s].closed
    \/ /\ sub[s].conn \in open \cap DOMAIN connectionToSubscriber
       /\ connectionToSubscriber[sub[s].conn] = s
================================================================================
