---------------------------------- MODULE Node ----------------------------------
(***************************************************************************)
(* One server process (internal/server): the accept loop and Stop           *)
(* (server.go), the connection handlers on their way to the cache           *)
(* (handler.go), and NodeState (state.go), whose role and leader a          *)
(* promotion changes under their feet (replication/follower.go).            *)
(*                                                                          *)
(* Abstractions.  A command is a write, a read or an EXEC, of a key of this *)
(* node's shard or of another, an EXEC of at least one write; what it does  *)
(* to the cache is in Cache and Transactions.  A getter of NodeState locks, *)
(* reads and unlocks in one step; ShouldForwardRequest, which locks twice,  *)
(* takes two.  Of the followers only matters whether one takes no more      *)
(* bytes, so that a Write to it waits; who then waits for whom inside the   *)
(* leader is in Heartbeats.                                                 *)
(***************************************************************************)
EXTENDS FiniteSets

CONSTANT Handler   \* the connections, one handler each

NoHandler == "no handler"

ASSUME HandlerAssumption == NoHandler \notin Handler

VARIABLES
  cluster,     \* StartClusterMode, else Server.Start; the former has no Stop
  configured,  \* the configured role
  role,        \* ns.role
  leader,      \* ns.leader is set
  writer,      \* ns.mu.Lock has been called and waits for the readers
  replPort,    \* the replication listener is open
  stalled,     \* a follower takes no more bytes: Writes to it wait
  promotion,   \* where startElection is, after it decided to promote
  listener,    \* "none", "open" or "closed"
  loop,        \* the accept loop: "starting", "accepting" or "ended"
  accepted,    \* the connection between Accept and activeConns
  activeConns,
  open,        \* the connections that are open
  pc,          \* [Handler -> where the handler is]
  request,     \* [Handler -> the last command]
  aof,         \* the log is open
  stop,        \* where Stop is
  \* History, not code:
  early,       \* Stop began before the accept loop
  late         \* connections registered after Stop had closed activeConns

vars == <<cluster, configured, role, leader, writer, replPort, stalled, promotion, listener, loop, accepted,
          activeConns, open, pc, request, aof, stop, early, late>>

\* leader: what GetLeader returned.  The rest is history: whether ns.leader was
\* set when the command came in, how it ended, and whether it was logged.
Request == [kind : {"none", "write", "read", "exec"}, own : BOOLEAN, leader : BOOLEAN,
            led : BOOLEAN, outcome : {"none", "moved", "readonly", "served"}, logged : BOOLEAN]

NoRequest == [kind |-> "none", own |-> TRUE, leader |-> FALSE,
              led |-> FALSE, outcome |-> "none", logged |-> FALSE]

Init ==
  /\ cluster \in BOOLEAN
  /\ configured \in {"leader", "follower"}
  /\ role = configured
  /\ leader = (configured = "leader")
  /\ replPort = leader
  /\ stalled = FALSE
  /\ writer = FALSE
  /\ promotion = "none"
  /\ listener = "none" /\ loop = "starting" /\ accepted = NoHandler
  /\ activeConns = {} /\ open = {}
  /\ pc = [h \in Handler |-> "none"]
  /\ request = [h \in Handler |-> NoRequest]
  /\ aof = TRUE
  /\ stop = "none" /\ early = FALSE /\ late = {}

--------------------------------------------------------------------------------
\* NodeState.mu, a sync.RWMutex: who calls RLock waits while a writer does.

Readers == {h \in Handler : pc[h] = "nested"}
MayRLock == ~writer

--------------------------------------------------------------------------------
\* The accept loop.

Listen ==
  /\ loop = "starting"
  /\ listener' = "open"
  /\ loop' = "accepting"
  /\ UNCHANGED <<cluster, configured, role, leader, writer, replPort, stalled, promotion, accepted,
                 activeConns, open, pc, request, aof, stop, early, late>>

Accept(h) ==
  /\ loop = "accepting" /\ listener = "open" /\ accepted = NoHandler
  /\ pc[h] = "none"
  /\ accepted' = h
  /\ open' = open \cup {h}
  /\ UNCHANGED <<cluster, configured, role, leader, writer, replPort, stalled, promotion, listener, loop,
                 activeConns, pc, request, aof, stop, early, late>>

\* The connection is entered in activeConns and gets its goroutine.
Register ==
  /\ accepted # NoHandler
  /\ accepted' = NoHandler
  /\ activeConns' = activeConns \cup {accepted}
  /\ pc' = [pc EXCEPT ![accepted] = "reading"]
  /\ late' = IF stop = "waiting" THEN late \cup {accepted} ELSE late
  /\ UNCHANGED <<cluster, configured, role, leader, writer, replPort, stalled, promotion, listener, loop,
                 open, request, aof, stop, early>>

\* Accept fails and the context has been cancelled.
AcceptFails ==
  /\ loop = "accepting" /\ listener = "closed" /\ accepted = NoHandler
  /\ loop' = "ended"
  /\ UNCHANGED <<cluster, configured, role, leader, writer, replPort, stalled, promotion, listener, accepted,
                 activeConns, open, pc, request, aof, stop, early, late>>

--------------------------------------------------------------------------------
\* handleConnection.

\* Everything of the process but one handler stays as it is.
OnlyHandler ==
  UNCHANGED <<cluster, configured, role, leader, writer, replPort, stalled, promotion, listener, loop,
              accepted, aof, stop, early, late>>

\* A command comes in; in cluster mode one that has a key is routed.
Receive(h, kind, own) ==
  /\ pc[h] = "reading" /\ h \in open
  /\ (cluster /\ kind # "exec") \/ own
  /\ MayRLock
  /\ pc' = [pc EXCEPT ![h] = IF cluster /\ kind # "exec" THEN "routing" ELSE "local"]
  /\ request' = [request EXCEPT ![h] = [NoRequest EXCEPT !.kind = kind, !.own = own, !.led = leader]]
  /\ UNCHANGED <<activeConns, open>>
  /\ OnlyHandler

\* ShouldForwardRequest locks for reading ...
ShouldForward(h) ==
  /\ pc[h] = "routing" /\ MayRLock
  /\ pc' = [pc EXCEPT ![h] = "nested"]
  /\ UNCHANGED <<activeConns, open, request>>
  /\ OnlyHandler

\* A write goes to the leader the configuration names, whoever leads now.
Forwards(r) == ~r.own \/ (r.kind = "write" /\ configured # "leader")

\* ... and calls IsClusterMode, which locks for reading again.
Route(h) ==
  /\ pc[h] = "nested" /\ MayRLock
  /\ \/ /\ Forwards(request[h])
        /\ request' = [request EXCEPT ![h].outcome = "moved"]
        /\ pc' = [pc EXCEPT ![h] = "reading"]
     \/ /\ ~Forwards(request[h])
        /\ pc' = [pc EXCEPT ![h] = "local"]
        /\ UNCHANGED request
  /\ UNCHANGED <<activeConns, open>>
  /\ OnlyHandler

\* A plausible bug: the leader is looked up once per connection.
CurrentLeaderOnce(h) == configured = "leader"

CurrentLeader(h) == leader

GetLeader(h) ==
  /\ pc[h] = "local" /\ request[h].kind # "read" /\ MayRLock
  /\ request' = [request EXCEPT ![h].leader = CurrentLeader(h)]
  /\ pc' = [pc EXCEPT ![h] = IF request[h].kind = "exec" THEN "apply" ELSE "role"]
  /\ UNCHANGED <<activeConns, open>>
  /\ OnlyHandler

\* handleSet and handleDelete reject a write on a follower; handleExec does not.
GetRole(h) ==
  /\ pc[h] = "role" /\ MayRLock
  /\ \/ /\ role = "follower"
        /\ request' = [request EXCEPT ![h].outcome = "readonly"]
        /\ pc' = [pc EXCEPT ![h] = "reading"]
     \/ /\ role # "follower"
        /\ pc' = [pc EXCEPT ![h] = "apply"]
        /\ UNCHANGED request
  /\ UNCHANGED <<activeConns, open>>
  /\ OnlyHandler

\* The cache, the followers if there is a leader, the log, and the reply.
\* Replicate's Writes have no deadline; the error of an append to a closed log
\* is not told to the client.
Apply(h) ==
  /\ pc[h] = "apply"
  /\ request[h].leader => ~stalled
  /\ request' = [request EXCEPT ![h].outcome = "served", ![h].logged = aof]
  /\ pc' = [pc EXCEPT ![h] = "reading"]
  /\ UNCHANGED <<activeConns, open>>
  /\ OnlyHandler

Get(h) ==
  /\ pc[h] = "local" /\ request[h].kind = "read"
  /\ request' = [request EXCEPT ![h].outcome = "served"]
  /\ pc' = [pc EXCEPT ![h] = "reading"]
  /\ UNCHANGED <<activeConns, open>>
  /\ OnlyHandler

\* A plausible bug: the connection stays registered.
UnregisterNever(h) == activeConns

Unregister(h) == activeConns \ {h}

\* The read fails: the handler returns and the connection is unregistered.
HandlerReturns(h) ==
  /\ pc[h] = "reading" /\ h \notin open
  /\ pc' = [pc EXCEPT ![h] = "done"]
  /\ activeConns' = Unregister(h)
  /\ UNCHANGED <<open, request>>
  /\ OnlyHandler

ClientCloses(h) ==
  /\ h \in open
  /\ open' = open \ {h}
  /\ UNCHANGED <<activeConns, pc, request>>
  /\ OnlyHandler

--------------------------------------------------------------------------------
\* The promotion of a follower.

OnlyPromotion ==
  UNCHANGED <<cluster, configured, listener, loop, accepted, activeConns, open, pc, request, aof,
              stop, early, late>>

\* NewLeader.  Stop does not keep a monitor from starting an election.
Promote ==
  /\ configured = "follower" /\ promotion = "none"
  /\ replPort' = TRUE
  /\ promotion' = "SetRole"
  /\ UNCHANGED <<role, leader, writer, stalled>>
  /\ OnlyPromotion

\* Lock, first half: from here on nobody may start to read.
Lock ==
  /\ promotion \in {"SetRole", "SetLeader"} /\ ~writer
  /\ writer' = TRUE
  /\ UNCHANGED <<role, leader, replPort, stalled, promotion>>
  /\ OnlyPromotion

\* A plausible bug: the lock is not released.
UnlockNever == TRUE

Unlock == FALSE

SetRole ==
  /\ promotion = "SetRole" /\ writer /\ Readers = {}
  /\ role' = "leader"
  /\ writer' = Unlock
  /\ promotion' = "SetLeader"
  /\ UNCHANGED <<leader, replPort, stalled>>
  /\ OnlyPromotion

SetLeader ==
  /\ promotion = "SetLeader" /\ writer /\ Readers = {}
  /\ leader' = TRUE
  /\ writer' = Unlock
  /\ promotion' = "done"
  /\ UNCHANGED <<role, replPort, stalled>>
  /\ OnlyPromotion

--------------------------------------------------------------------------------
\* Stop.

\* Cancel and, in the Close of the leader this server was started with, close
\* the replication listener.
StopBegins ==
  /\ ~cluster /\ stop = "none"
  /\ stop' = "leader"
  /\ replPort' = (replPort /\ configured # "leader")
  /\ UNCHANGED <<cluster, configured, role, leader, writer, stalled, promotion, listener, loop,
                 accepted, activeConns, open, pc, request, aof, early, late>>

\* l.wg.Wait: sendHeartbeats may be inside a Write.  A leader by promotion is
\* not s.leader, and is not closed.
LeaderEnded == configured = "leader" => ~stalled

\* The leader's Close has returned and the client listener is closed.
CloseListener ==
  /\ stop = "leader" /\ LeaderEnded
  /\ stop' = "closing"
  /\ early' = (loop = "starting")
  /\ listener' = IF listener = "open" THEN "closed" ELSE listener
  /\ UNCHANGED <<cluster, configured, role, leader, writer, replPort, stalled, promotion, loop,
                 accepted, activeConns, open, pc, request, aof, late>>

\* A plausible bug: the connections are left alone.
ClosedByStopNone == {}

ClosedByStop == activeConns

CloseConns ==
  /\ stop = "closing"
  /\ open' = open \ ClosedByStop
  /\ stop' = "waiting"
  /\ UNCHANGED <<cluster, configured, role, leader, writer, replPort, stalled, promotion, listener, loop,
                 accepted, activeConns, pc, request, aof, early, late>>

\* A plausible bug: the accept loop does not count itself in s.wg.
WaitForHandlers == \A h \in Handler : pc[h] \in {"none", "done"}

\* s.wg counts the accept loop and the handlers.
WaitGroupIsZero ==
  /\ loop # "accepting"
  /\ \A h \in Handler : pc[h] \in {"none", "done"}

\* wg.Wait returns and the log is closed.
StopReturns ==
  /\ stop = "waiting" /\ WaitGroupIsZero
  /\ aof' = FALSE
  /\ stop' = "returned"
  /\ UNCHANGED <<cluster, configured, role, leader, writer, replPort, stalled, promotion, listener, loop,
                 accepted, activeConns, open, pc, request, early, late>>

--------------------------------------------------------------------------------
\* The followers.

OnlyFollowers ==
  UNCHANGED <<cluster, configured, role, leader, writer, replPort, promotion, listener, loop,
              accepted, activeConns, open, pc, request, aof, stop, early, late>>

\* The buffers towards a follower that does not read are full.
FollowerStalls ==
  /\ leader /\ ~stalled
  /\ stalled' = TRUE
  /\ OnlyFollowers

\* It reads again, or its connection is gone.
FollowerReads ==
  /\ stalled
  /\ stalled' = FALSE
  /\ OnlyFollowers

--------------------------------------------------------------------------------
HandlerStep(h) ==
  ShouldForward(h) \/ Route(h) \/ GetLeader(h) \/ GetRole(h) \/ Apply(h) \/ Get(h) \/ HandlerReturns(h)

LoopStep == Listen \/ Register \/ AcceptFails
PromotionStep == Lock \/ SetRole \/ SetLeader
StopStep == CloseListener \/ CloseConns \/ StopReturns

Next ==
  \/ LoopStep \/ PromotionStep \/ StopStep \/ Promote \/ StopBegins
  \/ FollowerStalls \/ FollowerReads
  \/ \E h \in Handler :
       \/ Accept(h) \/ HandlerStep(h) \/ ClientCloses(h)
       \/ \E kind \in {"write", "read", "exec"}, own \in BOOLEAN : Receive(h, kind, own)

Spec == Init /\ [][Next]_vars

\* Goroutines are scheduled and sync.RWMutex starves nobody; clients need not
\* send, receive or leave, and a follower need not read again.
FairSpec ==
  /\ Spec
  /\ WF_vars(LoopStep) /\ WF_vars(PromotionStep) /\ WF_vars(StopStep)
  /\ \A h \in Handler : WF_vars(HandlerStep(h))

--------------------------------------------------------------------------------
TypeOK ==
  /\ {cluster, leader, writer, replPort, stalled, aof, early} \subseteq BOOLEAN
  /\ {configured, role} \subseteq {"leader", "follower"}
  /\ promotion \in {"none", "SetRole", "SetLeader", "done"}
  /\ listener \in {"none", "open", "closed"}
  /\ loop \in {"starting", "accepting", "ended"}
  /\ accepted \in Handler \cup {NoHandler}
  /\ activeConns \subseteq Handler /\ open \subseteq Handler /\ late \subseteq Handler
  /\ pc \in [Handler -> {"none", "reading", "routing", "nested", "local", "role", "apply", "done"}]
  /\ request \in [Handler -> Request]
  /\ stop \in {"none", "leader", "closing", "waiting", "returned"}
  /\ \A h \in Handler : h \in activeConns <=> pc[h] \notin {"none", "done"}

\* A write or EXEC that comes in once the promotion is over is served and sent
\* to the followers, though SetRole and SetLeader are two steps and the handler
\* reads the two fields at different times (handler.go:232, 812); but a member
\* of a cluster goes on sending writes to the leader its configuration names
\* (state.go:72).
LeaderServesWrites ==
  \A h \in Handler :
    LET r == request[h] IN
    r.led /\ r.own /\ r.kind \in {"write", "exec"} /\ r.outcome # "none" =>
       \/ r.outcome = "served" /\ r.leader
       \/ r.outcome = "moved" /\ cluster /\ configured = "follower"

\* Whatever is acknowledged has been appended to the log: Stop closes the log
\* after the last handler has returned, a connection it overlooked included
\* (server.go:248), unless it is called before the accept loop is entered.
AcknowledgedIsLogged ==
  \A h \in Handler :
    request[h].kind \in {"write", "exec"} /\ request[h].outcome = "served" =>
       request[h].logged \/ early

\* A reader inside ShouldForwardRequest waits for the writer, and the writer
\* for the reader.
NestedReadBlocked == writer /\ Readers # {}

Busy(h) == pc[h] \in {"routing", "nested", "local", "role", "apply"}

\* A handler in a command and a promotion under way always come to an end,
\* unless a promotion asks for the lock between the two reads of
\* ShouldForwardRequest, which happens in cluster mode only (state.go:37-42); a
\* handler also waits in Replicate for a follower that has stopped reading
\* (leader.go:286), a promotion never does.
BlockedOnlyByNestedRead ==
  /\ []<>(~writer \/ (NestedReadBlocked /\ cluster))
  /\ \A h \in Handler : []<>(~Busy(h) \/ (NestedReadBlocked /\ cluster) \/ stalled)

\* Stop returns, unless it is called before there is a listener to close; or a
\* connection that was accepted before Stop is registered after it has closed
\* the registered ones, and its client stays (server.go:199, 242); or a follower
\* has stopped reading: then the leader's Close waits for sendHeartbeats, before
\* the client listener is closed (server.go:231, leader.go:107), or wg.Wait for a
\* handler inside Replicate (server.go:248).
StopCompletes ==
  stop \notin {"none", "returned"} ~>
    (stop = "returned" \/ early \/ late \cap open # {} \/ stalled)
================================================================================
