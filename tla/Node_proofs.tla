------------------------------ MODULE Node_proofs -------------------------------
(***************************************************************************)
(* For any number of connections: a node that leads serves the writes it is *)
(* sent, and what it acknowledges it has logged, while a promotion changes  *)
(* role and leader, and Stop closes things, at any moment.                  *)
(*                                                                          *)
(* Neither is inductive.  LeaderServesWrites rests on the order of SetRole  *)
(* and SetLeader (who sees the leader also sees the role), on a command     *)
(* keeping what it saw, and on only a cluster node routing.                 *)
(* AcknowledgedIsLogged rests on Stop closing the log after the accept loop *)
(* and every handler are over, when none can begin.                         *)
(***************************************************************************)
EXTENDS Node, TLAPS

\* Who sees ns.leader set also sees ns.role set.
RoleBeforeLeader ==
  /\ leader => role = "leader"
  /\ promotion = "SetLeader" => role = "leader"

\* What a handler inside a command has seen, and that it has not answered yet.
CommandProgress ==
  \A h \in Handler :
    LET r == request[h] IN
    /\ r.led => leader
    /\ Busy(h) => r.outcome = "none" /\ r.kind # "none"
    /\ pc[h] \in {"routing", "nested"} => cluster
    /\ pc[h] \in {"role", "apply"} => (r.led => r.leader) /\ r.kind # "read"

\* Once Stop has closed the log, nothing is under way and nothing can begin,
\* unless Stop came before the accept loop.
StoppedForGood ==
  /\ loop = "ended" => accepted = NoHandler
  /\ loop = "starting" => accepted = NoHandler
  /\ stop \in {"none", "leader"} => ~early
  /\ stop \notin {"none", "leader"} /\ ~early => loop # "starting"
  /\ ~aof => stop = "returned"
  /\ stop = "returned" /\ ~early =>
       /\ loop = "ended"
       /\ \A h \in Handler : pc[h] \in {"none", "done"}

NodeInv ==
  /\ TypeOK /\ RoleBeforeLeader /\ CommandProgress /\ StoppedForGood
  /\ LeaderServesWrites /\ AcknowledgedIsLogged

--------------------------------------------------------------------------------
\* A node that has just been configured satisfies the invariant.
LEMMA InitNode == Init => NodeInv
<1> SUFFICES ASSUME Init PROVE NodeInv
  OBVIOUS
<1>1. NoRequest \in Request
  BY DEF NoRequest, Request
<1>2. \A h \in Handler : request[h] = NoRequest /\ pc[h] = "none"
  BY DEF Init
<1>3. TypeOK
  BY <1>1, <1>2 DEF Init, TypeOK
<1>4. RoleBeforeLeader /\ CommandProgress /\ StoppedForGood
  BY <1>2 DEF Init, RoleBeforeLeader, CommandProgress, StoppedForGood, Busy, NoRequest
<1>5. LeaderServesWrites /\ AcknowledgedIsLogged
  BY <1>2 DEF LeaderServesWrites, AcknowledgedIsLogged, NoRequest
<1> QED BY <1>3, <1>4, <1>5 DEF NodeInv

\* A step that moves no handler other than into or out of "reading" and answers
\* no request keeps what is said of requests, if role and leader are not unset.
LEMMA ServerStep ==
  ASSUME NodeInv, TypeOK', RoleBeforeLeader', StoppedForGood',
         request' = request, cluster' = cluster, configured' = configured,
         leader => leader', early => early',
         \A h \in Handler : pc'[h] = pc[h] \/ pc'[h] = "reading"
  PROVE  NodeInv'
<1>1. CommandProgress'
  BY DEF NodeInv, CommandProgress, Busy
<1>2. LeaderServesWrites' /\ AcknowledgedIsLogged'
  BY DEF NodeInv, LeaderServesWrites, AcknowledgedIsLogged
<1> QED BY <1>1, <1>2 DEF NodeInv

\* The accept loop: listening, accepting, registering and ending.
LEMMA LoopKeeps ==
  ASSUME NodeInv, LoopStep \/ \E h \in Handler : Accept(h)
  PROVE  NodeInv'
<1>1. TypeOK /\ RoleBeforeLeader /\ StoppedForGood
  BY DEF NodeInv
<1>2. CASE Listen
  <2>1. TypeOK' /\ RoleBeforeLeader'
    BY <1>1, <1>2 DEF Listen, TypeOK, RoleBeforeLeader
  <2>2. StoppedForGood'
    BY <1>1, <1>2 DEF Listen, TypeOK, StoppedForGood
  <2> QED BY <1>2, <2>1, <2>2, ServerStep DEF Listen
<1>3. CASE Register
  <2>1. accepted \in Handler
    BY <1>1, <1>3 DEF Register, TypeOK
  <2>2. TypeOK' /\ RoleBeforeLeader'
    BY <1>1, <1>3, <2>1, HandlerAssumption DEF Register, TypeOK, RoleBeforeLeader
  <2>3. StoppedForGood'
    BY <1>1, <1>3, <2>1 DEF Register, TypeOK, StoppedForGood
  <2>4. \A h \in Handler : pc'[h] = pc[h] \/ pc'[h] = "reading"
    BY <1>1, <1>3 DEF Register, TypeOK
  <2> QED BY <1>3, <2>2, <2>3, <2>4, ServerStep DEF Register
<1>4. CASE AcceptFails
  <2>1. TypeOK' /\ RoleBeforeLeader'
    BY <1>1, <1>4 DEF AcceptFails, TypeOK, RoleBeforeLeader
  <2>2. StoppedForGood'
    BY <1>1, <1>4 DEF AcceptFails, TypeOK, StoppedForGood
  <2> QED BY <1>4, <2>1, <2>2, ServerStep DEF AcceptFails
<1>5. ASSUME NEW h \in Handler, Accept(h) PROVE NodeInv'
  <2>1. TypeOK' /\ RoleBeforeLeader'
    BY <1>1, <1>5 DEF Accept, TypeOK, RoleBeforeLeader
  <2>2. StoppedForGood'
    BY <1>1, <1>5 DEF Accept, TypeOK, StoppedForGood
  <2> QED BY <1>5, <2>1, <2>2, ServerStep DEF Accept
<1> QED BY <1>2, <1>3, <1>4, <1>5 DEF LoopStep

\* A promotion sets the role, then the leader.
LEMMA PromotionKeeps ==
  ASSUME NodeInv, PromotionStep \/ Promote
  PROVE  NodeInv'
<1>1. TypeOK /\ RoleBeforeLeader /\ StoppedForGood
  BY DEF NodeInv
<1>2. /\ UNCHANGED <<cluster, configured, listener, loop, accepted, activeConns, open, pc,
                     request, aof, stop, early, late>>
      /\ leader => leader'
  BY DEF PromotionStep, Promote, Lock, SetRole, SetLeader, OnlyPromotion
<1>3. TypeOK'
  <2>1. /\ {leader', writer', replPort'} \subseteq BOOLEAN /\ role' \in {"leader", "follower"}
        /\ stalled' = stalled
        /\ promotion' \in {"none", "SetRole", "SetLeader", "done"}
    BY <1>1 DEF TypeOK, PromotionStep, Promote, Lock, SetRole, SetLeader, Unlock
  <2> QED BY <1>1, <1>2, <2>1 DEF TypeOK
<1>4. RoleBeforeLeader'
  BY <1>1 DEF RoleBeforeLeader, PromotionStep, Promote, Lock, SetRole, SetLeader
<1>5. StoppedForGood'
  BY <1>1, <1>2 DEF StoppedForGood
<1> QED BY <1>2, <1>3, <1>4, <1>5, ServerStep

\* Stop: close the leader, the listener and the connections, wait, close the log.
LEMMA StopKeeps ==
  ASSUME NodeInv, StopStep \/ StopBegins
  PROVE  NodeInv'
<1>1. TypeOK /\ RoleBeforeLeader /\ StoppedForGood
  BY DEF NodeInv
<1>2. /\ UNCHANGED <<cluster, configured, role, leader, writer, promotion, loop, accepted,
                     activeConns, pc, request, late>>
  BY DEF StopStep, StopBegins, CloseListener, CloseConns, StopReturns
<1>3. CASE StopBegins
  <2>1. TypeOK' /\ RoleBeforeLeader'
    BY <1>1, <1>3 DEF StopBegins, TypeOK, RoleBeforeLeader
  <2>2. StoppedForGood'
    BY <1>1, <1>3 DEF StopBegins, TypeOK, StoppedForGood
  <2>3. early => early'
    BY <1>1, <1>3 DEF StopBegins, StoppedForGood
  <2> QED BY <1>2, <2>1, <2>2, <2>3, ServerStep
<1>4. CASE CloseListener
  <2>1. TypeOK' /\ RoleBeforeLeader'
    BY <1>1, <1>4 DEF CloseListener, TypeOK, RoleBeforeLeader
  <2>2. StoppedForGood'
    BY <1>1, <1>4 DEF CloseListener, TypeOK, StoppedForGood
  <2>3. early => early'
    BY <1>1, <1>4 DEF CloseListener, StoppedForGood
  <2> QED BY <1>2, <2>1, <2>2, <2>3, ServerStep
<1>5. CASE CloseConns
  <2>1. TypeOK' /\ RoleBeforeLeader'
    BY <1>1, <1>5 DEF CloseConns, TypeOK, RoleBeforeLeader
  <2>2. StoppedForGood'
    BY <1>1, <1>5 DEF CloseConns, TypeOK, StoppedForGood
  <2> QED BY <1>5, <2>1, <2>2, ServerStep DEF CloseConns
<1>6. CASE StopReturns
  <2>1. TypeOK' /\ RoleBeforeLeader'
    BY <1>1, <1>6 DEF StopReturns, TypeOK, RoleBeforeLeader
  <2>2. StoppedForGood'
    BY <1>1, <1>6 DEF StopReturns, WaitGroupIsZero, TypeOK, StoppedForGood
  <2> QED BY <1>6, <2>1, <2>2, ServerStep DEF StopReturns
<1> QED BY <1>3, <1>4, <1>5, <1>6 DEF StopStep

--------------------------------------------------------------------------------
\* What a step of handler h has to show: the facts about h's own command.  The
\* other handlers and the rest of the process do not change.
LEMMA HandlerKeeps ==
  ASSUME NodeInv, NEW h \in Handler, NEW p, NEW r \in Request,
         pc' = [pc EXCEPT ![h] = p], request' = [request EXCEPT ![h] = r], OnlyHandler,
         p \in {"reading", "routing", "nested", "local", "role", "apply", "done"},
         pc[h] \notin {"none", "done"},
         activeConns' = IF p = "done" THEN activeConns \ {h} ELSE activeConns,
         open' \subseteq Handler,
         r.led => leader,
         p \in {"routing", "nested", "local", "role", "apply"} => r.outcome = "none" /\ r.kind # "none",
         p \in {"routing", "nested"} => cluster,
         p \in {"role", "apply"} => (r.led => r.leader) /\ r.kind # "read",
         r.led /\ r.own /\ r.kind \in {"write", "exec"} /\ r.outcome # "none" =>
           \/ r.outcome = "served" /\ r.leader
           \/ r.outcome = "moved" /\ cluster /\ configured = "follower",
         r.kind \in {"write", "exec"} /\ r.outcome = "served" => r.logged \/ early
  PROVE  NodeInv'
<1>1. /\ TypeOK /\ RoleBeforeLeader /\ StoppedForGood /\ CommandProgress
      /\ LeaderServesWrites /\ AcknowledgedIsLogged
  BY DEF NodeInv
<1>2. /\ pc'[h] = p /\ request'[h] = r
      /\ \A g \in Handler \ {h} : pc'[g] = pc[g] /\ request'[g] = request[g]
  BY <1>1 DEF TypeOK
<1>3. /\ cluster' = cluster /\ configured' = configured /\ leader' = leader /\ role' = role
      /\ promotion' = promotion /\ loop' = loop /\ accepted' = accepted /\ stop' = stop
      /\ early' = early /\ aof' = aof
  BY DEF OnlyHandler
<1>4. TypeOK'
  <2>1. \A g \in Handler : g \in activeConns' <=> pc'[g] \notin {"none", "done"}
    <3>1. \A g \in Handler : g \in activeConns <=> pc[g] \notin {"none", "done"}
      BY <1>1 DEF TypeOK
    <3>2. h \in activeConns' <=> p # "done"
      BY <3>1
    <3>3. \A g \in Handler \ {h} : g \in activeConns' <=> g \in activeConns
      OBVIOUS
    <3> QED BY <1>2, <3>1, <3>2, <3>3
  <2>2. pc' \in [Handler -> {"none", "reading", "routing", "nested", "local", "role", "apply", "done"}]
    BY <1>1 DEF TypeOK
  <2>3. request' \in [Handler -> Request]
    BY <1>1 DEF TypeOK
  <2>4. activeConns' \subseteq Handler
    BY <1>1 DEF TypeOK
  <2> QED BY <1>1, <2>1, <2>2, <2>3, <2>4 DEF TypeOK, OnlyHandler
<1>5. RoleBeforeLeader'
  BY <1>1, <1>3 DEF RoleBeforeLeader
<1>6. StoppedForGood'
  BY <1>1, <1>2, <1>3 DEF StoppedForGood
<1>7. CommandProgress'
  BY <1>1, <1>2, <1>3 DEF CommandProgress, Busy
<1>8. LeaderServesWrites'
  BY <1>1, <1>2, <1>3 DEF LeaderServesWrites
<1>9. AcknowledgedIsLogged'
  BY <1>1, <1>2, <1>3 DEF AcknowledgedIsLogged
<1> QED BY <1>4, <1>5, <1>6, <1>7, <1>8, <1>9 DEF NodeInv

\* What the invariant says of a handler that has not returned.
LEMMA HandlerFacts ==
  ASSUME NodeInv, NEW h \in Handler
  PROVE  /\ request[h] \in Request
         /\ request[h].led => leader
         /\ leader \in BOOLEAN /\ role \in {"leader", "follower"}
         /\ configured \in {"leader", "follower"}
         /\ leader => role = "leader"
         /\ Busy(h) => request[h].outcome = "none" /\ request[h].kind # "none"
         /\ pc[h] \in {"routing", "nested"} => cluster
         /\ pc[h] \in {"role", "apply"} =>
              (request[h].led => request[h].leader) /\ request[h].kind # "read"
         /\ pc[h] \notin {"none", "done"} => aof \/ early
         /\ open \subseteq Handler /\ activeConns \subseteq Handler
         /\ request = [request EXCEPT ![h] = request[h]]
BY DEF NodeInv, TypeOK, RoleBeforeLeader, CommandProgress, StoppedForGood

\* Every step of a handler: from a command's arrival to its answer.
LEMMA CommandKeeps ==
  ASSUME NodeInv, NEW h \in Handler,
         \/ HandlerStep(h)
         \/ \E kind \in {"write", "read", "exec"}, own \in BOOLEAN : Receive(h, kind, own)
  PROVE  NodeInv'
<1> DEFINE old == request[h]
<1>1. ASSUME NEW kind \in {"write", "read", "exec"}, NEW own \in BOOLEAN, Receive(h, kind, own)
      PROVE  NodeInv'
  <2> DEFINE r == [NoRequest EXCEPT !.kind = kind, !.own = own, !.led = leader]
             p == IF cluster /\ kind # "exec" THEN "routing" ELSE "local"
  <2>1. /\ pc' = [pc EXCEPT ![h] = p] /\ request' = [request EXCEPT ![h] = r]
        /\ OnlyHandler /\ pc[h] = "reading" /\ UNCHANGED <<activeConns, open>>
    BY <1>1 DEF Receive
  <2>2. /\ r \in Request /\ r.led = leader /\ r.outcome = "none" /\ r.kind = kind
    BY HandlerFacts DEF NoRequest, Request
  <2>3. p \in {"routing", "local"} /\ (p = "routing" => cluster)
    OBVIOUS
  <2> HIDE DEF r, p
  <2> QED BY <2>1, <2>2, <2>3, HandlerFacts, HandlerKeeps
<1>2. CASE ShouldForward(h)
  <2>1. /\ pc' = [pc EXCEPT ![h] = "nested"] /\ request' = [request EXCEPT ![h] = old]
        /\ OnlyHandler /\ pc[h] = "routing" /\ UNCHANGED <<activeConns, open>>
    BY <1>2, HandlerFacts DEF ShouldForward
  <2>2. Busy(h)
    BY <2>1 DEF Busy
  <2> QED BY <2>1, <2>2, HandlerFacts, HandlerKeeps
<1>3. CASE Route(h)
  <2>1. /\ OnlyHandler /\ pc[h] = "nested" /\ UNCHANGED <<activeConns, open>> /\ Busy(h)
    BY <1>3 DEF Route, Busy
  <2>2. CASE Forwards(old)
    <3> DEFINE r == [old EXCEPT !.outcome = "moved"]
    <3>1. pc' = [pc EXCEPT ![h] = "reading"] /\ request' = [request EXCEPT ![h] = r]
      BY <1>3, <2>2 DEF Route
    <3>2. /\ r \in Request /\ r.led = old.led /\ r.outcome = "moved"
          /\ r.own = old.own /\ r.kind = old.kind
      BY HandlerFacts DEF Request
    <3>3. r.led /\ r.own /\ r.kind \in {"write", "exec"} => configured = "follower"
      BY <2>2, <3>2, HandlerFacts DEF Forwards
    <3> HIDE DEF r
    <3> QED BY <2>1, <3>1, <3>2, <3>3, HandlerFacts, HandlerKeeps
  <2>3. CASE ~Forwards(old)
    <3>1. pc' = [pc EXCEPT ![h] = "local"] /\ request' = [request EXCEPT ![h] = old]
      BY <1>3, <2>3, HandlerFacts DEF Route
    <3> QED BY <2>1, <3>1, HandlerFacts, HandlerKeeps
  <2> QED BY <2>2, <2>3
<1>4. CASE GetLeader(h)
  <2> DEFINE r == [old EXCEPT !.leader = leader]
             p == IF old.kind = "exec" THEN "apply" ELSE "role"
  <2>1. /\ pc' = [pc EXCEPT ![h] = p] /\ request' = [request EXCEPT ![h] = r]
        /\ OnlyHandler /\ pc[h] = "local" /\ UNCHANGED <<activeConns, open>>
        /\ old.kind # "read" /\ Busy(h)
    BY <1>4 DEF GetLeader, CurrentLeader, Busy
  <2>2. /\ r \in Request /\ r.led = old.led /\ r.outcome = old.outcome /\ r.kind = old.kind
        /\ r.leader = leader
    BY HandlerFacts DEF Request
  <2>3. p \in {"apply", "role"}
    OBVIOUS
  <2> HIDE DEF r, p
  <2> QED BY <2>1, <2>2, <2>3, HandlerFacts, HandlerKeeps
<1>5. CASE GetRole(h)
  <2>1. /\ OnlyHandler /\ pc[h] = "role" /\ UNCHANGED <<activeConns, open>> /\ Busy(h)
    BY <1>5 DEF GetRole, Busy
  <2>2. CASE role = "follower"
    <3> DEFINE r == [old EXCEPT !.outcome = "readonly"]
    <3>1. pc' = [pc EXCEPT ![h] = "reading"] /\ request' = [request EXCEPT ![h] = r]
      BY <1>5, <2>2 DEF GetRole
    <3>2. r \in Request /\ r.led = old.led /\ r.outcome = "readonly" /\ r.kind = old.kind
      BY HandlerFacts DEF Request
    <3>3. ~r.led
      BY <2>2, <3>2, HandlerFacts
    <3> HIDE DEF r
    <3> QED BY <2>1, <3>1, <3>2, <3>3, HandlerFacts, HandlerKeeps
  <2>3. CASE role # "follower"
    <3>1. pc' = [pc EXCEPT ![h] = "apply"] /\ request' = [request EXCEPT ![h] = old]
      BY <1>5, <2>3, HandlerFacts DEF GetRole
    <3> QED BY <2>1, <3>1, HandlerFacts, HandlerKeeps
  <2> QED BY <2>2, <2>3
<1>6. CASE Apply(h)
  <2> DEFINE r == [old EXCEPT !.outcome = "served", !.logged = aof]
  <2>1. /\ pc' = [pc EXCEPT ![h] = "reading"] /\ request' = [request EXCEPT ![h] = r]
        /\ OnlyHandler /\ pc[h] = "apply" /\ UNCHANGED <<activeConns, open>>
    BY <1>6 DEF Apply
  <2>2. /\ r \in Request /\ r.led = old.led /\ r.outcome = "served" /\ r.kind = old.kind
        /\ r.leader = old.leader /\ r.logged = aof
    <3>1. aof \in BOOLEAN
      BY DEF NodeInv, TypeOK
    <3> QED BY <3>1, HandlerFacts DEF Request
  <2>3. r.logged \/ early
    BY <2>1, <2>2, HandlerFacts
  <2> HIDE DEF r
  <2> QED BY <2>1, <2>2, <2>3, HandlerFacts, HandlerKeeps
<1>7. CASE Get(h)
  <2> DEFINE r == [old EXCEPT !.outcome = "served"]
  <2>1. /\ pc' = [pc EXCEPT ![h] = "reading"] /\ request' = [request EXCEPT ![h] = r]
        /\ OnlyHandler /\ pc[h] = "local" /\ UNCHANGED <<activeConns, open>> /\ old.kind = "read"
    BY <1>7 DEF Get
  <2>2. r \in Request /\ r.led = old.led /\ r.outcome = "served" /\ r.kind = "read"
    BY <2>1, HandlerFacts DEF Request
  <2> HIDE DEF r
  <2> QED BY <2>1, <2>2, HandlerFacts, HandlerKeeps
<1>8. CASE HandlerReturns(h)
  <2>1. /\ pc' = [pc EXCEPT ![h] = "done"] /\ request' = [request EXCEPT ![h] = old]
        /\ OnlyHandler /\ pc[h] = "reading" /\ open' = open /\ activeConns' = activeConns \ {h}
    BY <1>8, HandlerFacts DEF HandlerReturns, Unregister
  <2>2. /\ old.led /\ old.own /\ old.kind \in {"write", "exec"} /\ old.outcome # "none" =>
             \/ old.outcome = "served" /\ old.leader
             \/ old.outcome = "moved" /\ cluster /\ configured = "follower"
        /\ old.kind \in {"write", "exec"} /\ old.outcome = "served" => old.logged \/ early
    BY DEF NodeInv, LeaderServesWrites, AcknowledgedIsLogged
  <2> QED BY <2>1, <2>2, HandlerFacts, HandlerKeeps
<1> QED BY <1>1, <1>2, <1>3, <1>4, <1>5, <1>6, <1>7, <1>8 DEF HandlerStep

\* Every step of the process keeps the invariant.
LEMMA NodeStep == NodeInv /\ [Next]_vars => NodeInv'
<1> SUFFICES ASSUME NodeInv, [Next]_vars PROVE NodeInv'
  OBVIOUS
<1>1. ASSUME NEW h \in Handler, ClientCloses(h) PROVE NodeInv'
  <2>1. TypeOK' /\ RoleBeforeLeader' /\ StoppedForGood'
    BY <1>1 DEF NodeInv, ClientCloses, OnlyHandler, TypeOK, RoleBeforeLeader, StoppedForGood
  <2> QED BY <1>1, <2>1, ServerStep DEF ClientCloses, OnlyHandler
<1>2. CASE FollowerStalls \/ FollowerReads
  <2>1. OnlyFollowers /\ stalled' \in BOOLEAN
    BY <1>2 DEF FollowerStalls, FollowerReads
  <2>2. TypeOK' /\ RoleBeforeLeader' /\ StoppedForGood'
    BY <2>1 DEF NodeInv, OnlyFollowers, TypeOK, RoleBeforeLeader, StoppedForGood
  <2> QED BY <2>1, <2>2, ServerStep DEF OnlyFollowers
<1>3. CASE UNCHANGED vars
  <2>1. TypeOK' /\ RoleBeforeLeader' /\ StoppedForGood'
    BY <1>3 DEF NodeInv, vars, TypeOK, RoleBeforeLeader, StoppedForGood
  <2> QED BY <1>3, <2>1, ServerStep DEF vars
<1> QED BY <1>1, <1>2, <1>3, LoopKeeps, PromotionKeeps, StopKeeps, CommandKeeps DEF Next

\* However accepting, commands, a promotion and Stop interleave.
LEMMA NodeAlways == Spec => []NodeInv
BY InitNode, NodeStep, PTL DEF Spec

\* NodeState, the accept loop, the handlers and Stop keep their types, and
\* activeConns holds the connections of the handlers that are running, no other.
THEOREM NodeTyped == Spec => []TypeOK
<1>1. NodeInv => TypeOK
  BY DEF NodeInv
<1> QED BY <1>1, NodeAlways, PTL

\* A write or EXEC that comes in once the node leads is served and sent to the
\* followers, or, by a cluster member configured to follow, redirected: none is
\* refused, or applied without being replicated, however its reads of NodeState
\* fall among the steps of the promotion.
THEOREM WritesServedByLeader == Spec => []LeaderServesWrites
<1>1. NodeInv => LeaderServesWrites
  BY DEF NodeInv
<1> QED BY <1>1, NodeAlways, PTL

\* Stop closes the log only when no handler can still acknowledge a write, unless
\* it is called before the accept loop has begun.
THEOREM LoggedBeforeAcknowledged == Spec => []AcknowledgedIsLogged
<1>1. NodeInv => AcknowledgedIsLogged
  BY DEF NodeInv
<1> QED BY <1>1, NodeAlways, PTL
================================================================================
