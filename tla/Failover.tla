------------------------------- MODULE Failover --------------------------------
(***************************************************************************)
(* internal/replication/follower.go: how followers notice that their        *)
(* leader is gone (Start, monitorLeaderHealth) and which of them takes over *)
(* (startElection, findNewLeader, findPeerLeader, NewLeader), with crashes  *)
(* and restarts of the processes.                                           *)
(*                                                                          *)
(* There is no vote.  A follower that misses the heartbeat waits 500 ms for *)
(* every step between its priority and the highest one, dials the           *)
(* replication ports of the others, and promotes itself when none answers.  *)
(* A port answers only once its owner has promoted itself, so what keeps    *)
(* two followers apart is the time between their waits and who dials whom.  *)
(*                                                                          *)
(* Abstractions.  Data and streams are in Replication, the role and the     *)
(* lock of one process in Node.  Time is the 500 ms step of the waits: Tick *)
(* runs all of them down together.  Where cfg.timely holds, dialling and    *)
(* binding take less than a step, else they may take any time.  The first   *)
(* message of a SYNC renews lastHeartbeat, so a connection starts fresh.    *)
(***************************************************************************)
EXTENDS Integers, Sequences, FiniteSets, FiniteSetsExt, SequencesExt, Functions

CONSTANTS Node,
          Configs,       \* the configurations considered
          MaxAttempts,   \* maxAttemptsBeforeElection
          MaxElections,  \* bound on the elections one follower runs at a time
          MaxFaults,     \* bound on crashes, broken connections, unanswered dials and failed binds
          MaxRestarts    \* bound on restarts

Slot == 1..MaxElections
NoNode == "no node"
Broken == "broken"

(***************************************************************************)
(* cfg.cluster: the nodes know each other (clusterNodes), in order          *)
(* cfg.nodes, and elections start after failed dials too; else they run in  *)
(* simple mode and know only their peers, --peer-repl-addrs.  cfg.leaderOf  *)
(* gives each node the leader of its shard; a leader gives itself.          *)
(***************************************************************************)
ConfigOK(c) ==
  /\ c.cluster \in BOOLEAN /\ c.timely \in BOOLEAN
  /\ c.nodes \in Seq(Node)
  /\ c.cluster => Range(c.nodes) = Node
  /\ c.leaderOf \in [Node -> Node]
  /\ \A n \in Node : c.leaderOf[c.leaderOf[n]] = c.leaderOf[n]
  /\ c.priority \in [Node -> Nat]
  /\ c.peers \in [Node -> Seq(Node)]

ASSUME ConfigAssumption == \A c \in Configs : ConfigOK(c)
ASSUME BoundAssumption ==
  {MaxAttempts, MaxElections, MaxFaults, MaxRestarts} \subseteq Nat

VARIABLES
  cfg,
  alive,       \* [Node -> the process runs]
  role,        \* [Node -> ns.role]
  listening,   \* [Node -> a replication listener is open]
  promoted,    \* [Node -> f.promoted]
  leaderAddr,  \* [Node -> f.leaderAddr]
  conn,        \* [Node -> f.conn: a node, Broken or NoNode]
  attempts,    \* [Node -> failedAttempts]
  heartbeat,   \* [Node -> "never", "fresh" or "stale": f.lastHeartbeat]
  monitors,    \* [Node -> how many monitorLeaderHealth run]
  election,    \* [Node -> [Slot -> startElection under way]]
  faults, restarts,
  \* History, not code:
  blind        \* [Node -> the nodes that did not answer before it promoted itself]

nodeVars == <<role, listening, promoted, leaderAddr, conn, attempts, heartbeat, monitors, election, blind>>
vars == <<cfg, alive, nodeVars, faults, restarts>>

Follower == {n \in Node : cfg.leaderOf[n] # n}
Shard(n) == {m \in Node : cfg.leaderOf[m] = cfg.leaderOf[n]}

\* state: "none", "wait", "probe" (dialling the rest of targets), "bind" and
\* "announce" (the listener is open).  History: unseen, the nodes that did not
\* answer, and ahead, the elections of followers with a higher priority in the
\* shard that were under way when this one began.
NoElection == [state |-> "none", wait |-> 0, targets |-> <<>>, unseen |-> {}, ahead |-> {}]
Electing(n, e) == election[n][e].state # "none"

StartFollower(n) ==
  /\ role' = [role EXCEPT ![n] = IF n \in Follower THEN "follower" ELSE "leader"]
  /\ listening' = [listening EXCEPT ![n] = n \notin Follower]
  /\ leaderAddr' = [leaderAddr EXCEPT ![n] = cfg.leaderOf[n]]

Init ==
  /\ cfg \in Configs
  /\ alive = [n \in Node |-> TRUE]
  /\ role = [n \in Node |-> IF n \in Follower THEN "follower" ELSE "leader"]
  /\ listening = [n \in Node |-> n \notin Follower]
  /\ leaderAddr = cfg.leaderOf
  /\ promoted = [n \in Node |-> FALSE]
  /\ conn = [n \in Node |-> NoNode]
  /\ attempts = [n \in Node |-> 0]
  /\ heartbeat = [n \in Node |-> "never"]
  /\ monitors = [n \in Node |-> 0]
  /\ election = [n \in Node |-> [e \in Slot |-> NoElection]]
  /\ faults = 0 /\ restarts = 0
  /\ blind = [n \in Node |-> {}]

--------------------------------------------------------------------------------
\* startElection.

\* maxPriority over the nodes known: in simple mode a follower knows only itself.
Highest(n) == Max({cfg.priority[n]} \cup IF cfg.cluster THEN {cfg.priority[m] : m \in Range(cfg.nodes)} ELSE {})

\* A plausible bug: every follower waits equally long.
WaitEqually(n) == 1

Wait(n) == Highest(n) - cfg.priority[n] + 1

Known(n) == (IF cfg.cluster THEN cfg.nodes ELSE <<>>) \o cfg.peers[n]

Ahead(n) ==
  {r \in (Shard(n) \cap Follower) \X Slot :
     cfg.priority[r[1]] > cfg.priority[n] /\ Electing(r[1], r[2])}

\* Without a priority a follower of a cluster never stands, and one in simple
\* mode promotes itself without waiting or looking.
Begun(n) ==
  IF cfg.priority[n] > 0
  THEN [state |-> "wait", wait |-> Wait(n), targets |-> Known(n), unseen |-> {}, ahead |-> Ahead(n)]
  ELSE IF cfg.cluster THEN NoElection
  ELSE [NoElection EXCEPT !.state = "probe"]

FreeSlot(n, e) == e \in Slot /\ ~Electing(n, e)

\* go f.startElection()
StartElection(n, e) == election' = [election EXCEPT ![n][e] = Begun(n)]

\* The election in slot e of n ends, or turns into the record r.
Becomes(n, e, r) ==
  election' = [m \in Node |-> [f \in Slot |->
                 IF m = n /\ f = e THEN r
                 ELSE IF r.state = "none" THEN [election[m][f] EXCEPT !.ahead = @ \ {<<n, e>>}]
                 ELSE election[m][f]]]

\* 500 ms pass.
Tick ==
  /\ \E n \in Node, e \in Slot : election[n][e].wait > 0
  /\ cfg.timely => \A n \in Node, e \in Slot : Electing(n, e) => election[n][e].wait > 0
  /\ election' = [n \in Node |-> [e \in Slot |->
                    [election[n][e] EXCEPT !.wait = IF @ > 0 THEN @ - 1 ELSE 0]]]
  /\ UNCHANGED <<cfg, alive, role, listening, promoted, leaderAddr, conn, attempts, heartbeat,
                 monitors, blind, faults, restarts>>

WaitIsOver(n, e) ==
  /\ election[n][e].state = "wait" /\ election[n][e].wait = 0
  /\ Becomes(n, e, [election[n][e] EXCEPT !.state = "probe"])
  /\ UNCHANGED <<cfg, alive, role, listening, promoted, leaderAddr, conn, attempts, heartbeat,
                 monitors, blind, faults, restarts>>

\* A plausible bug: whoever answers is passed over.
AnswersNever(n, e) == FALSE

\* The next one to dial answers; findNewLeader, unlike findPeerLeader, passes
\* over the follower itself.
Answers(n, e) ==
  LET targets == election[n][e].targets IN
  /\ listening[Head(targets)]
  /\ Head(targets) = n => Len(targets) <= Len(cfg.peers[n])

\* findNewLeader, findPeerLeader: the first that answers is the new leader.
Found(n, e) ==
  LET m == Head(election[n][e].targets) IN
  /\ election[n][e].state = "probe" /\ election[n][e].targets # <<>>
  /\ Answers(n, e)
  /\ leaderAddr' = [leaderAddr EXCEPT ![n] = m]
  /\ Becomes(n, e, NoElection)
  /\ UNCHANGED <<cfg, alive, role, listening, promoted, conn, attempts, heartbeat, monitors, blind,
                 faults, restarts>>

\* Nobody answers there, or not within 300 ms.
NotFound(n, e) ==
  LET m == Head(election[n][e].targets) IN
  /\ election[n][e].state = "probe" /\ election[n][e].targets # <<>>
  /\ \/ ~Answers(n, e) /\ UNCHANGED faults
     \/ Answers(n, e) /\ faults < MaxFaults /\ faults' = faults + 1
  /\ Becomes(n, e, [election[n][e] EXCEPT !.targets = Tail(@),
                                         !.unseen = IF listening[m] /\ faults' = faults THEN @ ELSE @ \cup {m}])
  /\ UNCHANGED <<cfg, alive, role, listening, promoted, leaderAddr, conn, attempts, heartbeat,
                 monitors, blind, restarts>>

\* closeConn before the promotion.
Stand(n, e) ==
  /\ election[n][e].state = "probe" /\ election[n][e].targets = <<>>
  /\ Becomes(n, e, [election[n][e] EXCEPT !.state = "bind"])
  /\ conn' = [conn EXCEPT ![n] = NoNode]
  /\ UNCHANGED <<cfg, alive, role, listening, promoted, leaderAddr, attempts, heartbeat, monitors,
                 blind, faults, restarts>>

\* NewLeader opens the listener.
Bind(n, e) ==
  /\ election[n][e].state = "bind" /\ ~listening[n]
  /\ listening' = [listening EXCEPT ![n] = TRUE]
  /\ blind' = [blind EXCEPT ![n] = election[n][e].unseen]
  /\ Becomes(n, e, [election[n][e] EXCEPT !.state = "announce"])
  /\ UNCHANGED <<cfg, alive, role, promoted, leaderAddr, conn, attempts, heartbeat, monitors,
                 faults, restarts>>

\* The port is taken, by another election of this follower or by another
\* program: the follower loop is told to end all the same.
BindFails(n, e) ==
  /\ election[n][e].state = "bind"
  /\ ~listening[n] => faults < MaxFaults
  /\ faults' = IF listening[n] THEN faults ELSE faults + 1
  /\ promoted' = [promoted EXCEPT ![n] = TRUE]
  /\ Becomes(n, e, NoElection)
  /\ UNCHANGED <<cfg, alive, role, listening, leaderAddr, conn, attempts, heartbeat, monitors, blind,
                 restarts>>

\* SetRole and SetLeader, and the loop of Start and the monitors are told to end.
Announce(n, e) ==
  /\ election[n][e].state = "announce"
  /\ role' = [role EXCEPT ![n] = "leader"]
  /\ promoted' = [promoted EXCEPT ![n] = TRUE]
  /\ Becomes(n, e, NoElection)
  /\ UNCHANGED <<cfg, alive, listening, leaderAddr, conn, attempts, heartbeat, monitors, blind,
                 faults, restarts>>

ElectionStep(n, e) ==
  WaitIsOver(n, e) \/ Found(n, e) \/ NotFound(n, e) \/ Stand(n, e) \/ Bind(n, e)
    \/ BindFails(n, e) \/ Announce(n, e)

--------------------------------------------------------------------------------
\* Start and monitorLeaderHealth.

Following(n) == alive[n] /\ n \in Follower /\ ~promoted[n]

\* connectToLeader and sendSyncRequest, and a monitor of its own.
Connect(n) ==
  /\ Following(n) /\ conn[n] = NoNode
  /\ listening[leaderAddr[n]]
  /\ conn' = [conn EXCEPT ![n] = leaderAddr[n]]
  /\ attempts' = [attempts EXCEPT ![n] = 0]
  /\ heartbeat' = [heartbeat EXCEPT ![n] = "fresh"]
  /\ monitors' = [monitors EXCEPT ![n] = @ + 1]
  /\ UNCHANGED <<cfg, alive, role, listening, promoted, leaderAddr, election, blind,
                 faults, restarts>>

\* A plausible bug: failed dials never lead to an election.
GivesUpNever(n) == FALSE

GivesUp(n) == attempts[n] + 1 >= MaxAttempts /\ cfg.cluster

\* Failed dials are counted to MaxAttempts, which does nothing in simple mode.
ConnectFails(n) ==
  /\ Following(n) /\ conn[n] = NoNode
  /\ ~listening[leaderAddr[n]]
  /\ \/ /\ ~GivesUp(n)
        /\ attempts' = [attempts EXCEPT ![n] = Min({@ + 1, MaxAttempts})]
        /\ UNCHANGED election
     \/ /\ GivesUp(n)
        /\ attempts' = [attempts EXCEPT ![n] = 0]
        /\ \E e \in Slot : FreeSlot(n, e) /\ StartElection(n, e)
  /\ UNCHANGED <<cfg, alive, role, listening, promoted, leaderAddr, conn, heartbeat, monitors, blind,
                 faults, restarts>>

\* The stream fails, or the loop comes to its end after a promotion.
StreamFails(n) ==
  /\ conn[n] = Broken
  /\ conn' = [conn EXCEPT ![n] = NoNode]
  /\ UNCHANGED <<cfg, alive, role, listening, promoted, leaderAddr, attempts, heartbeat, monitors,
                 election, blind, faults, restarts>>

\* 15 s without a heartbeat.
Expire(n) ==
  /\ alive[n] /\ conn[n] \notin Node /\ heartbeat[n] = "fresh"
  /\ heartbeat' = [heartbeat EXCEPT ![n] = "stale"]
  /\ UNCHANGED <<cfg, alive, role, listening, promoted, leaderAddr, conn, attempts, monitors,
                 election, blind, faults, restarts>>

\* A monitor closes the connection, starts an election and returns.
LeaderTimeout(n) ==
  /\ monitors[n] > 0 /\ ~promoted[n] /\ heartbeat[n] = "stale"
  /\ conn' = [conn EXCEPT ![n] = NoNode]
  /\ monitors' = [monitors EXCEPT ![n] = @ - 1]
  /\ \E e \in Slot : FreeSlot(n, e) /\ StartElection(n, e)
  /\ UNCHANGED <<cfg, alive, role, listening, promoted, leaderAddr, attempts, heartbeat, blind,
                 faults, restarts>>

MonitorReturns(n) ==
  /\ monitors[n] > 0 /\ promoted[n]
  /\ monitors' = [monitors EXCEPT ![n] = @ - 1]
  /\ UNCHANGED <<cfg, alive, role, listening, promoted, leaderAddr, conn, attempts, heartbeat,
                 election, blind, faults, restarts>>

--------------------------------------------------------------------------------
\* The world.

Crash(n) ==
  /\ alive[n] /\ faults < MaxFaults
  /\ faults' = faults + 1
  /\ alive' = [alive EXCEPT ![n] = FALSE]
  /\ listening' = [listening EXCEPT ![n] = FALSE]
  /\ promoted' = [promoted EXCEPT ![n] = FALSE]
  /\ conn' = [m \in Node |-> IF m = n THEN NoNode ELSE IF conn[m] = n THEN Broken ELSE conn[m]]
  /\ attempts' = [attempts EXCEPT ![n] = 0]
  /\ heartbeat' = [heartbeat EXCEPT ![n] = "never"]
  /\ monitors' = [monitors EXCEPT ![n] = 0]
  /\ election' = [m \in Node |-> [e \in Slot |->
                    IF m = n THEN NoElection
                    ELSE [election[m][e] EXCEPT !.ahead = @ \ ({n} \X Slot)]]]
  /\ blind' = [blind EXCEPT ![n] = {}]
  /\ UNCHANGED <<cfg, role, leaderAddr, restarts>>

\* StartClusterMode, or Start: the role is again the configured one.
Restart(n) ==
  /\ ~alive[n] /\ restarts < MaxRestarts
  /\ restarts' = restarts + 1
  /\ alive' = [alive EXCEPT ![n] = TRUE]
  /\ StartFollower(n)
  /\ UNCHANGED <<cfg, promoted, conn, attempts, heartbeat, monitors, election, blind, faults>>

BreakLink(n) ==
  /\ conn[n] \in Node /\ faults < MaxFaults
  /\ faults' = faults + 1
  /\ conn' = [conn EXCEPT ![n] = Broken]
  /\ UNCHANGED <<cfg, alive, role, listening, promoted, leaderAddr, attempts, heartbeat, monitors,
                 election, blind, restarts>>

\* The goroutines of a follower: its loop, its monitors and its elections.
Loop(n) == Connect(n) \/ ConnectFails(n) \/ StreamFails(n)
Monitor(n) == LeaderTimeout(n) \/ MonitorReturns(n)

Next ==
  \/ Tick
  \/ \E n \in Node :
       \/ Loop(n) \/ Monitor(n) \/ Expire(n)
       \/ \E e \in Slot : ElectionStep(n, e)
       \/ Crash(n) \/ Restart(n) \/ BreakLink(n)

Spec == Init /\ [][Next]_vars

\* Goroutines are scheduled and time passes; nobody has to crash or come back.
FairSpec ==
  /\ Spec
  /\ WF_vars(Tick)
  /\ \A n \in Node :
       /\ WF_vars(Loop(n)) /\ WF_vars(Monitor(n)) /\ WF_vars(Expire(n))
       /\ \A e \in Slot : WF_vars(ElectionStep(n, e))

--------------------------------------------------------------------------------
Leads(n) == alive[n] /\ listening[n] /\ role[n] = "leader"

\* A shard has two leaders only if each of them that promoted itself had dialled
\* the other in vain, was never told of it, or has no priority and does not look
\* (follower.go startElection: nothing else keeps two followers from leading,
\* and nothing makes a leader that comes back step down).
SplitBrainOnlyIfBlind ==
  \A n \in Follower : \A m \in Shard(n) \ {n} :
    (Leads(n) /\ Leads(m)) =>
       \/ m \in blind[n] \/ m \notin Range(Known(n)) \/ cfg.priority[n] = 0

\* In a cluster whose nodes dial and bind within 500 ms the higher priority goes
\* first: a follower stands only when every election that a follower of higher
\* priority in its shard had begun before it is over (follower.go:541).
PriorityGoesFirst ==
  \A n \in Node, e \in Slot :
    cfg.cluster /\ cfg.timely /\ election[n][e].state \in {"bind", "announce"}
      => election[n][e].ahead = {}

\* A follower that can still stand.  In simple mode only a monitor starts an
\* election, and it returns when it has started one; in a cluster of several
\* shards a follower may have gone over to the leader of another shard, since
\* findNewLeader dials the nodes of all of them.
Candidate(n) ==
  /\ Following(n) /\ {leaderAddr[n], conn[n]} \cap Node \subseteq Shard(n)
  /\ \/ cfg.cluster /\ cfg.priority[n] > 0
     \/ ~cfg.cluster /\ (monitors[n] > 0 \/ \E e \in Slot : Electing(n, e))

HasLeader(n) == \E m \in Shard(n) : Leads(m)

\* Every shard always comes to have a leader, or has no follower left that can
\* stand (follower.go Start, monitorLeaderHealth, startElection).
ShardRegainsLeader ==
  []<>(\A n \in Node : HasLeader(n) \/ ~\E m \in Shard(n) : Candidate(m))
================================================================================
