--------------------------------- MODULE Health ---------------------------------
(***************************************************************************)
(* internal/cluster/health.go on the leader of a shard, with the callbacks  *)
(* that startAsLeader sets (server/server.go) and the hash ring they        *)
(* change.                                                                  *)
(*                                                                          *)
(* Abstractions.  The nodes of a round are checked in any order, so a round *)
(* is not kept; a ping and the update it leads to are one step, as nothing  *)
(* else writes the status.  The successes and times that are recorded and   *)
(* never read are left out.  Stop and UnregisterNode have no caller.        *)
(***************************************************************************)
EXTENDS HashRing

CONSTANTS Monitored,  \* the nodes registered with the health checker
          StartShard, \* the shards of the configuration
          Layouts,    \* ways the names may be hashed
          Threshold,  \* failureThreshold
          MaxFlips    \* bound on nodes going down or coming back, or pings lost

ASSUME HealthAssumption ==
  /\ Monitored \subseteq Shard /\ StartShard \subseteq Shard
  /\ \A vnode \in Layouts : vnode \in [Shard -> (SUBSET Pos) \ {{}}]
  /\ \A vnode \in Layouts : \A s, t \in Shard : s # t => vnode[s] \cap vnode[t] = {}
  /\ Threshold \in Nat \ {0} /\ MaxFlips \in Nat

VARIABLES
  layout,    \* where the virtual nodes of each name are
  up,        \* [Monitored -> it answers pings]
  status,    \* [Monitored -> node.Status]
  failures,  \* [Monitored -> node.ConsecutiveFailures, up to Threshold]
  pending,   \* [Monitored -> [kind of callback -> goroutines that have yet to run it]]
  serverRing,\* hashRing
  flips,
  \* History, not code:
  overlapped,\* nodes with two callbacks pending at a time
  returned   \* nodes that were dead and recovered since they last died

healthVars == <<layout, up, status, failures, pending, serverRing, flips, overlapped, returned>>

Kind == {"failed", "recovered"}
Quiet(n) == \A kind \in Kind : pending[n][kind] = 0

Reference(names) ==
  [count |-> [p \in Pos |-> Cardinality({s \in names : p \in layout[s]})],
   owner |-> [p \in Pos |-> IF \E s \in names : p \in layout[s]
                            THEN CHOOSE s \in names : p \in layout[s] ELSE NoShard]]

HealthInit ==
  /\ layout \in Layouts
  /\ up = [n \in Monitored |-> TRUE]
  /\ status = [n \in Monitored |-> "alive"]
  /\ failures = [n \in Monitored |-> 0]
  /\ pending = [n \in Monitored |-> [kind \in Kind |-> 0]]
  /\ serverRing = Reference(StartShard)
  /\ flips = 0
  /\ overlapped = {} /\ returned = {}

\* go callback(nodeID)
Spawn(n, kind) ==
  /\ pending' = [pending EXCEPT ![n][kind] = @ + 1]
  /\ overlapped' = IF Quiet(n) THEN overlapped ELSE overlapped \cup {n}

\* A ping fails: the node is suspected, and dead from the Threshold-th on.
CheckFails(n) ==
  LET fails == Min({failures[n] + 1, Threshold}) IN
  /\ up[n] => flips < MaxFlips
  /\ flips' = IF up[n] THEN flips + 1 ELSE flips
  /\ failures' = [failures EXCEPT ![n] = fails]
  /\ status' = [status EXCEPT ![n] = IF fails >= Threshold THEN "dead" ELSE "suspected"]
  /\ \/ /\ status[n] # "dead" /\ fails >= Threshold
        /\ Spawn(n, "failed")
        /\ returned' = returned \ {n}
     \/ /\ status[n] = "dead" \/ fails < Threshold
        /\ UNCHANGED <<pending, overlapped, returned>>
  /\ UNCHANGED <<layout, up, serverRing>>

\* A plausible bug: whoever was not alive has recovered.
RecoversSuspected(n) == status[n] # "alive"

Recovers(n) == status[n] = "dead"

CheckSucceeds(n) ==
  /\ up[n]
  /\ failures' = [failures EXCEPT ![n] = 0]
  /\ status' = [status EXCEPT ![n] = "alive"]
  /\ \/ /\ Recovers(n)
        /\ Spawn(n, "recovered")
        /\ returned' = returned \cup {n}
     \/ /\ ~Recovers(n)
        /\ UNCHANGED <<pending, overlapped, returned>>
  /\ UNCHANGED <<layout, up, serverRing, flips>>

\* The callbacks: a node id is taken for a shard id.  The address is set too.
Callback(n, kind) ==
  /\ pending[n][kind] > 0
  /\ pending' = [pending EXCEPT ![n][kind] = @ - 1]
  /\ serverRing' = IF kind = "failed" THEN RemoveShard(serverRing, layout, n)
                   ELSE AddShard(serverRing, layout, n)
  /\ UNCHANGED <<layout, up, status, failures, flips, overlapped, returned>>

Flip(n) ==
  /\ flips < MaxFlips
  /\ flips' = flips + 1
  /\ up' = [up EXCEPT ![n] = ~@]
  /\ UNCHANGED <<layout, status, failures, pending, serverRing, overlapped, returned>>

HealthNext ==
  \E n \in Monitored :
    \/ CheckFails(n) \/ CheckSucceeds(n) \/ Flip(n)
    \/ \E kind \in Kind : Callback(n, kind)

--------------------------------------------------------------------------------
\* Whatever the mix of failing and answered pings, once the callbacks have run
\* the ring holds the configured shards and the nodes that recovered, without
\* the dead ones, every place once: unless two callbacks of one node were
\* pending together (health.go:208, 232, server.go:443).
RingFollowsHealth ==
  (overlapped = {} /\ \A n \in Monitored : Quiet(n)) =>
    serverRing = Reference((StartShard \cup returned) \ {n \in Monitored : status[n] = "dead"})

\* Where another place of the leaving shard follows, its range stays behind.
Followed(ring, s, h) == FirstFrom(ring, FirstFrom(ring, h) + 1) \in layout[s]

Moves(tasks, h) == \E t \in tasks : InRange(h, t)

\* On every ring the health checker builds, the ranges that change hands are
\* those whose owner changes: a newcomer takes exactly the hashes it will own,
\* a leaver gives up its own to their next owner.  Two deviations: a hash that
\* is a place itself (ranges are [start, end), ownership is (start, end]); and
\* every range but the last of a row of places of a leaver, which stay behind
\* (migration.go:28-75, 97-140).
MovesMatchOwnership ==
  \A s \in Monitored : \A h \in Pos \ (Places(serverRing) \cup layout[s]) :
    serverRing = Reference(GetAllShards(serverRing)) /\ GetAllShards(serverRing) \ {s} # {} =>
      IF s \notin GetAllShards(serverRing)
      THEN Moves(CalculateMigrations(serverRing, layout, s), h)
             <=> GetShard(AddShard(serverRing, layout, s), h) = s
      ELSE LET tasks == CalculateMigrationsForRemoval(serverRing, layout, s)
               next == GetShard(RemoveShard(serverRing, layout, s), h) IN
           /\ Moves(tasks, h) <=> GetShard(serverRing, h) = s /\ ~Followed(serverRing, s, h)
           /\ \A t \in tasks : InRange(h, t) => t.to = next
================================================================================
