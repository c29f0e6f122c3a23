------------------------------- MODULE Membership -------------------------------
(***************************************************************************)
(* The health checker of a shard's leader and a client that learns of the   *)
(* nodes from CLUSTER NODES (server/cluster_commands.go): what the one      *)
(* knows is what the other routes by.                                       *)
(***************************************************************************)
EXTENDS Health, ClusterClient

CONSTANT Self   \* the leader, which does not monitor itself

VARIABLE seed   \* the client's seed: a "member", or a "pending" node

ASSUME MembershipAssumption == Server = Monitored \cup {Self} /\ Self \notin Monitored

membershipVars == <<healthVars, clientVars, seed>>

\* handleClusterNodes: a node without a health checker calls all "active", one
\* with one says "alive", "suspected" or "dead", and "dead" of itself.
ClusterNodes ==
  [n \in Server |-> IF seed = "pending" THEN "active"
                    ELSE IF n \in Monitored THEN status[n] ELSE "dead"]

Answers == [n \in Server |-> n \in Monitored => up[n]]

MembershipInit == HealthInit /\ ClientInit /\ seed \in {"member", "pending"}

ClientNext ==
  \/ CloseBegins \/ CloseConns
  \/ \E d \in Discoverer :
       DialSeed(d) \/ SeedFails(d) \/ Fetch(d, ClusterNodes) \/ BuildHashRing(d)
  \/ \E u \in User :
       \/ CreateConn(u, Answers) \/ Execute(u) \/ ExecuteMoved(u)
       \/ \E n \in Server : FindConn(u, n)

MembershipNext ==
  \/ HealthNext /\ UNCHANGED <<clientVars, seed>>
  \/ ClientNext /\ UNCHANGED <<healthVars, seed>>

MembershipSpec == MembershipInit /\ [][MembershipNext]_membershipVars
================================================================================
