------------------------------- MODULE MCFailover ------------------------------
\* A leader and two followers: as in docker-compose.yml, where only the second
\* knows of the first; in simple mode without priorities; and as the one shard
\* of a cluster.  Also two shards, one of l and f1, the other of f2 alone.
EXTENDS Failover

CONSTANTS l, f1, f2

Base ==
  [cluster |-> FALSE, timely |-> TRUE, nodes |-> <<l, f1, f2>>,
   leaderOf |-> [n \in Node |-> l],
   priority |-> [n \in Node |-> IF n = l THEN 3 ELSE IF n = f1 THEN 2 ELSE 1],
   peers |-> [n \in Node |-> <<>>]]

Compose == [Base EXCEPT !.timely = FALSE, !.peers[f2] = <<f1>>]
NoPriority == [Base EXCEPT !.priority = [n \in Node |-> 0]]
OneShard == [Base EXCEPT !.cluster = TRUE]

TwoShards == [OneShard EXCEPT !.leaderOf = [n \in Node |-> IF n = f2 THEN f2 ELSE l]]

MCConfigs == {Compose, NoPriority, OneShard, TwoShards}
================================================================================
