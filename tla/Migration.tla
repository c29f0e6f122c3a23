------------------------------- MODULE Migration -------------------------------
(***************************************************************************)
(* Growing and shrinking a cluster: CLUSTER ADDNODE, REMOVENODE and         *)
(* TOPOLOGY (server/cluster_commands.go), the migrator                      *)
(* (cluster/migrator.go, transfer.go, cache/enumeration.go) and the routing *)
(* of clients meanwhile (NodeState.ShouldForwardRequest).                   *)
(*                                                                          *)
(* Abstractions.  Every shard is its leader.  Newcomer is the node that     *)
(* comes and goes; it starts as a pending node, which knows the others by   *)
(* their node ids, and takes those for shards.  A command is handled by the *)
(* node at, and works on that node's cache and ring only.  Batches are left *)
(* out: the keys of a task are sent one by one.  The order of the tasks is  *)
(* open, in the code it is that of the virtual nodes.                       *)
(***************************************************************************)
EXTENDS HashRing

CONSTANTS Member,    \* the configured nodes
          Newcomer,
          Key,
          MaxCommands, \* bound on cluster commands
          vnode,     \* the places of each name
          ShardOf,   \* the shard that a member leads
          MaxWrites, \* bound on client writes
          MaxFaults  \* bound on lost messages and nodes that say nothing

Node == Member \cup {Newcomer}
Command == 1..MaxCommands  \* numbered as they come
NoCommand == 0
NoNode == "no node"
NoTask == [to |-> NoShard, start |-> 0, end |-> -1]

\* Values are numbered by the writes; Empty is "", what a value that is gone
\* meanwhile is sent as.
None == 0
Empty == -1

\* No two virtual nodes have the same hash: sha-256 makes that unlikely.
ASSUME VnodeAssumption ==
  /\ Shard = Node \cup {ShardOf[n] : n \in Member}
  /\ vnode \in [Shard -> (SUBSET Pos) \ {{}}]
  /\ \A s, t \in Shard : s # t => vnode[s] \cap vnode[t] = {}
\* The newcomer is in no configuration, and no shard has its name.
ASSUME NewcomerAssumption ==
  Newcomer \notin Member /\ (\A m \in Member : ShardOf[m] # Newcomer) /\ NoShard \notin Shard
ASSUME MigrationBoundAssumption == {MaxCommands, MaxWrites, MaxFaults} \subseteq Nat

VARIABLES
  hash,     \* [Key -> its hash]
  ring,     \* [Node -> nodeState.hashRing]
  known,    \* [Node -> the ids with a nodeAddresses entry that is not ""]
  cache,    \* [Node -> [Key -> value]]
  migrator, \* [Node -> the command that holds Migrator.mu]
  cmd,      \* [Command -> its handler]
  hung,     \* commands inside a Write, or a read without a deadline, that does not return
  writes, faults,
  \* History, not code:
  latest,   \* [Key -> the value last acknowledged]
  exposed,  \* keys written under a migration's feet
  selfAdded,\* the newcomer has handled an ADDNODE of itself
  unsound   \* a command failed, was not heard of, or met another

vars == <<hash, ring, known, cache, migrator, cmd, hung, writes, faults, latest, exposed, selfAdded,
          unsound>>

Idle == [kind |-> "none", at |-> NoNode, phase |-> "none", tasks |-> {}, task |-> NoTask,
         keys |-> {}, values |-> [k \in Key |-> None], failed |-> FALSE, notify |-> {}]

AddAll(r, names) == [count |-> [p \in Pos |-> IF \E s \in names : p \in vnode[s] THEN 1 ELSE r.count[p]],
                     owner |-> [p \in Pos |-> IF \E s \in names : p \in vnode[s]
                                              THEN CHOOSE s \in names : p \in vnode[s] ELSE r.owner[p]]]

\* StartClusterMode adds the shards, startPendingNode the nodes.
StartRing(n) == AddAll(EmptyRing, IF n \in Member THEN {ShardOf[m] : m \in Member} ELSE Member)

Init ==
  /\ hash \in [Key -> Pos]
  /\ ring = [n \in Node |-> StartRing(n)]
  /\ known = [n \in Node |-> Member]
  /\ cache = [n \in Node |-> [k \in Key |-> None]]
  /\ migrator = [n \in Node |-> NoCommand]
  /\ cmd = [c \in Command |-> Idle]
  /\ hung = {} /\ writes = 0 /\ faults = 0
  /\ latest = [k \in Key |-> None]
  /\ exposed = {} /\ selfAdded = FALSE /\ unsound = FALSE

--------------------------------------------------------------------------------
\* Clients.

\* ShouldForwardRequest: a node without a shard serves everything, a member
\* also what belongs to a shard whose leader it does not know (a shard added
\* while it runs, which SetShardNodes was never called for).
Serves(n, k) ==
  LET s == GetShard(ring[n], hash[k]) IN
  n \in Member => s = ShardOf[n] \/ \A m \in Member : s # ShardOf[m]

\* The migrations that have listed the key and not deleted it yet.
UnderWay(n, k) ==
  \E c \in Command : cmd[c].at = n /\ cmd[c].phase \in {"read", "send", "verify"} /\ k \in cmd[c].keys

Set(n, k) ==
  /\ Serves(n, k) /\ writes < MaxWrites
  /\ writes' = writes + 1
  /\ cache' = [cache EXCEPT ![n][k] = writes']
  /\ latest' = [latest EXCEPT ![k] = writes']
  /\ exposed' = IF UnderWay(n, k) THEN exposed \cup {k} ELSE exposed \ {k}
  /\ UNCHANGED <<hash, ring, known, migrator, cmd, hung, faults, selfAdded, unsound>>

Del(n, k) ==
  /\ Serves(n, k) /\ cache[n][k] # None
  /\ cache' = [cache EXCEPT ![n][k] = None]
  /\ latest' = [latest EXCEPT ![k] = None]
  /\ UNCHANGED <<hash, ring, known, migrator, cmd, hung, writes, faults, exposed, selfAdded, unsound>>

--------------------------------------------------------------------------------
\* CLUSTER ADDNODE and REMOVENODE.

Active(c) == cmd[c].phase \notin {"none", "done"}

\* Whether the node is there is checked before the migrator's mutex is taken.
\* A REMOVENODE of a node that is not there ends here, without a reply.  Any node
\* handles these commands, a pending one also the ADDNODE of itself.
Begin(c, kind, n) ==
  /\ cmd[c].phase = "none" /\ (\A d \in 1..(c - 1) : cmd[d].phase # "none")
  /\ (Newcomer \in GetAllShards(ring[n])) = (kind = "remove")
  /\ cmd' = [cmd EXCEPT ![c] = [Idle EXCEPT !.kind = kind, !.at = n, !.phase = "checked"]]
  /\ unsound' = (unsound \/ \E d \in Command : Active(d))
  /\ selfAdded' = (selfAdded \/ (kind = "add" /\ n = Newcomer))
  /\ UNCHANGED <<hash, ring, known, cache, migrator, hung, writes, faults, latest, exposed>>

\* The tasks of ADDNODE are computed before, its ring changed after; REMOVENODE
\* changes the ring at its end.
Calculate(c) ==
  LET n == cmd[c].at IN
  /\ cmd[c].phase = "checked" /\ migrator[n] = NoCommand
  /\ migrator' = [migrator EXCEPT ![n] = c]
  /\ \/ /\ cmd[c].kind = "add"
        /\ cmd' = [cmd EXCEPT ![c].phase = "tasks",
                              ![c].tasks = CalculateMigrations(ring[n], vnode, Newcomer)]
        /\ ring' = [ring EXCEPT ![n] = AddShard(@, vnode, Newcomer)]
        /\ known' = [known EXCEPT ![n] = @ \cup {Newcomer}]
     \/ /\ cmd[c].kind = "remove"
        /\ cmd' = [cmd EXCEPT ![c].phase = "tasks",
                              ![c].tasks = CalculateMigrationsForRemoval(ring[n], vnode, Newcomer)]
        /\ UNCHANGED <<ring, known>>
  /\ UNCHANGED <<hash, cache, hung, writes, faults, latest, exposed, selfAdded, unsound>>

\* GetKeysInHashRange; a task without keys is skipped.
ListKeys(c, t) ==
  LET keys == {k \in Key : cache[cmd[c].at][k] # None /\ InRange(hash[k], t)} IN
  /\ cmd[c].phase = "tasks" /\ t \in cmd[c].tasks
  /\ cmd' = [cmd EXCEPT ![c].tasks = @ \ {t}, ![c].task = t, ![c].keys = keys,
                        ![c].phase = IF keys = {} THEN "tasks" ELSE "read"]
  /\ UNCHANGED <<hash, ring, known, cache, migrator, hung, writes, faults, latest, exposed, selfAdded, unsound>>

\* A key that is gone by now is sent as "" all the same.
ReadValues(c) ==
  /\ cmd[c].phase = "read"
  /\ cmd' = [cmd EXCEPT ![c].phase = "send",
                        ![c].values = [k \in Key |-> IF k \notin cmd[c].keys THEN None
                                                     ELSE IF cache[cmd[c].at][k] = None THEN Empty
                                                     ELSE cache[cmd[c].at][k]]]
  /\ UNCHANGED <<hash, ring, known, cache, migrator, hung, writes, faults, latest, exposed, selfAdded, unsound>>

ToSend(c) == {k \in Key : cmd[c].values[k] # None}

\* ADDNODE comes with the address; REMOVENODE looks it up in nodeAddresses, which
\* is by node id: a shard has none.
HasAddress(c) == cmd[c].kind = "add" \/ cmd[c].task.to \in known[cmd[c].at]

\* The target carries out the SET.
Store(c, k) ==
  LET t == cmd[c].task.to IN
  /\ cache' = [cache EXCEPT ![t][k] = cmd[c].values[k]]
  /\ exposed' = IF UnderWay(t, k) \/ (cache[t][k] = latest[k] /\ latest[k] # cmd[c].values[k])
                THEN exposed \cup {k} ELSE exposed

\* SET on the target, which may be asked to serve a key it does not own.
SendKey(c, k) ==
  /\ cmd[c].phase = "send" /\ HasAddress(c) /\ k \in ToSend(c)
  /\ Serves(cmd[c].task.to, k)
  /\ Store(c, k)
  /\ cmd' = [cmd EXCEPT ![c].values[k] = None]
  /\ UNCHANGED <<hash, ring, known, migrator, hung, writes, faults, latest, selfAdded, unsound>>

\* The answer is MOVED, or there is none, whether the SET has arrived or not.
\* The other keys are sent all the same.
SendFails(c, k) ==
  /\ cmd[c].phase = "send" /\ HasAddress(c) /\ k \in ToSend(c)
  /\ \/ ~Serves(cmd[c].task.to, k) /\ UNCHANGED <<cache, exposed, faults>>
     \/ /\ Serves(cmd[c].task.to, k) /\ faults < MaxFaults
        /\ faults' = faults + 1
        /\ Store(c, k) \/ UNCHANGED <<cache, exposed>>
  /\ cmd' = [cmd EXCEPT ![c].values[k] = None, ![c].failed = TRUE]
  /\ UNCHANGED <<hash, ring, known, migrator, hung, writes, latest, selfAdded, unsound>>

\* A plausible bug: keys that failed are deleted with the others.
MayDeleteAnyway(c) == TRUE

MayDelete(c) == ~cmd[c].failed

\* VerifyTransfer: a key that is missing is answered by "", not by nil, so it
\* passes whenever the target answers.
Verify(c) ==
  /\ cmd[c].phase = "send" /\ HasAddress(c) /\ ToSend(c) = {} /\ MayDelete(c)
  /\ cmd' = [cmd EXCEPT ![c].phase = "verify"]
  /\ UNCHANGED <<hash, ring, known, cache, migrator, hung, writes, faults, latest, exposed, selfAdded, unsound>>

\* Deleted here only: not from the log, nor on the followers.
DeleteKeys(c) ==
  /\ cmd[c].phase = "verify"
  /\ cache' = [cache EXCEPT ![cmd[c].at] = [k \in Key |-> IF k \in cmd[c].keys THEN None ELSE @[k]]]
  /\ cmd' = [cmd EXCEPT ![c].phase = "tasks", ![c].keys = {}]
  /\ UNCHANGED <<hash, ring, known, migrator, hung, writes, faults, latest, exposed, selfAdded, unsound>>

\* A plausible bug: an early return without the deferred Unlock.
KeepMutex(n) == migrator

Release(n) == [migrator EXCEPT ![n] = NoCommand]

\* There is nowhere to send to, the transfer failed, or the verification has no
\* answer.  What has been sent and the ring stay as they are.
Abort(c) ==
  /\ cmd[c].phase = "send"
  /\ \/ ~HasAddress(c) /\ UNCHANGED faults
     \/ HasAddress(c) /\ ToSend(c) = {} /\ ~MayDelete(c) /\ UNCHANGED faults
     \/ HasAddress(c) /\ ToSend(c) = {} /\ MayDelete(c) /\ faults < MaxFaults /\ faults' = faults + 1
  /\ migrator' = Release(cmd[c].at)
  /\ cmd' = [cmd EXCEPT ![c] = [Idle EXCEPT !.phase = "done"]]
  /\ unsound' = TRUE
  /\ UNCHANGED <<hash, ring, known, cache, hung, writes, latest, exposed, selfAdded>>

\* A removal that had no tasks also clears the newcomer's address: every place of
\* it is followed by another of its own, which takes one that was added twice.
Migrated(c) ==
  LET n == cmd[c].at
      removal == cmd[c].kind = "remove" IN
  /\ cmd[c].phase = "tasks" /\ cmd[c].tasks = {}
  /\ migrator' = Release(n)
  /\ cmd' = [cmd EXCEPT ![c].phase = "notify", ![c].notify = (Member \ {n}) \cup {Newcomer}]
  /\ ring' = [ring EXCEPT ![n] = IF removal THEN RemoveShard(@, vnode, Newcomer) ELSE @]
  /\ known' = [known EXCEPT ![n] = IF removal /\ cmd[c].task = NoTask THEN @ \ {Newcomer} ELSE @]
  /\ UNCHANGED <<hash, cache, hung, writes, faults, latest, exposed, selfAdded, unsound>>

\* A plausible bug: REMOVE is acknowledged and ignored.
TopologyAddOnly(kind, n) == IF kind = "add" THEN AddShard(ring[n], vnode, Newcomer) ELSE ring[n]

\* handleClusterTopology, which adds what is there already once more.
Topology(kind, n) ==
  IF kind = "add" THEN AddShard(ring[n], vnode, Newcomer) ELSE RemoveShard(ring[n], vnode, Newcomer)

\* The newcomer is told of its leaving only if its address is still there.
Told(c, n) == n = Newcomer /\ cmd[c].kind = "remove" => Newcomer \in known[cmd[c].at]

\* The others before the newcomer.
Notify(c, n) ==
  /\ cmd[c].phase = "notify" /\ n \in cmd[c].notify
  /\ n = Newcomer => cmd[c].notify = {Newcomer}
  /\ cmd' = [cmd EXCEPT ![c].notify = @ \ {n}]
  /\ \/ /\ Told(c, n)
        /\ ring' = [ring EXCEPT ![n] = Topology(cmd[c].kind, n)]
        /\ known' = [known EXCEPT ![n] = IF cmd[c].kind = "add" THEN @ \cup {Newcomer} ELSE @ \ {Newcomer}]
        /\ UNCHANGED <<faults, unsound>>
     \/ /\ Told(c, n) /\ faults < MaxFaults
        /\ faults' = faults + 1
        /\ unsound' = TRUE
        /\ UNCHANGED <<ring, known>>
     \/ ~Told(c, n) /\ UNCHANGED <<ring, known, faults, unsound>>
  /\ UNCHANGED <<hash, cache, migrator, hung, writes, latest, exposed, selfAdded>>

Reply(c) ==
  /\ cmd[c].phase = "notify" /\ cmd[c].notify = {}
  /\ cmd' = [cmd EXCEPT ![c] = [Idle EXCEPT !.phase = "done"]]
  /\ UNCHANGED <<hash, ring, known, cache, migrator, hung, writes, faults, latest, exposed, selfAdded, unsound>>

--------------------------------------------------------------------------------
\* Nodes that accept a connection and say nothing.

OnlyHung ==
  UNCHANGED <<hash, ring, known, cache, migrator, cmd, writes, latest, exposed, selfAdded, unsound>>

\* The dials and reads of a transfer and of its verification have deadlines, the
\* Writes have none and wait once the buffers are full; of a notification only the
\* dial has one.
Hang(c) ==
  /\ c \notin hung /\ faults < MaxFaults
  /\ \/ cmd[c].phase = "send" /\ HasAddress(c)
     \/ cmd[c].phase = "notify" /\ cmd[c].notify # {}
  /\ hung' = hung \cup {c} /\ faults' = faults + 1
  /\ OnlyHung

\* The node reads and answers after all, or the connection breaks.
HangEnds(c) ==
  /\ c \in hung
  /\ hung' = hung \ {c} /\ UNCHANGED faults
  /\ OnlyHung

--------------------------------------------------------------------------------
CommandStep(c) ==
  /\ c \notin hung
  /\ \/ Calculate(c) \/ ReadValues(c) \/ Verify(c) \/ DeleteKeys(c) \/ Abort(c) \/ Migrated(c) \/ Reply(c)
     \/ \E t \in cmd[c].tasks : ListKeys(c, t)
     \/ \E k \in Key : SendKey(c, k) \/ SendFails(c, k)
     \/ \E n \in Node : Notify(c, n)

Next ==
  \/ \E n \in Node, k \in Key : Set(n, k) \/ Del(n, k)
  \/ \E c \in Command :
       \/ CommandStep(c) \/ Hang(c) \/ HangEnds(c)
       \/ \E kind \in {"add", "remove"}, n \in Node : Begin(c, kind, n)

Spec == Init /\ [][Next]_vars

\* A handler that is not hung is scheduled; nothing makes a node read or answer.
FairSpec == Spec /\ \A c \in Command : WF_vars(CommandStep(c))

--------------------------------------------------------------------------------
\* The value last acknowledged is on some node, however writes, migrations and
\* failed transfers interleave, unless the key was written on a node, by a client
\* or by a transfer, between the listing of its keys and their deletion there, or
\* a transfer overwrote a newer value on its target (migrator.go:83-131).  A
\* newcomer's ADDNODE of itself transfers to itself, and deletes what it sent.
LatestValueSurvives ==
  \A k \in Key \ exposed : latest[k] # None => \E n \in Node : cache[n][k] = latest[k]

\* When every command has been carried out and heard, one after the other, all
\* nodes agree whether the newcomer is in the ring, and the ring is the one
\* that starting with these shards would have built (cluster_commands.go:40-75,
\* migrator.go:43, 225).  Only a newcomer that has handled its own ADDNODE may
\* have its places in its own ring more often than it should: the migrator adds
\* it and its TOPOLOGY ADD adds it again (cluster_commands.go:185); who owns which
\* place is right there, too.
RingsAgree ==
  ~unsound /\ (\A c \in Command : ~Active(c)) =>
    \E names \in {{}, {Newcomer}} : \A n \in Node :
      LET fresh == AddAll(StartRing(n), names) IN
      /\ ring[n].owner = fresh.owner
      /\ ring[n] = fresh \/ (n = Newcomer /\ selfAdded)

\* Every command comes to its end, also one that waits for another's migration
\* (Migrator.mu), unless a node accepts the connection and then neither reads nor
\* answers: for ever if it was to be notified (cluster_commands.go:342), or in a
\* transfer's Write, with the mutex held (transfer.go:235).  Once they are only
\* notifying, a command that hangs keeps no other from its end.
CommandsEnd ==
  \A c \in Command :
    []<>(~Active(c) \/ c \in hung \/ (cmd[c].phase = "checked" /\ migrator[cmd[c].at] \in hung))
================================================================================
