# A TLA+ verification project for gocache

gocache is an in-memory key-value server in Go: an LRU cache with TTLs, an
append-only file with snapshots, pub/sub, MULTI/EXEC transactions, leader-follower
replication with failover, and a sharded cluster mode. This directory holds TLA+
models of its core, the TLC configurations that check them on small instances, and
proofs that TLAPS checks for every instance. `PROJECT.json` lists the runs, maps
every definition to its source lines, and records the hazards.

    tlc -workers 2 -config cache.cfg MCCache     # one run
    tlapm PubSub_proofs.tla                      # the proofs of one module

## 1. Inventory of the system

| Component | State | Operations | Interacts with | Module |
|---|---|---|---|---|
| LRU list (`internal/lru`) | head, tail, prev/next of nodes | Add, MoveToFront, RemoveNode, RemoveLRU | called by the cache under `cache.mu` | `LRU`, `RecencyList`, `RecencyOrder` |
| Cache (`internal/cache/cache.go`) | map, LRU list, byte counter | Set, Get, Delete, CleanupExpired, the `...Internal` variants, Lock/Unlock | all handlers, recovery, followers | `Cache`; the Internal variants in `Transactions` |
| Persistence (`internal/persistence`) | AOF file, snapshot file, `aof.mu`, two background jobs | Append, periodicSync, CreateSnapshot, rewriteAOF, Close, NewAOF, RecoverAOF | copies the cache without `aof.mu`; fed by handlers | `Persistence` |
| Pub/sub (`internal/pubsub`) | three maps, one Subscriber and goroutine per subscribed connection | Subscribe, Unsubscribe, Publish, RemoveConnection, sendMessages | handlers; the deferred clean-up of a connection | `PubSub` |
| Transactions (`handler.go`) | queue and error flag of a connection | MULTI, queueing, EXEC, DISCARD | holds `cache.mu` over a whole EXEC, then logs and replicates | `Transactions` |
| Replication (`internal/replication`) | follower list, connections, replica caches, heartbeats | SYNC, Replicate, addFollower, removeFollower, reconnect, election probe, sendHeartbeats, monitorFollowerHealth, Close | fed by handlers; TCP | `Replication`, `Heartbeats` |
| Election and promotion (`follower.go`) | leaderAddr, promoted, priorities, a loop, monitors and elections per follower | Start, monitorLeaderHealth, startElection, findNewLeader, NewLeader | other nodes' replication ports; NodeState | `Failover` |
| Server and NodeState (`server.go`, `state.go`, `handler.go`) | role, leader, `ns.mu`; listener, active connections, wait group | accept loop, handleConnection, ShouldForwardRequest, SetRole, SetLeader, Stop | everything | `Node`; modes of a connection in `PubSub` and `Transactions` |
| Hash ring (`cluster/hash.go`, `migration.go`) | sorted hash values, owner of each, addresses | AddShard, RemoveShard, GetShard, CalculateMigrations(ForRemoval) | routing, migrator, health callbacks, clients | `HashRing` |
| Migration and CLUSTER commands (`cluster/migrator.go`, `transfer.go`, `cache/enumeration.go`, `cluster_commands.go`) | migrator mutex, running commands, caches and rings of the nodes | ADDNODE, REMOVENODE, TOPOLOGY, NODES, MigrateToNewNode, MigrateFromLeavingNode, TransferKeysBatch, VerifyTransfer | client writes on both sides | `Migration`, `Membership` |
| Health checker (`cluster/health.go`) | status and consecutive failures of each node | checkNode, callbacks | changes the ring; read by CLUSTER NODES | `Health` |
| Clients (`pkg/client`) | topology, ring, one connection per node | commands, redirects, refresh, Close | CLUSTER NODES, routing | `ClusterClient` |
| RESP parser, flags and YAML, logging, metrics | none that matters here | | | not modelled |

What makes each component correct, and what is hard about it:

* **Cache and list**: map and list in step over any mix of calls, bounded size, LRU
  eviction, an exact byte count. Sequential under one lock; the difficulty is long
  histories and edges (`maxSize` 0, negative TTLs, re-used nodes).
* **Persistence**: a restart brings back what was acknowledged. The cache, the log and
  the snapshot are changed under different locks; two jobs copy the cache first and swap
  files later; crashes and I/O errors fall between any two steps, also during recovery.
* **Pub/sub**: no panic (a send on, or a second close of, a Go channel), maps in
  agreement, at-most-once delivery, no leaked goroutine, while handlers, publishers and
  senders interleave and a connection re-subscribes before its old sender has ended.
* **Transactions**: isolation, all-or-nothing validation, no deadlock, a log that agrees
  with the cache.
* **Replication**: a connected follower converges and comes back after a failure;
  several connections of one follower overlap in the leader's list. No follower holds up
  the others or the clients.
* **Failover**: a shard whose leader is gone gets one new leader. There is no vote: only
  waits of 500 ms per step of priority and dials keep two followers apart, and a follower
  may run its loop, several monitors and several elections at once.
* **Server**: a promotion and Stop come between any two steps of a handler; locks are
  nested; writes are acknowledged only after they are logged; Stop returns.
* **Cluster**: each node has a ring of its own, changed by commands, by messages that may
  be lost and by callbacks in any order; keys move while clients write them.
* **Clients**: several goroutines share a ring and a map of connections with a refresh loop.

## 2. Modules, and how they correspond to the code

**RecencyOrder** defines sequences ordered by recency (`PushFront`, `Without`,
`ToFront`, `LeastRecent`). **RecencyList** is the abstract specification of an LRU list:
a sequence of keys with four operations. **LRU** is `lru.go` pointer by pointer:
`RemoveNode` has the four cases of the code, stale pointers of an unlinked node included.
`LRU` implements `RecencyList` under the mapping that reads the chain from `head` (`Walk`).

**Cache** is `cache.go` over a `RecencyOrder`. Each operation holds `c.mu` throughout and
is one action. `Set` is `Update` or `Insert`; `Insert` evicts first (`Victims`,
`EvictedBytes`), exactly in the code's order. `recent` is a history variable: the relation
"was used after". `CleanupExpired` removes the expired keys one after the other
(`WithoutAll`), as the code's loop over the map does.

**Persistence** has a writer's two steps (`CacheWrite`, then `AppendOp` or `AppendFails`: the
client is told OK either way), the sync ticker, the
two jobs step by step (copy, write temp file, swap with its failures), `Crash` with any
prefix of the unsynced records, `Close`, and recovery in four steps. `CreateSnapshot`
holds `aof.mu` from the rename to the truncation, so appends wait; `rewriteAOF` swaps in
one critical section. Files are sequences or sets of records, with the conversion of an
expiry into whole seconds and back modelled as the code does it (0 means "never"). The
policy is chosen in `Init` and stays. History variables (`allowed`, `logged`, `atRisk`,
`forgotten`, `early`) say which outcomes a recovery may have and which keys met one of
the known races; `effect` and `latest` tell a record that is appended after that of a later
write of its key (`Overtaken`).

**PubSub** has `mu` as a guard (`Exclusive`: no Publish under way) since writers' critical
sections are one action each, while a Publish is a sequence of steps
(`PublishStart`, `PublishTo` for each subscriber, `PublishEnd`) because several publishers
share the read lock and senders run meanwhile. A Subscriber is a record with its buffer,
closed flag and sender goroutine. `ok` is FALSE when a later argument of the command is
no string, which makes the handler return before it sets the mode.

**Transactions** has one handler per client and `cache.mu`. `EXEC` is `ExecLock`, an
`ExecStep` per queued command, an `ExecLog` per logged record and `ExecReply`. The log
stands for the AOF and the followers, who get the same records. `ExecIsAtomic` compares a
finished EXEC with a run of its queue on the cache it began with (`RunsAlone`);
`LogReplaysToCache` asks of each key what its last record makes of it (`Replays`); the history
variable `newest` says whether the last write of a key was overtaken on its way to the log.

**Replication** has the leader's list of connections (links), a `handleFollower` per
link, `Replicate` (copies the list, then sends), and the follower's loop with its
monitors and its election probe. Streams are FIFO and lose a suffix when a link breaks.
`missed` has the keys that may differ, among them those of which an older record is sent
behind a newer one (`MissedAfter`).

**Heartbeats** is the leader's side of the same list: the handlers in Replicate,
`sendHeartbeats` and `monitorFollowerHealth` each walk over a copy of the list (`Begin`,
`Lock`, `Write` or `CloseDead`, `Advance`) and take `follower.mu` for each entry. A Write waits
while the connection's buffer is full, for the code sets no deadline. `Stall` and `Reset` are
the follower's failures; `Close` waits for the two goroutines.

**Failover** is the life of a follower process: the loop of `Start` (`Connect`,
`ConnectFails`, `StreamFails`), its monitors (`LeaderTimeout`, `MonitorReturns`) and its
elections (`WaitIsOver`, `Found`, `NotFound`, `Stand`, `Bind` or `BindFails`, `Announce`),
with `Crash`, `Restart` and `BreakLink`. A configuration says who knows whom, the
priorities, and whether dials and binds take less than the 500 ms of a step
(`timely`); simple mode and cluster mode differ as in the code: in cluster mode the
configuration lists every node and a follower passes over itself, in simple mode it knows the
peers it was given. `Tick` is 500 ms.

**Node** is one server process: accept loop, handlers on their way through
`ShouldForwardRequest`, `GetLeader` and `GetRole` to the cache and the log, the promotion's
`SetRole` and `SetLeader`, and `Stop`, which waits in `leader.Close` for the heartbeats
(`LeaderEnded`) before it closes the listener. A follower of this leader may stop reading for a
while or for good (`FollowerStalls`): then neither a Replicate nor the heartbeats go on.
`ns.mu` is Go's RWMutex: a writer that waits keeps new
readers out, and `ShouldForwardRequest` reads twice.

**HashRing** holds the ring as a value (how often each place occurs, and who owns it) and the
functions of `hash.go` and `migration.go`; a shard that is added twice has two copies of
each place, of which a removal takes one.

**Migration** has one handler per cluster command, step by step: check, `Calculate` under
the migrator's mutex, `ListKeys`, `ReadValues`, `SendKey`/`SendFails`, `Verify`,
`DeleteKeys` or `Abort`, then `Notify` each node. Clients set and delete on any
node that serves the key by its own ring. Every node handles every command, also the pending
one ADDNODE of itself: it then has its places twice, and deletes what it has sent to itself. A
node may accept a transfer or a notification and say nothing (`Hang`). The pending node takes node ids for shards, as
`startPendingNode` does. The history variable `exposed` has the keys that met the known race:
written, by a client or by a transfer, on a node whose own migration has listed the key and
will delete it, or overwritten by a transfer with an older value. That a transfer can do the
former came out of the proof of `LatestValueSurvives`: with three commands two nodes can
each hold the key, send it to the other and delete it.

**Health** is the checker's state machine with its callbacks as separate steps, since each
is started as a goroutine. **ClusterClient** is `cluster_client.go` with the redirect of
`client.go`: requests of several goroutines, discoveries of the refresh loop and of a caller with
their connections to seeds, and Close, after which `getOrCreateConnection` dials on (`late`).
**Membership** composes the two: CLUSTER NODES is what the client learns of the
checker.

The MC modules only give values to constants.

## 3. Runs

| Run | Checks | Shows |
|---|---|---|
| `lru` | `DoublyLinked`, `ImplementsRecencyList` | after any history one doubly linked chain of exactly the nodes in use; every operation is that of the sequence |
| `cache` | `TypeOK`, `ListMatchesData`, `SizeBounded`, `MemoryExact`, `SortedByUse`, `EvictsLeastRecent` | the cache as a whole, with expiry and `CleanupExpired` |
| `persistence` | `TypeOK`, `FilesMatchCache`, `DurableUnlessAtRisk` | a key is lost, rolled back or stripped of its expiry only in one of the named races |
| `pubsub` | `TypeOK`, `MapsAgree`, `NoPanic`, `DeliveredOnceToAudience`, `ModeMatchesSubscriptions`, `NoOrphanSender` | pub/sub is safe under every interleaving |
| `transactions` | `TypeOK`, `ExecIsAtomic`, `LogReplaysToCache`, `EveryCommandAnswered` | EXEC is isolated and complete, the log agrees with the cache but for overtaken and failed writes, everybody is answered unless a transaction holds DBSIZE |
| `replication` | `TypeOK`, `ConvergedWhileListed` | a listed follower differs from the leader only in keys of the synchronisation window, deleted while it was away, or sent in the opposite order of two clients' writes |
| `replication_list` | `EntriesMatchHandlers`, `FollowersResync` | entries and handlers stay equal in number though handlers remove each other's entries; a follower comes back, also from losses during synchronisation and from a stale monitor |
| `heartbeats` | `OnlyAStalledWriteBlocks` | replication, heartbeats, monitor and Close all go on, unless a Write waits for a follower that has stopped reading |
| `failover` | `SplitBrainOnlyIfBlind`, `PriorityGoesFirst`, `ShardRegainsLeader` | two leaders only if one dialled the other in vain or was not told of it; the higher priority goes first; a shard with a candidate gets a leader |
| `node` | `TypeOK`, `LeaderServesWrites`, `AcknowledgedIsLogged`, `BlockedOnlyByNestedRead`, `StopCompletes` | promotion and Stop are safe beside handlers, and end but for the named cases |
| `migration` | `LatestValueSurvives`, `RingsAgree`, `CommandsEnd` | keys move without being lost but for the named race; all nodes come to the same owners; no command hangs unless a node accepts its connection and says nothing |
| `membership` | `RingFollowsHealth`, `MovesMatchOwnership`, `ConnectionsAccounted` | the ring follows the verdicts; ranges to move match ownership; no connection is leaked but those dialled after Close |

**Bounds.** *lru*: four nodes, so that a node in the middle has two neighbours on a side and is
re-used. *cache*: four keys for three slots, all lengths different so that a wrong
subtraction shows; the clock lets one item expire and another after it. *persistence*: one
key (keys meet only in the size of the log, and both jobs treat each key by itself), three
writes (before, during and after a job), one crash or shutdown, one I/O failure, TTLs met
whole, in the last second and expired, two clients that may overtake each other; policies `always` and `everysecond` (`no` behaves
as `everysecond` before its ticker fires). *pubsub*: two connections, two channels, two
Subscriber objects (a re-subscription beside the old sender), buffers of one, two
messages, symmetry in all three sets. *transactions*: a transaction of two commands
beside one of one command or plain commands, both clients writing one key. *replication*: three
connections (two overlapping ones of a follower and its probe), two writes of a key by one or two
clients around one loss and one election; *replication_list*: a follower, two losses in any
phase and an election, so up to four entries at once and a monitor that outlives its
connection, and enough connections that the bound never stops a redial. *heartbeats*: two followers
in either order, one client, buffers of one and one failure: a walk may meet the stalled
follower first or last. *failover*: a leader and two followers with two faults (the loss of
a leader and of its successor, or of a leader and a dial) and one restart, in four
configurations: that of `docker-compose.yml`, simple mode without priorities, one shard,
two shards. *node*: two handlers, all commands, both modes and both roles, a
follower that stops reading at any time. *migration*: two
members and a newcomer with a place in every position relative to one key (its hash is
chosen in `Init`), two commands on any nodes, the newcomer included, two writes, one lost message
or silent node; keys meet only in the transfer's success. *membership*: every way to lay four virtual nodes out on five
places (the fifth is a key), a threshold of two, three changes of a node's state or lost
pings, two goroutines, the first discovery and one refresh.

**Deadlock** is checked in `lru`, `cache` and `persistence`. In the others clients may stop
sending, connections end for good and bounded faults run out, so the system may come to rest.

**Fairness.** Clients, faults and restarts are never obliged to happen.
`Transactions`: weak fairness of every handler (the Go scheduler runs a
runnable goroutine) and strong fairness of waiting for `cache.mu`, because `sync.RWMutex`
does not starve a waiter. `Replication`: weak fairness of
handlers, of the follower's loop and of TCP delivery on an open connection. `Heartbeats`:
weak fairness of goroutines, tickers and a healthy follower's reading and
beating; strong fairness of `follower.mu`, since `sync.Mutex` hands itself over to a waiter
after 1 ms, and of leaving by `ctx.Done`, which `select` does not pass over for ever. `Failover`: goroutines
are scheduled and time passes. `Node`: accept loop, handlers, promotion and Stop are scheduled; a follower that
has stopped reading need not go on.
`Migration`: a command goes on unless it hangs (`CommandStep` is not enabled then), and nothing obliges a
hang to end: a transfer's dials and reads have deadlines, its Writes and the reading of a
notification's answer have none.

## 4. Proofs

Every theorem holds for all values of the constants: any number of keys, clients, nodes,
connections, commands and faults (the bounds of the runs are constants too). Each has the
form `Spec => []P` or `Spec => [][A]_vars`; the argument is an inductive invariant, checked
with TLC before it was proved, one lemma per action that it is kept, and one lemma that it
implies P. `PROJECT.json` lists the theorems with the property each one states.

| Module | Theorems | Inductive invariant, and why P alone is not inductive |
|---|---|---|
| `Cache_proofs` | `ListSound`, `ListImplementsOrder` (the refinement of `RecencyList` by `LRU`); `CacheTyped`, `MapAndListAgree`, `CacheBounded`, `ListInOrderOfUse`, `MemoryCounted`, `EvictionIsLRU` | `ListInv`: the chain that `DoublyLinked` asserts, over finitely many nodes. The proof gives the chain after each operation: without its p-th element, or with a new head; `WalkIsChain` says that following `next` meets it, so each operation is the sequence's. `CacheInv`: that the victim is the least recently used key needs `SortedByUse` (the list is sorted by the history of uses) and `ListMatchesData` (which carries it to the map). `MemoryExact` is inductive beside it; the work is in lemmas about sums and other folds over finite sets (a fold's recursive definition has a solution, any element may be taken first, parts add up) |
| `Persistence_proofs` | `PersistenceTyped`, `AcknowledgedIsDurable`, `FilesStandForCache` | `DiskInv`. The properties speak of the files; the invariant also speaks of what is about to become a file: the copies and temp files of the jobs (`CopiesAgree`) stand for the last append or a write whose append is to come, unless the key was appended since. The copies are right because the cache is (`Served`), of which the writer in `latest` owes the record; a sync may forget older outcomes because the whole log is (`DiskAgrees`); during recovery the cache is what has been read so far (`Recovering`) |
| `PubSub_proofs` | `PubSubTyped`, `ThreeMapsAgree`, `NeverPanics`, `SendersOwned`, `ModeIsSubscribed`, `DeliveredOnce` | `PubSubInv`: closing is safe because the subscriber a connection maps to is its own and open (`Attached`); sending is safe because whom a Publish has still to serve is open (`Serving`), which lasts because whoever closes holds `mu` while no Publish is under way. `ModeInv` for the mode. `DeliveryInv` follows a message to the socket: it is in one place (`OnePlace`), and one subscriber of a connection carries it (`OneCarrier`), also when the connection left and joined meanwhile |
| `Transactions_proofs` | `TransactionsTyped`, `TransactionsAtomic`, `LogStandsForCache` | `TransactionInv`: `cache.mu` is held by the EXEC that runs (`LockOwned`), whoever reaches the lock is in a transaction without error (`ExecWellFormed`), its queue is what was asked (`QueueIsAsked`), and what has run is a serial run of a prefix (`RunSoFar`). `LogInv`: of each key the cache has the last write whose record is still owed, by a plain command or an EXEC, or what the log says if none is (`InStep`) |
| `Replication_proofs` | `ReplicationTyped`, `EntriesCounted`, `FollowersConverge` | `BaseInv`: a stream is the copy first and then what was replicated. `EntriesInv` counts entries and handlers per follower id, since handlers remove each other's entries. `ConvergenceInv` says what a follower will hold once it has read its stream, unless the write is still to be sent over this connection or was missed |
| `Failover_proofs` | `SplitBrainExplained`, `HigherPriorityFirst` | `FailoverInv`: whom an election has still to dial and who did not answer are together all that its follower knows (`Looked`), which a follower that listens has recorded (`Blind`). `OrderInv`: elections that are ahead have less of their wait left, and `Tick` runs all waits down together |
| `Node_proofs` | `NodeTyped`, `WritesServedByLeader`, `LoggedBeforeAcknowledged` | `NodeInv`: who sees the new leader also sees the new role (`RoleBeforeLeader`), a command keeps what it saw (`CommandProgress`), and Stop closes the log when the accept loop and all handlers are over and none can begin (`StoppedForGood`) |
| `Cluster_proofs` | `AcknowledgedValueSurvives`, `NodesAgreeOnRing`, `RingIsHealthy`, `RangesFollowOwners`, `NoConnectionLost` | `SurvivalInv`: some node that has the value will not delete it (`Kept`), since what a handler sends is what its node holds (`Copied`). `RingsInv`: how far the rings have come while a command is handled, with the copies a newcomer may have of its own places. `HealthInv`: what a pending callback will change. `ConnsInv` and `SeedInv`: with its types, `ConnectionsAccounted` is inductive as it stands, for a goroutine dials and enters the map under one lock, and a discovery closes what it has dialled. `RangesFollowOwners` is about every ring: lemmas on the nearest virtual nodes around a place |

**Assumptions.** The named `ASSUME`s of the modules, which TLC evaluates in the runs: bounds
are natural numbers, buffers are positive, the `Nil`, `NoHandler`, `NoClient` and `NoShard` that
stand for Go's nil are none of the things they are told from, a client's commands are commands,
ring positions are numbers below some bound (a hash has 32 bits), virtual nodes of different shards do not
collide, a configuration is one that the configuration code can build. No theorem
assumes anything of who writes which key. The theorems about the ring and the clients are about `MembershipSpec`, the
composition that the run checks.

**Induction.** The library's induction theorems take an operator and cannot be used. What holds of
a fold for every finite set is proved by a smallest counterexample instead: well-foundedness
of the naturals is a first-order fact (`SmallestNumber`, `SmallestSubset` in `Cache_proofs`).

**Only model-checked**: liveness (`EveryCommandAnswered`, `FollowersResync`,
`OnlyAStalledWriteBlocks`, `ShardRegainsLeader`, `BlockedOnlyByNestedRead`, `StopCompletes`,
`CommandsEnd`), which is beyond the prover. Every other property of the runs is a theorem.

## 5. Where the code falls short of its documents

Every run passes: what follows was met while modelling and is named by the properties as
their exceptions, and can be seen by removing those.

Cache and persistence:

* A write fsynced between a snapshot's copy of the cache (`snapshot.go:48`) and its truncation of
  the log (`:135`) is lost, although `docs/configuration.md:144` says "zero data loss" of
  policy `always`: `atRisk` in `Persistence`.
* `rewriteAOF` writes only the keys that live and so drops their DELs (`aof.go:242`), while the older
  snapshot file may still hold a deleted key: a restart brings it back. `forgotten`.
* Expired items are never removed: `CleanupExpired` has no caller (`cache.go:180`), although
  `README.md:23` speaks of "auto-eviction at expiry".
* An append between `rewriteAOF`'s copy and its rename is lost (`aof.go:239`, `:297`), just
  as with a snapshot: `atRisk` in `Persistence`.
* A key in the last second of its TTL is written with TTL 0 and never expires after a
  restart (`snapshot.go:75`, `aof.go:257`): `InLastSecond`.
* The snapshot ticker runs during recovery (`aof.go:79`): `early`.
* A failed swap leaves the log closed while clients are told OK (`aof.go:304`); a failed Write or
  Sync of a single append is only logged, too (`aof.go:88`, `handler.go:871`).
* A replayed TTL counts anew from the restart (`recovery.go:61`): keys outlive their expiry, and
  one that had expired may be read again. `Agrees`.
* `README.md:28` promises configurable snapshot intervals; `snapshot.go:248` has five minutes.

Handlers, transactions and replication:

* Two writers of one key may be logged, or replicated, in the opposite order of their cache
  updates (`handler.go:871`, `leader.go:283`): `Overtaken`, `MissedAfter`.
* SUBSCRIBE or UNSUBSCRIBE with an argument that is no string handles the channels before it and
  leaves the mode as it was (`handler.go:667`): `malformed`.
* A SET with a bad TTL inside EXEC is answered with an error, not applied, and logged and
  replicated all the same (`handler.go:447`): the exception of `LogReplaysToCache`.
* DBSIZE inside a transaction waits for the lock its own handler holds (`handler.go:645`,
  `cache.go:219`), and the whole server with it: `WaitsForItself`.
* A transaction on a follower writes (`handler.go:403`), although `docs/api.md:17` says "Writes
  are only accepted on leader nodes."
* A write between the copy a follower is sent (`leader.go:128`) and `addFollower` (`:201`) never
  reaches it, although `docs/deployment.md:114` has a test that it should.
* A reconnecting follower keeps keys that were deleted meanwhile (`follower.go:282`): `missed`.
* `removeFollower` may drop the entry of a follower's live connection (`leader.go:247`); the
  follower then reads a stream that nobody writes to. This is why
  `ConvergedWhileListed` asks that the connection be listed.
* A follower that stops reading blocks a Write under `follower.mu` (`leader.go:286`): Replicate and
  so the clients, the heartbeats to all, the monitor that would close it, and Close.
  Healthy followers then miss heartbeats and elect. `Jammed`.
* A follower does not log what it applies (`follower.go:282`); promoted and restarted it has lost it.

Failover and server:

* `findNewLeader` dials the nodes of all shards (`follower.go:623`) and takes the first that
  answers, so a follower may go over to another shard's leader and its own shard stays without
  one, although `docs/deployment.md:292` says "Per-shard, same mechanism".
* In simple mode a follower knows only its own priority, so all wait equally long; the check of
  `--peer-repl-addrs` "preventing split-brain" (`docs/deployment.md:105`) fails when
  both dial before either binds, or only one is told of the other. A leader that comes back does
  not step down.
* A replication port that is taken ends the follower loop though nobody was promoted
  (`follower.go:597`). In simple mode failed dials never start an election.
* "Configurable election timeout" (`README.md:34`): 15 s are fixed in `follower.go`.
* A promoted member of a cluster still answers writes with MOVED to the leader its
  configuration names (`state.go:72`).
* `ShouldForwardRequest` takes `ns.mu` for reading twice (`state.go:37`, `:42`): with a promotion
  in between, the node stands still. `NestedReadBlocked`.
* A Stop before the listener exists does not end the accept loop, and a connection registered
  after Stop closed the others keeps it waiting (`server.go:198`, `:241`). So does a follower that has
  stopped reading: Stop first waits for the heartbeats (`server.go:231`, `leader.go:107`): `stalled`.
  Stop closes neither the listener of a
  promoted leader nor a follower's monitors. Cluster mode has no Stop.

Cluster:

* A write between the listing of keys and their deletion (`migrator.go:75`, `:127`) is lost, a key
  that goes in between arrives as "", TTLs are not sent, and the deletion is neither logged
  nor replicated: `exposed`.
* ADDNODE handled by the joining node itself adds its places twice (`cluster_commands.go:185`), and
  the keys it sends to itself it then deletes: `selfAdded`, `exposed`.
* A notification is read without a deadline (`cluster_commands.go:342`), and a transfer's Write has none
  (`transfer.go:235`): a node that accepts and says nothing holds the command up. `hung`.
* `VerifyTransfer` passes whatever the target holds (`transfer.go:344`): a missing key is
  answered by "", not nil.
* ADDNODE moves only the keys of the node that handles it. REMOVENODE at a member aborts, as
  shard ids have no address; of an unknown node it is not answered.
* A shard added while running has no entry in `shardToNodes`, so every old member serves its keys
  itself; the pending node's ring is made of node ids.
* Ranges are [start, end) where ownership is (start, end], and of neighbouring virtual nodes of
  a leaver only the last range moves (`migration.go:118`): the exceptions of
  `MovesMatchOwnership`. `CalculateMigrations` panics on an empty ring.
* Health callbacks take node ids for shard ids (`server.go:448`): a recovered node becomes a shard
  nobody configured. Their order is open: `overlapped`.
* CLUSTER NODES says "alive", or "dead" of the node itself, where the client wants "active"
  (`cluster_client.go:166`). The client's ring is never cleared. It reads the host of
  "MOVED id host:port" as "id host", fails to dial, and keeps a closed
  connection for good; its refresh after MOVED is never reached. After Close a request dials again, and that connection is
  never closed, for a second Close panics (`cluster_client.go:459`): `late`. Close itself waits for a
  discovery that reads a seed's answer without a deadline.

## 6. Not modelled

Bytes (RESP, JSON of a record, torn records after a crash, replication messages), flags and YAML,
logging and metrics: sequential, without state the properties depend on. The plain client's
formatting and its transaction pipeline. Sequence numbers, which nobody
compares. Eviction and expiry in
replicas and in the persistence, transaction and migration models, which treat the cache as a map.
Batches of a transfer. `HealthChecker.Stop`, `UnregisterNode` and the unused scans of
`enumeration.go`, which have no caller. sha-256 is an arbitrary function without collisions.

## 7. Plan

1. **Torn records**: `ReadOperations` on a log whose last record is incomplete and is appended to.
2. **Composition** of `Transactions` and `Persistence` (a crash within EXEC), and of `Failover` and
   `Replication` (which acknowledged writes a promotion drops).
3. **Abstract specifications**: a linearizable map that `Transactions` implements, and a
   durable map that `Persistence` implements outside the named races. `ExecIsAtomic`,
   `LogReplaysToCache` and `DurableUnlessAtRisk`, which are proved, are the step to each.
