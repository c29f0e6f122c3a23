----------------------------- MODULE Cluster_proofs -----------------------------
(***************************************************************************)
(* For any nodes, keys, rings, commands, writes and faults: what was        *)
(* acknowledged survives a migration (Migration.tla), the nodes agree on    *)
(* the ring, the ring follows the health checker, the ranges to move are    *)
(* those that change owner, and a client loses no connection but those that *)
(* it dials after its Close (Membership.tla).                               *)
(*                                                                          *)
(* LatestValueSurvives says that some node has the value.  The invariant    *)
(* says that one of those nodes will not delete it (Kept), which needs that *)
(* what a handler sends is what its node holds (Copied).  RingsAgree is     *)
(* about moments of rest.  The invariant says how far the rings have come   *)
(* while a command is handled (RingsInStep), one command at a time.         *)
(* RingFollowsHealth is about moments without callbacks.  The invariant     *)
(* says what a pending callback will change (Fits).  MovesMatchOwnership    *)
(* holds of every ring: the lemmas on First and Last are about the nearest  *)
(* virtual nodes around a place.                                            *)
(***************************************************************************)
EXTENDS Migration, Membership, FiniteSetTheorems, TLAPS

--------------------------------------------------------------------------------
\* The handlers of the cluster commands.

Phase == {"none", "checked", "tasks", "read", "send", "verify", "notify", "done"}

\* A handler's state, whatever its tasks are.
IsCommand(r) ==
  /\ r = [kind |-> r.kind, at |-> r.at, phase |-> r.phase, tasks |-> r.tasks, task |-> r.task,
          keys |-> r.keys, values |-> r.values, failed |-> r.failed, notify |-> r.notify]
  /\ r.kind \in {"none", "add", "remove"} /\ r.phase \in Phase
  /\ r.at \in Node \cup {NoNode}
  /\ r.keys \subseteq Key /\ r.values \in [Key -> Int] /\ r.failed \in BOOLEAN
  /\ \A t \in r.tasks : t # NoTask
  \* ADDNODE moves keys to the newcomer only.
  /\ r.kind = "add" => \A t \in r.tasks : t.to = Newcomer
  /\ r.kind = "add" /\ r.phase \in {"read", "send"} => r.task.to = Newcomer
  /\ r.phase \notin {"none", "done"} => r.kind \in {"add", "remove"} /\ r.at \in Node

MigrationTyped ==
  /\ DOMAIN cmd = Command /\ \A c \in Command : IsCommand(cmd[c])
  /\ cmd = [c \in Command |-> cmd[c]]
  /\ cache \in [Node -> [Key -> Int]] /\ latest \in [Key -> Int]
  /\ known \in [Node -> SUBSET Node]
  /\ writes \in Nat

LEMMA IdleCommand ==
  ASSUME NEW r, r = Idle
  PROVE  /\ IsCommand(r) /\ r.phase = "none" /\ r.kind = "none" /\ r.at = NoNode /\ r.tasks = {}
         /\ r.keys = {} /\ r.notify = {} /\ r.failed = FALSE
  <1>1. [k \in Key |-> None] \in [Key -> Int]
    BY DEF None
  <1>2. QED
    BY <1>1 DEF Idle, IsCommand, Phase

LEMMA MigrationTypedInit == Init => MigrationTyped
  <1> SUFFICES ASSUME Init PROVE MigrationTyped
    OBVIOUS
  <1>1. cmd = [c \in Command |-> Idle]
    BY DEF Init
  <1>2. \A c \in Command : IsCommand(cmd[c])
    BY <1>1, IdleCommand
  <1>3. QED
    BY <1>1, <1>2 DEF Init, MigrationTyped, None, Node

\* One handler's step: c becomes s, the others stay.
Becomes(c, s) == cmd' = [cmd EXCEPT ![c] = s]

LEMMA BecomesTyped ==
  ASSUME MigrationTyped, NEW c \in Command, NEW s, IsCommand(s), Becomes(c, s)
  PROVE  /\ DOMAIN cmd' = Command /\ cmd' = [d \in Command |-> cmd'[d]]
         /\ cmd'[c] = s /\ \A d \in Command : d # c => cmd'[d] = cmd[d]
         /\ \A d \in Command : IsCommand(cmd[d]) /\ IsCommand(cmd'[d])
  <1>1. /\ DOMAIN cmd' = Command /\ cmd' = [d \in Command |-> cmd'[d]]
        /\ cmd'[c] = s /\ \A d \in Command : d # c => cmd'[d] = cmd[d]
    BY DEF MigrationTyped, Becomes
  <1>2. \A d \in Command : IsCommand(cmd[d])
    BY DEF MigrationTyped
  <1>3. QED
    BY <1>1, <1>2

LEMMA BeginFields ==
  ASSUME MigrationTyped, NEW c \in Command, NEW kind \in {"add", "remove"}, NEW n \in Node, Begin(c, kind, n)
  PROVE  \E s : /\ IsCommand(s) /\ Becomes(c, s)
                /\ s.phase = "checked" /\ s.kind = kind /\ s.at = n /\ s.keys = {} /\ s.values = [k \in Key |-> None]
  <1>1. PICK s : s = [Idle EXCEPT !.kind = kind, !.at = n, !.phase = "checked"]
    OBVIOUS
  <1>2. [k \in Key |-> None] \in [Key -> Int]
    BY DEF None
  <1>3. s = [kind |-> kind, at |-> n, phase |-> "checked", tasks |-> {}, task |-> NoTask,
             keys |-> {}, values |-> [k \in Key |-> None], failed |-> FALSE, notify |-> {}]
    BY <1>1 DEF Idle
  <1>4. IsCommand(s)
    BY <1>2, <1>3 DEF IsCommand, Phase
  <1>5. Becomes(c, s)
    BY <1>1 DEF Begin, Becomes
  <1>6. QED
    BY <1>3, <1>4, <1>5

LEMMA CalculateFields ==
  ASSUME MigrationTyped, NEW c \in Command, Calculate(c)
  PROVE  \E s : /\ IsCommand(s) /\ Becomes(c, s) /\ cmd[c].phase = "checked"
                /\ s.phase = "tasks" /\ s.kind = cmd[c].kind /\ s.at = cmd[c].at
                /\ s.keys = cmd[c].keys /\ s.values = cmd[c].values
                /\ s.kind = "remove" => s.tasks = CalculateMigrationsForRemoval(ring[s.at], vnode, Newcomer)
  <1>1. PICK r : r = cmd[c]
    OBVIOUS
  <1>2. IsCommand(r) /\ r.phase = "checked"
    BY <1>1 DEF MigrationTyped, Calculate
  <1>3. PICK ts : ts = IF r.kind = "add" THEN CalculateMigrations(ring[r.at], vnode, Newcomer)
                       ELSE CalculateMigrationsForRemoval(ring[r.at], vnode, Newcomer)
    OBVIOUS
  <1>4. (r.kind = "add" => \A t \in ts : t.to = Newcomer) /\ \A t \in ts : t # NoTask
    <2>1. \A v \in vnode[Newcomer] : v \in Nat /\ v # -1
      BY VnodeAssumption, PosAssumption DEF Node
    <2>2. CASE r.kind = "add"
      <3>1. \A t \in ts : t.to = Newcomer /\ t.end \in vnode[Newcomer]
        BY <1>3, <2>2 DEF CalculateMigrations
      <3>2. QED
        BY <2>1, <3>1 DEF NoTask
    <2>3. CASE r.kind # "add"
      <3>1. \A t \in ts : t.end \in vnode[Newcomer]
        BY <1>3, <2>3 DEF CalculateMigrationsForRemoval
      <3>2. QED
        BY <2>1, <2>3, <3>1 DEF NoTask
    <2>4. QED
      BY <2>2, <2>3
  <1>5. PICK s : s = [r EXCEPT !.phase = "tasks", !.tasks = ts]
    OBVIOUS
  <1>6. s = [kind |-> r.kind, at |-> r.at, phase |-> "tasks", tasks |-> ts, task |-> r.task,
             keys |-> r.keys, values |-> r.values, failed |-> r.failed, notify |-> r.notify]
    BY <1>2, <1>5 DEF IsCommand
  <1>7. IsCommand(s)
    BY <1>2, <1>4, <1>6 DEF IsCommand, Phase
  <1>8. Becomes(c, s)
    <2>1. CASE cmd[c].kind = "add"
      BY <1>1, <1>3, <1>5, <2>1 DEF Calculate, Becomes, MigrationTyped
    <2>2. CASE cmd[c].kind = "remove"
      BY <1>1, <1>3, <1>5, <2>2 DEF Calculate, Becomes, MigrationTyped
    <2>3. QED
      BY <2>1, <2>2 DEF Calculate
  <1>9. QED
    BY <1>1, <1>2, <1>3, <1>6, <1>7, <1>8

LEMMA ListKeysFields ==
  ASSUME MigrationTyped, NEW c \in Command, NEW t \in cmd[c].tasks, ListKeys(c, t)
  PROVE  \E s : /\ IsCommand(s) /\ Becomes(c, s) /\ cmd[c].phase = "tasks"
                /\ s.phase \in {"tasks", "read"} /\ s.kind = cmd[c].kind /\ s.at = cmd[c].at
                /\ s.values = cmd[c].values /\ s.task # NoTask
  <1>1. PICK r : r = cmd[c]
    OBVIOUS
  <1>2. IsCommand(r) /\ r.phase = "tasks" /\ t \in r.tasks
    BY <1>1 DEF MigrationTyped, ListKeys
  <1>3. PICK keys : /\ keys = {k \in Key : cache[cmd[c].at][k] # None /\ InRange(hash[k], t)}
                    /\ keys \subseteq Key
    OBVIOUS
  <1>4. PICK ph \in {"tasks", "read"} : ph = IF keys = {} THEN "tasks" ELSE "read"
    OBVIOUS
  <1>5. PICK s : s = [r EXCEPT !.tasks = @ \ {t}, !.task = t, !.keys = keys, !.phase = ph]
    OBVIOUS
  <1>6. s = [kind |-> r.kind, at |-> r.at, phase |-> ph, tasks |-> r.tasks \ {t}, task |-> t,
             keys |-> keys, values |-> r.values, failed |-> r.failed, notify |-> r.notify]
    BY <1>2, <1>5 DEF IsCommand
  <1>7. IsCommand(s)
    BY <1>2, <1>3, <1>4, <1>6 DEF IsCommand, Phase
  <1>8. Becomes(c, s)
    BY <1>1, <1>3, <1>4, <1>5 DEF ListKeys, Becomes, MigrationTyped
  <1>9. s.task # NoTask
    BY <1>2, <1>6 DEF IsCommand
  <1>10. QED
    BY <1>1, <1>2, <1>4, <1>6, <1>7, <1>8, <1>9

LEMMA ReadValuesFields ==
  ASSUME MigrationTyped, NEW c \in Command, ReadValues(c)
  PROVE  \E s : /\ IsCommand(s) /\ Becomes(c, s) /\ cmd[c].phase = "read"
                /\ s.phase = "send" /\ s.kind = cmd[c].kind /\ s.at = cmd[c].at
                /\ s.keys = cmd[c].keys /\ s.tasks = cmd[c].tasks /\ s.task = cmd[c].task
                /\ \A k \in Key : s.values[k] = IF k \notin cmd[c].keys THEN None
                                                ELSE IF cache[cmd[c].at][k] = None THEN Empty
                                                ELSE cache[cmd[c].at][k]
  <1>1. PICK r : r = cmd[c]
    OBVIOUS
  <1>2. IsCommand(r) /\ r.phase = "read"
    BY <1>1 DEF MigrationTyped, ReadValues
  <1>3. PICK vs : vs = [k \in Key |-> IF k \notin cmd[c].keys THEN None
                                       ELSE IF cache[cmd[c].at][k] = None THEN Empty
                                       ELSE cache[cmd[c].at][k]]
    OBVIOUS
  <1>4. vs \in [Key -> Int]
    BY <1>1, <1>2, <1>3 DEF MigrationTyped, IsCommand, None, Empty
  <1>5. PICK s : s = [r EXCEPT !.phase = "send", !.values = vs]
    OBVIOUS
  <1>6. s = [kind |-> r.kind, at |-> r.at, phase |-> "send", tasks |-> r.tasks, task |-> r.task,
             keys |-> r.keys, values |-> vs, failed |-> r.failed, notify |-> r.notify]
    BY <1>2, <1>5 DEF IsCommand
  <1>7. IsCommand(s)
    BY <1>2, <1>4, <1>6 DEF IsCommand, Phase
  <1>8. Becomes(c, s)
    BY <1>1, <1>3, <1>5 DEF ReadValues, Becomes, MigrationTyped
  <1>9. \A k \in Key : s.values[k] = IF k \notin cmd[c].keys THEN None
                                    ELSE IF cache[cmd[c].at][k] = None THEN Empty
                                    ELSE cache[cmd[c].at][k]
    BY <1>3, <1>6
  <1>10. QED
    BY <1>1, <1>2, <1>6, <1>7, <1>8, <1>9

\* What has an address is a node.
LEMMA AddressOfNode ==
  ASSUME MigrationTyped, NEW c \in Command, cmd[c].phase = "send", HasAddress(c)
  PROVE  cmd[c].task.to \in Node
  <1>1. PICK r : r = cmd[c]
    OBVIOUS
  <1>2. IsCommand(r) /\ r.phase = "send"
    BY <1>1 DEF MigrationTyped
  <1>3. r.at \in Node /\ (r.kind = "add" => r.task.to = Newcomer)
    BY <1>2 DEF IsCommand
  <1>4. QED
    BY <1>1, <1>3 DEF HasAddress, MigrationTyped, Node

LEMMA SendFields ==
  ASSUME MigrationTyped, NEW c \in Command, NEW k \in Key, SendKey(c, k) \/ SendFails(c, k)
  PROVE  \E s : /\ IsCommand(s) /\ Becomes(c, s) /\ cmd[c].phase = "send"
                /\ s.phase = "send" /\ s.kind = cmd[c].kind /\ s.at = cmd[c].at
                /\ s.keys = cmd[c].keys /\ s.values = [cmd[c].values EXCEPT ![k] = None]
                /\ s.tasks = cmd[c].tasks /\ s.task = cmd[c].task
                /\ s.failed = TRUE \/ (s.failed = cmd[c].failed /\ SendKey(c, k))
  <1>1. PICK r : r = cmd[c]
    OBVIOUS
  <1>2. IsCommand(r) /\ r.phase = "send"
    BY <1>1 DEF MigrationTyped, SendKey, SendFails
  <1>3. PICK vs : vs = [r.values EXCEPT ![k] = None]
    OBVIOUS
  <1>4. vs \in [Key -> Int]
    BY <1>2, <1>3 DEF IsCommand, None
  <1>5. CASE SendKey(c, k)
    <2>1. PICK s : s = [r EXCEPT !.values = vs]
      OBVIOUS
    <2>2. s = [kind |-> r.kind, at |-> r.at, phase |-> r.phase, tasks |-> r.tasks, task |-> r.task,
               keys |-> r.keys, values |-> vs, failed |-> r.failed, notify |-> r.notify]
      BY <1>2, <2>1 DEF IsCommand
    <2>3. IsCommand(s)
      BY <1>2, <1>4, <2>2 DEF IsCommand, Phase
    <2>4. Becomes(c, s)
      BY <1>1, <1>2, <1>3, <1>5, <2>1 DEF SendKey, Becomes, MigrationTyped, IsCommand
    <2>5. QED
      BY <1>1, <1>2, <1>3, <1>5, <2>2, <2>3, <2>4
  <1>6. CASE SendFails(c, k)
    <2>1. PICK s : s = [r EXCEPT !.values = vs, !.failed = TRUE]
      OBVIOUS
    <2>2. s = [kind |-> r.kind, at |-> r.at, phase |-> r.phase, tasks |-> r.tasks, task |-> r.task,
               keys |-> r.keys, values |-> vs, failed |-> TRUE, notify |-> r.notify]
      BY <1>2, <2>1 DEF IsCommand
    <2>3. IsCommand(s)
      BY <1>2, <1>4, <2>2 DEF IsCommand, Phase
    <2>4. Becomes(c, s)
      BY <1>1, <1>2, <1>3, <1>6, <2>1 DEF SendFails, Becomes, MigrationTyped, IsCommand
    <2>5. s.failed = TRUE
      BY <2>2
    <2>6. QED
      BY <1>1, <1>2, <1>3, <2>2, <2>3, <2>4, <2>5
  <1>7. QED
    BY <1>5, <1>6

LEMMA VerifyFields ==
  ASSUME MigrationTyped, NEW c \in Command, Verify(c)
  PROVE  \E s : /\ IsCommand(s) /\ Becomes(c, s) /\ cmd[c].phase = "send"
                /\ s.phase = "verify" /\ s.kind = cmd[c].kind /\ s.at = cmd[c].at
                /\ s.keys = cmd[c].keys /\ s.values = cmd[c].values
                /\ s.tasks = cmd[c].tasks /\ s.task = cmd[c].task
  <1>1. PICK r : r = cmd[c]
    OBVIOUS
  <1>2. IsCommand(r) /\ r.phase = "send"
    BY <1>1 DEF MigrationTyped, Verify
  <1>3. PICK s : s = [r EXCEPT !.phase = "verify"]
    OBVIOUS
  <1>4. s = [kind |-> r.kind, at |-> r.at, phase |-> "verify", tasks |-> r.tasks, task |-> r.task,
             keys |-> r.keys, values |-> r.values, failed |-> r.failed, notify |-> r.notify]
    BY <1>2, <1>3 DEF IsCommand
  <1>5. IsCommand(s)
    BY <1>2, <1>4 DEF IsCommand, Phase
  <1>6. Becomes(c, s)
    BY <1>1, <1>3 DEF Verify, Becomes, MigrationTyped
  <1>7. QED
    BY <1>1, <1>2, <1>4, <1>5, <1>6

LEMMA DeleteKeysFields ==
  ASSUME MigrationTyped, NEW c \in Command, DeleteKeys(c)
  PROVE  \E s : /\ IsCommand(s) /\ Becomes(c, s) /\ cmd[c].phase = "verify"
                /\ s.phase = "tasks" /\ s.kind = cmd[c].kind /\ s.at = cmd[c].at
                /\ s.keys = {} /\ s.values = cmd[c].values
                /\ s.tasks = cmd[c].tasks /\ s.task = cmd[c].task
  <1>1. PICK r : r = cmd[c]
    OBVIOUS
  <1>2. IsCommand(r) /\ r.phase = "verify"
    BY <1>1 DEF MigrationTyped, DeleteKeys
  <1>3. PICK s : s = [r EXCEPT !.phase = "tasks", !.keys = {}]
    OBVIOUS
  <1>4. s = [kind |-> r.kind, at |-> r.at, phase |-> "tasks", tasks |-> r.tasks, task |-> r.task,
             keys |-> {}, values |-> r.values, failed |-> r.failed, notify |-> r.notify]
    BY <1>2, <1>3 DEF IsCommand
  <1>5. IsCommand(s)
    BY <1>2, <1>4 DEF IsCommand, Phase
  <1>6. Becomes(c, s)
    BY <1>1, <1>3 DEF DeleteKeys, Becomes, MigrationTyped
  <1>7. QED
    BY <1>1, <1>2, <1>4, <1>5, <1>6

LEMMA MigratedFields ==
  ASSUME MigrationTyped, NEW c \in Command, Migrated(c)
  PROVE  \E s : /\ IsCommand(s) /\ Becomes(c, s) /\ cmd[c].phase = "tasks"
                /\ s.phase = "notify" /\ s.kind = cmd[c].kind /\ s.at = cmd[c].at
                /\ s.notify = (Member \ {cmd[c].at}) \cup {Newcomer} /\ s.values = cmd[c].values
  <1>1. PICK r : r = cmd[c]
    OBVIOUS
  <1>2. IsCommand(r) /\ r.phase = "tasks"
    BY <1>1 DEF MigrationTyped, Migrated
  <1>3. PICK a : a = (Member \ {cmd[c].at}) \cup {Newcomer}
    OBVIOUS
  <1>4. PICK s : s = [r EXCEPT !.phase = "notify", !.notify = a]
    OBVIOUS
  <1>5. s = [kind |-> r.kind, at |-> r.at, phase |-> "notify", tasks |-> r.tasks, task |-> r.task,
             keys |-> r.keys, values |-> r.values, failed |-> r.failed, notify |-> a]
    BY <1>2, <1>4 DEF IsCommand
  <1>6. IsCommand(s)
    BY <1>2, <1>5 DEF IsCommand, Phase
  <1>7. Becomes(c, s)
    BY <1>1, <1>3, <1>4 DEF Migrated, Becomes, MigrationTyped
  <1>8. QED
    BY <1>1, <1>2, <1>3, <1>5, <1>6, <1>7

LEMMA NotifyFields ==
  ASSUME MigrationTyped, NEW c \in Command, NEW n \in Node, Notify(c, n)
  PROVE  \E s : /\ IsCommand(s) /\ Becomes(c, s) /\ cmd[c].phase = "notify"
                /\ s.phase = "notify" /\ s.kind = cmd[c].kind /\ s.at = cmd[c].at
                /\ s.notify = cmd[c].notify \ {n} /\ s.values = cmd[c].values
  <1>1. PICK r : r = cmd[c]
    OBVIOUS
  <1>2. IsCommand(r) /\ r.phase = "notify"
    BY <1>1 DEF MigrationTyped, Notify
  <1>3. PICK s : s = [r EXCEPT !.notify = @ \ {n}]
    OBVIOUS
  <1>4. s = [kind |-> r.kind, at |-> r.at, phase |-> r.phase, tasks |-> r.tasks, task |-> r.task,
             keys |-> r.keys, values |-> r.values, failed |-> r.failed, notify |-> r.notify \ {n}]
    BY <1>2, <1>3 DEF IsCommand
  <1>5. IsCommand(s)
    BY <1>2, <1>4 DEF IsCommand, Phase
  <1>6. Becomes(c, s)
    BY <1>1, <1>3 DEF Notify, Becomes, MigrationTyped
  <1>7. QED
    BY <1>1, <1>2, <1>4, <1>5, <1>6

LEMMA EndFields ==
  ASSUME MigrationTyped, NEW c \in Command, Abort(c) \/ Reply(c)
  PROVE  \E s : /\ IsCommand(s) /\ Becomes(c, s) /\ cmd[c].phase \in {"send", "notify"}
                /\ s.phase = "done" /\ s.keys = {} /\ s.values = [k \in Key |-> None]
  <1>1. PICK s : s = [Idle EXCEPT !.phase = "done"]
    OBVIOUS
  <1>2. [k \in Key |-> None] \in [Key -> Int]
    BY DEF None
  <1>3. s = [kind |-> "none", at |-> NoNode, phase |-> "done", tasks |-> {}, task |-> NoTask,
             keys |-> {}, values |-> [k \in Key |-> None], failed |-> FALSE, notify |-> {}]
    BY <1>1 DEF Idle
  <1>4. IsCommand(s)
    BY <1>2, <1>3 DEF IsCommand, Phase
  <1>5. Becomes(c, s) /\ cmd[c].phase \in {"send", "notify"}
    BY <1>1 DEF Abort, Reply, Becomes
  <1>6. QED
    BY <1>3, <1>4, <1>5

--------------------------------------------------------------------------------
\* The value last acknowledged survives.

\* The handler will delete the key, unless the verification fails.
Deleting(r, k) ==
  k \in r.keys /\ (r.phase = "verify" \/ (r.phase = "send" /\ r.values[k] = None /\ ~r.failed))
\* The handler has read the key's value and not sent it yet.
Sending(r, k) == r.phase = "send" /\ k \in r.keys /\ r.values[k] # None
\* The handler works on the key.
Moving(r, k) == r.phase \in {"read", "send", "verify"} /\ k \in r.keys

\* A new write is newer than whatever is stored or on its way.
Older ==
  /\ \A n \in Node, k \in Key : cache[n][k] <= writes
  /\ \A c \in Command, k \in Key : cmd[c].values[k] <= writes
\* Of the nodes that have the value, one will not delete it.
Kept ==
  \A k \in Key \ exposed : latest[k] # None =>
    \E n \in Node : cache[n][k] = latest[k] /\ \A c \in Command : cmd[c].at = n => ~Deleting(cmd[c], k)
\* What a handler sends is as new as what its node has.
Copied ==
  \A k \in Key \ exposed, c \in Command :
    Sending(cmd[c], k) /\ latest[k] # None /\ cache[cmd[c].at][k] = latest[k] => cmd[c].values[k] = latest[k]

SurvivalInv == MigrationTyped /\ Older /\ Kept /\ Copied

LEMMA SurvivalInit == Init => SurvivalInv
  <1> SUFFICES ASSUME Init PROVE SurvivalInv
    OBVIOUS
  <1>1. cmd = [c \in Command |-> Idle] /\ MigrationTyped
    BY MigrationTypedInit DEF Init
  <1>2. \A c \in Command, k \in Key : cmd[c].phase = "none" /\ cmd[c].values[k] = None
    BY <1>1 DEF Idle
  <1>3. QED
    BY <1>1, <1>2 DEF Init, SurvivalInv, Older, Kept, Copied, Sending, None

\* A step of one handler that touches no data and gives it nothing to delete.
LEMMA QuietStep ==
  ASSUME SurvivalInv, NEW c \in Command, NEW s, IsCommand(s), Becomes(c, s), MigrationTyped',
         UNCHANGED <<cache, latest, exposed, writes>>,
         \A k \in Key : s.values[k] <= writes,
         \A k \in Key : Deleting(s, k) => Deleting(cmd[c], k) /\ s.at = cmd[c].at,
         \A k \in Key \ exposed :
           Sending(s, k) /\ latest[k] # None /\ cache[s.at][k] = latest[k] => s.values[k] = latest[k]
  PROVE  SurvivalInv'
  <1>1. /\ cmd'[c] = s /\ \A d \in Command : d # c => cmd'[d] = cmd[d]
    BY BecomesTyped DEF SurvivalInv
  <1>2. Older'
    BY <1>1 DEF SurvivalInv, Older
  <1>3. Kept'
    <2> SUFFICES ASSUME NEW k \in Key \ exposed, latest[k] # None
                 PROVE  \E n \in Node : cache[n][k] = latest[k]
                                         /\ \A d \in Command : cmd'[d].at = n => ~Deleting(cmd'[d], k)
      BY DEF Kept
    <2>1. PICK n \in Node : cache[n][k] = latest[k] /\ \A d \in Command : cmd[d].at = n => ~Deleting(cmd[d], k)
      BY DEF SurvivalInv, Kept
    <2>2. \A d \in Command : cmd'[d].at = n => ~Deleting(cmd'[d], k)
      BY <1>1, <2>1
    <2>3. QED
      BY <2>1, <2>2
  <1>4. Copied'
    BY <1>1 DEF SurvivalInv, Copied
  <1>5. QED
    BY <1>2, <1>3, <1>4 DEF SurvivalInv

\* The same where the handler is not about to send or delete.
LEMMA IdleStep ==
  ASSUME SurvivalInv, NEW c \in Command, NEW s, IsCommand(s), Becomes(c, s), MigrationTyped',
         UNCHANGED <<cache, latest, exposed, writes>>,
         \A k \in Key : s.values[k] <= writes,
         s.phase \notin {"send", "verify"}
  PROVE  SurvivalInv'
  BY QuietStep DEF Deleting, Sending

LEMMA SurvivalSet ==
  ASSUME SurvivalInv, NEW n \in Node, NEW k \in Key, Set(n, k)
  PROVE  SurvivalInv'
  <1>1. /\ cmd' = cmd /\ known' = known /\ writes' = writes + 1
        /\ cache' = [cache EXCEPT ![n][k] = writes + 1]
        /\ latest' = [latest EXCEPT ![k] = writes + 1]
        /\ exposed' = IF UnderWay(n, k) THEN exposed \cup {k} ELSE exposed \ {k}
    BY DEF Set
  <1>2. cache \in [Node -> [Key -> Int]] /\ latest \in [Key -> Int] /\ writes \in Nat
    BY DEF SurvivalInv, MigrationTyped
  <1>3. MigrationTyped'
    BY <1>1, <1>2 DEF SurvivalInv, MigrationTyped
  <1>4. /\ cache'[n][k] = writes + 1 /\ latest'[k] = writes + 1
        /\ \A m \in Node, j \in Key : m # n \/ j # k => cache'[m][j] = cache[m][j]
        /\ \A j \in Key : j # k => latest'[j] = latest[j] /\ (j \in exposed' <=> j \in exposed)
    BY <1>1, <1>2
  <1>5. k \notin exposed' => \A c \in Command : cmd[c].at = n => ~Moving(cmd[c], k)
    BY <1>1 DEF UnderWay, Moving
  <1>6. Older'
    <2>1. \A m \in Node, j \in Key : cache'[m][j] <= writes'
      BY <1>1, <1>2, <1>4 DEF SurvivalInv, Older
    <2>2. \A c \in Command, j \in Key : cmd'[c].values[j] <= writes'
      <3> SUFFICES ASSUME NEW c \in Command, NEW j \in Key PROVE cmd[c].values[j] <= writes + 1
        BY <1>1
      <3>1. IsCommand(cmd[c]) /\ cmd[c].values[j] <= writes
        BY DEF SurvivalInv, MigrationTyped, Older
      <3>2. QED
        BY <1>2, <3>1 DEF IsCommand
    <2>3. QED
      BY <2>1, <2>2 DEF Older
  <1>7. Kept'
    <2> SUFFICES ASSUME NEW j \in Key \ exposed', latest'[j] # None
                 PROVE  \E m \in Node : cache'[m][j] = latest'[j]
                                         /\ \A c \in Command : cmd'[c].at = m => ~Deleting(cmd'[c], j)
      BY DEF Kept
    <2>1. CASE j = k
      BY <1>1, <1>4, <1>5, <2>1 DEF Deleting, Moving
    <2>2. CASE j # k
      BY <1>1, <1>4, <2>2 DEF SurvivalInv, Kept
    <2>3. QED
      BY <2>1, <2>2
  <1>8. Copied'
    <2> SUFFICES ASSUME NEW j \in Key \ exposed', NEW c \in Command, Sending(cmd[c], j), latest'[j] # None,
                        cache'[cmd[c].at][j] = latest'[j]
                 PROVE  cmd[c].values[j] = latest'[j]
      BY <1>1 DEF Copied
    <2>1. cmd[c].at \in Node
      BY DEF SurvivalInv, MigrationTyped, IsCommand, Sending
    <2>2. CASE j = k
      <3>1. cmd[c].at # n
        BY <1>5, <2>2 DEF Moving, Sending
      <3>2. cache[cmd[c].at][k] = writes + 1 /\ cache[cmd[c].at][k] <= writes
        BY <1>4, <2>1, <2>2, <3>1 DEF SurvivalInv, Older
      <3>3. QED
        BY <1>2, <2>1, <3>2
    <2>3. CASE j # k
      BY <1>4, <2>1, <2>3 DEF SurvivalInv, Copied
    <2>4. QED
      BY <2>2, <2>3
  <1>9. QED
    BY <1>3, <1>6, <1>7, <1>8 DEF SurvivalInv

LEMMA SurvivalDel ==
  ASSUME SurvivalInv, NEW n \in Node, NEW k \in Key, Del(n, k)
  PROVE  SurvivalInv'
  <1>1. /\ cmd' = cmd /\ known' = known /\ writes' = writes /\ exposed' = exposed
        /\ cache' = [cache EXCEPT ![n][k] = None]
        /\ latest' = [latest EXCEPT ![k] = None]
    BY DEF Del
  <1>2. cache \in [Node -> [Key -> Int]] /\ latest \in [Key -> Int] /\ writes \in Nat
    BY DEF SurvivalInv, MigrationTyped
  <1>3. MigrationTyped'
    BY <1>1, <1>2 DEF SurvivalInv, MigrationTyped, None
  <1>4. /\ cache'[n][k] = None /\ latest'[k] = None
        /\ \A m \in Node, j \in Key : m # n \/ j # k => cache'[m][j] = cache[m][j]
        /\ \A j \in Key : j # k => latest'[j] = latest[j]
    BY <1>1, <1>2
  <1>5. Older'
    BY <1>1, <1>2, <1>4 DEF SurvivalInv, Older, None
  <1>6. Kept'
    <2> SUFFICES ASSUME NEW j \in Key \ exposed, latest'[j] # None
                 PROVE  \E m \in Node : cache'[m][j] = latest'[j]
                                         /\ \A c \in Command : cmd[c].at = m => ~Deleting(cmd[c], j)
      BY <1>1 DEF Kept
    <2>1. QED
      BY <1>4 DEF SurvivalInv, Kept
  <1>7. Copied'
    <2> SUFFICES ASSUME NEW j \in Key \ exposed, NEW c \in Command, Sending(cmd[c], j), latest'[j] # None,
                        cache'[cmd[c].at][j] = latest'[j]
                 PROVE  cmd[c].values[j] = latest'[j]
      BY <1>1 DEF Copied
    <2>1. cmd[c].at \in Node
      BY DEF SurvivalInv, MigrationTyped, IsCommand, Sending
    <2>2. QED
      BY <1>4, <2>1 DEF SurvivalInv, Copied
  <1>8. QED
    BY <1>3, <1>5, <1>6, <1>7 DEF SurvivalInv

\* The target carries out the SET: it has the value, or the key is exposed.
LEMMA SurvivalStore ==
  ASSUME SurvivalInv, NEW c \in Command, NEW k \in Key, NEW s, IsCommand(s), Becomes(c, s),
         cmd[c].phase = "send", HasAddress(c), k \in ToSend(c), Store(c, k),
         s.phase = "send", s.kind = cmd[c].kind, s.at = cmd[c].at, s.keys = cmd[c].keys,
         s.values = [cmd[c].values EXCEPT ![k] = None], ~s.failed => ~cmd[c].failed,
         UNCHANGED <<known, writes, latest>>
  PROVE  SurvivalInv'
  <1>1. PICK r : r = cmd[c] /\ IsCommand(r)
    BY DEF SurvivalInv, MigrationTyped
  <1>2. PICK t \in Node : t = cmd[c].task.to
    BY AddressOfNode DEF SurvivalInv
  <1>3. PICK v \in Int : v = cmd[c].values[k] /\ v # None
    BY <1>1 DEF ToSend, IsCommand
  <1>4. cache \in [Node -> [Key -> Int]] /\ latest \in [Key -> Int] /\ writes \in Nat
    BY DEF SurvivalInv, MigrationTyped
  <1>5. /\ cache' = [cache EXCEPT ![t][k] = v]
        /\ exposed' = IF UnderWay(t, k) \/ (cache[t][k] = latest[k] /\ latest[k] # v) THEN exposed \cup {k} ELSE exposed
    BY <1>2, <1>3 DEF Store
  <1>6. /\ cmd'[c] = s /\ \A d \in Command : d # c => cmd'[d] = cmd[d]
        /\ \A d \in Command : IsCommand(cmd'[d])
        /\ DOMAIN cmd' = Command /\ cmd' = [d \in Command |-> cmd'[d]]
    BY BecomesTyped DEF SurvivalInv
  <1>7. MigrationTyped'
    BY <1>4, <1>5, <1>6 DEF SurvivalInv, MigrationTyped
  <1>8. /\ cache'[t][k] = v
        /\ \A m \in Node, j \in Key : m # t \/ j # k => cache'[m][j] = cache[m][j]
    BY <1>4, <1>5
  <1>9. /\ s.values[k] = None /\ \A j \in Key : j # k => s.values[j] = r.values[j]
        /\ \A j \in Key : r.values[j] \in Int
    BY <1>1 DEF IsCommand
  <1>10. Older'
    <2>1. \A m \in Node, j \in Key : cache'[m][j] <= writes
      BY <1>3, <1>8 DEF SurvivalInv, Older
    <2>2. \A j \in Key : s.values[j] <= writes
      BY <1>1, <1>4, <1>9 DEF SurvivalInv, Older, None
    <2>3. QED
      BY <1>6, <2>1, <2>2 DEF SurvivalInv, Older
  <1>11. k \notin exposed' => /\ k \notin exposed /\ (cache[t][k] = latest[k] => latest[k] = v)
                              /\ \A d \in Command : cmd'[d].at = t => ~Moving(cmd'[d], k)
    <2>1. k \notin exposed' => ~UnderWay(t, k)
      BY <1>5
    <2>2. k \notin exposed' => \A d \in Command : cmd[d].at = t => ~Moving(cmd[d], k)
      BY <2>1 DEF UnderWay, Moving
    <2>3. Moving(s, k) => Moving(cmd[c], k)
      BY DEF Moving
    <2>4. QED
      BY <1>5, <1>6, <2>2, <2>3
  <1>12. Kept'
    <2> SUFFICES ASSUME NEW j \in Key \ exposed', latest[j] # None
                 PROVE  \E m \in Node : cache'[m][j] = latest[j]
                                         /\ \A d \in Command : cmd'[d].at = m => ~Deleting(cmd'[d], j)
      BY DEF Kept
    <2>1. j \notin exposed
      BY <1>5
    <2>2. PICK h \in Node : cache[h][j] = latest[j] /\ \A d \in Command : cmd[d].at = h => ~Deleting(cmd[d], j)
      BY <2>1 DEF SurvivalInv, Kept
    <2>3. CASE j # k
      <3>1. Deleting(s, j) => Deleting(r, j)
        BY <1>1, <1>9, <2>3 DEF Deleting
      <3>2. QED
        BY <1>1, <1>6, <1>8, <2>2, <2>3, <3>1
    <2>4. CASE j = k /\ v = latest[k]
      BY <1>8, <1>11, <2>4 DEF Deleting, Moving
    <2>5. CASE j = k /\ v # latest[k]
      <3>1. h # t
        BY <1>11, <2>2, <2>5
      <3>2. ~(r.at = h /\ Deleting(s, k))
        <4>1. Deleting(s, k) => Sending(r, k)
          BY <1>1, <1>3 DEF Deleting, Sending
        <4>2. QED
          BY <1>1, <1>3, <2>1, <2>2, <2>5, <4>1 DEF SurvivalInv, Copied
      <3>3. QED
        BY <1>1, <1>6, <1>8, <2>2, <2>5, <3>1, <3>2
    <2>6. QED
      BY <2>3, <2>4, <2>5
  <1>13. Copied'
    <2> SUFFICES ASSUME NEW j \in Key \ exposed', NEW d \in Command, Sending(cmd'[d], j), latest[j] # None,
                        cache'[cmd'[d].at][j] = latest[j]
                 PROVE  cmd'[d].values[j] = latest[j]
      BY DEF Copied
    <2>1. j \notin exposed /\ cmd'[d].at \in Node /\ cmd'[d].at = cmd[d].at
      BY <1>5, <1>6 DEF IsCommand, Sending
    <2>2. j = k => d # c /\ cmd'[d].at # t
      BY <1>6, <1>9, <1>11 DEF Sending, Moving
    <2>3. cache[cmd[d].at][j] = latest[j]
      BY <1>8, <2>1, <2>2
    <2>4. Sending(cmd[d], j) /\ cmd'[d].values[j] = cmd[d].values[j]
      BY <1>1, <1>6, <1>9, <2>2 DEF Sending
    <2>5. QED
      BY <2>1, <2>3, <2>4 DEF SurvivalInv, Copied
  <1>14. QED
    BY <1>7, <1>10, <1>12, <1>13 DEF SurvivalInv

LEMMA SurvivalSend ==
  ASSUME SurvivalInv, NEW c \in Command, NEW k \in Key, SendKey(c, k) \/ SendFails(c, k)
  PROVE  SurvivalInv'
  <1>1. /\ cmd[c].phase = "send" /\ HasAddress(c) /\ k \in ToSend(c)
        /\ UNCHANGED <<known, writes, latest>>
        /\ Store(c, k) \/ UNCHANGED <<cache, exposed>>
        /\ SendKey(c, k) => Store(c, k)
    BY DEF SendKey, SendFails
  <1>2. PICK s : /\ IsCommand(s) /\ Becomes(c, s) /\ cmd[c].phase = "send"
                 /\ s.phase = "send" /\ s.kind = cmd[c].kind /\ s.at = cmd[c].at
                 /\ s.keys = cmd[c].keys /\ s.values = [cmd[c].values EXCEPT ![k] = None]
                 /\ s.failed = TRUE \/ (s.failed = cmd[c].failed /\ SendKey(c, k))
    BY SendFields DEF SurvivalInv
  <1>3. CASE Store(c, k)
    BY <1>1, <1>2, <1>3, SurvivalStore
  <1>4. CASE UNCHANGED <<cache, exposed>> /\ ~Store(c, k)
    <2>1. s.failed = TRUE
      BY <1>1, <1>2, <1>4
    <2>2. PICK r : r = cmd[c] /\ IsCommand(r)
      BY DEF SurvivalInv, MigrationTyped
    <2>3. /\ s.values[k] = None /\ \A j \in Key : j # k => s.values[j] = r.values[j]
          /\ \A j \in Key : r.values[j] \in Int
      BY <1>2, <2>2 DEF IsCommand
    <2>4. \A j \in Key : s.values[j] <= writes
      BY <2>2, <2>3 DEF SurvivalInv, MigrationTyped, Older, None
    <2>5. \A j \in Key : ~Deleting(s, j)
      BY <1>2, <2>1 DEF Deleting
    <2>6. \A j \in Key : Sending(s, j) => Sending(r, j) /\ s.values[j] = r.values[j]
      BY <1>1, <1>2, <2>2, <2>3 DEF Sending
    <2>7. MigrationTyped'
      BY <1>1, <1>2, <1>4, BecomesTyped DEF SurvivalInv, MigrationTyped
    <2>8. \A j \in Key \ exposed :
            Sending(s, j) /\ latest[j] # None /\ cache[s.at][j] = latest[j] => s.values[j] = latest[j]
      BY <1>2, <2>2, <2>6 DEF SurvivalInv, Copied
    <2>9. QED
      BY <1>1, <1>2, <1>4, <2>4, <2>5, <2>7, <2>8, QuietStep
  <1>5. QED
    BY <1>1, <1>3, <1>4

\* What is deleted is on another node that keeps it.
LEMMA SurvivalDelete ==
  ASSUME SurvivalInv, NEW c \in Command, DeleteKeys(c)
  PROVE  SurvivalInv'
  <1>1. PICK s : /\ IsCommand(s) /\ Becomes(c, s) /\ cmd[c].phase = "verify"
                 /\ s.phase = "tasks" /\ s.kind = cmd[c].kind /\ s.at = cmd[c].at
                 /\ s.keys = {} /\ s.values = cmd[c].values
    BY DeleteKeysFields DEF SurvivalInv
  <1>2. PICK n \in Node : n = cmd[c].at
    BY <1>1 DEF SurvivalInv, MigrationTyped, IsCommand
  <1>3. PICK keys : keys = cmd[c].keys
    OBVIOUS
  <1>4. cache \in [Node -> [Key -> Int]] /\ latest \in [Key -> Int] /\ writes \in Nat
    BY DEF SurvivalInv, MigrationTyped
  <1>5. /\ cache' = [cache EXCEPT ![n] = [k \in Key |-> IF k \in keys THEN None ELSE @[k]]]
        /\ UNCHANGED <<known, writes, latest, exposed>>
    BY <1>2, <1>3 DEF DeleteKeys
  <1>6. /\ cmd'[c] = s /\ \A d \in Command : d # c => cmd'[d] = cmd[d]
        /\ \A d \in Command : IsCommand(cmd'[d])
        /\ DOMAIN cmd' = Command /\ cmd' = [d \in Command |-> cmd'[d]]
    BY <1>1, BecomesTyped DEF SurvivalInv
  <1>7. cache' \in [Node -> [Key -> Int]]
    BY <1>4, <1>5 DEF None
  <1>8. MigrationTyped'
    BY <1>5, <1>6, <1>7 DEF SurvivalInv, MigrationTyped
  <1>9. \A m \in Node, k \in Key : cache'[m][k] = IF m = n /\ k \in keys THEN None ELSE cache[m][k]
    BY <1>4, <1>5
  <1>10. Older'
    <2>1. \A m \in Node, k \in Key : cache'[m][k] <= writes
      BY <1>4, <1>9 DEF SurvivalInv, Older, None
    <2>2. QED
      BY <1>1, <1>5, <1>6, <2>1 DEF SurvivalInv, Older
  <1>11. Kept'
    <2> SUFFICES ASSUME NEW k \in Key \ exposed, latest[k] # None
                 PROVE  \E m \in Node : cache'[m][k] = latest[k]
                                         /\ \A d \in Command : cmd'[d].at = m => ~Deleting(cmd'[d], k)
      BY <1>5 DEF Kept
    <2>1. PICK h \in Node : cache[h][k] = latest[k] /\ \A d \in Command : cmd[d].at = h => ~Deleting(cmd[d], k)
      BY DEF SurvivalInv, Kept
    <2>2. ~(h = n /\ k \in keys)
      BY <1>1, <1>2, <1>3, <2>1 DEF Deleting
    <2>3. ~Deleting(s, k)
      BY <1>1 DEF Deleting
    <2>4. QED
      BY <1>6, <1>9, <2>1, <2>2, <2>3
  <1>12. Copied'
    <2> SUFFICES ASSUME NEW k \in Key \ exposed, NEW d \in Command, Sending(cmd'[d], k), latest[k] # None,
                        cache'[cmd'[d].at][k] = latest[k]
                 PROVE  cmd'[d].values[k] = latest[k]
      BY <1>5 DEF Copied
    <2>1. d # c /\ cmd'[d] = cmd[d] /\ cmd[d].at \in Node
      BY <1>1, <1>6 DEF Sending, IsCommand
    <2>2. cache[cmd[d].at][k] = latest[k]
      BY <1>9, <2>1
    <2>3. QED
      BY <2>1, <2>2 DEF SurvivalInv, Copied
  <1>13. QED
    BY <1>8, <1>10, <1>11, <1>12 DEF SurvivalInv

\* The steps of a handler that touch no data.
LEMMA SurvivalOther ==
  ASSUME SurvivalInv, NEW c \in Command, NEW s, IsCommand(s), Becomes(c, s),
         s.phase \notin {"send", "verify"}, s.values = cmd[c].values \/ s.values = [k \in Key |-> None],
         UNCHANGED <<cache, latest, exposed, writes>>, known' \in [Node -> SUBSET Node]
  PROVE  SurvivalInv'
  <1>1. MigrationTyped'
    BY BecomesTyped DEF SurvivalInv, MigrationTyped
  <1>2. \A k \in Key : s.values[k] <= writes
    BY DEF SurvivalInv, Older, MigrationTyped, None
  <1>3. QED
    BY <1>1, <1>2, IdleStep

LEMMA SurvivalRead ==
  ASSUME SurvivalInv, NEW c \in Command, ReadValues(c)
  PROVE  SurvivalInv'
  <1>1. PICK s : /\ IsCommand(s) /\ Becomes(c, s) /\ cmd[c].phase = "read"
                 /\ s.phase = "send" /\ s.kind = cmd[c].kind /\ s.at = cmd[c].at
                 /\ s.keys = cmd[c].keys
                 /\ \A k \in Key : s.values[k] = IF k \notin cmd[c].keys THEN None
                                                 ELSE IF cache[cmd[c].at][k] = None THEN Empty
                                                 ELSE cache[cmd[c].at][k]
    BY ReadValuesFields DEF SurvivalInv
  <1>2. s.at \in Node /\ UNCHANGED <<cache, latest, exposed, writes, known>>
    BY <1>1 DEF IsCommand, ReadValues
  <1>3. MigrationTyped'
    BY <1>1, <1>2, BecomesTyped DEF SurvivalInv, MigrationTyped
  <1>4. \A k \in Key : s.values[k] <= writes
    BY <1>1, <1>2 DEF SurvivalInv, Older, MigrationTyped, None, Empty
  <1>5. \A k \in Key : ~Deleting(s, k)
    BY <1>1 DEF Deleting, None, Empty
  <1>6. \A k \in Key \ exposed :
          Sending(s, k) /\ latest[k] # None /\ cache[s.at][k] = latest[k] => s.values[k] = latest[k]
    BY <1>1 DEF Sending
  <1>7. QED
    BY <1>1, <1>2, <1>3, <1>4, <1>5, <1>6, QuietStep

LEMMA SurvivalVerify ==
  ASSUME SurvivalInv, NEW c \in Command, Verify(c)
  PROVE  SurvivalInv'
  <1>1. PICK s : /\ IsCommand(s) /\ Becomes(c, s) /\ cmd[c].phase = "send"
                 /\ s.phase = "verify" /\ s.kind = cmd[c].kind /\ s.at = cmd[c].at
                 /\ s.keys = cmd[c].keys /\ s.values = cmd[c].values
    BY VerifyFields DEF SurvivalInv
  <1>2. UNCHANGED <<cache, latest, exposed, writes, known>> /\ ~cmd[c].failed
    BY DEF Verify, MayDelete
  <1>3. MigrationTyped'
    BY <1>1, <1>2, BecomesTyped DEF SurvivalInv, MigrationTyped
  <1>4. \A k \in Key : s.values[k] <= writes
    BY <1>1 DEF SurvivalInv, Older
  <1>5. \A k \in Key : Deleting(s, k) => Deleting(cmd[c], k)
    BY <1>1, <1>2 DEF Deleting, Verify, ToSend
  <1>6. \A k \in Key : ~Sending(s, k)
    BY <1>1 DEF Sending
  <1>7. QED
    BY <1>1, <1>2, <1>3, <1>4, <1>5, <1>6, QuietStep

LEMMA SurvivalNext == SurvivalInv /\ [Next]_vars => SurvivalInv'
  <1> SUFFICES ASSUME SurvivalInv, [Next]_vars PROVE SurvivalInv'
    OBVIOUS
  <1> USE DEF SurvivalInv
  <1>0. known \in [Node -> SUBSET Node] /\ MigrationTyped
    BY DEF MigrationTyped
  <1>1. ASSUME NEW n \in Node, NEW k \in Key, Set(n, k) PROVE SurvivalInv'
    BY <1>1, SurvivalSet
  <1>2. ASSUME NEW n \in Node, NEW k \in Key, Del(n, k) PROVE SurvivalInv'
    BY <1>2, SurvivalDel
  <1>3. ASSUME NEW c \in Command, NEW kind \in {"add", "remove"}, NEW n \in Node, Begin(c, kind, n)
        PROVE  SurvivalInv'
    <2>1. UNCHANGED <<cache, latest, exposed, writes, known>>
      BY <1>3 DEF Begin
    <2>2. QED
      BY <1>0, <1>3, <2>1, BeginFields, SurvivalOther
  <1>4. ASSUME NEW c \in Command, Calculate(c) PROVE SurvivalInv'
    <2>1. UNCHANGED <<cache, latest, exposed, writes>>
      BY <1>4 DEF Calculate
    <2>2. known' \in [Node -> SUBSET Node]
      BY <1>0, <1>4 DEF Calculate, Node
    <2>3. QED
      BY <1>0, <1>4, <2>1, <2>2, CalculateFields, SurvivalOther
  <1>5. ASSUME NEW c \in Command, NEW t \in cmd[c].tasks, ListKeys(c, t) PROVE SurvivalInv'
    BY <1>0, <1>5, ListKeysFields, SurvivalOther DEF ListKeys
  <1>6. ASSUME NEW c \in Command, ReadValues(c) PROVE SurvivalInv'
    BY <1>6, SurvivalRead
  <1>7. ASSUME NEW c \in Command, NEW k \in Key, SendKey(c, k) \/ SendFails(c, k) PROVE SurvivalInv'
    BY <1>7, SurvivalSend
  <1>8. ASSUME NEW c \in Command, Verify(c) PROVE SurvivalInv'
    BY <1>8, SurvivalVerify
  <1>9. ASSUME NEW c \in Command, DeleteKeys(c) PROVE SurvivalInv'
    BY <1>9, SurvivalDelete
  <1>10. ASSUME NEW c \in Command, Abort(c) \/ Reply(c) PROVE SurvivalInv'
    <2>1. UNCHANGED <<cache, latest, exposed, writes, known>>
      BY <1>10 DEF Abort, Reply
    <2>2. QED
      BY <1>0, <1>10, <2>1, EndFields, SurvivalOther
  <1>11. ASSUME NEW c \in Command, Migrated(c) PROVE SurvivalInv'
    <2>1. UNCHANGED <<cache, latest, exposed, writes>>
      BY <1>11 DEF Migrated
    <2>2. known' \in [Node -> SUBSET Node]
      BY <1>0, <1>11 DEF Migrated
    <2>3. QED
      BY <1>0, <1>11, <2>1, <2>2, MigratedFields, SurvivalOther
  <1>12. ASSUME NEW c \in Command, NEW n \in Node, Notify(c, n) PROVE SurvivalInv'
    <2>1. UNCHANGED <<cache, latest, exposed, writes>>
      BY <1>12 DEF Notify
    <2>2. known' \in [Node -> SUBSET Node]
      BY <1>0, <1>12 DEF Notify, Node
    <2>3. QED
      BY <1>0, <1>12, <2>1, <2>2, NotifyFields, SurvivalOther
  <1>13. CASE UNCHANGED vars \/ \E c \in Command : Hang(c) \/ HangEnds(c)
    <2>1. UNCHANGED <<cmd, cache, latest, exposed, writes, known>>
      BY <1>13 DEF vars, Hang, HangEnds, OnlyHung
    <2>2. QED
      BY <2>1 DEF MigrationTyped, Older, Kept, Copied
  <1>14. QED
    BY <1>1, <1>2, <1>3, <1>4, <1>5, <1>6, <1>7, <1>8, <1>9, <1>10, <1>11, <1>12, <1>13
    DEF Next, CommandStep

\* However clients' writes, migrations and failed transfers interleave, the value
\* last acknowledged for a key is on some node, unless the key was exposed
\* (migrator.go:83-131).
THEOREM AcknowledgedValueSurvives == Spec => []LatestValueSurvives
  <1>1. SurvivalInv => LatestValueSurvives
    BY DEF SurvivalInv, Kept, LatestValueSurvives
  <1>2. QED
    BY <1>1, SurvivalInit, SurvivalNext, PTL DEF Spec

--------------------------------------------------------------------------------
\* The nearest places on a ring.

\* Min and Max are what they should be on the hash values.
LEMMA MinPos ==
  ASSUME NEW S \in SUBSET Nat, S # {}
  PROVE  Min(S) \in S /\ \A p \in S : Min(S) <= p
  <1>1. PICK R : R = OpToRel(<, Nat)
    OBVIOUS
  <1>2. IsWellFoundedOn(R, Nat)
    BY <1>1, NatLessThanWellFounded
  <1>3. \A x, y \in Nat : y < x => <<y, x>> \in R
    BY <1>1 DEF OpToRel
  <1>4. PICK x \in S : \A y \in S : ~(<<y, x>> \in R)
    BY <1>2, WFMin
  <1>5. x \in Nat /\ \A y \in S : y \in Nat
    OBVIOUS
  <1>6. \A y \in S : ~(y < x)
    BY <1>3, <1>4, <1>5, Zenon
  <1>7. \A y \in S : x <= y
    BY <1>5, <1>6
  <1>8. QED
    BY <1>7 DEF Min

LEMMA MaxPos ==
  ASSUME NEW S \in SUBSET Pos, S # {}
  PROVE  Max(S) \in S /\ \A p \in S : p <= Max(S)
  <1>1. PICK top \in Pos : \A p \in Pos : p <= top
    BY PosAssumption
  <1>2. top \in Nat /\ \A p \in S : p \in Nat /\ p <= top
    BY <1>1, PosAssumption
  <1>3. PICK D : D = {top - p : p \in S}
    OBVIOUS
  <1>4. D \in SUBSET Nat /\ D # {}
    <2>1. \A p \in S : top - p \in Nat
      BY <1>2
    <2>2. \A d \in D : d \in Nat
      BY <1>3, <2>1
    <2>3. QED
      BY <1>3, <2>2
  <1>5. PICK m \in D : \A d \in D : m <= d
    BY <1>4, MinPos
  <1>6. PICK q \in S : m = top - q
    BY <1>3, <1>5
  <1>7. \A p \in S : top - q <= top - p
    BY <1>3, <1>5, <1>6
  <1>8. \A p \in S : p <= q
    BY <1>2, <1>7
  <1>9. \E x \in S : \A y \in S : x >= y
    BY <1>2, <1>8
  <1>10. QED
    BY <1>2, <1>9 DEF Max

\* FirstFrom and LastBefore as functions of the places.
First(P, h) == IF {p \in P : p >= h} # {} THEN Min({p \in P : p >= h}) ELSE Min(P)
Last(P, h) == IF {p \in P : p < h} # {} THEN Max({p \in P : p < h}) ELSE Max(P)

LEMMA FirstFacts ==
  ASSUME NEW P \in SUBSET Pos, P # {}, NEW h \in Nat
  PROVE  /\ First(P, h) \in P
         /\ \A p \in P : p >= h => First(P, h) >= h /\ First(P, h) <= p
         /\ (\A p \in P : p < h) => \A p \in P : First(P, h) <= p
  <1>1. P \subseteq Nat
    BY PosAssumption
  <1>2. CASE \E p \in P : p >= h
    <2>1. {p \in P : p >= h} \in SUBSET Nat /\ {p \in P : p >= h} # {}
      BY <1>1, <1>2
    <2>2. First(P, h) \in {p \in P : p >= h} /\ \A p \in {p \in P : p >= h} : First(P, h) <= p
      BY <2>1, MinPos DEF First
    <2>3. QED
      BY <1>1, <1>2, <2>2
  <1>3. CASE ~\E p \in P : p >= h
    <2>1. First(P, h) = Min(P)
      BY <1>3 DEF First
    <2>2. QED
      BY <1>1, <1>3, <2>1, MinPos
  <1>4. QED
    BY <1>2, <1>3

--------------------------------------------------------------------------------
\* The rings agree.

\* The ring of node n with the newcomer.
GrownRing(n) == AddAll(StartRing(n), {Newcomer})

\* The newcomer's places are no one else's: adding it and removing it once are
\* each other's inverse, and removing it from a ring it is not in does nothing.
LEMMA NewcomerInRing ==
  ASSUME NEW n \in Node
  PROVE  /\ AddShard(StartRing(n), vnode, Newcomer) = GrownRing(n)
         /\ RemoveShard(GrownRing(n), vnode, Newcomer) = StartRing(n)
         /\ RemoveShard(StartRing(n), vnode, Newcomer) = StartRing(n)
         /\ Newcomer \notin GetAllShards(StartRing(n))
         /\ Newcomer \in GetAllShards(GrownRing(n))
         /\ vnode[Newcomer] \subseteq Places(GrownRing(n)) /\ vnode[Newcomer] # {}
         /\ \A p \in Places(GrownRing(n)) :
              /\ GrownRing(n).count[p] = 1
              /\ GrownRing(n).owner[p] = Newcomer <=> p \in vnode[Newcomer]
         /\ n \in Member => Places(GrownRing(n)) \ vnode[Newcomer] # {}
  <1>1. PICK names : names = IF n \in Member THEN {ShardOf[m] : m \in Member} ELSE Member
    OBVIOUS
  <1>2. names \subseteq Shard /\ Newcomer \notin names /\ Newcomer \in Shard /\ Newcomer # NoShard
    BY <1>1, VnodeAssumption, NewcomerAssumption DEF Node
  <1>3. /\ vnode[Newcomer] \subseteq Pos /\ vnode[Newcomer] # {}
        /\ \A s \in names : vnode[s] \cap vnode[Newcomer] = {}
    BY <1>2, VnodeAssumption
  <1>4. PICK a : a = StartRing(n)
    OBVIOUS
  <1>5. PICK owner : owner = [p \in Pos |-> IF \E s \in names : p \in vnode[s]
                                             THEN CHOOSE s \in names : p \in vnode[s] ELSE NoShard]
    OBVIOUS
  <1>6. a = [count |-> [p \in Pos |-> IF \E s \in names : p \in vnode[s] THEN 1 ELSE 0], owner |-> owner]
    <2>1. a = AddAll(EmptyRing, names)
      BY <1>1, <1>4 DEF StartRing
    <2>2. \A p \in Pos : EmptyRing.count[p] = 0 /\ EmptyRing.owner[p] = NoShard
      BY DEF EmptyRing
    <2>3. QED
      BY <1>5, <2>1, <2>2 DEF AddAll
  <1>7. \A p \in Pos : /\ a.count[p] \in {0, 1} /\ (p \in vnode[Newcomer] => a.count[p] = 0)
                       /\ a.owner[p] # Newcomer /\ (p \in vnode[Newcomer] => a.owner[p] = NoShard)
    <2> SUFFICES ASSUME NEW p \in Pos
                 PROVE  /\ a.count[p] \in {0, 1} /\ (p \in vnode[Newcomer] => a.count[p] = 0)
                        /\ a.owner[p] # Newcomer /\ (p \in vnode[Newcomer] => a.owner[p] = NoShard)
      OBVIOUS
    <2>1. CASE \E s \in names : p \in vnode[s]
      <3>1. owner[p] \in names
        BY <1>5, <2>1
      <3>2. QED
        BY <1>2, <1>3, <1>6, <2>1, <3>1
    <2>2. CASE ~\E s \in names : p \in vnode[s]
      BY <1>2, <1>5, <1>6, <2>2
    <2>3. QED
      BY <2>1, <2>2
  <1>8. PICK b : b = GrownRing(n)
    OBVIOUS
  <1>9. b = [count |-> [p \in Pos |-> IF p \in vnode[Newcomer] THEN 1 ELSE a.count[p]],
             owner |-> [p \in Pos |-> IF p \in vnode[Newcomer] THEN Newcomer ELSE a.owner[p]]]
    <2>1. \A p \in Pos : (\E s \in {Newcomer} : p \in vnode[s]) <=> p \in vnode[Newcomer]
      OBVIOUS
    <2>2. \A p \in Pos : p \in vnode[Newcomer] => (CHOOSE s \in {Newcomer} : p \in vnode[s]) = Newcomer
      OBVIOUS
    <2>3. [p \in Pos |-> IF \E s \in {Newcomer} : p \in vnode[s]
                         THEN CHOOSE s \in {Newcomer} : p \in vnode[s] ELSE a.owner[p]]
            = [p \in Pos |-> IF p \in vnode[Newcomer] THEN Newcomer ELSE a.owner[p]]
      BY <2>1, <2>2
    <2>4. [p \in Pos |-> IF \E s \in {Newcomer} : p \in vnode[s] THEN 1 ELSE a.count[p]]
            = [p \in Pos |-> IF p \in vnode[Newcomer] THEN 1 ELSE a.count[p]]
      BY <2>1
    <2>5. QED
      BY <1>4, <1>8, <2>3, <2>4 DEF GrownRing, AddAll
  <1>10. AddShard(a, vnode, Newcomer) = b
    BY <1>7, <1>9 DEF AddShard
  <1>11. RemoveShard(b, vnode, Newcomer) = a
    <2>1. [p \in Pos |-> IF p \in vnode[Newcomer] /\ b.count[p] > 0 THEN b.count[p] - 1 ELSE b.count[p]]
             = [p \in Pos |-> IF \E s \in names : p \in vnode[s] THEN 1 ELSE 0]
      BY <1>3, <1>6, <1>7, <1>9
    <2>2. [p \in Pos |-> IF p \in vnode[Newcomer] THEN NoShard ELSE b.owner[p]] = owner
      BY <1>5, <1>6, <1>7, <1>9
    <2>3. QED
      BY <1>6, <2>1, <2>2 DEF RemoveShard
  <1>12. RemoveShard(a, vnode, Newcomer) = a
    <2>1. [p \in Pos |-> IF p \in vnode[Newcomer] /\ a.count[p] > 0 THEN a.count[p] - 1 ELSE a.count[p]]
             = [p \in Pos |-> IF \E s \in names : p \in vnode[s] THEN 1 ELSE 0]
      BY <1>3, <1>6, <1>7
    <2>2. [p \in Pos |-> IF p \in vnode[Newcomer] THEN NoShard ELSE a.owner[p]] = owner
      BY <1>5, <1>6, <1>7
    <2>3. QED
      BY <1>6, <2>1, <2>2 DEF RemoveShard
  <1>13. Newcomer \notin GetAllShards(a)
    BY <1>7 DEF GetAllShards
  <1>14. Newcomer \in GetAllShards(b)
    <2>1. PICK p \in Pos : p \in vnode[Newcomer]
      BY <1>3
    <2>2. b.owner[p] = Newcomer
      BY <1>9, <2>1
    <2>3. QED
      BY <1>2, <2>1, <2>2 DEF GetAllShards
  <1>15. /\ \A p \in Pos : b.count[p] = IF p \in vnode[Newcomer] THEN 1 ELSE a.count[p]
         /\ \A p \in Pos : b.owner[p] = IF p \in vnode[Newcomer] THEN Newcomer ELSE a.owner[p]
    BY <1>9
  <1>16. Places(b) = {p \in Pos : b.count[p] > 0}
    BY DEF Places
  <1>17. vnode[Newcomer] \subseteq Places(b)
    BY <1>3, <1>15, <1>16
  <1>18. \A p \in Places(b) : b.count[p] = 1 /\ (b.owner[p] = Newcomer <=> p \in vnode[Newcomer])
    BY <1>7, <1>15, <1>16
  <1>19. n \in Member => Places(b) \ vnode[Newcomer] # {}
    <2> SUFFICES ASSUME n \in Member PROVE \E p \in Places(b) : p \notin vnode[Newcomer]
      OBVIOUS
    <2>1. ShardOf[n] \in names
      BY <1>1
    <2>2. PICK p \in Pos : p \in vnode[ShardOf[n]]
      BY <1>2, <2>1, VnodeAssumption
    <2>3. p \notin vnode[Newcomer] /\ a.count[p] = 1
      BY <1>3, <1>6, <2>1, <2>2
    <2>4. QED
      BY <1>15, <1>16, <2>3
  <1>20. QED
    BY <1>3, <1>4, <1>8, <1>10, <1>11, <1>12, <1>13, <1>14, <1>17, <1>18, <1>19

\* A member's ring holds other shards than the newcomer, so its removal has tasks
\* there.
LEMMA RemovalHasTasks ==
  ASSUME NEW n \in Member
  PROVE  CalculateMigrationsForRemoval(GrownRing(n), vnode, Newcomer) # {}
  <1>1. PICK r : r = GrownRing(n)
    OBVIOUS
  <1>2. PICK P \in SUBSET Pos : P = Places(r)
    BY DEF Places
  <1>3. PICK V \in SUBSET P : V = vnode[Newcomer] /\ V # {} /\ P \ V # {}
    BY <1>1, <1>2, NewcomerInRing DEF Node
  <1>4. \A p \in P : r.count[p] = 1 /\ (r.owner[p] = Newcomer <=> p \in V)
    BY <1>1, <1>2, <1>3, NewcomerInRing DEF Node
  <1>5. P # {} /\ P \subseteq Nat /\ V \in SUBSET Pos
    BY <1>3, PosAssumption
  <1>6. \A k \in Nat : FirstFrom(r, k) = First(P, k)
    BY <1>2 DEF FirstFrom, First
  <1>7. \A u \in V : u \in Nat /\ u + 1 \in Nat /\ u \in P
    BY <1>5
  <1>8. \A u \in V : NextFrom(r, u) = First(P, u + 1) /\ First(P, u + 1) \in P
    <2> SUFFICES ASSUME NEW u \in V PROVE NextFrom(r, u) = First(P, u + 1) /\ First(P, u + 1) \in P
      OBVIOUS
    <2>1. PICK q \in P : q = First(P, u) /\ \A p \in P : p >= u => q >= u /\ q <= p
      BY <1>5, <1>7, FirstFacts
    <2>2. First(P, u) = u
      <3>1. u >= u /\ u \in P /\ q \in Nat /\ u \in Nat
        BY <1>5, <1>7
      <3>2. QED
        BY <2>1, <3>1
    <2>3. First(P, u + 1) \in P
      BY <1>5, <1>7, FirstFacts
    <2>4. QED
      BY <1>4, <1>6, <1>7, <2>2, <2>3 DEF NextFrom
  <1>9. PICK q \in P : q \notin V
    BY <1>3
  <1>10. \E u \in V : First(P, u + 1) \notin V
    <2>1. CASE \E v \in V : v < q
      <3>1. PICK w \in V : w < q /\ \A v \in V : v < q => v <= w
        <4>1. PICK S \in SUBSET Pos : S = {v \in V : v < q} /\ S # {}
          BY <1>5, <2>1
        <4>2. Max(S) \in S /\ \A p \in S : p <= Max(S)
          BY <4>1, MaxPos
        <4>3. QED
          BY <4>1, <4>2
      <3>2. PICK h \in Nat : h = w + 1
        BY <1>7
      <3>3. PICK f \in P : f = First(P, h) /\ \A p \in P : p >= h => f >= h /\ f <= p
        BY <1>5, FirstFacts
      <3>4. f >= h /\ f <= q
        BY <1>5, <1>7, <1>9, <3>1, <3>2, <3>3
      <3>5. f \notin V
        BY <1>5, <1>7, <1>9, <3>1, <3>2, <3>4
      <3>6. QED
        BY <3>2, <3>3, <3>5
    <2>2. CASE ~\E v \in V : v < q
      <3>1. PICK w \in V : \A v \in V : v <= w
        BY <1>3, <1>5, MaxPos
      <3>2. PICK h \in Nat : h = w + 1
        BY <1>7
      <3>3. PICK f \in P : /\ f = First(P, h) /\ \A p \in P : p >= h => f >= h /\ f <= p
                           /\ (\A p \in P : p < h) => \A p \in P : f <= p
        BY <1>5, FirstFacts
      <3>4. CASE \E p \in P : p >= h
        <4>1. f >= h
          BY <3>3, <3>4
        <4>2. f \notin V
          BY <1>5, <1>7, <3>1, <3>2, <4>1
        <4>3. QED
          BY <3>2, <3>3, <4>2
      <3>5. CASE ~\E p \in P : p >= h
        <4>1. f <= q
          BY <1>5, <1>9, <3>3, <3>5
        <4>2. f \notin V
          BY <1>5, <1>7, <1>9, <2>2, <4>1
        <4>3. QED
          BY <3>2, <3>3, <4>2
      <3>6. QED
        BY <3>4, <3>5
    <2>3. QED
      BY <2>1, <2>2
  <1>11. PICK u \in V : r.owner[NextFrom(r, u)] # Newcomer
    BY <1>4, <1>8, <1>10
  <1>12. Places(r) # {}
    BY <1>2, <1>5
  <1>13. QED
    BY <1>1, <1>3, <1>11, <1>12 DEF CalculateMigrationsForRemoval

\* The ring r of node n is as it should be without the newcomer, or with it.  A
\* newcomer that has added itself (self) may have its places too often.
IsStart(n, r, self) ==
  r.owner = StartRing(n).owner /\ (r = StartRing(n) \/ (n = Newcomer /\ self))
IsGrown(n, r, self) ==
  r.owner = GrownRing(n).owner /\ (r = GrownRing(n) \/ (n = Newcomer /\ self))

LEMMA NewcomerChanges ==
  ASSUME NEW n \in Node, NEW r, NEW self \in BOOLEAN
  PROVE  /\ IsStart(n, r, self) => IsGrown(n, AddShard(r, vnode, Newcomer), self)
         /\ n = Newcomer /\ self /\ IsGrown(n, r, self) => IsGrown(n, AddShard(r, vnode, Newcomer), self)
         /\ IsStart(n, r, self) \/ IsGrown(n, r, self) => IsStart(n, RemoveShard(r, vnode, Newcomer), self)
         /\ IsStart(n, r, self) => Newcomer \notin GetAllShards(r)
         /\ IsGrown(n, r, self) => Newcomer \in GetAllShards(r)
  <1>1. PICK a : a = StartRing(n)
    OBVIOUS
  <1>2. PICK b : b = GrownRing(n)
    OBVIOUS
  <1>3. /\ AddShard(a, vnode, Newcomer) = b /\ RemoveShard(b, vnode, Newcomer) = a
        /\ RemoveShard(a, vnode, Newcomer) = a
        /\ Newcomer \notin GetAllShards(a) /\ Newcomer \in GetAllShards(b)
    BY <1>1, <1>2, NewcomerInRing
  <1>4. b.owner = [p \in Pos |-> IF p \in vnode[Newcomer] THEN Newcomer ELSE a.owner[p]]
    BY <1>3 DEF AddShard
  <1>5. a.owner = [p \in Pos |-> IF p \in vnode[Newcomer] THEN NoShard ELSE b.owner[p]]
    BY <1>3 DEF RemoveShard
  <1>6. /\ AddShard(r, vnode, Newcomer).owner = [p \in Pos |-> IF p \in vnode[Newcomer] THEN Newcomer ELSE r.owner[p]]
        /\ RemoveShard(r, vnode, Newcomer).owner = [p \in Pos |-> IF p \in vnode[Newcomer] THEN NoShard ELSE r.owner[p]]
    BY DEF AddShard, RemoveShard
  <1>7. r.owner = a.owner \/ r.owner = b.owner =>
           AddShard(r, vnode, Newcomer).owner = b.owner /\ RemoveShard(r, vnode, Newcomer).owner = a.owner
    BY <1>4, <1>5, <1>6
  <1>8. r.owner = a.owner => GetAllShards(r) = GetAllShards(a)
    BY DEF GetAllShards
  <1>9. r.owner = b.owner => GetAllShards(r) = GetAllShards(b)
    BY DEF GetAllShards
  <1>10. QED
    BY <1>1, <1>2, <1>3, <1>7, <1>8, <1>9 DEF IsStart, IsGrown

Underway == {"tasks", "read", "send", "verify"}

IsActive(r) == r.phase \notin {"none", "done"}

AllStart(rg, self) == \A m \in Node : IsStart(m, rg[m], self)
AllGrown(rg, kn, self) == \A m \in Node : IsGrown(m, rg[m], self) /\ Newcomer \in kn[m]

\* How far the rings have come while r is handled.  A node that is in the ring of
\* the others must know the newcomer, or a later REMOVENODE would not reach it.
RingsDuring(r, rg, kn, self) ==
  /\ r.kind = "add" => r.at \in Member \/ (r.at = Newcomer /\ self)
  /\ r.kind = "add" /\ r.phase = "checked" => AllStart(rg, self)
  /\ r.kind = "add" /\ r.phase \in Underway =>
       /\ IsGrown(r.at, rg[r.at], self) /\ Newcomer \in kn[r.at]
       /\ \A m \in Node : m # r.at => IsStart(m, rg[m], self)
  /\ r.kind = "add" /\ r.phase = "notify" =>
       \A m \in Node :
         /\ m \in r.notify => \/ IsStart(m, rg[m], self)
                              \/ m = Newcomer /\ self /\ IsGrown(m, rg[m], self)
         /\ m \notin r.notify => IsGrown(m, rg[m], self) /\ Newcomer \in kn[m]
  /\ r.kind = "remove" /\ r.phase \in {"checked"} \cup Underway => AllGrown(rg, kn, self)
  /\ r.kind = "remove" /\ r.phase \in Underway /\ r.at \in Member => r.tasks # {} \/ r.task # NoTask
  /\ r.kind = "remove" /\ r.phase = "notify" =>
       /\ \A m \in Node : /\ m \in r.notify => IsStart(m, rg[m], self) \/ IsGrown(m, rg[m], self)
                          /\ m \notin r.notify => IsStart(m, rg[m], self)
       /\ r.at \in Member => Newcomer \in kn[r.at] /\ r.at \notin r.notify
       /\ r.at = Newcomer => IsStart(Newcomer, rg[Newcomer], self)

OneAtATime == \A c, d \in Command : IsActive(cmd[c]) /\ IsActive(cmd[d]) => c = d
RingsAtRest == (\A c \in Command : ~IsActive(cmd[c])) => AllStart(ring, selfAdded) \/ AllGrown(ring, known, selfAdded)
RingsInStep == \A c \in Command : IsActive(cmd[c]) => RingsDuring(cmd[c], ring, known, selfAdded)

RingsInv ==
  /\ SurvivalInv
  /\ ring = [n \in Node |-> ring[n]] /\ {unsound, selfAdded} \subseteq BOOLEAN
  /\ ~unsound => OneAtATime /\ RingsAtRest /\ RingsInStep

LEMMA RingsInit == Init => RingsInv
  <1> SUFFICES ASSUME Init PROVE RingsInv
    OBVIOUS
  <1>1. /\ SurvivalInv /\ cmd = [c \in Command |-> Idle] /\ ring = [n \in Node |-> StartRing(n)]
        /\ unsound = FALSE /\ selfAdded = FALSE
    BY SurvivalInit DEF Init
  <1>2. \A c \in Command : ~IsActive(cmd[c])
    BY <1>1 DEF Idle, IsActive
  <1>3. ring = [n \in Node |-> ring[n]] /\ AllStart(ring, selfAdded)
    BY <1>1 DEF AllStart, IsStart
  <1>4. QED
    BY <1>1, <1>2, <1>3 DEF RingsInv, OneAtATime, RingsAtRest, RingsInStep

\* A step of the only handler.
LEMMA RingsStep ==
  ASSUME RingsInv, SurvivalInv', NEW c \in Command, NEW s, IsCommand(s), Becomes(c, s),
         IsActive(cmd[c]), ring' = [n \in Node |-> ring'[n]], unsound' \in BOOLEAN, unsound => unsound',
         selfAdded' = selfAdded,
         ~unsound' /\ ~IsActive(s) => AllStart(ring', selfAdded) \/ AllGrown(ring', known', selfAdded),
         ~unsound' /\ IsActive(s) => RingsDuring(s, ring', known', selfAdded)
  PROVE  RingsInv'
  <1> SUFFICES ASSUME ~unsound' PROVE (OneAtATime /\ RingsAtRest /\ RingsInStep)'
    BY DEF RingsInv
  <1>1. /\ cmd'[c] = s /\ \A d \in Command : d # c => cmd'[d] = cmd[d]
    BY BecomesTyped DEF RingsInv, SurvivalInv
  <1>2. ~unsound /\ OneAtATime
    BY DEF RingsInv
  <1>3. \A d \in Command : d # c => ~IsActive(cmd'[d])
    BY <1>1, <1>2 DEF OneAtATime
  <1>4. OneAtATime'
    BY <1>3 DEF OneAtATime
  <1>5. RingsAtRest'
    BY <1>1, <1>3 DEF RingsAtRest
  <1>6. RingsInStep'
    BY <1>1, <1>3 DEF RingsInStep
  <1>7. QED
    BY <1>4, <1>5, <1>6

\* A step that touches no ring.
LEMMA RingsKept ==
  ASSUME RingsInv, SurvivalInv', NEW c \in Command, NEW s, IsCommand(s), Becomes(c, s),
         cmd[c].phase \in Underway, s.phase \in Underway, s.kind = cmd[c].kind, s.at = cmd[c].at,
         s.task # NoTask \/ (s.tasks = cmd[c].tasks /\ s.task = cmd[c].task),
         UNCHANGED <<ring, known, unsound, selfAdded>>
  PROVE  RingsInv'
  <1>1. IsActive(cmd[c]) /\ IsActive(s)
    BY DEF IsActive, Underway
  <1>2. ~unsound => RingsDuring(cmd[c], ring, known, selfAdded)
    BY <1>1 DEF RingsInv, RingsInStep
  <1>3. RingsDuring(cmd[c], ring, known, selfAdded) => RingsDuring(s, ring, known, selfAdded)
    BY DEF RingsDuring, Underway
  <1>4. ring' = [n \in Node |-> ring'[n]] /\ unsound' \in BOOLEAN
    BY DEF RingsInv
  <1>5. QED
    BY <1>1, <1>2, <1>3, <1>4, RingsStep

LEMMA RingsBegin ==
  ASSUME RingsInv, SurvivalInv', NEW c \in Command, NEW kind \in {"add", "remove"}, NEW n \in Node, Begin(c, kind, n)
  PROVE  RingsInv'
  <1>1. PICK s : /\ IsCommand(s) /\ Becomes(c, s)
                 /\ s.phase = "checked" /\ s.kind = kind /\ s.at = n /\ s.keys = {} /\ s.values = [k \in Key |-> None]
    BY BeginFields DEF RingsInv, SurvivalInv
  <1>2. /\ UNCHANGED <<ring, known>> /\ unsound' = (unsound \/ \E d \in Command : IsActive(cmd[d]))
        /\ (Newcomer \in GetAllShards(ring[n])) = (kind = "remove")
        /\ selfAdded' = (selfAdded \/ (kind = "add" /\ n = Newcomer))
    BY DEF Begin, Active, IsActive
  <1>3. ring' = [m \in Node |-> ring'[m]]
    BY <1>2 DEF RingsInv
  <1>4. unsound' \in BOOLEAN /\ selfAdded \in BOOLEAN /\ selfAdded' \in BOOLEAN
    BY <1>2 DEF RingsInv
  <1> SUFFICES ASSUME ~unsound' PROVE (OneAtATime /\ RingsAtRest /\ RingsInStep)'
    BY <1>3, <1>4 DEF RingsInv
  <1>5. /\ cmd'[c] = s /\ \A d \in Command : d # c => cmd'[d] = cmd[d]
    BY <1>1, BecomesTyped DEF RingsInv, SurvivalInv
  <1>6. ~unsound /\ \A d \in Command : ~IsActive(cmd[d])
    BY <1>2
  <1>7. \A d \in Command : d # c => ~IsActive(cmd'[d])
    BY <1>5, <1>6
  <1>8. AllStart(ring, selfAdded) \/ AllGrown(ring, known, selfAdded)
    BY <1>6 DEF RingsInv, RingsAtRest
  <1>9. kind = "remove" => AllGrown(ring, known, selfAdded)
    BY <1>2, <1>4, <1>8, NewcomerChanges DEF AllStart
  <1>10. kind = "add" => AllStart(ring, selfAdded)
    BY <1>2, <1>4, <1>8, NewcomerChanges DEF AllGrown
  <1>11. RingsDuring(s, ring, known, selfAdded')
    <2>1. kind = "add" => AllStart(ring, selfAdded')
      BY <1>2, <1>10 DEF AllStart, IsStart
    <2>2. kind = "remove" => AllGrown(ring, known, selfAdded')
      BY <1>2, <1>9 DEF AllGrown, IsGrown
    <2>3. kind = "add" => n \in Member \/ (n = Newcomer /\ selfAdded')
      BY <1>2 DEF Node
    <2>4. QED
      BY <1>1, <2>1, <2>2, <2>3 DEF RingsDuring, Underway
  <1>12. IsActive(s)
    BY <1>1 DEF IsActive
  <1>13. QED
    BY <1>2, <1>5, <1>7, <1>11, <1>12 DEF OneAtATime, RingsAtRest, RingsInStep

LEMMA RingsCalculate ==
  ASSUME RingsInv, SurvivalInv', NEW c \in Command, Calculate(c)
  PROVE  RingsInv'
  <1>1. PICK s : /\ IsCommand(s) /\ Becomes(c, s) /\ cmd[c].phase = "checked"
                 /\ s.phase = "tasks" /\ s.kind = cmd[c].kind /\ s.at = cmd[c].at
                 /\ s.keys = cmd[c].keys /\ s.values = cmd[c].values
                 /\ s.kind = "remove" => s.tasks = CalculateMigrationsForRemoval(ring[s.at], vnode, Newcomer)
    BY CalculateFields DEF RingsInv, SurvivalInv
  <1>2. PICK n \in Node : n = s.at
    BY <1>1 DEF IsCommand
  <1>3. IsActive(cmd[c]) /\ IsActive(s) /\ unsound' = unsound /\ selfAdded' = selfAdded
    BY <1>1 DEF IsActive, Calculate
  <1>4. /\ ring = [m \in Node |-> ring[m]] /\ known \in [Node -> SUBSET Node]
        /\ unsound \in BOOLEAN /\ selfAdded \in BOOLEAN
    BY DEF RingsInv, SurvivalInv, MigrationTyped
  <1>5. ~unsound => RingsDuring(cmd[c], ring, known, selfAdded)
    BY <1>3 DEF RingsInv, RingsInStep
  <1>6. CASE s.kind = "add"
    <2>1. /\ ring' = [ring EXCEPT ![n] = AddShard(ring[n], vnode, Newcomer)]
          /\ known' = [known EXCEPT ![n] = known[n] \cup {Newcomer}]
      BY <1>1, <1>2, <1>6 DEF Calculate
    <2>2. ring' = [m \in Node |-> ring'[m]]
      BY <1>4, <2>1
    <2>3. /\ ring'[n] = AddShard(ring[n], vnode, Newcomer) /\ Newcomer \in known'[n]
          /\ \A m \in Node : m # n => ring'[m] = ring[m]
      BY <1>4, <2>1
    <2>4. ~unsound => AllStart(ring, selfAdded) /\ (n \in Member \/ (n = Newcomer /\ selfAdded))
      BY <1>1, <1>2, <1>5, <1>6 DEF RingsDuring
    <2>5. ~unsound => /\ IsGrown(n, ring'[n], selfAdded)
                      /\ \A m \in Node : m # n => IsStart(m, ring'[m], selfAdded)
      BY <1>4, <2>3, <2>4, NewcomerChanges DEF AllStart
    <2>6. ~unsound => RingsDuring(s, ring', known', selfAdded)
      BY <1>1, <1>2, <1>6, <2>3, <2>4, <2>5 DEF RingsDuring
    <2>7. QED
      BY <1>1, <1>3, <1>4, <2>2, <2>6, RingsStep
  <1>7. CASE s.kind = "remove"
    <2>1. UNCHANGED <<ring, known>>
      BY <1>1, <1>7 DEF Calculate
    <2>2. ~unsound => AllGrown(ring, known, selfAdded)
      BY <1>1, <1>5, <1>7 DEF RingsDuring
    <2>3. ~unsound /\ n \in Member => s.tasks # {}
      <3> SUFFICES ASSUME ~unsound, n \in Member PROVE s.tasks # {}
        OBVIOUS
      <3>1. ring[n] = GrownRing(n)
        BY <2>2, NewcomerAssumption DEF AllGrown, IsGrown
      <3>2. QED
        BY <1>1, <1>2, <1>7, <3>1, RemovalHasTasks
    <2>4. ~unsound => RingsDuring(s, ring, known, selfAdded)
      BY <1>1, <1>2, <1>7, <2>2, <2>3 DEF RingsDuring, Underway
    <2>5. QED
      BY <1>1, <1>3, <1>4, <2>1, <2>4, RingsStep
  <1>8. QED
    BY <1>1, <1>6, <1>7 DEF Calculate

LEMMA RingsMigrated ==
  ASSUME RingsInv, SurvivalInv', NEW c \in Command, Migrated(c)
  PROVE  RingsInv'
  <1>1. PICK s : /\ IsCommand(s) /\ Becomes(c, s) /\ cmd[c].phase = "tasks"
                 /\ s.phase = "notify" /\ s.kind = cmd[c].kind /\ s.at = cmd[c].at
                 /\ s.notify = (Member \ {cmd[c].at}) \cup {Newcomer} /\ s.values = cmd[c].values
    BY MigratedFields DEF RingsInv, SurvivalInv
  <1>2. PICK n \in Node : n = s.at
    BY <1>1 DEF IsCommand
  <1>3. IsActive(cmd[c]) /\ IsActive(s) /\ unsound' = unsound /\ selfAdded' = selfAdded
    BY <1>1 DEF IsActive, Migrated
  <1>4. /\ ring = [m \in Node |-> ring[m]] /\ known \in [Node -> SUBSET Node]
        /\ unsound \in BOOLEAN /\ selfAdded \in BOOLEAN
    BY DEF RingsInv, SurvivalInv, MigrationTyped
  <1>5. ~unsound => RingsDuring(cmd[c], ring, known, selfAdded)
    BY <1>3 DEF RingsInv, RingsInStep
  <1>6. CASE s.kind = "add"
    <2>1. ring' = ring /\ known' = known
      BY <1>1, <1>4, <1>6 DEF Migrated
    <2>2. s.notify = (Member \ {n}) \cup {Newcomer}
      BY <1>1, <1>2
    <2>3. ~unsound => /\ n \in Member \/ (n = Newcomer /\ selfAdded)
                      /\ IsGrown(n, ring[n], selfAdded) /\ Newcomer \in known[n]
                      /\ \A m \in Node : m # n => IsStart(m, ring[m], selfAdded)
      BY <1>1, <1>2, <1>5, <1>6 DEF RingsDuring, Underway
    <2>4. \A m \in Node : (m # n => m \in s.notify) /\ (n \in Member => n \notin s.notify)
      BY <2>2, NewcomerAssumption DEF Node
    <2>5. ~unsound => RingsDuring(s, ring, known, selfAdded)
      BY <1>1, <1>2, <1>6, <2>3, <2>4 DEF RingsDuring, Underway
    <2>6. QED
      BY <1>1, <1>3, <1>4, <2>1, <2>5, RingsStep
  <1>7. CASE s.kind = "remove"
    <2>1. /\ ring' = [ring EXCEPT ![n] = RemoveShard(ring[n], vnode, Newcomer)]
          /\ cmd[c].task # NoTask => known' = known
      BY <1>1, <1>2, <1>4, <1>7 DEF Migrated
    <2>2. ring' = [m \in Node |-> ring'[m]]
      BY <1>4, <2>1
    <2>3. /\ ring'[n] = RemoveShard(ring[n], vnode, Newcomer)
          /\ \A m \in Node : m # n => ring'[m] = ring[m]
      BY <1>4, <2>1
    <2>4. ~unsound => AllGrown(ring, known, selfAdded)
      BY <1>1, <1>2, <1>5, <1>7 DEF RingsDuring, Underway
    <2>5. \A m \in Node : (m # n => m \in s.notify) /\ (n \in Member => n \notin s.notify)
      BY <1>1, <1>2, NewcomerAssumption DEF Node
    <2>6. ~unsound => /\ IsStart(n, ring'[n], selfAdded)
                      /\ \A m \in Node : m # n => IsGrown(m, ring'[m], selfAdded)
      BY <1>4, <2>3, <2>4, NewcomerChanges DEF AllGrown
    <2>7. ~unsound /\ n \in Member => Newcomer \in known'[n]
      <3>1. cmd[c].tasks = {}
        BY DEF Migrated
      <3>2. ~unsound /\ n \in Member => cmd[c].task # NoTask
        BY <1>1, <1>2, <1>5, <1>7, <3>1 DEF RingsDuring, Underway
      <3>3. QED
        BY <2>1, <2>4, <3>2 DEF AllGrown
    <2>8. ~unsound => RingsDuring(s, ring', known', selfAdded)
      BY <1>1, <1>2, <1>7, <2>5, <2>6, <2>7 DEF RingsDuring, Underway
    <2>9. QED
      BY <1>1, <1>3, <1>4, <2>2, <2>8, RingsStep
  <1>8. QED
    BY <1>1, <1>6, <1>7 DEF IsCommand

LEMMA RingsNotify ==
  ASSUME RingsInv, SurvivalInv', NEW c \in Command, NEW n \in Node, Notify(c, n)
  PROVE  RingsInv'
  <1>1. PICK s : /\ IsCommand(s) /\ Becomes(c, s) /\ cmd[c].phase = "notify"
                 /\ s.phase = "notify" /\ s.kind = cmd[c].kind /\ s.at = cmd[c].at
                 /\ s.notify = cmd[c].notify \ {n} /\ s.values = cmd[c].values
    BY NotifyFields DEF RingsInv, SurvivalInv
  <1>2. IsActive(cmd[c]) /\ IsActive(s) /\ n \in cmd[c].notify /\ selfAdded' = selfAdded
    BY <1>1 DEF IsActive, Notify
  <1>3. /\ ring = [m \in Node |-> ring[m]] /\ known \in [Node -> SUBSET Node]
        /\ unsound \in BOOLEAN /\ selfAdded \in BOOLEAN
    BY DEF RingsInv, SurvivalInv, MigrationTyped
  <1>4. ~unsound => RingsDuring(cmd[c], ring, known, selfAdded)
    BY <1>2 DEF RingsInv, RingsInStep
  <1>5. CASE unsound' = TRUE /\ ring' = ring
    BY <1>1, <1>2, <1>3, <1>5, RingsStep
  <1>6. CASE /\ ring' = [ring EXCEPT ![n] = Topology(cmd[c].kind, n)] /\ unsound' = unsound
             /\ known' = [known EXCEPT ![n] = IF cmd[c].kind = "add" THEN @ \cup {Newcomer} ELSE @ \ {Newcomer}]
    <2>1. ring' = [m \in Node |-> ring'[m]]
      BY <1>3, <1>6
    <2>2. /\ ring'[n] = Topology(cmd[c].kind, n)
          /\ \A m \in Node : m # n => ring'[m] = ring[m] /\ known'[m] = known[m]
          /\ cmd[c].kind = "add" => Newcomer \in known'[n]
      BY <1>3, <1>6
    <2>3. CASE s.kind = "add"
      <3>1. ~unsound => \/ IsStart(n, ring[n], selfAdded)
                        \/ n = Newcomer /\ selfAdded /\ IsGrown(n, ring[n], selfAdded)
        BY <1>1, <1>2, <1>4, <2>3 DEF RingsDuring
      <3>2. ~unsound => IsGrown(n, ring'[n], selfAdded)
        BY <1>1, <1>3, <2>2, <2>3, <3>1, NewcomerChanges DEF Topology
      <3>3. ~unsound =>
              \A m \in Node :
                /\ m \in s.notify => \/ IsStart(m, ring'[m], selfAdded)
                                     \/ m = Newcomer /\ selfAdded /\ IsGrown(m, ring'[m], selfAdded)
                /\ m \notin s.notify => IsGrown(m, ring'[m], selfAdded) /\ Newcomer \in known'[m]
        BY <1>1, <1>2, <1>4, <2>2, <2>3, <3>2 DEF RingsDuring
      <3>4. ~unsound => RingsDuring(s, ring', known', selfAdded)
        BY <1>1, <1>4, <2>3, <3>3 DEF RingsDuring, Underway
      <3>5. QED
        BY <1>1, <1>2, <1>3, <1>6, <2>1, <3>4, RingsStep
    <2>4. CASE s.kind = "remove"
      <3>1. ~unsound => IsStart(n, ring[n], selfAdded) \/ IsGrown(n, ring[n], selfAdded)
        BY <1>1, <1>2, <1>4, <2>4 DEF RingsDuring
      <3>2. ~unsound => IsStart(n, ring'[n], selfAdded)
        BY <1>1, <1>3, <2>2, <2>4, <3>1, NewcomerChanges DEF Topology
      <3>3. ~unsound => \A m \in Node :
                           /\ m \in s.notify => IsStart(m, ring'[m], selfAdded) \/ IsGrown(m, ring'[m], selfAdded)
                           /\ m \notin s.notify => IsStart(m, ring'[m], selfAdded)
        BY <1>1, <1>2, <1>4, <2>2, <2>4, <3>2 DEF RingsDuring
      <3>4. ~unsound => /\ s.at \in Member => Newcomer \in known'[s.at] /\ s.at \notin s.notify
                        /\ s.at = Newcomer => IsStart(Newcomer, ring'[Newcomer], selfAdded)
        BY <1>1, <1>2, <1>4, <2>2, <2>4, <3>2 DEF RingsDuring, Node
      <3>5. ~unsound => RingsDuring(s, ring', known', selfAdded)
        BY <1>1, <2>4, <3>3, <3>4 DEF RingsDuring, Underway
      <3>6. QED
        BY <1>1, <1>2, <1>3, <1>6, <2>1, <3>5, RingsStep
    <2>5. QED
      BY <1>1, <2>3, <2>4 DEF IsCommand
  <1>7. CASE ~Told(c, n) /\ UNCHANGED <<ring, known, unsound>>
    <2>1. n = Newcomer /\ s.kind = "remove" /\ Newcomer \notin known[s.at] /\ s.at \in Node
      BY <1>1, <1>7 DEF Told, IsCommand
    <2>2. ~unsound => s.at = Newcomer
      BY <1>1, <1>4, <2>1 DEF RingsDuring, Node
    <2>3. ~unsound => RingsDuring(s, ring, known, selfAdded)
      BY <1>1, <1>4, <2>1, <2>2, NewcomerAssumption DEF RingsDuring, Underway
    <2>4. QED
      BY <1>1, <1>2, <1>3, <1>7, <2>3, RingsStep
  <1>8. QED
    BY <1>5, <1>6, <1>7 DEF Notify

LEMMA RingsEnd ==
  ASSUME RingsInv, SurvivalInv', NEW c \in Command, Abort(c) \/ Reply(c)
  PROVE  RingsInv'
  <1>1. PICK s : /\ IsCommand(s) /\ Becomes(c, s) /\ cmd[c].phase \in {"send", "notify"}
                 /\ s.phase = "done" /\ s.keys = {} /\ s.values = [k \in Key |-> None]
    BY EndFields DEF RingsInv, SurvivalInv
  <1>2. IsActive(cmd[c]) /\ ~IsActive(s) /\ UNCHANGED <<ring, known, selfAdded>>
    BY <1>1 DEF IsActive, Abort, Reply
  <1>3. ring' = [m \in Node |-> ring'[m]] /\ unsound \in BOOLEAN
    BY <1>2 DEF RingsInv
  <1>4. CASE Abort(c)
    <2>1. unsound' = TRUE
      BY <1>4 DEF Abort
    <2>2. QED
      BY <1>1, <1>2, <1>3, <2>1, RingsStep
  <1>5. CASE Reply(c)
    <2>1. cmd[c].phase = "notify" /\ cmd[c].notify = {} /\ unsound' = unsound
      BY <1>5 DEF Reply
    <2>2. cmd[c].kind \in {"add", "remove"}
      BY <2>1 DEF RingsInv, SurvivalInv, MigrationTyped, IsCommand
    <2>3. ~unsound => RingsDuring(cmd[c], ring, known, selfAdded)
      BY <1>2 DEF RingsInv, RingsInStep
    <2>4. ~unsound => AllStart(ring, selfAdded) \/ AllGrown(ring, known, selfAdded)
      BY <2>1, <2>2, <2>3 DEF RingsDuring, AllStart, AllGrown
    <2>5. QED
      BY <1>1, <1>2, <1>3, <2>1, <2>4, RingsStep
  <1>6. QED
    BY <1>4, <1>5

LEMMA RingsNext == RingsInv /\ [Next]_vars => RingsInv'
  <1> SUFFICES ASSUME RingsInv, [Next]_vars PROVE RingsInv'
    OBVIOUS
  <1>0. SurvivalInv /\ SurvivalInv' /\ MigrationTyped
    BY SurvivalNext DEF RingsInv, SurvivalInv
  <1>1. CASE UNCHANGED <<ring, known, cmd, unsound, selfAdded>>
    BY <1>0, <1>1 DEF RingsInv, OneAtATime, RingsAtRest, RingsInStep
  <1>2. ASSUME NEW n \in Node, NEW k \in Key, Set(n, k) \/ Del(n, k) PROVE RingsInv'
    BY <1>1, <1>2 DEF Set, Del
  <1>3. ASSUME NEW c \in Command, NEW kind \in {"add", "remove"}, NEW n \in Node, Begin(c, kind, n)
        PROVE  RingsInv'
    BY <1>0, <1>3, RingsBegin
  <1>4. ASSUME NEW c \in Command, Calculate(c) PROVE RingsInv'
    BY <1>0, <1>4, RingsCalculate
  <1>5. ASSUME NEW c \in Command, NEW t \in cmd[c].tasks, ListKeys(c, t) PROVE RingsInv'
    <2>1. UNCHANGED <<ring, known, unsound, selfAdded>>
      BY <1>5 DEF ListKeys
    <2>2. QED
      BY <1>0, <1>5, <2>1, ListKeysFields, RingsKept DEF Underway
  <1>6. ASSUME NEW c \in Command, ReadValues(c) PROVE RingsInv'
    <2>1. UNCHANGED <<ring, known, unsound, selfAdded>>
      BY <1>6 DEF ReadValues
    <2>2. QED
      BY <1>0, <1>6, <2>1, ReadValuesFields, RingsKept DEF Underway
  <1>7. ASSUME NEW c \in Command, NEW k \in Key, SendKey(c, k) \/ SendFails(c, k) PROVE RingsInv'
    <2>1. UNCHANGED <<ring, known, unsound, selfAdded>>
      BY <1>7 DEF SendKey, SendFails
    <2>2. QED
      BY <1>0, <1>7, <2>1, SendFields, RingsKept DEF Underway
  <1>8. ASSUME NEW c \in Command, Verify(c) PROVE RingsInv'
    <2>1. UNCHANGED <<ring, known, unsound, selfAdded>>
      BY <1>8 DEF Verify
    <2>2. QED
      BY <1>0, <1>8, <2>1, VerifyFields, RingsKept DEF Underway
  <1>9. ASSUME NEW c \in Command, DeleteKeys(c) PROVE RingsInv'
    <2>1. UNCHANGED <<ring, known, unsound, selfAdded>>
      BY <1>9 DEF DeleteKeys
    <2>2. QED
      BY <1>0, <1>9, <2>1, DeleteKeysFields, RingsKept DEF Underway
  <1>10. ASSUME NEW c \in Command, Abort(c) \/ Reply(c) PROVE RingsInv'
    BY <1>0, <1>10, RingsEnd
  <1>11. ASSUME NEW c \in Command, Migrated(c) PROVE RingsInv'
    BY <1>0, <1>11, RingsMigrated
  <1>12. ASSUME NEW c \in Command, NEW n \in Node, Notify(c, n) PROVE RingsInv'
    BY <1>0, <1>12, RingsNotify
  <1>13. CASE UNCHANGED vars \/ \E c \in Command : Hang(c) \/ HangEnds(c)
    BY <1>1, <1>13 DEF vars, Hang, HangEnds, OnlyHung
  <1>14. QED
    BY <1>2, <1>3, <1>4, <1>5, <1>6, <1>7, <1>8, <1>9, <1>10, <1>11, <1>12, <1>13
    DEF Next, CommandStep

\* Adding nothing to a ring changes nothing.
LEMMA StartRingIsRing ==
  ASSUME NEW n \in Node
  PROVE  AddAll(StartRing(n), {}) = StartRing(n)
  <1>1. PICK names : StartRing(n) = AddAll(EmptyRing, names)
    BY DEF StartRing
  <1>2. PICK f, g : /\ f = [p \in Pos |-> IF \E s \in names : p \in vnode[s] THEN 1 ELSE EmptyRing.count[p]]
                    /\ g = [p \in Pos |-> IF \E s \in names : p \in vnode[s]
                                           THEN CHOOSE s \in names : p \in vnode[s] ELSE EmptyRing.owner[p]]
                    /\ StartRing(n) = [count |-> f, owner |-> g]
    BY <1>1 DEF AddAll
  <1>3. [p \in Pos |-> f[p]] = f /\ [p \in Pos |-> g[p]] = g
    BY <1>2
  <1>4. AddAll(StartRing(n), {}) = [count |-> [p \in Pos |-> f[p]], owner |-> [p \in Pos |-> g[p]]]
    BY <1>2 DEF AddAll
  <1>5. QED
    BY <1>2, <1>3, <1>4

\* When every ADDNODE and REMOVENODE has been carried out and heard, one after the
\* other and on any node, all nodes have the ring with the newcomer or all have
\* the one without (cluster_commands.go:40-75, migrator.go:43, 225); a newcomer
\* that has handled its own ADDNODE agrees on the owners of all places.
THEOREM NodesAgreeOnRing == Spec => []RingsAgree
  <1>1. RingsInv => RingsAgree
    <2> SUFFICES ASSUME RingsInv, ~unsound, \A c \in Command : ~Active(c)
                 PROVE  \E names \in {{}, {Newcomer}} : \A n \in Node :
                          /\ ring[n].owner = AddAll(StartRing(n), names).owner
                          /\ ring[n] = AddAll(StartRing(n), names) \/ (n = Newcomer /\ selfAdded)
      BY DEF RingsAgree
    <2>1. AllStart(ring, selfAdded) \/ AllGrown(ring, known, selfAdded)
      BY DEF RingsInv, RingsAtRest, Active, IsActive
    <2>2. CASE AllStart(ring, selfAdded)
      <3>1. \A n \in Node : AddAll(StartRing(n), {}) = StartRing(n)
        BY StartRingIsRing
      <3>2. \A n \in Node :
              /\ ring[n].owner = AddAll(StartRing(n), {}).owner
              /\ ring[n] = AddAll(StartRing(n), {}) \/ (n = Newcomer /\ selfAdded)
        BY <2>2, <3>1 DEF AllStart, IsStart
      <3>3. QED
        BY <3>2
    <2>3. CASE AllGrown(ring, known, selfAdded)
      BY <2>3 DEF AllGrown, IsGrown, GrownRing
    <2>4. QED
      BY <2>1, <2>2, <2>3
  <1>2. QED
    BY <1>1, RingsInit, RingsNext, PTL DEF Spec

--------------------------------------------------------------------------------
\* The ring follows the health checker.

\* The ring of the names, where no two share a place.
RingOf(v, names) ==
  [count |-> [p \in Pos |-> IF \E s \in names : p \in v[s] THEN 1 ELSE 0],
   owner |-> [p \in Pos |-> IF \E s \in names : p \in v[s]
                            THEN CHOOSE s \in names : p \in v[s] ELSE NoShard]]

LEMMA ReferenceIsRingOf ==
  ASSUME layout \in Layouts, NEW names \in SUBSET Shard
  PROVE  Reference(names) = RingOf(layout, names)
  <1>1. \A s, t \in names : s # t => layout[s] \cap layout[t] = {}
    BY HealthAssumption
  <1>2. ASSUME NEW p \in Pos
        PROVE  Cardinality({s \in names : p \in layout[s]}) = IF \E s \in names : p \in layout[s] THEN 1 ELSE 0
    <2>1. CASE \E s \in names : p \in layout[s]
      <3>1. PICK s \in names : p \in layout[s]
        BY <2>1
      <3>2. {t \in names : p \in layout[t]} = {s}
        BY <1>1, <3>1
      <3>3. QED
        BY <2>1, <3>2, FS_Singleton
    <2>2. CASE ~\E s \in names : p \in layout[s]
      <3>1. {t \in names : p \in layout[t]} = {}
        BY <2>2
      <3>2. QED
        BY <2>2, <3>1, FS_EmptySet
    <2>3. QED
      BY <2>1, <2>2
  <1>3. [p \in Pos |-> Cardinality({s \in names : p \in layout[s]})]
          = [p \in Pos |-> IF \E s \in names : p \in layout[s] THEN 1 ELSE 0]
    BY <1>2
  <1>4. QED
    BY <1>3 DEF Reference, RingOf

\* A name that is not in the ring is added to it, and removing one leaves the others.
LEMMA RingOfChanges ==
  ASSUME NEW v \in Layouts, NEW names \in SUBSET Shard, NEW n \in Shard
  PROVE  /\ n \notin names => AddShard(RingOf(v, names), v, n) = RingOf(v, names \cup {n})
         /\ RemoveShard(RingOf(v, names), v, n) = RingOf(v, names \ {n})
  <1>1. \A s, t \in Shard : s # t => v[s] \cap v[t] = {}
    BY HealthAssumption
  <1>2. PICK r : r = RingOf(v, names)
    OBVIOUS
  <1>3. \A p \in Pos : /\ r.count[p] = IF \E s \in names : p \in v[s] THEN 1 ELSE 0
                       /\ r.owner[p] = IF \E s \in names : p \in v[s] THEN CHOOSE s \in names : p \in v[s] ELSE NoShard
    BY <1>2 DEF RingOf
  <1>4. \A ns \in SUBSET Shard, p \in Pos, s \in Shard :
          s \in ns /\ p \in v[s] => (CHOOSE t \in ns : p \in v[t]) = s
    <2> SUFFICES ASSUME NEW ns \in SUBSET Shard, NEW p \in Pos, NEW s \in Shard, s \in ns, p \in v[s]
                 PROVE  (CHOOSE t \in ns : p \in v[t]) = s
      OBVIOUS
    <2>1. \A t \in ns : p \in v[t] => t = s
      BY <1>1
    <2>2. QED
      BY <2>1
  <1>5. ASSUME n \notin names PROVE AddShard(r, v, n) = RingOf(v, names \cup {n})
    <2>1. \A p \in Pos : (IF p \in v[n] THEN r.count[p] + 1 ELSE r.count[p])
                           = IF \E s \in names \cup {n} : p \in v[s] THEN 1 ELSE 0
      BY <1>1, <1>3, <1>5
    <2>2. \A p \in Pos : (IF p \in v[n] THEN n ELSE r.owner[p])
                           = IF \E s \in names \cup {n} : p \in v[s]
                             THEN CHOOSE s \in names \cup {n} : p \in v[s] ELSE NoShard
      <3> SUFFICES ASSUME NEW p \in Pos
                   PROVE  (IF p \in v[n] THEN n ELSE r.owner[p])
                           = IF \E s \in names \cup {n} : p \in v[s]
                             THEN CHOOSE s \in names \cup {n} : p \in v[s] ELSE NoShard
        OBVIOUS
      <3>1. CASE p \in v[n]
        BY <1>4, <3>1
      <3>2. CASE p \notin v[n] /\ \E s \in names : p \in v[s]
        <4>1. PICK s \in names : p \in v[s]
          BY <3>2
        <4>2. /\ (CHOOSE t \in names \cup {n} : p \in v[t]) = s
              /\ (CHOOSE t \in names : p \in v[t]) = s
          BY <1>4, <4>1
        <4>3. QED
          BY <1>3, <3>2, <4>1, <4>2
      <3>3. CASE p \notin v[n] /\ ~\E s \in names : p \in v[s]
        BY <1>3, <3>3
      <3>4. QED
        BY <3>1, <3>2, <3>3
    <2>3. QED
      BY <2>1, <2>2 DEF AddShard, RingOf
  <1>6. RemoveShard(r, v, n) = RingOf(v, names \ {n})
    <2>1. \A p \in Pos : (IF p \in v[n] /\ r.count[p] > 0 THEN r.count[p] - 1 ELSE r.count[p])
                           = IF \E s \in names \ {n} : p \in v[s] THEN 1 ELSE 0
      BY <1>1, <1>3
    <2>2. \A p \in Pos : (IF p \in v[n] THEN NoShard ELSE r.owner[p])
                           = IF \E s \in names \ {n} : p \in v[s]
                             THEN CHOOSE s \in names \ {n} : p \in v[s] ELSE NoShard
      <3> SUFFICES ASSUME NEW p \in Pos
                   PROVE  (IF p \in v[n] THEN NoShard ELSE r.owner[p])
                           = IF \E s \in names \ {n} : p \in v[s]
                             THEN CHOOSE s \in names \ {n} : p \in v[s] ELSE NoShard
        OBVIOUS
      <3>1. CASE p \in v[n]
        BY <1>1, <3>1
      <3>2. CASE p \notin v[n] /\ \E s \in names : p \in v[s]
        <4>1. PICK s \in names : p \in v[s]
          BY <3>2
        <4>2. /\ (CHOOSE t \in names \ {n} : p \in v[t]) = s
              /\ (CHOOSE t \in names : p \in v[t]) = s
          BY <1>4, <3>2, <4>1
        <4>3. QED
          BY <1>3, <3>2, <4>1, <4>2
      <3>3. CASE p \notin v[n] /\ ~\E s \in names : p \in v[s]
        BY <1>3, <3>3
      <3>4. QED
        BY <3>1, <3>2, <3>3
    <2>3. QED
      BY <2>1, <2>2 DEF RemoveShard, RingOf
  <1>7. QED
    BY <1>2, <1>5, <1>6

HealthTyped ==
  /\ layout \in Layouts
  /\ status \in [Monitored -> {"alive", "suspected", "dead"}]
  /\ failures \in [Monitored -> 0..Threshold]
  /\ pending \in [Monitored -> [Kind -> Nat]]
  /\ overlapped \in SUBSET Monitored /\ returned \in SUBSET Monitored
  \* A dead node stays dead while its pings fail.
  /\ \A n \in Monitored : status[n] = "dead" => failures[n] = Threshold

\* Whether n is among the names, as far as its status and its one pending
\* callback tell.
Fits(n, names, failed, recovered, st, ret) ==
  /\ failed = 0 /\ recovered = 0 => (n \in names <=> n \in StartShard \cup ret /\ st # "dead")
  /\ failed > 0 => failed = 1 /\ recovered = 0 /\ st = "dead" /\ n \notin ret
  /\ recovered > 0 => recovered = 1 /\ failed = 0 /\ st # "dead" /\ n \in ret /\ n \notin names

\* The ring is that of the names.
RingHolds(names) ==
  /\ serverRing = RingOf(layout, names)
  /\ \A s \in Shard \ Monitored : s \in names <=> s \in StartShard
  /\ \A n \in Monitored : Fits(n, names, pending[n]["failed"], pending[n]["recovered"], status[n], returned)

HealthInv == HealthTyped /\ (overlapped = {} => \E names \in SUBSET Shard : RingHolds(names))

LEMMA HealthInitial == HealthInit => HealthInv
  <1> SUFFICES ASSUME HealthInit PROVE HealthInv
    OBVIOUS
  <1> USE DEF HealthInit
  <1>1. HealthTyped
    BY HealthAssumption DEF HealthTyped, Kind
  <1>2. StartShard \in SUBSET Shard
    BY HealthAssumption
  <1>3. serverRing = RingOf(layout, StartShard)
    BY <1>2, ReferenceIsRingOf
  <1>4. \A n \in Monitored : pending[n]["failed"] = 0 /\ pending[n]["recovered"] = 0 /\ status[n] = "alive"
    BY DEF Kind
  <1>5. RingHolds(StartShard)
    BY <1>3, <1>4 DEF RingHolds, Fits
  <1>6. QED
    BY <1>1, <1>2, <1>5 DEF HealthInv

LEMMA MinOfTwo ==
  ASSUME NEW a \in Int, NEW b \in Int
  PROVE  Min({a, b}) = IF a <= b THEN a ELSE b
  BY DEF Min

LEMMA CheckFailsKeeps ==
  ASSUME HealthInv, NEW n \in Monitored, CheckFails(n)
  PROVE  HealthInv'
  <1> USE DEF HealthInv
  <1>1. PICK fails : fails = Min({failures[n] + 1, Threshold})
    OBVIOUS
  <1>2. Threshold \in Nat \ {0} /\ Monitored \subseteq Shard /\ failures[n] \in 0..Threshold
    BY HealthAssumption DEF HealthTyped
  <1>3. fails = IF failures[n] + 1 <= Threshold THEN failures[n] + 1 ELSE Threshold
    BY <1>1, <1>2, MinOfTwo
  <1>4. fails \in 0..Threshold /\ (status[n] = "dead" => fails >= Threshold) /\ (fails >= Threshold => fails = Threshold)
    <2>1. status[n] = "dead" => failures[n] = Threshold
      BY DEF HealthTyped
    <2>2. QED
      BY <1>2, <1>3, <2>1
  <1>5. PICK st \in {"suspected", "dead"} : st = IF fails >= Threshold THEN "dead" ELSE "suspected"
    OBVIOUS
  <1>6. /\ failures' = [failures EXCEPT ![n] = fails] /\ status' = [status EXCEPT ![n] = st]
        /\ UNCHANGED <<layout, serverRing>>
    BY <1>1, <1>5 DEF CheckFails
  <1>7. /\ status' \in [Monitored -> {"alive", "suspected", "dead"}] /\ failures' \in [Monitored -> 0..Threshold]
        /\ \A m \in Monitored : m # n => status'[m] = status[m] /\ failures'[m] = failures[m]
        /\ status'[n] = st /\ failures'[n] = fails
    BY <1>4, <1>6 DEF HealthTyped
  <1>8. \A m \in Monitored : status'[m] = "dead" => failures'[m] = Threshold
    BY <1>4, <1>5, <1>7 DEF HealthTyped
  <1>9. CASE UNCHANGED <<pending, overlapped, returned>> /\ (status[n] = "dead" \/ fails < Threshold)
    <2>1. HealthTyped'
      BY <1>6, <1>7, <1>8, <1>9 DEF HealthTyped
    <2>2. st = "dead" <=> status[n] = "dead"
      BY <1>2, <1>3, <1>4, <1>5, <1>9
    <2>3. ASSUME NEW names \in SUBSET Shard, RingHolds(names) PROVE RingHolds(names)'
      <3>1. \A m \in Monitored :
              Fits(m, names, pending[m]["failed"], pending[m]["recovered"], status'[m], returned)
        BY <1>7, <2>2, <2>3 DEF RingHolds, Fits
      <3>2. QED
        BY <1>6, <1>9, <2>3, <3>1 DEF RingHolds
    <2>4. QED
      BY <1>9, <2>1, <2>3
  <1>10. CASE status[n] # "dead" /\ fails >= Threshold /\ Spawn(n, "failed") /\ returned' = returned \ {n}
    <2>1. /\ pending' = [pending EXCEPT ![n]["failed"] = pending[n]["failed"] + 1]
          /\ overlapped' = IF Quiet(n) THEN overlapped ELSE overlapped \cup {n}
      BY <1>10 DEF Spawn
    <2>2. /\ pending' \in [Monitored -> [Kind -> Nat]]
          /\ pending'[n]["failed"] = pending[n]["failed"] + 1 /\ pending'[n]["recovered"] = pending[n]["recovered"]
          /\ \A m \in Monitored : m # n => pending'[m] = pending[m]
      BY <2>1 DEF HealthTyped, Kind
    <2>3. HealthTyped'
      BY <1>6, <1>7, <1>8, <1>10, <2>1, <2>2 DEF HealthTyped
    <2>4. ASSUME overlapped' = {} PROVE \E names \in SUBSET Shard : RingHolds(names)'
      <3>1. overlapped = {} /\ pending[n]["failed"] = 0 /\ pending[n]["recovered"] = 0
        BY <2>1, <2>4 DEF Quiet, Kind
      <3>2. PICK names \in SUBSET Shard : RingHolds(names)
        BY <3>1
      <3>3. Fits(n, names, pending'[n]["failed"], pending'[n]["recovered"], status'[n], returned')
        BY <1>5, <1>7, <1>10, <2>2, <3>1 DEF Fits
      <3>4. \A m \in Monitored : m # n =>
              Fits(m, names, pending'[m]["failed"], pending'[m]["recovered"], status'[m], returned')
        BY <1>7, <1>10, <2>2, <3>2 DEF RingHolds, Fits
      <3>5. RingHolds(names)'
        BY <1>6, <3>2, <3>3, <3>4 DEF RingHolds
      <3>6. QED
        BY <3>5
    <2>5. QED
      BY <2>3, <2>4
  <1>11. QED
    BY <1>1, <1>9, <1>10 DEF CheckFails

LEMMA CheckSucceedsKeeps ==
  ASSUME HealthInv, NEW n \in Monitored, CheckSucceeds(n)
  PROVE  HealthInv'
  <1> USE DEF HealthInv
  <1>1. /\ failures' = [failures EXCEPT ![n] = 0] /\ status' = [status EXCEPT ![n] = "alive"]
        /\ UNCHANGED <<layout, serverRing>>
    BY DEF CheckSucceeds
  <1>2. /\ status' \in [Monitored -> {"alive", "suspected", "dead"}] /\ failures' \in [Monitored -> 0..Threshold]
        /\ \A m \in Monitored : m # n => status'[m] = status[m] /\ failures'[m] = failures[m]
        /\ status'[n] = "alive"
    BY <1>1, HealthAssumption DEF HealthTyped
  <1>3. \A m \in Monitored : status'[m] = "dead" => failures'[m] = Threshold
    BY <1>2 DEF HealthTyped
  <1>4. CASE UNCHANGED <<pending, overlapped, returned>> /\ status[n] # "dead"
    <2>1. HealthTyped'
      BY <1>1, <1>2, <1>3, <1>4 DEF HealthTyped
    <2>2. ASSUME NEW names \in SUBSET Shard, RingHolds(names) PROVE RingHolds(names)'
      <3>1. \A m \in Monitored :
              Fits(m, names, pending[m]["failed"], pending[m]["recovered"], status'[m], returned)
        BY <1>2, <1>4, <2>2 DEF RingHolds, Fits
      <3>2. QED
        BY <1>1, <1>4, <2>2, <3>1 DEF RingHolds
    <2>3. QED
      BY <1>4, <2>1, <2>2
  <1>5. CASE status[n] = "dead" /\ Spawn(n, "recovered") /\ returned' = returned \cup {n}
    <2>1. /\ pending' = [pending EXCEPT ![n]["recovered"] = pending[n]["recovered"] + 1]
          /\ overlapped' = IF Quiet(n) THEN overlapped ELSE overlapped \cup {n}
      BY <1>5 DEF Spawn
    <2>2. /\ pending' \in [Monitored -> [Kind -> Nat]]
          /\ pending'[n]["recovered"] = pending[n]["recovered"] + 1 /\ pending'[n]["failed"] = pending[n]["failed"]
          /\ \A m \in Monitored : m # n => pending'[m] = pending[m]
      BY <2>1 DEF HealthTyped, Kind
    <2>3. HealthTyped'
      BY <1>1, <1>2, <1>3, <1>5, <2>1, <2>2 DEF HealthTyped
    <2>4. ASSUME overlapped' = {} PROVE \E names \in SUBSET Shard : RingHolds(names)'
      <3>1. overlapped = {} /\ pending[n]["failed"] = 0 /\ pending[n]["recovered"] = 0
        BY <2>1, <2>4 DEF Quiet, Kind
      <3>2. PICK names \in SUBSET Shard : RingHolds(names)
        BY <3>1
      <3>3. n \notin names
        BY <1>5, <3>1, <3>2 DEF RingHolds, Fits
      <3>4. Fits(n, names, pending'[n]["failed"], pending'[n]["recovered"], status'[n], returned')
        BY <1>2, <1>5, <2>2, <3>1, <3>3 DEF Fits
      <3>5. \A m \in Monitored : m # n =>
              Fits(m, names, pending'[m]["failed"], pending'[m]["recovered"], status'[m], returned')
        BY <1>2, <1>5, <2>2, <3>2 DEF RingHolds, Fits
      <3>6. RingHolds(names)'
        BY <1>1, <3>2, <3>4, <3>5 DEF RingHolds
      <3>7. QED
        BY <3>6
    <2>5. QED
      BY <2>3, <2>4
  <1>6. QED
    BY <1>4, <1>5 DEF CheckSucceeds, Recovers

LEMMA CallbackKeeps ==
  ASSUME HealthInv, NEW n \in Monitored, NEW kind \in Kind, Callback(n, kind)
  PROVE  HealthInv'
  <1> USE DEF HealthInv
  <1>1. /\ pending[n][kind] > 0 /\ pending' = [pending EXCEPT ![n][kind] = pending[n][kind] - 1]
        /\ serverRing' = IF kind = "failed" THEN RemoveShard(serverRing, layout, n)
                         ELSE AddShard(serverRing, layout, n)
        /\ UNCHANGED <<layout, status, failures, overlapped, returned>>
    BY DEF Callback
  <1>2. /\ pending' \in [Monitored -> [Kind -> Nat]]
        /\ pending'[n][kind] = pending[n][kind] - 1
        /\ \A other \in Kind : other # kind => pending'[n][other] = pending[n][other]
        /\ \A m \in Monitored : m # n => pending'[m] = pending[m]
    BY <1>1 DEF HealthTyped, Kind
  <1>3. HealthTyped'
    BY <1>1, <1>2 DEF HealthTyped
  <1>4. n \in Shard
    BY HealthAssumption
  <1>5. ASSUME NEW names \in SUBSET Shard, RingHolds(names)
        PROVE  \E new \in SUBSET Shard : RingHolds(new)'
    <2>1. serverRing = RingOf(layout, names) /\ layout \in Layouts
      BY <1>5 DEF RingHolds, HealthTyped
    <2>2. Fits(n, names, pending[n]["failed"], pending[n]["recovered"], status[n], returned)
      BY <1>5 DEF RingHolds
    <2>3. PICK new \in SUBSET Shard :
            /\ new = IF kind = "failed" THEN names \ {n} ELSE names \cup {n}
            /\ \A s \in Shard \ {n} : s \in new <=> s \in names
      BY <1>4
    <2>4. serverRing' = RingOf(layout, new)
      <3>1. CASE kind = "failed"
        <4>1. RemoveShard(RingOf(layout, names), layout, n) = RingOf(layout, names \ {n})
          BY <1>4, <2>1, RingOfChanges
        <4>2. new = names \ {n} /\ serverRing' = RemoveShard(serverRing, layout, n)
          BY <1>1, <2>3, <3>1
        <4>3. QED
          BY <2>1, <4>1, <4>2
      <3>2. CASE kind = "recovered"
        <4>1. n \notin names
          BY <1>1, <2>2, <3>2 DEF Fits
        <4>2. QED
          BY <1>1, <1>4, <2>1, <2>3, <3>2, <4>1, RingOfChanges
      <3>3. QED
        BY <3>1, <3>2 DEF Kind
    <2>5. Fits(n, new, pending'[n]["failed"], pending'[n]["recovered"], status[n], returned)
      <3>1. CASE kind = "failed"
        BY <1>1, <1>2, <2>2, <2>3, <3>1 DEF Fits, Kind
      <3>2. CASE kind = "recovered"
        BY <1>1, <1>2, <2>2, <2>3, <3>2 DEF Fits, Kind
      <3>3. QED
        BY <3>1, <3>2 DEF Kind
    <2>6. \A m \in Monitored : m # n =>
            Fits(m, new, pending'[m]["failed"], pending'[m]["recovered"], status[m], returned)
      BY <1>2, <1>5, <2>3, HealthAssumption DEF RingHolds, Fits
    <2>7. \A s \in Shard \ Monitored : s \in new <=> s \in StartShard
      BY <1>5, <2>3 DEF RingHolds
    <2>8. RingHolds(new)'
      BY <1>1, <2>4, <2>5, <2>6, <2>7 DEF RingHolds
    <2>9. QED
      BY <2>8
  <1>6. QED
    BY <1>1, <1>3, <1>5

LEMMA HealthNextKeeps == HealthInv /\ [MembershipNext]_membershipVars => HealthInv'
  <1> SUFFICES ASSUME HealthInv, [MembershipNext]_membershipVars PROVE HealthInv'
    OBVIOUS
  <1>1. CASE UNCHANGED <<layout, status, failures, pending, serverRing, overlapped, returned>>
    BY <1>1 DEF HealthInv, HealthTyped, RingHolds
  <1>2. ASSUME NEW n \in Monitored, Flip(n) PROVE HealthInv'
    BY <1>1, <1>2 DEF Flip
  <1>3. CASE HealthNext
    BY <1>2, <1>3, CheckFailsKeeps, CheckSucceedsKeeps, CallbackKeeps DEF HealthNext
  <1>4. CASE UNCHANGED healthVars
    BY <1>1, <1>4 DEF healthVars
  <1>5. QED
    BY <1>3, <1>4 DEF MembershipNext, membershipVars

\* Once the callbacks have run, the ring holds the configured shards and the nodes
\* that recovered, without the dead ones, every place once, unless two callbacks of
\* one node were pending together (health.go:208, 232, server.go:443).
THEOREM RingIsHealthy == MembershipSpec => []RingFollowsHealth
  <1>1. HealthInv => RingFollowsHealth
    <2> SUFFICES ASSUME HealthInv, overlapped = {}, \A n \in Monitored : Quiet(n)
                 PROVE  serverRing = Reference((StartShard \cup returned) \ {n \in Monitored : status[n] = "dead"})
      BY DEF RingFollowsHealth
    <2>1. PICK names \in SUBSET Shard : RingHolds(names)
      BY DEF HealthInv
    <2>2. \A n \in Monitored : n \in names <=> n \in StartShard \cup returned /\ status[n] # "dead"
      BY <2>1 DEF RingHolds, Fits, Quiet, Kind
    <2>3. names = (StartShard \cup returned) \ {n \in Monitored : status[n] = "dead"}
      BY <2>1, <2>2, HealthAssumption DEF RingHolds, HealthInv, HealthTyped
    <2>4. serverRing = Reference(names)
      BY <2>1, ReferenceIsRingOf DEF RingHolds, HealthInv, HealthTyped
    <2>5. QED
      BY <2>3, <2>4
  <1>2. MembershipInit => HealthInv
    BY HealthInitial DEF MembershipInit
  <1>3. QED
    BY <1>1, <1>2, HealthNextKeeps, PTL DEF MembershipSpec

--------------------------------------------------------------------------------
\* The cluster client's connections.

\* A request that is on its way has a target.
ClientTyped ==
  /\ conns \in [Server -> {"none", "open", "closed"}] /\ sockets \in [Server -> Nat]
  /\ use \in [User -> {"idle", "create", "send"}]
  /\ target \in [User -> Server \cup {NoServer}]
  /\ \A u \in User : use[u] # "idle" => target[u] \in Server

\* The three parts of ConnectionsAccounted.
RequestConns == \A n \in Server : sockets[n] = IF conns[n] = "open" THEN 1 ELSE 0
SeedConns == \A d \in Discoverer : seedConns[d] = IF refresh[d] = "asked" THEN 1 ELSE 0
ClosedConns == closing = "done" => \A n \in Server : sockets[n] > 0 => n \in late

SeedInv ==
  /\ refresh \in [Discoverer -> {"idle", "asked", "parsed"}] /\ seedConns \in [Discoverer -> Nat]
  /\ SeedConns

ConnsInv == ClientTyped /\ RequestConns /\ ClosedConns

LEMMA ConnsKept ==
  ASSUME ConnsInv, NEW u \in User, UNCHANGED <<conns, sockets, closing, late>>,
         NEW w \in {"idle", "create", "send"}, NEW n \in Server \cup {NoServer},
         use' = [use EXCEPT ![u] = w], target' = [target EXCEPT ![u] = n], w # "idle" => n \in Server
  PROVE  ConnsInv'
  BY DEF ConnsInv, ClientTyped, RequestConns, ClosedConns

\* Only a node without a connection is dialled, under the lock that the dial holds.
LEMMA ConnsCreate ==
  ASSUME ConnsInv, NEW u \in User, CreateConn(u, Answers)
  PROVE  ConnsInv'
  <1> USE DEF ConnsInv, ClientTyped
  <1>1. PICK n \in Server : n = target[u]
    BY DEF CreateConn
  <1>2. target = [target EXCEPT ![u] = n] /\ UNCHANGED closing
    BY <1>1 DEF CreateConn
  <1>3. CASE /\ Exists(n) /\ use' = [use EXCEPT ![u] = "send"] /\ UNCHANGED <<conns, sockets, target, late>>
    BY <1>2, <1>3, ConnsKept
  <1>4. CASE /\ ~Exists(n) /\ conns' = [conns EXCEPT ![n] = "open"] /\ sockets' = [sockets EXCEPT ![n] = @ + 1]
             /\ late' = IF closing = "done" THEN late \cup {n} ELSE late
             /\ use' = [use EXCEPT ![u] = "send"] /\ UNCHANGED target
    <2>1. ClientTyped'
      BY <1>1, <1>4
    <2>2. sockets[n] = 0
      BY <1>4 DEF Exists, RequestConns
    <2>3. RequestConns'
      BY <1>4, <2>2 DEF RequestConns
    <2>4. ClosedConns'
      BY <1>2, <1>4 DEF ClosedConns
    <2>5. QED
      BY <2>1, <2>3, <2>4
  <1>5. CASE ~Exists(n) /\ Returns(u) /\ UNCHANGED <<conns, sockets, late>>
    BY <1>2, <1>5, ConnsKept DEF Returns
  <1>6. QED
    BY <1>1, <1>3, <1>4, <1>5 DEF CreateConn

LEMMA ConnsNext == ConnsInv /\ [MembershipNext]_membershipVars => ConnsInv'
  <1> SUFFICES ASSUME ConnsInv, [MembershipNext]_membershipVars PROVE ConnsInv'
    OBVIOUS
  <1> USE DEF ConnsInv, ClientTyped
  <1>1. CASE UNCHANGED <<conns, sockets, use, target, closing, late>>
    BY <1>1 DEF RequestConns, ClosedConns
  <1>2. ASSUME NEW d \in Discoverer, DialSeed(d) \/ SeedFails(d) \/ Fetch(d, ClusterNodes) \/ BuildHashRing(d)
        PROVE  ConnsInv'
    BY <1>1, <1>2 DEF DialSeed, SeedFails, Fetch, BuildHashRing
  <1>3. CASE CloseBegins
    <2>1. closing' = "waiting" /\ UNCHANGED <<conns, sockets, use, target>>
      BY <1>3 DEF CloseBegins
    <2>2. QED
      BY <2>1 DEF RequestConns, ClosedConns
  <1>4. CASE CloseConns
    <2>1. /\ conns' = [n \in Server |-> "none"]
          /\ use' = [u \in User |-> IF use[u] = "send" THEN "idle" ELSE use[u]]
          /\ target' = [u \in User |-> IF use[u] = "send" THEN NoServer ELSE target[u]]
      BY <1>4 DEF CloseConns
    <2>2. sockets' = [n \in Server |-> 0]
      BY <1>4 DEF CloseConns, RequestConns
    <2>3. ClientTyped'
      BY <2>1, <2>2
    <2>4. RequestConns' /\ ClosedConns'
      BY <2>1, <2>2 DEF RequestConns, ClosedConns
    <2>5. QED
      BY <2>3, <2>4
  <1>5. ASSUME NEW u \in User, NEW n \in Server, FindConn(u, n) PROVE ConnsInv'
    <2>1. PICK w \in {"create", "send"} : use' = [use EXCEPT ![u] = w]
      BY <1>5 DEF FindConn
    <2>2. UNCHANGED <<conns, sockets, closing, late>> /\ target' = [target EXCEPT ![u] = n]
      BY <1>5 DEF FindConn
    <2>3. QED
      BY <2>1, <2>2, ConnsKept
  <1>6. ASSUME NEW u \in User, CreateConn(u, Answers) PROVE ConnsInv'
    BY <1>6, ConnsCreate
  <1>7. ASSUME NEW u \in User, Execute(u) PROVE ConnsInv'
    BY <1>7, ConnsKept DEF Execute, Returns
  <1>8. ASSUME NEW u \in User, ExecuteMoved(u) PROVE ConnsInv'
    <2>1. PICK n \in Server : n = target[u]
      BY <1>8 DEF ExecuteMoved
    <2>2. /\ conns[n] = "open" /\ conns' = [conns EXCEPT ![n] = "closed"]
          /\ sockets' = [sockets EXCEPT ![n] = @ - 1] /\ UNCHANGED <<closing, late>>
          /\ use' = [use EXCEPT ![u] = "idle"] /\ target' = [target EXCEPT ![u] = NoServer]
      BY <1>8, <2>1 DEF ExecuteMoved, Returns
    <2>3. sockets[n] = 1
      BY <2>2 DEF RequestConns
    <2>4. ClientTyped'
      BY <2>2, <2>3
    <2>5. RequestConns' /\ ClosedConns'
      BY <2>2, <2>3 DEF RequestConns, ClosedConns
    <2>6. QED
      BY <2>4, <2>5
  <1>9. CASE ClientNext
    BY <1>2, <1>3, <1>4, <1>5, <1>6, <1>7, <1>8, <1>9 DEF ClientNext
  <1>10. CASE UNCHANGED clientVars
    BY <1>1, <1>10 DEF clientVars
  <1>11. QED
    BY <1>9, <1>10 DEF MembershipNext, membershipVars

\* A discovery closes the seed's connection on every path from the answer.
LEMMA SeedNext == SeedInv /\ [MembershipNext]_membershipVars => SeedInv'
  <1> SUFFICES ASSUME SeedInv, [MembershipNext]_membershipVars PROVE SeedInv'
    OBVIOUS
  <1> USE DEF SeedInv
  <1>1. CASE UNCHANGED <<refresh, seedConns>>
    BY <1>1 DEF SeedConns
  <1>2. ASSUME NEW d \in Discoverer, DialSeed(d) PROVE SeedInv'
    BY <1>2 DEF DialSeed, SeedConns
  <1>3. ASSUME NEW d \in Discoverer, SeedFails(d) PROVE SeedInv'
    BY <1>3 DEF SeedFails, SeedConns
  <1>4. ASSUME NEW d \in Discoverer, Fetch(d, ClusterNodes) PROVE SeedInv'
    BY <1>4 DEF Fetch, SeedConns
  <1>5. ASSUME NEW d \in Discoverer, BuildHashRing(d) PROVE SeedInv'
    BY <1>5 DEF BuildHashRing, SeedConns
  <1>6. CASE CloseBegins \/ CloseConns
    BY <1>1, <1>6 DEF CloseBegins, CloseConns
  <1>7. ASSUME NEW u \in User,
               CreateConn(u, Answers) \/ Execute(u) \/ ExecuteMoved(u) \/ \E n \in Server : FindConn(u, n)
        PROVE  SeedInv'
    BY <1>1, <1>7 DEF CreateConn, Execute, ExecuteMoved, FindConn
  <1>8. CASE ClientNext
    BY <1>2, <1>3, <1>4, <1>5, <1>6, <1>7, <1>8 DEF ClientNext
  <1>9. CASE UNCHANGED clientVars
    BY <1>1, <1>9 DEF clientVars
  <1>10. QED
    BY <1>8, <1>9 DEF MembershipNext, membershipVars

\* However requests, redirects, discoveries and Close interleave, a node has at
\* most one connection for requests and conns holds it, a discovery closes the
\* seed's, and Close leaves only those open that were dialled after it
\* (cluster_client.go:69-86, 236-266, 457-478).
THEOREM NoConnectionLost == MembershipSpec => []ConnectionsAccounted
  <1>1. MembershipInit => ConnsInv
    BY DEF MembershipInit, ClientInit, ConnsInv, ClientTyped, RequestConns, ClosedConns
  <1>2. MembershipInit => SeedInv
    BY DEF MembershipInit, ClientInit, SeedInv, SeedConns
  <1>3. ConnsInv /\ SeedInv => ConnectionsAccounted
    BY DEF ConnsInv, SeedInv, RequestConns, SeedConns, ClosedConns, ConnectionsAccounted
  <1>4. QED
    BY <1>1, <1>2, <1>3, ConnsNext, SeedNext, PTL DEF MembershipSpec

--------------------------------------------------------------------------------
\* The ranges that change hands.

Between(h, a, b) == IF a < b THEN a <= h /\ h < b ELSE a <= h \/ h < b

LEMMA LastFacts ==
  ASSUME NEW P \in SUBSET Pos, P # {}, NEW h \in Nat
  PROVE  /\ Last(P, h) \in P
         /\ \A p \in P : p < h => Last(P, h) < h /\ p <= Last(P, h)
         /\ (\A p \in P : p >= h) => \A p \in P : p <= Last(P, h)
  <1>1. P \subseteq Nat
    BY PosAssumption
  <1>2. CASE \E p \in P : p < h
    <2>1. {p \in P : p < h} \in SUBSET Pos /\ {p \in P : p < h} # {}
      BY <1>2
    <2>2. Last(P, h) \in {p \in P : p < h} /\ \A p \in {p \in P : p < h} : p <= Last(P, h)
      BY <2>1, MaxPos DEF Last
    <2>3. QED
      BY <1>1, <1>2, <2>2
  <1>3. CASE ~\E p \in P : p < h
    <2>1. Last(P, h) = Max(P)
      BY <1>3 DEF Last
    <2>2. QED
      BY <1>1, <1>3, <2>1, MaxPos
  <1>4. QED
    BY <1>2, <1>3

\* Of the places in P and V, the first from h is in V just if h is in the range
\* before one of them.
LEMMA RangeGained ==
  ASSUME NEW P \in SUBSET Pos, P # {}, NEW V \in SUBSET Pos, V # {}, P \cap V = {},
         NEW h \in Pos \ (P \cup V)
  PROVE  (\E v \in V : Between(h, Last(P, v), v)) <=> First(P \cup V, h) \in V
  <1>1. h \in Nat /\ P \subseteq Nat /\ V \subseteq Nat /\ \A p \in P, v \in V : p # v
    BY PosAssumption
  <1>2. \A p \in P \cup V : p \in Nat /\ p # h
    BY <1>1
  <1>3. PICK q : q = First(P \cup V, h)
    OBVIOUS
  <1>4. /\ q \in P \cup V
        /\ \A p \in P \cup V : p >= h => q >= h /\ q <= p
        /\ (\A p \in P \cup V : p < h) => \A p \in P \cup V : q <= p
    BY <1>1, <1>3, FirstFacts
  <1>5. ASSUME NEW v \in V
        PROVE  /\ Last(P, v) \in P
               /\ \A p \in P : p < v => Last(P, v) < v /\ p <= Last(P, v)
               /\ (\A p \in P : p >= v) => \A p \in P : p <= Last(P, v)
    BY <1>1, LastFacts
  <1>6. ASSUME q \in V PROVE Between(h, Last(P, q), q)
    <2>1. PICK a \in P : /\ a = Last(P, q)
                         /\ \A p \in P : p < q => a < q /\ p <= a
                         /\ (\A p \in P : p >= q) => \A p \in P : p <= a
      BY <1>5, <1>6
    <2>2. a \in Nat /\ q \in Nat /\ h \in Nat /\ a # q /\ a # h /\ q # h
      BY <1>1, <1>2, <1>6
    <2>3. a < q => a <= h /\ h < q
      BY <1>2, <1>4, <2>2
    <2>4. a > q => a <= h \/ h < q
      BY <1>2, <1>4, <2>2
    <2>5. QED
      BY <2>1, <2>2, <2>3, <2>4 DEF Between
  <1>7. ASSUME NEW v \in V, Between(h, Last(P, v), v), q \in P PROVE FALSE
    <2>1. PICK a \in P : /\ a = Last(P, v)
                         /\ \A p \in P : p < v => a < v /\ p <= a
                         /\ (\A p \in P : p >= v) => \A p \in P : p <= a
      BY <1>5
    <2>2. a \in Nat /\ v \in Nat /\ q \in Nat /\ a # v /\ a # h /\ q # h /\ q # v /\ v # h
      BY <1>1, <1>2, <1>7
    <2>3. CASE a < v
      <3>1. a <= h /\ h < v
        BY <1>7, <2>1, <2>3 DEF Between
      <3>2. q >= h /\ q <= v
        BY <1>1, <1>4, <2>2, <3>1
      <3>3. q <= a
        BY <1>7, <2>1, <2>2, <3>2
      <3>4. QED
        BY <1>1, <2>2, <3>1, <3>2, <3>3
    <2>4. CASE a > v
      <3>1. a <= h \/ h < v
        BY <1>1, <1>7, <2>1, <2>2, <2>4 DEF Between
      <3>2. \A p \in P : p >= v /\ p <= a
        BY <1>1, <2>1, <2>2, <2>4
      <3>3. q > v
        BY <1>7, <2>2, <3>2
      <3>4. CASE h < v
        BY <1>1, <1>4, <2>2, <3>3, <3>4
      <3>5. CASE a <= h
        <4>1. q < h
          BY <1>1, <1>7, <2>2, <3>2, <3>5
        <4>2. \A p \in P \cup V : p < h
          BY <1>1, <1>2, <1>4, <2>2, <4>1
        <4>3. QED
          BY <1>4, <2>2, <3>3, <4>2
      <3>6. QED
        BY <3>1, <3>4, <3>5
    <2>5. QED
      BY <2>2, <2>3, <2>4
  <1>8. QED
    BY <1>3, <1>4, <1>6, <1>7

\* The range before a place is the hashes it is the first place for.
LEMMA RangeOwned ==
  ASSUME NEW P \in SUBSET Pos, NEW v \in P, NEW h \in Pos \ P
  PROVE  Between(h, Last(P, v), v) <=> First(P, h) = v
  <1>1. h \in Nat /\ P \subseteq Nat /\ v \in Nat /\ \A p \in P : p \in Nat /\ p # h
    BY PosAssumption
  <1>2. PICK q \in P : /\ q = First(P, h)
                       /\ \A p \in P : p >= h => q >= h /\ q <= p
                       /\ (\A p \in P : p < h) => \A p \in P : q <= p
    BY <1>1, FirstFacts
  <1>3. PICK a \in P : /\ a = Last(P, v)
                       /\ \A p \in P : p < v => a < v /\ p <= a
                       /\ (\A p \in P : p >= v) => \A p \in P : p <= a
    BY <1>1, LastFacts
  <1>4. a \in Nat /\ q \in Nat /\ a # h /\ q # h /\ v # h
    BY <1>1
  <1>5. CASE a < v
    <2>1. Between(h, a, v) <=> a <= h /\ h < v
      BY <1>5 DEF Between
    <2>2. ASSUME a <= h, h < v PROVE q = v
      <3>1. q >= h /\ q <= v
        BY <1>1, <1>2, <1>4, <2>2
      <3>2. ~(q < v)
        BY <1>3, <1>4, <2>2, <3>1
      <3>3. QED
        BY <1>1, <1>4, <3>1, <3>2
    <2>3. ASSUME q = v PROVE a <= h /\ h < v
      BY <1>1, <1>2, <1>4, <1>5, <2>3
    <2>4. QED
      BY <1>2, <1>3, <2>1, <2>2, <2>3
  <1>6. CASE a >= v
    <2>1. Between(h, a, v) <=> a <= h \/ h < v
      BY <1>1, <1>4, <1>6 DEF Between
    <2>2. \A p \in P : p >= v /\ p <= a
      BY <1>1, <1>3, <1>4, <1>6
    <2>3. ASSUME h < v PROVE q = v
      BY <1>1, <1>2, <1>4, <2>2, <2>3
    <2>4. ASSUME a <= h PROVE q = v
      <3>1. \A p \in P : p < h
        BY <1>1, <1>4, <2>2, <2>4
      <3>2. q <= v /\ q >= v
        BY <1>2, <2>2, <3>1
      <3>3. QED
        BY <1>1, <1>4, <3>2
    <2>5. ASSUME q = v PROVE a <= h \/ h < v
      BY <1>1, <1>2, <1>4, <2>5
    <2>6. QED
      BY <1>2, <1>3, <2>1, <2>3, <2>4, <2>5
  <1>7. QED
    BY <1>1, <1>4, <1>5, <1>6

\* When the places of V go, the hashes of v, which another's place follows, go to
\* that place.
LEMMA RangeLeft ==
  ASSUME NEW P \in SUBSET Pos, NEW V \in SUBSET P, NEW v \in V, NEW h \in Pos \ P, First(P, h) = v,
         First(P, v + 1) \notin V
  PROVE  First(P \ V, h) = First(P, v + 1)
  <1>1. h \in Nat /\ P \subseteq Nat /\ v \in Nat /\ v \in P /\ \A p \in P : p \in Nat /\ p # h
    BY PosAssumption
  <1>2. /\ \A p \in P : p >= h => v >= h /\ v <= p
        /\ (\A p \in P : p < h) => \A p \in P : v <= p
    BY <1>1, FirstFacts
  <1>3. PICK q \in P : /\ q = First(P, v + 1)
                       /\ \A p \in P : p >= v + 1 => q >= v + 1 /\ q <= p
                       /\ (\A p \in P : p < v + 1) => \A p \in P : q <= p
    <2>1. PICK w \in Nat : w = v + 1
      BY <1>1
    <2>2. /\ First(P, w) \in P
          /\ \A p \in P : p >= w => First(P, w) >= w /\ First(P, w) <= p
          /\ (\A p \in P : p < w) => \A p \in P : First(P, w) <= p
      BY <1>1, FirstFacts
    <2>3. QED
      BY <2>1, <2>2
  <1>4. q \in P \ V /\ P \ V \in SUBSET Pos /\ q # v /\ q \in Nat
    BY <1>1, <1>3
  <1>5. PICK r \in P \ V : /\ r = First(P \ V, h)
                           /\ \A p \in P \ V : p >= h => r >= h /\ r <= p
                           /\ (\A p \in P \ V : p < h) => \A p \in P \ V : r <= p
    BY <1>1, <1>4, FirstFacts
  <1>6. r \in Nat /\ r # v /\ r \in P /\ r # h
    BY <1>1, <1>5
  <1>7. CASE q > v
    <2>1. \A p \in P : p > v => q <= p
      BY <1>1, <1>3, <1>4
    <2>2. CASE v > h
      <3>1. r >= h /\ r <= q
        BY <1>1, <1>4, <1>5, <1>7, <2>2
      <3>2. r > v
        BY <1>1, <1>2, <1>6, <3>1
      <3>3. QED
        BY <1>3, <1>4, <1>5, <1>6, <2>1, <3>1, <3>2
    <2>3. CASE v < h
      <3>1. \A p \in P : p < h
        BY <1>1, <1>2, <2>3
      <3>2. r <= q /\ v <= r
        BY <1>2, <1>4, <1>5, <1>6, <3>1
      <3>3. QED
        BY <1>1, <1>3, <1>4, <1>5, <1>6, <2>1, <3>2
    <2>4. QED
      BY <1>1, <2>2, <2>3
  <1>8. CASE q < v
    <2>1. \A p \in P : p <= v /\ q <= p
      BY <1>1, <1>3, <1>4, <1>8
    <2>2. v > h
      BY <1>1, <1>2, <1>4, <1>8, <2>1
    <2>3. \A p \in P \ V : p < h
      BY <1>1, <1>2, <2>1, <2>2
    <2>4. r <= q /\ q <= r
      BY <1>4, <1>5, <1>6, <2>1, <2>3
    <2>5. QED
      BY <1>3, <1>4, <1>5, <1>6, <2>4
  <1>9. QED
    BY <1>1, <1>4, <1>7, <1>8

LEMMA RingOfFacts ==
  ASSUME NEW v \in Layouts, NEW names \in SUBSET Shard, NEW r, r = RingOf(v, names)
  PROVE  /\ Places(r) = {p \in Pos : \E s \in names : p \in v[s]}
         /\ \A p \in Places(r) : r.count[p] = 1 /\ r.owner[p] \in names
         /\ \A p \in Places(r), s \in Shard : r.owner[p] = s <=> s \in names /\ p \in v[s]
         /\ \A s \in names : v[s] \subseteq Places(r) /\ v[s] # {}
  <1>1. \A s, t \in Shard : s # t => v[s] \cap v[t] = {}
    BY HealthAssumption
  <1>2. \A s \in Shard : v[s] \subseteq Pos /\ v[s] # {}
    BY HealthAssumption
  <1>3. \A p \in Pos : /\ r.count[p] = IF \E s \in names : p \in v[s] THEN 1 ELSE 0
                       /\ r.owner[p] = IF \E s \in names : p \in v[s] THEN CHOOSE s \in names : p \in v[s] ELSE NoShard
    BY DEF RingOf
  <1>4. Places(r) = {p \in Pos : \E s \in names : p \in v[s]}
    BY <1>3 DEF Places
  <1>5. \A p \in Places(r) : r.count[p] = 1 /\ r.owner[p] \in names /\ p \in v[r.owner[p]]
    BY <1>3, <1>4
  <1>6. \A p \in Places(r), s \in Shard : r.owner[p] = s <=> s \in names /\ p \in v[s]
    BY <1>1, <1>5
  <1>7. QED
    BY <1>2, <1>4, <1>5, <1>6

OwnersTyped == layout \in Layouts /\ \A p \in Pos : serverRing.owner[p] \in Shard \cup {NoShard}

LEMMA OwnersInitial == MembershipInit => OwnersTyped
  <1> SUFFICES ASSUME HealthInit PROVE OwnersTyped
    BY DEF MembershipInit
  <1>1. layout \in Layouts /\ serverRing = Reference(StartShard) /\ StartShard \in SUBSET Shard
    BY HealthAssumption DEF HealthInit
  <1>2. ASSUME NEW p \in Pos PROVE serverRing.owner[p] \in StartShard \cup {NoShard}
    BY <1>1 DEF Reference
  <1>3. QED
    BY <1>1, <1>2 DEF OwnersTyped

LEMMA OwnersNext == OwnersTyped /\ [MembershipNext]_membershipVars => OwnersTyped'
  <1> SUFFICES ASSUME OwnersTyped, [MembershipNext]_membershipVars PROVE OwnersTyped'
    OBVIOUS
  <1>1. CASE UNCHANGED <<layout, serverRing>>
    BY <1>1 DEF OwnersTyped
  <1>2. ASSUME NEW n \in Monitored, NEW kind \in Kind, Callback(n, kind) PROVE OwnersTyped'
    <2>1. n \in Shard /\ layout' = layout
      BY <1>2, HealthAssumption DEF Callback
    <2>2. CASE serverRing' = RemoveShard(serverRing, layout, n)
      BY <2>1, <2>2 DEF OwnersTyped, RemoveShard
    <2>3. CASE serverRing' = AddShard(serverRing, layout, n)
      BY <2>1, <2>3 DEF OwnersTyped, AddShard
    <2>4. QED
      BY <1>2, <2>2, <2>3 DEF Callback
  <1>3. ASSUME NEW n \in Monitored, CheckFails(n) \/ CheckSucceeds(n) \/ Flip(n) PROVE OwnersTyped'
    BY <1>1, <1>3 DEF CheckFails, CheckSucceeds, Flip
  <1>4. CASE HealthNext
    BY <1>2, <1>3, <1>4 DEF HealthNext
  <1>5. CASE UNCHANGED healthVars
    BY <1>1, <1>5 DEF healthVars
  <1>6. QED
    BY <1>4, <1>5 DEF MembershipNext, membershipVars

\* A newcomer takes exactly the hashes that it will own.
LEMMA NewcomerTakes ==
  ASSUME NEW v \in Layouts, NEW names \in SUBSET Shard, NEW r, r = RingOf(v, names), NEW s \in Shard \ names,
         names # {}, NEW h \in Pos \ (Places(r) \cup v[s])
  PROVE  Moves(CalculateMigrations(r, v, s), h) <=> GetShard(AddShard(r, v, s), h) = s
  <1>1. PICK P \in SUBSET Pos : P = Places(r)
    BY DEF Places
  <1>2. PICK V \in SUBSET Pos : V = v[s] /\ V # {}
    BY HealthAssumption
  <1>3. P # {} /\ (\A p \in P : r.owner[p] # s) /\ P \cap V = {}
    <2>1. \A t \in names : v[t] \subseteq P /\ v[t] # {}
      BY <1>1, RingOfFacts
    <2>2. \A p \in P : r.owner[p] \in names
      BY <1>1, RingOfFacts
    <2>3. \A t \in names : v[t] \cap V = {}
      BY <1>2, HealthAssumption
    <2>4. P = {p \in Pos : \E t \in names : p \in v[t]}
      BY <1>1, RingOfFacts
    <2>5. QED
      BY <2>1, <2>2, <2>3, <2>4
  <1>4. \A u \in V : u \in Nat
    BY PosAssumption
  <1>5. \A u \in V : LastBefore(r, u) = Last(P, u) /\ Last(P, u) \in P
    <2>1. \A u \in V : LastBefore(r, u) = Last(P, u)
      BY <1>1 DEF LastBefore, Last
    <2>2. \A u \in V : Last(P, u) \in P
      BY <1>3, <1>4, LastFacts
    <2>3. QED
      BY <2>1, <2>2
  <1>6. Moves(CalculateMigrations(r, v, s), h) <=> \E u \in V : Between(h, Last(P, u), u)
    <2>1. {u \in v[s] : r.owner[LastBefore(r, u)] # s} = V
      BY <1>2, <1>3, <1>5
    <2>2. CalculateMigrations(r, v, s) = {[to |-> s, start |-> Last(P, u), end |-> u] : u \in V}
      BY <1>5, <2>1 DEF CalculateMigrations
    <2>3. \A u \in V : InRange(h, [to |-> s, start |-> Last(P, u), end |-> u]) <=> Between(h, Last(P, u), u)
      BY DEF InRange, Between
    <2>4. QED
      BY <2>2, <2>3 DEF Moves
  <1>7. PICK g : g = AddShard(r, v, s) /\ g = RingOf(v, names \cup {s})
    BY RingOfChanges
  <1>8. Places(g) = P \cup V
    <2>1. Places(g) = {p \in Pos : \E t \in names \cup {s} : p \in v[t]}
      BY <1>7, RingOfFacts
    <2>2. P = {p \in Pos : \E t \in names : p \in v[t]}
      BY <1>1, RingOfFacts
    <2>3. QED
      BY <1>2, <2>1, <2>2
  <1>9. \A p \in P \cup V : g.owner[p] = s <=> p \in V
    BY <1>2, <1>7, <1>8, RingOfFacts
  <1>10. GetShard(g, h) = g.owner[First(P \cup V, h)]
    BY <1>2, <1>8 DEF GetShard, FirstFrom, First
  <1>11. h \in Nat /\ P \cup V \in SUBSET Pos /\ h \in Pos \ (P \cup V)
    BY <1>1, <1>2, PosAssumption
  <1>12. First(P \cup V, h) \in P \cup V
    BY <1>2, <1>11, FirstFacts
  <1>13. QED
    BY <1>2, <1>3, <1>6, <1>7, <1>9, <1>10, <1>11, <1>12, RangeGained

\* A leaver gives up its hashes, but for those that another of its places follows,
\* and to their next owner.
LEMMA LeaverGivesUp ==
  ASSUME NEW v \in Layouts, NEW names \in SUBSET Shard, NEW r, r = RingOf(v, names), NEW s \in names,
         names \ {s} # {}, NEW h \in Pos \ Places(r)
  PROVE  /\ Moves(CalculateMigrationsForRemoval(r, v, s), h)
              <=> GetShard(r, h) = s /\ ~(FirstFrom(r, FirstFrom(r, h) + 1) \in v[s])
         /\ \A t \in CalculateMigrationsForRemoval(r, v, s) :
              InRange(h, t) => t.to = GetShard(RemoveShard(r, v, s), h)
  <1>1. PICK P \in SUBSET Pos : P = Places(r)
    BY DEF Places
  <1>2. PICK V \in SUBSET P : V = v[s] /\ V # {}
    BY <1>1, RingOfFacts
  <1>3. P # {} /\ h \in Nat /\ P \subseteq Nat /\ h \in Pos \ P
    BY <1>1, <1>2, PosAssumption
  <1>4. \A p \in P : r.count[p] = 1 /\ (r.owner[p] = s <=> p \in V)
    BY <1>1, <1>2, RingOfFacts
  <1>5. \A k \in Nat : FirstFrom(r, k) = First(P, k) /\ First(P, k) \in P /\ LastBefore(r, k) = Last(P, k)
    <2>1. \A k \in Nat : FirstFrom(r, k) = First(P, k) /\ LastBefore(r, k) = Last(P, k)
      BY <1>1 DEF FirstFrom, First, LastBefore, Last
    <2>2. \A k \in Nat : First(P, k) \in P
      BY <1>3, FirstFacts
    <2>3. QED
      BY <2>1, <2>2
  <1>6. \A u \in V : u \in Nat /\ u + 1 \in Nat
    BY <1>3
  <1>7. \A u \in V : NextFrom(r, u) = First(P, u + 1)
    <2> SUFFICES ASSUME NEW u \in V PROVE NextFrom(r, u) = First(P, u + 1)
      OBVIOUS
    <2>1. PICK q \in P : q = First(P, u) /\ \A p \in P : p >= u => q >= u /\ q <= p
      BY <1>3, <1>6, FirstFacts
    <2>2. First(P, u) = u
      <3>1. u >= u /\ u \in P /\ q \in Nat /\ u \in Nat
        BY <1>3, <1>6
      <3>2. QED
        BY <2>1, <3>1
    <2>3. QED
      BY <1>4, <1>5, <1>6, <2>2 DEF NextFrom
  <1>8. PICK U \in SUBSET V : U = {u \in V : First(P, u + 1) \notin V}
    OBVIOUS
  <1>9. {u \in v[s] : r.owner[NextFrom(r, u)] # s} = U
    BY <1>2, <1>4, <1>5, <1>6, <1>7, <1>8
  <1>10. PICK f : /\ \A u \in U : f[u] = [to |-> r.owner[First(P, u + 1)], start |-> Last(P, u), end |-> u]
                  /\ \A t : t \in CalculateMigrationsForRemoval(r, v, s) <=> \E u \in U : t = f[u]
    <2>1. PICK f : f = [u \in U |-> [to |-> r.owner[NextFrom(r, u)], start |-> LastBefore(r, u), end |-> u]]
      OBVIOUS
    <2>2. \A u \in U : f[u] = [to |-> r.owner[First(P, u + 1)], start |-> Last(P, u), end |-> u]
      BY <1>5, <1>6, <1>7, <1>8, <2>1
    <2>3. CalculateMigrationsForRemoval(r, v, s)
            = {[to |-> r.owner[NextFrom(r, u)], start |-> LastBefore(r, u), end |-> u] : u \in U}
      BY <1>1, <1>3, <1>9 DEF CalculateMigrationsForRemoval
    <2>4. \A t : t \in CalculateMigrationsForRemoval(r, v, s) <=> \E u \in U : t = f[u]
      BY <2>1, <2>3
    <2>5. QED
      BY <2>2, <2>4
  <1>11. \A u \in U : (InRange(h, f[u]) <=> First(P, h) = u) /\ f[u].to = r.owner[First(P, u + 1)]
    <2>1. \A u \in U : Between(h, Last(P, u), u) <=> First(P, h) = u
      BY <1>2, <1>3, <1>8, RangeOwned
    <2>2. \A u \in U : f[u].start = Last(P, u) /\ f[u].end = u /\ f[u].to = r.owner[First(P, u + 1)]
      <3> SUFFICES ASSUME NEW u \in U
                   PROVE  f[u].start = Last(P, u) /\ f[u].end = u /\ f[u].to = r.owner[First(P, u + 1)]
        OBVIOUS
      <3>1. PICK to, start : to = r.owner[First(P, u + 1)] /\ start = Last(P, u)
        OBVIOUS
      <3>2. f[u] = [to |-> to, start |-> start, end |-> u]
        BY <1>10, <3>1
      <3>3. QED
        BY <3>1, <3>2
    <2>3. \A u \in U : InRange(h, f[u]) <=> Between(h, Last(P, u), u)
      BY <2>2 DEF InRange, Between
    <2>4. QED
      BY <2>1, <2>2, <2>3
  <1>12. Moves(CalculateMigrationsForRemoval(r, v, s), h) <=> First(P, h) \in U
    BY <1>10, <1>11 DEF Moves
  <1>13. GetShard(r, h) = r.owner[First(P, h)]
    BY <1>1, <1>3, <1>5 DEF GetShard
  <1>14. First(P, h) \in U <=> GetShard(r, h) = s /\ ~(FirstFrom(r, FirstFrom(r, h) + 1) \in v[s])
    <2>1. PICK u : u = First(P, h)
      OBVIOUS
    <2>2. u \in P /\ u \in Nat /\ FirstFrom(r, h) = u
      BY <1>3, <1>5, <2>1
    <2>3. GetShard(r, h) = s <=> u \in V
      BY <1>4, <1>13, <2>1, <2>2
    <2>4. PICK w \in Nat : w = u + 1
      BY <2>2
    <2>5. FirstFrom(r, w) = First(P, w)
      BY <1>5
    <2>6. u \in U <=> u \in V /\ First(P, w) \notin V
      BY <1>8, <2>4
    <2>7. QED
      BY <1>2, <2>1, <2>2, <2>3, <2>4, <2>5, <2>6
  <1>15. ASSUME NEW u \in U, First(P, h) = u
         PROVE  r.owner[First(P, u + 1)] = GetShard(RemoveShard(r, v, s), h)
    <2>1. PICK g : g = RemoveShard(r, v, s) /\ g = RingOf(v, names \ {s})
      BY RingOfChanges
    <2>2. Places(g) = P \ V
      <3>1. Places(g) = {p \in Pos : \E t \in names \ {s} : p \in v[t]}
        BY <2>1, RingOfFacts
      <3>2. P = {p \in Pos : \E t \in names : p \in v[t]}
        BY <1>1, RingOfFacts
      <3>3. \A t \in names \ {s} : v[t] \cap V = {}
        BY <1>2, HealthAssumption
      <3>4. QED
        BY <1>2, <3>1, <3>2, <3>3
    <2>3. First(P, u + 1) \notin V /\ u \in V /\ u \in P
      BY <1>2, <1>8
    <2>4. First(P \ V, h) = First(P, u + 1)
      BY <1>3, <1>15, <2>3, RangeLeft
    <2>5. First(P, u + 1) \in P \ V
      BY <1>5, <1>6, <2>3
    <2>6. GetShard(g, h) = g.owner[First(P, u + 1)]
      BY <2>2, <2>4, <2>5 DEF GetShard, FirstFrom, First
    <2>7. \A p \in P \ V : g.owner[p] = r.owner[p]
      <3>1. g.owner = [p \in Pos |-> IF p \in V THEN NoShard ELSE r.owner[p]]
        BY <1>2, <2>1 DEF RemoveShard
      <3>2. QED
        BY <1>1, <3>1
    <2>8. QED
      BY <2>1, <2>5, <2>6, <2>7
  <1>16. \A t \in CalculateMigrationsForRemoval(r, v, s) :
              InRange(h, t) => t.to = GetShard(RemoveShard(r, v, s), h)
    BY <1>10, <1>11, <1>15
  <1>17. QED
    BY <1>12, <1>14, <1>16

\* On every ring that the health checker builds, the ranges that change hands are
\* those whose owner changes, but for the deviations that the property names
\* (migration.go:28-75, 97-140).
THEOREM RangesFollowOwners == MembershipSpec => []MovesMatchOwnership
  <1>1. OwnersTyped => MovesMatchOwnership
    <2> SUFFICES ASSUME OwnersTyped, NEW s \in Monitored, NEW h \in Pos \ (Places(serverRing) \cup layout[s]),
                        serverRing = Reference(GetAllShards(serverRing)), GetAllShards(serverRing) \ {s} # {}
                 PROVE  IF s \notin GetAllShards(serverRing)
                        THEN Moves(CalculateMigrations(serverRing, layout, s), h)
                               <=> GetShard(AddShard(serverRing, layout, s), h) = s
                        ELSE LET tasks == CalculateMigrationsForRemoval(serverRing, layout, s)
                                 next == GetShard(RemoveShard(serverRing, layout, s), h) IN
                             /\ Moves(tasks, h) <=> GetShard(serverRing, h) = s /\ ~Followed(serverRing, s, h)
                             /\ \A t \in tasks : InRange(h, t) => t.to = next
      BY DEF MovesMatchOwnership
    <2>1. PICK names \in SUBSET Shard : names = GetAllShards(serverRing)
      BY DEF OwnersTyped, GetAllShards
    <2>2. layout \in Layouts /\ s \in Shard /\ serverRing = RingOf(layout, names)
      BY <2>1, ReferenceIsRingOf, HealthAssumption DEF OwnersTyped
    <2>3. CASE s \notin names
      <3>1. Moves(CalculateMigrations(serverRing, layout, s), h)
              <=> GetShard(AddShard(serverRing, layout, s), h) = s
        BY <2>1, <2>2, <2>3, NewcomerTakes
      <3>2. QED
        BY <2>1, <2>3, <3>1
    <2>4. CASE s \in names
      <3>1. /\ Moves(CalculateMigrationsForRemoval(serverRing, layout, s), h)
                 <=> GetShard(serverRing, h) = s
                       /\ ~(FirstFrom(serverRing, FirstFrom(serverRing, h) + 1) \in layout[s])
            /\ \A t \in CalculateMigrationsForRemoval(serverRing, layout, s) :
                 InRange(h, t) => t.to = GetShard(RemoveShard(serverRing, layout, s), h)
        BY <2>1, <2>2, <2>4, LeaverGivesUp
      <3>2. QED
        BY <2>1, <2>4, <3>1 DEF Followed
    <2>5. QED
      BY <2>3, <2>4
  <1>2. QED
    BY <1>1, OwnersInitial, OwnersNext, PTL DEF MembershipSpec
================================================================================
