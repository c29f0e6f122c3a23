------------------------------- MODULE Persistence ------------------------------
(***************************************************************************)
(* internal/persistence (aof.go, snapshot.go, recovery.go) and the writes   *)
(* that feed it (handleSet and handleDelete of internal/server/handler.go). *)
(*                                                                          *)
(* A write changes the cache, then appends to the AOF: two steps, under two *)
(* different locks.  Two background jobs copy the cache and then replace a  *)
(* file: CreateSnapshot (replaces the snapshot, empties the AOF) and        *)
(* rewriteAOF (replaces the AOF).  A crash loses the memory and what the    *)
(* AOF had not been fsynced; a restart loads the snapshot and replays the   *)
(* AOF.                                                                     *)
(*                                                                          *)
(* Abstractions.  The cache is the map alone (Cache.tla has the list; here  *)
(* it never fills).  An expired item stays in it until it is overwritten:   *)
(* Get and both jobs take it for absent, so its removal shows nowhere.      *)
(* File sizes are counted in records.  Writes and crashes leave whole       *)
(* records; renames and truncations are durable once they return.  Time     *)
(* runs in ticks, TicksPerSecond to the second the files count in.          *)
(***************************************************************************)
EXTENDS Integers, Sequences, FiniteSets, SequencesExt, FiniteSetsExt

CONSTANTS Key, Value,
          Writer,          \* client connections
          TTL,             \* TTLs of SET in seconds, 0 for none
          Policies,        \* the sync policies a server may be configured with
          GrowthFactor,    \* growth_factor
          TicksPerSecond,
          MaxWrites, MaxStops, MaxFaults, MaxClock   \* bounds for TLC

ASSUME PolicyAssumption == Policies \subseteq {"always", "everysecond", "no"}
ASSUME NumbersAssumption ==
  /\ TTL \subseteq Nat
  /\ {GrowthFactor, TicksPerSecond} \subseteq Nat \ {0}
  /\ {MaxWrites, MaxStops, MaxFaults, MaxClock} \subseteq Nat

VARIABLES
  policy,      \* aof.policy, fixed by the configuration
  phase,       \* "down", then "load", "read", "replay" while recovering, "up"
  cache,       \* [Key -> item or None]
  now,
  pc,          \* [Writer -> "idle" or "append"]
  op,          \* [Writer -> the record of its current write]
  aof,         \* the records of the AOF file
  synced,      \* how many of them are known to be on disk
  aofOpen,     \* aof.file is an open handle
  aofMu,       \* holder of aof.mu across steps: "none" or "snapshot"
  snapFile,    \* the records of the snapshot file, {} when there is none
  snap,        \* CreateSnapshot: [pc, copy of the cache, temp file]
  rew,         \* rewriteAOF: the same; the rewriting flag is rew.pc # "idle"
  lastRewriteSize,
  ops,         \* RecoverAOF: what ReadOperations returned
  writes, stops, faults,              \* counters for the bounds
  \* History, not code:
  effect,      \* [Writer -> the item its current write left in the cache]
  latest,      \* writers whose write is the last on its key and not yet logged
  allowed,     \* [Key -> items that a recovery may stand for]
  logged,      \* [Key -> the item of its last append]
  atRisk,      \* keys the files may get wrong: see DurableUnlessAtRisk
  forgotten,   \* keys deleted before a rewrite and still in the snapshot file
  early        \* a snapshot was copied before the present recovery ended

files == <<aof, synced, aofOpen, aofMu, snapFile, lastRewriteSize>>
jobs == <<snap, rew>>
counters == <<writes, stops, faults>>
history == <<effect, latest, allowed, logged, atRisk, forgotten, early>>
vars == <<policy, phase, cache, now, pc, op, files, jobs, ops, counters, history>>

None == [value |-> "none"]     \* no item; also what a DEL leaves
Never == 0                     \* the zero time.Time
NoRecord == [type |-> "none"]
Empty == [k \in Key |-> None]
IdleJob == [pc |-> "idle", copy |-> Empty, temp |-> {}]

SetRecord(k, v, ttl) == [type |-> "SET", key |-> k, value |-> v, ttl |-> ttl]
DelRecord(k) == [type |-> "DEL", key |-> k]

\* What cache.Set and cache.Delete make of a record.
ItemOf(r) ==
  IF r.type = "SET"
  THEN [value |-> r.value,
        expiresAt |-> IF r.ttl > 0 THEN now + r.ttl * TicksPerSecond ELSE Never]
  ELSE None

--------------------------------------------------------------------------------
\* What a restart would load: the snapshot, then the AOF in order.  Per key the
\* last record decides, since Set and Delete of other keys do not touch it.

KeysOf(S) == {r.key : r \in S}

LastOn(log, k) == Max({0} \cup {i \in 1..Len(log) : log[i].key = k})

LoadSnapshot(S) ==
  [k \in Key |-> IF \E r \in S : r.key = k
                 THEN ItemOf(CHOOSE r \in S : r.key = k) ELSE None]

Replay(c, log) ==
  [k \in Key |-> IF LastOn(log, k) = 0 THEN c[k] ELSE ItemOf(log[LastOn(log, k)])]

\* The records both jobs write for a copy of the cache: expired items are left
\* out, a remaining TTL is truncated to whole seconds by int(ttl.Seconds()).
Remaining(item) == item.expiresAt - now

\* A plausible bug: the check for a remaining TTL below zero is dropped.
LiveUnchecked(item) == item # None

Live(item) == item # None /\ (item.expiresAt = Never \/ Remaining(item) >= 0)
Records(c) ==
  {SetRecord(k, c[k].value,
             IF c[k].expiresAt = Never THEN 0
             ELSE Remaining(c[k]) \div TicksPerSecond) :
     k \in {j \in Key : Live(c[j])}}

\* History: those that Records gives the TTL 0, which is read as no expiry.
InLastSecond(c) ==
  {k \in Key : /\ Live(c[k]) /\ c[k].expiresAt # Never
               /\ Remaining(c[k]) < TicksPerSecond}

--------------------------------------------------------------------------------
Init ==
  /\ policy \in Policies
  /\ phase = "up"
  /\ cache = Empty
  /\ now = 1
  /\ pc = [w \in Writer |-> "idle"] /\ op = [w \in Writer |-> NoRecord]
  /\ aof = <<>> /\ synced = 0 /\ aofOpen = TRUE /\ aofMu = "none"
  /\ snapFile = {}
  /\ snap = IdleJob /\ rew = IdleJob
  /\ lastRewriteSize = 0
  /\ ops = <<>>
  /\ writes = 0 /\ stops = 0 /\ faults = 0
  /\ effect = [w \in Writer |-> None] /\ latest = {}
  /\ allowed = [k \in Key |-> {None}]
  /\ logged = [k \in Key |-> None]
  /\ atRisk = {} /\ forgotten = {} /\ early = FALSE

Tick ==
  /\ now < MaxClock
  /\ now' = now + 1
  /\ UNCHANGED <<policy, phase, cache, pc, op, files, jobs, ops, counters, history>>

\* A job has copied the cache and not yet put the copy in place.
CopyOutstanding ==
  snap.pc \in {"copied", "written", "renamed"} \/ rew.pc \in {"copied", "written"}

\* handleSet, handleDelete: the cache changes first.
CacheWrite(w, r) ==
  /\ phase = "up" /\ pc[w] = "idle" /\ writes < MaxWrites
  /\ cache' = [cache EXCEPT ![r.key] = ItemOf(r)]
  /\ pc' = [pc EXCEPT ![w] = "append"] /\ op' = [op EXCEPT ![w] = r]
  /\ writes' = writes + 1
  /\ effect' = [effect EXCEPT ![w] = ItemOf(r)]
  /\ latest' = {u \in latest : op[u].key # r.key} \cup {w}
  /\ allowed' = [allowed EXCEPT ![r.key] = @ \cup {ItemOf(r)}]
  /\ UNCHANGED <<policy, phase, now, files, jobs, ops, stops, faults, logged, atRisk,
                 forgotten, early>>

\* History: every append so far is on disk.
SettledBy(lg, p) ==
  [k \in Key |-> {lg[k]} \cup
     {effect[u] : u \in {x \in Writer : p[x] = "append" /\ op[x].key = k}}]

\* History: a later write of the key is in the cache and has been logged already.
Overtaken(w) == \A u \in latest : op[u].key # op[w].key

\* checkRewriteTrigger: the first call only sets the baseline.
RewriteDue(size) ==
  /\ rew.pc = "idle"
  /\ lastRewriteSize # 0
  /\ size > GrowthFactor * lastRewriteSize

CheckRewriteTrigger(size) ==
  /\ rew' = IF RewriteDue(size) THEN [rew EXCEPT !.pc = "started"] ELSE rew
  /\ lastRewriteSize' = IF rew.pc = "idle" /\ lastRewriteSize = 0
                        THEN size ELSE lastRewriteSize

\* Append takes aof.mu; whatever it returns, the handler then tells the client OK.
Appending(w) ==
  /\ phase = "up" /\ pc[w] = "append" /\ aofMu = "none"
  /\ pc' = [pc EXCEPT ![w] = "idle"]
  /\ op' = [op EXCEPT ![w] = NoRecord]
  /\ effect' = [effect EXCEPT ![w] = None] /\ latest' = latest \ {w}
  /\ UNCHANGED <<policy, phase, cache, now, aofOpen, aofMu, snapFile, snap, ops, writes,
                 stops, early>>

\* A plausible bug: deletions are not logged.
AppendedSetsOnly(log, r) == IF r.type = "SET" THEN Append(log, r) ELSE log

Appended(log, r) == Append(log, r)

\* The record reaches the file and, with policy "always", the disk.  If that
\* fsync fails Append returns before it looks at the size.
AppendOp(w, fsynced) ==
  LET k == op[w].key
      failed == policy = "always" /\ ~fsynced
  IN
  /\ Appending(w) /\ aofOpen
  /\ fsynced => policy = "always"
  /\ failed => faults < MaxFaults
  /\ faults' = IF failed THEN faults + 1 ELSE faults
  /\ aof' = Appended(aof, op[w])
  /\ synced' = IF fsynced THEN Len(aof') ELSE synced
  /\ IF failed THEN UNCHANGED <<rew, lastRewriteSize>> ELSE CheckRewriteTrigger(Len(aof'))
  /\ logged' = [logged EXCEPT ![k] = effect[w]]
  /\ allowed' = IF fsynced THEN SettledBy(logged', pc') ELSE allowed
  /\ atRisk' = IF CopyOutstanding \/ Overtaken(w) THEN atRisk \cup {k}
               ELSE IF fsynced THEN atRisk \ {k} ELSE atRisk
  /\ forgotten' = IF fsynced THEN forgotten \ {k} ELSE forgotten

\* The file is closed, or the write to it fails.
AppendFails(w) ==
  /\ Appending(w)
  /\ aofOpen => faults < MaxFaults
  /\ faults' = IF aofOpen THEN faults + 1 ELSE faults
  /\ atRisk' = atRisk \cup {op[w].key}
  /\ UNCHANGED <<aof, synced, rew, lastRewriteSize, logged, allowed, forgotten>>

\* The one-second ticker of SyncEverySecond.
PeriodicSync ==
  /\ policy = "everysecond" /\ phase # "down" /\ aofMu = "none" /\ aofOpen
  /\ synced < Len(aof)
  /\ synced' = Len(aof)
  /\ allowed' = SettledBy(logged, pc)
  /\ UNCHANGED <<policy, phase, cache, now, pc, op, aof, aofOpen, aofMu, snapFile,
                 lastRewriteSize, jobs, ops, counters, effect, latest, logged, atRisk,
                 forgotten, early>>

--------------------------------------------------------------------------------
\* CreateSnapshot, started by the ticker of checkSnapshotTrigger.  That ticker
\* runs from NewAOF on, hence also while RecoverAOF is still at work.

SnapshotCopy ==
  /\ snap.pc = "idle" /\ phase # "down"
  /\ snap' = [snap EXCEPT !.pc = "copied", !.copy = cache]
  /\ early' = (early \/ phase # "up")
  /\ atRisk' = IF phase # "up" THEN Key ELSE atRisk
  /\ UNCHANGED <<policy, phase, cache, now, pc, op, files, rew, ops, counters, effect,
                 latest, allowed, logged, forgotten>>

SnapshotWrite ==
  /\ snap.pc = "copied"
  /\ snap' = [snap EXCEPT !.pc = "written", !.copy = Empty, !.temp = Records(snap.copy)]
  /\ atRisk' = atRisk \cup InLastSecond(snap.copy)
  /\ UNCHANGED <<policy, phase, cache, now, pc, op, files, rew, ops, counters, effect,
                 latest, allowed, logged, forgotten, early>>

\* aof.mu is taken here and held until the AOF has been emptied.
SnapshotRename ==
  /\ snap.pc = "written" /\ aofMu = "none"
  /\ aofMu' = "snapshot"
  /\ snapFile' = snap.temp
  /\ snap' = [snap EXCEPT !.pc = "renamed", !.temp = {}]
  /\ UNCHANGED <<policy, phase, cache, now, pc, op, aof, synced, aofOpen, lastRewriteSize,
                 rew, ops, counters, history>>

\* Close, truncate, reopen.  lastRewriteSize keeps its old value.  A failure of
\* the truncation or of the reopening returns with the file closed.
SnapshotTruncate(truncated, reopened) ==
  /\ snap.pc = "renamed"
  /\ reopened => truncated
  /\ (reopened \/ faults < MaxFaults)
  /\ faults' = IF reopened THEN faults ELSE faults + 1
  /\ aof' = IF truncated THEN <<>> ELSE aof
  /\ synced' = IF truncated THEN 0 ELSE synced
  /\ aofOpen' = reopened
  /\ aofMu' = "none"
  /\ snap' = IdleJob
  /\ UNCHANGED <<policy, phase, cache, now, pc, op, snapFile, lastRewriteSize, rew, ops,
                 writes, stops, history>>

\* An error before the swap: the temp file is removed, nothing else happened.
SnapshotFails ==
  /\ snap.pc \in {"copied", "written"} /\ faults < MaxFaults
  /\ faults' = faults + 1
  /\ snap' = IdleJob
  /\ UNCHANGED <<policy, phase, cache, now, pc, op, files, rew, ops, writes, stops, history>>

--------------------------------------------------------------------------------
\* rewriteAOF, in the goroutine that checkRewriteTrigger starts.

RewriteCopy ==
  /\ rew.pc = "started"
  /\ rew' = [rew EXCEPT !.pc = "copied", !.copy = cache]
  /\ UNCHANGED <<policy, phase, cache, now, pc, op, files, snap, ops, counters, history>>

RewriteWrite ==
  /\ rew.pc = "copied"
  /\ rew' = [rew EXCEPT !.pc = "written", !.copy = Empty, !.temp = Records(rew.copy)]
  /\ atRisk' = atRisk \cup InLastSecond(rew.copy)
  /\ UNCHANGED <<policy, phase, cache, now, pc, op, files, snap, ops, counters, effect,
                 latest, allowed, logged, forgotten, early>>

\* A plausible bug: the temp file is renamed without having been fsynced.
RewriteSwapUnsynced(renamed, reopened) ==
  /\ rew.pc = "written" /\ aofMu = "none" /\ aofOpen /\ renamed /\ reopened
  /\ aof' = SetToSeq(rew.temp) /\ synced' = 0
  /\ lastRewriteSize' = Len(aof') /\ rew' = [IdleJob EXCEPT !.pc = "done"]
  /\ UNCHANGED <<policy, phase, cache, now, pc, op, aofOpen, aofMu, snapFile, snap, ops,
                 counters, history>>

\* Close, rename, reopen, all under aof.mu.  Closing a file that is already
\* closed is an error, so a rewrite never repairs a closed file.  The order of
\* the records is that of a map iteration; they have distinct keys.
RewriteSwap(renamed, reopened) ==
  /\ rew.pc = "written" /\ aofMu = "none" /\ aofOpen
  /\ reopened => renamed
  /\ (reopened \/ faults < MaxFaults)
  /\ faults' = IF reopened THEN faults ELSE faults + 1
  /\ aof' = IF renamed THEN SetToSeq(rew.temp) ELSE aof
  /\ synced' = IF renamed THEN Len(aof') ELSE synced
  /\ aofOpen' = reopened
  /\ lastRewriteSize' = IF reopened THEN Len(aof') ELSE lastRewriteSize
  /\ rew' = [IdleJob EXCEPT !.pc = "done"]
  /\ forgotten' = IF renamed THEN forgotten \cup (KeysOf(snapFile) \ KeysOf(rew.temp))
                  ELSE forgotten
  /\ UNCHANGED <<policy, phase, cache, now, pc, op, aofMu, snapFile, snap, ops, writes,
                 stops, effect, latest, allowed, logged, atRisk, early>>

\* An error before the swap, or the close of a file that is already closed.
RewriteFails ==
  /\ \/ rew.pc \in {"started", "copied", "written"} /\ faults < MaxFaults
        /\ faults' = faults + 1
     \/ rew.pc = "written" /\ aofMu = "none" /\ ~aofOpen /\ UNCHANGED faults
  /\ rew' = [IdleJob EXCEPT !.pc = "done"]
  /\ UNCHANGED <<policy, phase, cache, now, pc, op, files, snap, ops, writes, stops, history>>

\* The goroutine takes aof.mu once more to clear the flag.
RewriteDone ==
  /\ rew.pc = "done" /\ aofMu = "none"
  /\ rew' = IdleJob
  /\ UNCHANGED <<policy, phase, cache, now, pc, op, files, snap, ops, counters, history>>

--------------------------------------------------------------------------------
\* Stopping and starting again.

\* What the process loses when it ends.
MemoryGone ==
  /\ phase' = "down" /\ cache' = Empty
  /\ pc' = [w \in Writer |-> "idle"] /\ op' = [w \in Writer |-> NoRecord]
  /\ aofOpen' = FALSE /\ aofMu' = "none" /\ lastRewriteSize' = 0
  /\ snap' = IdleJob /\ rew' = IdleJob /\ ops' = <<>>
  /\ stops' = stops + 1
  /\ effect' = [w \in Writer |-> None] /\ latest' = {}
  /\ UNCHANGED <<policy, now, snapFile, writes, faults>>

\* The operating system may have written any part of what was not fsynced.
Crash ==
  /\ phase # "down" /\ stops < MaxStops
  /\ \E m \in synced..Len(aof) : aof' = SubSeq(aof, 1, m) /\ synced' = m
  /\ MemoryGone
  /\ UNCHANGED <<allowed, logged, atRisk, forgotten, early>>

\* Server.Stop and AOF.Close: connections and background jobs end first, then
\* the file is fsynced and closed.
Close ==
  /\ phase = "up" /\ stops < MaxStops
  /\ \A w \in Writer : pc[w] = "idle"
  /\ snap.pc = "idle" /\ rew.pc = "idle"
  /\ synced' = IF aofOpen THEN Len(aof) ELSE synced
  /\ allowed' = IF aofOpen THEN SettledBy(logged, pc) ELSE allowed
  /\ MemoryGone
  /\ UNCHANGED <<aof, logged, atRisk, forgotten, early>>

\* NewAOF.
Restart ==
  /\ phase = "down"
  /\ phase' = "load" /\ aofOpen' = TRUE /\ early' = FALSE
  /\ UNCHANGED <<policy, cache, now, pc, op, aof, synced, aofMu, snapFile,
                 lastRewriteSize, jobs, ops, counters, effect, latest, allowed, logged,
                 atRisk, forgotten>>

RecoverSnapshot ==
  /\ phase = "load"
  /\ phase' = "read" /\ cache' = LoadSnapshot(snapFile)
  /\ UNCHANGED <<policy, now, pc, op, files, jobs, ops, counters, history>>

ReadOperations ==
  /\ phase = "read"
  /\ phase' = "replay" /\ ops' = aof
  /\ UNCHANGED <<policy, cache, now, pc, op, files, jobs, counters, history>>

\* The operations are applied to the cache and the server starts to listen.
\* History: what was recovered must survive from here on, unless it was read
\* from records that a failed Close left without an fsync, or snapshotted
\* before it was complete.
RecoverOperations ==
  /\ phase = "replay"
  /\ phase' = "up" /\ cache' = Replay(cache, ops) /\ ops' = <<>>
  /\ logged' = cache'
  /\ allowed' = [k \in Key |-> {logged'[k]} \cup
                                IF synced = Len(aof) THEN {} ELSE allowed[k]]
  /\ atRisk' = IF synced = Len(aof) /\ ~early THEN {} ELSE atRisk
  /\ forgotten' = IF synced = Len(aof) /\ ~early THEN {} ELSE forgotten
  /\ UNCHANGED <<policy, now, pc, op, files, jobs, counters, effect, latest, early>>

--------------------------------------------------------------------------------
Write(w) ==
  \E k \in Key :
    \/ CacheWrite(w, DelRecord(k))
    \/ \E v \in Value, ttl \in TTL : CacheWrite(w, SetRecord(k, v, ttl))

LogWrite(w) == AppendFails(w) \/ \E fsynced \in BOOLEAN : AppendOp(w, fsynced)

SnapshotStep ==
  \/ SnapshotCopy \/ SnapshotWrite \/ SnapshotRename
  \/ \E t, r \in BOOLEAN : SnapshotTruncate(t, r)

RewriteStep ==
  \/ RewriteCopy \/ RewriteWrite \/ RewriteDone
  \/ \E n, r \in BOOLEAN : RewriteSwap(n, r)

Recover == Restart \/ RecoverSnapshot \/ ReadOperations \/ RecoverOperations

Next ==
  \/ \E w \in Writer : Write(w) \/ LogWrite(w)
  \/ PeriodicSync \/ Tick
  \/ SnapshotStep \/ SnapshotFails \/ RewriteStep \/ RewriteFails
  \/ Crash \/ Close \/ Recover

Spec == Init /\ [][Next]_vars

--------------------------------------------------------------------------------
ItemType == [value : Value, expiresAt : Nat] \cup {None}
RecordType ==
  [type : {"SET"}, key : Key, value : Value, ttl : Nat] \cup [type : {"DEL"}, key : Key]

JobType(pcs) == [pc : pcs, copy : [Key -> ItemType], temp : SUBSET RecordType]

TypeOK ==
  /\ policy \in Policies /\ phase \in {"down", "load", "read", "replay", "up"}
  /\ cache \in [Key -> ItemType] /\ now \in Nat
  /\ pc \in [Writer -> {"idle", "append"}] /\ op \in [Writer -> RecordType \cup {NoRecord}]
  /\ aof \in Seq(RecordType) /\ synced \in 0..Len(aof)
  /\ aofOpen \in BOOLEAN /\ aofMu \in {"none", "snapshot"}
  /\ snapFile \subseteq RecordType
  /\ snap \in JobType({"idle", "copied", "written", "renamed"})
  /\ rew \in JobType({"idle", "started", "copied", "written", "done"})
  /\ lastRewriteSize \in Nat /\ ops \in Seq(RecordType)
  /\ effect \in [Writer -> ItemType] /\ latest \subseteq Writer
  /\ logged \in [Key -> ItemType] /\ allowed \in [Key -> SUBSET ItemType]
  /\ atRisk \subseteq Key /\ forgotten \subseteq Key /\ early \in BOOLEAN

\* A restart now would recover item where a write left item a.  A key without
\* an expiry comes back as it was.  One with an expiry comes back with its value
\* and an expiry, less than a second early at worst; since the TTL of a record
\* counts anew from the restart it may live longer, or again.  It may be gone
\* only if it has expired.
Agrees(item, a) ==
  IF item = None
  THEN a = None \/ (a.expiresAt # Never /\ a.expiresAt < now)
  ELSE /\ a # None /\ item.value = a.value
       /\ item.expiresAt = Never <=> a.expiresAt = Never
       /\ item.expiresAt + TicksPerSecond > a.expiresAt

\* Were the machine to lose power now, key k would come back as some write
\* that may be its last: the last one known to be on disk or a later one.
Recoverable(k) ==
  \A m \in synced..Len(aof) :
    \E a \in allowed[k] :
      Agrees(Replay(LoadSnapshot(snapFile), SubSeq(aof, 1, m))[k], a)

(***************************************************************************)
(* docs/configuration.md:144 promises "zero data loss" for policy always.   *)
(* What the code provides, under every policy: whatever the interleaving of *)
(* writers (of one key, too), snapshots, rewrites, I/O failures, crashes    *)
(* (also during recovery) and restarts, no write known to be on disk is     *)
(* lost, rolled back, cut short or stripped of its expiry unless            *)
(*   - its last append fell between a job's copy of the cache and its swap  *)
(*     of the files;                                                        *)
(*   - that append failed, on a file that a failed swap had left closed or  *)
(*     on an open one, and the client was told OK;                          *)
(*   - it came after the append of a write that another client had made     *)
(*     later (handler.go:871: the cache and the log have different locks);  *)
(*   - a job wrote it during the last second of its TTL;                    *)
(*   - a snapshot was copied before recovery had finished;                  *)
(*   - it was deleted before a rewrite and the snapshot file still has it.  *)
(***************************************************************************)
DurableUnlessAtRisk == \A k \in Key \ (atRisk \cup forgotten) : Recoverable(k)

\* No write is between the cache and the log.
Quiescent == phase = "up" /\ \A w \in Writer : pc[w] = "idle"

Recovered(k) == Replay(LoadSnapshot(snapFile), aof)[k]

(***************************************************************************)
(* With no write under way, the files stand for the cache that is being     *)
(* served, with the same exceptions: after a clean restart now every key    *)
(* has the value it has now, and a key with a TTL is not lost before its    *)
(* time.  The restart does prolong TTLs (recovery.go:61): a key may outlive *)
(* its expiry, and one that has expired may be read again.                  *)
(***************************************************************************)
FilesMatchCache ==
  Quiescent => \A k \in Key \ (atRisk \cup forgotten) : Agrees(Recovered(k), cache[k])
================================================================================
