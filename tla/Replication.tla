------------------------------- MODULE Replication ------------------------------
(***************************************************************************)
(* internal/replication: one leader, its followers, and the connections     *)
(* between them (leader.go handleFollower, addFollower, removeFollower,     *)
(* Replicate, monitorFollowerHealth; follower.go Start, sendSyncRequest,    *)
(* processReplicationStream, monitorLeaderHealth, findNewLeader).           *)
(*                                                                          *)
(* A follower that connects is sent a copy of the cache and only then added *)
(* to l.followers, the list from which Replicate copies its targets.  The   *)
(* list is searched by follower id, and one follower may own several        *)
(* entries: of a connection whose loss the leader has not noticed, or of    *)
(* the SYNC that a follower in an election sends to find out whether a      *)
(* leader is there.                                                         *)
(*                                                                          *)
(* Abstractions.  TCP keeps the order of a connection's bytes and loses a   *)
(* suffix when it breaks.  Sequence numbers are left out: no one compares   *)
(* them, and the leader ignores the one in SYNC.  Caches are maps without   *)
(* expiry.  A follower finds the leader listening; what it does when it     *)
(* does not, promotion, is not modelled here.                               *)
(***************************************************************************)
EXTENDS Integers, Sequences, FiniteSets, SequencesExt, FiniteSetsExt

CONSTANTS Key, Value,
          Writer,              \* client connections
          Follower,
          MaxLinks,            \* bound on the connections opened, for TLC
          MaxWrites, MaxBreaks, MaxProbes   \* bounds for TLC

ASSUME BoundAssumption ==
  {MaxLinks, MaxWrites, MaxBreaks, MaxProbes} \subseteq Nat

Link == 1..MaxLinks

VARIABLES
  cache,       \* the leader's cache, [Key -> Value or None]
  followers,   \* l.followers: a sequence of links
  link,        \* [Link -> its follower id, the leader's handler, its stream]
  pc,          \* [Writer -> "idle", "replicate" or "send"]
  op,          \* [Writer -> the record of its write]
  targets,     \* [Writer -> followersCopy, those still to be sent to]
  replica,     \* [Follower -> its cache]
  current,     \* [Follower -> f.conn, a link or NoLink]
  mode,        \* [Follower -> "dial", "sync" or "stream"]
  monitors,    \* [Follower -> how many monitorLeaderHealth are running]
  electing,    \* [Follower -> how many startElection are under way]
  writes, breaks, probes,
  \* History, not code:
  latest,      \* the writers under way whose write was last applied to its key
  missed       \* [Follower -> keys replicated between the copy it was sent
               \*  and its entry in the list, deleted while it was away, or
               \*  sent to it in the opposite order of the leader's writes]

leaderVars == <<cache, followers, pc, op, targets, writes, latest>>
followerVars == <<replica, current, mode, monitors, electing>>
vars == <<leaderVars, link, followerVars, breaks, probes, missed>>

None == "none"
NoLink == 0
NoId == "no follower"
NoRecord == [type |-> "none"]
Empty == [k \in Key |-> None]
SetRecord(k, v) == [type |-> "SET", key |-> k, value |-> v]
DelRecord(k) == [type |-> "DEL", key |-> k]
SyncEnd == [type |-> "SYNCEND"]

\* handler: "unused", "accepted" (SYNC is on its way), "sent" (the copy is on
\* its way), "tracked" (added to the list), "ended".
Unused == [id |-> NoId, handler |-> "unused", open |-> FALSE, stream |-> <<>>, copy |-> Empty]

Apply(c, r) ==
  IF r.type = "SET" THEN [c EXCEPT ![r.key] = r.value] ELSE [c EXCEPT ![r.key] = None]

Init ==
  /\ cache = Empty /\ followers = <<>>
  /\ link = [x \in Link |-> Unused]
  /\ pc = [w \in Writer |-> "idle"] /\ op = [w \in Writer |-> NoRecord]
  /\ targets = [w \in Writer |-> <<>>]
  /\ replica = [f \in Follower |-> Empty]
  /\ current = [f \in Follower |-> NoLink]
  /\ mode = [f \in Follower |-> "dial"]
  /\ monitors = [f \in Follower |-> 0] /\ electing = [f \in Follower |-> 0]
  /\ writes = 0 /\ breaks = 0 /\ probes = 0
  /\ latest = {} /\ missed = [f \in Follower |-> {}]

--------------------------------------------------------------------------------
\* Clients: handleSet and handleDelete, then Replicate.

CacheWrite(w, r) ==
  /\ pc[w] = "idle" /\ writes < MaxWrites
  /\ cache' = Apply(cache, r)
  /\ pc' = [pc EXCEPT ![w] = "replicate"] /\ op' = [op EXCEPT ![w] = r]
  /\ writes' = writes + 1
  /\ latest' = {v \in latest : op[v].key # r.key} \cup {w}
  /\ UNCHANGED <<followers, targets, link, followerVars, breaks, probes, missed>>

\* A plausible bug: the list is copied without its last entry.
FollowersCopyShort == SubSeq(followers, 1, Len(followers) - 1)

FollowersCopy == followers

\* History: the last write to k goes to the entries in the list, not to a
\* follower whose connection is being synchronised from a copy that lacks it.
MissedBy(f, k) ==
  IF current[f] = NoLink THEN {}
  ELSE IF link[current[f]].handler = "sent" /\ link[current[f]].copy[k] # cache[k] THEN {k}
  ELSE {}

\* Replicate copies the list under l.mu and sends after releasing it.
ReplicateCopy(w) ==
  /\ pc[w] = "replicate"
  /\ targets' = [targets EXCEPT ![w] = FollowersCopy]
  /\ pc' = [pc EXCEPT ![w] = "send"]
  /\ missed' = [f \in Follower |->
                 IF w \in latest THEN missed[f] \cup MissedBy(f, op[w].key) ELSE missed[f]]
  /\ UNCHANGED <<cache, followers, op, writes, latest, link, followerVars, breaks, probes>>

\* A write to a broken connection fails or is lost.
Send(x, r) == IF link[x].open THEN Append(link[x].stream, r) ELSE link[x].stream

\* History: the write last applied to k has still to be sent over x.
Awaited(x, k) ==
  \E v \in latest :
    /\ op[v].key = k
    /\ pc[v] = "replicate" \/ (pc[v] = "send" /\ Contains(targets[v], x))

\* History: the last write repairs what f had missed of its key; an earlier one
\* that comes after it leaves f behind.
MissedAfter(f, w, x) ==
  IF current[f] # x THEN missed[f]
  ELSE IF w \in latest THEN missed[f] \ {op[w].key}
  ELSE IF Awaited(x, op[w].key) THEN missed[f] ELSE missed[f] \cup {op[w].key}

\* One follower at a time, in no order with another writer's Replicate.
ReplicateSend(w) ==
  LET x == Head(targets[w]) IN
  /\ pc[w] = "send" /\ targets[w] # <<>>
  /\ link' = [link EXCEPT ![x].stream = Send(x, op[w])]
  /\ targets' = [targets EXCEPT ![w] = Tail(@)]
  /\ missed' = [f \in Follower |-> MissedAfter(f, w, x)]
  /\ UNCHANGED <<cache, followers, pc, op, writes, latest, followerVars, breaks, probes>>

ReplicateDone(w) ==
  /\ pc[w] = "send" /\ targets[w] = <<>>
  /\ pc' = [pc EXCEPT ![w] = "idle"] /\ op' = [op EXCEPT ![w] = NoRecord]
  /\ latest' = latest \ {w}
  /\ UNCHANGED <<cache, followers, targets, writes, link, followerVars, breaks, probes, missed>>

--------------------------------------------------------------------------------
\* handleFollower, one goroutine per connection.

\* A REPLICATE for every item, in the order of a map iteration, and SYNCEND.
SnapshotStream(c) ==
  Append(SetToSeq({SetRecord(k, c[k]) : k \in {j \in Key : c[j] # None}}), SyncEnd)

\* History: what f still holds and the copy will not remove.
Deleted(f) == {k \in Key : replica[f][k] # None /\ cache[k] = None}

\* Nothing else is written to this connection before addFollower, so the copy
\* and its sending are one step.
SendSnapshot(x) ==
  /\ link[x].handler = "accepted"
  /\ link' = [link EXCEPT ![x].handler = "sent", ![x].copy = cache,
                          ![x].stream = IF link[x].open THEN SnapshotStream(cache) ELSE <<>>]
  /\ missed' = [f \in Follower |-> IF current[f] = x THEN Deleted(f) ELSE missed[f]]
  /\ UNCHANGED <<leaderVars, followerVars, breaks, probes>>

\* Writing to a connection that has broken may fail.
SyncFails(x) ==
  /\ link[x].handler \in {"accepted", "sent"} /\ ~link[x].open
  /\ link' = [link EXCEPT ![x] = [Unused EXCEPT !.handler = "ended"]]
  /\ UNCHANGED <<leaderVars, followerVars, breaks, probes, missed>>

addFollower(x) ==
  /\ link[x].handler = "sent"
  /\ followers' = Append(followers, x)
  /\ link' = [link EXCEPT ![x].handler = "tracked", ![x].copy = Empty]
  /\ UNCHANGED <<cache, pc, op, targets, writes, latest, followerVars, breaks, probes, missed>>

\* A plausible bug: every entry of the follower is removed.
WithoutAnyOf(s, id) == SelectSeq(s, LAMBDA x : link[x].id # id)

\* The first entry with this id is overwritten by the last one.
WithoutFirstOf(s, id) ==
  IF \A i \in 1..Len(s) : link[s[i]].id # id THEN s
  ELSE LET i == CHOOSE j \in 1..Len(s) :
                  link[s[j]].id = id /\ \A h \in 1..(j - 1) : link[s[h]].id # id
       IN  SubSeq([s EXCEPT ![i] = s[Len(s)]], 1, Len(s) - 1)

\* The handler's read fails: removeFollower, and the connection is closed.  The
\* link keeps its id: its entry may still be in the list.
removeFollower(x) ==
  /\ link[x].handler = "tracked" /\ ~link[x].open
  /\ followers' = WithoutFirstOf(followers, link[x].id)
  /\ link' = [link EXCEPT ![x].handler = "ended", ![x].stream = <<>>]
  /\ UNCHANGED <<cache, pc, op, targets, writes, latest, followerVars, breaks, probes, missed>>

--------------------------------------------------------------------------------
\* The follower's loop.

\* The next connection, x, is opened by f.
Opens(f, x, open) ==
  /\ x = Min({y \in Link : link[y].handler = "unused"} \cup {MaxLinks + 1})
  /\ link' = [link EXCEPT ![x] = [Unused EXCEPT !.id = f, !.handler = "accepted", !.open = open]]

\* connectToLeader and the SYNC request.
Dial(f, x) ==
  /\ mode[f] = "dial" /\ Opens(f, x, TRUE)
  /\ current' = [current EXCEPT ![f] = x] /\ mode' = [mode EXCEPT ![f] = "sync"]
  /\ UNCHANGED <<leaderVars, replica, monitors, electing, breaks, probes, missed>>

\* A plausible bug: SYNCEND does not end sendSyncRequest.
SynchronisedNever(f) == mode' = mode /\ monitors' = monitors

\* Start goes on from sendSyncRequest to processReplicationStream and starts
\* another monitorLeaderHealth; those of earlier connections are still there.
Synchronised(f) ==
  /\ mode' = [mode EXCEPT ![f] = "stream"]
  /\ monitors' = [monitors EXCEPT ![f] = @ + 1]

\* One message.  The keys that the copy lacks are not removed.
Receive(f) ==
  LET x == current[f] IN
  /\ x # NoLink /\ link[x].stream # <<>>
  /\ LET r == Head(link[x].stream) IN
     IF r = SyncEnd
     THEN Synchronised(f) /\ UNCHANGED replica
     ELSE replica' = [replica EXCEPT ![f] = Apply(@, r)] /\ UNCHANGED <<mode, monitors>>
  /\ link' = [link EXCEPT ![x].stream = Tail(@)]
  /\ UNCHANGED <<leaderVars, current, electing, breaks, probes, missed>>

\* The connection is lost, or the leader closes it after 15 s of silence.  The
\* follower may read what had arrived before it notices.
LinkBreaks(x) ==
  /\ link[x].open /\ breaks < MaxBreaks
  /\ breaks' = breaks + 1
  /\ link' = [link EXCEPT ![x].open = FALSE]
  /\ UNCHANGED <<leaderVars, followerVars, probes, missed>>

\* A plausible bug: the connection is dropped but Start is not told.
closeConnQuietly(f) ==
  IF current[f] = NoLink THEN UNCHANGED <<link, current, mode>>
  ELSE /\ link' = [link EXCEPT ![current[f]].open = FALSE, ![current[f]].stream = <<>>]
       /\ current' = [current EXCEPT ![f] = NoLink] /\ UNCHANGED mode

closeConn(f) ==
  IF current[f] = NoLink THEN UNCHANGED <<link, current, mode>>
  ELSE /\ link' = [link EXCEPT ![current[f]].open = FALSE, ![current[f]].stream = <<>>]
       /\ current' = [current EXCEPT ![f] = NoLink] /\ mode' = [mode EXCEPT ![f] = "dial"]

ReadFails(f) ==
  /\ current[f] # NoLink /\ ~link[current[f]].open
  /\ closeConn(f)
  /\ UNCHANGED <<leaderVars, replica, monitors, electing, breaks, probes, missed>>

\* monitorLeaderHealth: 15 s without a message.  The monitor of an earlier
\* connection closes the present one all the same.  The election sleeps before
\* it looks for a leader, while Start dials again.
LeaderTimeout(f) ==
  /\ monitors[f] > 0 /\ probes < MaxProbes
  /\ closeConn(f)
  /\ monitors' = [monitors EXCEPT ![f] = @ - 1]
  /\ electing' = [electing EXCEPT ![f] = @ + 1] /\ probes' = probes + 1
  /\ UNCHANGED <<leaderVars, replica, breaks, missed>>

\* findNewLeader: dial, send SYNC, close.
findNewLeader(f, x) ==
  /\ electing[f] > 0 /\ Opens(f, x, FALSE)
  /\ electing' = [electing EXCEPT ![f] = @ - 1]
  /\ UNCHANGED <<leaderVars, replica, current, mode, monitors, breaks, probes, missed>>

--------------------------------------------------------------------------------
Write(w) ==
  \E k \in Key :
    \/ CacheWrite(w, DelRecord(k))
    \/ \E v \in Value : CacheWrite(w, SetRecord(k, v))

Replicate(w) == ReplicateCopy(w) \/ ReplicateSend(w) \/ ReplicateDone(w)

handleFollower(x) == SendSnapshot(x) \/ SyncFails(x) \/ addFollower(x) \/ removeFollower(x)

Next ==
  \/ \E w \in Writer : Write(w) \/ Replicate(w)
  \/ \E x \in Link : handleFollower(x) \/ LinkBreaks(x)
  \/ \E f \in Follower : Receive(f) \/ ReadFails(f) \/ LeaderTimeout(f)
  \/ \E f \in Follower, x \in Link : Dial(f, x) \/ findNewLeader(f, x)

Spec == Init /\ [][Next]_vars

\* The runtime runs every goroutine that can run, and TCP delivers.
FairSpec ==
  /\ Spec
  /\ \A w \in Writer : WF_vars(Replicate(w))
  /\ \A x \in Link : WF_vars(handleFollower(x))
  /\ \A f \in Follower :
       /\ WF_vars(Receive(f)) /\ WF_vars(ReadFails(f))
       /\ WF_vars(\E x \in Link : Dial(f, x)) /\ WF_vars(\E x \in Link : findNewLeader(f, x))

--------------------------------------------------------------------------------
RecordType == {SetRecord(k, v) : k \in Key, v \in Value} \cup {DelRecord(k) : k \in Key}
CacheType == [Key -> Value \cup {None}]
LinkType ==
  [id : Follower \cup {NoId}, handler : {"unused", "accepted", "sent", "tracked", "ended"},
   open : BOOLEAN, stream : Seq(RecordType \cup {SyncEnd}), copy : CacheType]

TypeOK ==
  /\ cache \in CacheType /\ followers \in Seq(Link) /\ link \in [Link -> LinkType]
  /\ pc \in [Writer -> {"idle", "replicate", "send"}]
  /\ op \in [Writer -> RecordType \cup {NoRecord}]
  /\ targets \in [Writer -> Seq(Link)]
  /\ replica \in [Follower -> CacheType]
  /\ current \in [Follower -> Link \cup {NoLink}]
  /\ mode \in [Follower -> {"dial", "sync", "stream"}]
  /\ monitors \in [Follower -> Nat] /\ electing \in [Follower -> Nat]
  /\ {writes, breaks, probes} \subseteq Nat
  /\ latest \subseteq Writer /\ missed \in [Follower -> SUBSET Key]
  \* Only a connected follower is past dialling.
  /\ \A f \in Follower : current[f] = NoLink <=> mode[f] = "dial"

(***************************************************************************)
(* removeFollower takes out the first entry with the follower's id, be it   *)
(* its own or not.  Still each follower has as many entries as it has       *)
(* handlers, however connections, reconnections and election probes        *)
(* overlap: no handler leaves an entry behind, none removes one too many.   *)
(***************************************************************************)
EntriesMatchHandlers ==
  \A f \in Follower :
    Cardinality({i \in 1..Len(followers) : link[followers[i]].id = f})
      = Cardinality({x \in Link : link[x].handler = "tracked" /\ link[x].id = f})

\* Nothing is on its way to f, which is reading the leader's stream.
Quiet(f) ==
  /\ mode[f] = "stream"
  /\ link[current[f]].open /\ link[current[f]].handler = "tracked"
  /\ link[current[f]].stream = <<>>
  /\ \A w \in Writer : pc[w] = "idle"

(***************************************************************************)
(* docs/deployment.md:114, "Read from each follower - both should return    *)
(* the value".  What the code provides: through lost connections,           *)
(* reconnections before the leader has noticed the loss, and writes in      *)
(* flight on the old connection, a follower that is in the list differs     *)
(* from the leader only in keys whose last write                            *)
(*   - came between the copy it was sent and its entry in the list,         *)
(*   - deleted the key while it was away, or                                *)
(*   - was followed, on its connection, by an earlier write of another      *)
(*     client (leader.go:283: Replicate sends after it has released l.mu,   *)
(*     and the cache was written under another lock).                       *)
(* It may not be in the list although it reads the stream: the handler of   *)
(* an election probe, or of a connection whose loss was noticed late,       *)
(* removes the first entry with its id.                                     *)
(***************************************************************************)
ConvergedWhileListed ==
  \A f \in Follower : (Quiet(f) /\ Contains(followers, current[f])) =>
    \A k \in Key : replica[f][k] # cache[k] => k \in missed[f]

(***************************************************************************)
(* A follower whose connection was lost, even while it was being            *)
(* synchronised, or was closed by the monitor of an earlier connection,     *)
(* ends up reading the leader's stream again.                               *)
(***************************************************************************)
FollowersResync == \A f \in Follower : mode[f] # "stream" ~> mode[f] = "stream"
================================================================================
