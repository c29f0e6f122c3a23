------------------------------- MODULE Heartbeats -------------------------------
(***************************************************************************)
(* The leader's writes to its followers (internal/replication/leader.go):   *)
(* Replicate, called by every handler of a write, sendHeartbeats,           *)
(* monitorFollowerHealth and Close, which waits for the last two.  All of   *)
(* them walk over a copy of l.followers and take follower.mu for each; a    *)
(* Write has no deadline.                                                   *)
(*                                                                          *)
(* Abstractions.  What is sent does not matter, only whether there is room  *)
(* for it in the buffers of TCP.  A follower reads and beats, or is stalled *)
(* and does neither: its process is stopped or its host cannot be reached.  *)
(* 15 s are longer than a follower that is not stalled ever is silent.      *)
(* Followers that come back, and what they hold, are in Replication.        *)
(***************************************************************************)
EXTENDS Naturals, Sequences, FiniteSets, SequencesExt

CONSTANTS Follower,
          Client,     \* handlers of writes, each calls Replicate
          Buffer,     \* messages that fit into the buffers of a connection
          MaxFaults   \* bound on stalls and crashes of followers

ASSUME BufferAssumption == Buffer \in Nat \ {0} /\ MaxFaults \in Nat

Beater == "sendHeartbeats"
Monitor == "monitorFollowerHealth"
Agent == Client \cup {Beater, Monitor}
NoAgent == "nobody"

VARIABLES
  followers,  \* l.followers
  open,       \* [Follower -> its connection is open]
  stalled,    \* [Follower -> it neither reads nor beats]
  buffered,   \* [Follower -> messages it has not read yet]
  heard,      \* [Follower -> lastHeartbeat is less than 15 s ago]
  holder,     \* [Follower -> who holds follower.mu]
  pc,         \* [Agent -> where it is]
  targets,    \* [Agent -> what is left of followersCopy]
  closing,    \* where Close is
  faults

vars == <<followers, open, stalled, buffered, heard, holder, pc, targets, closing, faults>>

Init ==
  /\ followers \in SetToSeqs(Follower)
  /\ open = [x \in Follower |-> TRUE]
  /\ stalled = [x \in Follower |-> FALSE]
  /\ buffered = [x \in Follower |-> 0]
  /\ heard = [x \in Follower |-> TRUE]
  /\ holder = [x \in Follower |-> NoAgent]
  /\ pc = [a \in Agent |-> "idle"]
  /\ targets = [a \in Agent |-> <<>>]
  /\ closing = "no"
  /\ faults = 0

--------------------------------------------------------------------------------
\* The three walks over the followers.

\* A command comes in, or a ticker fires: the list is copied under l.mu.
Begin(a) ==
  /\ pc[a] = "idle" /\ followers # <<>>
  /\ pc' = [pc EXCEPT ![a] = "next"]
  /\ targets' = [targets EXCEPT ![a] = followers]
  /\ UNCHANGED <<followers, open, stalled, buffered, heard, holder, closing, faults>>

Target(a) == Head(targets[a])

\* On to the next follower, if there is one.
Advance(a) ==
  /\ targets' = [targets EXCEPT ![a] = Tail(@)]
  /\ pc' = [pc EXCEPT ![a] = IF Len(targets[a]) = 1 THEN "idle" ELSE "next"]

\* The monitor passes over the followers it has heard of lately.  The check and
\* the lock are two steps: a heartbeat may come in between.
Check ==
  /\ pc[Monitor] = "next"
  /\ \/ heard[Target(Monitor)] /\ Advance(Monitor)
     \/ ~heard[Target(Monitor)] /\ pc' = [pc EXCEPT ![Monitor] = "lock"] /\ UNCHANGED targets
  /\ UNCHANGED <<followers, open, stalled, buffered, heard, holder, closing, faults>>

\* follower.mu
Lock(a) ==
  /\ pc[a] = IF a = Monitor THEN "lock" ELSE "next"
  /\ holder[Target(a)] = NoAgent
  /\ holder' = [holder EXCEPT ![Target(a)] = a]
  /\ pc' = [pc EXCEPT ![a] = "locked"]
  /\ UNCHANGED <<followers, open, stalled, buffered, heard, targets, closing, faults>>

\* A plausible bug: a write that fails returns without unlocking.
UnlockUnlessError(x) == IF open[x] THEN [holder EXCEPT ![x] = NoAgent] ELSE holder

Unlock(x) == [holder EXCEPT ![x] = NoAgent]

\* Write waits for room; a closed connection returns an error, which is logged.
Write(a) ==
  LET x == Target(a) IN
  /\ pc[a] = "locked" /\ a # Monitor
  /\ \/ open[x] /\ buffered[x] < Buffer /\ buffered' = [buffered EXCEPT ![x] = @ + 1]
     \/ ~open[x] /\ UNCHANGED buffered
  /\ holder' = Unlock(x)
  /\ Advance(a)
  /\ UNCHANGED <<followers, open, stalled, heard, closing, faults>>

\* The connection of a silent follower is closed.
CloseDead ==
  LET x == Target(Monitor) IN
  /\ pc[Monitor] = "locked"
  /\ open' = [open EXCEPT ![x] = FALSE]
  /\ buffered' = [buffered EXCEPT ![x] = 0]
  /\ holder' = Unlock(x)
  /\ Advance(Monitor)
  /\ UNCHANGED <<followers, stalled, heard, closing, faults>>

\* ctx.Done: select may still take a tick before it.
Ends(a) ==
  /\ a \in {Beater, Monitor} /\ pc[a] = "idle" /\ closing # "no"
  /\ pc' = [pc EXCEPT ![a] = "ended"]
  /\ UNCHANGED <<followers, open, stalled, buffered, heard, holder, targets, closing, faults>>

Walk(a) == Write(a) \/ (a = Monitor /\ (Check \/ CloseDead))

CloseBegins ==
  /\ closing = "no"
  /\ closing' = "waiting"
  /\ UNCHANGED <<followers, open, stalled, buffered, heard, holder, pc, targets, faults>>

\* wg.Wait
CloseReturns ==
  /\ closing = "waiting" /\ pc[Beater] = "ended" /\ pc[Monitor] = "ended"
  /\ closing' = "done"
  /\ UNCHANGED <<followers, open, stalled, buffered, heard, holder, pc, targets, faults>>

--------------------------------------------------------------------------------
\* Followers, and the leader's handler of each.

\* processReplicationStream takes a message.
Read(x) ==
  /\ open[x] /\ ~stalled[x] /\ buffered[x] > 0
  /\ buffered' = [buffered EXCEPT ![x] = @ - 1]
  /\ UNCHANGED <<followers, open, stalled, heard, holder, pc, targets, closing, faults>>

\* A heartbeat of the follower's arrives at handleFollower.
Beat(x) ==
  /\ open[x] /\ ~stalled[x] /\ ~heard[x]
  /\ heard' = [heard EXCEPT ![x] = TRUE]
  /\ UNCHANGED <<followers, open, stalled, buffered, holder, pc, targets, closing, faults>>

\* handleFollower cannot read any more.
RemoveFollower(x) ==
  /\ ~open[x] /\ Contains(followers, x)
  /\ followers' = SelectSeq(followers, LAMBDA y : y # x)
  /\ UNCHANGED <<open, stalled, buffered, heard, holder, pc, targets, closing, faults>>

Stall(x) ==
  /\ ~stalled[x] /\ faults < MaxFaults
  /\ faults' = faults + 1
  /\ stalled' = [stalled EXCEPT ![x] = TRUE]
  /\ UNCHANGED <<followers, open, buffered, heard, holder, pc, targets, closing>>

Resume(x) ==
  /\ stalled[x]
  /\ stalled' = [stalled EXCEPT ![x] = FALSE]
  /\ UNCHANGED <<followers, open, buffered, heard, holder, pc, targets, closing, faults>>

\* 15 s of silence.
Expire(x) ==
  /\ stalled[x] /\ heard[x]
  /\ heard' = [heard EXCEPT ![x] = FALSE]
  /\ UNCHANGED <<followers, open, stalled, buffered, holder, pc, targets, closing, faults>>

\* The follower ends or TCP gives up on it.
Reset(x) ==
  /\ open[x] /\ faults < MaxFaults
  /\ faults' = faults + 1
  /\ open' = [open EXCEPT ![x] = FALSE]
  /\ buffered' = [buffered EXCEPT ![x] = 0]
  /\ UNCHANGED <<followers, stalled, heard, holder, pc, targets, closing>>

--------------------------------------------------------------------------------
Next ==
  \/ CloseBegins \/ CloseReturns
  \/ \E a \in Agent : Begin(a) \/ Walk(a) \/ Lock(a) \/ Ends(a)
  \/ \E x \in Follower :
       Read(x) \/ Beat(x) \/ RemoveFollower(x) \/ Stall(x) \/ Resume(x) \/ Expire(x) \/ Reset(x)

Spec == Init /\ [][Next]_vars

\* Goroutines are scheduled, sync.Mutex and select starve nobody, tickers tick
\* and time passes.  No client has to write, no follower to fail or to come back.
FairSpec ==
  /\ Spec
  /\ WF_vars(CloseReturns)
  /\ \A a \in {Beater, Monitor} : WF_vars(Begin(a)) /\ SF_vars(Ends(a))
  /\ \A a \in Agent : WF_vars(Walk(a)) /\ SF_vars(Lock(a))
  /\ \A x \in Follower :
       WF_vars(Read(x)) /\ WF_vars(Beat(x)) /\ WF_vars(RemoveFollower(x)) /\ WF_vars(Expire(x))

--------------------------------------------------------------------------------
\* Somebody holds the mutex of a stalled follower and waits for room.
Jammed ==
  \E x \in Follower :
    open[x] /\ stalled[x] /\ buffered[x] = Buffer /\ holder[x] \in Agent \ {Monitor}

Connected(x) == open[x] /\ ~stalled[x] /\ Contains(followers, x)

\* The leader comes to a standstill only through a Write to a stalled follower
\* (leader.go:286, 330).  Short of that every Replicate returns, and so does
\* every round of heartbeats and of the monitor; a silent follower is closed; a
\* follower that reads is sent heartbeats whatever the others do, so it has no
\* reason to call an election; and Close returns.
OnlyAStalledWriteBlocks ==
  /\ \A a \in Agent : []<>(pc[a] \in {"idle", "ended"} \/ Jammed)
  /\ \A x \in Follower : []<>(heard[x] \/ ~open[x] \/ closing # "no" \/ Jammed)
  /\ \A x \in Follower :
       <>[](Connected(x) /\ closing = "no" /\ ~Jammed) => []<><<Read(x)>>_vars
  /\ closing = "waiting" ~> (closing = "done" \/ Jammed)
================================================================================
