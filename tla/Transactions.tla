------------------------------- MODULE Transactions -----------------------------
(***************************************************************************)
(* MULTI, EXEC and DISCARD of internal/server/handler.go, next to plain     *)
(* commands of other connections.                                           *)
(*                                                                          *)
(* handleExec holds cache.mu from before its first command until it has     *)
(* replicated, logged and answered; a plain command holds it for its one    *)
(* cache operation only and logs afterwards.  Commands are validated when   *)
(* queued, by their number of arguments alone.                              *)
(*                                                                          *)
(* Abstractions: the cache is a map (recency, capacity and expiry are in    *)
(* Cache.tla); the log stands for everything a write is handed to after the *)
(* cache, the AOF and the followers, who get the same records.              *)
(***************************************************************************)
EXTENDS Integers, Sequences, FiniteSets

CONSTANTS Client, Key, Value,
          CommandsOf,    \* [Client -> the set of commands it sends]
          Role,          \* role of this node: "leader" or "follower"
          MaxCommands    \* [Client -> bound on the commands it sends], for TLC

\* args: "ok"; "count", a wrong number of arguments; "ttl", a TTL that is no
\* integer.
SetCommand(k, v, args) == [type |-> "SET", key |-> k, value |-> v, args |-> args]
KeyCommand(t, k, args) == [type |-> t, key |-> k, args |-> args]
PlainCommand(t) == [type |-> t, args |-> "ok"]

CommandType ==
  {SetCommand(k, v, x) : k \in Key, v \in Value, x \in {"ok", "count", "ttl"}}
    \cup {KeyCommand(t, k, x) : t \in {"GET", "DEL"}, k \in Key, x \in {"ok", "count"}}
    \cup {PlainCommand(t) : t \in {"DBSIZE", "PING", "PUBLISH", "MULTI", "EXEC", "DISCARD"}}

ASSUME CommandAssumption == \A c \in Client : CommandsOf[c] \subseteq CommandType
ASSUME RoleAssumption == Role \in {"leader", "follower"}
ASSUME BoundAssumption == MaxCommands \in [Client -> Nat]

VARIABLES
  cache,      \* [Key -> Value or None]
  mu,         \* who holds cache.mu across steps: a client or NoClient
  state,      \* [Client -> ConnectionState: inTransaction, commandQueue,
              \*            transactionError]
  pc,         \* [Client -> "idle", or where its handler is]
  command,    \* [Client -> the plain command being handled]
  results,    \* [Client -> what the running EXEC has collected]
  logged,     \* [Client -> how many of its queue the running EXEC has logged]
  log,        \* records handed to the AOF and to the followers
  sent,       \* [Client -> number of commands sent]
  \* History, not code:
  asked,      \* [Client -> commands the client sent between MULTI and EXEC]
  before,     \* [Client -> the cache when its EXEC took the lock]
  newest      \* [Key -> who has still to log the write that was last applied to
              \*         it; NoClient: it is logged, and last; Overtaken: it is
              \*         logged, and an older write was logged after it]

vars == <<cache, mu, state, pc, command, results, logged, log, sent, asked, before, newest>>

None == "none"
NoClient == "nobody"
Overtaken == "overtaken"
NoCommand == PlainCommand("PING")
Contents == [Key -> Value \cup {None}]
Empty == [k \in Key |-> None]

ASSUME ClientAssumption == NoClient \notin Client /\ Overtaken \notin Client

\* State outside a transaction.
Outside == [inTransaction |-> FALSE, commandQueue |-> <<>>, transactionError |-> FALSE]

Init ==
  /\ cache = Empty /\ mu = NoClient
  /\ state = [c \in Client |-> Outside]
  /\ pc = [c \in Client |-> "idle"]
  /\ command = [c \in Client |-> NoCommand]
  /\ results = [c \in Client |-> <<>>] /\ logged = [c \in Client |-> 0]
  /\ log = <<>>
  /\ sent = [c \in Client |-> 0]
  /\ asked = [c \in Client |-> <<>>] /\ before = [c \in Client |-> Empty]
  /\ newest = [k \in Key |-> NoClient]

--------------------------------------------------------------------------------
\* The commands on a map c, as the execute...Command functions run them.

SetInternal(c, k, v) == [c EXCEPT ![k] = v]
DeleteInternal(c, k) == [c EXCEPT ![k] = None]

\* A SET whose TTL does not parse is answered with an error and does nothing.
Effect(c, r) ==
  CASE r.type = "SET" /\ r.args # "ttl" -> SetInternal(c, r.key, r.value)
    [] r.type = "DEL" -> DeleteInternal(c, r.key)
    [] OTHER -> c

Response(c, r) ==
  CASE r.type = "SET" -> IF r.args = "ttl" THEN "error" ELSE "OK"
    [] r.type = "GET" -> c[r.key]
    [] OTHER -> "done"

IsWrite(r) == r.type \in {"SET", "DEL"}
WriteOn(r, k) == IsWrite(r) /\ r.key = k

\* newest once c has applied r, and once it has logged r; later: it has still to
\* log another write of the same key.
AppliedBy(c, r) ==
  IF IsWrite(r) /\ r.args # "ttl" THEN [newest EXCEPT ![r.key] = c] ELSE newest

LoggedBy(c, r, later) ==
  [newest EXCEPT ![r.key] = IF @ = c THEN (IF later THEN c ELSE NoClient)
                            ELSE IF @ = NoClient THEN Overtaken ELSE @]

--------------------------------------------------------------------------------
\* Dispatch in handleConnection.

Receive(c, r) ==
  /\ pc[c] = "idle" /\ sent[c] < MaxCommands[c]
  /\ r \in CommandsOf[c]
  /\ sent' = [sent EXCEPT ![c] = @ + 1]

canQueueCommand(r) == r.type \in {"SET", "GET", "DEL", "DBSIZE", "PING"}

Invalid(r) == r.args = "count"

\* queueCommandForTransaction.  After an error the answer is still QUEUED.
AfterQueueing(s, r) ==
  IF s.transactionError THEN s
  ELSE IF Invalid(r) THEN [s EXCEPT !.transactionError = TRUE]
  ELSE [s EXCEPT !.commandQueue = Append(@, r)]

QueueCommand(c, r) ==
  /\ Receive(c, r)
  /\ state[c].inTransaction /\ r.type \notin {"EXEC", "DISCARD"}
  /\ IF canQueueCommand(r)
     THEN /\ state' = [state EXCEPT ![c] = AfterQueueing(@, r)]
          /\ asked' = [asked EXCEPT ![c] = Append(@, r)]
     ELSE UNCHANGED <<state, asked>>
  /\ UNCHANGED <<cache, mu, pc, command, results, logged, log, before, newest>>

handleMulti(c, r) ==
  /\ Receive(c, r)
  /\ r.type = "MULTI" /\ ~state[c].inTransaction
  /\ state' = [state EXCEPT ![c] = [Outside EXCEPT !.inTransaction = TRUE]]
  /\ UNCHANGED <<cache, mu, pc, command, results, logged, log, asked, before, newest>>

\* Without MULTI the answer is an error.
handleDiscard(c, r) ==
  /\ Receive(c, r)
  /\ r.type = "DISCARD"
  /\ state' = [state EXCEPT ![c] = Outside]
  /\ asked' = [asked EXCEPT ![c] = <<>>]
  /\ UNCHANGED <<cache, mu, pc, command, results, logged, log, before, newest>>

\* EXEC up to cache.Lock(): an error without MULTI, EXECABORT after an error.
handleExec(c, r) ==
  /\ Receive(c, r)
  /\ r.type = "EXEC"
  /\ IF state[c].inTransaction /\ ~state[c].transactionError
     THEN pc' = [pc EXCEPT ![c] = "lock"] /\ UNCHANGED <<state, asked>>
     ELSE /\ state' = [state EXCEPT ![c] = Outside]
          /\ asked' = [asked EXCEPT ![c] = <<>>]
          /\ UNCHANGED pc
  /\ UNCHANGED <<cache, mu, command, results, logged, log, before, newest>>

\* A plain command outside a transaction.  Those that are answered with an
\* error, or that touch no lock, are over at once.
ReceivePlain(c, r) ==
  LET refused == \/ IsWrite(r) /\ Role = "follower"
                 \/ r.args # "ok"
                 \/ r.type \in {"PING", "PUBLISH"}
  IN
  /\ Receive(c, r)
  /\ ~state[c].inTransaction /\ r.type \notin {"MULTI", "EXEC", "DISCARD"}
  /\ IF refused THEN UNCHANGED <<pc, command>>
     ELSE pc' = [pc EXCEPT ![c] = "call"] /\ command' = [command EXCEPT ![c] = r]
  /\ UNCHANGED <<cache, mu, state, results, logged, log, asked, before, newest>>

--------------------------------------------------------------------------------
\* A plausible bug: the plain operation does not wait for the lock.
CacheCallUnlocked(c) ==
  /\ pc[c] = "call"
  /\ cache' = Effect(cache, command[c]) /\ newest' = AppliedBy(c, command[c])
  /\ pc' = [pc EXCEPT ![c] = IF IsWrite(command[c]) THEN "append" ELSE "idle"]
  /\ UNCHANGED <<mu, state, command, results, logged, log, sent, asked, before>>

\* handleSet, handleGet, handleDelete, handleDBSize: one locked operation.
CacheCall(c) ==
  /\ pc[c] = "call" /\ mu = NoClient
  /\ cache' = Effect(cache, command[c]) /\ newest' = AppliedBy(c, command[c])
  /\ pc' = [pc EXCEPT ![c] = IF IsWrite(command[c]) THEN "append" ELSE "idle"]
  /\ UNCHANGED <<mu, state, command, results, logged, log, sent, asked, before>>

\* Replicate and Append come after the unlock: another writer of the key may have
\* come in between and be ahead or behind.
AppendPlain(c) ==
  /\ pc[c] = "append"
  /\ log' = Append(log, command[c]) /\ newest' = LoggedBy(c, command[c], FALSE)
  /\ pc' = [pc EXCEPT ![c] = "idle"]
  /\ UNCHANGED <<cache, mu, state, command, results, logged, sent, asked, before>>

ExecLock(c) ==
  /\ pc[c] = "lock" /\ mu = NoClient
  /\ mu' = c
  /\ pc' = [pc EXCEPT ![c] = "run"]
  /\ before' = [before EXCEPT ![c] = cache]
  /\ UNCHANGED <<cache, state, command, results, logged, log, sent, asked, newest>>

\* One command of the queue.  DBSIZE calls GetAllKeys, which locks cache.mu for
\* reading: that has to wait for whoever holds it, the caller included.
ExecStep(c) ==
  LET queue == state[c].commandQueue
      r == queue[Len(results[c]) + 1]
  IN
  /\ pc[c] = "run" /\ Len(results[c]) < Len(queue)
  /\ r.type = "DBSIZE" => mu = NoClient
  /\ cache' = Effect(cache, r) /\ newest' = AppliedBy(c, r)
  /\ results' = [results EXCEPT ![c] = Append(@, Response(cache, r))]
  /\ UNCHANGED <<mu, state, pc, command, logged, log, sent, asked, before>>

ExecRan(c) ==
  /\ pc[c] = "run" /\ Len(results[c]) = Len(state[c].commandQueue)
  /\ pc' = [pc EXCEPT ![c] = "log"]
  /\ UNCHANGED <<cache, mu, state, command, results, logged, log, sent, asked, before, newest>>

\* A plausible bug: only SETs are replicated and logged.
LogOfSets(r) == r.type = "SET"

\* The commands that are replicated and logged, whatever they answered.
Logs(r) == IsWrite(r)

ExecLog(c) ==
  LET queue == state[c].commandQueue
      r == queue[logged[c] + 1]
      later == \E j \in (logged[c] + 2)..Len(queue) : WriteOn(queue[j], r.key)
  IN
  /\ pc[c] = "log" /\ logged[c] < Len(queue)
  /\ logged' = [logged EXCEPT ![c] = @ + 1]
  /\ IF Logs(r) THEN log' = Append(log, r) /\ newest' = LoggedBy(c, r, later)
     ELSE UNCHANGED <<log, newest>>
  /\ UNCHANGED <<cache, mu, state, pc, command, results, sent, asked, before>>

\* A plausible bug: the lock is not released.
ExecReplyKeepsLock(c) ==
  /\ pc[c] = "log" /\ logged[c] = Len(state[c].commandQueue)
  /\ state' = [state EXCEPT ![c] = Outside]
  /\ pc' = [pc EXCEPT ![c] = "idle"]
  /\ results' = [results EXCEPT ![c] = <<>>] /\ logged' = [logged EXCEPT ![c] = 0]
  /\ asked' = [asked EXCEPT ![c] = <<>>] /\ before' = [before EXCEPT ![c] = Empty]
  /\ UNCHANGED <<cache, mu, command, log, sent, newest>>

\* The answer, then the deferred Unlock and reset.
ExecReply(c) ==
  /\ pc[c] = "log" /\ logged[c] = Len(state[c].commandQueue)
  /\ mu' = NoClient
  /\ state' = [state EXCEPT ![c] = Outside]
  /\ pc' = [pc EXCEPT ![c] = "idle"]
  /\ results' = [results EXCEPT ![c] = <<>>] /\ logged' = [logged EXCEPT ![c] = 0]
  /\ asked' = [asked EXCEPT ![c] = <<>>] /\ before' = [before EXCEPT ![c] = Empty]
  /\ UNCHANGED <<cache, command, log, sent, newest>>

Work(c) ==
  \/ CacheCall(c) \/ AppendPlain(c)
  \/ ExecLock(c) \/ ExecStep(c) \/ ExecRan(c) \/ ExecLog(c) \/ ExecReply(c)

Next ==
  \E c \in Client :
    \/ Work(c)
    \/ \E r \in CommandsOf[c] :
         \/ QueueCommand(c, r) \/ handleMulti(c, r) \/ handleDiscard(c, r)
         \/ handleExec(c, r) \/ ReceivePlain(c, r)

Spec == Init /\ [][Next]_vars

\* A handler that can proceed does; sync.RWMutex does not starve a waiter.
FairSpec == Spec /\ \A c \in Client : WF_vars(Work(c)) /\ SF_vars(CacheCall(c) \/ ExecLock(c))

--------------------------------------------------------------------------------
Handling == {"idle", "call", "append", "lock", "run", "log"}

\* Only a handler inside EXEC holds the lock from one step to the next.
TypeOK ==
  /\ cache \in Contents
  /\ mu \in {NoClient} \cup {c \in Client : pc[c] \in {"run", "log"}}
  /\ state \in [Client -> [inTransaction : BOOLEAN, commandQueue : Seq(CommandType),
                           transactionError : BOOLEAN]]
  /\ pc \in [Client -> Handling]
  /\ command \in [Client -> CommandType]
  /\ results \in [Client -> Seq(Value \cup {None, "OK", "error", "done"})]
  /\ logged \in [Client -> Nat] /\ sent \in [Client -> Nat]
  /\ log \in Seq(CommandType)
  /\ asked \in [Client -> Seq(CommandType)] /\ before \in [Client -> Contents]
  /\ newest \in [Key -> Client \cup {NoClient, Overtaken}]

\* run is the succession of caches that the first Len(answers) commands of s make
\* of the cache from when nobody else touches it; answers is what they answer.
RunsAlone(run, from, s, answers) ==
  /\ run[0] = from
  /\ \A i \in 1..Len(answers) :
       run[i] = Effect(run[i - 1], s[i]) /\ answers[i] = Response(run[i - 1], s[i])

(***************************************************************************)
(* docs/api.md:144, "No other client's commands will be interleaved during  *)
(* execution", and :153, one invalid command aborts them all: an EXEC that  *)
(* has run leaves the cache, until it releases the lock, and answers what   *)
(* the commands sent since its MULTI do when run alone, none of them        *)
(* missing.                                                                 *)
(***************************************************************************)
ExecIsAtomic ==
  \A c \in Client : pc[c] = "log" =>
    /\ Len(results[c]) = Len(asked[c])
    /\ \E run \in [0..Len(asked[c]) -> Contents] :
         /\ RunsAlone(run, before[c], asked[c], results[c])
         /\ cache = run[Len(asked[c])]

\* What a restart or a follower makes of a record.  The TTL of a record that
\* did not parse was logged as 0.
Applied(r) == IF r.type = "SET" THEN r.value ELSE None

\* Read in order, l leaves v under k: the last record on a key decides.
LastOn(l, k, i) == l[i].key = k /\ \A j \in (i + 1)..Len(l) : l[j].key # k

Replays(l, k, v) ==
  /\ \A i \in 1..Len(l) : LastOn(l, k, i) => v = Applied(l[i])
  /\ (\A i \in 1..Len(l) : l[i].key # k) => v = None

(***************************************************************************)
(* docs/configuration.md:189, "Every write command is appended here for     *)
(* crash recovery": when no handler is between its cache operation and its  *)
(* append, the log replays to the cache.  The exceptions are a key of which *)
(* an EXEC has logged a SET that it had answered with an error, and a key   *)
(* whose last writer was overtaken: it logged before an earlier writer did, *)
(* who had also released cache.mu (handler.go:871), and none has written    *)
(* and logged the key in order since.                                       *)
(***************************************************************************)
LogReplaysToCache ==
  (\A c \in Client : pc[c] \in {"idle", "call", "lock"}) =>
    \A k \in Key :
      \/ Replays(log, k, cache[k])
      \/ \E i \in 1..Len(log) : log[i].key = k /\ log[i].args = "ttl"
      \/ newest[k] = Overtaken

\* An EXEC that has come to a DBSIZE and waits for the lock it holds.
WaitsForItself(c) ==
  /\ pc[c] = "run" /\ mu = c /\ Len(results[c]) < Len(state[c].commandQueue)
  /\ state[c].commandQueue[Len(results[c]) + 1].type = "DBSIZE"

(***************************************************************************)
(* docs/api.md:189, "Returns an array of responses": every command that     *)
(* reached its handler, EXEC above all, is answered, unless a DBSIZE was    *)
(* queued by some client: that EXEC locks cache.mu a second time            *)
(* (handler.go:645, cache.go:219) and everybody waits for it.               *)
(***************************************************************************)
EveryCommandAnswered ==
  \A c \in Client : pc[c] # "idle" ~> (pc[c] = "idle" \/ \E d \in Client : WaitsForItself(d))
================================================================================
