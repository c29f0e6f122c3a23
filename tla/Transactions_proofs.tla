--------------------------- MODULE Transactions_proofs --------------------------
(***************************************************************************)
(* Proofs about Transactions.tla, for every set of clients, keys and        *)
(* values, every choice of the commands each client may send, and any       *)
(* number of them: the state stays well typed, an EXEC is atomic, and the   *)
(* log replays to the cache, but for the exceptions LogReplaysToCache names.*)
(*                                                                          *)
(* Atomicity needs four facts beside itself.  cache.mu belongs to the       *)
(* client whose EXEC runs (LockOwned), so that a plain command and another  *)
(* EXEC both wait.  A connection that reaches EXEC's lock is in a           *)
(* transaction without an error (ExecWellFormed), and there the queue is    *)
(* what the client asked for (QueueIsAsked).  And what has run so far is a  *)
(* serial run of a prefix of the queue (RunSoFar), which an ExecStep        *)
(* extends by one.                                                          *)
(*                                                                          *)
(* The log is behind the cache between a write and its record.  LogInv      *)
(* says how: of a key the cache has the last write whose record the client  *)
(* that wrote last still owes, as a handler before its append or as an EXEC *)
(* that logs; if it owes none and was not overtaken, what the last record   *)
(* of the key says (InStep).  Keys with a SET that failed inside EXEC and   *)
(* is logged all the same are excused.                                      *)
(***************************************************************************)
EXTENDS Transactions, TLAPS

LockOwned == \A c \in Client : pc[c] \in {"run", "log"} <=> mu = c

ExecWellFormed ==
  \A c \in Client : pc[c] \in {"lock", "run", "log"} =>
    state[c].inTransaction /\ ~state[c].transactionError

QueueIsAsked ==
  \A c \in Client :
    /\ ~state[c].transactionError => state[c].commandQueue = asked[c]
    /\ ~state[c].inTransaction => state[c] = Outside /\ asked[c] = <<>>

\* The caches that EXEC of c has gone through, and their last, the cache.
SerialSoFar(c) ==
  \E run \in [0..Len(results[c]) -> Contents] :
    /\ RunsAlone(run, before[c], asked[c], results[c])
    /\ cache = run[Len(results[c])]

RunSoFar ==
  \A c \in Client :
    /\ pc[c] \notin {"run", "log"} => results[c] = <<>>
    /\ pc[c] \in {"run", "log"} => SerialSoFar(c)
    /\ pc[c] = "log" => Len(results[c]) = Len(asked[c])

TransactionInv ==
  TypeOK /\ LockOwned /\ ExecWellFormed /\ QueueIsAsked /\ RunSoFar

--------------------------------------------------------------------------------
\* The commands.

Answer == Value \cup {None, "OK", "error", "done"}

\* A command has a type; SET, GET and DEL name a key of the cache.
LEMMA CommandFacts ==
  ASSUME NEW r \in CommandType
  PROVE  /\ r.type \in {"SET", "GET", "DEL"} => r.key \in Key
         /\ r.type = "SET" => r.value \in Value
  <1>1. CASE r \in {SetCommand(k, v, x) : k \in Key, v \in Value, x \in {"ok", "count", "ttl"}}
    BY <1>1 DEF SetCommand
  <1>2. CASE r \in {KeyCommand(t, k, x) : t \in {"GET", "DEL"}, k \in Key, x \in {"ok", "count"}}
    BY <1>2 DEF KeyCommand
  <1>3. CASE r \in {PlainCommand(t) : t \in {"DBSIZE", "PING", "PUBLISH", "MULTI", "EXEC", "DISCARD"}}
    BY <1>3 DEF PlainCommand
  <1>4. QED
    BY <1>1, <1>2, <1>3 DEF CommandType

\* A command makes a cache of a cache.
LEMMA EffectType ==
  ASSUME NEW r \in CommandType, NEW m \in Contents
  PROVE  Effect(m, r) \in Contents
  <1>1. CASE r.type = "SET" /\ r.args # "ttl"
    <2>1. Effect(m, r) = SetInternal(m, r.key, r.value)
      BY <1>1 DEF Effect
    <2>2. QED
      BY <1>1, <2>1, CommandFacts DEF SetInternal, Contents
  <1>2. CASE r.type = "DEL"
    <2>1. Effect(m, r) = DeleteInternal(m, r.key)
      BY <1>2 DEF Effect
    <2>2. QED
      BY <1>2, <2>1, CommandFacts DEF DeleteInternal, Contents
  <1>3. CASE ~(r.type = "SET" /\ r.args # "ttl") /\ r.type # "DEL"
    BY <1>3 DEF Effect
  <1>4. QED
    BY <1>1, <1>2, <1>3

\* What a command answers.
LEMMA ResponseType ==
  ASSUME NEW r \in CommandType, NEW m \in Contents
  PROVE  Response(m, r) \in Answer
  <1>1. CASE r.type = "SET"
    BY <1>1 DEF Response, Answer
  <1>2. CASE r.type = "GET"
    <2>1. Response(m, r) = m[r.key]
      BY <1>2 DEF Response
    <2>2. QED
      BY <1>2, <2>1, CommandFacts DEF Contents, Answer
  <1>3. CASE r.type \notin {"SET", "GET"}
    BY <1>3 DEF Response, Answer
  <1>4. QED
    BY <1>1, <1>2, <1>3

\* A serial run is extended by the next command and its answer.
LEMMA RunExtended ==
  ASSUME NEW from \in Contents, NEW s \in Seq(CommandType), NEW answers \in Seq(Answer),
         Len(answers) < Len(s),
         NEW run \in [0..Len(answers) -> Contents],
         RunsAlone(run, from, s, answers),
         NEW now, now = run[Len(answers)],
         NEW r, r = s[Len(answers) + 1],
         NEW more, more = Append(answers, Response(now, r))
  PROVE  \E longer \in [0..Len(more) -> Contents] :
           RunsAlone(longer, from, s, more) /\ longer[Len(more)] = Effect(now, r)
  <1> DEFINE n == Len(answers)
             longer == [i \in 0..(n + 1) |-> IF i = n + 1 THEN Effect(now, r) ELSE run[i]]
  <1>1. n \in Nat /\ r \in CommandType /\ now \in Contents
    BY DEF RunsAlone
  <1>2. Effect(now, r) \in Contents /\ Response(now, r) \in Answer
    BY <1>1, EffectType, ResponseType
  <1>3. /\ Len(more) = n + 1 /\ more[n + 1] = Response(now, r)
        /\ \A i \in 1..n : more[i] = answers[i]
    BY <1>2
  <1>4. /\ longer \in [0..(n + 1) -> Contents]
        /\ longer[n + 1] = Effect(now, r)
        /\ \A i \in 0..n : longer[i] = run[i]
    BY <1>1, <1>2
  <1> HIDE DEF longer
  <1>5. RunsAlone(longer, from, s, more)
    <2>1. longer[0] = from
      BY <1>1, <1>4 DEF RunsAlone
    <2>2. ASSUME NEW i \in 1..(n + 1)
          PROVE  longer[i] = Effect(longer[i - 1], s[i]) /\ more[i] = Response(longer[i - 1], s[i])
      <3>1. CASE i = n + 1
        <4>1. longer[i - 1] = now
          BY <1>1, <1>4, <3>1
        <4>2. QED
          BY <1>1, <1>3, <1>4, <3>1, <4>1
      <3>2. CASE i \in 1..n
        <4>1. longer[i - 1] = run[i - 1] /\ longer[i] = run[i]
          BY <1>1, <1>4, <3>2
        <4>2. run[i] = Effect(run[i - 1], s[i]) /\ answers[i] = Response(run[i - 1], s[i])
          BY <3>2 DEF RunsAlone
        <4>3. QED
          BY <1>3, <3>2, <4>1, <4>2
      <3>3. QED
        BY <1>1, <3>1, <3>2
    <2>3. QED
      BY <1>3, <2>1, <2>2 DEF RunsAlone
  <1>6. QED
    BY <1>3, <1>4, <1>5

--------------------------------------------------------------------------------
\* The steps.

ConnectionState ==
  [inTransaction : BOOLEAN, commandQueue : Seq(CommandType), transactionError : BOOLEAN]

LEMMA InitHolds == Init => TransactionInv
  <1> SUFFICES ASSUME Init PROVE TransactionInv
    OBVIOUS
  <1>1. NoCommand \in CommandType /\ Empty \in Contents /\ Outside \in ConnectionState
    BY DEF NoCommand, CommandType, Empty, Contents, Outside, ConnectionState
  <1>2. TypeOK
    BY <1>1 DEF Init, TypeOK, Handling, ConnectionState
  <1>3. LockOwned
    BY ClientAssumption DEF Init, LockOwned
  <1>4. ExecWellFormed /\ QueueIsAsked /\ RunSoFar
    BY DEF Init, ExecWellFormed, QueueIsAsked, RunSoFar, Outside
  <1>5. QED
    BY <1>2, <1>3, <1>4 DEF TransactionInv

\* What a step does not touch of a client's run it cannot disturb.
LEMMA RunUndisturbed ==
  ASSUME NEW c \in Client, SerialSoFar(c),
         results'[c] = results[c], before'[c] = before[c], asked'[c] = asked[c], cache' = cache
  PROVE  SerialSoFar(c)'
  BY DEF SerialSoFar, RunsAlone, Contents

\* A client that sends a command runs no EXEC: of the others' runs nothing changes.
LEMMA ReceiveKeeps ==
  ASSUME TransactionInv, NEW c \in Client, pc[c] = "idle",
         \A d \in Client \ {c} : /\ pc'[d] = pc[d] /\ state'[d] = state[d] /\ asked'[d] = asked[d],
         UNCHANGED <<cache, mu, results, before>>,
         pc'[c] \in {"idle", "call", "lock"}
  PROVE  LockOwned' /\ RunSoFar'
  <1>1. LockOwned'
    BY DEF TransactionInv, LockOwned
  <1>2. RunSoFar'
    <2> SUFFICES ASSUME NEW d \in Client
                 PROVE  /\ pc'[d] \notin {"run", "log"} => results'[d] = <<>>
                        /\ pc'[d] \in {"run", "log"} => SerialSoFar(d)'
                        /\ pc'[d] = "log" => Len(results'[d]) = Len(asked'[d])
      BY DEF RunSoFar
    <2>1. CASE d = c
      BY <2>1 DEF TransactionInv, RunSoFar
    <2>2. CASE d # c
      <3>1. pc[d] \in {"run", "log"} => SerialSoFar(d)
        BY DEF TransactionInv, RunSoFar
      <3>2. SerialSoFar(d) => SerialSoFar(d)'
        BY <2>2, RunUndisturbed
      <3>3. QED
        BY <2>2, <3>1, <3>2 DEF TransactionInv, RunSoFar
    <2>3. QED
      BY <2>1, <2>2
  <1>3. QED
    BY <1>1, <1>2

LEMMA QueueCommandKeeps ==
  ASSUME TransactionInv, NEW c \in Client, NEW r \in CommandsOf[c], QueueCommand(c, r)
  PROVE  TransactionInv'
  <1>1. r \in CommandType /\ pc[c] = "idle" /\ state[c].inTransaction
    BY CommandAssumption DEF QueueCommand, Receive
  <1>2. PICK s \in ConnectionState : s = state[c]
    BY DEF TransactionInv, TypeOK, ConnectionState
  <1>3. PICK t \in ConnectionState :
          /\ t = AfterQueueing(s, r)
          /\ t.inTransaction = s.inTransaction
          /\ ~t.transactionError => /\ ~s.transactionError
                                    /\ t.commandQueue = Append(s.commandQueue, r)
    <2>1. CASE s.transactionError
      BY <1>2, <2>1 DEF AfterQueueing
    <2>2. CASE ~s.transactionError /\ Invalid(r)
      <3>1. AfterQueueing(s, r) = [s EXCEPT !.transactionError = TRUE]
        BY <2>2 DEF AfterQueueing
      <3>2. QED
        BY <1>2, <3>1 DEF ConnectionState
    <2>3. CASE ~s.transactionError /\ ~Invalid(r)
      <3>1. AfterQueueing(s, r) = [s EXCEPT !.commandQueue = Append(s.commandQueue, r)]
        BY <2>3 DEF AfterQueueing
      <3>2. Append(s.commandQueue, r) \in Seq(CommandType)
        BY <1>1, <1>2 DEF ConnectionState
      <3>3. QED
        BY <1>2, <2>3, <3>1, <3>2 DEF ConnectionState
    <2>4. QED
      BY <2>1, <2>2, <2>3
  <1>4. CASE canQueueCommand(r)
    <2>1. /\ state' = [state EXCEPT ![c] = t] /\ asked' = [asked EXCEPT ![c] = Append(@, r)]
          /\ UNCHANGED <<cache, mu, pc, command, results, logged, log, before, newest>>
          /\ sent' = [sent EXCEPT ![c] = @ + 1]
      BY <1>2, <1>3, <1>4 DEF QueueCommand, Receive
    <2>2. TypeOK'
      <3>1. state' \in [Client -> ConnectionState]
        BY <1>3, <2>1 DEF TransactionInv, TypeOK, ConnectionState
      <3>2. Append(asked[c], r) \in Seq(CommandType)
        BY <1>1 DEF TransactionInv, TypeOK
      <3>3. asked' \in [Client -> Seq(CommandType)] /\ sent' \in [Client -> Nat]
        BY <2>1, <3>2 DEF TransactionInv, TypeOK
      <3>4. QED
        BY <2>1, <3>1, <3>3 DEF TransactionInv, TypeOK, ConnectionState
    <2>3. LockOwned' /\ RunSoFar'
      BY <1>1, <2>1, ReceiveKeeps DEF TransactionInv, TypeOK
    <2>4. ExecWellFormed'
      BY <1>1, <2>1 DEF TransactionInv, TypeOK, ExecWellFormed
    <2>5. QueueIsAsked'
      BY <1>1, <1>2, <1>3, <2>1 DEF TransactionInv, TypeOK, QueueIsAsked
    <2>6. QED
      BY <2>2, <2>3, <2>4, <2>5 DEF TransactionInv
  <1>5. CASE ~canQueueCommand(r)
    <2>1. /\ UNCHANGED <<cache, mu, state, pc, command, results, logged, log, asked, before, newest>>
          /\ sent' = [sent EXCEPT ![c] = @ + 1]
      BY <1>5 DEF QueueCommand, Receive
    <2>2. TypeOK'
      BY <2>1 DEF TransactionInv, TypeOK
    <2>3. LockOwned' /\ RunSoFar'
      BY <1>1, <2>1, ReceiveKeeps DEF TransactionInv, TypeOK
    <2>4. QED
      BY <2>1, <2>2, <2>3 DEF TransactionInv, ExecWellFormed, QueueIsAsked
  <1>6. QED
    BY <1>4, <1>5

LEMMA MultiKeeps ==
  ASSUME TransactionInv, NEW c \in Client, NEW r \in CommandsOf[c], handleMulti(c, r)
  PROVE  TransactionInv'
  <1>1. /\ pc[c] = "idle" /\ ~state[c].inTransaction
        /\ UNCHANGED <<cache, mu, pc, command, results, logged, log, asked, before, newest>>
        /\ sent' = [sent EXCEPT ![c] = @ + 1]
    BY DEF handleMulti, Receive
  <1>2. PICK t \in ConnectionState :
          /\ t = [Outside EXCEPT !.inTransaction = TRUE]
          /\ t.inTransaction /\ ~t.transactionError /\ t.commandQueue = <<>>
    <2>1. /\ Outside \in ConnectionState
          /\ ~Outside.transactionError /\ Outside.commandQueue = <<>>
      BY DEF Outside, ConnectionState
    <2>2. PICK o \in ConnectionState :
            o = Outside /\ o.commandQueue = <<>> /\ ~o.transactionError
      BY <2>1
    <2>3. [o EXCEPT !.inTransaction = TRUE] \in ConnectionState
      BY DEF ConnectionState
    <2>4. QED
      BY <2>2, <2>3 DEF ConnectionState
  <1>3. state' = [state EXCEPT ![c] = t]
    BY <1>2 DEF handleMulti
  <1>4. TypeOK'
    BY <1>1, <1>2, <1>3 DEF TransactionInv, TypeOK, ConnectionState
  <1>5. LockOwned' /\ RunSoFar'
    BY <1>1, <1>3, ReceiveKeeps DEF TransactionInv, TypeOK
  <1>6. ExecWellFormed'
    BY <1>1, <1>3 DEF TransactionInv, TypeOK, ExecWellFormed
  <1>7. QueueIsAsked'
    BY <1>1, <1>2, <1>3 DEF TransactionInv, TypeOK, QueueIsAsked
  <1>8. QED
    BY <1>4, <1>5, <1>6, <1>7 DEF TransactionInv

\* DISCARD, and EXEC where it is refused, leave the transaction.
LEMMA LeavingKeeps ==
  ASSUME TransactionInv, NEW c \in Client, pc[c] = "idle",
         state' = [state EXCEPT ![c] = Outside], asked' = [asked EXCEPT ![c] = <<>>],
         sent' = [sent EXCEPT ![c] = @ + 1],
         UNCHANGED <<cache, mu, pc, command, results, logged, log, before, newest>>
  PROVE  TransactionInv'
  <1>1. /\ Outside \in ConnectionState
        /\ ~Outside.inTransaction /\ ~Outside.transactionError /\ Outside.commandQueue = <<>>
    BY DEF Outside, ConnectionState
  <1>2. TypeOK'
    BY <1>1 DEF TransactionInv, TypeOK, ConnectionState
  <1>3. LockOwned' /\ RunSoFar'
    BY ReceiveKeeps DEF TransactionInv, TypeOK
  <1>4. ExecWellFormed'
    BY DEF TransactionInv, TypeOK, ExecWellFormed
  <1>5. QueueIsAsked'
    BY <1>1 DEF TransactionInv, TypeOK, QueueIsAsked
  <1>6. QED
    BY <1>2, <1>3, <1>4, <1>5 DEF TransactionInv

LEMMA DiscardKeeps ==
  ASSUME TransactionInv, NEW c \in Client, NEW r \in CommandsOf[c], handleDiscard(c, r)
  PROVE  TransactionInv'
  BY LeavingKeeps DEF handleDiscard, Receive

LEMMA ExecKeeps ==
  ASSUME TransactionInv, NEW c \in Client, NEW r \in CommandsOf[c], handleExec(c, r)
  PROVE  TransactionInv'
  <1>1. CASE state[c].inTransaction /\ ~state[c].transactionError
    <2>1. /\ pc[c] = "idle" /\ pc' = [pc EXCEPT ![c] = "lock"]
          /\ sent' = [sent EXCEPT ![c] = @ + 1]
          /\ UNCHANGED <<cache, mu, state, command, results, logged, log, asked, before, newest>>
      BY <1>1 DEF handleExec, Receive
    <2>2. LockOwned' /\ RunSoFar'
      BY <2>1, ReceiveKeeps DEF TransactionInv, TypeOK
    <2>3. TypeOK'
      <3>1. mu' \in {NoClient} \cup {d \in Client : pc'[d] \in {"run", "log"}}
        BY <2>1 DEF TransactionInv, TypeOK
      <3>2. pc' \in [Client -> Handling]
        BY <2>1 DEF TransactionInv, TypeOK, Handling
      <3>3. QED
        BY <2>1, <3>1, <3>2 DEF TransactionInv, TypeOK
    <2>4. ExecWellFormed' /\ QueueIsAsked'
      BY <1>1, <2>1 DEF TransactionInv, TypeOK, ExecWellFormed, QueueIsAsked
    <2>5. QED
      BY <2>2, <2>3, <2>4 DEF TransactionInv
  <1>2. CASE ~(state[c].inTransaction /\ ~state[c].transactionError)
    BY <1>2, LeavingKeeps DEF handleExec, Receive
  <1>3. QED
    BY <1>1, <1>2

LEMMA PlainKeeps ==
  ASSUME TransactionInv, NEW c \in Client, NEW r \in CommandsOf[c], ReceivePlain(c, r)
  PROVE  TransactionInv'
  <1>1. r \in CommandType /\ pc[c] = "idle"
    BY CommandAssumption DEF ReceivePlain, Receive
  <1>2. /\ sent' = [sent EXCEPT ![c] = @ + 1]
        /\ UNCHANGED <<cache, mu, state, results, logged, log, asked, before, newest>>
        /\ \/ UNCHANGED <<pc, command>>
           \/ pc' = [pc EXCEPT ![c] = "call"] /\ command' = [command EXCEPT ![c] = r]
    BY DEF ReceivePlain, Receive
  <1>3. pc'[c] \in {"idle", "call"} /\ \A d \in Client \ {c} : pc'[d] = pc[d]
    BY <1>1, <1>2 DEF TransactionInv, TypeOK
  <1>4. LockOwned' /\ RunSoFar'
    BY <1>1, <1>2, <1>3, ReceiveKeeps DEF TransactionInv, TypeOK
  <1>5. TypeOK'
    <2>1. mu' \in {NoClient} \cup {d \in Client : pc'[d] \in {"run", "log"}}
      BY <1>1, <1>2, <1>3 DEF TransactionInv, TypeOK
    <2>2. pc' \in [Client -> Handling] /\ command' \in [Client -> CommandType]
      BY <1>1, <1>2 DEF TransactionInv, TypeOK, Handling
    <2>3. sent' \in [Client -> Nat]
      BY <1>2 DEF TransactionInv, TypeOK
    <2>4. UNCHANGED <<cache, state, results, logged, log, asked, before, newest>>
      BY <1>2
    <2>5. QED
      BY <2>1, <2>2, <2>3, <2>4 DEF TransactionInv, TypeOK
  <1>6. ExecWellFormed' /\ QueueIsAsked'
    BY <1>1, <1>2, <1>3 DEF TransactionInv, TypeOK, ExecWellFormed, QueueIsAsked
  <1>7. QED
    BY <1>4, <1>5, <1>6 DEF TransactionInv

--------------------------------------------------------------------------------
\* The handler at work.

\* Whoever runs an EXEC is alone: nobody else runs one, and no plain command
\* finds the lock free.
LEMMA OneRuns ==
  ASSUME LockOwned
  PROVE  /\ mu = NoClient => \A d \in Client : pc[d] \notin {"run", "log"}
         /\ \A c, d \in Client : pc[c] \in {"run", "log"} /\ pc[d] \in {"run", "log"} => c = d
  BY ClientAssumption DEF LockOwned

\* Applying and logging a command keep track of who wrote last.
Newest == [Key -> Client \cup {NoClient, Overtaken}]

LEMMA NewestTyped ==
  ASSUME newest \in Newest, NEW c \in Client, NEW r, NEW later \in BOOLEAN
  PROVE  AppliedBy(c, r) \in Newest /\ LoggedBy(c, r, later) \in Newest
  BY DEF Newest, AppliedBy, LoggedBy

LEMMA CacheCallKeeps ==
  ASSUME TransactionInv, NEW c \in Client, CacheCall(c)
  PROVE  TransactionInv'
  <1>1. \A d \in Client : pc[d] \notin {"run", "log"}
    BY OneRuns DEF CacheCall, TransactionInv
  <1>2. PICK q \in {"append", "idle"} : pc' = [pc EXCEPT ![c] = q]
    BY DEF CacheCall
  <1>3. mu = NoClient /\ UNCHANGED <<mu, state, command, results, logged, log, sent, asked, before>>
    BY DEF CacheCall
  <1>4. \A d \in Client : pc'[d] \notin {"run", "log"} /\ (pc'[d] = "lock" => pc[d] = "lock")
    BY <1>1, <1>2 DEF TransactionInv, TypeOK
  <1>5. TypeOK'
    <2>1. cache' \in Contents
      BY EffectType DEF CacheCall, TransactionInv, TypeOK
    <2>2. pc' \in [Client -> Handling]
      BY <1>2 DEF TransactionInv, TypeOK, Handling
    <2>3. newest' \in Newest
      BY NewestTyped DEF CacheCall, TransactionInv, TypeOK, Newest
    <2>4. QED
      BY <1>3, <2>1, <2>2, <2>3 DEF TransactionInv, TypeOK, Newest
  <1>6. LockOwned' /\ ExecWellFormed' /\ QueueIsAsked'
    BY <1>3, <1>4, ClientAssumption DEF TransactionInv, LockOwned, ExecWellFormed, QueueIsAsked
  <1>7. RunSoFar'
    BY <1>1, <1>3, <1>4 DEF TransactionInv, RunSoFar
  <1>8. QED
    BY <1>5, <1>6, <1>7 DEF TransactionInv

\* A step that leaves cache, lock, answers and transactions alone, and puts c
\* where it ran before or, at the end of its commands, from "run" to "log".
LEMMA BookkeepingKeeps ==
  ASSUME TransactionInv, NEW c \in Client, NEW q \in {"idle", "log"},
         pc' = [pc EXCEPT ![c] = q],
         \/ q = "idle" /\ pc[c] = "append"
         \/ q = "log" /\ pc[c] \in {"run", "log"} /\ Len(results[c]) = Len(asked[c]),
         logged' \in [Client -> Nat], log' \in Seq(CommandType), newest' \in Newest,
         UNCHANGED <<cache, mu, state, command, results, sent, asked, before>>
  PROVE  TransactionInv'
  <1>1. /\ pc' \in [Client -> Handling]
        /\ \A d \in Client : pc'[d] \in {"run", "log"} <=> pc[d] \in {"run", "log"}
        /\ \A d \in Client : pc'[d] = "lock" <=> pc[d] = "lock"
        /\ \A d \in Client : pc'[d] = "log" => pc[d] = "log" \/ Len(results[d]) = Len(asked[d])
    BY DEF TransactionInv, TypeOK, Handling
  <1>2. TypeOK'
    BY <1>1 DEF TransactionInv, TypeOK, Newest
  <1>3. LockOwned' /\ ExecWellFormed' /\ QueueIsAsked'
    BY <1>1 DEF TransactionInv, LockOwned, ExecWellFormed, QueueIsAsked
  <1>4. RunSoFar'
    <2> SUFFICES ASSUME NEW d \in Client
                 PROVE  /\ pc'[d] \notin {"run", "log"} => results'[d] = <<>>
                        /\ pc'[d] \in {"run", "log"} => SerialSoFar(d)'
                        /\ pc'[d] = "log" => Len(results'[d]) = Len(asked'[d])
      BY DEF RunSoFar
    <2>1. SerialSoFar(d) => SerialSoFar(d)'
      BY RunUndisturbed
    <2>2. QED
      BY <1>1, <2>1 DEF TransactionInv, RunSoFar
  <1>5. QED
    BY <1>2, <1>3, <1>4 DEF TransactionInv

LEMMA AppendPlainKeeps ==
  ASSUME TransactionInv, NEW c \in Client, AppendPlain(c)
  PROVE  TransactionInv'
  <1>1. log' \in Seq(CommandType) /\ logged' \in [Client -> Nat]
    BY DEF AppendPlain, TransactionInv, TypeOK
  <1>2. newest' \in Newest
    BY NewestTyped DEF AppendPlain, TransactionInv, TypeOK, Newest
  <1>3. QED
    BY <1>1, <1>2, BookkeepingKeeps DEF AppendPlain

LEMMA ExecRanKeeps ==
  ASSUME TransactionInv, NEW c \in Client, ExecRan(c)
  PROVE  TransactionInv'
  <1>1. Len(results[c]) = Len(asked[c])
    BY DEF ExecRan, TransactionInv, ExecWellFormed, QueueIsAsked
  <1>2. log' \in Seq(CommandType) /\ logged' \in [Client -> Nat] /\ newest' \in Newest
    BY DEF ExecRan, TransactionInv, TypeOK, Newest
  <1>3. QED
    BY <1>1, <1>2, BookkeepingKeeps DEF ExecRan

LEMMA ExecLogKeeps ==
  ASSUME TransactionInv, NEW c \in Client, ExecLog(c)
  PROVE  TransactionInv'
  <1>1. pc[c] = "log" /\ pc' = [pc EXCEPT ![c] = "log"] /\ Len(results[c]) = Len(asked[c])
    BY DEF ExecLog, TransactionInv, TypeOK, RunSoFar
  <1>2. PICK queue \in Seq(CommandType) : queue = state[c].commandQueue
    BY DEF TransactionInv, TypeOK
  <1>3. logged[c] \in Nat /\ logged[c] < Len(queue)
    BY <1>2 DEF ExecLog, TransactionInv, TypeOK
  <1>4. queue[logged[c] + 1] \in CommandType
    BY <1>2, <1>3
  <1>5. log' \in Seq(CommandType)
    <2>1. PICK r \in CommandType : r = queue[logged[c] + 1]
      BY <1>4
    <2>2. log' = log \/ log' = Append(log, r)
      BY <1>2, <2>1 DEF ExecLog
    <2>3. log \in Seq(CommandType)
      BY DEF TransactionInv, TypeOK
    <2>4. QED
      BY <2>2, <2>3
  <1>6. logged' \in [Client -> Nat]
    BY DEF ExecLog, TransactionInv, TypeOK
  <1>7. newest' \in Newest
    <2>1. newest' = newest \/ \E r : \E later \in BOOLEAN : newest' = LoggedBy(c, r, later)
      BY DEF ExecLog
    <2>2. QED
      BY <2>1, NewestTyped DEF TransactionInv, TypeOK, Newest
  <1>8. QED
    BY <1>1, <1>5, <1>6, <1>7, BookkeepingKeeps DEF ExecLog

LEMMA ExecLockKeeps ==
  ASSUME TransactionInv, NEW c \in Client, ExecLock(c)
  PROVE  TransactionInv'
  <1>1. /\ pc[c] = "lock" /\ mu = NoClient /\ mu' = c
        /\ pc' = [pc EXCEPT ![c] = "run"]
        /\ before' = [before EXCEPT ![c] = cache]
        /\ UNCHANGED <<cache, state, command, results, logged, log, sent, asked, newest>>
    BY DEF ExecLock
  <1>2. \A d \in Client : pc[d] \notin {"run", "log"}
    BY <1>1, OneRuns DEF TransactionInv
  <1>3. \A d \in Client : pc'[d] = IF d = c THEN "run" ELSE pc[d]
    BY <1>1 DEF TransactionInv, TypeOK
  <1>4. TypeOK'
    <2>1. pc' \in [Client -> Handling] /\ before' \in [Client -> Contents]
      BY <1>1 DEF TransactionInv, TypeOK, Handling
    <2>2. mu' \in {NoClient} \cup {d \in Client : pc'[d] \in {"run", "log"}}
      BY <1>1, <1>3
    <2>3. QED
      BY <1>1, <2>1, <2>2 DEF TransactionInv, TypeOK
  <1>5. LockOwned' /\ ExecWellFormed' /\ QueueIsAsked'
    BY <1>1, <1>2, <1>3 DEF TransactionInv, LockOwned, ExecWellFormed, QueueIsAsked
  <1>6. SerialSoFar(c)'
    <2>1. results'[c] = <<>> /\ before'[c] = cache /\ cache' = cache /\ cache \in Contents
      BY <1>1, <1>2 DEF TransactionInv, TypeOK, RunSoFar
    <2>2. PICK run : run = [i \in {0} |-> cache]
      OBVIOUS
    <2>3. Len(results'[c]) = 0 /\ 0..0 = {0}
      BY <2>1
    <2>4. run \in [0..Len(results'[c]) -> Contents] /\ run[0] = cache
      BY <2>1, <2>2, <2>3
    <2>5. RunsAlone(run, before'[c], asked'[c], results'[c])
      BY <2>1, <2>3, <2>4 DEF RunsAlone
    <2>6. QED
      BY <2>1, <2>3, <2>4, <2>5 DEF SerialSoFar, Contents
  <1>7. RunSoFar'
    BY <1>1, <1>2, <1>3, <1>6 DEF TransactionInv, RunSoFar
  <1>8. QED
    BY <1>4, <1>5, <1>7 DEF TransactionInv

LEMMA ExecStepKeeps ==
  ASSUME TransactionInv, NEW c \in Client, ExecStep(c)
  PROVE  TransactionInv'
  <1>1. /\ pc[c] = "run" /\ Len(results[c]) < Len(state[c].commandQueue)
        /\ UNCHANGED <<mu, state, pc, command, logged, log, sent, asked, before>>
    BY DEF ExecStep
  <1>2. \A d \in Client : pc[d] \in {"run", "log"} <=> d = c
    BY <1>1, OneRuns DEF TransactionInv
  <1>3. PICK s \in Seq(CommandType) : s = asked[c] /\ s = state[c].commandQueue
    BY <1>1 DEF TransactionInv, TypeOK, ExecWellFormed, QueueIsAsked
  <1>4. PICK answers \in Seq(Answer) : answers = results[c]
    BY DEF TransactionInv, TypeOK, Answer
  <1>5. PICK now \in Contents : now = cache
    BY DEF TransactionInv, TypeOK
  <1>6. PICK from \in Contents : from = before[c]
    BY DEF TransactionInv, TypeOK
  <1>7. Len(answers) \in Nat /\ Len(answers) < Len(s)
    BY <1>1, <1>3, <1>4
  <1>8. PICK r \in CommandType : r = s[Len(answers) + 1]
    BY <1>7
  <1>9. PICK more : more = Append(answers, Response(now, r))
    OBVIOUS
  <1>10. cache' = Effect(now, r) /\ results' = [results EXCEPT ![c] = more]
    BY <1>3, <1>4, <1>5, <1>8, <1>9 DEF ExecStep
  <1>11. more \in Seq(Answer) /\ cache' \in Contents
    BY <1>9, <1>10, EffectType, ResponseType
  <1>12. PICK run \in [0..Len(answers) -> Contents] :
           RunsAlone(run, from, s, answers) /\ now = run[Len(answers)]
    BY <1>1, <1>3, <1>4, <1>5, <1>6 DEF TransactionInv, RunSoFar, SerialSoFar
  <1>13. PICK longer \in [0..Len(more) -> Contents] :
           RunsAlone(longer, from, s, more) /\ longer[Len(more)] = Effect(now, r)
    BY <1>7, <1>8, <1>9, <1>12, RunExtended
  <1>14. \A d \in Client : results'[d] = IF d = c THEN more ELSE results[d]
    BY <1>10 DEF TransactionInv, TypeOK
  <1>15. TypeOK'
    <2>1. newest' \in Newest
      BY NewestTyped DEF ExecStep, TransactionInv, TypeOK, Newest
    <2>2. QED
      BY <1>1, <1>10, <1>11, <2>1 DEF TransactionInv, TypeOK, Answer, Newest
  <1>16. LockOwned' /\ ExecWellFormed' /\ QueueIsAsked'
    BY <1>1 DEF TransactionInv, LockOwned, ExecWellFormed, QueueIsAsked
  <1>17. SerialSoFar(c)'
    <2>1. results'[c] = more /\ before'[c] = from /\ asked'[c] = s
      BY <1>1, <1>3, <1>6, <1>14
    <2>2. QED
      BY <1>10, <1>13, <2>1 DEF SerialSoFar, Contents
  <1>18. RunSoFar'
    BY <1>1, <1>2, <1>14, <1>17 DEF TransactionInv, RunSoFar
  <1>19. QED
    BY <1>15, <1>16, <1>18 DEF TransactionInv

LEMMA ExecReplyKeeps ==
  ASSUME TransactionInv, NEW c \in Client, ExecReply(c)
  PROVE  TransactionInv'
  <1>1. /\ pc[c] = "log" /\ mu' = NoClient
        /\ state' = [state EXCEPT ![c] = Outside] /\ pc' = [pc EXCEPT ![c] = "idle"]
        /\ results' = [results EXCEPT ![c] = <<>>] /\ logged' = [logged EXCEPT ![c] = 0]
        /\ asked' = [asked EXCEPT ![c] = <<>>] /\ before' = [before EXCEPT ![c] = Empty]
        /\ UNCHANGED <<cache, command, log, sent, newest>>
    BY DEF ExecReply
  <1>2. \A d \in Client : pc[d] \in {"run", "log"} <=> d = c
    BY <1>1, OneRuns DEF TransactionInv
  <1>3. \A d \in Client : pc'[d] = IF d = c THEN "idle" ELSE pc[d]
    BY <1>1 DEF TransactionInv, TypeOK
  <1>4. /\ Outside \in ConnectionState /\ Empty \in Contents
        /\ ~Outside.inTransaction /\ ~Outside.transactionError /\ Outside.commandQueue = <<>>
    BY DEF Outside, ConnectionState, Empty, Contents
  <1>5. TypeOK'
    <2>1. pc' \in [Client -> Handling] /\ results' \in [Client -> Seq(Answer)]
      BY <1>1 DEF TransactionInv, TypeOK, Handling, Answer
    <2>2. state' \in [Client -> ConnectionState] /\ before' \in [Client -> Contents]
      BY <1>1, <1>4 DEF TransactionInv, TypeOK, ConnectionState
    <2>3. asked' \in [Client -> Seq(CommandType)] /\ logged' \in [Client -> Nat]
      BY <1>1 DEF TransactionInv, TypeOK
    <2>4. QED
      BY <1>1, <2>1, <2>2, <2>3 DEF TransactionInv, TypeOK, ConnectionState, Answer
  <1>6. LockOwned'
    BY <1>1, <1>2, <1>3, ClientAssumption DEF LockOwned
  <1>7. ExecWellFormed'
    BY <1>1, <1>3 DEF TransactionInv, TypeOK, ExecWellFormed
  <1>8. QueueIsAsked'
    BY <1>1, <1>4 DEF TransactionInv, TypeOK, QueueIsAsked
  <1>9. RunSoFar'
    BY <1>1, <1>2, <1>3 DEF TransactionInv, TypeOK, RunSoFar
  <1>10. QED
    BY <1>5, <1>6, <1>7, <1>8, <1>9 DEF TransactionInv

LEMMA NextKeeps == TransactionInv /\ [Next]_vars => TransactionInv'
  <1> SUFFICES ASSUME TransactionInv, [Next]_vars
               PROVE  TransactionInv'
    OBVIOUS
  <1>1. CASE Next
    <2>1. PICK c \in Client :
            \/ Work(c)
            \/ \E r \in CommandsOf[c] :
                 \/ QueueCommand(c, r) \/ handleMulti(c, r) \/ handleDiscard(c, r)
                 \/ handleExec(c, r) \/ ReceivePlain(c, r)
      BY <1>1 DEF Next
    <2>2. CASE Work(c)
      BY <2>2, CacheCallKeeps, AppendPlainKeeps, ExecLockKeeps, ExecStepKeeps, ExecRanKeeps,
         ExecLogKeeps, ExecReplyKeeps DEF Work
    <2>3. CASE \E r \in CommandsOf[c] :
                 \/ QueueCommand(c, r) \/ handleMulti(c, r) \/ handleDiscard(c, r)
                 \/ handleExec(c, r) \/ ReceivePlain(c, r)
      BY <2>3, QueueCommandKeeps, MultiKeeps, DiscardKeeps, ExecKeeps, PlainKeeps
    <2>4. QED
      BY <2>1, <2>2, <2>3
  <1>2. CASE UNCHANGED vars
    <2>1. TypeOK'
      BY <1>2 DEF vars, TransactionInv, TypeOK
    <2>2. LockOwned' /\ ExecWellFormed' /\ QueueIsAsked'
      BY <1>2 DEF vars, TransactionInv, LockOwned, ExecWellFormed, QueueIsAsked
    <2>3. RunSoFar'
      <3>1. \A d \in Client : SerialSoFar(d) => SerialSoFar(d)'
        BY <1>2, RunUndisturbed DEF vars
      <3>2. QED
        BY <1>2, <3>1 DEF vars, TransactionInv, RunSoFar
    <2>4. QED
      BY <2>1, <2>2, <2>3 DEF TransactionInv
  <1>3. QED
    BY <1>1, <1>2

LEMMA TransactionsAlways == Spec => []TransactionInv
  BY InitHolds, NextKeeps, PTL DEF Spec

--------------------------------------------------------------------------------
(***************************************************************************)
(* Every variable of the handlers keeps its type; in particular cache.mu is *)
(* held across steps only by a client whose handleExec is running or        *)
(* logging.                                                                 *)
(***************************************************************************)
THEOREM TransactionsTyped == Spec => []TypeOK
  <1>1. TransactionInv => TypeOK
    BY DEF TransactionInv
  <1>2. QED
    BY <1>1, TransactionsAlways, PTL

(***************************************************************************)
(* handleExec is atomic: while it still holds cache.mu, the cache and the   *)
(* answers are those of the commands its client asked for since MULTI, run  *)
(* alone and in order from the cache it found, with none missing; for any   *)
(* number of clients and any queue.                                         *)
(***************************************************************************)
THEOREM TransactionsAtomic == Spec => []ExecIsAtomic
  <1>1. TransactionInv => ExecIsAtomic
    BY DEF TransactionInv, RunSoFar, SerialSoFar, ExecIsAtomic
  <1>2. QED
    BY <1>1, TransactionsAlways, PTL

--------------------------------------------------------------------------------
\* The log.  It lags behind the cache by the writes that have been applied and
\* not yet logged.

\* What a handler works on its client has sent.
OwnCommands ==
  \A c \in Client :
    /\ pc[c] \in {"call", "append"} => command[c] \in CommandsOf[c] /\ command[c].args = "ok"
    /\ pc[c] = "append" => IsWrite(command[c])
    /\ \A i \in 1..Len(asked[c]) : asked[c][i] \in CommandsOf[c]

\* Logging begins when all commands have run.
LogsAfterRun ==
  \A c \in Client :
    /\ pc[c] # "log" => logged[c] = 0
    /\ logged[c] <= Len(asked[c]) /\ Len(results[c]) <= Len(asked[c])

\* The commands of the running EXEC of c that have run and are not yet logged.
Unlogged(c) == (logged[c] + 1)..Len(results[c])

Owes(c, k) ==
  \/ pc[c] = "append" /\ command[c].key = k
  \/ \E i \in Unlogged(c) : WriteOn(asked[c][i], k)

\* A SET of k that failed has been logged or will be.
Excused(k) ==
  \/ \E i \in 1..Len(log) : log[i].key = k /\ log[i].args = "ttl"
  \/ \E c \in Client : \E i \in Unlogged(c) : WriteOn(asked[c][i], k) /\ asked[c][i].args = "ttl"

\* Who wrote k last has still to log it and the cache has the last such write; or
\* the log has it.
InStep(k) ==
  /\ \A c \in Client : newest[k] = c =>
       /\ Owes(c, k)
       /\ pc[c] = "append" => cache[k] = Applied(command[c])
       /\ \A i \in Unlogged(c) :
            /\ WriteOn(asked[c][i], k)
            /\ \A j \in Unlogged(c) : j > i => ~WriteOn(asked[c][j], k)
            => cache[k] = Applied(asked[c][i])
  /\ newest[k] = NoClient => Replays(log, k, cache[k])

LogInStep == \A k \in Key : Excused(k) \/ InStep(k)
LogInv == OwnCommands /\ LogsAfterRun /\ LogInStep

\* One more record.
LEMMA ReplaysAppended ==
  ASSUME NEW l \in Seq(CommandType), NEW r \in CommandType, NEW k, NEW v
  PROVE  /\ r.key = k => Replays(Append(l, r), k, Applied(r))
         /\ r.key # k /\ Replays(l, k, v) => Replays(Append(l, r), k, v)
  <1>1. PICK n \in Nat : n = Len(l)
    OBVIOUS
  <1>2. PICK t : t = Append(l, r)
    OBVIOUS
  <1>3. Len(t) = n + 1 /\ t[n + 1] = r /\ \A i \in 1..n : t[i] = l[i]
    BY <1>1, <1>2
  <1>4. ASSUME r.key = k PROVE Replays(t, k, Applied(r))
    <2>1. ASSUME NEW i \in 1..(n + 1), LastOn(t, k, i) PROVE i = n + 1
      BY <1>3, <1>4, <2>1 DEF LastOn
    <2>2. QED
      BY <1>3, <1>4, <2>1 DEF Replays
  <1>5. ASSUME r.key # k, Replays(l, k, v) PROVE Replays(t, k, v)
    <2>1. ASSUME NEW i \in 1..(n + 1), LastOn(t, k, i) PROVE v = Applied(t[i])
      <3>1. i \in 1..n
        BY <1>3, <1>5, <2>1 DEF LastOn
      <3>2. LastOn(l, k, i)
        BY <1>1, <1>3, <2>1, <3>1 DEF LastOn
      <3>3. QED
        BY <1>1, <1>3, <1>5, <3>1, <3>2 DEF Replays
    <2>2. (\A i \in 1..(n + 1) : t[i].key # k) => v = None
      BY <1>1, <1>3, <1>5 DEF Replays
    <2>3. QED
      BY <1>3, <2>1, <2>2 DEF Replays
  <1>6. QED
    BY <1>2, <1>4, <1>5

\* A command changes the key it writes, to what its record stands for.
LEMMA EffectOnKey ==
  ASSUME NEW r \in CommandType, NEW m \in Contents, NEW k \in Key
  PROVE  /\ ~WriteOn(r, k) => Effect(m, r)[k] = m[k]
         /\ WriteOn(r, k) /\ r.args # "ttl" => Effect(m, r)[k] = Applied(r)
  <1>1. CASE r.type = "SET" /\ r.args # "ttl"
    <2>1. Effect(m, r) = [m EXCEPT ![r.key] = r.value] /\ r.key \in Key
      BY <1>1, CommandFacts DEF Effect, SetInternal
    <2>2. QED
      BY <1>1, <2>1 DEF WriteOn, IsWrite, Applied, Contents
  <1>2. CASE r.type = "DEL"
    <2>1. Effect(m, r) = [m EXCEPT ![r.key] = None] /\ r.key \in Key
      BY <1>2, CommandFacts DEF Effect, DeleteInternal
    <2>2. QED
      BY <1>2, <2>1 DEF WriteOn, IsWrite, Applied, Contents
  <1>3. CASE ~(r.type = "SET" /\ r.args # "ttl") /\ r.type # "DEL"
    <2>1. Effect(m, r) = m
      BY <1>3 DEF Effect
    <2>2. QED
      BY <1>3, <2>1 DEF WriteOn, IsWrite
  <1>4. QED
    BY <1>1, <1>2, <1>3

LEMMA LogTypes ==
  ASSUME TransactionInv, LogInv, NEW c \in Client
  PROVE  /\ results[c] \in Seq(Answer) /\ Len(results[c]) \in Nat /\ logged[c] \in Nat
         /\ asked[c] \in Seq(CommandType) /\ Len(asked[c]) \in Nat
         /\ Len(results[c]) <= Len(asked[c]) /\ Unlogged(c) \subseteq 1..Len(asked[c])
         /\ pc[c] \notin {"run", "log"} => Len(results[c]) = 0 /\ Unlogged(c) = {}
         /\ pc[c] \in {"run", "log"} => state[c].commandQueue = asked[c]
         /\ command[c] \in CommandType /\ cache \in Contents /\ log \in Seq(CommandType)
  <1>1. /\ results[c] \in Seq(Answer) /\ logged[c] \in Nat /\ asked[c] \in Seq(CommandType)
        /\ command[c] \in CommandType /\ cache \in Contents /\ log \in Seq(CommandType)
    BY DEF TransactionInv, TypeOK, Answer
  <1>2. Len(results[c]) \in Nat /\ Len(asked[c]) \in Nat
    BY <1>1
  <1>3. Len(results[c]) <= Len(asked[c])
    BY DEF LogInv, LogsAfterRun
  <1>4. Unlogged(c) \subseteq 1..Len(asked[c])
    BY <1>1, <1>2, <1>3 DEF Unlogged
  <1>5. pc[c] \notin {"run", "log"} => Len(results[c]) = 0
    BY DEF TransactionInv, RunSoFar
  <1>6. pc[c] \notin {"run", "log"} => Unlogged(c) = {}
    BY <1>1, <1>5 DEF Unlogged
  <1>7. pc[c] \in {"run", "log"} => state[c].commandQueue = asked[c]
    BY DEF TransactionInv, ExecWellFormed, QueueIsAsked
  <1>8. QED
    BY <1>1, <1>2, <1>3, <1>4, <1>5, <1>6, <1>7

\* Of the other keys newest says what it said; of r's own, who applied or logged it.
LEMMA AppliedOn ==
  ASSUME newest \in Newest, NEW c \in Client, NEW r \in CommandType, NEW k \in Key
  PROVE  /\ ~WriteOn(r, k) => AppliedBy(c, r)[k] = newest[k]
         /\ WriteOn(r, k) /\ r.args # "ttl" => AppliedBy(c, r)[k] = c
  BY DEF Newest, AppliedBy, WriteOn

LEMMA LoggedOn ==
  ASSUME newest \in Newest, NEW c \in Client, NEW r \in CommandType, NEW k \in Key, NEW later \in BOOLEAN
  PROVE  /\ IsWrite(r) /\ r.key # k => LoggedBy(c, r, later)[k] = newest[k]
         /\ r.key = k => LoggedBy(c, r, later)[k] =
              IF newest[k] = c THEN (IF later THEN c ELSE NoClient)
              ELSE IF newest[k] = NoClient THEN Overtaken ELSE newest[k]
  BY DEF Newest, LoggedBy

\* A step that applies and logs nothing.
LEMMA LogKept ==
  ASSUME TransactionInv, LogInv, NEW k \in Key, cache'[k] = cache[k], log' = log,
         newest' = newest,
         \A c \in Client :
           /\ pc'[c] = "append" <=> pc[c] = "append"
           /\ pc[c] = "append" => command'[c] = command[c]
           /\ \/ Unlogged(c) = {} /\ Unlogged(c)' = {}
              \/ Unlogged(c)' = Unlogged(c) /\ asked'[c] = asked[c]
  PROVE  Excused(k)' \/ InStep(k)'
  <1>1. \A c \in Client : Unlogged(c)' = Unlogged(c) /\ \A i \in Unlogged(c) : asked'[c][i] = asked[c][i]
    OBVIOUS
  <1>2. Excused(k) => Excused(k)'
    BY <1>1 DEF Excused
  <1>3. \A c \in Client : Owes(c, k)' <=> Owes(c, k)
    BY <1>1 DEF Owes
  <1>4. InStep(k) => InStep(k)'
    BY <1>1, <1>3 DEF InStep
  <1>5. QED
    BY <1>2, <1>4 DEF LogInv, LogInStep

LEMMA CacheCallLogs ==
  ASSUME TransactionInv, LogInv, NEW c \in Client, CacheCall(c), NEW k \in Key
  PROVE  Excused(k)' \/ InStep(k)'
  <1>1. PICK r : r = command[c]
    OBVIOUS
  <1>2. r \in CommandType /\ r.args = "ok" /\ newest \in Newest
    BY <1>1, LogTypes DEF CacheCall, LogInv, OwnCommands, TransactionInv, TypeOK, Newest
  <1>3. /\ log' = log /\ command' = command /\ cache' = Effect(cache, r) /\ pc[c] = "call"
        /\ \A d \in Client : Unlogged(d)' = Unlogged(d) /\ asked'[d] = asked[d]
        /\ \A d \in Client \ {c} : pc'[d] = pc[d]
        /\ pc'[c] = IF IsWrite(r) THEN "append" ELSE "idle"
        /\ newest' = AppliedBy(c, r)
    BY <1>1 DEF CacheCall, Unlogged, TransactionInv, TypeOK
  <1>4. Unlogged(c) = {}
    BY <1>3, LogTypes
  <1>5. CASE ~WriteOn(r, k)
    <2>1. cache'[k] = cache[k] /\ newest'[k] = newest[k]
      BY <1>2, <1>3, <1>5, LogTypes, EffectOnKey, AppliedOn
    <2>2. Excused(k) => Excused(k)'
      BY <1>3 DEF Excused
    <2>3. ~Owes(c, k) /\ \A d \in Client \ {c} : Owes(d, k) => Owes(d, k)'
      BY <1>3, <1>4 DEF Owes
    <2>4. InStep(k) => InStep(k)'
      BY <1>3, <2>1, <2>3 DEF InStep
    <2>5. QED
      BY <2>2, <2>4 DEF LogInv, LogInStep
  <1>6. CASE WriteOn(r, k)
    <2>1. cache'[k] = Applied(r) /\ newest'[k] = c
      BY <1>2, <1>3, <1>6, LogTypes, EffectOnKey, AppliedOn
    <2>2. Owes(c, k)' /\ pc'[c] = "append"
      BY <1>1, <1>3, <1>6 DEF Owes, WriteOn
    <2>3. InStep(k)'
      BY <1>1, <1>3, <1>4, <2>1, <2>2, ClientAssumption DEF InStep
    <2>4. QED
      BY <2>3
  <1>7. QED
    BY <1>5, <1>6

LEMMA AppendPlainLogs ==
  ASSUME TransactionInv, LogInv, NEW c \in Client, AppendPlain(c), NEW k \in Key
  PROVE  Excused(k)' \/ InStep(k)'
  <1>1. PICK r, l : r = command[c] /\ l = log
    OBVIOUS
  <1>2. r \in CommandType /\ IsWrite(r) /\ l \in Seq(CommandType) /\ newest \in Newest
    BY <1>1, LogTypes DEF AppendPlain, LogInv, OwnCommands, TransactionInv, TypeOK, Newest
  <1>3. /\ log' = Append(l, r) /\ command' = command /\ cache' = cache /\ pc[c] = "append"
        /\ \A d \in Client : Unlogged(d)' = Unlogged(d) /\ asked'[d] = asked[d]
        /\ \A d \in Client \ {c} : pc'[d] = pc[d]
        /\ pc'[c] = "idle" /\ newest' = LoggedBy(c, r, FALSE)
    BY <1>1 DEF AppendPlain, Unlogged, TransactionInv, TypeOK
  <1>4. Unlogged(c) = {}
    BY <1>3, LogTypes
  <1>5. Excused(k) => Excused(k)'
    <2>1. \A i \in 1..Len(l) : i \in 1..Len(log') /\ log'[i] = l[i]
      BY <1>2, <1>3
    <2>2. QED
      BY <1>1, <1>3, <2>1 DEF Excused
  <1>6. \A d \in Client \ {c} : Owes(d, k) => Owes(d, k)'
    BY <1>3 DEF Owes
  <1>7. CASE r.key # k
    <2>1. newest'[k] = newest[k]
      BY <1>2, <1>3, <1>7, LoggedOn
    <2>2. ~Owes(c, k)
      BY <1>1, <1>4, <1>7 DEF Owes
    <2>3. Replays(l, k, cache[k]) => Replays(log', k, cache[k])
      BY <1>2, <1>3, <1>7, ReplaysAppended
    <2>4. InStep(k) => InStep(k)'
      <3> SUFFICES ASSUME InStep(k) PROVE InStep(k)'
        OBVIOUS
      <3>1. newest'[k] # c
        BY <2>1, <2>2 DEF InStep
      <3>2. newest'[k] = NoClient => Replays(log', k, cache'[k])
        BY <1>1, <1>3, <2>1, <2>3 DEF InStep
      <3>3. ASSUME NEW d \in Client, newest'[k] = d
            PROVE  /\ Owes(d, k)'
                   /\ pc'[d] = "append" => cache'[k] = Applied(command'[d])
                   /\ \A i \in Unlogged(d)' :
                        /\ WriteOn(asked'[d][i], k)
                        /\ \A j \in Unlogged(d)' : j > i => ~WriteOn(asked'[d][j], k)
                        => cache'[k] = Applied(asked'[d][i])
        <4>1. d # c /\ newest[k] = d
          BY <2>1, <3>1, <3>3
        <4>2. /\ Owes(d, k)
              /\ pc[d] = "append" => cache[k] = Applied(command[d])
              /\ \A i \in Unlogged(d) :
                   /\ WriteOn(asked[d][i], k)
                   /\ \A j \in Unlogged(d) : j > i => ~WriteOn(asked[d][j], k)
                   => cache[k] = Applied(asked[d][i])
          BY <4>1 DEF InStep
        <4>3. /\ pc'[d] = pc[d] /\ command'[d] = command[d] /\ cache'[k] = cache[k]
              /\ Unlogged(d)' = Unlogged(d) /\ asked'[d] = asked[d] /\ Owes(d, k)'
          BY <1>3, <1>6, <4>1, <4>2
        <4>4. QED
          BY <4>2, <4>3
      <3>4. QED
        BY <3>2, <3>3 DEF InStep
    <2>5. QED
      BY <1>5, <2>4 DEF LogInv, LogInStep
  <1>8. CASE r.key = k
    <2>1. newest'[k] = IF newest[k] = c THEN NoClient
                       ELSE IF newest[k] = NoClient THEN Overtaken ELSE newest[k]
      <3>1. PICK later \in BOOLEAN : ~later /\ later = FALSE
        OBVIOUS
      <3>2. newest' = LoggedBy(c, r, later)
        BY <1>3, <3>1
      <3>3. QED
        BY <1>2, <1>8, <3>1, <3>2, LoggedOn
    <2>2. Replays(log', k, Applied(r))
      BY <1>2, <1>3, <1>8, ReplaysAppended
    <2>3. InStep(k) /\ newest[k] = c => cache'[k] = Applied(r)
      BY <1>1, <1>3 DEF InStep
    <2>4. newest'[k] # c
      BY <2>1, ClientAssumption
    <2>5. \A d \in Client : newest'[k] = d => newest[k] = d
      BY <2>1, ClientAssumption
    <2>6. newest'[k] = NoClient => newest[k] = c
      BY <2>1 DEF NoClient, Overtaken
    <2>7. InStep(k) => InStep(k)'
      <3> SUFFICES ASSUME InStep(k) PROVE InStep(k)'
        OBVIOUS
      <3>1. newest'[k] = NoClient => Replays(log', k, cache'[k])
        BY <2>2, <2>3, <2>6
      <3>2. ASSUME NEW d \in Client, newest'[k] = d
            PROVE  /\ Owes(d, k)'
                   /\ pc'[d] = "append" => cache'[k] = Applied(command'[d])
                   /\ \A i \in Unlogged(d)' :
                        /\ WriteOn(asked'[d][i], k)
                        /\ \A j \in Unlogged(d)' : j > i => ~WriteOn(asked'[d][j], k)
                        => cache'[k] = Applied(asked'[d][i])
        <4>1. d # c /\ newest[k] = d
          BY <2>4, <2>5, <3>2
        <4>2. /\ Owes(d, k)
              /\ pc[d] = "append" => cache[k] = Applied(command[d])
              /\ \A i \in Unlogged(d) :
                   /\ WriteOn(asked[d][i], k)
                   /\ \A j \in Unlogged(d) : j > i => ~WriteOn(asked[d][j], k)
                   => cache[k] = Applied(asked[d][i])
          BY <4>1 DEF InStep
        <4>3. /\ pc'[d] = pc[d] /\ command'[d] = command[d] /\ cache'[k] = cache[k]
              /\ Unlogged(d)' = Unlogged(d) /\ asked'[d] = asked[d] /\ Owes(d, k)'
          BY <1>3, <1>6, <4>1, <4>2
        <4>4. QED
          BY <4>2, <4>3
      <3>3. QED
        BY <3>1, <3>2 DEF InStep
    <2>8. QED
      BY <1>5, <2>7 DEF LogInv, LogInStep
  <1>9. QED
    BY <1>7, <1>8

LEMMA ExecStepLogs ==
  ASSUME TransactionInv, LogInv, NEW c \in Client, ExecStep(c), NEW k \in Key
  PROVE  Excused(k)' \/ InStep(k)'
  <1>1. PICK n, s, r : n = Len(results[c]) /\ s = asked[c] /\ r = asked[c][n + 1]
    OBVIOUS
  <1>2. /\ n \in Nat /\ s \in Seq(CommandType) /\ pc[c] = "run" /\ n < Len(s)
        /\ cache' = Effect(cache, r) /\ logged[c] = 0 /\ results[c] \in Seq(Answer)
        /\ results' = [results EXCEPT ![c] = Append(@, Response(cache, r))]
        /\ newest' = AppliedBy(c, r)
    BY <1>1, LogTypes DEF ExecStep, LogInv, LogsAfterRun
  <1>3. r \in CommandType /\ newest \in Newest
    BY <1>1, <1>2 DEF TransactionInv, TypeOK, Newest
  <1>4. UNCHANGED <<pc, command, log, logged, asked>>
    BY DEF ExecStep
  <1>5. Len(results'[c]) = n + 1
    <2>1. results'[c] = Append(results[c], Response(cache, r)) /\ Response(cache, r) \in Answer
      BY <1>2, <1>3, LogTypes, ResponseType DEF TransactionInv, TypeOK
    <2>2. QED
      BY <1>1, <1>2, <2>1
  <1>6. /\ Unlogged(c) = 1..n /\ Unlogged(c)' = 1..(n + 1)
        /\ \A d \in Client \ {c} : Unlogged(d)' = Unlogged(d)
    BY <1>1, <1>2, <1>4, <1>5 DEF Unlogged, TransactionInv, TypeOK
  <1>7. Excused(k) => Excused(k)'
    BY <1>2, <1>4, <1>6 DEF Excused
  <1>8. CASE ~WriteOn(r, k)
    <2>1. cache'[k] = cache[k] /\ newest'[k] = newest[k]
      BY <1>2, <1>3, <1>8, LogTypes, EffectOnKey, AppliedOn
    <2>2. \A i \in Unlogged(c)' : WriteOn(asked[c][i], k) => i \in Unlogged(c)
      BY <1>1, <1>2, <1>6, <1>8
    <2>3. \A d \in Client : Unlogged(d) \subseteq Unlogged(d)'
      BY <1>2, <1>6
    <2>4. \A d \in Client : Owes(d, k) => Owes(d, k)'
      BY <1>4, <2>3 DEF Owes
    <2>5. ASSUME NEW d \in Client, NEW i \in Unlogged(d)', WriteOn(asked[d][i], k),
                 \A j \in Unlogged(d)' : j > i => ~WriteOn(asked[d][j], k)
          PROVE  i \in Unlogged(d) /\ \A j \in Unlogged(d) : j > i => ~WriteOn(asked[d][j], k)
      BY <1>6, <2>2, <2>3, <2>5
    <2>6. InStep(k) => InStep(k)'
      BY <1>4, <2>1, <2>4, <2>5 DEF InStep
    <2>7. QED
      BY <1>7, <2>6 DEF LogInv, LogInStep
  <1>9. CASE WriteOn(r, k)
    <2>1. n + 1 \in Unlogged(c)' /\ WriteOn(asked'[c][n + 1], k)
      BY <1>1, <1>2, <1>4, <1>6, <1>9
    <2>2. CASE r.args = "ttl"
      BY <1>1, <1>4, <2>1, <2>2 DEF Excused
    <2>3. CASE r.args # "ttl"
      <3>1. cache'[k] = Applied(r) /\ newest'[k] = c
        BY <1>2, <1>3, <1>9, <2>3, LogTypes, EffectOnKey, AppliedOn
      <3>2. ASSUME NEW i \in Unlogged(c)', \A j \in Unlogged(c)' : j > i => ~WriteOn(asked'[c][j], k)
            PROVE  i = n + 1
        BY <1>2, <1>6, <2>1, <3>2
      <3>3. Owes(c, k)' /\ pc'[c] # "append"
        BY <1>2, <1>4, <2>1 DEF Owes
      <3>4. QED
        BY <1>1, <1>4, <3>1, <3>2, <3>3, ClientAssumption DEF InStep
    <2>4. QED
      BY <2>2, <2>3
  <1>10. QED
    BY <1>8, <1>9

LEMMA ExecLogLogs ==
  ASSUME TransactionInv, LogInv, NEW c \in Client, ExecLog(c), NEW k \in Key
  PROVE  Excused(k)' \/ InStep(k)'
  <1>1. PICK m, n, l, r : m = logged[c] /\ n = Len(results[c]) /\ l = log /\ r = asked[c][m + 1]
    OBVIOUS
  <1>2. PICK later \in BOOLEAN : later = \E j \in (m + 2)..n : WriteOn(asked[c][j], r.key)
    OBVIOUS
  <1>3. /\ m \in Nat /\ n \in Nat /\ n = Len(asked[c]) /\ pc[c] = "log" /\ m < n
        /\ logged' = [logged EXCEPT ![c] = m + 1]
        /\ asked[c] \in Seq(CommandType) /\ l \in Seq(CommandType) /\ newest \in Newest
    BY <1>1, LogTypes DEF ExecLog, TransactionInv, TypeOK, RunSoFar, Newest
  <1>4. IF IsWrite(r) THEN log' = Append(l, r) /\ newest' = LoggedBy(c, r, later)
        ELSE log' = l /\ newest' = newest
    BY <1>1, <1>2, <1>3, LogTypes DEF ExecLog, Logs
  <1>5. r \in CommandType
    BY <1>1, <1>3
  <1>6. UNCHANGED <<cache, pc, command, results, asked>>
    BY DEF ExecLog
  <1>7. /\ Unlogged(c) = (m + 1)..n /\ Unlogged(c)' = (m + 2)..n
        /\ \A d \in Client \ {c} : Unlogged(d)' = Unlogged(d)
    <2>1. logged'[c] = m + 1 /\ \A d \in Client \ {c} : logged'[d] = logged[d]
      BY <1>3 DEF TransactionInv, TypeOK
    <2>2. Unlogged(c)' = ((m + 1) + 1)..n
      BY <1>1, <1>6, <2>1 DEF Unlogged
    <2>3. QED
      BY <1>1, <1>3, <1>6, <2>1, <2>2 DEF Unlogged
  <1>8. Unlogged(c) = Unlogged(c)' \cup {m + 1}
    BY <1>3, <1>7
  <1>9. Excused(k) => Excused(k)'
    <2>1. \A i \in 1..Len(l) : i \in 1..Len(log') /\ log'[i] = l[i]
      BY <1>3, <1>4, <1>5
    <2>2. WriteOn(r, k) => Len(l) + 1 \in 1..Len(log') /\ log'[Len(l) + 1] = r /\ r.key = k
      BY <1>3, <1>4, <1>5 DEF WriteOn
    <2>3. \A d \in Client : \A i \in Unlogged(d) :
            i \in Unlogged(d)' \/ (d = c /\ asked[d][i] = r)
      BY <1>1, <1>7, <1>8
    <2>4. QED
      BY <1>1, <1>6, <2>1, <2>2, <2>3 DEF Excused
  <1>10. CASE ~WriteOn(r, k)
    <2>1. Replays(l, k, cache[k]) => Replays(log', k, cache[k])
      BY <1>3, <1>4, <1>5, <1>10, ReplaysAppended DEF WriteOn
    <2>2. \A i \in Unlogged(c) : WriteOn(asked[c][i], k) => i \in Unlogged(c)'
      BY <1>1, <1>8, <1>10
    <2>3. \A d \in Client : Owes(d, k) => Owes(d, k)'
      BY <1>6, <1>7, <2>2 DEF Owes
    <2>4. ASSUME NEW d \in Client, NEW i \in Unlogged(d)',
                 \A j \in Unlogged(d)' : j > i => ~WriteOn(asked[d][j], k)
          PROVE  i \in Unlogged(d) /\ \A j \in Unlogged(d) : j > i => ~WriteOn(asked[d][j], k)
      BY <1>7, <1>8, <2>2, <2>4
    <2>5. newest'[k] = newest[k]
      BY <1>3, <1>4, <1>5, <1>10, LoggedOn DEF WriteOn
    <2>6. InStep(k) => InStep(k)'
      BY <1>1, <1>6, <2>1, <2>3, <2>4, <2>5 DEF InStep
    <2>7. QED
      BY <1>9, <2>6 DEF LogInv, LogInStep
  <1>11. CASE WriteOn(r, k)
    <2>1. Replays(log', k, Applied(r))
      BY <1>3, <1>4, <1>5, <1>11, ReplaysAppended DEF WriteOn
    <2>2. newest'[k] = IF newest[k] = c THEN (IF later THEN c ELSE NoClient)
                       ELSE IF newest[k] = NoClient THEN Overtaken ELSE newest[k]
      BY <1>3, <1>4, <1>5, <1>11, LoggedOn DEF WriteOn
    <2>3. \A d \in Client : newest'[k] = d => newest[k] = d /\ (d = c => later)
      BY <2>2, ClientAssumption
    <2>4. newest'[k] = NoClient => newest[k] = c /\ ~later
      BY <2>2, ClientAssumption DEF NoClient, Overtaken
    <2>5. later = \E j \in Unlogged(c)' : WriteOn(asked[c][j], k)
      BY <1>2, <1>7, <1>11 DEF WriteOn
    <2>6. \A d \in Client \ {c} : Owes(d, k) => Owes(d, k)'
      BY <1>6, <1>7 DEF Owes
    <2>7. later => Owes(c, k)'
      BY <1>6, <2>5 DEF Owes
    <2>8. ASSUME NEW d \in Client, NEW i \in Unlogged(d)', WriteOn(asked[d][i], k),
                 \A j \in Unlogged(d)' : j > i => ~WriteOn(asked[d][j], k)
          PROVE  i \in Unlogged(d) /\ \A j \in Unlogged(d) : j > i => ~WriteOn(asked[d][j], k)
      BY <1>3, <1>7, <1>8, <2>8
    <2>9. ASSUME InStep(k), newest[k] = c, ~later PROVE cache[k] = Applied(r)
      <3>1. m + 1 \in Unlogged(c) /\ \A j \in Unlogged(c) : j > m + 1 => ~WriteOn(asked[c][j], k)
        BY <1>3, <1>7, <1>8, <2>5, <2>9
      <3>2. QED
        BY <1>1, <1>11, <2>9, <3>1 DEF InStep
    <2>10. InStep(k) => InStep(k)'
      <3> SUFFICES ASSUME InStep(k) PROVE InStep(k)'
        OBVIOUS
      <3>1. newest'[k] = NoClient => Replays(log', k, cache'[k])
        BY <1>6, <2>1, <2>4, <2>9
      <3>2. ASSUME NEW d \in Client, newest'[k] = d
            PROVE  /\ Owes(d, k)'
                   /\ pc'[d] = "append" => cache'[k] = Applied(command'[d])
                   /\ \A i \in Unlogged(d)' :
                        /\ WriteOn(asked'[d][i], k)
                        /\ \A j \in Unlogged(d)' : j > i => ~WriteOn(asked'[d][j], k)
                        => cache'[k] = Applied(asked'[d][i])
        BY <1>6, <2>3, <2>6, <2>7, <2>8, <3>2 DEF InStep
      <3>3. QED
        BY <3>1, <3>2 DEF InStep
    <2>11. QED
      BY <1>9, <2>10 DEF LogInv, LogInStep
  <1>12. QED
    BY <1>10, <1>11

\* The other steps apply nothing and log nothing.
LEMMA ReceiveLogs ==
  ASSUME TransactionInv, LogInv, NEW c \in Client, NEW r \in CommandsOf[c],
         \/ QueueCommand(c, r) \/ handleMulti(c, r) \/ handleDiscard(c, r)
         \/ handleExec(c, r) \/ ReceivePlain(c, r)
  PROVE  LogInv'
  <1>1. /\ pc[c] = "idle" /\ UNCHANGED <<cache, log, logged, results, newest>>
        /\ pc' = pc \/ pc' = [pc EXCEPT ![c] = "lock"] \/ pc' = [pc EXCEPT ![c] = "call"]
        /\ asked' = asked \/ asked' = [asked EXCEPT ![c] = <<>>] \/ asked' = [asked EXCEPT ![c] = Append(@, r)]
        /\ \/ command' = command /\ pc'[c] # "call"
           \/ command' = [command EXCEPT ![c] = r] /\ pc'[c] = "call" /\ r.args = "ok"
    BY DEF QueueCommand, handleMulti, handleDiscard, handleExec, ReceivePlain, Receive, TransactionInv, TypeOK
  <1>2. \A d \in Client \ {c} : pc'[d] = pc[d] /\ asked'[d] = asked[d] /\ command'[d] = command[d]
    BY <1>1 DEF TransactionInv, TypeOK
  <1>3. pc'[c] \in {"idle", "lock", "call"} /\ r \in CommandType
    BY <1>1, CommandAssumption DEF TransactionInv, TypeOK
  <1>4. \A d \in Client : Unlogged(d)' = Unlogged(d) /\ (Unlogged(d) = {} \/ asked'[d] = asked[d])
    <2>1. Unlogged(c) = {}
      BY <1>1, LogTypes
    <2>2. QED
      BY <1>1, <1>2, <2>1 DEF Unlogged
  <1>5. asked'[c] = asked[c] \/ asked'[c] = <<>> \/ asked'[c] = Append(asked[c], r)
    BY <1>1 DEF TransactionInv, TypeOK
  <1>6. OwnCommands'
    <2> SUFFICES ASSUME NEW d \in Client
                 PROVE  /\ pc'[d] \in {"call", "append"} => command'[d] \in CommandsOf[d] /\ command'[d].args = "ok"
                        /\ pc'[d] = "append" => IsWrite(command'[d])
                        /\ \A i \in 1..Len(asked'[d]) : asked'[d][i] \in CommandsOf[d]
      BY DEF OwnCommands
    <2>1. CASE d # c
      BY <1>2, <2>1 DEF LogInv, OwnCommands
    <2>2. CASE d = c
      <3>1. \A i \in 1..Len(asked'[c]) : asked'[c][i] \in CommandsOf[c]
        <4>1. asked[c] \in Seq(CommandType) /\ \A i \in 1..Len(asked[c]) : asked[c][i] \in CommandsOf[c]
          BY LogTypes DEF LogInv, OwnCommands
        <4>2. ASSUME NEW t, t = Append(asked[c], r) PROVE \A i \in 1..Len(t) : t[i] \in CommandsOf[c]
          <5>1. \A i \in 1..Len(t) : (i \in 1..Len(asked[c]) /\ t[i] = asked[c][i]) \/ t[i] = r
            BY <1>3, <4>1, <4>2
          <5>2. QED
            BY <4>1, <5>1
        <4>3. QED
          BY <1>5, <4>1, <4>2
      <3>2. pc'[c] = "call" => command'[c] = r /\ r.args = "ok"
        BY <1>1 DEF TransactionInv, TypeOK
      <3>3. QED
        BY <1>3, <2>2, <3>1, <3>2
    <2>3. QED
      BY <2>1, <2>2
  <1>7. LogsAfterRun'
    <2>1. logged[c] = 0 /\ Len(results[c]) = 0 /\ asked[c] \in Seq(CommandType)
      BY <1>1, LogTypes DEF LogInv, LogsAfterRun
    <2>2. Len(asked'[c]) \in Nat
      BY <1>3, <1>5, <2>1
    <2>3. QED
      BY <1>1, <1>2, <1>3, <2>1, <2>2 DEF LogInv, LogsAfterRun
  <1>8. LogInStep'
    <2> SUFFICES ASSUME NEW k \in Key PROVE Excused(k)' \/ InStep(k)'
      BY DEF LogInStep
    <2>1. \A d \in Client : (pc'[d] = "append" <=> pc[d] = "append") /\ (pc[d] = "append" => command'[d] = command[d])
      BY <1>1, <1>2, <1>3
    <2>2. QED
      BY <1>1, <1>4, <2>1, LogKept
  <1>9. QED
    BY <1>6, <1>7, <1>8 DEF LogInv

\* A handler at work keeps to what its client sent, and logs after it has run.
LEMMA WorkInOrder ==
  ASSUME TransactionInv, LogInv, NEW c \in Client, Work(c)
  PROVE  OwnCommands' /\ LogsAfterRun'
  <1>1. /\ asked' = asked \/ asked' = [asked EXCEPT ![c] = <<>>]
        /\ \A d \in Client \ {c} : /\ pc'[d] = pc[d] /\ asked'[d] = asked[d] /\ logged'[d] = logged[d]
                                   /\ results'[d] = results[d]
        /\ command' = command
        /\ pc'[c] # "call"
        /\ pc'[c] = "append" => pc[c] = "call" /\ IsWrite(command[c])
    BY DEF Work, CacheCall, AppendPlain, ExecLock, ExecStep, ExecRan, ExecLog, ExecReply, TransactionInv, TypeOK
  <1>2. OwnCommands'
    <2>1. \A d \in Client : asked'[d] = asked[d] \/ asked'[d] = <<>>
      BY <1>1 DEF TransactionInv, TypeOK
    <2>2. \A d \in Client : \A i \in 1..Len(asked'[d]) : asked'[d][i] \in CommandsOf[d]
      BY <2>1 DEF LogInv, OwnCommands
    <2>3. QED
      BY <1>1, <2>2 DEF LogInv, OwnCommands
  <1>3. /\ pc'[c] # "log" => logged'[c] = 0
        /\ logged'[c] <= Len(asked'[c]) /\ Len(results'[c]) <= Len(asked'[c])
    <2>1. /\ logged[c] \in Nat /\ Len(results[c]) \in Nat /\ Len(asked[c]) \in Nat /\ results[c] \in Seq(Answer)
          /\ logged[c] <= Len(asked[c]) /\ Len(results[c]) <= Len(asked[c])
          /\ pc[c] # "log" => logged[c] = 0
          /\ pc[c] \in {"run", "log"} => state[c].commandQueue = asked[c]
      BY LogTypes DEF LogInv, LogsAfterRun
    <2>2. CASE CacheCall(c) \/ AppendPlain(c) \/ ExecLock(c) \/ ExecRan(c)
      BY <2>1, <2>2 DEF CacheCall, AppendPlain, ExecLock, ExecRan, TransactionInv, TypeOK
    <2>3. CASE ExecStep(c)
      <3>1. /\ pc[c] = "run" /\ Len(results[c]) < Len(asked[c]) /\ UNCHANGED <<pc, logged, asked>>
            /\ \E x : results'[c] = Append(results[c], x)
        BY <2>1, <2>3 DEF ExecStep, TransactionInv, TypeOK
      <3>2. PICK x : results'[c] = Append(results[c], x)
        BY <3>1
      <3>3. Len(results'[c]) = Len(results[c]) + 1
        BY <2>1, <3>2
      <3>4. QED
        BY <2>1, <3>1, <3>3
    <2>4. CASE ExecLog(c)
      BY <2>1, <2>4 DEF ExecLog, TransactionInv, TypeOK
    <2>5. CASE ExecReply(c)
      <3>1. logged'[c] = 0 /\ results'[c] = <<>> /\ asked'[c] = <<>>
        BY <2>5 DEF ExecReply, TransactionInv, TypeOK
      <3>2. QED
        BY <3>1
    <2>6. QED
      BY <2>2, <2>3, <2>4, <2>5 DEF Work
  <1>4. LogsAfterRun'
    BY <1>1, <1>3 DEF LogInv, LogsAfterRun
  <1>5. QED
    BY <1>2, <1>4

LEMMA WorkLogs ==
  ASSUME TransactionInv, LogInv, NEW c \in Client, Work(c)
  PROVE  LogInStep'
  <1> SUFFICES ASSUME NEW k \in Key PROVE Excused(k)' \/ InStep(k)'
    BY DEF LogInStep
  <1>1. CASE ExecLock(c) \/ ExecRan(c) \/ ExecReply(c)
    <2>1. /\ cache' = cache /\ log' = log /\ command' = command /\ newest' = newest
          /\ \A d \in Client : pc'[d] = "append" <=> pc[d] = "append"
      BY <1>1 DEF ExecLock, ExecRan, ExecReply, TransactionInv, TypeOK
    <2>2. CASE ExecLock(c) \/ ExecRan(c)
      <3>1. \A d \in Client : Unlogged(d)' = Unlogged(d) /\ asked'[d] = asked[d]
        BY <2>2 DEF ExecLock, ExecRan, Unlogged
      <3>2. QED
        BY <2>1, <3>1, LogKept
    <2>3. CASE ExecReply(c)
      <3>1. \A d \in Client \ {c} : Unlogged(d)' = Unlogged(d) /\ asked'[d] = asked[d]
        BY <2>3 DEF ExecReply, Unlogged, TransactionInv, TypeOK
      <3>2. logged[c] = Len(asked[c]) /\ logged'[c] = 0 /\ results'[c] = <<>>
        BY <2>3, LogTypes DEF ExecReply, TransactionInv, TypeOK
      <3>3. Unlogged(c) = {}
        BY <3>2, LogTypes DEF Unlogged
      <3>4. Unlogged(c)' = {}
        <4>1. Len(results'[c]) = 0
          BY <3>2
        <4>2. Unlogged(c)' = (0 + 1)..0
          BY <3>2, <4>1 DEF Unlogged
        <4>3. QED
          BY <4>2
      <3>5. QED
        BY <2>1, <3>1, <3>3, <3>4, LogKept
    <2>4. QED
      BY <1>1, <2>2, <2>3
  <1>2. QED
    BY <1>1, CacheCallLogs, AppendPlainLogs, ExecStepLogs, ExecLogLogs DEF Work

(***************************************************************************)
(* When no handler is between its cache operation and its append, what was  *)
(* logged replays to the cache, whoever writes which key; the exceptions    *)
(* are a key of which EXEC logged a SET that had failed, and a key whose    *)
(* last writer, plain or EXEC, was overtaken on the way from the cache to   *)
(* the log (handler.go:871) by none but an earlier one.                     *)
(***************************************************************************)
THEOREM LogStandsForCache == Spec => []LogReplaysToCache
  <1>1. Init => LogInv
    <2> SUFFICES ASSUME Init PROVE LogInv
      OBVIOUS
    <2>1. \A c \in Client : /\ pc[c] = "idle" /\ Len(asked[c]) = 0 /\ Len(results[c]) = 0 /\ logged[c] = 0
      BY DEF Init
    <2>2. OwnCommands /\ LogsAfterRun
      BY <2>1 DEF OwnCommands, LogsAfterRun
    <2>3. \A c \in Client : Unlogged(c) = {}
      BY <2>1 DEF Unlogged
    <2>4. \A k \in Key : Replays(log, k, cache[k])
      BY DEF Init, Replays, Empty
    <2>5. \A k \in Key : InStep(k)
      BY <2>4, ClientAssumption DEF Init, InStep
    <2>6. QED
      BY <2>2, <2>5 DEF LogInv, LogInStep
  <1>2. TransactionInv /\ LogInv /\ [Next]_vars => LogInv'
    <2> SUFFICES ASSUME TransactionInv, LogInv, [Next]_vars PROVE LogInv'
      OBVIOUS
    <2>1. CASE UNCHANGED vars
      BY <2>1 DEF vars, LogInv, OwnCommands, LogsAfterRun, LogInStep, Excused, InStep, Owes, Unlogged
    <2>2. ASSUME NEW c \in Client, Work(c) PROVE LogInv'
      BY <2>2, WorkInOrder, WorkLogs DEF LogInv
    <2>3. QED
      BY <2>1, <2>2, ReceiveLogs DEF Next
  <1>3. TransactionInv /\ LogInv => LogReplaysToCache
    <2> SUFFICES ASSUME TransactionInv, LogInv, \A c \in Client : pc[c] \in {"idle", "call", "lock"}, NEW k \in Key
                 PROVE  \/ Replays(log, k, cache[k])
                        \/ \E i \in 1..Len(log) : log[i].key = k /\ log[i].args = "ttl"
                        \/ newest[k] = Overtaken
      BY DEF LogReplaysToCache
    <2>1. \A c \in Client : Unlogged(c) = {} /\ pc[c] # "append"
      BY LogTypes
    <2>2. \A c \in Client : ~Owes(c, k)
      BY <2>1 DEF Owes
    <2>3. newest[k] \in Client \cup {NoClient, Overtaken}
      BY DEF TransactionInv, TypeOK
    <2>4. QED
      BY <2>1, <2>2, <2>3 DEF LogInv, LogInStep, Excused, InStep
  <1>4. QED
    BY <1>1, <1>2, <1>3, TransactionsAlways, PTL DEF Spec
================================================================================
