\* A transaction of two commands beside a transaction or plain commands.
CONSTANTS
  a = a
  b = b
  k1 = k1
  k2 = k2
  v1 = v1
  v2 = v2
  Client = {a, b}
  Key = {k1, k2}
  Value = {v1, v2}
  CommandsOf <- SharedKey
  Role = "leader"
  MaxCommands <- Long
SPECIFICATION FairSpec
INVARIANTS
  TypeOK
  ExecIsAtomic
  LogReplaysToCache
PROPERTY
  EveryCommandAnswered
\* Clients may stop sending.
CHECK_DEADLOCK FALSE
