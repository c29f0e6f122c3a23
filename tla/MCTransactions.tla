----------------------------- MODULE MCTransactions -----------------------------
\* Client a runs transactions that write one key and read the other; client b
\* writes both, with plain commands and short transactions of its own.
EXTENDS Transactions, TLC

CONSTANTS a, b, k1, k2, v1, v2

Control == {PlainCommand(t) : t \in {"MULTI", "EXEC", "DISCARD"}}

\* Both clients write k1; among the commands a SET with an argument too many and
\* one with a TTL that is no integer.
SharedKey ==
  (a :> Control \cup {SetCommand(k1, v1, "ok"), SetCommand(k1, v1, "count"),
                      SetCommand(k1, v1, "ttl"),
                      KeyCommand("GET", k2, "ok"), KeyCommand("DEL", k1, "ok"),
                      PlainCommand("PUBLISH")})
  @@ (b :> Control \cup {SetCommand(k1, v2, "ok"), SetCommand(k2, v1, "ok"),
                         KeyCommand("GET", k1, "ok"), PlainCommand("DBSIZE")})

\* MULTI, two commands, EXEC beside MULTI, one command, EXEC.
Long == (a :> 4) @@ (b :> 3)
================================================================================
