------------------------------ MODULE MCPersistence -----------------------------
\* One key and two clients that write it.  Keys meet only in the size of the log,
\* and a rewrite or a snapshot treats each by itself, so what can happen to a key
\* happens here.
EXTENDS Persistence, TLC

Clients == Permutations(Writer)
================================================================================
