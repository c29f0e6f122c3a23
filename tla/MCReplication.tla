------------------------------ MODULE MCReplication -----------------------------
\* Two connections that write the same key.
EXTENDS Replication, TLC

CONSTANTS a, b

\* Nothing tells the clients apart.
Clients == Permutations(Writer)
================================================================================
