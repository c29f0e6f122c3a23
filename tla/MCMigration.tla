------------------------------ MODULE MCMigration ------------------------------
\* Two shards, a and b, of two members and a newcomer whose place lies between
\* theirs.
EXTENDS Migration, TLC

CONSTANTS m1, m2, new, a, b

MCVnode == (a :> {1}) @@ (b :> {4}) @@ (m1 :> {3}) @@ (m2 :> {0}) @@ (new :> {2})
MCShardOf == (m1 :> a) @@ (m2 :> b)
================================================================================
