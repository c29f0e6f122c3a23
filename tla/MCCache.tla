--------------------------------- MODULE MCCache --------------------------------
\* Cache with lengths for four keys and two values.  All lengths differ, so
\* that a size subtracted for the wrong key or value shows in the total.
EXTENDS Cache, TLC

CONSTANTS k1, k2, k3, k4, v1, v2

MCKeyLen == [k \in Key |-> ((k1 :> 1) @@ (k2 :> 2) @@ (k3 :> 4) @@ (k4 :> 5))[k]]
MCValueLen == (v1 :> 0) @@ (v2 :> 8)
MCTTL == {-2, 0, 1}
================================================================================
