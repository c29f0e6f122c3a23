\* A key is written and deleted, or deleted and written again, by one client or by
\* two at once, around the loss of a connection and an election: the follower is
\* back on a second one, and on a third, before the leader has noticed the loss of
\* the first.
CONSTANTS
  a = a
  b = b
  Key = {k1}
  Value = {v1}
  Writer = {a, b}
  Follower = {f1}
  MaxLinks = 3
  MaxWrites = 2
  MaxBreaks = 1
  MaxProbes = 1
SYMMETRY Clients
SPECIFICATION Spec
INVARIANTS
  TypeOK
  ConvergedWhileListed
\* Clients may stop writing, and then nothing is left to do.
CHECK_DEADLOCK FALSE
