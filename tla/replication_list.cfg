\* A connection that is lost, while it is being synchronised or after, an election,
\* and a second loss: a follower with up to four entries at once, and the monitor
\* of an earlier connection that closes a later one.  Five connections are enough
\* for every redial, so that the bound does not stop the follower.
CONSTANTS
  a = a
  b = b
  Key = {k1}
  Value = {v1}
  Writer = {a}
  Follower = {f1}
  MaxLinks = 5
  MaxWrites = 0
  MaxBreaks = 2
  MaxProbes = 1
SPECIFICATION FairSpec
INVARIANT
  EntriesMatchHandlers
PROPERTY
  FollowersResync
\* Clients may stop writing, and then nothing is left to do.
CHECK_DEADLOCK FALSE
