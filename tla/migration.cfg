CONSTANTS
  m1 = m1
  m2 = m2
  new = new
  a = a
  b = b
  Pos = {0, 1, 2, 3, 4}
  Shard = {m1, m2, new, a, b}
  Member = {m1, m2}
  Newcomer = new
  Key = {k1}
  MaxCommands = 2
  vnode <- MCVnode
  ShardOf <- MCShardOf
  MaxWrites = 2
  MaxFaults = 1
SPECIFICATION FairSpec
INVARIANTS
  LatestValueSurvives
  RingsAgree
PROPERTY
  CommandsEnd
CHECK_DEADLOCK FALSE
