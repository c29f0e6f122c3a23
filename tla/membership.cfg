CONSTANTS
  n1 = n1
  n2 = n2
  s1 = s1
  s2 = s2
  Pos = {0, 1, 2, 3, 4}
  Shard = {s1, s2, n2}
  StartShard = {s1, s2}
  Monitored = {n2}
  Layouts <- MCLayouts
  Threshold = 2
  MaxFlips = 3
  Server = {n1, n2}
  Self = n1
  User = {u1, u2}
  MaxRefreshes = 2
SPECIFICATION MembershipSpec
SYMMETRY Users
INVARIANTS
  RingFollowsHealth
  MovesMatchOwnership
  ConnectionsAccounted
CHECK_DEADLOCK FALSE
