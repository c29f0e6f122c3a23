CONSTANTS
  l = l
  f1 = f1
  f2 = f2
  Node = {l, f1, f2}
  Configs <- MCConfigs
  MaxAttempts = 2
  MaxElections = 1
  MaxFaults = 2
  MaxRestarts = 1
SPECIFICATION FairSpec
INVARIANTS
  SplitBrainOnlyIfBlind
  PriorityGoesFirst
PROPERTY
  ShardRegainsLeader
CHECK_DEADLOCK FALSE
