\* Two followers, so that one can be stalled before or after the other in the list.
CONSTANTS
  Follower = {f1, f2}
  Client = {c}
  Buffer = 1
  MaxFaults = 1
SPECIFICATION FairSpec
PROPERTY
  OnlyAStalledWriteBlocks
CHECK_DEADLOCK FALSE
