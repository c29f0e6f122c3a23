CONSTANT Handler = {h1, h2}
SPECIFICATION FairSpec
INVARIANTS
  TypeOK
  LeaderServesWrites
  AcknowledgedIsLogged
PROPERTIES
  BlockedOnlyByNestedRead
  StopCompletes
CHECK_DEADLOCK FALSE
