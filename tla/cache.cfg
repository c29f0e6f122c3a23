\* Four keys and room for three: every insertion can evict.  The clock allows an
\* item to expire and another to be written and to expire after it.
CONSTANTS
  k1 = k1
  k2 = k2
  k3 = k3
  k4 = k4
  v1 = v1
  v2 = v2
  Key = {k1, k2, k3, k4}
  Value = {v1, v2}
  KeyLen <- MCKeyLen
  ValueLen <- MCValueLen
  TTL <- MCTTL
  MaxSize = 3
  MaxClock = 4
SPECIFICATION Spec
INVARIANTS
  TypeOK
  ListMatchesData
  SizeBounded
  MemoryExact
  SortedByUse
PROPERTY
  EvictsLeastRecent
