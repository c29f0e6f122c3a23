\* Three writes of one key by two clients, deletions or with a TTL: before, during
\* and after a job, and overtaking each other on the way to the log.
\* GrowthFactor 1 makes the second append start a rewrite.  At one tick to the
\* second a TTL of 1 is met whole, in its last second and expired; an item without
\* an expiry is what a job makes of one in its last second.  A server with policy
\* "no" behaves as one with "everysecond" whose ticker has not fired yet.
CONSTANTS
  Key = {k1}
  Value = {v1}
  Writer = {a, b}
  TTL = {1}
  Policies = {"always", "everysecond"}
  GrowthFactor = 1
  TicksPerSecond = 1
  MaxWrites = 3
  MaxStops = 1
  MaxFaults = 1
  MaxClock = 3
SPECIFICATION Spec
SYMMETRY Clients
INVARIANTS
  TypeOK
  FilesMatchCache
  DurableUnlessAtRisk
