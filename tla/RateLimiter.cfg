SPECIFICATION Spec
CONSTANTS
  Requests = {q1, q2, q3, q4}
  Addresses = {"a", "b", "c", "p", "r"}
  Trusted = {"p", "r"}
  Origins <- Sources
  Unusable = Unusable
  Limit <- Limits
  Window = 3
  MaxKeys = 2
  MaxStale = 1
  MaxTime = 5
SYMMETRY Interchangeable
INVARIANTS
  CountersQueued
  BurstBounded
PROPERTIES
  LiveCountersKept
CHECK_DEADLOCK FALSE
