SPECIFICATION Spec
CONSTANTS
  Commands = {c1, c2}
  Names = {n1, n2}
  Fields = {ttl, out}
  Values = {good, bad}
  Bad <- BadTtl
  ttl = ttl  out = out  bad = bad
  None = None
  Broken = Broken
SYMMETRY Interchangeable
INVARIANTS
  ProfilesTypeOK
PROPERTIES
  NeverSpoiled
  UndoneOnlyByOverlap
CHECK_DEADLOCK FALSE
