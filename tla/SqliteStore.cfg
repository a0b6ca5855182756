SPECIFICATION Spec
CONSTANTS
  p1 = p1  p2 = p2  link = link
  Servers = {s1, s2}
  Paths = {p1, p2}
  Names <- Names1
  Resolved <- Symlinks
  Files = {f1, f2}
  Peppers = {k1, k2}
  None = None
SYMMETRY Interchangeable
INVARIANTS
  OpenTypeOK
  OneServer
  OwnPepper
PROPERTIES
  NothingFilledIn
