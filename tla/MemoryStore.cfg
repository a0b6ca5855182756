SPECIFICATION Spec
CONSTANTS
  m1 = m1  m2 = m2  p1 = p1
  Messages = {m1, m2}
  Ids = {i1, i2, i3}
  Pins = {p1}
  PinOf <- OnePin
  SizeOf <- Uneven
  MaxMessages = 2
  MaxBytes = 3
  MaxFailed = 2
  Times = {0, 1, 2}
  Ttls = {1, 2}
  MaxGenerations = 3
SYMMETRY Interchangeable
INVARIANTS
  MemoryTypeOK
  BytesExact
PROPERTIES
  KeepsContract
