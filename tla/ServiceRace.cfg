SPECIFICATION Spec
CONSTANTS
  m1 = m1  m2 = m2  p1 = p1  p2 = p2  s1 = s1
  Messages = {m1, m2}
  Readers = {r1, r2, r3}
  Ids = {i1}
  Pins = {p1, p2}
  PinOf <- TwoPins
  SizeOf <- OneByte
  TtlOf <- Ttls
  Stripes = {s1}
  StripeOf <- OneStripe
  MaxMessages = 2
  MaxBytes = 2
  MaxFailed = 2
  Concurrency = 1
  MaxWaiting = 1
  MaxUploads = 1
  MaxIdAttempts = 2
  Durable = FALSE
  Faults = {"none"}
  Impatient = {}
  MaxTime = 1
  MaxCrashes = 0
SYMMETRY Interchangeable
INVARIANTS
  TypeOK
  OpenedOnce
  OpenedWithItsPin
  ChargedByItsOwnGuesses
  GuessesBounded
  StoredOnce
  LockHeld
  ArrivedInTime
PROPERTIES
  NothingVanishesEarly
CHECK_DEADLOCK FALSE
