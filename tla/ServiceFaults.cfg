SPECIFICATION Spec
CONSTANTS
  m1 = m1  m2 = m2  p1 = p1  p2 = p2  s1 = s1
  Messages = {m1, m2}
  Readers = {r1, r2}
  Ids = {i1, i2}
  Pins = {p1, p2}
  PinOf <- TwoPins
  SizeOf <- UnevenBytes
  TtlOf <- Ttls
  Stripes = {s1}
  StripeOf <- OneStripe
  MaxMessages = 2
  MaxBytes = 2
  MaxFailed = 2
  Concurrency = 1
  MaxWaiting = 1
  MaxUploads = 1
  MaxIdAttempts = 2
  Durable = TRUE
  Faults = {"none", "before", "after"}
  Impatient = {}
  MaxTime = 0
  MaxCrashes = 1
SYMMETRY Interchangeable
INVARIANTS
  ToldIsCharged
PROPERTIES
  KeepsPromise
CHECK_DEADLOCK FALSE
