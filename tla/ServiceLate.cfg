SPECIFICATION Spec
CONSTANTS
  m1 = m1  m2 = m2  p1 = p1  p2 = p2  s1 = s1
  Messages = {m1}
  Readers = {r1}
  Ids = {i1}
  Pins = {p1, p2}
  PinOf <- OnePin
  SizeOf <- Byte
  TtlOf <- OneTtl
  Stripes = {s1}
  StripeOf <- OneStripe
  MaxMessages = 2
  MaxBytes = 2
  MaxFailed = 2
  Concurrency = 2
  MaxWaiting = 2
  MaxUploads = 1
  MaxIdAttempts = 2
  Durable = FALSE
  Faults = {"none"}
  Impatient = {}
  MaxTime = 1
  MaxCrashes = 0
PROPERTIES
  NeverOpenedLate
CHECK_DEADLOCK FALSE
