SPECIFICATION FairSpec
CONSTANTS
  m1 = m1  m2 = m2  p1 = p1  p2 = p2  s1 = s1
  Messages = {m1}
  Readers = {r1, r2}
  Ids = {i1}
  Pins = {p1, p2}
  PinOf <- OnePin
  SizeOf <- Byte
  TtlOf <- OneTtl
  Stripes = {s1}
  StripeOf <- OneStripe
  MaxMessages = 2
  MaxBytes = 2
  MaxFailed = 1
  Concurrency = 1
  MaxWaiting = 1
  MaxUploads = 1
  MaxIdAttempts = 2
  Durable = FALSE
  Faults = {"none", "before"}
  Impatient = {m1, r1}
  MaxTime = 1
  MaxCrashes = 1
INVARIANTS
  SlotsConserved
PROPERTIES
  RequestsFinish
  ExpiredRowsGo
CHECK_DEADLOCK FALSE
