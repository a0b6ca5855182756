SPECIFICATION Spec
CONSTANTS
  Cli = cli
  Pages = {page}
  Clients = {cli, page}
  Nobody = Nobody
  None = None
  MaxFailed = 2
  MaxAttempts = 2
  Payloads <- Messages
  Dirs = {d1, d2}
  MaxForeign = 2
  Invalid = {"/"}
  Devices = {"con"}
  LowerOf <- Lowercase
  WidthOf <- Widths
  MaxNameBytes = 7
SYMMETRY Interchangeable
INVARIANTS
  ReceivingTypeOK
  ToldTheTruth
  AllOrNothing
PROPERTIES
  ForeignKept
CHECK_DEADLOCK FALSE
