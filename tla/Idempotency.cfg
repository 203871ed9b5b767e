CONSTANTS
  b1 = b1  b2 = b2  b3 = b3  f1 = f1  f2 = f2
  None = None
  Requests = {r1, r2, r3}
  Keys = {k1, k2}
  Bodies = {b1, b2, b3}
  Prints = {f1, f2}
  PrintOf <- TwoPrints
  Lookups = 2
  Calls = {r1, r2, r3}
  RequestedBy <- OneMerchant
  TicksPerSecond = 3
  RateWindow = 2
  MaxRequests = 2
  MaxTime = 6
SPECIFICATION RequestsSpec
SYMMETRY Symmetry
CHECK_DEADLOCK FALSE
INVARIANTS
  PaymentsAreRecorded
  ConflictIsReadable
  WindowLimit
  RetryAfterReachesTheEnd
PROPERTY
  KeepsRegister
