SPECIFICATION PortalSpec
CONSTANTS
  Lists = {"payments", "ledger", "files", "deliveries"}
  Rows = {1, 2, 3}  Starts <- Opened  Leaving = {2}  Matching = {1}
  PageSize = 1  MaxInstant = 3  MaxClicks <- Clicks  Amount <- Amounts MaxFaults <- Faults
  NoList = NoList  NoDate = NoDate  Day = 1  Week = 7  Month = 30
  p1 = p1  p2 = p2  e1 = e1  t1 = t1  c1 = c1  c2 = c2  h1 = h1
  Endpoints = {p1, p2}  Events = {e1, t1}  Tests = {t1}
  Callers = {c1, c2}  Handlers = {h1}  None = None
  Searches <- Texts  States = {"all", "active"}  MaxTurns = 4
  m1 = m1  m2 = m2  pay = pay
  Merchants = {m1, m2}  Existing = m1  Statuses = {"ACTIVE", "SUSPENDED"}
  Payments = {pay}  NoMerchant = NoMerchant
  Slots = {c1, c2}  MaxRequests = 2  MaxLosses = 1  MaxKeys = 3
SYMMETRY Symmetry
\* A user may have done all that the bounds allow.
CHECK_DEADLOCK FALSE
INVARIANTS
  AnswersStayApart
  
  NothingMissed
  DeletedOnceAtATime
  QuietPageIsCurrent
  SuspensionStops
  WorkingKeyIsTold
  DrawerIsCurrent
