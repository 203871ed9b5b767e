CONSTANTS
  p1 = p1  p2 = p2  m1 = m1  d1 = d1  d2 = d2
  NoPayment = NoPayment
  Payments = {p1, p2}
  Merchants = {m1}
  Dates = {d1}
  BankEvents = {b1}
  Callers = {c1, c2}
  MerchantOf <- OneMerchant
  DateOf <- SameDay
  Direction <- DebitAndCredit
  Amount <- Unit
  WellFormed = {p1, p2}
  DailyLimit <- One
  InitialCredit <- One
SPECIFICATION Spec
SYMMETRY Symmetry
INVARIANTS
  UsageWithinLimit
  NachaBatchUndisturbed
  StatusMatchesLedger
  ExportedOnce
  NoHoldAfterSettlement
  CompletedMeansDecided
  BankEventsAreSettled
PROPERTY
  UsageCountsEach
