CONSTANTS
  p1 = p1  p2 = p2  m1 = m1  d1 = d1  d2 = d2
  NoPayment = NoPayment
  Payments = {p1, p2}
  Merchants = {m1}
  Dates = {d1, d2}
  BankEvents = {}
  Callers = {c1, c2}
  MerchantOf <- OneMerchant
  DateOf <- OwnDay
  Direction <- Credits
  Amount <- Unit
  WellFormed = {p1, p2}
  DailyLimit <- Two
  InitialCredit <- One
SPECIFICATION Spec
SYMMETRY SymmetryOfDates
INVARIANTS
  HoldsWithinCredits
