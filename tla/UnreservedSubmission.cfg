CONSTANTS
  p1 = p1  p2 = p2  m1 = m1  d1 = d1  d2 = d2
  NoPayment = NoPayment
  Payments = {p1}
  Merchants = {m1}
  Dates = {d1}
  BankEvents = {}
  Callers = {c1, c2}
  MerchantOf <- OneMerchant
  DateOf <- SameDay
  Direction <- Credits
  Amount <- Unit
  WellFormed = {p1}
  DailyLimit <- Two
  InitialCredit <- One
SPECIFICATION Spec
INVARIANT SubmittedCreditIsReserved
