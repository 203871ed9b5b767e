CONSTANTS
  Payments = {1, 2, 3}
  Merchants = {1, 2}
  Direction <- MC_Direction
  Amount <- MC_Amount
  Routing <- MC_Routing
  MerchantOf <- MC_MerchantOf
  MaxTick = 2
  Day = 1
  Week = 2
  Month = 3
  InitialCredit = 8
  BlockSize = 4
  FieldRange = 10
  MaxEntries = 5
  Everyone = Everyone
  None = None
  NoDate = NoDate
SPECIFICATION Spec
INVARIANTS
  BalanceBesideEntry
  BalancesAgree
  DashboardMatchesLists
  DownloadIsGenerated
  FileRowsAgree
\* Every payment may have ended.
CHECK_DEADLOCK FALSE
