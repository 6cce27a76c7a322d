\* Sales, payouts with a lost answer or a crash, and two calls of the timer on three days.
SPECIFICATION TreasurySpec
CONSTANTS
  plat = plat
  m1 = m1
  k1 = k1
  none = none
  Platform = plat
  Merchant = {m1}
  Marketer = {k1}
  NoMarketer = none
  Inviter <- MCInviter
  Enterprise = {m1}
  PlatformFloat = 76
  OrderPrice = {100}
  Amount = {76}
  NPayments = 2
  InitialCoupons <- MCNoCoupons
  NCoupons = 0
  MaxFaults = 2
  NRequests = 2
  MaxDay = 3
  MaxRuns = 2
CONSTRAINT SalesAreBilled
INVARIANTS
  PayoutsAreAccounted
  BillsAreEarned
CHECK_DEADLOCK FALSE
