\* Two sales, a withdrawal and a call of the timer over two months of one day each.
SPECIFICATION ReportsSpec
CONSTANTS
  plat = plat
  m1 = m1
  m2 = m2
  k1 = k1
  none = none
  Platform = plat
  Merchant = {m1, m2}
  Marketer = {k1}
  NoMarketer = none
  Inviter <- MCInviter
  Enterprise = {m1}
  PlatformFloat = 0
  OrderPrice = {100}
  Amount = {76}
  NPayments = 2
  InitialCoupons <- MCCoupons
  NCoupons = 2
  MaxDay = 2
  MaxRuns = 1
  MonthLength <- MCMonths
  MaxWithdraws = 1
INVARIANTS
  ReportsAgree
  StatementsExplainMoney
  SameDayReleasesAreBilled
CHECK_DEADLOCK FALSE
