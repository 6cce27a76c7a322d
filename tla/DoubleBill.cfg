\* A second call of the timer after the bill was marked finished.
SPECIFICATION TreasurySpec
CONSTANTS
  plat = plat
  m1 = m1
  k1 = k1
  none = none
  Platform = plat
  Merchant = {m1}
  Marketer = {k1}
  NoMarketer = none
  Inviter <- MCInviter
  Enterprise = {m1}
  PlatformFloat = 0
  OrderPrice = {100}
  Amount = {76}
  NPayments = 2
  InitialCoupons <- MCNoCoupons
  NCoupons = 0
  MaxFaults = 0
  NRequests = 1
  MaxDay = 2
  MaxRuns = 2
INVARIANT OneBillADay
CHECK_DEADLOCK FALSE
