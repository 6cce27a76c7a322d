\* Three connections, one payment with or without a coupon.
SPECIFICATION LockSpec
CONSTANTS
  plat = plat
  m1 = m1
  m2 = m2
  k1 = k1
  none = none
  t1 = t1
  t2 = t2
  t3 = t3
  Platform = plat
  Merchant <- MCMerchant
  Marketer <- MCMarketer
  NoMarketer = none
  Inviter <- MCInviter
  Enterprise = {}
  PlatformFloat = 0
  OrderPrice <- MCOrderPrice
  Amount = {76}
  NPayments = 1
  InitialCoupons <- MCCoupons
  NCoupons = 2
  Txn = {t1, t2, t3}
  Id <- MCId
  MaxId = 4
INVARIANT DeadlocksAreUnfreezes
PROPERTY WritesAreLocked
SYMMETRY Connections
CHECK_DEADLOCK FALSE
