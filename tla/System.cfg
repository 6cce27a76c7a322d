\* One payment, with or without a coupon, two refund threads, overlapping timers,
\* two crashes.
SPECIFICATION FairSystemSpec
CONSTANTS
  plat = plat
  m1 = m1
  m2 = m2
  k1 = k1
  none = none
  t1 = t1
  t2 = t2
  u1 = u1
  u2 = u2
  Platform = plat
  Merchant <- MCMerchant
  Marketer = {k1}
  NoMarketer = none
  Inviter <- MCInviter
  Enterprise = {}
  PlatformFloat = 0
  OrderPrice <- MCOrderPrice
  Amount = {76}
  NPayments = 1
  InitialCoupons <- MCOrphan
  NCoupons = 3
  Thread <- MCThread
  Timer <- MCTimer
  MaxCrashes = 2
  WindowCloses = TRUE
INVARIANTS
  ReturnedIsNotReleased
  BookedRefundIsReal
  BookedOrderIsReal
PROPERTIES
  LedgerSpec
  PaidOrderIsBooked
  RefundEnds
CHECK_DEADLOCK FALSE
