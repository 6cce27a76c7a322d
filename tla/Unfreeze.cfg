\* Two payments, one of which may block the runs of the timer; a refund thread,
\* one crash.
SPECIFICATION FairSystemSpec
CONSTANTS
  plat = plat
  m1 = m1
  m2 = m2
  k1 = k1
  none = none
  t1 = t1
  t2 = t2
  u1 = u1
  u2 = u2
  Platform = plat
  Merchant <- MCMerchant
  Marketer = {k1}
  NoMarketer = none
  Inviter <- MCInviter
  Enterprise = {}
  PlatformFloat = 0
  OrderPrice <- MCOrderPrice
  Amount = {}
  NPayments = 2
  InitialCoupons <- MCOneOrphan
  NCoupons = 1
  Thread = {t1}
  Timer = {u1}
  MaxCrashes = 1
  WindowCloses = FALSE
CONSTRAINT OnlyBlockersAreRefunded
PROPERTY FreezeEnds
CHECK_DEADLOCK FALSE
