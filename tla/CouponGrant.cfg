\* Two payments and two polls race for one piece of stock; a change of stock or a crash.
SPECIFICATION GrantSpec
CONSTANTS
  plat = plat
  m1 = m1
  m2 = m2
  k1 = k1
  none = none
  t1 = t1
  t2 = t2
  Platform = plat
  Merchant <- MCMerchant
  Marketer = {k1}
  NoMarketer = none
  Inviter <- MCInviter
  Enterprise = {}
  PlatformFloat = 0
  OrderPrice = {100}
  Amount = {}
  NPayments = 2
  InitialCoupons <- MCCoupons
  NCoupons = 3
  Poller <- MCPoller
  GrantLimit = 1
  Terms <- MCTerms
  Stock = {1, 2}
  MaxUpsets = 1
INVARIANTS
  OneGrantAPayment
  GrantsAreSound
CONSTRAINT NoMatter
SYMMETRY Alike
CHECK_DEADLOCK FALSE
