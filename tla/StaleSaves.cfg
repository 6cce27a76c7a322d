\* A note and a profile are saved over what the ledger did meanwhile.
SPECIFICATION EditSpec
CONSTANTS
  plat = plat
  m1 = m1
  m2 = m2
  k1 = k1
  none = none
  Platform = plat
  Merchant <- MCMerchant
  Marketer <- MCMarketer
  NoMarketer = none
  Inviter <- MCInviter
  Enterprise = {}
  PlatformFloat = 0
  OrderPrice <- MCOrderPrice
  Amount <- MCAmount1
  NPayments = 1
  InitialCoupons <- MCCoupons
  NCoupons = 2
  MaxEdits = 1
PROPERTY EditsKeepLedger
CHECK_DEADLOCK FALSE
