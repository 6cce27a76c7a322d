\* Two payments, one coupon (and its replacements).
SPECIFICATION Spec
CONSTANTS
  plat = plat
  m1 = m1
  m2 = m2
  k1 = k1
  none = none
  Platform = plat
  Merchant <- MCMerchant
  Marketer <- MCMarketer
  NoMarketer = none
  Inviter <- MCInviter
  Enterprise <- MCEnterprise
  PlatformFloat = 76
  OrderPrice <- MCOrderPrice
  Amount <- MCAmount
  NPayments = 2
  InitialCoupons <- MCCoupons
  NCoupons = 3
  MaxPrice = 200
INVARIANTS
  FrozenMoneyMatchesPayments
  WithdrawableMatchesPayments
  NoOverdraft
  RefundMatchesPayment
  CouponsAreAccounted
  SharesAreRounded
PROPERTIES
  RowsExplainBalances
  ImplementsEscrow
CHECK_DEADLOCK FALSE
