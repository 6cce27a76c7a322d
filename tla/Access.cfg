\* Two of everything that can get in each other's way.
SPECIFICATION AccessSpec
CONSTANTS
  Admin = {a1}
  Password = {x, y}
  Browser = {b1, b2}
  MaxFailures = 2
  Handset = {h1, h2}
  StaffPhone = {s1}
  Token = {t1, t2, t3}
  User = {u1, u2}
  Number = {n1, n2}
  MaxCodes = 2
  Timer = {r1, r2}
  MaxIssued = 4
  Desk = {d1, d2}
  phrase = phrase
  keyword = keyword
  Word = {phrase, keyword}
  Parts <- MCParts
  MaxReplies = 2
  plat = plat
  m1 = m1
  m2 = m2
  none = none
  Platform = plat
  Merchant <- MCMerchant
  Marketer = {}
  NoMarketer = none
  Inviter <- MCInviter
  Enterprise = {}
  PlatformFloat = 0
  OrderPrice = {100}
  Amount = {}
  NPayments = 1
  InitialCoupons <- MCCoupons
  NCoupons = 1
  Person = {p1}
  Worker = {w1, w2}
  MaxRequests = 2
  MaxDeaths = 1
CONSTRAINTS
  FewFailures
  TwoAtATime
  OneIsProven
  OvertakenOnce
SYMMETRY Alike
INVARIANTS
  DoorIsGuarded
  TokensNameClients
  NumbersAreProven
  NewestTokenIsKept
  RepliesAreListed
  NoticesAreTrue
CHECK_DEADLOCK FALSE
