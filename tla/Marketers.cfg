\* Two merchants and two people, two requests or open pages at a time; both kinds
\* of checks by two workers, over the limits of hours, days and the window.
SPECIFICATION MarketersSpec
CONSTANTS
  Merchant = {m1, m2}
  Person = {p1, p2}
  Profile = {a, b}
  Worker = {w1, w2}
  Thread = {w1, w2}
  Marketer = {u1}
  AlipayAccount = {a, b}
  BankAccount = {b1, b2}
  RightAccount = {b1}
  MaxTimes = 1
  LimitHours = 2
  MaxRequestOneDay = 2
  MaxAnHour = 1
  HoursADay = 2
  MaxNow = 2
  MaxRequests = 4
  MaxCrashes = 2
SYMMETRY Alike
CONSTRAINT OneOrPlain
INVARIANTS
  UsedIsApproved
  OneAdminEach
  DisabledStays
  LastWordIsTrue
  ChecksAreLimited
  PaidOnce
  VerdictIsRecorded
CHECK_DEADLOCK FALSE
