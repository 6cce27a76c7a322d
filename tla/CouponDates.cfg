\* Three years of four days, two ticks a day.
SPECIFICATION DatesSpec
CONSTANTS
  TicksPerDay = 2
  DaysPerYear = 4
  MaxDay = 11
  RangeDate = {0, 1, 2, 4, 5, 6, 8, 9, 11}
  Days = {1, 2, 3}
INVARIANTS
  OffersAreHonoured
PROPERTIES
  GoneIsGone
  GrantedIsOffered
\* The clock stops at its bound.
CHECK_DEADLOCK FALSE
