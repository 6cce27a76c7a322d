----------------------------- MODULE CouponDates -----------------------------
(***************************************************************************)
(* When a coupon is valid.  Four places of the code decide it, each in its *)
(* own way: the form for new rules, the query of the grant, the listing of *)
(* a client's coupons, and the order form.  Here is one rule, one coupon   *)
(* and the clock.                                                          *)
(*                                                                         *)
(* Time is counted in ticks, a date is the number of a day.  Years are all *)
(* of one length: the 29th of February is left out.                        *)
(***************************************************************************)
EXTENDS Integers

CONSTANTS
  TicksPerDay,
  DaysPerYear,
  MaxDay,       \* bound: the day the clock stops
  RangeDate,    \* dates that merchants submit
  Days          \* expiration_days that merchants submit

ASSUME DateAssumption ==
  /\ TicksPerDay \in Nat \ {0}
  /\ DaysPerYear \in Nat \ {0}
  /\ MaxDay \in Nat
  /\ RangeDate \subseteq Nat
  /\ Days \subseteq Nat \ {0}

VARIABLES
  now,       \* timezone.now()
  rule,      \* the CouponRule, or NoRuleYet
  obtained   \* obtain_datetime of the coupon, or NotObtained

dates == <<now, rule, obtained>>

NoRuleYet == [valid_strategy |-> "NONE"]
NotObtained == -1

Date(t) == t \div TicksPerDay
Today == Date(now)

Year(d) == d \div DaysPerYear

\* d.replace(year=y)
ReplaceYear(d, y) == y * DaysPerYear + (d % DaysPerYear)

\* CouponRuleSerializer.validate of a DATE_RANGE
RangeIsAccepted(start, end) ==
  /\ start <= end
  /\ start <= ReplaceYear(Today, Year(Today) + 1)
  /\ end <= ReplaceYear(start, Year(Today) + 1)

\* A new rule; only those of strategy DATE_RANGE have dates.
SubmitRule ==
  /\ rule = NoRuleYet
  /\ \/ \E start, end \in RangeDate :
          /\ RangeIsAccepted(start, end)
          /\ rule' = [valid_strategy |-> "DATE_RANGE", start_date |-> start,
                      end_date |-> end]
     \/ \E days \in Days :
          rule' = [valid_strategy |-> "EXPIRATION", expiration_days |-> days]
  /\ UNCHANGED <<now, obtained>>

IsRange == rule.valid_strategy = "DATE_RANGE"
IsExpiration == rule.valid_strategy = "EXPIRATION"

\* Mutant of MayBeGranted: any rule with stock.
MayAlwaysBeGranted == IsExpiration \/ IsRange

\* The filter of grant_coupons
MayBeGranted == IsExpiration \/ (IsRange /\ rule.end_date >= Today)

Grant ==
  /\ obtained = NotObtained
  /\ MayBeGranted
  /\ obtained' = now
  /\ UNCHANGED <<now, rule>>

\* get_coupons_not_expired: a coupon with expiration_days is valid for that
\* many times 24 hours.
NotExpired ==
  \/ IsRange /\ rule.end_date >= Today
  \/ IsExpiration /\ rule.expiration_days * TicksPerDay > now - obtained

HasStarted == IsRange => rule.start_date <= Today

\* get_user_coupons_for_payment
ListedForPayment == NotExpired /\ HasStarted

\* Mutant of ListedInWallet: coupons that have not started are left out.
ListedStarted == NotExpired /\ HasStarted

\* get_user_coupons_not_expired_and_not_used
ListedInWallet == NotExpired

\* Mutant of OrderAccepts: the day after the last one is accepted.
OrderAcceptsLate ==
  /\ IsRange => rule.start_date <= Today
  /\ IsExpiration => Today <= Date(obtained) + rule.expiration_days + 1

\* Mutant of OrderAccepts: the last day is refused.
OrderRefusesLastDay ==
  /\ IsRange => rule.start_date <= Today /\ Today < rule.end_date
  /\ IsExpiration => Today <= Date(obtained) + rule.expiration_days

\* PlaceOrderRequestSerializer.validate: a coupon with expiration_days is
\* valid up to the end of the day that many days later.
OrderAccepts ==
  /\ IsRange => rule.start_date <= Today /\ Today <= rule.end_date
  /\ IsExpiration => Today <= Date(obtained) + rule.expiration_days

Tick ==
  /\ now < (MaxDay + 1) * TicksPerDay - 1
  /\ now' = now + 1
  /\ UNCHANGED <<rule, obtained>>

DatesInit == now = 0 /\ rule = NoRuleYet /\ obtained = NotObtained

DatesNext == SubmitRule \/ Grant \/ Tick

DatesSpec == DatesInit /\ [][DatesNext]_dates /\ WF_dates(Tick)

-----------------------------------------------------------------------------
(* Properties *)

Owned == obtained # NotObtained

\* The app offers no coupon for an order that the order form would refuse.
OfferedIsAccepted == Owned /\ ListedForPayment => OrderAccepts

\* The two ways of counting days differ by less than a day: a coupon that an
\* order would accept although it is not offered any more is one with
\* expiration_days, on its last day.
UnofferedIsLastDay ==
  Owned /\ OrderAccepts /\ ~ListedForPayment =>
    IsExpiration /\ Today = Date(obtained) + rule.expiration_days

\* The listing and the order form agree, but for that day.
OffersAreHonoured == OfferedIsAccepted /\ UnofferedIsLastDay

\* A coupon that was granted is good for something: some day the app offers
\* it for an order (grant_coupons filters out rules that have ended, the form
\* refuses reversed ranges).
GrantedIsOffered == (obtained = now) ~> ListedForPayment

\* A coupon that has left the wallet never comes back to it, and an order still
\* accepts it on the day it left, if at all: from the next day on it is refused
\* (the wallet counts 24 hours at a time, the order form dates).
GoneIsGone ==
  [][Owned /\ ~ListedInWallet => ~ListedInWallet' /\ (OrderAccepts' => Today' = Today)]_dates
=============================================================================
