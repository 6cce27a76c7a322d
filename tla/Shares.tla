------------------------------- MODULE Shares -------------------------------
(***************************************************************************)
(* How a coupon payment is divided (common/payment/wechat.py:94-96 and     *)
(* alipay.py:74-76): the platform, the inviter of the merchant and the     *)
(* merchant that originated the coupon each get a rate of the price that   *)
(* was paid, rounded to the cent, and the merchant keeps the rest.         *)
(*                                                                         *)
(* Python's round() rounds half to even.  The code multiplies by a float   *)
(* rate; for every price the order form accepts (1 to 10,000,000 cents)    *)
(* the rounded float product is the exact product rounded half to even,    *)
(* which is what RoundRate computes.                                       *)
(***************************************************************************)
EXTENDS Integers

\* config.py:228-230, in percent
PLATFORM_SHARE_RATE   == 3
INVITER_SHARE_RATE    == 1
ORIGINATOR_SHARE_RATE == 1

\* Mutant of RoundRate: cut off instead of rounded.
CutRate(rate, paid_price) == (rate * paid_price) \div 100

\* round(paid_price * rate / 100), ties to even
RoundRate(rate, paid_price) ==
  LET q == (rate * paid_price) \div 100
      r == (rate * paid_price) % 100
      down == r < 50 \/ (r = 50 /\ q % 2 = 0)
  IN  IF down THEN q ELSE q + 1

\* the shares stored in a new Payment; without a coupon nobody shares
SharesOf(paid_price, with_coupon) ==
  LET paid == IF paid_price > 0 THEN paid_price ELSE 0
      Part(rate) == IF with_coupon THEN RoundRate(rate, paid) ELSE 0
  IN  [platform_share   |-> Part(PLATFORM_SHARE_RATE),
       inviter_share    |-> Part(INVITER_SHARE_RATE),
       originator_share |-> Part(ORIGINATOR_SHARE_RATE)]

TotalShare(s) == s.platform_share + s.inviter_share + s.originator_share

=============================================================================
