------------------------------ MODULE Rounding ------------------------------
(***************************************************************************)
(* How the shares of the next sale are rounded: what the ledger would      *)
(* divide, were one of its coupons used, against the rates of config.py.   *)
(***************************************************************************)
EXTENDS Payments

CONSTANT MaxPrice  \* bound of the prices tried, in cents

\* What a client could be asked to pay next, with a coupon
NextPrices ==
  UNION {{price - coupons[c].discount : price \in coupons[c].min_charge..MaxPrice} :
           c \in {d \in CouponId : coupons[d].status = "NOT_USED"}}

Distance(rate, price, n) ==
  IF 100 * n > rate * price THEN 100 * n - rate * price ELSE rate * price - 100 * n

\* n is rate percent of a price to the nearest cent, the even one of two.
Rounded(rate, price, n) == \/ Distance(rate, price, n) < 50
                           \/ Distance(rate, price, n) = 50 /\ n % 2 = 0

\* Each share is within half a cent of its rate of the price, and even where
\* two are, as Python's round() promises.
SharesAreRounded ==
  \A price \in NextPrices :
    LET shares == SharesOf(price, TRUE)
    IN  /\ Rounded(PLATFORM_SHARE_RATE, price, shares.platform_share)
        /\ Rounded(INVITER_SHARE_RATE, price, shares.inviter_share)
        /\ Rounded(ORIGINATOR_SHARE_RATE, price, shares.originator_share)
=============================================================================
