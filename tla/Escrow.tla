------------------------------- MODULE Escrow -------------------------------
(***************************************************************************)
(* What the ledger promises, without accounts, shares, coupons or channels:*)
(* the server holds the money of every sale in escrow.  A sale is opened   *)
(* at a price, paid into the pot or voided; what was paid is either handed *)
(* back in full or released once, and only released money leaves the pot   *)
(* as a payout.                                                            *)
(***************************************************************************)
EXTENDS Integers

CONSTANTS
  Sale,        \* the sales
  Price,       \* the prices of sales
  Float        \* money that is in the pot, and free, from the start

VARIABLES
  stage,       \* of each sale
  price,       \* of each sale that was opened
  pot,         \* all the money held
  available    \* the part of the pot that may be paid out

escrow == <<stage, price, pot, available>>

Init ==
  /\ stage = [s \in Sale |-> "none"]
  /\ price = [s \in Sale |-> 0]
  /\ pot = Float
  /\ available = Float

\* Sale s moves on from stage from to stage to.
Moves(s, from, to) == stage[s] = from /\ stage' = [stage EXCEPT ![s] = to]

\* The price of a sale is chosen when it is opened, for good.
Open(s) == /\ Moves(s, "none", "open")
           /\ price'[s] \in Price
           /\ \A r \in Sale \ {s} : price'[r] = price[r]
           /\ UNCHANGED <<pot, available>>

Void(s) == Moves(s, "open", "void") /\ UNCHANGED <<price, pot, available>>

Pay(s) == /\ Moves(s, "open", "held")
          /\ pot' = pot + price[s]
          /\ UNCHANGED <<price, available>>

Refund(s) == /\ Moves(s, "held", "refunded")
             /\ pot' = pot - price[s]
             /\ UNCHANGED <<price, available>>

\* The platform keeps its share, the rest becomes available to its owners.
Release(s) == /\ Moves(s, "held", "released")
              /\ available' \in available..(available + price[s])
              /\ UNCHANGED <<price, pot>>

PayOut == /\ available' \in 0..available
          /\ pot' = pot - (available - available')
          /\ UNCHANGED <<stage, price>>

Next ==
  \/ \E s \in Sale : Open(s) \/ Void(s) \/ Pay(s) \/ Refund(s) \/ Release(s)
  \/ PayOut

Spec == Init /\ [][Next]_escrow

=============================================================================
