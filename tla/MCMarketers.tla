---------------------------- MODULE MCMarketers -----------------------------
(* What marketers do, side by side: merchants are registered and audited,    *)
(* and accounts are checked.  The two share no state, so that one of them    *)
(* moves in each behaviour.                                                  *)
EXTENDS Merchants, AccountChecks, TLC

VARIABLE mover  \* the component that moves

MarketersInit == mover \in 1..2 /\ Init /\ ChecksInit

MarketersNext ==
  /\ UNCHANGED mover
  /\ \/ mover = 1 /\ Next /\ UNCHANGED checks
     \/ mover = 2 /\ ChecksNext /\ UNCHANGED vars

MarketersSpec == MarketersInit /\ [][MarketersNext]_<<mover, vars, checks>>

\* Merchants, people, workers and profiles are interchangeable, and so are the
\* threads and the Alipay accounts of the checks, which the run gives the names
\* of the workers and the profiles.
Alike == Permutations(Merchant) \cup Permutations(Person) \cup Permutations(Worker)
           \cup Permutations(Profile)

\* A merchant that has only been registered and approved.
Plain(m) ==
  /\ m \notin managed \cup lost \cup crossed \cup missed \cup misled
  /\ shop[m] # NoRow => shop[m].status \in {"REVIEWING", "USING"}

Rows(table) == Cardinality({x \in DOMAIN table : table[x] # NoRow})

\* One merchant with every change of its row, or of its people; or two that
\* share people and have only been approved.  Nothing more is done about a
\* merchant of no status, or one that two properties make an exception for.
OneOrPlain ==
  \/ /\ Rows(shop) <= 1 /\ overtaken = {}
     /\ \A m \in Merchant : shop[m] # NoRow => shop[m].status # "UNKNOWN"
     /\ Rows(staff) <= 1 \/ misled \cup missed \cup crossed \cup managed = {}
     /\ crossed \cap missed = {} /\ misled \cap (crossed \cup missed) = {}
  \/ \A m \in Merchant : Plain(m)
=============================================================================
