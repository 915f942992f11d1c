-------------------------- MODULE SettlementContract --------------------------
(***************************************************************************)
(* What the two parties may rely on once a load has been weighed: there is *)
(* one final price, it is fixed once, the collector's wallet is credited   *)
(* for it at most once, and only after that does the collector claim to    *)
(* have paid it to the requester.                                          *)
(* Settlement, the model of the handlers, implements this specification.   *)
(***************************************************************************)
EXTENDS Integers

CONSTANTS Prices,  \* what a load may be worth
          Agreed   \* the price agreed before the load was weighed

VARIABLES phase,     \* "open", "held" (weighed, not agreed) or "final"
          price,     \* the price of the pickup
          credited,  \* the price the wallet was credited for, 0 for not yet
          paid       \* "unpaid", "claimed", "disputed" or "closed"

moneyVars == <<phase, price, credited, paid>>

MoneyInit == phase = "open" /\ price = Agreed /\ credited = 0 /\ paid = "unpaid"

\* The load is weighed: within tolerance the agreed price stands, otherwise it
\* is held.
Weigh ==
  /\ phase = "open"
  /\ phase' \in {"held", "final"}
  /\ UNCHANGED <<price, credited, paid>>

\* The one step that moves the price.
Fix ==
  /\ phase = "held"
  /\ phase' = "final"
  /\ price' \in Prices
  /\ UNCHANGED <<credited, paid>>

Credit ==
  /\ phase = "final"
  /\ credited = 0
  /\ credited' = price
  /\ UNCHANGED <<phase, price, paid>>

Pay ==
  /\ phase = "final"
  /\ \/ paid = "unpaid" /\ paid' = "claimed"
     \/ paid = "claimed" /\ paid' \in {"disputed", "closed"}
     \/ paid = "disputed" /\ paid' = "closed"
  /\ UNCHANGED <<phase, price, credited>>

MoneyNext == Weigh \/ Fix \/ Credit \/ Pay

MoneySpec == MoneyInit /\ [][MoneyNext]_moneyVars
=============================================================================
