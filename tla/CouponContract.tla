---------------------------- MODULE CouponContract ----------------------------
(***************************************************************************)
(* What a person who requests a pickup with a promo code may rely on: the   *)
(* pickup keeps what the code was worth then; once its price is final it is *)
(* paid that, once, if the price reaches the minimum; and what the pickup   *)
(* shows as its bonus is what was paid.  How often a code can be used is    *)
(* not promised: the uses are counted before one more is made.  Coupons,    *)
(* the model of the handlers, implements this specification.                *)
(***************************************************************************)
EXTENDS Naturals

CONSTANTS Orders,   \* pickups that may be requested with the code
          Values,   \* what the code may be worth
          Totals,   \* final prices
          MinOrder  \* the least price it is worth anything on

VARIABLES stage,    \* of each pickup
          promise,  \* what its code was worth when it was requested
          price,    \* its final price
          paid,     \* the bonus credited for it
          shown     \* the bonus it shows

dealVars == <<stage, promise, price, paid, shown>>

Nothing == [p \in Orders |-> 0]

DealInit ==
  /\ stage = [p \in Orders |-> "absent"]
  /\ promise = Nothing /\ price = Nothing /\ paid = Nothing /\ shown = Nothing

Due(p) == IF price[p] < MinOrder THEN 0 ELSE promise[p]

Request(p) ==
  /\ stage[p] = "absent"
  /\ stage' = [stage EXCEPT ![p] = "pending"]
  /\ \E value \in Values : promise' = [promise EXCEPT ![p] = value]
  /\ UNCHANGED <<price, paid, shown>>

Cancel(p) ==
  /\ stage[p] = "pending"
  /\ stage' = [stage EXCEPT ![p] = "cancelled"]
  /\ UNCHANGED <<promise, price, paid, shown>>

Settle(p) ==
  /\ stage[p] = "pending"
  /\ stage' = [stage EXCEPT ![p] = "completed"]
  /\ \E total \in Totals : price' = [price EXCEPT ![p] = total]
  /\ UNCHANGED <<promise, paid, shown>>

PayBonus(p) ==
  /\ stage[p] = "completed" /\ paid[p] = 0
  /\ paid' = [paid EXCEPT ![p] = Due(p)]
  /\ UNCHANGED <<stage, promise, price, shown>>

ShowBonus(p) ==
  /\ paid[p] # 0
  /\ shown' = [shown EXCEPT ![p] = paid[p]]
  /\ UNCHANGED <<stage, promise, price, paid>>

DealNext == \E p \in Orders : Request(p) \/ Cancel(p) \/ Settle(p) \/ PayBonus(p) \/ ShowBonus(p)

DealSpec == DealInit /\ [][DealNext]_dealVars
=============================================================================
