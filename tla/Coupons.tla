------------------------------ MODULE Coupons ------------------------------
(***************************************************************************)
(* One promo code: its use when a pickup is requested, the edits an admin   *)
(* makes to it, and the bonus credited when the price of a pickup becomes   *)
(* final.  A use is a pickup that carries the code and is not cancelled:    *)
(* uses are counted, there is no counter.                                   *)
(***************************************************************************)
EXTENDS Handlers, Integers, FiniteSets

CONSTANTS
  Requesters,      \* users who request pickups
  Orders,          \* pickups that may be requested with the code
  Values,          \* rupees a flat coupon may be worth
  Totals,          \* final prices
  MinOrder,        \* minOrderValue
  MaxRedemptions,  \* uses across everyone
  PerUserLimit,    \* uses per person
  NoUser           \* an absent user

ASSUME CouponAssumption ==
  /\ Values \subseteq Nat \ {0} /\ Totals \subseteq Nat /\ MinOrder \in Nat
  /\ MaxRedemptions \in Nat \ {0} /\ PerUserLimit \in Nat \ {0}
  /\ NoUser \notin Requesters
  /\ IsFiniteSet(Slots) /\ IsFiniteSet(Orders)

VARIABLES
  coupon,    \* the Coupon document: its value and whether it is active
  orders,    \* the Pickup documents: status, user, coupon snapshot and price
  credits,   \* the "coupon_credit" transactions, at most one per pickup
  promised   \* history: what the code was worth when each pickup was requested

couponDocs == <<coupon, orders, credits, promised>>
couponVars == <<coupon, orders, credits, promised, slots>>

NoOrder == [status |-> "absent", user |-> NoUser, value |-> 0, price |-> 0, bonusAmount |-> 0]

CouponInit ==
  /\ coupon \in [value : Values, active : {TRUE}]
  /\ orders = [p \in Orders |-> NoOrder]
  /\ credits = [p \in Orders |-> 0]
  /\ promised = [p \in Orders |-> 0]
  /\ slots = AllIdle

-----------------------------------------------------------------------------
Used == {p \in Orders : orders[p].status \in {"pending", "completed"}}

UsedBy(u) == {p \in Used : orders[p].user = u}

\* computeBonus of a flat coupon: nothing below the minimum order.
BonusOf(value, price) == IF price < MinOrder THEN 0 ELSE value

CouponUsable_LimitReached(u) ==
  /\ coupon.active
  /\ Cardinality(Used) <= MaxRedemptions
  /\ Cardinality(UsedBy(u)) < PerUserLimit

\* assertCouponUsable: active, and both limits not yet reached.
CouponUsable(u) ==
  /\ coupon.active
  /\ Cardinality(Used) < MaxRedemptions
  /\ Cardinality(UsedBy(u)) < PerUserLimit

\* createPickup with a code, up to Pickup.create.
OrderArrives(s, u, p) ==
  /\ CouponUsable(u)
  /\ orders[p] = NoOrder
  /\ \A r \in Slots : ~(At(r, "order") /\ slots[r].order = p)
  /\ Starts(s, [op |-> "order", who |-> u, order |-> p, value |-> coupon.value])
  /\ UNCHANGED couponDocs

\* Pickup.create, with the snapshot of the coupon that was found.
OrderCreated(s) ==
  /\ At(s, "order")
  /\ LET p == slots[s].order
     IN /\ orders' = [orders EXCEPT ![p] =
                        [status |-> "pending", user |-> slots[s].who, value |-> slots[s].value,
                         price |-> 0, bonusAmount |-> 0]]
        /\ promised' = [promised EXCEPT ![p] = slots[s].value]
  /\ Ends(s)
  /\ UNCHANGED <<coupon, credits>>

\* A cancelled pickup frees its use.
OrderCancelled(p) ==
  /\ orders[p].status = "pending"
  /\ orders' = [orders EXCEPT ![p].status = "cancelled"]
  /\ UNCHANGED <<coupon, credits, promised, slots>>

SnapshotOf_Current(p) == coupon.value

\* The coupon as the pickup carries it.
SnapshotOf(p) == orders[p].value

\* The price becomes final: creditEarning goes on to creditCouponBonus with the
\* pickup as its update returned it.
PriceFinal(s, p, price) ==
  /\ orders[p].status = "pending"
  /\ orders' = [orders EXCEPT ![p].status = "completed", ![p].price = price]
  /\ Starts(s, [op |-> "credit", order |-> p])
  /\ UNCHANGED <<coupon, credits, promised>>

\* Transaction.create under the unique {pickup, type} index.
BonusCredited(s) ==
  /\ At(s, "credit")
  /\ LET p == slots[s].order
         bonus == BonusOf(SnapshotOf(p), orders[p].price)
     IN IF bonus = 0 \/ credits[p] # 0
        THEN Ends(s) /\ UNCHANGED credits
        ELSE /\ credits' = [credits EXCEPT ![p] = bonus]
             /\ Goes(s, [op |-> "note", order |-> p, value |-> bonus])
  /\ UNCHANGED <<coupon, orders, promised>>

\* Pickup.updateOne notes the bonus on the pickup.
BonusNoted(s) ==
  /\ At(s, "note")
  /\ orders' = [orders EXCEPT ![slots[s].order].bonusAmount = slots[s].value]
  /\ Ends(s)
  /\ UNCHANGED <<coupon, credits, promised>>

\* adminUpdate: one update of the coupon, whatever carries it.
CouponEdited(value, active) ==
  /\ coupon' = [value |-> value, active |-> active]
  /\ coupon' # coupon
  /\ UNCHANGED <<orders, credits, promised, slots>>

CouponServerStops == Restarts /\ UNCHANGED couponDocs

CouponNext ==
  \/ \E s \in Slots :
       \/ \E u \in Requesters, p \in Orders : OrderArrives(s, u, p)
       \/ \E p \in Orders, price \in Totals : PriceFinal(s, p, price)
       \/ OrderCreated(s) \/ BonusCredited(s) \/ BonusNoted(s)
  \/ \E p \in Orders : OrderCancelled(p)
  \/ \E value \in Values, active \in BOOLEAN : CouponEdited(value, active)
  \/ CouponServerStops

CouponSpec == CouponInit /\ [][CouponNext]_couponVars

-----------------------------------------------------------------------------
(* Properties.                                                              *)

CouponTypeOK ==
  /\ coupon \in [value : Values, active : BOOLEAN]
  /\ orders \in [Orders -> [status : {"absent", "pending", "cancelled", "completed"},
                            user : Requesters \cup {NoUser}, value : Values \cup {0},
                            price : Totals \cup {0}, bonusAmount : Values \cup {0}]]
  /\ credits \in [Orders -> Values \cup {0}]
  /\ promised \in [Orders -> Values \cup {0}]
  /\ slots \in [Slots -> {Idle}
       \cup [op : {"order"}, who : Requesters, order : Orders, value : Values]
       \cup [op : {"credit"}, order : Orders]
       \cup [op : {"note"}, order : Orders, value : Values]]

\* What a pickup was promised is what is credited for it, on its final price,
\* whatever an admin does to the coupon in the meantime (snapshotOf).
PromiseKept ==
  \A p \in Orders : credits[p] # 0 =>
    /\ orders[p].status = "completed"
    /\ credits[p] = BonusOf(promised[p], orders[p].price)

\* The pickups by what was agreed about each.
Deal == INSTANCE CouponContract WITH
  stage   <- [p \in Orders |-> orders[p].status],
  promise <- promised,
  price   <- [p \in Orders |-> orders[p].price],
  paid    <- credits,
  shown   <- [p \in Orders |-> orders[p].bonusAmount]

\* The handlers, what admins do to the coupon, and what the server stops between
\* two writes implement what a requester may rely on: the promise made at the
\* request is paid on the final price, once, and the bonus shown is the bonus paid
\* (coupons.js, snapshotOf and creditCouponBonus).
DealIsKept == Deal!DealSpec

\* Requests that passed the check before one another's pickups were created can
\* take a code past its limit, but only by as many as ran at once.
OveruseIsBounded ==
  Cardinality(Used) + Cardinality({s \in Slots : At(s, "order")})
    < MaxRedemptions + Cardinality(Slots)
=============================================================================
