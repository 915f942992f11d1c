----------------------------- MODULE Settlement -----------------------------
(***************************************************************************)
(* The money side of one pickup: weighing at completion, the settlement of *)
(* a load that was not what was estimated (confirmed by the requester or    *)
(* by the cron job, or disputed and decided by an admin), the credit to the *)
(* collector's wallet, the disputes, and the payment between the parties.   *)
(*                                                                          *)
(* As in PickupLifecycle, a handler that goes on after an await keeps what  *)
(* it has read in a slot, a write is one atomic update that happens if its  *)
(* filter still matches, and a handler with several writes is several       *)
(* steps, between which the others run and the server may stop.             *)
(***************************************************************************)
EXTENDS Integers, FiniteSets, Sequences

CONSTANTS
  Prices,       \* what the load may be found to be worth, and what an admin may set
  Agreed,       \* the price agreed before the weighing
  Slots,        \* concurrent executions of request handlers
  MaxDisputes,  \* bound: disputes filed on the pickup
  MayRestart    \* whether the server may stop once (a bound) and start again

ASSUME PriceAssumption == Prices \subseteq Nat \ {0} /\ Agreed \in Prices

ASSUME SettlementBounds ==
  /\ MaxDisputes \in Nat
  /\ MayRestart \in BOOLEAN
  /\ "job" \notin Slots

VARIABLES
  pickup,      \* status and price of the Pickup document
  settlement,  \* its settlement; due: confirmAt has passed
  payment,     \* its payment
  disputes,    \* the Dispute documents on it, in the order they were filed
  credited,    \* the gross amount of its "earning" transaction, 0 while there is none
  slots,       \* the running handlers, with what they carry
  restarted    \* history: the server has stopped and started again

ledger == <<pickup, settlement, payment, disputes, credited>>
vars   == <<pickup, settlement, payment, disputes, credited, slots, restarted>>

Parties  == {"requester", "collector"}
Reasons  == {"wrong_weight_or_price", "payment_issue", "other"}
Verdicts == {"resolved", "dismissed"}

Runners == Slots \cup {"job"}

Idle == [op |-> "idle", id |-> 0, n |-> 0, word |-> ""]

Init ==
  /\ pickup = [status |-> "in_progress", price |-> Agreed]
  /\ settlement = [status |-> "none", proposed |-> Agreed, due |-> FALSE]
  /\ payment = [status |-> "unpaid", amount |-> 0]
  /\ disputes = << >>
  /\ credited = 0
  /\ slots = [s \in Runners |-> Idle]
  /\ restarted = FALSE

-----------------------------------------------------------------------------
(* Conditions the handlers test.                                           *)

FinalStatuses == {"none", "auto_confirmed", "confirmed", "resolved"}

\* (A mutant of a definition stands before it, named for the bug it plants.)
IsPayable_Completed == pickup.status = "completed"

\* paymentController.isPayable.
IsPayable == pickup.status = "completed" /\ settlement.status \in FinalStatuses

From_Disputed(op) == {"disputed"}
From_Always(op)   == {"pending_confirmation", "disputed", "confirmed", "resolved"}

\* The settlement states finalizeSettlement starts from, for each caller.
From(op) == IF op = "rule" THEN {"disputed"} ELSE {"pending_confirmation"}

\* A dispute by this party is open: the partial unique index of Dispute.
HasOpen(by) == \E i \in DOMAIN disputes : disputes[i].by = by /\ disputes[i].status = "open"

RoomForADispute ==
  Len(disputes) + Cardinality({s \in Slots : slots[s].op = "file"}) < MaxDisputes

\* Dispute.create, with a duplicate-key error ignored by the caller or answered
\* with 409.
Filed(by, reason) ==
  IF HasOpen(by) THEN disputes
  ELSE Append(disputes, [by |-> by, reason |-> reason, status |-> "open"])

\* A handler goes on to its next step, or starts.
Goes(s, op, id, n, word) ==
  slots' = [slots EXCEPT ![s] = [op |-> op, id |-> id, n |-> n, word |-> word]]

Ends(s) == slots' = [slots EXCEPT ![s] = Idle]

Starts(s, op, id, n, word) == s \in Slots /\ slots[s] = Idle /\ Goes(s, op, id, n, word)

-----------------------------------------------------------------------------
(* Completion and the wallet.                                              *)

Credits_Weighed(status) == status = "auto_confirmed"

\* updateStatus credits at once unless the weighing has to be confirmed.
Credits(status) == status # "pending_confirmation"

\* updateStatus to completed, with proof of the weight: the load is within the
\* tolerance, off it, or, when the completion was read too early to be weighed,
\* left without a settlement.
Complete(s, status, n) ==
  /\ pickup.status = "in_progress"
  /\ status \in {"none", "auto_confirmed", "pending_confirmation"}
  /\ status = "none" => n = settlement.proposed
  /\ pickup' = [pickup EXCEPT !.status = "completed"]
  /\ settlement' = [settlement EXCEPT !.status = status, !.proposed = n]
  /\ IF Credits(status) THEN Starts(s, "credit", 0, pickup.price, "") ELSE UNCHANGED slots
  /\ UNCHANGED <<payment, disputes, credited, restarted>>

\* creditEarning, at the price of the document the update handed back.  The
\* unique index on (pickup, type) makes a second earning a duplicate, ignored.
CreditEarning(s) ==
  /\ slots[s].op = "credit"
  /\ credited' = IF credited = 0 THEN slots[s].n ELSE credited
  /\ Ends(s)
  /\ UNCHANGED <<pickup, settlement, payment, disputes, restarted>>

-----------------------------------------------------------------------------
(* The held settlement.                                                    *)

\* confirmSettlement and the cron job read the proposed price first.
ConfirmArrives(s) ==
  /\ settlement.status = "pending_confirmation"
  /\ Starts(s, "confirm", 0, settlement.proposed, "")
  /\ UNCHANGED <<ledger, restarted>>

AutoConfirmFinds ==
  /\ settlement.status = "pending_confirmation"
  /\ settlement.due
  /\ slots["job"] = Idle
  /\ Goes("job", "confirm", 0, settlement.proposed, "")
  /\ UNCHANGED <<ledger, restarted>>

\* finalizeSettlement: one of its three callers wins.
Finalize(s) ==
  /\ slots[s].op \in {"confirm", "rule"}
  /\ settlement.status \in From(slots[s].op)
  /\ settlement' = [settlement EXCEPT
                      !.status = IF slots[s].op = "rule" THEN "resolved" ELSE "confirmed"]
  /\ pickup' = [pickup EXCEPT !.price = slots[s].n]
  /\ Goes(s, "credit", 0, slots[s].n, "")
  /\ UNCHANGED <<payment, disputes, credited, restarted>>

\* "This was already settled".
FinalizeFails(s) ==
  /\ slots[s].op \in {"confirm", "rule"}
  /\ settlement.status \notin From(slots[s].op)
  /\ Ends(s)
  /\ UNCHANGED <<ledger, restarted>>

\* disputeSettlement freezes the settlement, then files the dispute.
DisputeSettlement(s) ==
  /\ settlement.status = "pending_confirmation"
  /\ RoomForADispute
  /\ settlement' = [settlement EXCEPT !.status = "disputed", !.due = FALSE]
  /\ Starts(s, "file", 0, 0, "wrong_weight_or_price")
  /\ UNCHANGED <<pickup, payment, disputes, credited, restarted>>

FileApplies(s) ==
  /\ slots[s].op = "file"
  /\ disputes' = Filed("requester", slots[s].word)
  /\ Ends(s)
  /\ UNCHANGED <<pickup, settlement, payment, credited, restarted>>

-----------------------------------------------------------------------------
(* Disputes.                                                               *)

\* createDispute, by either party, from acceptance on.
CreateDispute(by, reason) ==
  /\ RoomForADispute
  /\ ~HasOpen(by)
  /\ disputes' = Filed(by, reason)
  /\ UNCHANGED <<pickup, settlement, payment, credited, slots, restarted>>

\* resolveDispute reads the dispute; n is the price in the request, 0 for none,
\* which only a dispute over the weight makes it look at.
ResolveArrives(s, id, verdict, n) ==
  /\ disputes[id].status = "open"
  /\ disputes[id].reason # "wrong_weight_or_price" => n = 0
  /\ Starts(s, "resolve", id, n, verdict)
  /\ UNCHANGED <<ledger, restarted>>

\* It saves the dispute by _id, and goes on by the reason of the dispute.
ResolveSaves(s) ==
  LET r == slots[s] IN
  /\ r.op = "resolve"
  /\ disputes' = [disputes EXCEPT ![r.id].status = r.word]
  /\ CASE disputes[r.id].reason = "wrong_weight_or_price" -> Goes(s, "held", 0, r.n, r.word)
       [] disputes[r.id].reason = "payment_issue"         -> Goes(s, "close", 0, 0, r.word)
       [] OTHER                                           -> Ends(s)
  /\ UNCHANGED <<pickup, settlement, payment, credited, restarted>>

Ruling_Unset(verdict, n) == n

\* The price it sets: the admin's, or the weighed one, or the agreed one.
Ruling(verdict, n) ==
  IF n # 0 THEN n ELSE IF verdict = "dismissed" THEN settlement.proposed ELSE Agreed

ReadHeld(s) ==
  LET r == slots[s] IN
  /\ r.op = "held"
  /\ IF settlement.status = "disputed" THEN Goes(s, "rule", 0, Ruling(r.word, r.n), "")
     ELSE Ends(s)
  /\ UNCHANGED <<ledger, restarted>>

ClosePayment(s) ==
  /\ slots[s].op = "close"
  /\ payment' = [payment EXCEPT
                   !.status = IF @ # "disputed" THEN @
                              ELSE IF slots[s].word = "dismissed" THEN "confirmed" ELSE "resolved"]
  /\ Ends(s)
  /\ UNCHANGED <<pickup, settlement, disputes, credited, restarted>>

-----------------------------------------------------------------------------
(* Payment between the parties.                                            *)

\* claimPaid reads the price, then writes it.
ClaimArrives(s) ==
  /\ IsPayable
  /\ payment.status # "claimed"
  /\ Starts(s, "claim", 0, pickup.price, "")
  /\ UNCHANGED <<ledger, restarted>>

Claimable_Again == payment.status # "confirmed"

\* The filter of claimPaid.
Claimable == payment.status = "unpaid"

ClaimApplies(s) ==
  /\ slots[s].op = "claim"
  /\ payment' = IF Claimable THEN [status |-> "claimed", amount |-> slots[s].n] ELSE payment
  /\ Ends(s)
  /\ UNCHANGED <<pickup, settlement, disputes, credited, restarted>>

ConfirmReceived ==
  /\ payment.status = "claimed"
  /\ payment' = [payment EXCEPT !.status = "confirmed"]
  /\ UNCHANGED <<pickup, settlement, disputes, credited, slots, restarted>>

DisputePayment(s) ==
  /\ payment.status = "claimed"
  /\ RoomForADispute
  /\ payment' = [payment EXCEPT !.status = "disputed"]
  /\ Starts(s, "file", 0, 0, "payment_issue")
  /\ UNCHANGED <<pickup, settlement, disputes, credited, restarted>>

-----------------------------------------------------------------------------
\* SETTLEMENT_CONFIRM_HOURS have passed.
ConfirmWindowEnds ==
  /\ settlement.status = "pending_confirmation"
  /\ ~settlement.due
  /\ settlement' = [settlement EXCEPT !.due = TRUE]
  /\ UNCHANGED <<pickup, payment, disputes, credited, slots, restarted>>

\* The running handlers are lost; nothing takes up what they had left to do.
Restart ==
  /\ MayRestart
  /\ ~restarted
  /\ restarted' = TRUE
  /\ slots' = [s \in Runners |-> Idle]
  /\ UNCHANGED ledger

ServerRuns(s) ==
  \/ CreditEarning(s) \/ Finalize(s) \/ FinalizeFails(s) \/ FileApplies(s)
  \/ ResolveSaves(s) \/ ReadHeld(s) \/ ClosePayment(s) \/ ClaimApplies(s)

UsersAsk(s) ==
  \/ \E status \in {"none", "auto_confirmed", "pending_confirmation"}, n \in Prices :
       Complete(s, status, n)
  \/ ConfirmArrives(s) \/ DisputeSettlement(s) \/ ClaimArrives(s) \/ DisputePayment(s)
  \/ \E id \in DOMAIN disputes, verdict \in Verdicts, n \in Prices \cup {0} :
       ResolveArrives(s, id, verdict, n)

Next ==
  \/ \E s \in Slots : UsersAsk(s)
  \/ \E s \in Runners : ServerRuns(s)
  \/ AutoConfirmFinds \/ ConfirmReceived \/ ConfirmWindowEnds \/ Restart
  \/ \E by \in Parties, reason \in Reasons : CreateDispute(by, reason)

Spec == Init /\ [][Next]_vars

\* A started handler runs to its end, node-cron starts the job again and again,
\* and time passes.  Neither the parties nor the admin owe the system anything.
Fairness ==
  /\ \A s \in Runners : WF_vars(ServerRuns(s))
  /\ WF_vars(AutoConfirmFinds) /\ WF_vars(ConfirmWindowEnds)

FairSpec == Spec /\ Fairness

-----------------------------------------------------------------------------
(* What should hold.                                                       *)

Settled == pickup.status = "completed" /\ settlement.status \in FinalStatuses
Held    == settlement.status \in {"pending_confirmation", "disputed"}

Tickets ==
  [op : {"idle", "credit", "confirm", "rule", "file", "resolve", "held", "close", "claim"},
   id : Nat, n : Prices \cup {0}, word : Reasons \cup Verdicts \cup {""}]
DisputeDocuments == [by : Parties, reason : Reasons, status : Verdicts \cup {"open"}]

\* The types of the documents and of what the handlers carry.
TypeOK ==
  /\ pickup \in [status : {"in_progress", "completed"}, price : Prices]
  /\ settlement \in [status : FinalStatuses \cup {"pending_confirmation", "disputed"},
                     proposed : Prices, due : BOOLEAN]
  /\ payment \in [status : {"unpaid", "claimed", "confirmed", "disputed", "resolved"},
                  amount : Prices \cup {0}]
  /\ disputes \in Seq(DisputeDocuments)
  /\ credited \in Prices \cup {0}
  /\ slots \in [Runners -> Tickets]
  /\ restarted \in BOOLEAN

\* While the weight is unconfirmed or disputed nobody is credited and nobody
\* claims to have paid, whatever is still running.
HeldMoneyStaysHeld == Held => credited = 0 /\ payment.status = "unpaid"

\* The wallet, the payment and the pickup agree on one price, whichever of a
\* confirmation, the cron job and the admins came first.
OnePrice ==
  /\ credited # 0 => credited = pickup.price
  /\ payment.status # "unpaid" => payment.amount = pickup.price

\* The promise to the two parties.
Money == INSTANCE SettlementContract WITH
  phase    <- IF Held THEN "held" ELSE IF pickup.status = "completed" THEN "final" ELSE "open",
  price    <- pickup.price,
  credited <- credited,
  paid     <- IF payment.status \in {"confirmed", "resolved"} THEN "closed" ELSE payment.status
ImplementsContract == Money!MoneySpec

\* A requester who never opens the app does not keep the collector waiting, a
\* restart included.
SilentRequesterSettles ==
  settlement.status = "pending_confirmation" ~> settlement.status # "pending_confirmation"

\* A final price reaches the wallet, unless the server stops in between.
SettledIsCredited == Settled ~> (credited # 0 \/ restarted)

\* A final price has reached the wallet, or the handler that takes it there is
\* still running, until the server stops: what SettledIsCredited needs of every
\* state, no run of the handler lost, no settlement final without one.
CreditIsOnItsWay ==
  Settled /\ ~restarted => credited # 0 \/ \E s \in Runners : slots[s].op = "credit"

\* Claimed in disputeSettlement: freezing the payout opens a dispute an admin
\* will review; only resolving such a dispute ever releases it.
FrozenPayoutUnderReview ==
  settlement.status = "disputed" =>
    \/ \E i \in DOMAIN disputes :
         disputes[i].reason = "wrong_weight_or_price" /\ disputes[i].status = "open"
    \/ \E s \in Slots : slots[s].op \in {"file", "held", "rule"}
=============================================================================
