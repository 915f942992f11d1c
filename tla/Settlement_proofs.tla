------------------------- MODULE Settlement_proofs --------------------------
(***************************************************************************)
(* Proofs about Settlement, for every set of prices, any number of          *)
(* concurrent handlers and of disputes, with or without a restart.          *)
(***************************************************************************)
EXTENDS Settlement, SequenceTheorems, TLAPS

\* What a handler carries is fit for what it will write.
Carries ==
  \A s \in Runners :
    /\ slots[s].op \in {"credit", "confirm", "rule", "claim"} => slots[s].n \in Prices
    /\ slots[s].op = "resolve" => slots[s].id \in DOMAIN disputes /\ slots[s].word \in Verdicts
    /\ slots[s].op = "file" => slots[s].word \in Reasons

\* Every amount that was written, or that a running handler is about to write,
\* is the price of the pickup, and that price no longer moves.
MoneyFollowsPrice ==
  /\ pickup.status = "in_progress" => settlement.status = "none"
  /\ \A s \in Runners :
       slots[s].op \in {"credit", "claim"} => Settled /\ slots[s].n = pickup.price
  /\ credited # 0 => Settled /\ credited = pickup.price
  /\ payment.status # "unpaid" => Settled /\ payment.amount = pickup.price

IInv == TypeOK /\ Carries /\ MoneyFollowsPrice

LEMMA IInvInit == Init => IInv
<1> SUFFICES ASSUME Init PROVE IInv OBVIOUS
<1> USE PriceAssumption
<1>1. Idle \in Tickets BY DEF Idle, Tickets
<1>2. TypeOK BY <1>1, EmptySeq DEF Init, TypeOK, FinalStatuses
<1>3. Carries /\ MoneyFollowsPrice BY DEF Init, Idle, Carries, MoneyFollowsPrice
<1> QED BY <1>2, <1>3 DEF IInv

-----------------------------------------------------------------------------
(* Slots and disputes.                                                     *)

\* A slot that goes on with a fit ticket, or is freed, leaves the others alone.
LEMMA GoesKeepsTypes ==
  ASSUME slots \in [Runners -> Tickets], NEW s \in Runners,
         NEW op, NEW id, NEW n, NEW word,
         [op |-> op, id |-> id, n |-> n, word |-> word] \in Tickets,
         Goes(s, op, id, n, word)
  PROVE  /\ slots' \in [Runners -> Tickets]
         /\ slots'[s].op = op /\ slots'[s].id = id /\ slots'[s].n = n /\ slots'[s].word = word
         /\ \A t \in Runners : t # s => slots'[t] = slots[t]
<1>1. slots'[s] = [op |-> op, id |-> id, n |-> n, word |-> word] BY DEF Goes
<1> QED BY <1>1 DEF Goes

LEMMA CreditGoes ==
  ASSUME slots \in [Runners -> Tickets], NEW s \in Runners, NEW n \in Prices,
         Goes(s, "credit", 0, n, "")
  PROVE  /\ slots' \in [Runners -> Tickets]
         /\ slots'[s].op = "credit" /\ slots'[s].n = n
         /\ \A t \in Runners : t # s => slots'[t] = slots[t]
<1>1. [op |-> "credit", id |-> 0, n |-> n, word |-> ""] \in Tickets BY DEF Tickets
<1> QED BY ZenonT(60), <1>1, GoesKeepsTypes

LEMMA EndsKeepsTypes ==
  ASSUME slots \in [Runners -> Tickets], NEW s \in Runners, Ends(s)
  PROVE  /\ slots' \in [Runners -> Tickets]
         /\ slots'[s].op = "idle"
         /\ \A t \in Runners : t # s => slots'[t] = slots[t]
<1>1. Idle \in Tickets /\ Idle.op = "idle" BY DEF Idle, Tickets
<1>2. slots'[s] = Idle BY DEF Ends
<1> QED BY <1>1, <1>2 DEF Ends

\* Filing a dispute keeps the ones already there in place.
LEMMA FiledKeeps ==
  ASSUME disputes \in Seq(DisputeDocuments), NEW by \in Parties, NEW reason \in Reasons,
         disputes' = Filed(by, reason)
  PROVE  disputes' \in Seq(DisputeDocuments) /\ DOMAIN disputes \subseteq DOMAIN disputes'
<1> DEFINE d == [by |-> by, reason |-> reason, status |-> "open"]
<1>1. d \in DisputeDocuments BY DEF DisputeDocuments
<1>2. CASE HasOpen(by) BY <1>2 DEF Filed
<1>3. CASE ~HasOpen(by)
  <2>1. disputes' = Append(disputes, d) BY <1>3 DEF Filed
  <2> HIDE DEF d
  <2> QED BY <1>1, <2>1, AppendProperties, LenProperties
<1> QED BY <1>2, <1>3

\* So does deciding one.
LEMMA DecidedKeeps ==
  ASSUME disputes \in Seq(DisputeDocuments), NEW i \in DOMAIN disputes,
         NEW verdict \in Verdicts, disputes' = [disputes EXCEPT ![i].status = verdict]
  PROVE  disputes' \in Seq(DisputeDocuments) /\ DOMAIN disputes' = DOMAIN disputes
<1> DEFINE d == [disputes[i] EXCEPT !.status = verdict]
<1>1. disputes[i] \in DisputeDocuments BY ElementOfSeq, LenProperties
<1>2. d \in DisputeDocuments BY <1>1 DEF DisputeDocuments
<1>3. disputes' = [disputes EXCEPT ![i] = d] OBVIOUS
<1> HIDE DEF d
<1> QED BY <1>2, <1>3, ExceptSeq, LenProperties

-----------------------------------------------------------------------------
(* The inductive invariant, and what each step does to the promise.        *)

\* A step that is invisible to the parties, or a step of the contract.
ContractStep == Money!MoneyNext \/ UNCHANGED Money!moneyVars

\* A handler that only reads, and goes on with a fit ticket.
LEMMA ReadStep ==
  ASSUME IInv, NEW s \in Runners, NEW op, NEW id, NEW n, NEW word,
         [op |-> op, id |-> id, n |-> n, word |-> word] \in Tickets,
         op \in {"credit", "confirm", "rule", "claim"} => n \in Prices,
         op = "resolve" => id \in DOMAIN disputes' /\ word \in Verdicts,
         op = "file" => word \in Reasons,
         op \in {"credit", "claim"} => Settled /\ n = pickup.price,
         disputes' \in Seq(DisputeDocuments), DOMAIN disputes \subseteq DOMAIN disputes',
         UNCHANGED <<pickup, settlement, payment, credited, restarted>>,
         Goes(s, op, id, n, word)
  PROVE  IInv' /\ ContractStep
<1> USE DEF IInv
<1>1. /\ slots' \in [Runners -> Tickets]
      /\ slots'[s].op = op /\ slots'[s].id = id /\ slots'[s].n = n /\ slots'[s].word = word
      /\ \A t \in Runners : t # s => slots'[t] = slots[t]
  BY GoesKeepsTypes DEF TypeOK
<1>2. TypeOK' BY <1>1 DEF TypeOK
<1>3. Carries' BY <1>1 DEF Carries
<1>4. Settled' <=> Settled BY DEF Settled
<1>5. MoneyFollowsPrice' BY <1>1, <1>4 DEF MoneyFollowsPrice
<1>6. ContractStep BY DEF ContractStep, Money!moneyVars, Held
<1> QED BY <1>2, <1>3, <1>5, <1>6

\* A handler that ends having written no money.
LEMMA LastStep ==
  ASSUME IInv, NEW s \in Runners,
         disputes' \in Seq(DisputeDocuments), DOMAIN disputes \subseteq DOMAIN disputes',
         UNCHANGED <<pickup, settlement, payment, credited, restarted>>,
         Ends(s)
  PROVE  IInv' /\ ContractStep
<1>1. Ends(s) => Goes(s, "idle", 0, 0, "") BY DEF Ends, Goes, Idle
<1>2. [op |-> "idle", id |-> 0, n |-> 0, word |-> ""] \in Tickets BY DEF Tickets
<1> QED BY <1>1, <1>2, ReadStep

LEMMA UsersStep ==
  ASSUME IInv, NEW s \in Slots, UsersAsk(s)
  PROVE  IInv' /\ ContractStep
<1> USE PriceAssumption DEF IInv
<1>s. s \in Runners BY DEF Runners
<1>0. DOMAIN disputes \subseteq DOMAIN disputes /\ DOMAIN disputes \subseteq Nat
  BY LenProperties DEF TypeOK
<1>1. ASSUME NEW status \in {"none", "auto_confirmed", "pending_confirmation"},
             NEW n \in Prices, Complete(s, status, n)
      PROVE  IInv' /\ ContractStep
  <2>1. /\ pickup.status = "in_progress" /\ settlement.status = "none"
        /\ pickup' = [pickup EXCEPT !.status = "completed"]
        /\ settlement' = [settlement EXCEPT !.status = status, !.proposed = n]
        /\ UNCHANGED <<payment, disputes, credited, restarted>>
    BY <1>1 DEF Complete, MoneyFollowsPrice
  <2>2. credited = 0 /\ payment.status = "unpaid" /\ ~Settled
        /\ \A t \in Runners : slots[t].op \notin {"credit", "claim"}
    BY <2>1 DEF MoneyFollowsPrice, Settled
  <2>3. /\ pickup'.status = "completed" /\ pickup'.price = pickup.price
        /\ settlement'.status = status
    BY <2>1 DEF TypeOK
  <2>4. Credits(status) => Settled' BY <2>3 DEF Credits, Settled, FinalStatuses
  <2>5. /\ slots' \in [Runners -> Tickets]
        /\ \/ slots' = slots
           \/ /\ Credits(status)
              /\ slots'[s].op = "credit" /\ slots'[s].n = pickup.price
              /\ \A t \in Runners : t # s => slots'[t] = slots[t]
    <3>1. CASE Credits(status)
      <4>1. Goes(s, "credit", 0, pickup.price, "") BY <1>1, <3>1 DEF Complete, Starts
      <4>2. pickup.price \in Prices BY DEF TypeOK
      <4>3. /\ slots' \in [Runners -> Tickets]
            /\ slots'[s].op = "credit" /\ slots'[s].n = pickup.price
            /\ \A t \in Runners : t # s => slots'[t] = slots[t]
        BY <1>s, <4>1, <4>2, CreditGoes DEF TypeOK
      <4> QED BY <3>1, <4>3 DEF Credits
    <3>2. CASE ~Credits(status) BY <1>1, <3>2 DEF Complete, TypeOK
    <3> QED BY <3>1, <3>2
  <2>6. TypeOK' BY <2>1, <2>5 DEF TypeOK, FinalStatuses
  <2>7. Carries' BY <2>1, <2>5 DEF Carries, TypeOK
  <2>8. MoneyFollowsPrice' BY <2>1, <2>2, <2>3, <2>4, <2>5 DEF MoneyFollowsPrice
  <2>9. ContractStep
    BY <2>1, <2>2, <2>3 DEF ContractStep, Money!MoneyNext, Money!Weigh, Held, FinalStatuses
  <2> QED BY <2>6, <2>7, <2>8, <2>9
<1>2. ASSUME ConfirmArrives(s) PROVE IInv' /\ ContractStep
  <2>1. [op |-> "confirm", id |-> 0, n |-> settlement.proposed, word |-> ""] \in Tickets
        /\ settlement.proposed \in Prices
    BY DEF Tickets, TypeOK
  <2> QED BY <1>s, <1>0, <1>2, <2>1, ReadStep DEF ConfirmArrives, Starts, ledger, TypeOK
<1>3. ASSUME ClaimArrives(s) PROVE IInv' /\ ContractStep
  <2>1. [op |-> "claim", id |-> 0, n |-> pickup.price, word |-> ""] \in Tickets
        /\ pickup.price \in Prices
    BY DEF Tickets, TypeOK
  <2>2. Settled BY <1>3 DEF ClaimArrives, IsPayable, Settled
  <2> QED BY <1>s, <1>0, <1>3, <2>1, <2>2, ReadStep DEF ClaimArrives, Starts, ledger, TypeOK
<1>4. ASSUME NEW id \in DOMAIN disputes, NEW verdict \in Verdicts, NEW n \in Prices \cup {0},
             ResolveArrives(s, id, verdict, n)
      PROVE  IInv' /\ ContractStep
  <2>1. [op |-> "resolve", id |-> id, n |-> n, word |-> verdict] \in Tickets
    BY <1>0 DEF Tickets
  <2> QED BY <1>s, <1>0, <1>4, <2>1, ReadStep DEF ResolveArrives, Starts, ledger, TypeOK
<1>5. ASSUME DisputeSettlement(s) PROVE IInv' /\ ContractStep
  <2>1. /\ settlement.status = "pending_confirmation"
        /\ settlement' = [settlement EXCEPT !.status = "disputed", !.due = FALSE]
        /\ Goes(s, "file", 0, 0, "wrong_weight_or_price")
        /\ UNCHANGED <<pickup, payment, disputes, credited, restarted>>
    BY <1>5 DEF DisputeSettlement, Starts
  <2>2. [op |-> "file", id |-> 0, n |-> 0, word |-> "wrong_weight_or_price"] \in Tickets
    BY DEF Tickets, Reasons
  <2>3. /\ slots' \in [Runners -> Tickets]
        /\ slots'[s].op = "file" /\ slots'[s].word \in Reasons
        /\ \A t \in Runners : t # s => slots'[t] = slots[t]
    BY <1>s, <2>1, <2>2, GoesKeepsTypes DEF TypeOK, Reasons
  <2>4. settlement'.status = "disputed" /\ ~Settled /\ pickup.status # "in_progress"
    BY <2>1 DEF TypeOK, Settled, FinalStatuses, MoneyFollowsPrice
  <2>5. TypeOK' BY <2>1, <2>3 DEF TypeOK
  <2>6. Carries' BY <2>1, <2>2, <2>3 DEF Carries, Reasons
  <2>7. MoneyFollowsPrice' BY <2>1, <2>3, <2>4 DEF MoneyFollowsPrice
  <2>8. ContractStep BY <2>1, <2>4 DEF ContractStep, Money!moneyVars, Held
  <2> QED BY <2>5, <2>6, <2>7, <2>8
<1>6. ASSUME DisputePayment(s) PROVE IInv' /\ ContractStep
  <2>1. /\ payment.status = "claimed"
        /\ payment' = [payment EXCEPT !.status = "disputed"]
        /\ Goes(s, "file", 0, 0, "payment_issue")
        /\ UNCHANGED <<pickup, settlement, disputes, credited, restarted>>
    BY <1>6 DEF DisputePayment, Starts
  <2>2. [op |-> "file", id |-> 0, n |-> 0, word |-> "payment_issue"] \in Tickets
    BY DEF Tickets, Reasons
  <2>3. /\ slots' \in [Runners -> Tickets]
        /\ slots'[s].op = "file" /\ slots'[s].word \in Reasons
        /\ \A t \in Runners : t # s => slots'[t] = slots[t]
    BY <1>s, <2>1, <2>2, GoesKeepsTypes DEF TypeOK, Reasons
  <2>4. /\ Settled /\ payment.amount = pickup.price
        /\ payment'.status = "disputed" /\ payment'.amount = payment.amount
    BY <2>1 DEF TypeOK, MoneyFollowsPrice
  <2>5. TypeOK' BY <2>1, <2>3 DEF TypeOK
  <2>6. Carries' BY <2>1, <2>2, <2>3 DEF Carries, Reasons
  <2>7. Settled' BY <2>1, <2>4 DEF Settled
  <2>8. MoneyFollowsPrice' BY <2>1, <2>3, <2>4, <2>7 DEF MoneyFollowsPrice
  <2>9. ContractStep
    BY <2>1, <2>4 DEF ContractStep, Money!MoneyNext, Money!Pay, Held, Settled, FinalStatuses
  <2> QED BY <2>5, <2>6, <2>8, <2>9
<1> QED BY <1>1, <1>2, <1>3, <1>4, <1>5, <1>6 DEF UsersAsk

LEMMA ServerStep ==
  ASSUME IInv, NEW s \in Runners, ServerRuns(s)
  PROVE  IInv' /\ ContractStep
<1> USE PriceAssumption DEF IInv
<1>0. DOMAIN disputes \subseteq DOMAIN disputes /\ slots[s] \in Tickets
  BY DEF TypeOK
<1>1. ASSUME CreditEarning(s) PROVE IInv' /\ ContractStep
  <2>1. /\ slots[s].op = "credit"
        /\ credited' = IF credited = 0 THEN slots[s].n ELSE credited
        /\ UNCHANGED <<pickup, settlement, payment, disputes, restarted>>
    BY <1>1 DEF CreditEarning
  <2>2. Settled /\ slots[s].n = pickup.price /\ credited' = pickup.price
    BY <2>1 DEF MoneyFollowsPrice
  <2>3. Settled' BY <2>1, <2>2 DEF Settled
  <2>4. /\ slots' \in [Runners -> Tickets]
        /\ slots'[s].op = "idle"
        /\ \A t \in Runners : t # s => slots'[t] = slots[t]
    BY <1>1, EndsKeepsTypes DEF CreditEarning, TypeOK
  <2>5. TypeOK' BY <2>1, <2>2, <2>4 DEF TypeOK
  <2>6. Carries' BY <2>1, <2>4 DEF Carries
  <2>7. MoneyFollowsPrice' BY <2>1, <2>2, <2>3, <2>4 DEF MoneyFollowsPrice
  <2>8. ContractStep
    BY <2>1, <2>2 DEF ContractStep, Money!MoneyNext, Money!Credit, Money!moneyVars, Held,
                      Settled, FinalStatuses, MoneyFollowsPrice
  <2> QED BY <2>5, <2>6, <2>7, <2>8
<1>2. ASSUME Finalize(s) PROVE IInv' /\ ContractStep
  <2> DEFINE final == IF slots[s].op = "rule" THEN "resolved" ELSE "confirmed"
  <2>1. /\ slots[s].op \in {"confirm", "rule"}
        /\ settlement.status \in {"pending_confirmation", "disputed"}
        /\ settlement' = [settlement EXCEPT !.status = final]
        /\ pickup' = [pickup EXCEPT !.price = slots[s].n]
        /\ Goes(s, "credit", 0, slots[s].n, "")
        /\ UNCHANGED <<payment, disputes, credited, restarted>>
    BY <1>2 DEF Finalize, From
  <2>2. slots[s].n \in Prices BY <2>1 DEF Carries
  <2>4. /\ slots' \in [Runners -> Tickets]
        /\ slots'[s].op = "credit" /\ slots'[s].n = slots[s].n
        /\ \A t \in Runners : t # s => slots'[t] = slots[t]
    BY <2>1, <2>2, CreditGoes DEF TypeOK
  <2>5. /\ ~Settled /\ credited = 0 /\ payment.status = "unpaid"
        /\ \A t \in Runners : slots[t].op \notin {"credit", "claim"}
        /\ pickup.status = "completed"
    BY <2>1 DEF Settled, FinalStatuses, MoneyFollowsPrice, TypeOK
  <2>6. /\ pickup'.status = "completed" /\ pickup'.price = slots[s].n
        /\ settlement'.status \in {"resolved", "confirmed"}
    BY <2>1, <2>5 DEF TypeOK
  <2>7. Settled' BY <2>6 DEF Settled, FinalStatuses
  <2>8. TypeOK' BY <2>1, <2>2, <2>4 DEF TypeOK, FinalStatuses
  <2>9. Carries' BY <2>1, <2>2, <2>4 DEF Carries
  <2>10. MoneyFollowsPrice' BY <2>1, <2>4, <2>5, <2>6, <2>7 DEF MoneyFollowsPrice
  <2>11. ContractStep
    BY <2>1, <2>2, <2>5, <2>6 DEF ContractStep, Money!MoneyNext, Money!Fix, Held
  <2> QED BY <2>8, <2>9, <2>10, <2>11
<1>3. ASSUME FinalizeFails(s) PROVE IInv' /\ ContractStep
  BY <1>0, <1>3, LastStep DEF FinalizeFails, ledger, TypeOK
<1>4. ASSUME FileApplies(s) PROVE IInv' /\ ContractStep
  <2>1. /\ disputes' = Filed("requester", slots[s].word) /\ Ends(s)
        /\ UNCHANGED <<pickup, settlement, payment, credited, restarted>>
        /\ slots[s].word \in Reasons
    BY <1>4 DEF FileApplies, Carries
  <2>2. disputes' \in Seq(DisputeDocuments) /\ DOMAIN disputes \subseteq DOMAIN disputes'
    BY <2>1, FiledKeeps DEF TypeOK, Parties
  <2> QED BY <2>1, <2>2, LastStep
<1>5. ASSUME ResolveSaves(s) PROVE IInv' /\ ContractStep
  <2> DEFINE id   == slots[s].id
             n    == slots[s].n
             word == slots[s].word
  <2>1. /\ id \in DOMAIN disputes /\ word \in Verdicts
        /\ disputes' = [disputes EXCEPT ![id].status = word]
        /\ UNCHANGED <<pickup, settlement, payment, credited, restarted>>
    BY <1>5 DEF ResolveSaves, Carries
  <2>2. disputes' \in Seq(DisputeDocuments) /\ DOMAIN disputes' = DOMAIN disputes
    BY <2>1, DecidedKeeps DEF TypeOK
  <2>3. Goes(s, "held", 0, n, word) \/ Goes(s, "close", 0, 0, word) \/ Ends(s)
    BY <1>5 DEF ResolveSaves
  <2>4. /\ [op |-> "held", id |-> 0, n |-> n, word |-> word] \in Tickets
        /\ [op |-> "close", id |-> 0, n |-> 0, word |-> word] \in Tickets
    BY <1>0 DEF Tickets
  <2> HIDE DEF n, word, id
  <2>5. CASE Goes(s, "held", 0, n, word) BY <2>1, <2>2, <2>4, <2>5, ReadStep
  <2>6. CASE Goes(s, "close", 0, 0, word) BY <2>1, <2>2, <2>4, <2>6, ReadStep
  <2>7. CASE Ends(s) BY <2>1, <2>2, <2>7, LastStep
  <2> QED BY <2>3, <2>5, <2>6, <2>7
<1>6. ASSUME ReadHeld(s) PROVE IInv' /\ ContractStep
  <2>1. CASE settlement.status # "disputed"
    BY <1>0, <1>6, <2>1, LastStep DEF ReadHeld, ledger, TypeOK
  <2>2. CASE settlement.status = "disputed"
    <3> DEFINE n == Ruling(slots[s].word, slots[s].n)
    <3>1. n \in Prices BY <1>0 DEF Ruling, TypeOK, Tickets
    <3>2. [op |-> "rule", id |-> 0, n |-> n, word |-> ""] \in Tickets BY <3>1 DEF Tickets
    <3>3. Goes(s, "rule", 0, n, "") /\ UNCHANGED <<ledger, restarted>>
      BY <1>6, <2>2 DEF ReadHeld
    <3> HIDE DEF n
    <3> QED BY <1>0, <3>1, <3>2, <3>3, ReadStep DEF ledger, TypeOK
  <2> QED BY <2>1, <2>2
<1>7. ASSUME ClosePayment(s) PROVE IInv' /\ ContractStep
  <2> DEFINE next == IF payment.status # "disputed" THEN payment.status
                     ELSE IF slots[s].word = "dismissed" THEN "confirmed" ELSE "resolved"
  <2>1. /\ payment' = [payment EXCEPT !.status = next]
        /\ Ends(s)
        /\ UNCHANGED <<pickup, settlement, disputes, credited, restarted>>
    BY <1>7 DEF ClosePayment
  <2>2. /\ payment'.status = next /\ payment'.amount = payment.amount
        /\ payment.status # "disputed" => payment' = payment
    BY <2>1 DEF TypeOK
  <2>3. /\ slots' \in [Runners -> Tickets]
        /\ slots'[s].op = "idle"
        /\ \A t \in Runners : t # s => slots'[t] = slots[t]
    BY <2>1, EndsKeepsTypes DEF TypeOK
  <2>4. Settled' <=> Settled BY <2>1 DEF Settled
  <2>5. TypeOK' BY <2>1, <2>3 DEF TypeOK
  <2>6. Carries' BY <2>1, <2>3 DEF Carries
  <2>7. MoneyFollowsPrice' BY <2>1, <2>2, <2>3, <2>4 DEF MoneyFollowsPrice
  <2>8. ContractStep
    <3>1. CASE payment.status # "disputed"
      BY <2>1, <2>2, <3>1 DEF ContractStep, Money!moneyVars, Held
    <3>2. CASE payment.status = "disputed"
      BY <2>1, <2>2, <3>2 DEF ContractStep, Money!MoneyNext, Money!Pay, Held, Settled,
                              FinalStatuses, MoneyFollowsPrice
    <3> QED BY <3>1, <3>2
  <2> QED BY <2>5, <2>6, <2>7, <2>8
<1>8. ASSUME ClaimApplies(s) PROVE IInv' /\ ContractStep
  <2>1. /\ slots[s].op = "claim"
        /\ payment' = IF Claimable THEN [status |-> "claimed", amount |-> slots[s].n] ELSE payment
        /\ UNCHANGED <<pickup, settlement, disputes, credited, restarted>>
    BY <1>8 DEF ClaimApplies
  <2>2. Settled /\ slots[s].n = pickup.price /\ slots[s].n \in Prices
    BY <2>1 DEF MoneyFollowsPrice, Carries
  <2>3. \/ payment' = payment
        \/ payment.status = "unpaid" /\ payment' = [status |-> "claimed", amount |-> pickup.price]
    BY <2>1, <2>2 DEF Claimable
  <2>4. /\ slots' \in [Runners -> Tickets]
        /\ slots'[s].op = "idle"
        /\ \A t \in Runners : t # s => slots'[t] = slots[t]
    BY <1>8, EndsKeepsTypes DEF ClaimApplies, TypeOK
  <2>5. Settled' BY <2>1, <2>2 DEF Settled
  <2>6. TypeOK' BY <2>1, <2>2, <2>3, <2>4 DEF TypeOK
  <2>7. Carries' BY <2>1, <2>4 DEF Carries
  <2>8. MoneyFollowsPrice' BY <2>1, <2>2, <2>3, <2>4, <2>5 DEF MoneyFollowsPrice
  <2>9. ContractStep
    BY <2>1, <2>2, <2>3 DEF ContractStep, Money!MoneyNext, Money!Pay, Money!moneyVars, Held,
                            Settled, FinalStatuses
  <2> QED BY <2>6, <2>7, <2>8, <2>9
<1> QED BY <1>1, <1>2, <1>3, <1>4, <1>5, <1>6, <1>7, <1>8 DEF ServerRuns

LEMMA OtherStep ==
  ASSUME IInv,
         \/ AutoConfirmFinds \/ ConfirmReceived \/ ConfirmWindowEnds \/ Restart
         \/ \E by \in Parties, reason \in Reasons : CreateDispute(by, reason)
  PROVE  IInv' /\ ContractStep
<1> USE PriceAssumption DEF IInv
<1>0. DOMAIN disputes \subseteq DOMAIN disputes OBVIOUS
<1>1. ASSUME AutoConfirmFinds PROVE IInv' /\ ContractStep
  <2>1. [op |-> "confirm", id |-> 0, n |-> settlement.proposed, word |-> ""] \in Tickets
        /\ settlement.proposed \in Prices /\ "job" \in Runners
    BY DEF Tickets, TypeOK, Runners
  <2> QED BY <1>0, <1>1, <2>1, ReadStep DEF AutoConfirmFinds, ledger, TypeOK
<1>2. ASSUME ConfirmReceived PROVE IInv' /\ ContractStep
  <2>1. /\ payment.status = "claimed"
        /\ payment' = [payment EXCEPT !.status = "confirmed"]
        /\ UNCHANGED <<pickup, settlement, disputes, credited, slots, restarted>>
    BY <1>2 DEF ConfirmReceived
  <2>2. /\ Settled /\ Settled' /\ payment.amount = pickup.price
        /\ payment'.status = "confirmed" /\ payment'.amount = payment.amount
    BY <2>1 DEF TypeOK, MoneyFollowsPrice, Settled
  <2>3. TypeOK' /\ Carries' BY <2>1 DEF TypeOK, Carries
  <2>4. MoneyFollowsPrice' BY <2>1, <2>2 DEF MoneyFollowsPrice
  <2>5. ContractStep
    BY <2>1, <2>2 DEF ContractStep, Money!MoneyNext, Money!Pay, Held, Settled, FinalStatuses
  <2> QED BY <2>3, <2>4, <2>5
<1>3. ASSUME ConfirmWindowEnds PROVE IInv' /\ ContractStep
  <2>1. /\ settlement' = [settlement EXCEPT !.due = TRUE]
        /\ UNCHANGED <<pickup, payment, disputes, credited, slots, restarted>>
    BY <1>3 DEF ConfirmWindowEnds
  <2>2. settlement'.status = settlement.status BY <2>1 DEF TypeOK
  <2>3. TypeOK' /\ Carries' BY <2>1 DEF TypeOK, Carries
  <2>4. MoneyFollowsPrice' BY <2>1, <2>2 DEF MoneyFollowsPrice, Settled
  <2>5. ContractStep BY <2>1, <2>2 DEF ContractStep, Money!moneyVars, Held
  <2> QED BY <2>3, <2>4, <2>5
<1>4. ASSUME Restart PROVE IInv' /\ ContractStep
  <2>1. /\ slots' = [s \in Runners |-> Idle] /\ restarted' = TRUE
        /\ UNCHANGED <<pickup, settlement, payment, disputes, credited>>
    BY <1>4 DEF Restart, ledger
  <2>2. Idle \in Tickets /\ Idle.op = "idle" BY DEF Idle, Tickets
  <2>3. TypeOK' BY <2>1, <2>2 DEF TypeOK
  <2>4. Carries' BY <2>1, <2>2 DEF Carries
  <2>5. MoneyFollowsPrice' BY <2>1, <2>2 DEF MoneyFollowsPrice, Settled
  <2>6. ContractStep BY <2>1 DEF ContractStep, Money!moneyVars, Held
  <2> QED BY <2>3, <2>4, <2>5, <2>6
<1>5. ASSUME NEW by \in Parties, NEW reason \in Reasons, CreateDispute(by, reason)
      PROVE  IInv' /\ ContractStep
  <2>1. /\ disputes' = Filed(by, reason)
        /\ UNCHANGED <<pickup, settlement, payment, credited, slots, restarted>>
    BY <1>5 DEF CreateDispute
  <2>2. disputes' \in Seq(DisputeDocuments) /\ DOMAIN disputes \subseteq DOMAIN disputes'
    BY <2>1, FiledKeeps DEF TypeOK
  <2>3. TypeOK' BY <2>1, <2>2 DEF TypeOK
  <2>4. Carries' BY <2>1, <2>2 DEF Carries
  <2>5. MoneyFollowsPrice' BY <2>1 DEF MoneyFollowsPrice, Settled
  <2>6. ContractStep BY <2>1 DEF ContractStep, Money!moneyVars, Held
  <2> QED BY <2>3, <2>4, <2>5, <2>6
<1> QED BY <1>1, <1>2, <1>3, <1>4, <1>5

\* No step breaks the invariant or the promise.
LEMMA StepKeeps ==
  ASSUME IInv, [Next]_vars
  PROVE  IInv' /\ ContractStep
<1>1. CASE Next BY <1>1, UsersStep, ServerStep, OtherStep DEF Next
<1>2. CASE UNCHANGED vars
  BY <1>2 DEF vars, IInv, TypeOK, Carries, MoneyFollowsPrice, Settled, ContractStep,
              Money!moneyVars, Held
<1> QED BY <1>1, <1>2

\* The inductive invariant holds in every reachable state.
LEMMA InvariantHolds == Spec => []IInv
<1>1. IInv /\ [Next]_vars => IInv' BY StepKeeps
<1> QED BY IInvInit, <1>1, PTL DEF Spec

-----------------------------------------------------------------------------
(* The credit of a final price.                                            *)

\* Work of a handler that carries no credit, and settles nothing, keeps the
\* credit on its way.
LEMMA CreditGoesOn ==
  ASSUME CreditIsOnItsWay, NEW s \in Runners, slots[s].op # "credit",
         \A t \in Runners : t # s => slots'[t] = slots[t],
         Settled' => Settled, UNCHANGED <<credited, restarted>>
  PROVE  CreditIsOnItsWay'
BY DEF CreditIsOnItsWay

\* The same of a step that leaves the settlement alone.
LEMMA WorkOnTheSide ==
  ASSUME TypeOK, CreditIsOnItsWay, NEW s \in Runners, slots[s].op # "credit",
         Ends(s) \/ \E op, id, n, word : Goes(s, op, id, n, word),
         UNCHANGED <<pickup, settlement, credited, restarted>>
  PROVE  CreditIsOnItsWay'
<1>1. \A t \in Runners : t # s => slots'[t] = slots[t] BY DEF TypeOK, Ends, Goes
<1>2. Settled' => Settled BY DEF Settled
<1> QED BY <1>1, <1>2, CreditGoesOn

LEMMA UsersCredit ==
  ASSUME IInv, CreditIsOnItsWay, NEW s \in Slots, UsersAsk(s)
  PROVE  CreditIsOnItsWay'
<1>0. TypeOK /\ s \in Runners BY DEF IInv, Runners
<1>1. ASSUME NEW status \in {"none", "auto_confirmed", "pending_confirmation"},
             NEW n \in Prices, Complete(s, status, n)
      PROVE  CreditIsOnItsWay'
  <2>1. CASE Credits(status)
    <3>1. Goes(s, "credit", 0, pickup.price, "") BY <1>1, <2>1 DEF Complete, Starts
    <3>2. slots'[s].op = "credit" BY <1>0, <3>1, CreditGoes DEF TypeOK
    <3> QED BY <1>0, <3>2 DEF CreditIsOnItsWay
  <2>2. CASE ~Credits(status)
    <3>1. settlement' = [settlement EXCEPT !.status = status, !.proposed = n]
      BY <1>1 DEF Complete
    <3>2. settlement'.status = "pending_confirmation"
      BY <1>0, <2>2, <3>1 DEF Credits, TypeOK
    <3>3. ~Settled' BY <3>2 DEF Settled, FinalStatuses
    <3> QED BY <3>3 DEF CreditIsOnItsWay
  <2> QED BY <2>1, <2>2
<1>2. ASSUME DisputeSettlement(s) PROVE CreditIsOnItsWay'
  <2>1. settlement'.status = "disputed" BY <1>0, <1>2 DEF DisputeSettlement, TypeOK
  <2>2. ~Settled' BY <2>1 DEF Settled, FinalStatuses
  <2> QED BY <2>2 DEF CreditIsOnItsWay
<1>3. ASSUME NEW op, NEW id, NEW n, NEW word, Starts(s, op, id, n, word),
             UNCHANGED <<pickup, settlement, credited, restarted>>
      PROVE  CreditIsOnItsWay'
  <2>1. Idle.op # "credit" BY DEF Idle
  <2>2. slots[s].op # "credit" /\ Goes(s, op, id, n, word) BY <1>3, <2>1 DEF Starts
  <2> QED BY <1>0, <1>3, <2>2, WorkOnTheSide
<1>4. ASSUME ConfirmArrives(s) \/ ClaimArrives(s) \/ DisputePayment(s)
      PROVE  CreditIsOnItsWay'
  BY <1>3, <1>4 DEF ConfirmArrives, ClaimArrives, DisputePayment, ledger
<1>5. ASSUME NEW id \in DOMAIN disputes, NEW verdict \in Verdicts, NEW n \in Prices \cup {0},
             ResolveArrives(s, id, verdict, n)
      PROVE  CreditIsOnItsWay'
  BY <1>3, <1>5 DEF ResolveArrives, ledger
<1> QED BY <1>1, <1>2, <1>4, <1>5 DEF UsersAsk

LEMMA ServerCredit ==
  ASSUME IInv, CreditIsOnItsWay, NEW s \in Runners, ServerRuns(s)
  PROVE  CreditIsOnItsWay'
<1>0. TypeOK /\ slots[s] \in Tickets BY DEF IInv, TypeOK
<1>1. ASSUME CreditEarning(s) PROVE CreditIsOnItsWay'
  <2>1. slots[s].n \in Nat \ {0} BY <1>1, PriceAssumption DEF CreditEarning, IInv, Carries
  <2>2. credited' # 0 BY <1>1, <2>1 DEF CreditEarning
  <2> QED BY <2>2 DEF CreditIsOnItsWay
<1>2. ASSUME Finalize(s) PROVE CreditIsOnItsWay'
  <2>1. slots[s].n \in Prices /\ Goes(s, "credit", 0, slots[s].n, "")
    BY <1>2 DEF Finalize, IInv, Carries
  <2>2. slots'[s].op = "credit" BY <1>0, <2>1, CreditGoes DEF TypeOK
  <2> QED BY <2>2 DEF CreditIsOnItsWay
<1>3. ASSUME slots[s].op # "credit",
             Ends(s) \/ \E op, id, n, word : Goes(s, op, id, n, word),
             UNCHANGED <<pickup, settlement, credited, restarted>>
      PROVE  CreditIsOnItsWay'
  BY <1>0, <1>3, WorkOnTheSide
<1>4. ASSUME FinalizeFails(s) \/ FileApplies(s) \/ ClosePayment(s) \/ ClaimApplies(s)
      PROVE  CreditIsOnItsWay'
  BY <1>3, <1>4 DEF FinalizeFails, FileApplies, ClosePayment, ClaimApplies, ledger
<1>5. ASSUME ResolveSaves(s) PROVE CreditIsOnItsWay'
  <2>1. Ends(s) \/ \E op, id, n, word : Goes(s, op, id, n, word)
    BY <1>5 DEF ResolveSaves
  <2>2. slots[s].op # "credit" /\ UNCHANGED <<pickup, settlement, credited, restarted>>
    BY <1>5 DEF ResolveSaves
  <2> QED BY <1>3, <2>1, <2>2
<1>6. ASSUME ReadHeld(s) PROVE CreditIsOnItsWay'
  <2>1. Ends(s) \/ \E op, id, n, word : Goes(s, op, id, n, word)
    BY <1>6 DEF ReadHeld
  <2>2. slots[s].op # "credit" /\ UNCHANGED <<pickup, settlement, credited, restarted>>
    BY <1>6 DEF ReadHeld, ledger
  <2> QED BY <1>3, <2>1, <2>2
<1> QED BY <1>1, <1>2, <1>4, <1>5, <1>6 DEF ServerRuns

LEMMA OtherCredit ==
  ASSUME IInv, CreditIsOnItsWay,
         \/ AutoConfirmFinds \/ ConfirmReceived \/ ConfirmWindowEnds \/ Restart
         \/ \E by \in Parties, reason \in Reasons : CreateDispute(by, reason)
  PROVE  CreditIsOnItsWay'
<1>0. TypeOK /\ "job" \in Runners BY DEF IInv, Runners
<1>1. ASSUME AutoConfirmFinds PROVE CreditIsOnItsWay'
  <2>0. Idle.op # "credit" BY DEF Idle
  <2>1. slots["job"].op # "credit" BY <1>1, <2>0 DEF AutoConfirmFinds
  <2>2. \E op, id, n, word : Goes("job", op, id, n, word) BY <1>1 DEF AutoConfirmFinds
  <2>3. UNCHANGED <<pickup, settlement, credited, restarted>>
    BY <1>1 DEF AutoConfirmFinds, ledger
  <2> QED BY <1>0, <2>1, <2>2, <2>3, WorkOnTheSide
<1>2. ASSUME Restart PROVE CreditIsOnItsWay'
  BY <1>2 DEF Restart, CreditIsOnItsWay
<1>3. ASSUME UNCHANGED <<pickup, slots, credited, restarted>>,
             settlement'.status = settlement.status
      PROVE  CreditIsOnItsWay'
  BY <1>3 DEF CreditIsOnItsWay, Settled
<1>4. ASSUME ConfirmWindowEnds PROVE CreditIsOnItsWay'
  <2>1. settlement'.status = settlement.status BY <1>0, <1>4 DEF ConfirmWindowEnds, TypeOK
  <2> QED BY <1>3, <1>4, <2>1 DEF ConfirmWindowEnds
<1>5. ASSUME ConfirmReceived PROVE CreditIsOnItsWay'
  BY <1>3, <1>5 DEF ConfirmReceived
<1>6. ASSUME NEW by \in Parties, NEW reason \in Reasons, CreateDispute(by, reason)
      PROVE  CreditIsOnItsWay'
  BY <1>3, <1>6 DEF CreateDispute
<1> QED BY <1>1, <1>2, <1>4, <1>5, <1>6

-----------------------------------------------------------------------------
(* The theorems.                                                           *)

\* The documents and the running handlers keep their types.
THEOREM SettlementTypes == Spec => []TypeOK
<1>1. IInv => TypeOK BY DEF IInv
<1> QED BY InvariantHolds, <1>1, PTL

\* However the confirmation, the cron job, the admins and the payment are
\* interleaved, nothing moves while the weight is open (finalizeSettlement,
\* isPayable).
THEOREM HeldMoney == Spec => []HeldMoneyStaysHeld
<1>1. IInv => HeldMoneyStaysHeld
  BY DEF IInv, MoneyFollowsPrice, HeldMoneyStaysHeld, Held, Settled, FinalStatuses
<1> QED BY InvariantHolds, <1>1, PTL

\* The wallet and the payment are written from what a handler read earlier, and
\* still agree with the price of the pickup.
THEOREM OneFinalPrice == Spec => []OnePrice
<1>1. IInv => OnePrice BY DEF IInv, MoneyFollowsPrice, OnePrice
<1> QED BY InvariantHolds, <1>1, PTL

\* A settlement that is final has credited its collector, or has a handler that
\* is about to, as long as the server does not stop: each of the ways a price
\* becomes final (weighed in tolerance, confirmed, confirmed by the job, ruled)
\* starts the credit, and no other handler takes it away.
THEOREM CreditIsNotLost == Spec => []CreditIsOnItsWay
<1>1. Init => CreditIsOnItsWay BY DEF Init, CreditIsOnItsWay, Settled
<1>2. IInv /\ CreditIsOnItsWay /\ [Next]_vars => CreditIsOnItsWay'
  <2>1. CASE Next BY <2>1, UsersCredit, ServerCredit, OtherCredit DEF Next
  <2>2. CASE UNCHANGED vars BY <2>2 DEF vars, CreditIsOnItsWay, Settled
  <2> QED BY <2>1, <2>2
<1> QED BY <1>1, <1>2, InvariantHolds, PTL DEF Spec

\* The handlers keep the promise made to the two parties.
THEOREM MoneyRefinement == Spec => ImplementsContract
<1>1. Init => Money!MoneyInit
  BY DEF Init, Money!MoneyInit, Held
<1>2. IInv /\ [Next]_vars => [Money!MoneyNext]_(Money!moneyVars)
  BY StepKeeps DEF ContractStep
<1> QED BY <1>1, <1>2, InvariantHolds, PTL DEF Spec, ImplementsContract, Money!MoneySpec
=============================================================================
