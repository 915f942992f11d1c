---------------------------- MODULE Users_proofs ----------------------------
(***************************************************************************)
(* Proofs about what the server keeps of its users: money and promises      *)
(* (Wallet, Coupons), accounts and standing (Accounts, RatingGate,          *)
(* Verification, Teams), for any number of collectors, pickups, running     *)
(* handlers, ratings, sessions, submissions, teams and members.             *)
(***************************************************************************)
EXTENDS Wallet, Coupons, Accounts, RatingGate, Verification, Teams, Sequence_lemmas

-----------------------------------------------------------------------------
(* Wallet: types.                                                           *)

Ledger ==
  [type : {"earning", "payout", "subscription", "referral_bonus"}, collector : Collectors,
   amount : Nat, pickup : Pickups \cup {NoRef}, request : Nat \cup {NoRef}]

Asked == [collector : Collectors, amount : Payouts, status : {"pending", "approved", "rejected"}]

\* Requests are never taken back, so what a handler carries stays fit.
LEMMA StepsStay ==
  ASSUME DOMAIN requests \subseteq DOMAIN requests'
  PROVE  Steps \subseteq Steps'
BY DEF Steps, Idle

LEMMA StepTyped ==
  ASSUME slots \in [Slots -> Steps], DOMAIN requests \subseteq DOMAIN requests',
         NEW s, NEW r, r \in Steps', Goes(s, r)
  PROVE  slots' \in [Slots -> Steps']
<1>1. Steps \subseteq Steps' BY StepsStay
<1> QED BY <1>1 DEF Goes

LEMMA IdleTyped == Idle \in Steps /\ Idle \in Steps'
BY DEF Steps

\* What each step carries.
LEMMA Carries ==
  ASSUME NEW s \in Slots, slots \in [Slots -> Steps]
  PROVE  /\ At(s, "payout") => slots[s].who \in Collectors /\ slots[s].amount \in Payouts
         /\ At(s, "approve") \/ At(s, "debit") => slots[s].id \in DOMAIN requests
         /\ slots[s].op \in {"pay", "purchase", "grant", "activate"} =>
              /\ slots[s] = [op |-> slots[s].op, who |-> slots[s].who,
                             planKey |-> slots[s].planKey, until |-> slots[s].until]
              /\ slots[s].who \in Collectors
              /\ slots[s].planKey \in PlanKeys
              /\ slots[s].until \in Nat
         /\ At(s, "claim") \/ At(s, "bonus") => slots[s].who \in Referrals
<1>1. slots[s] \in Steps OBVIOUS
<1> QED BY <1>1 DEF Steps, At, Idle

LEMMA PlanStepTyped ==
  ASSUME WalletTypeOK, NEW s \in Slots, slots[s].op \in {"pay", "purchase", "grant", "activate"},
         NEW op \in {"pay", "purchase", "grant", "activate"}
  PROVE  [slots[s] EXCEPT !.op = op] \in Steps
<1> DEFINE r == [op |-> slots[s].op, who |-> slots[s].who, planKey |-> slots[s].planKey,
                 until |-> slots[s].until]
<1>1. slots[s] = r /\ r.who \in Collectors /\ r.planKey \in PlanKeys /\ r.until \in Nat
  BY Carries DEF WalletTypeOK
<1>2. [r EXCEPT !.op = op] \in Steps BY <1>1 DEF Steps
<1> HIDE DEF r
<1> QED BY <1>1, <1>2

LEMMA PlanStepAt ==
  ASSUME NEW s \in Slots, slots \in [Slots -> Steps], NEW op,
         slots[s].op \in {"pay", "purchase", "grant", "activate"}
  PROVE  [slots[s] EXCEPT !.op = op] =
           [op |-> op, who |-> slots[s].who, planKey |-> slots[s].planKey, until |-> slots[s].until]
BY Carries

LEMMA NextPeriodTyped ==
  ASSUME WalletTypeOK, NEW c \in Collectors, NEW plan
  PROVE  NextPeriod(c, plan) \in Nat
BY DEF WalletTypeOK, NextPeriod, PlanOf

LEMMA VerdictTyped ==
  ASSUME NEW doc \in Asked, NEW status \in {"pending", "approved", "rejected"}
  PROVE  /\ [doc EXCEPT !.status = status] \in Asked
         /\ [doc EXCEPT !.status = status].status = status
         /\ [doc EXCEPT !.status = status].collector = doc.collector
         /\ [doc EXCEPT !.status = status].amount = doc.amount
BY DEF Asked

LEMMA WalletTypesInit == WalletInit => WalletTypeOK
BY IdleTyped DEF WalletInit, WalletTypeOK, AllIdle

LEMMA WalletTypesStep == WalletTypeOK /\ [WalletNext]_walletVars => WalletTypeOK'
<1> SUFFICES ASSUME WalletTypeOK, [WalletNext]_walletVars PROVE WalletTypeOK' OBVIOUS
<1> USE WalletAssumption
<1>0. /\ transactions \subseteq Ledger /\ requests \in Seq(Asked)
      /\ slots \in [Slots -> Steps]
  BY DEF WalletTypeOK, Ledger, Asked
<1>1. ASSUME NEW c \in Collectors, NEW p \in Pickups, Earn(c, p) PROVE WalletTypeOK'
  <2>1. Entry("earning", c, Earning, p, NoRef) \in Ledger BY DEF Entry, Ledger
  <2> QED BY <1>1, <2>1 DEF Earn, WalletTypeOK, Ledger, Steps
<1>2. ASSUME UNCHANGED walletDocs, NEW s \in Slots, NEW r \in Steps, Goes(s, r) PROVE WalletTypeOK'
  <2>1. slots' \in [Slots -> Steps']
    BY <1>0, <1>2, StepTyped, StepsStay DEF walletDocs
  <2> QED BY <1>2, <2>1 DEF WalletTypeOK, walletDocs
<1>3. ASSUME NEW s \in Slots, NEW c \in Collectors, PlansAndPayouts(s, c) PROVE WalletTypeOK'
  <2>1. ASSUME NEW amount \in Payouts, PayoutArrives(s, c, amount) PROVE WalletTypeOK'
    <3>1. [op |-> "payout", who |-> c, amount |-> amount] \in Steps BY DEF Steps
    <3> QED BY <1>2, <2>1, <3>1 DEF PayoutArrives, Starts
  <2>2. ASSUME NEW plan \in PlanKeys, NEW op \in {"pay", "grant"},
               Starts(s, [op |-> op, who |-> c, planKey |-> plan, until |-> NextPeriod(c, plan)]),
               UNCHANGED walletDocs
        PROVE  WalletTypeOK'
    <3>1. [op |-> op, who |-> c, planKey |-> plan, until |-> NextPeriod(c, plan)] \in Steps
      BY NextPeriodTyped DEF Steps
    <3> QED BY <1>2, <2>2, <3>1 DEF Starts
  <2> QED BY <1>3, <2>1, <2>2 DEF PlansAndPayouts, SubscribeArrives, GrantArrives
<1>4. ASSUME NEW s \in Slots, NEW r \in Referrals, ReferralArrives(s, r) PROVE WalletTypeOK'
  <2>1. [op |-> "claim", who |-> r] \in Steps BY DEF Steps
  <2> QED BY <1>2, <1>4, <2>1 DEF ReferralArrives, Starts
<1>5. ASSUME NEW s \in Slots, WalletStep(s) PROVE WalletTypeOK'
  <2>1. CASE PayoutApplies(s)
    <3> DEFINE doc == [collector |-> slots[s].who, amount |-> slots[s].amount, status |-> "pending"]
    <3>1. doc \in Asked BY <1>0, <2>1, Carries DEF PayoutApplies, Asked
    <3>2. requests' \in Seq(Asked) /\ DOMAIN requests \subseteq DOMAIN requests'
      <4> HIDE DEF doc
      <4>1. Append(requests, doc) \in Seq(Asked) /\ DOMAIN requests \subseteq DOMAIN Append(requests, doc)
        BY <1>0, <3>1
      <4> QED BY <1>0, <2>1, <4>1 DEF PayoutApplies, doc
    <3>3. slots' \in [Slots -> Steps']
      BY <1>0, <2>1, <3>2, StepTyped, IdleTyped DEF PayoutApplies, Ends
    <3> QED BY <2>1, <3>2, <3>3 DEF PayoutApplies, WalletTypeOK, Asked
  <2>2. CASE ApproveApplies(s)
    <3> DEFINE i == slots[s].id
    <3>1. i \in DOMAIN requests BY <1>0, <2>2, Carries DEF ApproveApplies
    <3>2. requests' \in Seq(Asked) /\ DOMAIN requests \subseteq DOMAIN requests'
      <4>1. [requests[i] EXCEPT !.status = "approved"] \in Asked
        <5>1. requests[i] \in Asked BY <1>0, <3>1
        <5> QED BY <5>1, VerdictTyped
      <4>2. requests' \in {requests, [requests EXCEPT ![i] = [requests[i] EXCEPT !.status = "approved"]]}
        BY <2>2 DEF ApproveApplies
      <4> HIDE DEF i
      <4> QED BY <1>0, <3>1, <4>1, <4>2
    <3>3. [op |-> "debit", id |-> i] \in Steps BY <3>1 DEF Steps
    <3>4. [op |-> "debit", id |-> i] \in Steps' BY <3>2, <3>3, StepsStay
    <3>5. slots' \in [Slots -> Steps']
      BY <1>0, <2>2, <3>2, <3>4, StepTyped, IdleTyped DEF ApproveApplies, Ends
    <3> QED BY <2>2, <3>2, <3>5 DEF ApproveApplies, WalletTypeOK, Asked
  <2>3. CASE Debit(s)
    <3> DEFINE i == slots[s].id
    <3>1. i \in DOMAIN requests BY <1>0, <2>3, Carries DEF Debit
    <3>2. i \in Nat /\ requests[i] \in Asked BY <1>0, <3>1
    <3>3. Entry("payout", requests[i].collector, requests[i].amount, NoRef, i) \in Ledger
      BY <3>2 DEF Entry, Ledger, Asked
    <3>4. transactions' \subseteq Ledger BY <1>0, <2>3, <3>3 DEF Debit
    <3>5. slots' \in [Slots -> Steps']
      BY <1>0, <2>3, StepTyped, IdleTyped DEF Debit, Ends
    <3> QED BY <2>3, <3>4, <3>5 DEF Debit, WalletTypeOK, Ledger
  <2>4. CASE SubscribePays(s)
    <3>1. slots[s].who \in Collectors /\ [slots[s] EXCEPT !.op = "purchase"] \in Steps
      BY <1>0, <2>4, Carries, PlanStepTyped DEF SubscribePays, At
    <3>2. Entry("subscription", slots[s].who, PlanPrice, NoRef, NoRef) \in Ledger
      BY <3>1 DEF Entry, Ledger
    <3>3. transactions' \subseteq Ledger BY <1>0, <2>4, <3>2 DEF SubscribePays
    <3>4. requests' = requests /\ Steps \subseteq Steps' BY <2>4, StepsStay DEF SubscribePays
    <3>5. slots' \in [Slots -> Steps']
      BY <1>0, <2>4, <3>1, <3>4, StepTyped, IdleTyped DEF SubscribePays, Ends
    <3> QED BY <2>4, <3>3, <3>5 DEF SubscribePays, WalletTypeOK, Ledger
  <2>5. CASE RecordPurchase(s)
    <3>1. /\ Purchase(slots[s]) \in [collector : Collectors, planKey : PlanKeys, until : Nat,
                                     method : {"wallet", "admin"}]
          /\ [slots[s] EXCEPT !.op = "activate"] \in Steps
      BY <1>0, <2>5, Carries, PlanStepTyped DEF RecordPurchase, Purchase
    <3>2. requests' = requests /\ Steps \subseteq Steps' BY <2>5, StepsStay DEF RecordPurchase
    <3>3. slots' \in [Slots -> Steps']
      BY <1>0, <2>5, <3>1, <3>2, StepTyped DEF RecordPurchase
    <3> QED BY <2>5, <3>1, <3>3 DEF RecordPurchase, WalletTypeOK
  <2>6. CASE Activate(s)
    <3>1. [planKey |-> slots[s].planKey, until |-> slots[s].until]
            \in [planKey : PlanKeys \cup {"free"}, until : Nat]
      BY <1>0, <2>6, Carries DEF Activate, At
    <3>2. slots' \in [Slots -> Steps']
      BY <1>0, <2>6, StepTyped, IdleTyped DEF Activate, Ends
    <3> QED BY <2>6, <3>1, <3>2 DEF Activate, WalletTypeOK
  <2>7. CASE ReferralClaims(s)
    <3>1. slots[s].who \in Referrals /\ [op |-> "bonus", who |-> slots[s].who] \in Steps'
      BY <1>0, <2>7, Carries DEF ReferralClaims, Steps
    <3>2. slots' \in [Slots -> Steps']
      BY <1>0, <2>7, <3>1, StepTyped, IdleTyped DEF ReferralClaims, Ends
    <3>3. referral' \in [Referrals -> [referrer : Collectors, status : {"pending", "completed"}]]
      <4> DEFINE R == [referrer : Collectors, status : {"pending", "completed"}]
      <4>1. \A doc \in R : [doc EXCEPT !.status = "completed"] \in R OBVIOUS
      <4>2. referral \in [Referrals -> R] BY DEF WalletTypeOK
      <4>3. \/ referral' = [referral EXCEPT ![slots[s].who] =
                              [referral[slots[s].who] EXCEPT !.status = "completed"]]
            \/ referral' = referral
        BY <2>7 DEF ReferralClaims
      <4> HIDE DEF R
      <4> QED BY <3>1, <4>1, <4>2, <4>3 DEF R
    <3> QED BY <2>7, <3>2, <3>3 DEF ReferralClaims, WalletTypeOK
  <2>8. CASE ReferralPays(s)
    <3>1. referral[slots[s].who].referrer \in Collectors
      BY <1>0, <2>8, Carries DEF ReferralPays, WalletTypeOK
    <3>2. Entry("referral_bonus", referral[slots[s].who].referrer, Bonus, NoRef, NoRef) \in Ledger
      BY <3>1 DEF Entry, Ledger
    <3>3. transactions' \subseteq Ledger BY <1>0, <2>8, <3>2 DEF ReferralPays
    <3>4. slots' \in [Slots -> Steps']
      BY <1>0, <2>8, StepTyped, IdleTyped DEF ReferralPays, Ends
    <3> QED BY <2>8, <3>3, <3>4 DEF ReferralPays, WalletTypeOK, Ledger
  <2> QED BY <1>5, <2>1, <2>2, <2>3, <2>4, <2>5, <2>6, <2>7, <2>8 DEF WalletStep
<1>6. CASE AdminReviews
  <2>1. ASSUME NEW i \in DOMAIN requests, Reject(i) PROVE WalletTypeOK'
    <3>1. [requests[i] EXCEPT !.status = "rejected"] \in Asked
      <4>1. requests[i] \in Asked BY <1>0
      <4> QED BY <4>1, VerdictTyped
    <3>2. requests' \in Seq(Asked) /\ DOMAIN requests' = DOMAIN requests
      BY <1>0, <2>1, <3>1 DEF Reject
    <3> QED BY <2>1, <3>2 DEF Reject, WalletTypeOK, Asked, Steps
  <2>2. ASSUME NEW i \in DOMAIN requests, NEW s \in Slots, ApproveArrives(s, i) PROVE WalletTypeOK'
    <3>1. [op |-> "approve", id |-> i] \in Steps BY DEF Steps
    <3> QED BY <1>2, <2>2, <3>1 DEF ApproveArrives, Starts
  <2> QED BY <1>6, <2>1, <2>2 DEF AdminReviews
<1>7. CASE MonthPasses
  BY <1>7 DEF MonthPasses, WalletTypeOK, Steps
<1>8. CASE WalletStops
  BY <1>8, IdleTyped DEF WalletStops, Restarts, AllIdle, walletDocs, WalletTypeOK
<1>9. CASE UNCHANGED walletVars
  BY <1>9 DEF walletVars, WalletTypeOK, Steps
<1> QED BY <1>1, <1>3, <1>4, <1>5, <1>6, <1>7, <1>8, <1>9 DEF WalletNext

\* The ledger, the requests, the plans and the running handlers keep their types.
THEOREM WalletTypes == WalletSpec => []WalletTypeOK
BY WalletTypesInit, WalletTypesStep, PTL DEF WalletSpec

-----------------------------------------------------------------------------
(* Wallet: payouts.                                                         *)

\* The steps that write a payout request; any other leaves them as they are.
RequestsWritten ==
  \/ \E s \in Slots : PayoutApplies(s) \/ ApproveApplies(s)
  \/ \E i \in DOMAIN requests : Reject(i)

LEMMA OthersWriteNoRequest == [WalletNext]_walletVars => RequestsWritten \/ requests' = requests
BY DEF WalletNext, RequestsWritten, walletVars, Earn, PlansAndPayouts, PayoutArrives,
   SubscribeArrives, GrantArrives, ReferralArrives, WalletStep, Debit, SubscribePays,
   RecordPurchase, Activate, ReferralClaims, ReferralPays, AdminReviews, ApproveArrives,
   MonthPasses, WalletStops, walletDocs

\* A verdict is final: a request that is approved or rejected never changes,
\* and nobody's request changes its collector or its amount.
LEMMA VerdictsAreFinal ==
  ASSUME WalletTypeOK, [WalletNext]_walletVars, NEW i \in DOMAIN requests
  PROVE  /\ i \in DOMAIN requests'
         /\ requests'[i].collector = requests[i].collector
         /\ requests'[i].amount = requests[i].amount
         /\ requests[i].status # "pending" => requests'[i].status = requests[i].status
<1>0. requests \in Seq(Asked) /\ requests[i] \in Asked /\ slots \in [Slots -> Steps]
  <2>1. requests \in Seq(Asked) /\ slots \in [Slots -> Steps] BY DEF WalletTypeOK, Asked
  <2> QED BY <2>1
<1>1. ASSUME NEW s \in Slots, PayoutApplies(s) PROVE i \in DOMAIN requests' /\ requests'[i] = requests[i]
  <2> DEFINE doc == [collector |-> slots[s].who, amount |-> slots[s].amount, status |-> "pending"]
  <2>1. requests' \in {requests, Append(requests, doc)} BY <1>1 DEF PayoutApplies
  <2>2. doc \in Asked BY <1>0, <1>1, Carries DEF PayoutApplies, Asked
  <2> HIDE DEF doc
  <2> QED BY <1>0, <2>1, <2>2
<1>2. ASSUME NEW j \in DOMAIN requests, NEW status \in {"approved", "rejected"},
             requests[j].status = "pending",
             requests' = [requests EXCEPT ![j] = [requests[j] EXCEPT !.status = status]]
      PROVE  /\ i \in DOMAIN requests'
             /\ requests'[i].collector = requests[i].collector
             /\ requests'[i].amount = requests[i].amount
             /\ requests[i].status # "pending" => requests'[i].status = requests[i].status
  <2>1. requests[j] \in Asked BY <1>0
  <2> QED BY <1>0, <1>2, <2>1, VerdictTyped
<1>3. ASSUME NEW s \in Slots, ApproveApplies(s) PROVE
             \/ requests' = requests
             \/ /\ slots[s].id \in DOMAIN requests /\ requests[slots[s].id].status = "pending"
                /\ requests' = [requests EXCEPT ![slots[s].id] =
                                  [requests[slots[s].id] EXCEPT !.status = "approved"]]
  BY <1>0, <1>3, Carries DEF ApproveApplies, StillPending
<1> QED
  BY <1>1, <1>2, <1>3, OthersWriteNoRequest DEF RequestsWritten, Reject, StillPending

\* A new request is the only pending one of its collector.
LEMMA OnePendingStep ==
  ASSUME WalletTypeOK, OnePendingPayout, [WalletNext]_walletVars
  PROVE  OnePendingPayout'
<1>0. requests \in Seq(Asked) /\ slots \in [Slots -> Steps]
  BY DEF WalletTypeOK, Asked
<1> SUFFICES ASSUME NEW i \in DOMAIN requests', NEW j \in DOMAIN requests',
                    requests'[i].status = "pending", requests'[j].status = "pending",
                    requests'[i].collector = requests'[j].collector
             PROVE  i = j
  BY DEF OnePendingPayout
<1>1. ASSUME i \in DOMAIN requests, j \in DOMAIN requests PROVE i = j
  BY <1>1, VerdictsAreFinal DEF OnePendingPayout
<1>2. ASSUME NEW s \in Slots, PayoutApplies(s) PROVE i = j
  <2> DEFINE doc == [collector |-> slots[s].who, amount |-> slots[s].amount, status |-> "pending"]
  <2>1. doc \in Asked BY <1>0, <1>2, Carries DEF PayoutApplies, Asked
  <2>2. \/ requests' = requests
        \/ /\ requests' = Append(requests, doc)
           /\ \A k \in DOMAIN requests : ~(requests[k].collector = doc.collector /\ requests[k].status = "pending")
    BY <1>2 DEF PayoutApplies, PendingIndex, PendingOf
  <2>3. CASE requests' = Append(requests, doc)
    <3> HIDE DEF doc
    <3>1. \A k \in DOMAIN requests : requests'[k] = requests[k] BY <1>0, <2>1, <2>3
    <3>2. DOMAIN requests' = DOMAIN requests \cup {Len(requests) + 1} BY <1>0, <2>1, <2>3
    <3>3. requests'[Len(requests) + 1] = doc BY <1>0, <2>1, <2>3
    <3>4. requests' # requests BY <1>0, <2>1, <2>3
    <3> QED BY <1>1, <2>2, <3>1, <3>2, <3>3, <3>4
  <2> QED BY <1>1, <2>2, <2>3
<1>3. ASSUME DOMAIN requests' = DOMAIN requests PROVE i = j
  BY <1>1, <1>3
<1>4. ASSUME NEW s \in Slots, ApproveApplies(s) PROVE DOMAIN requests' = DOMAIN requests
  BY <1>0, <1>4 DEF ApproveApplies
<1>5. ASSUME NEW k \in DOMAIN requests, Reject(k) PROVE DOMAIN requests' = DOMAIN requests
  BY <1>0, <1>5 DEF Reject
<1> QED BY <1>2, <1>3, <1>4, <1>5, OthersWriteNoRequest DEF RequestsWritten

\* A collector never has two payout requests under review, for any number of
\* requests that pass the check of requestPayout together.
THEOREM OnePayout == WalletSpec => []OnePendingPayout
<1>1. WalletInit => OnePendingPayout BY DEF WalletInit, OnePendingPayout
<1> QED BY <1>1, WalletTypes, OnePendingStep, PTL DEF WalletSpec

\* The steps a handler is at that no other step of a handler led to, and the last.
Light == {"idle", "payout", "approve", "pay", "grant", "claim", "bonus"}

\* A handler stays where it is, starts, ends, or makes one of the three steps
\* that have a write of money or of a plan behind them.
LEMMA SlotMoves ==
  ASSUME WalletTypeOK, [WalletNext]_walletVars, NEW s \in Slots
  PROVE  \/ slots'[s] = slots[s] \/ slots'[s].op \in Light
         \/ ApproveApplies(s) \/ SubscribePays(s) \/ RecordPurchase(s)
<1> DEFINE Moved == \/ slots'[s] = slots[s] \/ slots'[s].op \in Light
                    \/ ApproveApplies(s) \/ SubscribePays(s) \/ RecordPurchase(s)
<1>0. slots \in [Slots -> Steps] BY DEF WalletTypeOK
<1>1. ASSUME NEW t, NEW r, Goes(t, r), r.op \in Light \/ t # s PROVE Moved
  BY <1>0, <1>1 DEF Goes
<1>2. Idle.op \in Light BY DEF Idle, Light
<1>3. ASSUME UNCHANGED slots PROVE Moved BY <1>3
<1>4. ASSUME NEW t \in Slots, WalletStep(t) PROVE Moved
  <2>1. CASE ApproveApplies(t) BY <1>1, <1>2, <2>1 DEF ApproveApplies, Ends
  <2>2. CASE SubscribePays(t) BY <1>1, <1>2, <2>2 DEF SubscribePays, Ends
  <2>3. CASE RecordPurchase(t) BY <1>1, <1>2, <2>3 DEF RecordPurchase, Ends
  <2>4. CASE ReferralClaims(t)
    <3>1. [op |-> "bonus", who |-> slots[t].who].op \in Light BY DEF Light
    <3> QED BY <1>1, <1>2, <2>4, <3>1 DEF ReferralClaims, Ends
  <2> QED BY <1>1, <1>2, <1>4, <2>1, <2>2, <2>3, <2>4
          DEF WalletStep, PayoutApplies, Debit, Activate, ReferralPays, Ends
<1>5. ASSUME NEW t \in Slots, NEW c \in Collectors, PlansAndPayouts(t, c) PROVE Moved
  <2>1. ASSUME NEW r, Starts(t, r), r.op \in Light PROVE Moved BY <1>1, <2>1 DEF Starts
  <2>2. \A amount : [op |-> "payout", who |-> c, amount |-> amount].op \in Light BY DEF Light
  <2>3. \A plan, until :
          /\ [op |-> "pay", who |-> c, planKey |-> plan, until |-> until].op \in Light
          /\ [op |-> "grant", who |-> c, planKey |-> plan, until |-> until].op \in Light
    BY DEF Light
  <2> QED BY <1>5, <2>1, <2>2, <2>3 DEF PlansAndPayouts, PayoutArrives, SubscribeArrives, GrantArrives
<1>6. ASSUME NEW t \in Slots, NEW r \in Referrals, ReferralArrives(t, r) PROVE Moved
  <2>1. [op |-> "claim", who |-> r].op \in Light BY DEF Light
  <2> QED BY <1>1, <1>6, <2>1 DEF ReferralArrives, Starts
<1>7. CASE AdminReviews
  <2>1. \A i : [op |-> "approve", id |-> i].op \in Light BY DEF Light
  <2> QED BY <1>1, <1>3, <1>7, <2>1 DEF AdminReviews, ApproveArrives, Reject, Starts
<1>8. CASE WalletStops BY <1>2, <1>8 DEF WalletStops, Restarts, AllIdle
<1> QED BY <1>3, <1>4, <1>5, <1>6, <1>7, <1>8 DEF WalletNext, walletVars, Earn, MonthPasses

\* The ledger only grows, and only the debit of an approved request, made by the
\* handler that approved it, writes a payout into it.
LEMMA LedgerGrows ==
  ASSUME [WalletNext]_walletVars
  PROVE  /\ transactions \subseteq transactions'
         /\ \A t \in transactions' \ transactions : t.type = "payout" => \E s \in Slots : Debit(s)
<1>1. transactions \subseteq transactions'
  BY DEF WalletNext, walletVars, Earn, PlansAndPayouts, PayoutArrives,
     SubscribeArrives, GrantArrives, ReferralArrives, WalletStep, PayoutApplies, SubscribePays,
     ReferralPays, Debit, ApproveApplies, RecordPurchase, Activate, ReferralClaims, AdminReviews,
     ApproveArrives, Reject, MonthPasses, WalletStops, walletDocs
<1>2. ASSUME NEW t \in transactions' \ transactions, t.type = "payout"
      PROVE  \E s \in Slots : Debit(s)
  <2>1. ASSUME NEW type \in {"earning", "subscription", "referral_bonus"}, NEW c, NEW amount, NEW p
        PROVE  t # Entry(type, c, amount, p, NoRef)
    BY <1>2 DEF Entry
  <2>2. ASSUME NEW c, NEW p, Earn(c, p) PROVE FALSE
    BY <1>2, <2>1, <2>2 DEF Earn
  <2>3. ASSUME NEW s, SubscribePays(s) \/ ReferralPays(s) PROVE FALSE
    BY <1>2, <2>1, <2>3 DEF SubscribePays, ReferralPays
  <2>4. ASSUME UNCHANGED transactions PROVE FALSE
    BY <1>2, <2>4
  <2> QED
    BY <2>2, <2>3, <2>4 DEF WalletNext, walletVars, PlansAndPayouts, PayoutArrives,
     SubscribeArrives, GrantArrives, ReferralArrives, WalletStep, PayoutApplies,
     ApproveApplies, RecordPurchase, Activate, ReferralClaims, AdminReviews,
     ApproveArrives, Reject, MonthPasses, WalletStops, walletDocs
<1> QED BY <1>1, <1>2

LEMMA ApprovalStep ==
  ASSUME WalletTypeOK, DebitHasApproval, [WalletNext]_walletVars
  PROVE  DebitHasApproval'
<1>0. requests \in Seq(Asked) /\ slots \in [Slots -> Steps]
  BY DEF WalletTypeOK, Asked
<1>1. ASSUME NEW t \in transactions', t.type = "payout"
      PROVE  /\ t.request \in DOMAIN requests'
             /\ requests'[t.request].status = "approved"
             /\ requests'[t.request].collector = t.collector
             /\ requests'[t.request].amount = t.amount
  <2>1. CASE t \in transactions
    BY <1>1, <2>1, VerdictsAreFinal DEF DebitHasApproval
  <2>2. CASE t \notin transactions
    <3>1. PICK s \in Slots : Debit(s) BY <1>1, <2>2, LedgerGrows
    <3> DEFINE i == slots[s].id
    <3>2. i \in DOMAIN requests /\ requests[i].status = "approved"
      BY <1>0, <3>1, Carries DEF Debit, DebitHasApproval
    <3>3. t = Entry("payout", requests[i].collector, requests[i].amount, NoRef, i)
      BY <2>2, <3>1 DEF Debit
    <3>4. requests' = requests BY <3>1 DEF Debit
    <3> QED BY <3>2, <3>3, <3>4 DEF Entry
  <2> QED BY <2>1, <2>2
<1>2. ASSUME NEW s \in Slots, At(s, "debit")' PROVE requests'[slots'[s].id].status = "approved"
  <2>1. CASE slots'[s] = slots[s]
    <3>1. At(s, "debit") BY <1>2, <2>1 DEF At
    <3> QED BY <1>0, <3>1, <2>1, Carries, VerdictsAreFinal DEF DebitHasApproval
  <2>2. CASE ApproveApplies(s)
    <3> DEFINE i == slots[s].id
    <3>1. i \in DOMAIN requests BY <1>0, <2>2, Carries DEF ApproveApplies
    <3>2. StillPending(i) BY <1>0, <1>2, <2>2 DEF ApproveApplies, Ends, Goes, At, Idle
    <3>3. slots'[s].id = i BY <1>0, <2>2, <3>2 DEF ApproveApplies, Goes
    <3>4. requests' = [requests EXCEPT ![i] = [requests[i] EXCEPT !.status = "approved"]]
      BY <2>2, <3>2 DEF ApproveApplies
    <3>5. requests[i] \in Asked BY <1>0, <3>1
    <3> QED BY <1>0, <3>1, <3>3, <3>4, <3>5, VerdictTyped
  <2>3. slots'[s].op \notin Light BY <1>2 DEF At, Light
  <2>4. ~SubscribePays(s) /\ ~RecordPurchase(s)
    <3>1. ASSUME NEW op \in {"purchase", "activate"},
                 slots[s].op \in {"pay", "purchase", "grant", "activate"},
                 Goes(s, [slots[s] EXCEPT !.op = op])
          PROVE  FALSE
      <4>1. slots'[s].op = op BY <1>0, <3>1, PlanStepAt DEF Goes
      <4> QED BY <1>2, <4>1 DEF At
    <3> QED BY <1>0, <1>2, <2>3, <3>1 DEF SubscribePays, RecordPurchase, Ends, Goes, At, Idle
  <2> QED BY <2>1, <2>2, <2>3, <2>4, SlotMoves
<1> QED BY <1>1, <1>2 DEF DebitHasApproval

\* No money leaves a wallet as a payout without an approved request for exactly
\* that amount, however approvals, rejections and restarts interleave.
THEOREM DebitsAreApproved == WalletSpec => []DebitHasApproval
<1>1. WalletInit => DebitHasApproval
  BY DEF WalletInit, DebitHasApproval, AllIdle, At, Idle
<1> QED BY <1>1, WalletTypes, ApprovalStep, PTL DEF WalletSpec

-----------------------------------------------------------------------------
(* Wallet: plans.                                                           *)

\* What is on its way to PlanPurchase.create has been paid for, and what is on
\* its way to the user's document has been recorded.
PlanSteps ==
  /\ \A s \in Slots : At(s, "purchase") =>
       \E t \in transactions : t.type = "subscription" /\ t.collector = slots[s].who
  /\ \A s \in Slots : At(s, "activate") =>
       \E p \in purchases : /\ p.collector = slots[s].who
                            /\ p.planKey = slots[s].planKey
                            /\ p.until = slots[s].until

LEMMA PurchasesGrow ==
  ASSUME [WalletNext]_walletVars
  PROVE  /\ purchases \subseteq purchases'
         /\ purchases' = purchases \/ \E s \in Slots : RecordPurchase(s)
         /\ subscription' = subscription \/ \E s \in Slots : Activate(s)
BY DEF WalletNext, walletVars, Earn, PlansAndPayouts, PayoutArrives,
   SubscribeArrives, GrantArrives, ReferralArrives, WalletStep, PayoutApplies, SubscribePays,
   ReferralPays, Debit, ApproveApplies, RecordPurchase, Activate, ReferralClaims, AdminReviews,
   ApproveArrives, Reject, MonthPasses, WalletStops, walletDocs

LEMMA PlanStep ==
  ASSUME WalletTypeOK, PlanIsPaidFor, PlanSteps, [WalletNext]_walletVars
  PROVE  PlanIsPaidFor' /\ PlanSteps'
<1>0. slots \in [Slots -> Steps] BY DEF WalletTypeOK
<1>1. ASSUME NEW c \in Collectors, subscription'[c].planKey # "free"
      PROVE  \E p \in purchases' : /\ p.collector = c
                                   /\ p.planKey = subscription'[c].planKey
                                   /\ p.until = subscription'[c].until
  <2>1. CASE subscription' = subscription
    BY <1>1, <2>1, PurchasesGrow DEF PlanIsPaidFor
  <2>2. ASSUME NEW s \in Slots, Activate(s)
        PROVE  \E p \in purchases' : /\ p.collector = c
                                     /\ p.planKey = subscription'[c].planKey
                                     /\ p.until = subscription'[c].until
    <3> DEFINE plan == [planKey |-> slots[s].planKey, until |-> slots[s].until]
    <3>1. subscription' = [subscription EXCEPT ![slots[s].who] = plan] /\ purchases' = purchases
      BY <2>2 DEF Activate
    <3>2. subscription \in [Collectors -> [planKey : PlanKeys \cup {"free"}, until : Nat]]
      BY DEF WalletTypeOK
    <3>3. subscription'[c] = IF c = slots[s].who THEN plan ELSE subscription[c]
      BY <3>1, <3>2
    <3>4. CASE c = slots[s].who BY <2>2, <3>1, <3>3, <3>4 DEF Activate, PlanSteps
    <3>5. CASE c # slots[s].who BY <1>1, <3>1, <3>3, <3>5 DEF PlanIsPaidFor
    <3> QED BY <3>4, <3>5
  <2> QED BY <2>1, <2>2, PurchasesGrow
<1>2. ASSUME NEW p \in purchases', p.method = "wallet"
      PROVE  \E t \in transactions' : t.type = "subscription" /\ t.collector = p.collector
  <2>1. CASE p \in purchases
    BY <1>2, <2>1, LedgerGrows DEF PlanIsPaidFor
  <2>2. CASE p \notin purchases
    <3>1. PICK s \in Slots : RecordPurchase(s) BY <2>2, PurchasesGrow
    <3>2. p = Purchase(slots[s]) BY <2>2, <3>1 DEF RecordPurchase
    <3>3. At(s, "purchase") /\ p.collector = slots[s].who
      BY <1>2, <3>2 DEF Purchase, At
    <3> QED BY <3>3, LedgerGrows DEF PlanSteps
  <2> QED BY <2>1, <2>2
<1>3. ASSUME NEW s \in Slots, At(s, "purchase")'
      PROVE  \E t \in transactions' : t.type = "subscription" /\ t.collector = slots'[s].who
  <2>1. CASE slots'[s] = slots[s]
    BY <1>3, <2>1, LedgerGrows DEF PlanSteps, At
  <2>2. CASE SubscribePays(s)
    <3> DEFINE r == [slots[s] EXCEPT !.op = "purchase"]
               t == Entry("subscription", slots[s].who, PlanPrice, NoRef, NoRef)
    <3>1. ~Ends(s) BY <1>0, <1>3 DEF Ends, Goes, At, Idle
    <3>2. transactions' = transactions \cup {t} /\ Goes(s, r) BY <2>2, <3>1 DEF SubscribePays
    <3>3. r.who = slots[s].who BY <1>0, <2>2, PlanStepAt DEF SubscribePays, At
    <3>4. slots'[s] = r BY <1>0, <3>2 DEF Goes
    <3>5. t.type = "subscription" /\ t.collector = slots[s].who BY DEF Entry
    <3> HIDE DEF r, t
    <3> QED BY <3>2, <3>3, <3>4, <3>5
  <2>3. CASE RecordPurchase(s)
    <3>1. [slots[s] EXCEPT !.op = "activate"].op = "activate"
      BY <1>0, <2>3, PlanStepAt DEF RecordPurchase
    <3> QED BY <1>0, <1>3, <2>3, <3>1 DEF RecordPurchase, Goes, At
  <2>4. ~ApproveApplies(s)
    BY <1>0, <1>3 DEF ApproveApplies, Ends, Goes, At, Idle
  <2>5. slots'[s].op \notin Light BY <1>3 DEF At, Light
  <2> QED BY <2>1, <2>2, <2>3, <2>4, <2>5, SlotMoves
<1>4. ASSUME NEW s \in Slots, At(s, "activate")'
      PROVE  \E p \in purchases' : /\ p.collector = slots'[s].who
                                   /\ p.planKey = slots'[s].planKey
                                   /\ p.until = slots'[s].until
  <2>1. CASE slots'[s] = slots[s]
    BY <1>4, <2>1, PurchasesGrow DEF PlanSteps, At
  <2>2. CASE RecordPurchase(s)
    <3> DEFINE r == [slots[s] EXCEPT !.op = "activate"]
               p == Purchase(slots[s])
    <3>1. /\ r.who = slots[s].who /\ r.planKey = slots[s].planKey /\ r.until = slots[s].until
          /\ p.collector = slots[s].who /\ p.planKey = slots[s].planKey /\ p.until = slots[s].until
      BY <1>0, <2>2, PlanStepAt DEF RecordPurchase, Purchase
    <3>2. slots'[s] = r /\ p \in purchases' BY <1>0, <2>2 DEF RecordPurchase, Goes
    <3> HIDE DEF r, p
    <3> QED BY <3>1, <3>2
  <2>3. CASE SubscribePays(s)
    <3> DEFINE r == [slots[s] EXCEPT !.op = "purchase"]
    <3>1. r.op = "purchase" BY <1>0, <2>3, PlanStepAt DEF SubscribePays, At
    <3>2. Goes(s, Idle) \/ Goes(s, r) BY <2>3 DEF SubscribePays, Ends
    <3> HIDE DEF r
    <3> QED BY <1>0, <1>4, <3>1, <3>2 DEF Goes, At, Idle
  <2>4. ~ApproveApplies(s)
    BY <1>0, <1>4 DEF ApproveApplies, Ends, Goes, At, Idle
  <2>5. slots'[s].op \notin Light BY <1>4 DEF At, Light
  <2> QED BY <2>1, <2>2, <2>3, <2>4, <2>5, SlotMoves
<1> QED BY <1>1, <1>2, <1>3, <1>4 DEF PlanIsPaidFor, PlanSteps

\* Whoever is on a plan had it recorded to that date, and a plan bought from the
\* wallet was debited, wherever between its three writes the server stops.
THEOREM PlansArePaid == WalletSpec => []PlanIsPaidFor
<1>1. WalletInit => PlanIsPaidFor /\ PlanSteps
  BY DEF WalletInit, PlanIsPaidFor, PlanSteps, AllIdle, At, Idle
<1> QED BY <1>1, WalletTypes, PlanStep, PTL DEF WalletSpec

-----------------------------------------------------------------------------
(* Wallet: the contract.                                                    *)

BooksStep == Books!BooksNext \/ UNCHANGED Books!bookVars

LEMMA NewEntry ==
  ASSUME NEW t, transactions' = transactions \cup {t}, NEW type
  PROVE  Of(type)' = IF t.type = type THEN Of(type) \cup {t} ELSE Of(type)
BY DEF Of

LEMMA SameEntries == ASSUME transactions' = transactions, NEW type PROVE Of(type)' = Of(type)
BY DEF Of

LEMMA SameReferred == ASSUME referral' = referral PROVE Referred' = Referred
BY DEF Referred

\* Steps that only bring a handler on.
LEMMA BooksStill ==
  ASSUME UNCHANGED <<transactions, requests, subscription, purchases, referral>>
  PROVE  BooksStep
BY SameEntries, SameReferred
   DEF BooksStep, Books!bookVars, Books!moneyIn, Books!moneyOut, Books!plans

\* Steps that write nothing but one entry into the ledger.
EntryWritten(t) ==
  /\ transactions' = transactions \cup {t}
  /\ UNCHANGED <<requests, subscription, purchases, referral>>

LEMMA EarningBooked ==
  ASSUME NEW c, NEW p \in Pickups,
         ~Duplicate(Entry("earning", c, Earning, p, NoRef)),
         EntryWritten(Entry("earning", c, Earning, p, NoRef))
  PROVE  BooksStep
<1> DEFINE t == Entry("earning", c, Earning, p, NoRef)
<1>1. t.type = "earning" /\ t.pickup = p BY DEF Entry
<1>2. \A u \in Of("earning") : u.pickup # t.pickup BY <1>1 DEF Duplicate, Of
<1> HIDE DEF t
<1>3. Of("earning")' = Of("earning") \cup {t} BY <1>1, NewEntry DEF EntryWritten, t
<1>4. \A type : type # "earning" => Of(type)' = Of(type)
  BY <1>1, NewEntry DEF EntryWritten, t
<1>5. t \in Of("earning")' BY <1>3
<1>6. UNCHANGED <<Of("payout"), Of("subscription"), Of("referral_bonus")>> BY <1>4
<1>7. Books!Credit
  BY <1>2, <1>3, <1>5, <1>6, SameReferred
     DEF EntryWritten, Books!Credit, Books!moneyOut, Books!plans
<1> QED BY <1>7 DEF BooksStep, Books!BooksNext

LEMMA ChargeBooked ==
  ASSUME NEW c, EntryWritten(Entry("subscription", c, PlanPrice, NoRef, NoRef))
  PROVE  BooksStep
<1> DEFINE t == Entry("subscription", c, PlanPrice, NoRef, NoRef)
<1>1. t.type = "subscription" BY DEF Entry
<1> HIDE DEF t
<1>2. Of("subscription")' = Of("subscription") \cup {t} BY <1>1, NewEntry DEF EntryWritten, t
<1>3. \A type : type # "subscription" => Of(type)' = Of(type)
  BY <1>1, NewEntry DEF EntryWritten, t
<1>4. UNCHANGED <<Of("payout"), Of("earning"), Of("referral_bonus")>> BY <1>3
<1>5. t \in Of("subscription")' BY <1>2
<1>6. Books!Charge
  BY <1>2, <1>4, <1>5, SameReferred
     DEF EntryWritten, Books!Charge, Books!moneyIn, Books!moneyOut
<1> QED BY <1>6 DEF BooksStep, Books!BooksNext

LEMMA BonusBooked ==
  ASSUME NEW c \in Referred, EntryWritten(Entry("referral_bonus", c, Bonus, NoRef, NoRef))
  PROVE  BooksStep
<1> DEFINE t == Entry("referral_bonus", c, Bonus, NoRef, NoRef)
<1>1. t.type = "referral_bonus" /\ t.collector = c BY DEF Entry
<1> HIDE DEF t
<1>2. Of("referral_bonus")' = Of("referral_bonus") \cup {t}
  BY <1>1, NewEntry DEF EntryWritten, t
<1>3. \A type : type # "referral_bonus" => Of(type)' = Of(type)
  BY <1>1, NewEntry DEF EntryWritten, t
<1>4. UNCHANGED <<Of("payout"), Of("earning"), Of("subscription")>> BY <1>3
<1>5. t \in Of("referral_bonus")' BY <1>2
<1>6. Books!Reward
  BY <1>1, <1>2, <1>4, <1>5, SameReferred
     DEF EntryWritten, Books!Reward, Books!moneyOut, Books!plans
<1> QED BY <1>6 DEF BooksStep, Books!BooksNext

LEMMA PayoutBooked ==
  ASSUME NEW i \in DOMAIN requests, i # NoRef, requests[i].status = "approved",
         ~Duplicate(Entry("payout", requests[i].collector, requests[i].amount, NoRef, i)),
         EntryWritten(Entry("payout", requests[i].collector, requests[i].amount, NoRef, i))
  PROVE  BooksStep
<1> DEFINE t == Entry("payout", requests[i].collector, requests[i].amount, NoRef, i)
<1>1. /\ t.type = "payout" /\ t.request = i
      /\ t.collector = requests[i].collector /\ t.amount = requests[i].amount
  BY DEF Entry
<1>2. \A u \in Of("payout") : u.request # t.request BY <1>1 DEF Duplicate, Of
<1> HIDE DEF t
<1>3. Of("payout")' = Of("payout") \cup {t} BY <1>1, NewEntry DEF EntryWritten, t
<1>4. \A type : type # "payout" => Of(type)' = Of(type) BY <1>1, NewEntry DEF EntryWritten, t
<1>5. UNCHANGED <<Of("earning"), Of("subscription"), Of("referral_bonus")>> BY <1>4
<1>6. t \in Of("payout")' BY <1>3
<1>7. Books!Pay
  BY <1>1, <1>2, <1>3, <1>5, <1>6, SameReferred
     DEF EntryWritten, Books!Pay, Books!moneyIn, Books!plans
<1> QED BY <1>7 DEF BooksStep, Books!BooksNext

\* Steps that write nothing but the requests.
LEMMA AskBooked ==
  ASSUME NEW c \in Collectors, NEW a \in Payouts, PendingIndex(c),
         requests' = Append(requests, [collector |-> c, amount |-> a, status |-> "pending"]),
         UNCHANGED <<transactions, subscription, purchases, referral>>
  PROVE  BooksStep
<1>1. Books!Undecided(c) = {} BY DEF PendingIndex, PendingOf, Books!Undecided
<1>2. Books!Ask
  BY <1>1, SameEntries, SameReferred DEF Books!Ask, Books!moneyIn, Books!plans
<1> QED BY <1>2 DEF BooksStep, Books!BooksNext

LEMMA VerdictBooked ==
  ASSUME NEW i \in DOMAIN requests, NEW verdict \in {"approved", "rejected"}, StillPending(i),
         requests' = [requests EXCEPT ![i].status = verdict],
         UNCHANGED <<transactions, subscription, purchases, referral>>
  PROVE  BooksStep
<1>1. Books!Decide
  BY SameEntries, SameReferred DEF StillPending, Books!Decide, Books!moneyIn, Books!plans
<1> QED BY <1>1 DEF BooksStep, Books!BooksNext

\* A bonus on its way is for a referral that came true.
BonusIsDue ==
  \A s \in Slots : At(s, "bonus") => referral[slots[s].who].status = "completed"

ReferralDocs == [referrer : Collectors, status : {"pending", "completed"}]

\* A referral that came true stays so, and its referrer does not change.
LEMMA ReferralsAreFinal ==
  ASSUME WalletTypeOK, [WalletNext]_walletVars, NEW r \in Referrals
  PROVE  /\ referral'[r].referrer = referral[r].referrer
         /\ referral[r].status = "completed" => referral'[r].status = "completed"
         /\ \A s \in Slots : ReferralClaims(s) /\ slots[s].who = r /\ At(s, "bonus")' =>
              referral'[r].status = "completed"
<1>0. referral \in [Referrals -> ReferralDocs] /\ slots \in [Slots -> Steps] BY DEF WalletTypeOK, ReferralDocs
<1> DEFINE Claimed(q) == referral' = [referral EXCEPT ![q].status = "completed"]
<1>1. \A s \in Slots : ReferralClaims(s) =>
        \/ referral' = referral /\ slots' = [slots EXCEPT ![s] = Idle]
        \/ Claimed(slots[s].who)
  BY DEF ReferralClaims, Ends, Goes
<1>2. referral' = referral \/ \E s \in Slots : ReferralClaims(s)
  BY DEF WalletNext, walletVars, Earn, PlansAndPayouts, PayoutArrives,
     SubscribeArrives, GrantArrives, ReferralArrives, WalletStep, PayoutApplies, SubscribePays,
     ReferralPays, Debit, ApproveApplies, RecordPurchase, Activate, AdminReviews,
     ApproveArrives, Reject, MonthPasses, WalletStops, walletDocs
<1>3. \A p \in ReferralDocs : /\ [p EXCEPT !.status = "completed"].referrer = p.referrer
                        /\ [p EXCEPT !.status = "completed"].status = "completed"
  BY DEF ReferralDocs
<1>4. referral[r] \in ReferralDocs BY <1>0
<1>5. \A q : Claimed(q) =>
        /\ referral'[r].referrer = referral[r].referrer
        /\ q = r => referral'[r].status = "completed"
        /\ q # r => referral'[r] = referral[r]
  BY <1>0, <1>3, <1>4
<1>6. \A s \in Slots : slots' = [slots EXCEPT ![s] = Idle] => ~At(s, "bonus")'
  BY <1>0 DEF At, Idle
<1> HIDE DEF Claimed
<1> QED BY <1>1, <1>2, <1>5, <1>6

LEMMA BonusDueStep ==
  ASSUME WalletTypeOK, BonusIsDue, [WalletNext]_walletVars
  PROVE  BonusIsDue'
<1>0. slots \in [Slots -> Steps] BY DEF WalletTypeOK
<1> SUFFICES ASSUME NEW s \in Slots, At(s, "bonus")'
             PROVE  referral'[slots'[s].who].status = "completed"
  BY DEF BonusIsDue
<1>1. CASE slots'[s] = slots[s]
  <2>1. At(s, "bonus") /\ slots[s].who \in Referrals BY <1>0, <1>1, Carries DEF At
  <2> QED BY <1>1, <2>1, ReferralsAreFinal DEF BonusIsDue
<1>2. CASE ReferralClaims(s)
  <2>1. slots[s].who \in Referrals BY <1>0, <1>2, Carries DEF ReferralClaims
  <2>2. slots'[s].who = slots[s].who
    BY <1>0, <1>2 DEF ReferralClaims, Ends, Goes, At, Idle
  <2> QED BY <1>2, <2>1, <2>2, ReferralsAreFinal
<1>3. slots'[s] = slots[s] \/ ReferralClaims(s)
  <2>1. ASSUME NEW t, NEW r, Goes(t, r), r.op # "bonus" PROVE slots'[s] = slots[s]
    BY <1>0, <2>1 DEF Goes, At
  <2>2. Idle.op # "bonus" BY DEF Idle
  <2>3. ASSUME NEW t, Ends(t) PROVE slots'[s] = slots[s] BY <2>1, <2>2, <2>3 DEF Ends
  <2>4. ASSUME NEW t \in Slots, NEW op, op # "bonus",
               slots[t].op \in {"pay", "purchase", "grant", "activate"},
               Goes(t, [slots[t] EXCEPT !.op = op])
        PROVE  slots'[s] = slots[s]
    <3> DEFINE r == [slots[t] EXCEPT !.op = op]
    <3>1. r.op = op BY <1>0, <2>4, PlanStepAt
    <3> HIDE DEF r
    <3> QED BY <2>1, <2>4, <3>1 DEF r
  <2>5. ASSUME NEW t \in Slots, WalletStep(t) PROVE slots'[s] = slots[s] \/ ReferralClaims(s)
    <3>1. CASE ApproveApplies(t) BY <2>1, <2>3, <3>1 DEF ApproveApplies
    <3>2. CASE SubscribePays(t) BY <2>3, <2>4, <3>2 DEF SubscribePays, At
    <3>3. CASE RecordPurchase(t) BY <2>4, <3>3 DEF RecordPurchase
    <3>4. CASE ReferralClaims(t)
      <4>1. CASE t = s BY <3>4, <4>1
      <4>2. CASE t # s BY <1>0, <3>4, <4>2 DEF ReferralClaims, Ends, Goes
      <4> QED BY <4>1, <4>2
    <3> QED BY <2>3, <2>5, <3>1, <3>2, <3>3, <3>4
            DEF WalletStep, PayoutApplies, Debit, Activate, ReferralPays
  <2>6. ASSUME NEW t \in Slots, NEW c \in Collectors, PlansAndPayouts(t, c)
        PROVE  slots'[s] = slots[s]
    <3>1. \A plan, until :
            /\ [op |-> "pay", who |-> c, planKey |-> plan, until |-> until].op # "bonus"
            /\ [op |-> "grant", who |-> c, planKey |-> plan, until |-> until].op # "bonus"
      OBVIOUS
    <3>2. \A amount : [op |-> "payout", who |-> c, amount |-> amount].op # "bonus" OBVIOUS
    <3> QED BY <2>1, <2>6, <3>1, <3>2
            DEF PlansAndPayouts, PayoutArrives, SubscribeArrives, GrantArrives, Starts
  <2>7. ASSUME NEW t \in Slots, NEW r \in Referrals, ReferralArrives(t, r)
        PROVE  slots'[s] = slots[s]
    BY <2>1, <2>7 DEF ReferralArrives, Starts
  <2>8. CASE AdminReviews BY <2>1, <2>8 DEF AdminReviews, ApproveArrives, Reject, Starts
  <2>9. ~WalletStops BY <2>2 DEF WalletStops, Restarts, AllIdle, At
  <2> QED BY <2>5, <2>6, <2>7, <2>8, <2>9 DEF WalletNext, walletVars, Earn, MonthPasses
<1> QED BY <1>1, <1>2, <1>3

LEMMA ReferralBooked ==
  ASSUME WalletTypeOK, NEW s \in Slots, ReferralClaims(s)
  PROVE  BooksStep
<1>0. referral \in [Referrals -> ReferralDocs] /\ slots \in [Slots -> Steps] BY DEF WalletTypeOK, ReferralDocs
<1> DEFINE r == slots[s].who
           c == referral[r].referrer
<1>1. r \in Referrals BY <1>0, Carries DEF ReferralClaims
<1>2. CASE referral' = referral BY <1>2, BooksStill DEF ReferralClaims
<1>3. CASE referral' # referral
  <2>1. referral[r].status = "pending" /\ referral' = [referral EXCEPT ![r].status = "completed"]
    BY <1>3 DEF ReferralClaims
  <2>2. referral[r] = [referrer |-> c, status |-> "pending"] /\ c \in Collectors
    BY <1>0, <1>1, <2>1 DEF ReferralDocs
  <2>3. \A q \in Referrals : referral'[q] = IF q = r THEN [referrer |-> c, status |-> "completed"]
                                                    ELSE referral[q]
    BY <1>0, <1>1, <2>1, <2>2
  <2> HIDE DEF r, c
  <2>4. Referred' = Referred \cup {c} BY <1>1, <2>2, <2>3 DEF Referred
  <2>5. Books!ComesTrue
    BY <2>2, <2>4, SameEntries DEF ReferralClaims, Books!ComesTrue, Books!moneyOut, Books!plans
  <2> QED BY <2>5 DEF BooksStep, Books!BooksNext
<1> QED BY <1>2, <1>3

LEMMA BonusPaid ==
  ASSUME WalletTypeOK, BonusIsDue, NEW s \in Slots, ReferralPays(s)
  PROVE  BooksStep
<1>0. referral \in [Referrals -> ReferralDocs] /\ slots \in [Slots -> Steps] BY DEF WalletTypeOK, ReferralDocs
<1> DEFINE r == slots[s].who
           c == referral[r].referrer
<1>1. r \in Referrals /\ referral[r].status = "completed"
  BY <1>0, Carries DEF ReferralPays, BonusIsDue
<1>2. c \in Collectors /\ referral[r] = [referrer |-> c, status |-> "completed"]
  BY <1>0, <1>1 DEF ReferralDocs
<1>3. c \in Referred BY <1>1, <1>2 DEF Referred
<1>4. \/ UNCHANGED <<transactions, requests, subscription, purchases, referral>>
      \/ EntryWritten(Entry("referral_bonus", c, Bonus, NoRef, NoRef))
  BY DEF ReferralPays, EntryWritten
<1> HIDE DEF c
<1> QED BY <1>3, <1>4, BooksStill, BonusBooked

LEMMA PurchaseBooked ==
  ASSUME PlanSteps, NEW s \in Slots, RecordPurchase(s)
  PROVE  BooksStep
<1> DEFINE p == Purchase(slots[s])
<1>1. p.collector = slots[s].who /\ (p.method = "wallet" => At(s, "purchase"))
  BY DEF Purchase, At
<1>2. p.method = "wallet" => \E t \in Of("subscription") : t.collector = p.collector
  BY <1>1 DEF PlanSteps, Of
<1>3. purchases' = purchases \cup {p} BY DEF RecordPurchase
<1> HIDE DEF p
<1>4. p \in purchases' BY <1>3
<1>5. Books!Buy
  BY <1>2, <1>3, <1>4, SameEntries, SameReferred
     DEF RecordPurchase, Books!Buy, Books!moneyIn, Books!moneyOut
<1> QED BY <1>5 DEF BooksStep, Books!BooksNext

LEMMA PlanStarted ==
  ASSUME PlanSteps, NEW s \in Slots, Activate(s)
  PROVE  BooksStep
<1>1. PICK p \in purchases : /\ p.collector = slots[s].who
                             /\ p.planKey = slots[s].planKey
                             /\ p.until = slots[s].until
  BY DEF PlanSteps, Activate
<1>2. subscription' = [subscription EXCEPT ![p.collector] =
                         [planKey |-> p.planKey, until |-> p.until]]
  BY <1>1 DEF Activate
<1>3. Books!StartPlan
  BY <1>2, SameEntries, SameReferred DEF Activate, Books!StartPlan, Books!moneyIn, Books!moneyOut
<1> QED BY <1>3 DEF BooksStep, Books!BooksNext

\* Each write of a handler is one step of the contract, or none.
LEMMA HandlerBooked ==
  ASSUME WalletTypeOK, DebitHasApproval, PlanSteps, BonusIsDue, NEW s \in Slots, WalletStep(s)
  PROVE  BooksStep
<1>0. requests \in Seq(Asked) /\ slots \in [Slots -> Steps] BY DEF WalletTypeOK, Asked
<1>1. CASE PayoutApplies(s)
  <2> DEFINE c == slots[s].who
             a == slots[s].amount
  <2>1. c \in Collectors /\ a \in Payouts BY <1>0, <1>1, Carries DEF PayoutApplies
  <2>2. CASE requests' = requests BY <1>1, <2>2, BooksStill DEF PayoutApplies
  <2>3. CASE requests' # requests
    <3>1. /\ PendingIndex(c)
          /\ requests' = Append(requests, [collector |-> c, amount |-> a, status |-> "pending"])
      BY <1>1, <2>3 DEF PayoutApplies
    <3>2. UNCHANGED <<transactions, subscription, purchases, referral>>
      BY <1>1 DEF PayoutApplies
    <3> HIDE DEF c, a
    <3> QED BY <2>1, <3>1, <3>2, AskBooked
  <2> QED BY <2>2, <2>3
<1>2. CASE ApproveApplies(s)
  <2> DEFINE i == slots[s].id
  <2>1. i \in DOMAIN requests BY <1>0, <1>2, Carries DEF ApproveApplies
  <2>2. CASE requests' = requests BY <1>2, <2>2, BooksStill DEF ApproveApplies
  <2>3. CASE requests' # requests
    <3>1. StillPending(i) /\ requests' = [requests EXCEPT ![i].status = "approved"]
      BY <1>2, <2>3 DEF ApproveApplies
    <3>2. UNCHANGED <<transactions, subscription, purchases, referral>>
      BY <1>2 DEF ApproveApplies
    <3> HIDE DEF i
    <3> QED BY <2>1, <3>1, <3>2, VerdictBooked
  <2> QED BY <2>2, <2>3
<1>3. CASE Debit(s)
  <2> DEFINE i == slots[s].id
             t == Entry("payout", requests[i].collector, requests[i].amount, NoRef, i)
  <2>1. i \in DOMAIN requests BY <1>0, <1>3, Carries DEF Debit
  <2>2. i # NoRef
    <3>1. i \in Nat BY <1>0, <2>1
    <3> HIDE DEF i
    <3> QED BY <3>1, WalletAssumption
  <2>3. requests[i].status = "approved" BY <1>3 DEF Debit, DebitHasApproval
  <2>4. \/ UNCHANGED <<transactions, requests, subscription, purchases, referral>>
        \/ ~Duplicate(t) /\ EntryWritten(t)
    BY <1>3 DEF Debit, EntryWritten
  <2> HIDE DEF i
  <2> QED BY <2>1, <2>2, <2>3, <2>4, BooksStill, PayoutBooked
<1>4. CASE SubscribePays(s)
  <2> DEFINE c == slots[s].who
  <2>1. \/ UNCHANGED <<transactions, requests, subscription, purchases, referral>>
        \/ EntryWritten(Entry("subscription", c, PlanPrice, NoRef, NoRef))
    BY <1>4 DEF SubscribePays, EntryWritten
  <2> HIDE DEF c
  <2> QED BY <2>1, BooksStill, ChargeBooked
<1> QED BY <1>1, <1>2, <1>3, <1>4, ReferralBooked, BonusPaid, PurchaseBooked, PlanStarted
        DEF WalletStep

LEMMA WalletBooked ==
  ASSUME WalletTypeOK, DebitHasApproval, PlanSteps, BonusIsDue, [WalletNext]_walletVars
  PROVE  BooksStep
<1>0. requests \in Seq(Asked) BY DEF WalletTypeOK, Asked
<1>1. ASSUME UNCHANGED walletDocs PROVE BooksStep BY <1>1, BooksStill DEF walletDocs
<1>2. ASSUME NEW c \in Collectors, NEW p \in Pickups, Earn(c, p) PROVE BooksStep
  BY <1>2, EarningBooked DEF Earn, EntryWritten
<1>3. ASSUME NEW i \in DOMAIN requests, Reject(i) PROVE BooksStep
  <2>1. /\ StillPending(i) /\ requests' = [requests EXCEPT ![i].status = "rejected"]
        /\ UNCHANGED <<transactions, subscription, purchases, referral>>
    BY <1>3 DEF Reject
  <2> QED BY <2>1, VerdictBooked
<1>4. CASE AdminReviews BY <1>1, <1>3, <1>4 DEF AdminReviews, ApproveArrives
<1>5. CASE MonthPasses BY <1>5, BooksStill DEF MonthPasses
<1>6. CASE WalletStops BY <1>1, <1>6 DEF WalletStops
<1>7. CASE UNCHANGED walletVars BY <1>1, <1>7 DEF walletVars, walletDocs
<1> QED BY <1>1, <1>2, <1>4, <1>5, <1>6, <1>7, HandlerBooked
        DEF WalletNext, PlansAndPayouts, PayoutArrives, SubscribeArrives, GrantArrives,
            ReferralArrives

\* The wallet implements its contract: whatever handlers, admins, retries and
\* restarts do between each other's writes, a pickup is credited once, one payout
\* is decided at a time and for good, money leaves once for what was approved, and
\* a plan starts only as it was bought.
THEOREM BooksRefinement == WalletSpec => BooksAreKept
<1>1. WalletInit => Books!BooksInit
  BY DEF WalletInit, Books!BooksInit, Of, Referred
<1>2. WalletTypeOK /\ DebitHasApproval /\ PlanSteps /\ BonusIsDue /\ [WalletNext]_walletVars
        => [Books!BooksNext]_(Books!bookVars)
  BY WalletBooked DEF BooksStep
<1>3. WalletInit => PlanIsPaidFor /\ PlanSteps /\ BonusIsDue
  BY DEF WalletInit, PlanIsPaidFor, PlanSteps, BonusIsDue, AllIdle, At, Idle
<1>4. WalletTypeOK /\ BonusIsDue /\ [WalletNext]_walletVars => BonusIsDue'
  BY BonusDueStep
<1>5. WalletTypeOK /\ PlanIsPaidFor /\ PlanSteps /\ [WalletNext]_walletVars
        => PlanIsPaidFor' /\ PlanSteps'
  BY PlanStep
<1> QED
  BY <1>1, <1>2, <1>3, <1>4, <1>5, WalletTypes, DebitsAreApproved, PTL
  DEF WalletSpec, BooksAreKept, Books!BooksSpec

-----------------------------------------------------------------------------
(* Coupons: types.                                                          *)

OrderDocs ==
  [status : {"absent", "pending", "cancelled", "completed"},
   user : Requesters \cup {NoUser}, value : Values \cup {0},
   price : Totals \cup {0}, bonusAmount : Values \cup {0}]

CouponSteps ==
  {Idle} \cup [op : {"order"}, who : Requesters, order : Orders, value : Values]
         \cup [op : {"credit"}, order : Orders]
         \cup [op : {"note"}, order : Orders, value : Values]

LEMMA CouponCarries ==
  ASSUME NEW s \in Slots, slots \in [Slots -> CouponSteps]
  PROVE  /\ At(s, "order") \/ At(s, "credit") \/ At(s, "note") => slots[s].order \in Orders
         /\ At(s, "order") => slots[s].who \in Requesters
         /\ At(s, "order") \/ At(s, "note") => slots[s].value \in Values
<1>1. slots[s] \in CouponSteps OBVIOUS
<1> QED BY <1>1 DEF CouponSteps, At, Idle

\* One field of an order is written at a time, or its status with its price.
LEMMA OrderDone ==
  ASSUME NEW doc \in OrderDocs, NEW price
  PROVE  [doc EXCEPT !.status = "completed", !.price = price] =
           [status |-> "completed", user |-> doc.user, value |-> doc.value,
            price |-> price, bonusAmount |-> doc.bonusAmount]
<1> DEFINE done == [status |-> "completed", user |-> doc.user, value |-> doc.value,
                    price |-> doc.price, bonusAmount |-> doc.bonusAmount]
<1>1. [doc EXCEPT !.status = "completed"] = done BY DEF OrderDocs
<1>2. [doc EXCEPT !.status = "completed", !.price = price] =
        [[doc EXCEPT !.status = "completed"] EXCEPT !.price = price]
  OBVIOUS
<1>3. [done EXCEPT !.price = price] =
        [status |-> "completed", user |-> doc.user, value |-> doc.value,
         price |-> price, bonusAmount |-> doc.bonusAmount]
  OBVIOUS
<1> HIDE DEF done
<1> QED BY <1>1, <1>2, <1>3

LEMMA OrderDropped ==
  ASSUME NEW doc \in OrderDocs
  PROVE  [doc EXCEPT !.status = "cancelled"] =
           [status |-> "cancelled", user |-> doc.user, value |-> doc.value,
            price |-> doc.price, bonusAmount |-> doc.bonusAmount]
BY DEF OrderDocs

LEMMA OrderNoted ==
  ASSUME NEW doc \in OrderDocs, NEW bonus
  PROVE  [doc EXCEPT !.bonusAmount = bonus] =
           [status |-> doc.status, user |-> doc.user, value |-> doc.value,
            price |-> doc.price, bonusAmount |-> bonus]
BY DEF OrderDocs

LEMMA BonusTyped ==
  ASSUME NEW value \in Values \cup {0}, NEW price
  PROVE  BonusOf(value, price) \in Values \cup {0}
BY DEF BonusOf

LEMMA CouponTypesStep == CouponTypeOK /\ [CouponNext]_couponVars => CouponTypeOK'
<1> SUFFICES ASSUME CouponTypeOK, [CouponNext]_couponVars PROVE CouponTypeOK' OBVIOUS
<1>0. /\ orders \in [Orders -> OrderDocs] /\ slots \in [Slots -> CouponSteps]
      /\ \A p \in Orders : orders[p] \in OrderDocs
  <2>1. orders \in [Orders -> OrderDocs] /\ slots \in [Slots -> CouponSteps]
    BY DEF CouponTypeOK, OrderDocs, CouponSteps
  <2> QED BY <2>1
<1>1. ASSUME NEW s, NEW r \in CouponSteps, Goes(s, r) PROVE slots' \in [Slots -> CouponSteps]
  BY <1>0, <1>1 DEF Goes
<1>2. Idle \in CouponSteps BY DEF CouponSteps
<1>3. ASSUME NEW p \in Orders, NEW doc \in OrderDocs, orders' = [orders EXCEPT ![p] = doc]
      PROVE  orders' \in [Orders -> OrderDocs]
  BY <1>0, <1>3
<1>4. ASSUME NEW s \in Slots, NEW u \in Requesters, NEW p \in Orders, OrderArrives(s, u, p)
      PROVE  CouponTypeOK'
  <2>1. [op |-> "order", who |-> u, order |-> p, value |-> coupon.value] \in CouponSteps
    BY DEF CouponTypeOK, CouponSteps
  <2>2. slots' \in [Slots -> CouponSteps] BY <1>1, <1>4, <2>1 DEF OrderArrives, Starts
  <2> QED BY <1>4, <2>2 DEF OrderArrives, couponDocs, CouponTypeOK, CouponSteps
<1>5. ASSUME NEW s \in Slots, NEW p \in Orders, NEW price \in Totals, PriceFinal(s, p, price)
      PROVE  CouponTypeOK'
  <2>1. [op |-> "credit", order |-> p] \in CouponSteps BY DEF CouponSteps
  <2>2. slots' \in [Slots -> CouponSteps] BY <1>1, <1>5, <2>1 DEF PriceFinal, Starts
  <2>3. [orders[p] EXCEPT !.status = "completed", !.price = price] \in OrderDocs
    <3>1. orders[p] \in OrderDocs BY <1>0
    <3>2. orders[p].user \in Requesters \cup {NoUser} /\ orders[p].value \in Values \cup {0}
          /\ orders[p].bonusAmount \in Values \cup {0}
      BY <3>1 DEF OrderDocs
    <3>3. [status |-> "completed", user |-> orders[p].user, value |-> orders[p].value,
                 price |-> price, bonusAmount |-> orders[p].bonusAmount] \in OrderDocs
      BY <3>2 DEF OrderDocs
    <3> QED BY <3>1, <3>3, OrderDone
  <2>4. orders' = [orders EXCEPT ![p] = [orders[p] EXCEPT !.status = "completed", !.price = price]]
    BY <1>0, <1>5 DEF PriceFinal
  <2>5. orders' \in [Orders -> OrderDocs] BY <1>3, <2>3, <2>4
  <2> QED BY <1>5, <2>2, <2>5 DEF PriceFinal, CouponTypeOK, CouponSteps, OrderDocs
<1>6. ASSUME NEW s \in Slots, OrderCreated(s) PROVE CouponTypeOK'
  <2>1. slots[s].order \in Orders /\ slots[s].who \in Requesters /\ slots[s].value \in Values
    BY <1>0, <1>6, CouponCarries DEF OrderCreated
  <2>2. [status |-> "pending", user |-> slots[s].who, value |-> slots[s].value,
         price |-> 0, bonusAmount |-> 0] \in OrderDocs
    BY <2>1 DEF OrderDocs
  <2>3. orders' \in [Orders -> OrderDocs] BY <1>3, <1>6, <2>1, <2>2 DEF OrderCreated
  <2>4. slots' \in [Slots -> CouponSteps] BY <1>1, <1>2, <1>6 DEF OrderCreated, Ends
  <2>5. promised' \in [Orders -> Values \cup {0}] BY <1>6, <2>1 DEF OrderCreated, CouponTypeOK
  <2> QED BY <1>6, <2>3, <2>4, <2>5 DEF OrderCreated, CouponTypeOK, CouponSteps, OrderDocs
<1>7. ASSUME NEW s \in Slots, BonusCredited(s) PROVE CouponTypeOK'
  <2> DEFINE p == slots[s].order
             bonus == BonusOf(SnapshotOf(p), orders[p].price)
  <2>1. p \in Orders BY <1>0, <1>7, CouponCarries DEF BonusCredited
  <2>2. bonus \in Values \cup {0}
    BY <1>0, <2>1, BonusTyped DEF SnapshotOf, OrderDocs
  <2>3. bonus # 0 => [op |-> "note", order |-> p, value |-> bonus] \in CouponSteps
    BY <2>1, <2>2 DEF CouponSteps
  <2>4. slots' \in [Slots -> CouponSteps] BY <1>1, <1>2, <1>7, <2>3 DEF BonusCredited, Ends
  <2>5. credits' \in [Orders -> Values \cup {0}] BY <1>7, <2>2 DEF BonusCredited, CouponTypeOK
  <2> QED BY <1>7, <2>4, <2>5 DEF BonusCredited, CouponTypeOK, CouponSteps
<1>8. ASSUME NEW s \in Slots, BonusNoted(s) PROVE CouponTypeOK'
  <2> DEFINE p == slots[s].order
             bonus == slots[s].value
  <2>1. p \in Orders /\ bonus \in Values BY <1>0, <1>8, CouponCarries DEF BonusNoted
  <2>2. orders[p] \in OrderDocs BY <1>0, <2>1
  <2>3. [orders[p] EXCEPT !.bonusAmount = bonus] \in OrderDocs BY <2>1, <2>2 DEF OrderDocs
  <2>4. orders' = [orders EXCEPT ![p] = [orders[p] EXCEPT !.bonusAmount = bonus]]
    BY <1>8 DEF BonusNoted
  <2>5. orders' \in [Orders -> OrderDocs] BY <1>3, <2>1, <2>3, <2>4
  <2>6. slots' \in [Slots -> CouponSteps] BY <1>1, <1>2, <1>8 DEF BonusNoted, Ends
  <2> QED BY <1>8, <2>5, <2>6 DEF BonusNoted, CouponTypeOK, CouponSteps, OrderDocs
<1>9. ASSUME NEW p \in Orders, OrderCancelled(p) PROVE CouponTypeOK'
  <2>1. orders[p] \in OrderDocs BY <1>0
  <2>2. [orders[p] EXCEPT !.status = "cancelled"] \in OrderDocs BY <2>1 DEF OrderDocs
  <2>3. orders' = [orders EXCEPT ![p] = [orders[p] EXCEPT !.status = "cancelled"]]
    BY <1>9 DEF OrderCancelled
  <2>4. orders' \in [Orders -> OrderDocs] BY <1>3, <2>2, <2>3
  <2> QED BY <1>9, <2>4 DEF OrderCancelled, CouponTypeOK, OrderDocs
<1>10. ASSUME NEW value \in Values, NEW active \in BOOLEAN, CouponEdited(value, active)
       PROVE  CouponTypeOK'
  BY <1>10 DEF CouponEdited, CouponTypeOK
<1>11. CASE CouponServerStops
  <2>1. slots' \in [Slots -> CouponSteps]
    BY <1>2, <1>11 DEF CouponServerStops, Restarts, AllIdle
  <2> QED BY <1>11, <2>1 DEF CouponServerStops, couponDocs, CouponTypeOK, CouponSteps
<1>12. CASE UNCHANGED couponVars
  BY <1>12 DEF couponVars, CouponTypeOK
<1> QED BY <1>4, <1>5, <1>6, <1>7, <1>8, <1>9, <1>10, <1>11, <1>12 DEF CouponNext

\* The coupon, its orders, the credits and the running handlers keep their types.
THEOREM CouponTypes == CouponSpec => []CouponTypeOK
<1>1. CouponInit => CouponTypeOK
  <2> SUFFICES ASSUME CouponInit PROVE CouponTypeOK OBVIOUS
  <2>1. NoOrder \in OrderDocs BY DEF NoOrder, OrderDocs
  <2>2. orders \in [Orders -> OrderDocs] BY <2>1 DEF CouponInit
  <2> QED BY <2>2 DEF CouponInit, CouponTypeOK, OrderDocs, AllIdle
<1> QED BY <1>1, CouponTypesStep, PTL DEF CouponSpec

-----------------------------------------------------------------------------
(* Coupons: what was promised.                                              *)

\* How one step changes one order, as far as the promise about it is concerned.
OrderKept(p) ==
  /\ orders'[p].status = orders[p].status
  /\ orders'[p].value = orders[p].value
  /\ orders'[p].price = orders[p].price
  /\ promised'[p] = promised[p]

OrderMade(p) ==
  /\ \E s \in Slots : OrderCreated(s) /\ slots[s].order = p
  /\ orders'[p].status = "pending"
  /\ orders'[p].value = promised'[p]

OrderSettled(p) ==
  /\ orders[p].status = "pending"
  /\ orders'[p].status \in {"cancelled", "completed"}
  /\ orders'[p].value = orders[p].value
  /\ promised'[p] = promised[p]

LEMMA OrderMoves ==
  ASSUME CouponTypeOK, [CouponNext]_couponVars, NEW p \in Orders
  PROVE  OrderKept(p) \/ OrderMade(p) \/ OrderSettled(p)
<1>0. /\ orders \in [Orders -> OrderDocs] /\ slots \in [Slots -> CouponSteps]
      /\ promised \in [Orders -> Values \cup {0}]
      /\ \A q \in Orders : orders[q] \in OrderDocs
  <2>1. /\ orders \in [Orders -> OrderDocs] /\ slots \in [Slots -> CouponSteps]
        /\ promised \in [Orders -> Values \cup {0}]
    BY DEF CouponTypeOK, OrderDocs, CouponSteps
  <2> QED BY <2>1
<1>1. CASE UNCHANGED <<orders, promised>> BY <1>1 DEF OrderKept
<1>2. ASSUME NEW s \in Slots, OrderCreated(s) PROVE OrderKept(p) \/ OrderMade(p)
  <2> DEFINE q == slots[s].order
             doc == [status |-> "pending", user |-> slots[s].who, value |-> slots[s].value,
                     price |-> 0, bonusAmount |-> 0]
  <2>1. /\ orders' = [orders EXCEPT ![q] = doc]
        /\ promised' = [promised EXCEPT ![q] = slots[s].value]
    BY <1>2 DEF OrderCreated
  <2>2. CASE p = q
    <3>1. orders'[p] = doc /\ promised'[p] = slots[s].value BY <1>0, <2>1, <2>2
    <3> QED BY <1>2, <2>2, <3>1 DEF OrderMade
  <2>3. CASE p # q BY <1>0, <2>1, <2>3 DEF OrderKept
  <2> QED BY <2>2, <2>3
<1>3. ASSUME NEW q \in Orders, OrderCancelled(q) PROVE OrderKept(p) \/ OrderSettled(p)
  <2> DEFINE doc == [orders[q] EXCEPT !.status = "cancelled"]
  <2>1. orders' = [orders EXCEPT ![q] = doc] /\ promised' = promised /\ orders[q].status = "pending"
    BY <1>3 DEF OrderCancelled
  <2>2. doc.status = "cancelled" /\ doc.value = orders[q].value
    <3>1. orders[q] \in OrderDocs BY <1>0
    <3> QED BY <3>1, OrderDropped
  <2> HIDE DEF doc
  <2> QED BY <1>0, <2>1, <2>2 DEF OrderKept, OrderSettled
<1>4. ASSUME NEW s \in Slots, NEW q \in Orders, NEW price \in Totals, PriceFinal(s, q, price)
      PROVE  OrderKept(p) \/ OrderSettled(p)
  <2> DEFINE doc == [orders[q] EXCEPT !.status = "completed", !.price = price]
  <2>1. orders' = [orders EXCEPT ![q] = doc] /\ promised' = promised /\ orders[q].status = "pending"
    BY <1>0, <1>4 DEF PriceFinal
  <2>2. doc.status = "completed" /\ doc.value = orders[q].value
    <3>1. orders[q] \in OrderDocs BY <1>0
    <3> QED BY <3>1, OrderDone
  <2> HIDE DEF doc
  <2> QED BY <1>0, <2>1, <2>2 DEF OrderKept, OrderSettled
<1>5. ASSUME NEW s \in Slots, BonusNoted(s) PROVE OrderKept(p)
  <2> DEFINE q == slots[s].order
             doc == [orders[q] EXCEPT !.bonusAmount = slots[s].value]
  <2>1. orders' = [orders EXCEPT ![q] = doc] /\ promised' = promised BY <1>5 DEF BonusNoted
  <2>2. q \in Orders /\ slots[s].value \in Values BY <1>0, <1>5, CouponCarries DEF BonusNoted
  <2>3. doc.status = orders[q].status /\ doc.value = orders[q].value /\ doc.price = orders[q].price
    <3>1. orders[q] \in OrderDocs BY <1>0, <2>2
    <3> QED BY <3>1, OrderNoted
  <2> HIDE DEF doc
  <2> QED BY <1>0, <2>1, <2>2, <2>3 DEF OrderKept
<1> QED
  BY <1>1, <1>2, <1>3, <1>4, <1>5
  DEF CouponNext, OrderArrives, BonusCredited, CouponEdited, CouponServerStops, couponDocs, couponVars

\* How one step changes one running handler.
LEMMA CouponSlotMoves ==
  ASSUME CouponTypeOK, [CouponNext]_couponVars, NEW s \in Slots
  PROVE  \/ slots'[s] = slots[s] \/ slots'[s] = Idle
         \/ \E u \in Requesters, p \in Orders :
              OrderArrives(s, u, p) /\ slots'[s].op = "order" /\ slots'[s].order = p
         \/ \E p \in Orders, price \in Totals :
              PriceFinal(s, p, price) /\ slots'[s].op = "credit" /\ slots'[s].order = p
         \/ BonusCredited(s) /\ slots'[s].op = "note" /\ slots'[s].order = slots[s].order
<1>0. slots \in [Slots -> CouponSteps] BY DEF CouponTypeOK, CouponSteps
<1>1. ASSUME NEW t, NEW r, Goes(t, r) PROVE slots'[s] = IF s = t THEN r ELSE slots[s]
  BY <1>0, <1>1 DEF Goes
<1>2. CASE \E t \in Slots, u \in Requesters, p \in Orders : OrderArrives(t, u, p)
  BY <1>1, <1>2 DEF OrderArrives, Starts
<1>3. ASSUME NEW t \in Slots, NEW p \in Orders, NEW price \in Totals, PriceFinal(t, p, price)
      PROVE  \/ slots'[s] = slots[s]
             \/ PriceFinal(s, p, price) /\ slots'[s].op = "credit" /\ slots'[s].order = p
  <2>1. Goes(t, [op |-> "credit", order |-> p]) BY <1>3 DEF PriceFinal, Starts
  <2>2. slots'[s] = IF s = t THEN [op |-> "credit", order |-> p] ELSE slots[s] BY <1>1, <2>1
  <2> QED BY <1>3, <2>2
<1>4. CASE \E t \in Slots : BonusCredited(t)
  BY <1>1, <1>4 DEF BonusCredited, Ends
<1>5. CASE \E t \in Slots : OrderCreated(t) \/ BonusNoted(t)
  BY <1>1, <1>5 DEF OrderCreated, BonusNoted, Ends
<1>6. CASE UNCHANGED slots BY <1>6
<1>7. CASE CouponServerStops BY <1>7 DEF CouponServerStops, Restarts, AllIdle
<1> QED BY <1>2, <1>3, <1>4, <1>5, <1>6, <1>7
        DEF CouponNext, OrderCancelled, CouponEdited, couponVars

\* An order carries what was promised for it; a handler that is about to create
\* an order is alone with it, and one that is about to credit has its final price.
OrdersInFlight ==
  /\ \A p \in Orders : orders[p].status # "absent" => orders[p].value = promised[p]
  /\ \A s \in Slots : At(s, "order") => orders[slots[s].order].status = "absent"
  /\ \A r, s \in Slots :
       At(r, "order") /\ At(s, "order") /\ slots[r].order = slots[s].order => r = s
  /\ \A s \in Slots :
       At(s, "credit") \/ At(s, "note") => orders[slots[s].order].status = "completed"

LEMMA InFlightStep ==
  ASSUME CouponTypeOK, OrdersInFlight, [CouponNext]_couponVars
  PROVE  OrdersInFlight'
<1>0. slots \in [Slots -> CouponSteps] BY DEF CouponTypeOK, CouponSteps
<1>1. ASSUME NEW p \in Orders, orders'[p].status # "absent" PROVE orders'[p].value = promised'[p]
  BY <1>1, OrderMoves DEF OrderKept, OrderMade, OrderSettled, OrdersInFlight
<1>2. ASSUME NEW s \in Slots, At(s, "order")'
      PROVE  /\ slots'[s].order \in Orders /\ orders'[slots'[s].order].status = "absent"
             /\ \A r \in Slots :
                  At(r, "order")' /\ slots'[r].order = slots'[s].order => r = s
  <2>1. CASE slots'[s] = slots[s]
    <3> DEFINE p == slots[s].order
    <3>1. At(s, "order") /\ p \in Orders /\ orders[p].status = "absent"
      BY <1>0, <1>2, <2>1, CouponCarries DEF At, OrdersInFlight
    <3>2. ASSUME NEW t \in Slots, OrderCreated(t), slots[t].order = p PROVE FALSE
      <4>1. t = s BY <3>1, <3>2 DEF OrderCreated, OrdersInFlight
      <4>2. slots'[t] = Idle BY <1>0, <3>2 DEF OrderCreated, Ends, Goes
      <4> QED BY <1>2, <4>1, <4>2 DEF At, Idle
    <3>3. orders'[p].status = "absent"
      BY <3>1, <3>2, OrderMoves DEF OrderKept, OrderMade, OrderSettled
    <3>4. ASSUME NEW r \in Slots, At(r, "order")', slots'[r].order = p PROVE r = s
      <4>1. CASE slots'[r] = slots[r] BY <3>1, <3>4, <4>1 DEF At, OrdersInFlight
      <4>2. ASSUME NEW u, OrderArrives(r, u, p) PROVE FALSE BY <3>1, <4>2 DEF OrderArrives
      <4> QED BY <3>4, <4>1, <4>2, CouponSlotMoves DEF At, Idle
    <3> QED BY <2>1, <3>1, <3>3, <3>4
  <2>2. ASSUME NEW u \in Requesters, NEW p \in Orders, OrderArrives(s, u, p), slots'[s].order = p
        PROVE  /\ orders'[p].status = "absent"
               /\ \A r \in Slots : At(r, "order")' /\ slots'[r].order = p => r = s
    <3>1. orders' = orders /\ orders[p].status = "absent"
      BY <2>2 DEF OrderArrives, couponDocs, NoOrder
    <3>2. ASSUME NEW r \in Slots, At(r, "order")', slots'[r].order = p, r # s PROVE FALSE
      <4>1. slots'[r] = slots[r] BY <1>0, <2>2, <3>2 DEF OrderArrives, Starts, Goes
      <4> QED BY <2>2, <3>2, <4>1 DEF OrderArrives, At
    <3> QED BY <3>1, <3>2
  <2> QED BY <1>2, <2>1, <2>2, CouponSlotMoves DEF At, Idle
<1>3. ASSUME NEW s \in Slots, At(s, "credit")' \/ At(s, "note")'
      PROVE  orders'[slots'[s].order].status = "completed"
  <2>1. CASE At(s, "credit") \/ At(s, "note")
    <3> DEFINE p == slots[s].order
    <3>1. p \in Orders /\ orders[p].status = "completed"
      BY <1>0, <2>1, CouponCarries DEF OrdersInFlight
    <3>2. ASSUME NEW t \in Slots, OrderCreated(t), slots[t].order = p PROVE FALSE
      BY <3>1, <3>2 DEF OrderCreated, OrdersInFlight
    <3>3. orders'[p].status = "completed"
      BY <3>1, <3>2, OrderMoves DEF OrderKept, OrderMade, OrderSettled
    <3>4. slots'[s].order = p
      <4>1. slots[s] # Idle BY <2>1 DEF At, Idle
      <4>2. slots'[s] # Idle BY <1>3 DEF At, Idle
      <4>3. ~\E u \in Requesters, q \in Orders : OrderArrives(s, u, q)
        BY <4>1 DEF OrderArrives, Starts
      <4>4. ~\E q \in Orders, price \in Totals : PriceFinal(s, q, price)
        BY <4>1 DEF PriceFinal, Starts
      <4> QED BY <4>2, <4>3, <4>4, CouponSlotMoves
    <3> QED BY <3>3, <3>4
  <2>2. ASSUME NEW p \in Orders, NEW price \in Totals, PriceFinal(s, p, price), slots'[s].order = p
        PROVE  orders'[p].status = "completed"
    <3>1. orders[p].status = "pending" BY <2>2 DEF PriceFinal
    <3> DEFINE doc == [orders[p] EXCEPT !.status = "completed", !.price = price]
    <3>2. orders \in [Orders -> OrderDocs] BY DEF CouponTypeOK, OrderDocs
    <3>3. orders' = [orders EXCEPT ![p] = doc] BY <2>2, <3>2 DEF PriceFinal
    <3>4. doc.status = "completed"
      <4>1. orders[p] \in OrderDocs BY <3>2
      <4> QED BY <4>1, OrderDone
    <3> HIDE DEF doc
    <3> QED BY <3>2, <3>3, <3>4
  <2>3. CASE BonusCredited(s) BY <2>1, <2>3 DEF BonusCredited
  <2>4. slots'[s] # Idle /\ slots'[s].op # "order" BY <1>3 DEF At, Idle
  <2>5. CASE slots'[s] = slots[s] BY <1>3, <2>1, <2>5 DEF At
  <2> QED BY <2>2, <2>3, <2>4, <2>5, CouponSlotMoves
<1> QED BY <1>1, <1>2, <1>3 DEF OrdersInFlight

LEMMA PromiseStep ==
  ASSUME CouponTypeOK, OrdersInFlight, PromiseKept, [CouponNext]_couponVars
  PROVE  PromiseKept'
<1> SUFFICES ASSUME NEW p \in Orders, credits'[p] # 0
             PROVE  /\ orders'[p].status = "completed"
                    /\ credits'[p] = BonusOf(promised'[p], orders'[p].price)
  BY DEF PromiseKept, BonusOf
<1>0. slots \in [Slots -> CouponSteps] /\ credits \in [Orders -> Values \cup {0}]
  BY DEF CouponTypeOK, CouponSteps
<1>1. CASE credits[p] # 0 /\ credits' = credits
  <2>1. orders[p].status = "completed" /\ credits[p] = BonusOf(promised[p], orders[p].price)
    BY <1>1 DEF PromiseKept
  <2>2. ~OrderMade(p) BY <2>1 DEF OrderMade, OrderCreated, OrdersInFlight
  <2> QED BY <1>1, <2>1, <2>2, OrderMoves DEF OrderKept, OrderSettled
<1>2. ASSUME NEW s \in Slots, BonusCredited(s)
      PROVE  /\ orders'[p].status = "completed"
             /\ credits'[p] = BonusOf(promised'[p], orders'[p].price)
  <2> DEFINE q == slots[s].order
             bonus == BonusOf(SnapshotOf(q), orders[q].price)
  <2>1. orders' = orders /\ promised' = promised BY <1>2 DEF BonusCredited
  <2>2. q \in Orders /\ orders[q].status = "completed" /\ orders[q].value = promised[q]
    BY <1>0, <1>2, CouponCarries DEF BonusCredited, OrdersInFlight
  <2>3. credits' = credits \/ credits' = [credits EXCEPT ![q] = bonus] BY <1>2 DEF BonusCredited
  <2>4. bonus = BonusOf(promised[q], orders[q].price) BY <2>2 DEF SnapshotOf
  <2> HIDE DEF bonus, q
  <2>5. CASE credits' = credits BY <1>1, <2>5
  <2>6. CASE credits' = [credits EXCEPT ![q] = bonus]
    <3>1. CASE p = q BY <1>0, <2>1, <2>2, <2>4, <2>6, <3>1
    <3>2. CASE p # q BY <1>0, <2>1, <2>6, <3>2 DEF PromiseKept
    <3> QED BY <3>1, <3>2
  <2> QED BY <2>3, <2>5, <2>6
<1>3. credits' = credits \/ \E s \in Slots : BonusCredited(s)
  BY DEF CouponNext, OrderArrives, PriceFinal, OrderCreated, BonusNoted, OrderCancelled,
     CouponEdited, CouponServerStops, couponDocs, couponVars
<1> QED BY <1>1, <1>2, <1>3

\* The bonus credited for an order is what its code was worth when the order was
\* made, on the final price, whatever an admin made of the code since.
THEOREM PromiseIsKept == CouponSpec => []PromiseKept
<1>1. CouponInit => OrdersInFlight /\ PromiseKept
  BY DEF CouponInit, OrdersInFlight, PromiseKept, NoOrder, AllIdle, At, Idle
<1> QED BY <1>1, CouponTypes, InFlightStep, PromiseStep, PTL DEF CouponSpec

-----------------------------------------------------------------------------
(* Coupons: the contract.                                                   *)

DealStep == Deal!DealNext \/ UNCHANGED Deal!dealVars

\* A pickup nobody requested is blank, and a bonus on its way to a pickup is the
\* one that was credited for it.
ShownIsPaid ==
  /\ \A p \in Orders : orders[p].status = "absent" => orders[p] = NoOrder
  /\ \A s \in Slots : At(s, "note") => credits[slots[s].order] = slots[s].value

\* What the contract sees of a write to one order.
LEMMA OneOrderWritten ==
  ASSUME NEW p \in Orders, NEW doc,
         orders \in [Orders -> OrderDocs], orders' = [orders EXCEPT ![p] = doc]
  PROVE  /\ [q \in Orders |-> orders'[q].status] =
              [[q \in Orders |-> orders[q].status] EXCEPT ![p] = doc.status]
         /\ [q \in Orders |-> orders'[q].price] =
              [[q \in Orders |-> orders[q].price] EXCEPT ![p] = doc.price]
         /\ [q \in Orders |-> orders'[q].bonusAmount] =
              [[q \in Orders |-> orders[q].bonusAmount] EXCEPT ![p] = doc.bonusAmount]
<1>1. \A q \in Orders : orders'[q] = IF q = p THEN doc ELSE orders[q] OBVIOUS
<1> QED BY <1>1

LEMMA DealStill == ASSUME UNCHANGED <<orders, credits, promised>> PROVE DealStep
BY DEF DealStep, Deal!dealVars

LEMMA RequestKept ==
  ASSUME CouponTypeOK, OrdersInFlight, ShownIsPaid, NEW s \in Slots, OrderCreated(s)
  PROVE  DealStep
<1>0. orders \in [Orders -> OrderDocs] /\ slots \in [Slots -> CouponSteps]
  BY DEF CouponTypeOK, OrderDocs, CouponSteps
<1> DEFINE doc(u, v) == [status |-> "pending", user |-> u, value |-> v,
                         price |-> 0, bonusAmount |-> 0]
<1>1. PICK p \in Orders, value \in Values :
        /\ p = slots[s].order /\ value = slots[s].value
        /\ orders[p] = NoOrder
  BY <1>0, CouponCarries DEF OrderCreated, OrdersInFlight, ShownIsPaid
<1>2. /\ orders' = [orders EXCEPT ![p] = doc(slots[s].who, value)]
      /\ promised' = [promised EXCEPT ![p] = value] /\ credits' = credits
  BY <1>1 DEF OrderCreated
<1>3. /\ doc(slots[s].who, value).status = "pending"
      /\ doc(slots[s].who, value).price = 0 /\ doc(slots[s].who, value).bonusAmount = 0
  OBVIOUS
<1>4. orders[p].status = "absent" /\ orders[p].price = 0 /\ orders[p].bonusAmount = 0
  BY <1>1 DEF NoOrder
<1> HIDE DEF doc
<1>5. /\ [q \in Orders |-> orders'[q].status] =
           [[q \in Orders |-> orders[q].status] EXCEPT ![p] = "pending"]
      /\ [q \in Orders |-> orders'[q].price] =
           [[q \in Orders |-> orders[q].price] EXCEPT ![p] = 0]
      /\ [q \in Orders |-> orders'[q].bonusAmount] =
           [[q \in Orders |-> orders[q].bonusAmount] EXCEPT ![p] = 0]
  BY <1>0, <1>2, <1>3, OneOrderWritten
<1>6. /\ [q \in Orders |-> orders'[q].price] = [q \in Orders |-> orders[q].price]
      /\ [q \in Orders |-> orders'[q].bonusAmount] = [q \in Orders |-> orders[q].bonusAmount]
  BY <1>4, <1>5
<1>7. Deal!Request(p) BY <1>2, <1>4, <1>5, <1>6 DEF Deal!Request
<1> QED BY <1>7 DEF DealStep, Deal!DealNext

LEMMA CancelKept ==
  ASSUME CouponTypeOK, NEW p \in Orders, OrderCancelled(p)
  PROVE  DealStep
<1>0. orders \in [Orders -> OrderDocs] BY DEF CouponTypeOK, OrderDocs
<1> DEFINE doc == [orders[p] EXCEPT !.status = "cancelled"]
<1>1. /\ doc.status = "cancelled" /\ doc.price = orders[p].price
      /\ doc.bonusAmount = orders[p].bonusAmount
  <2>1. orders[p] \in OrderDocs BY <1>0
  <2> QED BY <2>1, OrderDropped
<1>2. /\ orders' = [orders EXCEPT ![p] = doc] /\ orders[p].status = "pending"
      /\ promised' = promised /\ credits' = credits
  BY DEF OrderCancelled
<1> HIDE DEF doc
<1>3. /\ [q \in Orders |-> orders'[q].status] =
           [[q \in Orders |-> orders[q].status] EXCEPT ![p] = "cancelled"]
      /\ [q \in Orders |-> orders'[q].price] =
           [[q \in Orders |-> orders[q].price] EXCEPT ![p] = orders[p].price]
      /\ [q \in Orders |-> orders'[q].bonusAmount] =
           [[q \in Orders |-> orders[q].bonusAmount] EXCEPT ![p] = orders[p].bonusAmount]
  BY <1>0, <1>1, <1>2, OneOrderWritten
<1>4. /\ [q \in Orders |-> orders'[q].price] = [q \in Orders |-> orders[q].price]
      /\ [q \in Orders |-> orders'[q].bonusAmount] = [q \in Orders |-> orders[q].bonusAmount]
  BY <1>3
<1>5. Deal!Cancel(p) BY <1>2, <1>3, <1>4 DEF Deal!Cancel
<1> QED BY <1>5 DEF DealStep, Deal!DealNext

LEMMA SettleKept ==
  ASSUME CouponTypeOK, NEW s \in Slots, NEW p \in Orders, NEW price \in Totals,
         PriceFinal(s, p, price)
  PROVE  DealStep
<1>0. orders \in [Orders -> OrderDocs] BY DEF CouponTypeOK, OrderDocs
<1> DEFINE doc == [orders[p] EXCEPT !.status = "completed", !.price = price]
<1>1. /\ doc.status = "completed" /\ doc.price = price
      /\ doc.bonusAmount = orders[p].bonusAmount
  <2>1. orders[p] \in OrderDocs BY <1>0
  <2> QED BY <2>1, OrderDone
<1>2. /\ orders' = [orders EXCEPT ![p] = doc] /\ orders[p].status = "pending"
      /\ promised' = promised /\ credits' = credits
  BY <1>0 DEF PriceFinal
<1> HIDE DEF doc
<1>3. /\ [q \in Orders |-> orders'[q].status] =
           [[q \in Orders |-> orders[q].status] EXCEPT ![p] = "completed"]
      /\ [q \in Orders |-> orders'[q].price] =
           [[q \in Orders |-> orders[q].price] EXCEPT ![p] = price]
      /\ [q \in Orders |-> orders'[q].bonusAmount] =
           [[q \in Orders |-> orders[q].bonusAmount] EXCEPT ![p] = orders[p].bonusAmount]
  BY <1>0, <1>1, <1>2, OneOrderWritten
<1>4. [q \in Orders |-> orders'[q].bonusAmount] = [q \in Orders |-> orders[q].bonusAmount]
  BY <1>3
<1>5. Deal!Settle(p) BY <1>2, <1>3, <1>4 DEF Deal!Settle
<1> QED BY <1>5 DEF DealStep, Deal!DealNext

LEMMA BonusKept ==
  ASSUME CouponTypeOK, OrdersInFlight, NEW s \in Slots, BonusCredited(s)
  PROVE  DealStep
<1>0. orders \in [Orders -> OrderDocs] /\ slots \in [Slots -> CouponSteps]
  BY DEF CouponTypeOK, OrderDocs, CouponSteps
<1>1. PICK p \in Orders : p = slots[s].order /\ orders[p].status = "completed"
  BY <1>0, CouponCarries DEF BonusCredited, OrdersInFlight
<1>2. orders' = orders /\ promised' = promised BY DEF BonusCredited
<1>3. CASE credits' = credits BY <1>2, <1>3, DealStill
<1>4. CASE credits' # credits
  <2>1. /\ credits[p] = 0
        /\ credits' = [credits EXCEPT ![p] = BonusOf(SnapshotOf(p), orders[p].price)]
    BY <1>1, <1>4 DEF BonusCredited
  <2>2. SnapshotOf(p) = promised[p] BY <1>1 DEF SnapshotOf, OrdersInFlight
  <2>3. BonusOf(SnapshotOf(p), orders[p].price) = Deal!Due(p)
    BY <2>2 DEF BonusOf, Deal!Due
  <2>4. credits' = [credits EXCEPT ![p] = Deal!Due(p)] BY <2>1, <2>3
  <2>5. Deal!PayBonus(p) BY <1>1, <1>2, <2>1, <2>4 DEF Deal!PayBonus
  <2> QED BY <2>5 DEF DealStep, Deal!DealNext
<1> QED BY <1>3, <1>4

LEMMA NoteKept ==
  ASSUME CouponTypeOK, ShownIsPaid, NEW s \in Slots, BonusNoted(s)
  PROVE  DealStep
<1>0. orders \in [Orders -> OrderDocs] /\ slots \in [Slots -> CouponSteps]
  BY DEF CouponTypeOK, OrderDocs, CouponSteps
<1>1. PICK p \in Orders, bonus \in Values :
        p = slots[s].order /\ bonus = slots[s].value /\ credits[p] = bonus
  BY <1>0, CouponCarries DEF BonusNoted, ShownIsPaid
<1> DEFINE doc == [orders[p] EXCEPT !.bonusAmount = bonus]
<1>2. /\ doc.status = orders[p].status /\ doc.price = orders[p].price
      /\ doc.bonusAmount = bonus
  <2>1. orders[p] \in OrderDocs BY <1>0
  <2> QED BY <2>1, OrderNoted
<1>3. /\ orders' = [orders EXCEPT ![p] = doc] /\ promised' = promised /\ credits' = credits
  BY <1>1 DEF BonusNoted
<1> HIDE DEF doc
<1>4. /\ [q \in Orders |-> orders'[q].status] =
           [[q \in Orders |-> orders[q].status] EXCEPT ![p] = orders[p].status]
      /\ [q \in Orders |-> orders'[q].price] =
           [[q \in Orders |-> orders[q].price] EXCEPT ![p] = orders[p].price]
      /\ [q \in Orders |-> orders'[q].bonusAmount] =
           [[q \in Orders |-> orders[q].bonusAmount] EXCEPT ![p] = bonus]
  BY <1>0, <1>2, <1>3, OneOrderWritten
<1>5. /\ [q \in Orders |-> orders'[q].status] = [q \in Orders |-> orders[q].status]
      /\ [q \in Orders |-> orders'[q].price] = [q \in Orders |-> orders[q].price]
  BY <1>4
<1>6. credits[p] # 0 BY <1>1, CouponAssumption
<1>7. Deal!ShowBonus(p) BY <1>1, <1>3, <1>4, <1>5, <1>6 DEF Deal!ShowBonus
<1> QED BY <1>7 DEF DealStep, Deal!DealNext

LEMMA CouponKept ==
  ASSUME CouponTypeOK, OrdersInFlight, ShownIsPaid, [CouponNext]_couponVars
  PROVE  DealStep
<1>1. CASE UNCHANGED <<orders, credits, promised>> BY <1>1, DealStill
<1> QED
  BY <1>1, RequestKept, CancelKept, SettleKept, BonusKept, NoteKept
  DEF CouponNext, OrderArrives, CouponEdited, CouponServerStops, couponDocs, couponVars

\* An order changes only where it is no longer absent.
LEMMA ShownStep ==
  ASSUME CouponTypeOK, OrdersInFlight, ShownIsPaid, [CouponNext]_couponVars
  PROVE  ShownIsPaid'
<1>0. /\ orders \in [Orders -> OrderDocs] /\ slots \in [Slots -> CouponSteps]
      /\ credits \in [Orders -> Values \cup {0}]
  BY DEF CouponTypeOK, OrderDocs, CouponSteps
<1>1. ASSUME NEW p \in Orders, orders'[p].status = "absent" PROVE orders'[p] = NoOrder
  <2>1. orders[p].status = "absent" BY <1>1, OrderMoves DEF OrderKept, OrderMade, OrderSettled
  <2>2. orders[p] = NoOrder BY <2>1 DEF ShownIsPaid
  <2>3. ASSUME NEW s \in Slots, OrderCreated(s) PROVE orders'[p] = orders[p]
    <3> DEFINE doc == [status |-> "pending", user |-> slots[s].who, value |-> slots[s].value,
                       price |-> 0, bonusAmount |-> 0]
    <3>1. orders' = [orders EXCEPT ![slots[s].order] = doc] BY <2>3 DEF OrderCreated
    <3>2. doc.status # "absent" OBVIOUS
    <3> HIDE DEF doc
    <3> QED BY <1>0, <1>1, <3>1, <3>2
  <2>4. ASSUME NEW q \in Orders, OrderCancelled(q) PROVE orders'[p] = orders[p]
    <3>1. q # p BY <2>1, <2>4 DEF OrderCancelled
    <3> QED BY <1>0, <2>4, <3>1 DEF OrderCancelled
  <2>5. ASSUME NEW s \in Slots, NEW q \in Orders, NEW price \in Totals, PriceFinal(s, q, price)
        PROVE  orders'[p] = orders[p]
    <3>1. q # p BY <2>1, <2>5 DEF PriceFinal
    <3> QED BY <1>0, <2>5, <3>1 DEF PriceFinal
  <2>6. ASSUME NEW s \in Slots, BonusNoted(s) PROVE orders'[p] = orders[p]
    <3>1. slots[s].order # p BY <2>1, <2>6 DEF BonusNoted, OrdersInFlight
    <3> QED BY <1>0, <2>6, <3>1 DEF BonusNoted
  <2>7. orders'[p] = orders[p]
    BY <2>3, <2>4, <2>5, <2>6
    DEF CouponNext, OrderArrives, BonusCredited, CouponEdited, CouponServerStops, couponDocs,
        couponVars
  <2> QED BY <2>2, <2>7
<1>2. ASSUME NEW p \in Orders, credits[p] # 0 PROVE credits'[p] = credits[p]
  <2>1. credits' = credits \/ \E s \in Slots : BonusCredited(s)
    BY DEF CouponNext, OrderArrives, PriceFinal, OrderCreated, BonusNoted, OrderCancelled,
       CouponEdited, CouponServerStops, couponDocs, couponVars
  <2>2. ASSUME NEW s \in Slots, BonusCredited(s) PROVE credits'[p] = credits[p]
    <3> DEFINE bonus == BonusOf(SnapshotOf(slots[s].order), orders[slots[s].order].price)
    <3>1. \/ credits' = credits
          \/ credits[slots[s].order] = 0 /\ credits' = [credits EXCEPT ![slots[s].order] = bonus]
      BY <2>2 DEF BonusCredited
    <3> HIDE DEF bonus
    <3> QED BY <1>0, <1>2, <3>1
  <2> QED BY <2>1, <2>2
<1>3. ASSUME NEW s \in Slots, At(s, "note")'
      PROVE  credits'[slots'[s].order] = slots'[s].value
  <2>1. CASE slots'[s] = slots[s]
    <3>1. At(s, "note") BY <1>3, <2>1 DEF At
    <3>2. slots[s].order \in Orders /\ slots[s].value \in Values BY <1>0, <3>1, CouponCarries
    <3>3. credits[slots[s].order] # 0 BY <3>1, <3>2, CouponAssumption DEF ShownIsPaid
    <3> QED BY <1>2, <2>1, <3>1, <3>2, <3>3 DEF ShownIsPaid
  <2>2. CASE BonusCredited(s)
    <3>1. slots[s].order \in Orders BY <1>0, <2>2, CouponCarries DEF BonusCredited
    <3>2. slots' = [slots EXCEPT ![s] = Idle] \/ credits'[slots'[s].order] = slots'[s].value
      BY <1>0, <2>2, <3>1 DEF BonusCredited, Ends, Goes
    <3> QED BY <1>0, <1>3, <3>2 DEF At, Idle
  <2>3. slots'[s] # Idle /\ slots'[s].op = "note" BY <1>3 DEF At, Idle
  <2> QED BY <2>1, <2>2, <2>3, CouponSlotMoves
<1> QED BY <1>1, <1>2, <1>3 DEF ShownIsPaid

\* Coupons implement their contract: whatever admins do to a code and wherever
\* the server stops, what was promised at the request is paid once on the final
\* price, and what the pickup shows is what was paid.
THEOREM DealRefinement == CouponSpec => DealIsKept
<1>1. CouponInit => Deal!DealInit
  BY DEF CouponInit, Deal!DealInit, Deal!Nothing, NoOrder
<1>2. CouponTypeOK /\ OrdersInFlight /\ ShownIsPaid /\ [CouponNext]_couponVars
        => [Deal!DealNext]_(Deal!dealVars)
  BY CouponKept DEF DealStep
<1>3. CouponInit => OrdersInFlight /\ ShownIsPaid
  BY DEF CouponInit, OrdersInFlight, ShownIsPaid, NoOrder, AllIdle, At, Idle
<1>4. CouponTypeOK /\ OrdersInFlight /\ ShownIsPaid /\ [CouponNext]_couponVars
        => OrdersInFlight' /\ ShownIsPaid'
  BY InFlightStep, ShownStep
<1> QED
  BY <1>1, <1>2, <1>3, <1>4, CouponTypes, PTL DEF CouponSpec, DealIsKept, Deal!DealSpec

-----------------------------------------------------------------------------
(* Coupons: how far past its limit a code can go.                           *)

\* The handlers between the check of the code and Pickup.create.
Passed == {s \in Slots : At(s, "order")}

LEMMA SetsAreFinite == IsFiniteSet(Used) /\ IsFiniteSet(Passed)
<1>1. IsFiniteSet(Used) BY CouponAssumption, FS_Subset DEF Used
<1>2. IsFiniteSet(Passed) BY CouponAssumption, FS_Subset DEF Passed
<1> QED BY <1>1, <1>2

\* Uses and handlers on their way to one only move together.
LEMMA CountStep ==
  ASSUME CouponTypeOK, [CouponNext]_couponVars
  PROVE  \/ Used' \subseteq Used /\ Passed' \subseteq Passed
         \/ \E p \in Orders, s \in Passed : Used' \subseteq Used \cup {p} /\ Passed' \subseteq Passed \ {s}
         \/ /\ Used' = Used /\ Cardinality(Used) < MaxRedemptions
            /\ \E s \in Slots \ Passed : Passed' \subseteq Passed \cup {s}
<1>0. slots \in [Slots -> CouponSteps] /\ orders \in [Orders -> OrderDocs]
  BY DEF CouponTypeOK, CouponSteps, OrderDocs
<1>1. ASSUME NEW s \in Slots, NEW u \in Requesters, NEW p \in Orders, OrderArrives(s, u, p)
      PROVE  /\ Used' = Used /\ Cardinality(Used) < MaxRedemptions
             /\ \E r \in Slots \ Passed : Passed' \subseteq Passed \cup {r}
  <2>1. Used' = Used BY <1>1 DEF OrderArrives, couponDocs, Used
  <2>2. Cardinality(Used) < MaxRedemptions BY <1>1 DEF OrderArrives, CouponUsable
  <2>3. s \in Slots \ Passed BY <1>1 DEF OrderArrives, Starts, Idle, Passed, At
  <2>4. Passed' \subseteq Passed \cup {s} BY <1>0, <1>1 DEF OrderArrives, Starts, Goes, Passed, At
  <2> QED BY <2>1, <2>2, <2>3, <2>4
<1>2. ASSUME NEW s \in Slots, OrderCreated(s)
      PROVE  \E p \in Orders, r \in Passed : Used' \subseteq Used \cup {p} /\ Passed' \subseteq Passed \ {r}
  <2> DEFINE p == slots[s].order
  <2>1. p \in Orders BY <1>0, <1>2, CouponCarries DEF OrderCreated
  <2>2. Used' \subseteq Used \cup {p} BY <1>0, <1>2 DEF OrderCreated, Used
  <2>3. s \in Passed BY <1>2 DEF OrderCreated, Passed
  <2>4. Passed' \subseteq Passed \ {s} BY <1>0, <1>2 DEF OrderCreated, Ends, Goes, Passed, At, Idle
  <2> QED BY <2>1, <2>2, <2>3, <2>4
<1>3. CASE ~\E s \in Slots : OrderCreated(s) \/ \E u \in Requesters, p \in Orders : OrderArrives(s, u, p)
  <2>1. ASSUME NEW p \in Orders, p \in Used' PROVE p \in Used
    <3>1. ~OrderMade(p) BY <1>3 DEF OrderMade
    <3> QED BY <2>1, <3>1, OrderMoves DEF OrderKept, OrderSettled, Used
  <2>2. ASSUME NEW s \in Slots, s \in Passed' PROVE s \in Passed
    <3>1. slots'[s].op = "order" BY <2>2 DEF Passed, At
    <3>2. slots'[s] # Idle BY <3>1 DEF Idle
    <3>3. slots'[s] = slots[s] BY <1>3, <3>1, <3>2, CouponSlotMoves
    <3> QED BY <3>1, <3>3 DEF Passed, At
  <2>3. Used' \subseteq Orders /\ Passed' \subseteq Slots BY DEF Used, Passed
  <2> QED BY <2>1, <2>2, <2>3
<1> QED BY <1>1, <1>2, <1>3

LEMMA OveruseStep ==
  ASSUME CouponTypeOK, OveruseIsBounded, [CouponNext]_couponVars
  PROVE  OveruseIsBounded'
<1> DEFINE used == Cardinality(Used)
           passed == Cardinality(Passed)
           all == Cardinality(Slots)
<1>0. /\ IsFiniteSet(Used) /\ IsFiniteSet(Passed) /\ IsFiniteSet(Slots)
      /\ MaxRedemptions \in Nat \ {0} /\ used \in Nat /\ passed \in Nat /\ all \in Nat
  <2>1. IsFiniteSet(Slots) /\ MaxRedemptions \in Nat \ {0} BY CouponAssumption
  <2> QED BY <2>1, SetsAreFinite, FS_CardinalityType
<1>1. used + passed < MaxRedemptions + all BY DEF OveruseIsBounded, Passed
<1>2. CASE Used' \subseteq Used /\ Passed' \subseteq Passed
  <2>1. used' <= used /\ used' \in Nat BY <1>0, <1>2, FS_Subset, FS_CardinalityType
  <2>2. passed' <= passed /\ passed' \in Nat BY <1>0, <1>2, FS_Subset, FS_CardinalityType
  <2> QED BY <1>0, <1>1, <2>1, <2>2 DEF OveruseIsBounded, Passed
<1>3. ASSUME NEW p \in Orders, NEW s \in Passed,
             Used' \subseteq Used \cup {p}, Passed' \subseteq Passed \ {s}
      PROVE  OveruseIsBounded'
  <2>1. IsFiniteSet(Used \cup {p}) /\ Cardinality(Used \cup {p}) <= used + 1
    BY <1>0, FS_AddElement
  <2>2. used' <= Cardinality(Used \cup {p}) /\ used' \in Nat
    BY <1>3, <2>1, FS_Subset, FS_CardinalityType
  <2>3. IsFiniteSet(Passed \ {s}) /\ Cardinality(Passed \ {s}) = passed - 1
    BY <1>0, <1>3, FS_RemoveElement
  <2>4. passed' <= Cardinality(Passed \ {s}) /\ passed' \in Nat
    BY <1>3, <2>3, FS_Subset, FS_CardinalityType
  <2>5. Cardinality(Used \cup {p}) \in Nat BY <2>1, FS_CardinalityType
  <2> QED BY <1>0, <1>1, <2>1, <2>2, <2>3, <2>4, <2>5 DEF OveruseIsBounded, Passed
<1>4. ASSUME Used' = Used, used < MaxRedemptions, NEW s \in Slots \ Passed,
             Passed' \subseteq Passed \cup {s}
      PROVE  OveruseIsBounded'
  <2>1. Passed' \subseteq Slots /\ used' = used BY <1>4 DEF Passed
  <2>2. passed' <= all /\ passed' \in Nat
    BY <1>0, <2>1, FS_Subset, FS_CardinalityType
  <2> QED BY <1>0, <1>4, <2>1, <2>2 DEF OveruseIsBounded, Passed
<1> QED BY <1>2, <1>3, <1>4, CountStep

\* A code is used past its limit by fewer orders than handlers can run at once,
\* with those on their way to an order counted in.
THEOREM OveruseBounded == CouponSpec => []OveruseIsBounded
<1>1. CouponInit => OveruseIsBounded
  <2> SUFFICES ASSUME CouponInit PROVE OveruseIsBounded OBVIOUS
  <2>1. Used = {} BY DEF CouponInit, NoOrder, Used
  <2>2. Passed = {} BY DEF CouponInit, AllIdle, Idle, At, Passed
  <2>3. Cardinality(Used) = 0 /\ Cardinality(Passed) = 0 BY <2>1, <2>2, FS_EmptySet
  <2>4. Cardinality(Slots) \in Nat BY CouponAssumption, FS_CardinalityType
  <2> QED BY <2>3, <2>4, CouponAssumption DEF OveruseIsBounded, Passed
<1> QED BY <1>1, CouponTypes, OveruseStep, PTL DEF CouponSpec


-----------------------------------------------------------------------------
(* Accounts: types.                                                         *)

AccountDocs == [version : 0..MaxVersion, active : BOOLEAN, deleted : BOOLEAN, reset : BOOLEAN]

\* What a handler has loaded: a version there is room above, for the handlers
\* that save a new one.
AccountSteps ==
  {Idle} \cup [op : {"login"}, version : 0..MaxVersion]
         \cup [op : {"change", "reset", "delete"}, version : 0..(MaxVersion - 1), active : BOOLEAN]
         \cup [op : {"activate", "deactivate"}, version : 0..MaxVersion, active : BOOLEAN]

AccountTypes ==
  /\ AccountTypeOK
  /\ overlapped \in BOOLEAN
  /\ slots \in [Slots -> AccountSteps]

LEMMA AccountCarries ==
  ASSUME NEW s \in Slots, slots \in [Slots -> AccountSteps]
  PROVE  /\ At(s, "login") => slots[s].version \in 0..MaxVersion
         /\ At(s, "change") \/ At(s, "reset") \/ At(s, "delete") =>
              slots[s].version \in 0..(MaxVersion - 1)
<1>1. slots[s] \in AccountSteps OBVIOUS
<1> QED BY <1>1 DEF AccountSteps, At, Idle

\* The fields of the account that a handler sends.
LEMMA PasswordWritten ==
  ASSUME NEW doc \in AccountDocs, NEW version, NEW reset
  PROVE  [doc EXCEPT !.version = version, !.reset = reset] =
           [version |-> version, active |-> doc.active, deleted |-> doc.deleted, reset |-> reset]
<1> DEFINE saved == [version |-> version, active |-> doc.active, deleted |-> doc.deleted,
                     reset |-> doc.reset]
<1>1. [doc EXCEPT !.version = version] = saved BY DEF AccountDocs
<1>2. [doc EXCEPT !.version = version, !.reset = reset] =
        [[doc EXCEPT !.version = version] EXCEPT !.reset = reset]
  OBVIOUS
<1>3. [saved EXCEPT !.reset = reset] =
        [version |-> version, active |-> doc.active, deleted |-> doc.deleted, reset |-> reset]
  OBVIOUS
<1> HIDE DEF saved
<1> QED BY <1>1, <1>2, <1>3

LEMMA FlagWritten ==
  ASSUME NEW doc \in AccountDocs, NEW active
  PROVE  [doc EXCEPT !.active = active] =
           [version |-> doc.version, active |-> active, deleted |-> doc.deleted, reset |-> doc.reset]
BY DEF AccountDocs

LEMMA LinkWritten ==
  ASSUME NEW doc \in AccountDocs, NEW reset
  PROVE  [doc EXCEPT !.reset = reset] =
           [version |-> doc.version, active |-> doc.active, deleted |-> doc.deleted, reset |-> reset]
BY DEF AccountDocs

LEMMA LoadsTyped ==
  ASSUME AccountTypes, NEW s \in Slots, NEW op \in Writers, Loads(s, op),
         op \in {"change", "reset", "delete"} => account.version < MaxVersion
  PROVE  AccountTypes'
<1> DEFINE r == [op |-> op, version |-> account.version, active |-> account.active]
<1>1. r \in AccountSteps
  BY AccountAssumption DEF AccountTypes, AccountTypeOK, AccountSteps, Writers
<1>2. slots' \in [Slots -> AccountSteps] BY <1>1 DEF Loads, Starts, Goes, AccountTypes
<1> QED BY <1>2 DEF Loads, AccountTypes, AccountTypeOK

LEMMA AccountTypesStep == AccountTypes /\ [AccountNext]_accountVars => AccountTypes'
<1> SUFFICES ASSUME AccountTypes, [AccountNext]_accountVars PROVE AccountTypes' OBVIOUS
<1> USE AccountAssumption
<1>0. /\ account \in AccountDocs /\ slots \in [Slots -> AccountSteps]
      /\ sockets \cup ended \subseteq tokens /\ tokens \subseteq 0..MaxVersion /\ overlapped \in BOOLEAN
  BY DEF AccountTypes, AccountTypeOK, AccountDocs
<1>1. ASSUME NEW s \in Slots, Ends(s) PROVE slots' \in [Slots -> AccountSteps]
  BY <1>0, <1>1 DEF Ends, Goes, AccountSteps
<1>2. ASSUME NEW s \in Slots, LoginArrives(s) PROVE AccountTypes'
  <2>1. [op |-> "login", version |-> account.version] \in AccountSteps
    BY <1>0 DEF AccountDocs, AccountSteps
  <2>2. slots' \in [Slots -> AccountSteps] BY <1>0, <1>2, <2>1 DEF LoginArrives, Starts, Goes
  <2> QED BY <1>2, <2>2 DEF LoginArrives, accountDocs, AccountTypes, AccountTypeOK
<1>3. ASSUME NEW s \in Slots, LoggedIn(s) PROVE AccountTypes'
  <2>1. slots[s].version \in 0..MaxVersion BY <1>0, <1>3, AccountCarries DEF LoggedIn
  <2>2. slots' \in [Slots -> AccountSteps] BY <1>1, <1>3 DEF LoggedIn
  <2> QED BY <1>0, <1>3, <2>1, <2>2 DEF LoggedIn, AccountTypes, AccountTypeOK
<1>4. ASSUME NEW s \in Slots, NEW byAdmin \in BOOLEAN, ChangeArrives(s, byAdmin) PROVE AccountTypes'
  <2>1. (IF byAdmin THEN "reset" ELSE "change") \in Writers BY DEF Writers
  <2> QED BY <1>4, <2>1, LoadsTyped DEF ChangeArrives
<1>5. ASSUME NEW s \in Slots, ResetArrives(s) PROVE AccountTypes'
  BY <1>5, LoadsTyped DEF ResetArrives, Writers
<1>6. ASSUME NEW s \in Slots, PasswordSaved(s) PROVE AccountTypes'
  <2>1. NewVersion(s) \in 0..MaxVersion
    BY <1>0, <1>6, AccountCarries DEF PasswordSaved, NewVersion
  <2>2. account' \in AccountDocs
    <3>1. account' = [version |-> NewVersion(s), active |-> account.active,
                      deleted |-> account.deleted, reset |-> account.reset /\ At(s, "change")]
      BY <1>0, <1>6, PasswordWritten DEF PasswordSaved
    <3> QED BY <1>0, <2>1, <3>1 DEF AccountDocs
  <2>3. slots' \in [Slots -> AccountSteps] BY <1>1, <1>6 DEF PasswordSaved
  <2>4. /\ sockets' \cup ended' \subseteq tokens' /\ tokens' \subseteq 0..MaxVersion
        /\ overlapped' = overlapped
    BY <1>0, <1>6, <2>1 DEF PasswordSaved
  <2> QED BY <1>0, <2>2, <2>3, <2>4 DEF AccountTypes, AccountTypeOK, AccountDocs
<1>7. ASSUME NEW s \in Slots, DeleteArrives(s) PROVE AccountTypes'
  BY <1>7, LoadsTyped DEF DeleteArrives, Writers
<1>8. ASSUME NEW s \in Slots, AccountDeleted(s) PROVE AccountTypes'
  <2>1. NewVersion(s) \in 0..MaxVersion
    BY <1>0, <1>8, AccountCarries DEF AccountDeleted, NewVersion
  <2>2. account' \in AccountDocs BY <1>8, <2>1 DEF AccountDeleted, AccountDocs
  <2>3. slots' \in [Slots -> AccountSteps] BY <1>1, <1>8 DEF AccountDeleted
  <2> QED BY <1>0, <1>8, <2>2, <2>3 DEF AccountDeleted, AccountTypes, AccountTypeOK, AccountDocs
<1>9. ASSUME NEW s \in Slots, NEW op \in {"activate", "deactivate"}, SwitchArrives(s, op)
      PROVE  AccountTypes'
  BY <1>9, LoadsTyped DEF SwitchArrives, Writers
<1>10. ASSUME NEW s \in Slots, Switched(s) PROVE AccountTypes'
  <2>1. PICK active \in BOOLEAN : account' = [account EXCEPT !.active = active]
    <3>1. account' = [account EXCEPT !.active = IF slots[s].active = At(s, "activate")
                                                THEN account.active ELSE At(s, "activate")]
      BY <1>10 DEF Switched
    <3>2. (IF slots[s].active = At(s, "activate") THEN account.active ELSE At(s, "activate")) \in BOOLEAN
      BY <1>0 DEF AccountDocs, At
    <3> QED BY <3>1, <3>2
  <2>2. account' \in AccountDocs
    <3>1. account' = [version |-> account.version, active |-> active,
                      deleted |-> account.deleted, reset |-> account.reset]
      BY <1>0, <2>1, FlagWritten
    <3> QED BY <1>0, <3>1 DEF AccountDocs
  <2>3. slots' \in [Slots -> AccountSteps] BY <1>1, <1>10 DEF Switched
  <2> QED BY <1>0, <1>10, <2>2, <2>3 DEF Switched, AccountTypes, AccountTypeOK, AccountDocs
<1>11. CASE ForgotPassword
  <2>1. account' \in AccountDocs
    <3>1. account' = [version |-> account.version, active |-> account.active,
                      deleted |-> account.deleted, reset |-> TRUE]
      BY <1>0, <1>11, LinkWritten DEF ForgotPassword
    <3> QED BY <1>0, <3>1 DEF AccountDocs
  <2> QED BY <1>0, <1>11, <2>1 DEF ForgotPassword, AccountTypes, AccountTypeOK, AccountDocs
<1>12. ASSUME NEW t \in tokens, SocketOpens(t) \/ SocketRevalidated(t) \/ SocketCloses(t)
       PROVE  AccountTypes'
  BY <1>12 DEF SocketOpens, SocketRevalidated, SocketCloses, AccountTypes, AccountTypeOK
<1>13. CASE AccountServerStops
  <2>1. slots' \in [Slots -> AccountSteps] BY <1>13 DEF AccountServerStops, Restarts, AllIdle, AccountSteps
  <2> QED BY <1>13, <2>1 DEF AccountServerStops, AccountTypes, AccountTypeOK
<1>14. CASE UNCHANGED accountVars BY <1>14 DEF accountVars, AccountTypes, AccountTypeOK
<1> QED BY <1>2, <1>3, <1>4, <1>5, <1>6, <1>7, <1>8, <1>9, <1>10, <1>11, <1>12, <1>13, <1>14 DEF AccountNext

\* The account, its tokens and what the running handlers loaded keep their types.
THEOREM AccountsTyped == AccountSpec => []AccountTypes
<1>1. AccountInit => AccountTypes
  <2> SUFFICES ASSUME AccountInit PROVE AccountTypes OBVIOUS
  <2>1. account \in AccountDocs BY AccountAssumption DEF AccountInit, AccountDocs
  <2>2. slots \in [Slots -> AccountSteps] BY DEF AccountInit, AllIdle, AccountSteps
  <2> QED BY <2>1, <2>2 DEF AccountInit, AccountTypes, AccountTypeOK, AccountDocs
<1> QED BY <1>1, AccountTypesStep, PTL DEF AccountSpec

-----------------------------------------------------------------------------
(* Accounts: sessions.                                                      *)

\* While no two writers have overlapped, whoever is to save a new version holds
\* the version of the account, which is above every version that was ended and
\* not below any that was given out or is about to be.
OneWriter ==
  ~overlapped =>
    /\ \A t \in ended : t < account.version
    /\ \A t \in tokens : t <= account.version
    /\ \A s \in Slots : At(s, "login") => slots[s].version <= account.version
    /\ \A s \in Slots : slots[s].op \in Writers => slots[s].version = account.version
    /\ \A r, s \in Slots : slots[r].op \in Writers /\ slots[s].op \in Writers => r = s

LEMMA LoadsAlone ==
  ASSUME AccountTypes, OneWriter, NEW s \in Slots, NEW op \in Writers, Loads(s, op)
  PROVE  OneWriter'
<1> SUFFICES ASSUME ~overlapped' PROVE OneWriter' BY DEF OneWriter
<1> DEFINE r == [op |-> op, version |-> account.version, active |-> account.active]
<1>1. ~overlapped /\ \A t \in Slots : slots[t].op \notin Writers BY DEF Loads
<1>2. \A t \in Slots : slots'[t] = IF t = s THEN r ELSE slots[t]
  BY DEF Loads, Starts, Goes, AccountTypes
<1>3. r.op # "login" BY DEF Writers
<1>4. UNCHANGED <<account, tokens, ended>> BY DEF Loads
<1> QED BY <1>1, <1>2, <1>3, <1>4 DEF OneWriter, At

\* A new version is saved by the only writer there is.
LEMMA SavesAlone ==
  ASSUME AccountTypes, OneWriter, NEW s \in Slots,
         slots[s].op \in {"change", "reset", "delete"}, Ends(s),
         overlapped' = overlapped, ended' = ended \cup tokens,
         tokens' \subseteq tokens \cup {NewVersion(s)}, account'.version = NewVersion(s)
  PROVE  OneWriter'
<1> SUFFICES ASSUME ~overlapped' PROVE OneWriter' BY DEF OneWriter
<1>1. slots[s].op \in Writers /\ slots[s].version = account.version /\ ~overlapped
  BY DEF OneWriter, Writers
<1>2. account.version \in Nat /\ account'.version = account.version + 1
  BY <1>1, AccountAssumption DEF AccountTypes, AccountTypeOK, NewVersion
<1>3. \A t \in Slots : slots'[t] = IF t = s THEN Idle ELSE slots[t]
  BY DEF Ends, Goes, AccountTypes
<1>4. tokens \subseteq Nat /\ ended \subseteq Nat
  <2>1. sockets \cup ended \subseteq tokens /\ tokens \subseteq 0..MaxVersion
    BY DEF AccountTypes, AccountTypeOK
  <2>2. \A t \in 0..MaxVersion : t \in Nat BY AccountAssumption
  <2> QED BY <2>1, <2>2
<1>5. \A t \in ended' : t < account'.version
  BY <1>1, <1>2, <1>4 DEF OneWriter
<1>6. \A t \in tokens' : t <= account'.version
  BY <1>1, <1>2, <1>4 DEF OneWriter, NewVersion
<1>7. \A t \in Slots : At(t, "login")' => slots'[t].version <= account'.version
  <2> SUFFICES ASSUME NEW t \in Slots, At(t, "login")' PROVE slots'[t].version <= account'.version
    OBVIOUS
  <2>1. slots'[t] = slots[t] /\ At(t, "login") BY <1>3 DEF At, Idle
  <2>2. slots[t].version \in Nat
    BY <2>1, AccountCarries, AccountAssumption DEF AccountTypes
  <2> QED BY <1>1, <1>2, <2>1, <2>2 DEF OneWriter
<1>8. \A t \in Slots : slots'[t].op \notin Writers
  BY <1>1, <1>3 DEF OneWriter, Writers, Idle
<1> QED BY <1>5, <1>6, <1>7, <1>8 DEF OneWriter

LEMMA OneWriterStep == AccountTypes /\ OneWriter /\ [AccountNext]_accountVars => OneWriter'
<1> SUFFICES ASSUME AccountTypes, OneWriter, [AccountNext]_accountVars PROVE OneWriter' OBVIOUS
<1>0. account \in AccountDocs /\ slots \in [Slots -> AccountSteps] /\ account.version \in Nat
  BY AccountAssumption DEF AccountTypes, AccountTypeOK, AccountDocs
<1>1. ASSUME NEW s \in Slots, LoginArrives(s) PROVE OneWriter'
  <2> DEFINE r == [op |-> "login", version |-> account.version]
  <2>1. \A t \in Slots : slots'[t] = IF t = s THEN r ELSE slots[t]
    BY <1>0, <1>1 DEF LoginArrives, Starts, Goes
  <2>2. UNCHANGED <<account, tokens, ended, overlapped>> BY <1>1 DEF LoginArrives, accountDocs
  <2>3. r.op \notin Writers BY DEF Writers
  <2> QED BY <1>0, <2>1, <2>2, <2>3 DEF OneWriter, At
<1>2. ASSUME NEW s \in Slots, LoggedIn(s) PROVE OneWriter'
  <2>1. \A t \in Slots : slots'[t] = IF t = s THEN Idle ELSE slots[t]
    BY <1>0, <1>2 DEF LoggedIn, Ends, Goes
  <2>2. UNCHANGED <<account, ended, overlapped>> /\ tokens' = tokens \cup {slots[s].version}
    BY <1>2 DEF LoggedIn
  <2>3. Idle.op \notin Writers /\ Idle.op # "login" BY DEF Writers, Idle
  <2> QED BY <1>2, <2>1, <2>2, <2>3 DEF OneWriter, LoggedIn, At
<1>3. ASSUME NEW s \in Slots, NEW byAdmin \in BOOLEAN, ChangeArrives(s, byAdmin) PROVE OneWriter'
  <2>1. (IF byAdmin THEN "reset" ELSE "change") \in Writers BY DEF Writers
  <2> QED BY <1>3, <2>1, LoadsAlone DEF ChangeArrives
<1>4. ASSUME NEW s \in Slots, ResetArrives(s) \/ DeleteArrives(s) PROVE OneWriter'
  BY <1>4, LoadsAlone DEF ResetArrives, DeleteArrives, Writers
<1>5. ASSUME NEW s \in Slots, NEW op \in {"activate", "deactivate"}, SwitchArrives(s, op)
      PROVE  OneWriter'
  BY <1>5, LoadsAlone DEF SwitchArrives, Writers
<1>6. ASSUME NEW s \in Slots, PasswordSaved(s) PROVE OneWriter'
  <2>1. account'.version = NewVersion(s)
    BY <1>0, <1>6, PasswordWritten DEF PasswordSaved
  <2> QED BY <1>6, <2>1, SavesAlone DEF PasswordSaved, At
<1>7. ASSUME NEW s \in Slots, AccountDeleted(s) PROVE OneWriter'
  BY <1>7, SavesAlone DEF AccountDeleted, At
<1>8. ASSUME NEW s \in Slots, Switched(s) PROVE OneWriter'
  <2>1. PICK active : account' = [account EXCEPT !.active = active] BY <1>8 DEF Switched
  <2>2. account'.version = account.version BY <1>0, <2>1, FlagWritten
  <2>3. \A t \in Slots : slots'[t] = IF t = s THEN Idle ELSE slots[t]
    BY <1>0, <1>8 DEF Switched, Ends, Goes
  <2>4. UNCHANGED <<tokens, ended, overlapped>> BY <1>8 DEF Switched
  <2>5. Idle.op \notin Writers /\ Idle.op # "login" BY DEF Writers, Idle
  <2> QED BY <2>2, <2>3, <2>4, <2>5 DEF OneWriter, At
<1>9. CASE ForgotPassword
  <2>1. account'.version = account.version BY <1>0, <1>9, LinkWritten DEF ForgotPassword
  <2> QED BY <1>9, <2>1 DEF ForgotPassword, OneWriter, At
<1>10. CASE UNCHANGED <<account, tokens, ended, overlapped, slots>> BY <1>10 DEF OneWriter, At
<1>11. CASE AccountServerStops
  <2>1. \A t \in Slots : slots'[t].op \notin Writers /\ slots'[t].op # "login"
    BY <1>11 DEF AccountServerStops, Restarts, AllIdle, Idle, Writers
  <2> QED BY <1>11, <2>1 DEF AccountServerStops, OneWriter, At
<1> QED
  BY <1>1, <1>2, <1>3, <1>4, <1>5, <1>6, <1>7, <1>8, <1>9, <1>10, <1>11
  DEF AccountNext, SocketOpens, SocketRevalidated, SocketCloses, accountVars

\* While no two writers have overlapped, an account that was deleted is shut, and
\* nobody who found it there is about to open it.
StaysShut ==
  ~overlapped =>
    /\ account.deleted => ~account.active
    /\ \A s \in Slots : At(s, "activate") => ~account.deleted

LEMMA StaysShutStep ==
  ASSUME AccountTypes, OneWriter, StaysShut, [AccountNext]_accountVars
  PROVE  StaysShut'
<1>0. account \in AccountDocs /\ slots \in [Slots -> AccountSteps]
  BY DEF AccountTypes, AccountTypeOK, AccountDocs
<1>1. ASSUME NEW s \in Slots, Ends(s)
      PROVE  \A t \in Slots : At(t, "activate")' => t # s /\ At(t, "activate")
  BY <1>0, <1>1 DEF Ends, Goes, At, Idle
<1>2. ASSUME account'.deleted = account.deleted, account'.active = account.active,
             overlapped' = overlapped, \A t \in Slots : At(t, "activate")' => At(t, "activate")
      PROVE  StaysShut'
  BY <1>2 DEF StaysShut
<1>3. ASSUME NEW s \in Slots, LoginArrives(s) PROVE StaysShut'
  <2>1. \A t \in Slots : At(t, "activate")' => At(t, "activate")
    BY <1>0, <1>3 DEF LoginArrives, Starts, Goes, At
  <2> QED BY <1>2, <1>3, <2>1 DEF LoginArrives, accountDocs
<1>4. ASSUME NEW s \in Slots, LoggedIn(s) PROVE StaysShut' BY <1>1, <1>2, <1>4 DEF LoggedIn
<1>5. ASSUME NEW s \in Slots, NEW op \in Writers, Loads(s, op), op = "activate" => ~account.deleted
      PROVE  StaysShut'
  <2>1. overlapped' \/ ~overlapped BY <1>5 DEF Loads
  <2>2. account' = account BY <1>5 DEF Loads
  <2>3. \A t \in Slots : At(t, "activate")' => At(t, "activate") \/ (t = s /\ op = "activate")
    BY <1>0, <1>5 DEF Loads, Starts, Goes, At
  <2> QED BY <1>5, <2>1, <2>2, <2>3 DEF StaysShut
<1>6. ASSUME NEW s \in Slots, NEW byAdmin \in BOOLEAN, ChangeArrives(s, byAdmin) PROVE StaysShut'
  <2>1. (IF byAdmin THEN "reset" ELSE "change") \in Writers \ {"activate"} BY DEF Writers
  <2> QED BY <1>5, <1>6, <2>1 DEF ChangeArrives
<1>7. ASSUME NEW s \in Slots, ResetArrives(s) \/ DeleteArrives(s) PROVE StaysShut'
  BY <1>5, <1>7 DEF ResetArrives, DeleteArrives, Writers
<1>8. ASSUME NEW s \in Slots, NEW op \in {"activate", "deactivate"}, SwitchArrives(s, op)
      PROVE  StaysShut'
  BY <1>5, <1>8 DEF SwitchArrives, Writers
<1>9. ASSUME NEW s \in Slots, PasswordSaved(s) PROVE StaysShut'
  <2>1. account'.deleted = account.deleted /\ account'.active = account.active
    BY <1>0, <1>9, PasswordWritten DEF PasswordSaved
  <2> QED BY <1>1, <1>2, <1>9, <2>1 DEF PasswordSaved
<1>10. ASSUME NEW s \in Slots, AccountDeleted(s) PROVE StaysShut'
  <2>1. ~account'.active /\ overlapped' = overlapped BY <1>10 DEF AccountDeleted
  <2>2. ASSUME ~overlapped, NEW t \in Slots, At(t, "activate")' PROVE FALSE
    <3>1. t # s /\ At(t, "activate") BY <1>1, <1>10, <2>2 DEF AccountDeleted
    <3>2. slots[t].op \in Writers /\ slots[s].op \in Writers
      BY <1>10, <3>1 DEF AccountDeleted, At, Writers
    <3> QED BY <2>2, <3>1, <3>2 DEF OneWriter
  <2> QED BY <2>1, <2>2 DEF StaysShut
<1>11. ASSUME NEW s \in Slots, Switched(s) PROVE StaysShut'
  <2> DEFINE flag == IF slots[s].active = At(s, "activate") THEN account.active ELSE At(s, "activate")
  <2>1. account'.deleted = account.deleted /\ account'.active = flag
    BY <1>0, <1>11, FlagWritten DEF Switched
  <2>2. overlapped' = overlapped /\ \A t \in Slots : At(t, "activate")' => At(t, "activate")
    BY <1>1, <1>11 DEF Switched
  <2>3. flag => account.active \/ At(s, "activate") OBVIOUS
  <2> HIDE DEF flag
  <2> QED BY <2>1, <2>2, <2>3 DEF StaysShut
<1>12. CASE ForgotPassword
  <2>1. account'.deleted = account.deleted /\ account'.active = account.active
    BY <1>0, <1>12, LinkWritten DEF ForgotPassword
  <2> QED BY <1>2, <1>12, <2>1 DEF ForgotPassword, At
<1>13. CASE UNCHANGED <<account, tokens, ended, overlapped, slots>>
  BY <1>2, <1>13 DEF At
<1>14. CASE AccountServerStops
  <2>1. \A t \in Slots : ~At(t, "activate")'
    BY <1>14 DEF AccountServerStops, Restarts, AllIdle, Idle, At
  <2> QED BY <1>2, <1>14, <2>1 DEF AccountServerStops
<1> QED
  BY <1>3, <1>4, <1>6, <1>7, <1>8, <1>9, <1>10, <1>11, <1>12, <1>13, <1>14
  DEF AccountNext, SocketOpens, SocketRevalidated, SocketCloses, accountVars

\* A saved password or deletion leaves no token from before it that would be
\* accepted, and a deleted account accepts none any more, while the handlers that
\* write these do not overlap.
THEOREM SessionsAreEnded == AccountSpec => []SessionsEnd
<1>1. AccountInit => OneWriter /\ StaysShut
  BY DEF AccountInit, OneWriter, StaysShut, AllIdle, Idle, Writers, At
<1>2. AccountTypes /\ OneWriter /\ StaysShut => SessionsEnd
  BY AccountAssumption
     DEF AccountTypes, AccountTypeOK, OneWriter, StaysShut, SessionsEnd, Accepted
<1> QED BY <1>1, <1>2, AccountsTyped, OneWriterStep, StaysShutStep, PTL DEF AccountSpec

-----------------------------------------------------------------------------
(* RatingGate: no rating is lost to the gate.                               *)

\* Each running handler has a step; the flags are flags.
GateShape ==
  /\ DOMAIN slots = Slots
  /\ rated = [rating |-> rated.rating, count |-> rated.count, suspended |-> rated.suspended]
  /\ rated.suspended \in BOOLEAN
  /\ \A s \in Slots : /\ At(s, "average") => slots[s].suspended \in BOOLEAN
                      /\ At(s, "rate") => slots[s].suspend \in BOOLEAN

BelowGate == BadlyRated(AverageOf(Given), Cardinality(Given))

\* A handler that will still look at the ratings there are, or has found them low.
WillSuspend(s) ==
  \/ At(s, "find") \/ At(s, "average")
  \/ At(s, "rate") /\ slots[s].suspend

\* While ratings are below the gate the collector is suspended or some handler
\* will see to it; one that found him suspended may rely on it.
GateHolds ==
  ~excused =>
    /\ BelowGate => rated.suspended \/ \E s \in Slots : WillSuspend(s)
    /\ \A s \in Slots : At(s, "average") /\ slots[s].suspended => rated.suspended

\* The gate looks at nothing but the ratings.
LEMMA SameRatingsSameGate == ratings' = ratings => BelowGate' = BelowGate
BY DEF BelowGate, BadlyRated, AverageOf, Given

LEMMA GateMoves ==
  ASSUME GateShape, NEW s \in Slots, NEW r, Goes(s, r)
  PROVE  DOMAIN slots' = Slots /\ \A t \in Slots : slots'[t] = IF t = s THEN r ELSE slots[t]
BY DEF GateShape, Goes

LEMMA GateStep == GateShape /\ GateHolds /\ [GateNext]_gateVars => GateShape' /\ GateHolds'
<1> SUFFICES ASSUME GateShape, GateHolds, [GateNext]_gateVars PROVE GateShape' /\ GateHolds' OBVIOUS
<1>1. ASSUME NEW s \in Slots, NEW j \in Jobs, NEW score \in Scores, RatingCreated(s, j, score)
      PROVE  GateShape' /\ GateHolds'
  <2> DEFINE r == [op |-> "find", job |-> j]
  <2>1. DOMAIN slots' = Slots /\ \A t \in Slots : slots'[t] = IF t = s THEN r ELSE slots[t]
    BY <1>1, GateMoves DEF RatingCreated, Starts
  <2>2. UNCHANGED <<rated, excused>> BY <1>1 DEF RatingCreated
  <2>3. WillSuspend(s)' BY <2>1 DEF WillSuspend, At
  <2> QED BY <2>1, <2>2, <2>3 DEF GateShape, GateHolds, At
<1>2. ASSUME NEW s \in Slots, TargetFound(s) PROVE GateShape' /\ GateHolds'
  <2> DEFINE r == [op |-> "average", job |-> slots[s].job, suspended |-> rated.suspended,
                   rating |-> rated.rating, count |-> rated.count]
  <2>1. DOMAIN slots' = Slots /\ \A t \in Slots : slots'[t] = IF t = s THEN r ELSE slots[t]
    BY <1>2, GateMoves DEF TargetFound
  <2>2. UNCHANGED <<ratings, rated, excused>> BY <1>2 DEF TargetFound
  <2>3. WillSuspend(s)' BY <2>1 DEF WillSuspend, At
  <2> QED BY <2>1, <2>2, <2>3 DEF GateShape, GateHolds, At
<1>3. ASSUME NEW s \in Slots, RatingsAggregated(s) PROVE GateShape' /\ GateHolds'
  <2> DEFINE suspend == ~slots[s].suspended /\ BelowGate
             r == [op |-> "rate", rating |-> AverageOf(Given), count |-> Cardinality(Given),
                   suspend |-> suspend]
  <2>1. Goes(s, r) BY <1>3 DEF RatingsAggregated, Aggregate, BelowGate
  <2>2. DOMAIN slots' = Slots /\ \A t \in Slots : slots'[t] = IF t = s THEN r ELSE slots[t]
    BY <2>1, GateMoves
  <2>0. suspend \in BOOLEAN /\ (BelowGate /\ ~slots[s].suspended => suspend) OBVIOUS
  <2> HIDE DEF suspend
  <2>3. UNCHANGED <<ratings, rated, excused>> BY <1>3 DEF RatingsAggregated
  <2>4. BelowGate' = BelowGate BY <2>3, SameRatingsSameGate
  <2>5. GateShape' BY <2>2, <2>3, <2>0 DEF GateShape, At
  <2>6. ASSUME ~excused', BelowGate' PROVE rated.suspended' \/ WillSuspend(s)'
    <3>1. CASE slots[s].suspended BY <1>3, <2>3, <2>6, <3>1 DEF GateHolds, RatingsAggregated
    <3>2. CASE ~slots[s].suspended BY <2>2, <2>4, <2>6, <2>0, <3>2 DEF WillSuspend, At
    <3> QED BY <3>1, <3>2
  <2>7. ASSUME ~excused', NEW t \in Slots, At(t, "average")', slots'[t].suspended
        PROVE  rated.suspended'
    <3>1. t # s /\ slots'[t] = slots[t] BY <2>2, <2>7 DEF At
    <3> QED BY <2>3, <2>7, <3>1 DEF GateHolds, At
  <2> QED BY <2>5, <2>6, <2>7 DEF GateHolds
<1>4. ASSUME NEW s \in Slots, RatingApplied(s) PROVE GateShape' /\ GateHolds'
  <2>1. DOMAIN slots' = Slots /\ \A t \in Slots : slots'[t] = IF t = s THEN Idle ELSE slots[t]
    BY <1>4, GateMoves DEF RatingApplied, Ends
  <2>2. UNCHANGED <<ratings, excused>> BY <1>4 DEF RatingApplied
  <2>3. BelowGate' = BelowGate BY <2>2, SameRatingsSameGate
  <2>4. slots[s].suspend \in BOOLEAN /\ rated.suspended \in BOOLEAN BY <1>4 DEF RatingApplied, GateShape
  <2>5. rated'.suspended = (rated.suspended \/ slots[s].suspend) BY <1>4, <2>4 DEF RatingApplied
  <2>6. GateShape' BY <1>4, <2>1, <2>4, <2>5 DEF GateShape, RatingApplied, At, Idle
  <2>7. ASSUME ~excused', BelowGate', ~rated'.suspended PROVE \E t \in Slots : WillSuspend(t)'
    <3>1. PICK t \in Slots : WillSuspend(t) BY <2>2, <2>3, <2>4, <2>5, <2>7 DEF GateHolds
    <3>2. t # s BY <1>4, <2>4, <2>5, <2>7, <3>1 DEF WillSuspend, RatingApplied, At
    <3> QED BY <2>1, <3>1, <3>2 DEF WillSuspend, At
  <2>8. ASSUME ~excused', NEW t \in Slots, At(t, "average")', slots'[t].suspended
        PROVE  rated'.suspended
    <3>1. slots'[t] = slots[t] BY <2>1, <2>8 DEF At, Idle
    <3> QED BY <2>2, <2>4, <2>5, <2>8, <3>1 DEF GateHolds, At
  <2> QED BY <2>6, <2>7, <2>8 DEF GateHolds
<1>5. CASE CollectorReinstated
  <2>1. excused' = TRUE /\ slots' = slots BY <1>5 DEF CollectorReinstated
  <2>2. rated' = [rating |-> rated.rating, count |-> rated.count, suspended |-> FALSE]
    <3>1. rated' = [[rating |-> rated.rating, count |-> rated.count, suspended |-> rated.suspended]
                      EXCEPT !.suspended = FALSE]
      BY <1>5 DEF CollectorReinstated, GateShape
    <3> QED BY <3>1
  <2> QED BY <2>1, <2>2 DEF GateShape, GateHolds, At
<1>6. CASE GateServerStops
  <2>1. excused' = TRUE /\ slots' = AllIdle /\ rated' = rated BY <1>6 DEF GateServerStops, Restarts
  <2> QED BY <2>1 DEF GateShape, GateHolds, AllIdle, Idle, At
<1>7. CASE UNCHANGED gateVars
  <2>1. UNCHANGED <<ratings, rated, excused, slots>> BY <1>7 DEF gateVars
  <2>2. BelowGate' = BelowGate BY <2>1, SameRatingsSameGate
  <2> QED BY <2>1, <2>2 DEF GateShape, GateHolds, WillSuspend, At
<1> QED BY <1>1, <1>2, <1>3, <1>4, <1>5, <1>6, <1>7 DEF GateNext

\* Once every submission is done, a collector below the gate is suspended unless
\* an admin or a restart came in between, for any number of overlapping ratings
\* and whatever the average of a set of ratings is.
THEOREM GateCatches == GateSpec => []GateCatchesAll
<1>1. GateInit => GateShape /\ GateHolds
  <2> SUFFICES ASSUME GateInit PROVE GateShape /\ GateHolds OBVIOUS
  <2>1. Given = {} BY DEF GateInit, Given
  <2>2. ~BelowGate BY <2>1, FS_EmptySet, RatingAssumption DEF BelowGate, BadlyRated
  <2>3. GateShape BY DEF GateInit, GateShape, AllIdle, Idle, At
  <2> QED BY <2>2, <2>3 DEF GateInit, GateHolds, AllIdle, Idle, At
<1>2. GateShape /\ GateHolds => GateCatchesAll
  BY DEF GateShape, GateHolds, GateCatchesAll, BelowGate, WillSuspend, AllIdle, Idle, At
<1> QED BY <1>1, <1>2, GateStep, PTL DEF GateSpec

\* The average of any finite set of ratings is a number.
LEMMA AverageTyped ==
  ASSUME NEW js, IsFiniteSet(js)
  PROVE  AverageOf(js) \in Nat /\ Cardinality(js) \in Nat
<1> DEFINE points == {point \in js \X (1..5) : point[2] <= ratings[point[1]]}
           n == Cardinality(js)
           sum == Cardinality(points)
<1>1. n \in Nat BY FS_CardinalityType
<1>2. IsFiniteSet(1..5)
  <2>1. 1 \in Int /\ 5 \in Int OBVIOUS
  <2> QED BY <2>1, FS_Interval
<1>3. IsFiniteSet(js \X (1..5)) BY <1>2, FS_Product
<1>4. IsFiniteSet(points) BY <1>3, FS_Subset
<1>5. sum \in Nat BY <1>4, FS_CardinalityType
<1>6. js # {} => n # 0 BY FS_EmptySet
<1>7. AverageOf(js) = IF js = {} THEN 0 ELSE (20 * sum + n) \div (2 * n)
  BY DEF AverageOf, SumOfScores
<1> HIDE DEF n, sum, points
<1>8. CASE js = {} BY <1>1, <1>7, <1>8 DEF n
<1>9. CASE js # {}
  <2>1. 20 * sum + n \in Nat /\ 2 * n \in Nat \ {0} BY <1>1, <1>5, <1>6, <1>9
  <2>2. \A a \in Nat, b \in Nat \ {0} : a \div b \in Nat OBVIOUS
  <2>3. (20 * sum + n) \div (2 * n) \in Nat BY <2>1, <2>2
  <2> QED BY <1>1, <1>7, <1>9, <2>3 DEF n
<1> QED BY <1>8, <1>9

GateSlots ==
  {Idle}
    \cup [op : {"find"}, job : Jobs]
    \cup [op : {"average"}, job : Jobs, suspended : BOOLEAN, rating : Nat, count : Nat]
    \cup [op : {"rate"}, rating : Nat, count : Nat, suspend : BOOLEAN]

\* There are finitely many ratings, in however many jobs.
GateInv == GateTypeOK /\ IsFiniteSet(Given)

LEMMA GateSlotKinds ==
  ASSUME GateTypeOK, NEW s \in Slots
  PROVE  /\ At(s, "find") => slots[s] \in [op : {"find"}, job : Jobs]
         /\ At(s, "average") => slots[s] \in
              [op : {"average"}, job : Jobs, suspended : BOOLEAN, rating : Nat, count : Nat]
         /\ At(s, "rate") => slots[s] \in [op : {"rate"}, rating : Nat, count : Nat, suspend : BOOLEAN]
BY DEF GateTypeOK, At, Idle

LEMMA GateSlotFits ==
  ASSUME GateTypeOK, NEW s \in Slots, NEW r \in GateSlots, Goes(s, r)
  PROVE  slots' \in [Slots -> GateSlots]
BY DEF GateTypeOK, Goes, GateSlots

LEMMA GateTypeStep == GateInv /\ [GateNext]_gateVars => GateInv'
<1> SUFFICES ASSUME GateInv, [GateNext]_gateVars PROVE GateInv' OBVIOUS
<1>0. GateTypeOK /\ IsFiniteSet(Given) /\ slots \in [Slots -> GateSlots]
  BY DEF GateInv, GateTypeOK, GateSlots
<1>1. ASSUME NEW s \in Slots, NEW j \in Jobs, NEW score \in Scores, RatingCreated(s, j, score)
      PROVE  GateInv'
  <2> DEFINE r == [op |-> "find", job |-> j]
  <2>1. ratings' = [ratings EXCEPT ![j] = score] /\ Goes(s, r) /\ UNCHANGED <<rated, excused>>
    BY <1>1 DEF RatingCreated, Starts
  <2>2. slots' \in [Slots -> GateSlots] BY <1>0, <2>1, GateSlotFits DEF GateSlots
  <2>3. Given' \subseteq Given \cup {j} BY <1>0, <2>1 DEF Given, GateTypeOK
  <2>4. IsFiniteSet(Given') BY <1>0, <2>3, FS_AddElement, FS_Subset
  <2> QED BY <1>0, <2>1, <2>2, <2>4 DEF GateInv, GateTypeOK, GateSlots
<1>2. ASSUME NEW s \in Slots, TargetFound(s) PROVE GateInv'
  <2> DEFINE r == [op |-> "average", job |-> slots[s].job, suspended |-> rated.suspended,
                   rating |-> rated.rating, count |-> rated.count]
  <2>1. Goes(s, r) /\ UNCHANGED <<ratings, rated, excused>> /\ At(s, "find")
    BY <1>2 DEF TargetFound
  <2>2. slots[s] \in [op : {"find"}, job : Jobs] BY <1>0, <2>1, GateSlotKinds
  <2>3. r \in GateSlots BY <1>0, <2>2 DEF GateSlots, GateTypeOK
  <2>4. slots' \in [Slots -> GateSlots] BY <1>0, <2>1, <2>3, GateSlotFits
  <2>5. Given' = Given BY <2>1 DEF Given
  <2> QED BY <1>0, <2>1, <2>4, <2>5 DEF GateInv, GateTypeOK, GateSlots
<1>3. ASSUME NEW s \in Slots, RatingsAggregated(s) PROVE GateInv'
  <2> DEFINE count == Cardinality(Given)
             average == AverageOf(Given)
             suspend == ~slots[s].suspended /\ BadlyRated(average, count)
             r == [op |-> "rate", rating |-> average, count |-> count, suspend |-> suspend]
  <2>1. Goes(s, r) /\ UNCHANGED <<ratings, rated, excused>>
    BY <1>3 DEF RatingsAggregated, Aggregate
  <2>2. average \in Nat /\ count \in Nat BY <1>0, AverageTyped
  <2>3. suspend \in BOOLEAN OBVIOUS
  <2> HIDE DEF average, count, suspend
  <2>4. r \in GateSlots BY <2>2, <2>3 DEF GateSlots
  <2>5. slots' \in [Slots -> GateSlots] BY <1>0, <2>1, <2>4, GateSlotFits
  <2>6. Given' = Given BY <2>1 DEF Given
  <2> QED BY <1>0, <2>1, <2>5, <2>6 DEF GateInv, GateTypeOK, GateSlots
<1>4. ASSUME NEW s \in Slots, RatingApplied(s) PROVE GateInv'
  <2> DEFINE suspended == rated.suspended \/ slots[s].suspend
  <2>1. /\ Goes(s, Idle) /\ UNCHANGED <<ratings, excused>> /\ At(s, "rate")
        /\ rated' = [rating |-> slots[s].rating, count |-> slots[s].count, suspended |-> suspended]
    BY <1>4 DEF RatingApplied, Ends
  <2>2. slots[s] \in [op : {"rate"}, rating : Nat, count : Nat, suspend : BOOLEAN]
    BY <1>0, <2>1, GateSlotKinds
  <2>3. suspended \in BOOLEAN OBVIOUS
  <2> HIDE DEF suspended
  <2>4. rated' \in [rating : Nat, count : Nat, suspended : BOOLEAN] BY <2>1, <2>2, <2>3
  <2>5. slots' \in [Slots -> GateSlots] BY <1>0, <2>1, GateSlotFits DEF GateSlots
  <2>6. Given' = Given BY <2>1 DEF Given
  <2> QED BY <1>0, <2>1, <2>4, <2>5, <2>6 DEF GateInv, GateTypeOK, GateSlots
<1>5. CASE CollectorReinstated
  <2>1. rated' \in [rating : Nat, count : Nat, suspended : BOOLEAN]
    BY <1>0, <1>5 DEF CollectorReinstated, GateTypeOK
  <2> QED BY <1>0, <1>5, <2>1 DEF CollectorReinstated, GateInv, GateTypeOK, Given
<1>6. CASE GateServerStops
  BY <1>0, <1>6 DEF GateServerStops, Restarts, AllIdle, GateInv, GateTypeOK, Given
<1>7. CASE UNCHANGED gateVars
  BY <1>0, <1>7 DEF gateVars, GateInv, GateTypeOK, Given
<1> QED BY <1>1, <1>2, <1>3, <1>4, <1>5, <1>6, <1>7 DEF GateNext

\* What the gate reads and writes has the type the comments of User and Rating
\* give it, the average of any number of ratings included.
THEOREM GateTypes == GateSpec => []GateTypeOK
<1>1. GateInit => GateInv
  <2> SUFFICES ASSUME GateInit PROVE GateInv OBVIOUS
  <2>1. Given = {} BY DEF GateInit, Given
  <2> QED BY <2>1, FS_EmptySet DEF GateInit, GateInv, GateTypeOK, AllIdle
<1>2. GateInv => GateTypeOK BY DEF GateInv
<1> QED BY <1>1, <1>2, GateTypeStep, PTL DEF GateSpec

\* A rating once given is not changed, so neither is the average of a set of them.
LEMMA AveragesStand ==
  ASSUME NEW j \in Jobs, NEW score, ratings \in [Jobs -> Scores \cup {0}], ratings[j] = 0,
         ratings' = [ratings EXCEPT ![j] = score],
         NEW js \in SUBSET Given
  PROVE  AverageOf(js)' = AverageOf(js)
<1>1. \A i \in js : ratings'[i] = ratings[i] BY DEF Given
<1>2. {point \in js \X (1..5) : point[2] <= ratings'[point[1]]}
        = {point \in js \X (1..5) : point[2] <= ratings[point[1]]}
  BY <1>1
<1> QED BY <1>2 DEF AverageOf, SumOfScores

\* What is shown, and what a handler is about to write, is of ratings there are.
SnapshotsHold ==
  /\ RatingIsOfItsCount
  /\ \A s \in Slots : At(s, "rate") => OfSomeRatings(slots[s].rating, slots[s].count)

LEMMA SnapshotsStay ==
  ASSUME GateTypeOK, [GateNext]_gateVars, NEW rating, NEW count, OfSomeRatings(rating, count)
  PROVE  OfSomeRatings(rating, count)'
<1>1. PICK js \in SUBSET Given : count = Cardinality(js) /\ rating = AverageOf(js)
  BY DEF OfSomeRatings
<1>2. ASSUME NEW s \in Slots, NEW j \in Jobs, NEW score \in Scores, RatingCreated(s, j, score)
      PROVE  OfSomeRatings(rating, count)'
  <2>1. /\ ratings \in [Jobs -> Scores \cup {0}] /\ ratings[j] = 0
        /\ ratings' = [ratings EXCEPT ![j] = score]
    BY <1>2 DEF RatingCreated, GateTypeOK
  <2>2. AverageOf(js)' = AverageOf(js) BY <2>1, AveragesStand
  <2>3. js \in SUBSET Given' BY <2>1, RatingAssumption DEF Given
  <2> QED BY <1>1, <2>2, <2>3 DEF OfSomeRatings
<1>3. CASE ratings' = ratings
  <2>1. Given' = Given /\ AverageOf(js)' = AverageOf(js)
    BY <1>3 DEF Given, AverageOf, SumOfScores
  <2> QED BY <1>1, <2>1 DEF OfSomeRatings
<1> QED
  BY <1>2, <1>3
  DEF GateNext, gateVars, TargetFound, RatingsAggregated, RatingApplied, CollectorReinstated,
      GateServerStops

LEMMA SnapshotStep ==
  ASSUME GateTypeOK, SnapshotsHold, [GateNext]_gateVars
  PROVE  SnapshotsHold'
<1>0. slots \in [Slots -> GateSlots] BY DEF GateTypeOK, GateSlots
<1>1. RatingIsOfItsCount'
  <2>1. ASSUME NEW s \in Slots, RatingApplied(s) PROVE RatingIsOfItsCount'
    <3>1. OfSomeRatings(slots[s].rating, slots[s].count)
      BY <2>1 DEF RatingApplied, SnapshotsHold
    <3>2. rated'.rating = slots[s].rating /\ rated'.count = slots[s].count
      BY <2>1 DEF RatingApplied
    <3> DEFINE rating == slots[s].rating
               count == slots[s].count
    <3>3. ratings' = ratings BY <2>1 DEF RatingApplied
    <3>4. Given' = Given /\ \A js : AverageOf(js)' = AverageOf(js)
      BY <3>3 DEF Given, AverageOf, SumOfScores
    <3> QED BY <3>1, <3>2, <3>4 DEF OfSomeRatings, RatingIsOfItsCount
  <2>2. CASE rated'.rating = rated.rating /\ rated'.count = rated.count
    <3>1. PICK rating, count : rating = rated.rating /\ count = rated.count OBVIOUS
    <3>2. OfSomeRatings(rating, count)' BY <3>1, SnapshotsStay DEF SnapshotsHold, RatingIsOfItsCount
    <3> QED BY <2>2, <3>1, <3>2 DEF OfSomeRatings, RatingIsOfItsCount
  <2>3. CollectorReinstated => rated'.rating = rated.rating /\ rated'.count = rated.count
    BY DEF CollectorReinstated, GateTypeOK
  <2> QED
    BY <2>1, <2>2, <2>3
    DEF GateNext, gateVars, RatingCreated, TargetFound, RatingsAggregated, GateServerStops
<1>2. ASSUME NEW s \in Slots, At(s, "rate")'
      PROVE  OfSomeRatings(slots[s].rating, slots[s].count)'
  <2>1. CASE slots'[s] = slots[s]
    <3>1. PICK rating, count : rating = slots[s].rating /\ count = slots[s].count OBVIOUS
    <3>2. At(s, "rate") BY <1>2, <2>1 DEF At
    <3>3. OfSomeRatings(rating, count)' BY <3>1, <3>2, SnapshotsStay DEF SnapshotsHold
    <3> QED BY <2>1, <3>1, <3>3 DEF OfSomeRatings
  <2>2. CASE RatingsAggregated(s)
    <3>1. /\ slots'[s].rating = AverageOf(Given) /\ slots'[s].count = Cardinality(Given)
          /\ ratings' = ratings
      BY <1>0, <2>2 DEF RatingsAggregated, Aggregate, Goes
    <3>2. Given' = Given /\ AverageOf(Given)' = AverageOf(Given)
      BY <3>1 DEF Given, AverageOf, SumOfScores
    <3> QED BY <3>1, <3>2 DEF OfSomeRatings
  <2>3. slots'[s] = slots[s] \/ RatingsAggregated(s)
    <3>1. ASSUME NEW t \in Slots, NEW r, Goes(t, r), r.op # "rate" PROVE slots'[s] = slots[s]
      BY <1>0, <1>2, <3>1 DEF Goes, At
    <3>2. ASSUME NEW t \in Slots, RatingsAggregated(t)
          PROVE  slots'[s] = slots[s] \/ RatingsAggregated(s)
      BY <1>0, <3>2 DEF RatingsAggregated, Goes
    <3>3. ASSUME NEW t \in Slots, NEW j \in Jobs, NEW score \in Scores, RatingCreated(t, j, score)
          PROVE  slots'[s] = slots[s]
      <4>1. [op |-> "find", job |-> j].op # "rate" OBVIOUS
      <4> QED BY <3>1, <3>3, <4>1 DEF RatingCreated, Starts
    <3>4. ASSUME NEW t \in Slots, TargetFound(t) PROVE slots'[s] = slots[s]
      <4> DEFINE r == [op |-> "average", job |-> slots[t].job, suspended |-> rated.suspended,
                       rating |-> rated.rating, count |-> rated.count]
      <4>1. r.op # "rate" /\ Goes(t, r) BY <3>4 DEF TargetFound
      <4> HIDE DEF r
      <4> QED BY <3>1, <4>1
    <3>5. ASSUME NEW t \in Slots, RatingApplied(t) PROVE slots'[s] = slots[s]
      BY <3>1, <3>5 DEF RatingApplied, Ends, Idle
    <3>6. ~GateServerStops BY <1>2 DEF GateServerStops, Restarts, AllIdle, Idle, At
    <3> QED
      BY <3>2, <3>3, <3>4, <3>5, <3>6 DEF GateNext, gateVars, CollectorReinstated
  <2> QED BY <2>1, <2>2, <2>3
<1> QED BY <1>1, <1>2 DEF SnapshotsHold

\* The rating and the count on a profile are those of one set of ratings that were
\* given, however many submissions overlap and wherever the server stops.
THEOREM RatingsBelongTogether == GateSpec => []RatingIsOfItsCount
<1>1. GateInit => SnapshotsHold
  <2> SUFFICES ASSUME GateInit PROVE SnapshotsHold OBVIOUS
  <2>1. Cardinality({}) = 0 /\ AverageOf({}) = 0 BY FS_EmptySet DEF AverageOf
  <2>2. OfSomeRatings(rated.rating, rated.count) BY <2>1 DEF GateInit, OfSomeRatings
  <2> QED BY <2>2 DEF GateInit, SnapshotsHold, RatingIsOfItsCount, AllIdle, Idle, At
<1>2. SnapshotsHold => RatingIsOfItsCount BY DEF SnapshotsHold
<1> QED BY <1>1, <1>2, GateTypes, SnapshotStep, PTL DEF GateSpec

-----------------------------------------------------------------------------
(* Verification: types.                                                     *)

KycDocs == [status : {"not_submitted", "pending", "approved", "rejected", "expired"},
            age : Ages, reminded : BOOLEAN]

KycSteps == {Idle} \cup [op : {"submit", "expire", "remind"}]
                   \cup [op : {"review"}, decision : {"approve", "reject", "revoke"}]

LEMMA KycWritten ==
  ASSUME NEW doc \in KycDocs
  PROVE  /\ [doc EXCEPT !.status = "expired"] \in KycDocs
         /\ [doc EXCEPT !.reminded = TRUE] \in KycDocs
         /\ \A age \in Ages : [doc EXCEPT !.age = age] \in KycDocs
BY DEF KycDocs

LEMMA KycStepTaken ==
  ASSUME slots \in [Slots -> KycSteps], NEW s \in Slots, NEW step \in KycSteps, Goes(s, step)
  PROVE  slots' \in [Slots -> KycSteps]
BY DEF Goes

\* A verification and what its handlers carry are always of their types.
THEOREM KycTypes == KycSpec => []KycTypeOK
<1> USE VerificationAssumption
<1>1. KycInit => KycTypeOK
  BY DEF KycInit, KycTypeOK, Ages, AllIdle
<1>2. KycTypeOK /\ [KycNext]_kycVars => KycTypeOK'
  <2> SUFFICES ASSUME KycTypeOK, [KycNext]_kycVars PROVE KycTypeOK' OBVIOUS
  <2>0. /\ kyc \in KycDocs /\ submitted \in 0..MaxSubmissions /\ slots \in [Slots -> KycSteps]
    BY DEF KycTypeOK, KycDocs, KycSteps
  <2>1. ASSUME kyc' \in KycDocs, submitted' \in 0..MaxSubmissions, slots' \in [Slots -> KycSteps]
        PROVE  KycTypeOK'
    BY <2>1 DEF KycTypeOK, KycDocs, KycSteps
  <2>2. ASSUME NEW s \in Slots, Ends(s) PROVE slots' \in [Slots -> KycSteps]
    BY <2>0, <2>2, KycStepTaken DEF Ends, KycSteps
  <2>3. ASSUME NEW s \in Slots, NEW step \in KycSteps, Starts(s, step)
        PROVE  slots' \in [Slots -> KycSteps]
    BY <2>0, <2>3, KycStepTaken DEF Starts
  <2>4. /\ [op |-> "submit"] \in KycSteps /\ [op |-> "expire"] \in KycSteps
        /\ [op |-> "remind"] \in KycSteps
    BY DEF KycSteps
  <2>5. ASSUME NEW s \in Slots, SubmissionArrives(s) PROVE KycTypeOK'
    BY <2>0, <2>1, <2>3, <2>4, <2>5 DEF SubmissionArrives
  <2>6. ASSUME NEW s \in Slots, ExpiryLoaded(s) \/ ReminderLoaded(s) PROVE KycTypeOK'
    BY <2>0, <2>1, <2>3, <2>4, <2>6 DEF ExpiryLoaded, ReminderLoaded
  <2>7. ASSUME NEW s \in Slots, NEW decision \in {"approve", "reject", "revoke"},
               ReviewArrives(s, decision)
        PROVE  KycTypeOK'
    <3>1. [op |-> "review", decision |-> decision] \in KycSteps BY DEF KycSteps
    <3> QED BY <2>0, <2>1, <2>3, <2>7, <3>1 DEF ReviewArrives
  <2>8. ASSUME NEW s \in Slots, SubmissionSaved(s) PROVE KycTypeOK'
    <3>1. kyc' \in KycDocs BY <2>8 DEF SubmissionSaved, KycDocs, Ages
    <3> QED BY <2>0, <2>1, <2>2, <2>8, <3>1 DEF SubmissionSaved
  <2>9. ASSUME NEW s \in Slots, ReviewSaved(s) PROVE KycTypeOK'
    <3>1. PICK status \in {"approved", "rejected"}, age \in {"fresh", "none"}, reminded \in BOOLEAN :
            kyc' = [status |-> status, age |-> age, reminded |-> reminded]
      <4> DEFINE approved == slots[s].decision = "approve"
      <4>1. kyc' = [status |-> StatusAfter(slots[s].decision),
                    age |-> IF approved THEN "fresh" ELSE "none",
                    reminded |-> ~approved /\ kyc.reminded]
        BY <2>9 DEF ReviewSaved
      <4>2. StatusAfter(slots[s].decision) \in {"approved", "rejected"} BY DEF StatusAfter
      <4>3. (~approved /\ kyc.reminded) \in BOOLEAN OBVIOUS
      <4> HIDE DEF approved
      <4> QED BY <4>1, <4>2, <4>3
    <3>2. kyc' \in KycDocs BY <3>1 DEF KycDocs, Ages
    <3> QED BY <2>0, <2>1, <2>2, <2>9, <3>2 DEF ReviewSaved
  <2>10. ASSUME NEW s \in Slots, ExpirySaved(s) \/ ReminderSaved(s) PROVE KycTypeOK'
    <3>1. kyc' \in KycDocs BY <2>0, <2>10, KycWritten DEF ExpirySaved, ReminderSaved
    <3> QED BY <2>0, <2>1, <2>2, <2>10, <3>1 DEF ExpirySaved, ReminderSaved
  <2>11. CASE IdAges
    <3>1. (IF kyc.age = "fresh" THEN "soon" ELSE "lapsed") \in Ages BY DEF Ages
    <3>2. kyc' \in KycDocs BY <2>0, <2>11, <3>1, KycWritten DEF IdAges
    <3> QED BY <2>0, <2>1, <2>11, <3>2 DEF IdAges
  <2>12. CASE UNCHANGED kycVars BY <2>0, <2>1, <2>12 DEF kycVars
  <2> QED BY <2>5, <2>6, <2>7, <2>8, <2>9, <2>10, <2>11, <2>12 DEF KycNext, KycStep
<1> QED BY <1>1, <1>2, PTL DEF KycSpec

-----------------------------------------------------------------------------
(* Teams: what a list of members, and a handler that will write to one, hold. *)

MemberEntries == [user : Members, status : {"invited", "active"}]

TeamLists == Seq(MemberEntries)

TeamDocs == [members : TeamLists, v : 0..MaxSaves]

\* What each handler carries to its save.
TeamSteps ==
  {Idle} \cup [op : {"create team"}, team : Owners]
         \cup [op : {"push"}, team : Owners, who : Members]
         \cup [op : {"join"}, team : Owners, who : Members, v : Nat, at : Nat]
         \cup [op : {"replace"}, team : Owners, who : Members, v : Nat, left : TeamLists]

TeamTypes ==
  /\ teams \in [Owners -> TeamDocs \cup {NoTeam}]
  /\ accepted \in SUBSET (Owners \X Members)
  /\ slots \in [Slots -> TeamSteps]

\* A user may be listed twice, when two invitations of him were sent at once;
\* the active entry is then the one findIndex finds.
ActiveComesFirst(l) ==
  \A i, j \in DOMAIN l : l[i].status = "active" /\ l[j].user = l[i].user => i <= j

AreAccepted(o, l, acc) ==
  \A i \in DOMAIN l : l[i].status = "active" => <<o, l[i].user>> \in acc

Sound(o, l, acc) == ActiveComesFirst(l) /\ AreAccepted(o, l, acc)

IsFirstOf(u, i, l) ==
  i \in DOMAIN l /\ l[i].user = u /\ \A j \in DOMAIN l : l[j].user = u => i <= j

\* What a handler has read is true for as long as the version is the one it read.
StillTrue(step, team, acc) ==
  /\ team \in TeamDocs
  /\ step.op \in {"join", "replace"} => step.v <= team.v
  /\ step.op = "join" /\ step.v = team.v => IsFirstOf(step.who, step.at, team.members)
  /\ step.op = "replace" /\ step.v = team.v =>
       /\ Sound(step.team, step.left, acc)
       /\ \A i \in DOMAIN step.left : step.left[i].status = "active" => step.left[i].user # step.who

TeamInv ==
  /\ TeamTypes
  /\ \A o \in Owners : HasTeam(o) => Sound(o, teams[o].members, accepted)
  /\ \A s \in Slots : slots[s].op \in {"push", "join", "replace"} =>
       StillTrue(slots[s], teams[slots[s].team], accepted)

LEMMA TeamIs ==
  ASSUME TeamTypes, NEW o \in Owners, HasTeam(o)
  PROVE  /\ teams[o] \in TeamDocs
         /\ teams[o].members \in TeamLists /\ teams[o].v \in 0..MaxSaves
BY DEF TeamTypes, HasTeam, TeamDocs

LEMMA DocIsTeam == \A doc \in TeamDocs : doc # NoTeam
BY TeamAssumption DEF TeamDocs, TeamLists, MemberEntries

LEMMA EntryIs ==
  ASSUME NEW e \in MemberEntries
  PROVE  /\ e.user \in Members /\ e.status \in {"invited", "active"}
         /\ e.status = "active" <=> e = Active(e.user)
         /\ e.status = "invited" <=> e = Invited(e.user)
         /\ Active(e.user) \in MemberEntries /\ Invited(e.user) \in MemberEntries
BY DEF MemberEntries, Active, Invited

\* What the handler in a slot carries.
LEMMA TeamCarries ==
  ASSUME NEW step \in TeamSteps
  PROVE  /\ step.op \in {"create team", "push", "join", "replace"} => step.team \in Owners
         /\ step.op \in {"push", "join", "replace"} => step.who \in Members
         /\ step.op \in {"join", "replace"} => step.v \in Nat
         /\ step.op = "join" => step.at \in Nat
         /\ step.op = "replace" => step.left \in TeamLists
<1>1. CASE step = Idle BY <1>1 DEF Idle
<1>2. CASE step \in [op : {"create team"}, team : Owners] BY <1>2
<1>3. CASE step \in [op : {"push"}, team : Owners, who : Members] BY <1>3
<1>4. CASE step \in [op : {"join"}, team : Owners, who : Members, v : Nat, at : Nat] BY <1>4
<1>5. CASE step \in [op : {"replace"}, team : Owners, who : Members, v : Nat, left : TeamLists]
  BY <1>5
<1> QED BY <1>1, <1>2, <1>3, <1>4, <1>5 DEF TeamSteps

\* The position find gives, when there is an entry it looks for.
LEMMA PositionIs ==
  ASSUME TeamTypes, NEW o \in Owners, HasTeam(o), NEW E, Entries(o) \cap E # {}
  PROVE  /\ PositionOf(o, E) \in DOMAIN teams[o].members
         /\ teams[o].members[PositionOf(o, E)] \in E
         /\ \A j \in 1..(PositionOf(o, E) - 1) : teams[o].members[j] \notin E
<1> DEFINE l == teams[o].members
<1>1. l \in Seq(MemberEntries) BY TeamIs DEF TeamLists
<1>2. PICK i \in DOMAIN l : l[i] \in E BY DEF Entries, Range
<1>3. \E p \in DOMAIN l : l[p] \in E /\ \A j \in 1..(p - 1) : l[j] \notin E
  <2> HIDE DEF l
  <2> QED BY <1>1, <1>2, FirstOneOf
<1> QED BY <1>3 DEF PositionOf

\* Entries taken out of a list leave the others in their order.
LEMMA Thinned ==
  ASSUME NEW o, NEW acc, NEW l \in TeamLists, NEW t \in TeamLists, Sound(o, l, acc),
         NEW f \in [DOMAIN t -> DOMAIN l],
         \A j, k \in DOMAIN t : j < k => f[j] < f[k],
         \A j \in DOMAIN t : t[j] = l[f[j]]
  PROVE  Sound(o, t, acc)
<1>0. /\ DOMAIN t = 1..Len(t) /\ Len(t) \in Nat
      /\ DOMAIN l = 1..Len(l) /\ Len(l) \in Nat
  BY LenProperties DEF TeamLists
<1>1. ASSUME NEW i \in DOMAIN t, NEW j \in DOMAIN t, t[i].status = "active", t[j].user = t[i].user
      PROVE  i <= j
  <2>1. f[i] <= f[j] BY <1>1 DEF Sound, ActiveComesFirst
  <2>2. ~(j < i)
    <3>1. j < i => f[j] < f[i] OBVIOUS
    <3>2. f[i] \in Nat /\ f[j] \in Nat BY <1>0
    <3> QED BY <2>1, <3>1, <3>2
  <2> QED BY <1>0, <2>2
<1>2. ActiveComesFirst(t) BY <1>1 DEF ActiveComesFirst
<1>3. AreAccepted(o, t, acc) BY DEF Sound, AreAccepted
<1> QED BY <1>2, <1>3 DEF Sound

LEMMA OneLess ==
  ASSUME NEW o, NEW acc, NEW l \in TeamLists, Sound(o, l, acc),
         NEW i \in DOMAIN l, NEW t, t = RemoveAt(l, i)
  PROVE  /\ t \in TeamLists /\ Sound(o, t, acc)
         /\ \A j \in DOMAIN t : \E k \in DOMAIN l : k # i /\ t[j] = l[k]
<1> DEFINE f == [j \in DOMAIN t |-> IF j < i THEN j ELSE j + 1]
<1>1. /\ t \in TeamLists /\ Len(t) = Len(l) - 1
      /\ \A j \in DOMAIN t : t[j] = l[IF j < i THEN j ELSE j + 1]
  BY RemoveAtIs DEF TeamLists
<1>2. Len(l) \in Nat /\ DOMAIN l = 1..Len(l) /\ DOMAIN t = 1..(Len(l) - 1)
  BY <1>1, LenProperties DEF TeamLists
<1>3. f \in [DOMAIN t -> DOMAIN l] /\ \A j \in DOMAIN t : f[j] # i BY <1>2
<1>4. \A j, k \in DOMAIN t : j < k => f[j] < f[k] BY <1>2
<1>5. \A j \in DOMAIN t : t[j] = l[f[j]] BY <1>1
<1> HIDE DEF f
<1>6. Sound(o, t, acc) BY <1>1, <1>3, <1>4, <1>5, Thinned
<1> QED BY <1>1, <1>3, <1>5, <1>6

LEMMA OthersOnly ==
  ASSUME NEW o, NEW acc, NEW l \in TeamLists, Sound(o, l, acc),
         NEW u, NEW t, t = OthersThan(u, l)
  PROVE  /\ t \in TeamLists /\ Sound(o, t, acc)
         /\ \A j \in DOMAIN t : t[j].user # u
<1> DEFINE kept == {i \in DOMAIN l : l[i].user # u}
           c == Cardinality(kept)
           UpTo(i) == {j \in kept : j <= i}
           f == [n \in 1..c |-> CHOOSE i \in kept : Cardinality(UpTo(i)) = n]
<1>1. Len(l) \in Nat /\ DOMAIN l = 1..Len(l) BY LenProperties DEF TeamLists
<1>2. IsFiniteSet(kept) /\ c \in Nat
  <2>1. IsFiniteSet(1..Len(l)) BY <1>1, FS_Interval
  <2>2. IsFiniteSet(kept) BY <1>1, <2>1, FS_Subset
  <2> HIDE DEF kept
  <2> QED BY <2>2, FS_CardinalityType
<1>3. t = [n \in 1..c |-> l[f[n]]] BY DEF OthersThan
<1>4. ASSUME NEW n \in 1..c PROVE f[n] \in kept /\ Cardinality(UpTo(f[n])) = n
  <2>1. kept \in SUBSET (1..Len(l)) BY <1>1
  <2> HIDE DEF kept
  <2>2. \E i \in kept : Cardinality(UpTo(i)) = n BY <1>1, <2>1, NthOf
  <2> HIDE DEF UpTo
  <2> QED BY <2>2
<1>5. \A i \in kept : i \in DOMAIN l /\ l[i].user # u OBVIOUS
<1>6. ASSUME NEW j \in 1..c, NEW k \in 1..c, j < k PROVE f[j] < f[k]
  <2>1. /\ f[j] \in kept /\ f[k] \in kept
        /\ Cardinality(UpTo(f[j])) = j /\ Cardinality(UpTo(f[k])) = k
    BY <1>4
  <2> HIDE DEF f
  <2>2. f[j] \in Nat /\ f[k] \in Nat BY <1>1, <2>1
  <2>3. IsFiniteSet(UpTo(f[j])) BY <1>2, FS_Subset
  <2>4. f[k] <= f[j] => UpTo(f[k]) \in SUBSET UpTo(f[j])
    <3>1. \A i \in kept : i \in Nat BY <1>1
    <3> HIDE DEF kept
    <3> QED BY <2>2, <3>1
  <2> HIDE DEF UpTo
  <2>5. f[k] <= f[j] => k <= j BY <2>1, <2>3, <2>4, FS_Subset
  <2> QED BY <1>2, <1>6, <2>2, <2>5
<1> HIDE DEF kept, c, f
<1>7. DOMAIN t = 1..c BY <1>3
<1>8. f \in [DOMAIN t -> DOMAIN l]
  <2>1. \A n \in 1..c : f[n] \in DOMAIN l BY <1>4, <1>5
  <2> QED BY <1>7, <2>1 DEF f
<1>9. \A j \in DOMAIN t : t[j] = l[f[j]] BY <1>3, <1>7
<1>10. t \in TeamLists
  <2>1. \A j \in 1..c : t[j] \in MemberEntries
    BY <1>7, <1>8, <1>9, ElementOfSeq, <1>1 DEF TeamLists
  <2> QED BY <1>2, <1>3, <1>7, <2>1 DEF TeamLists
<1>11. Sound(o, t, acc) BY <1>6, <1>7, <1>8, <1>9, <1>10, Thinned
<1> QED BY <1>4, <1>5, <1>7, <1>9, <1>10, <1>11
\* What a member has accepted in other teams, and what is accepted since.
LEMMA StillSound ==
  ASSUME NEW o, NEW l, NEW acc, NEW since, Sound(o, l, acc),
         \A i \in DOMAIN l : <<o, l[i].user>> \in acc => <<o, l[i].user>> \in since
  PROVE  Sound(o, l, since)
BY DEF Sound, AreAccepted

LEMMA StepTaken ==
  ASSUME slots \in [Slots -> TeamSteps], NEW s \in Slots, NEW step \in TeamSteps, Goes(s, step)
  PROVE  /\ slots' \in [Slots -> TeamSteps]
         /\ slots'[s] = step
         /\ \A r \in Slots : r # s => slots'[r] = slots[r]
BY DEF Goes

LEMMA StepDone ==
  ASSUME slots \in [Slots -> TeamSteps], NEW s \in Slots, Ends(s)
  PROVE  /\ slots' \in [Slots -> TeamSteps]
         /\ \A r \in Slots : slots'[r] = slots[r] \/ slots'[r] = Idle
<1>1. Idle \in TeamSteps BY DEF TeamSteps
<1> QED BY <1>1, StepTaken DEF Ends

\* A handler starts: what it has read is true.
LEMMA TeamStarts ==
  ASSUME TeamInv, NEW s \in Slots, NEW step \in TeamSteps, Starts(s, step), UNCHANGED teamDocs,
         step.op \in {"push", "join", "replace"} => StillTrue(step, teams[step.team], accepted)
  PROVE  TeamInv'
<1>1. teams' = teams /\ accepted' = accepted BY DEF teamDocs
<1>2. /\ slots' \in [Slots -> TeamSteps] /\ slots'[s] = step
      /\ \A r \in Slots : r # s => slots'[r] = slots[r]
  BY StepTaken DEF Starts, TeamInv, TeamTypes
<1>3. TeamTypes' BY <1>1, <1>2 DEF TeamInv, TeamTypes
<1>4. \A o \in Owners : HasTeam(o)' => Sound(o, teams'[o].members, accepted')
  BY <1>1 DEF TeamInv, HasTeam
<1>5. ASSUME NEW r \in Slots, slots'[r].op \in {"push", "join", "replace"}
      PROVE  StillTrue(slots'[r], teams'[slots'[r].team], accepted')
  <2>1. CASE r = s BY <1>1, <1>2, <1>5, <2>1
  <2>2. CASE r # s
    <3>1. slots'[r] = slots[r] BY <1>2, <2>2
    <3> QED BY <1>1, <1>5, <3>1 DEF TeamInv
  <2> QED BY <2>1, <2>2
<1> QED BY <1>3, <1>4, <1>5 DEF TeamInv

\* A team is saved with another list of members: the handlers that read it before
\* will find another version, those at other teams find what they read.
LEMMA TeamSaved ==
  ASSUME TeamInv, NEW o \in Owners, NEW l \in TeamLists, HasTeam(o), teams[o].v < MaxSaves,
         Saves(o, l),
         slots' \in [Slots -> TeamSteps],
         \A r \in Slots : slots'[r] = slots[r] \/ slots'[r] = Idle,
         accepted' \in SUBSET (Owners \X Members),
         \A p \in Owners, u \in Members : p # o /\ <<p, u>> \in accepted => <<p, u>> \in accepted',
         Sound(o, l, accepted')
  PROVE  TeamInv'
<1> USE TeamAssumption
<1> DEFINE doc == [members |-> l, v |-> teams[o].v + 1]
<1>0. TeamTypes /\ teams[o].v \in 0..MaxSaves /\ teams[o] \in TeamDocs BY TeamIs DEF TeamInv
<1>1. /\ teams' = [teams EXCEPT ![o] = doc]
  BY DEF Saves
<1>2. doc \in TeamDocs /\ doc.members = l /\ doc.v = teams[o].v + 1 BY <1>0 DEF TeamDocs
<1> HIDE DEF doc
<1>3. /\ teams' \in [Owners -> TeamDocs \cup {NoTeam}]
      /\ teams'[o] = doc /\ \A p \in Owners : p # o => teams'[p] = teams[p]
  BY <1>0, <1>1, <1>2 DEF TeamTypes
<1>4. TeamTypes' BY <1>3 DEF TeamTypes
<1>5. ASSUME NEW p \in Owners, p # o, NEW m \in TeamLists, Sound(p, m, accepted)
      PROVE  Sound(p, m, accepted')
  <2>1. \A i \in DOMAIN m : m[i].user \in Members
    <3>1. \A i \in DOMAIN m : m[i] \in MemberEntries BY ElementOfSeq, LenProperties DEF TeamLists
    <3> QED BY <3>1, EntryIs
  <2>2. \A i \in DOMAIN m : <<p, m[i].user>> \in accepted => <<p, m[i].user>> \in accepted'
    BY <1>5, <2>1
  <2> QED BY <1>5, <2>2, StillSound
<1>6. ASSUME NEW p \in Owners, HasTeam(p)' PROVE Sound(p, teams'[p].members, accepted')
  <2>1. CASE p = o BY <1>2, <1>3, <2>1
  <2>2. CASE p # o
    <3>1. HasTeam(p) /\ teams'[p] = teams[p] BY <1>3, <1>6, <2>2 DEF HasTeam
    <3>2. teams[p].members \in TeamLists BY <1>0, <3>1, TeamIs
    <3>3. Sound(p, teams[p].members, accepted) BY <3>1 DEF TeamInv
    <3> QED BY <1>5, <2>2, <3>1, <3>2, <3>3
  <2> QED BY <2>1, <2>2
<1>7. ASSUME NEW r \in Slots, slots'[r].op \in {"push", "join", "replace"}
      PROVE  StillTrue(slots'[r], teams'[slots'[r].team], accepted')
  <2>1. slots'[r] = slots[r] BY <1>7 DEF Idle
  <2> DEFINE p == slots[r].team
  <2>2. StillTrue(slots[r], teams[p], accepted) BY <1>7, <2>1 DEF TeamInv
  <2>3. slots[r] \in TeamSteps BY <1>0 DEF TeamTypes
  <2>4. p \in Owners BY <1>7, <2>1, <2>3, TeamCarries
  <2> HIDE DEF p
  <2>5. CASE p = o
    <3>1. slots[r].op \in {"join", "replace"} => slots[r].v <= teams[o].v /\ slots[r].v \in Nat
      BY <2>2, <2>3, <2>5, TeamCarries DEF StillTrue
    <3>2. slots[r].op \in {"join", "replace"} => slots[r].v < doc.v BY <1>0, <1>2, <3>1
    <3>3. slots[r].op \in {"join", "replace"} => slots[r].v <= doc.v /\ slots[r].v # doc.v
      BY <1>0, <1>2, <3>1
    <3>4. StillTrue(slots[r], doc, accepted') BY <1>2, <3>3 DEF StillTrue
    <3> QED BY <1>3, <2>1, <2>5, <3>4 DEF p
  <2>6. CASE p # o
    <3>1. slots[r].op = "replace" => slots[r].left \in TeamLists BY <2>3, TeamCarries
    <3>2. slots[r].op = "replace" /\ Sound(p, slots[r].left, accepted) =>
            Sound(p, slots[r].left, accepted')
      BY <1>5, <2>4, <2>6, <3>1
    <3>3. StillTrue(slots[r], teams[p], accepted') BY <2>2, <3>2 DEF StillTrue, p
    <3> QED BY <1>3, <2>1, <2>4, <2>6, <3>3 DEF p
  <2> QED BY <2>5, <2>6
<1> QED BY <1>4, <1>6, <1>7 DEF TeamInv
\* Team.create, when nobody has made the owner's team in the meantime.
LEMMA CreatedStep == ASSUME TeamInv, NEW s \in Slots, TeamCreated(s) PROVE TeamInv'
<1> USE TeamAssumption
<1> DEFINE o == slots[s].team
           doc == [members |-> << >>, v |-> 0]
<1>0. TeamTypes /\ slots[s] \in TeamSteps BY DEF TeamInv, TeamTypes
<1>1. o \in Owners BY <1>0, TeamCarries DEF TeamCreated, At
<1>2. /\ slots' \in [Slots -> TeamSteps]
      /\ \A r \in Slots : slots'[r] = slots[r] \/ slots'[r] = Idle
  BY <1>0, StepDone DEF TeamCreated, TeamTypes
<1>3. doc \in TeamDocs /\ doc.members = << >>
  <2>1. << >> \in TeamLists BY DEF TeamLists
  <2> QED BY <2>1 DEF TeamDocs
<1>4. Sound(o, << >>, accepted) BY DEF Sound, ActiveComesFirst, AreAccepted
<1>5. /\ accepted' = accepted
      /\ teams' = IF HasTeam(o) THEN teams ELSE [teams EXCEPT ![o] = doc]
  BY DEF TeamCreated
<1> HIDE DEF o, doc
<1>6. /\ teams' \in [Owners -> TeamDocs \cup {NoTeam}]
      /\ \A p \in Owners : teams'[p] = teams[p] \/ (p = o /\ ~HasTeam(o) /\ teams'[p] = doc)
  BY <1>0, <1>1, <1>3, <1>5 DEF TeamTypes
<1>7. TeamTypes' BY <1>0, <1>2, <1>5, <1>6 DEF TeamTypes
<1>8. ASSUME NEW p \in Owners, HasTeam(p)' PROVE Sound(p, teams'[p].members, accepted')
  <2>1. CASE teams'[p] = teams[p] BY <1>5, <1>8, <2>1 DEF TeamInv, HasTeam
  <2>2. CASE p = o /\ teams'[p] = doc BY <1>3, <1>4, <1>5, <2>2
  <2> QED BY <1>6, <2>1, <2>2
<1>9. ASSUME NEW r \in Slots, slots'[r].op \in {"push", "join", "replace"}
      PROVE  StillTrue(slots'[r], teams'[slots'[r].team], accepted')
  <2>1. slots'[r] = slots[r] BY <1>2, <1>9 DEF Idle
  <2>2. StillTrue(slots[r], teams[slots[r].team], accepted) BY <1>9, <2>1 DEF TeamInv
  <2>3. slots[r].team \in Owners BY <1>0, <1>9, <2>1, TeamCarries DEF TeamTypes
  <2>4. HasTeam(slots[r].team) BY <2>2, DocIsTeam DEF StillTrue, HasTeam
  <2>5. teams'[slots[r].team] = teams[slots[r].team] BY <1>6, <2>3, <2>4
  <2> QED BY <1>5, <2>1, <2>2, <2>5
<1> QED BY <1>7, <1>8, <1>9 DEF TeamInv

LEMMA InviteArrivesStep ==
  ASSUME TeamInv, NEW s \in Slots, NEW o \in Owners, NEW u \in Members, InviteMemberArrives(s, o, u)
  PROVE  TeamInv'
<1> DEFINE step == [op |-> "push", team |-> o, who |-> u]
<1>1. step \in TeamSteps BY DEF TeamSteps
<1>2. StillTrue(step, teams[step.team], accepted)
  BY TeamIs DEF InviteMemberArrives, TeamInv, StillTrue
<1>3. Starts(s, step) /\ UNCHANGED teamDocs BY DEF InviteMemberArrives
<1> HIDE DEF step
<1> QED BY <1>1, <1>2, <1>3, TeamStarts

\* An invitation goes to the end of the list.
LEMMA InvitedStep == ASSUME TeamInv, NEW s \in Slots, MemberInvited(s) PROVE TeamInv'
<1> DEFINE o == slots[s].team
           u == slots[s].who
           l == teams[o].members
           t == Append(l, Invited(u))
<1>0. TeamTypes /\ slots[s] \in TeamSteps BY DEF TeamInv, TeamTypes
<1>1. o \in Owners /\ u \in Members BY <1>0, TeamCarries DEF MemberInvited, At
<1>2. HasTeam(o)
  <2>1. teams[o] \in TeamDocs BY DEF MemberInvited, At, TeamInv, StillTrue
  <2> QED BY <2>1, DocIsTeam DEF HasTeam
<1>3. teams[o].v < MaxSaves /\ Saves(o, t) /\ accepted' = accepted BY DEF MemberInvited
<1>4. /\ slots' \in [Slots -> TeamSteps]
      /\ \A r \in Slots : slots'[r] = slots[r] \/ slots'[r] = Idle
  BY <1>0, StepDone DEF MemberInvited, TeamTypes
<1> HIDE DEF o, u
<1>5. l \in TeamLists /\ Sound(o, l, accepted) BY <1>0, <1>1, <1>2, TeamIs DEF TeamInv
<1>6. Invited(u) \in MemberEntries /\ Invited(u).status # "active"
  BY <1>1 DEF Invited, MemberEntries
<1> HIDE DEF l, t
<1>7. /\ t \in TeamLists /\ DOMAIN t = DOMAIN l \cup {Len(t)} /\ Len(t) \notin DOMAIN l
      /\ Len(t) = Len(l) + 1
      /\ t[Len(t)] = Invited(u) /\ \A i \in DOMAIN l : t[i] = l[i]
  BY <1>5, <1>6, AndOneMore DEF t, TeamLists
<1>8. DOMAIN l = 1..Len(l) /\ Len(l) \in Nat BY <1>5, LenProperties DEF TeamLists
<1>9. Sound(o, t, accepted')
  <2>1. ASSUME NEW i \in DOMAIN t, t[i].status = "active"
        PROVE  i \in DOMAIN l /\ t[i] = l[i]
    BY <1>6, <1>7, <2>1
  <2>2. ASSUME NEW i \in DOMAIN t, NEW j \in DOMAIN t, t[i].status = "active", t[j].user = t[i].user
        PROVE  i <= j
    <3>1. i \in DOMAIN l /\ t[i] = l[i] BY <2>1, <2>2
    <3>2. CASE j \in DOMAIN l BY <1>5, <1>7, <2>2, <3>1, <3>2 DEF Sound, ActiveComesFirst
    <3>3. CASE j = Len(t) BY <1>7, <1>8, <3>1, <3>3
    <3> QED BY <1>7, <3>2, <3>3
  <2> QED BY <1>3, <1>5, <2>1, <2>2 DEF Sound, ActiveComesFirst, AreAccepted
<1>10. accepted' \in SUBSET (Owners \X Members) BY <1>0, <1>3 DEF TeamTypes
<1> QED BY <1>1, <1>2, <1>3, <1>4, <1>7, <1>9, <1>10, TeamSaved

\* An invitation is found where the user is listed first: he is active nowhere.
LEMMA JoinArrivesStep ==
  ASSUME TeamInv, NEW s \in Slots, NEW o \in Owners, NEW u \in Members, JoinArrives(s, o, u)
  PROVE  TeamInv'
<1> DEFINE l == teams[o].members
           at == PositionOf(o, {Invited(u)})
           step == [op |-> "join", team |-> o, who |-> u, v |-> teams[o].v, at |-> at]
<1>0. TeamTypes /\ HasTeam(o) BY DEF TeamInv, JoinArrives
<1>1. teams[o] \in TeamDocs /\ l \in TeamLists /\ teams[o].v \in Nat BY <1>0, TeamIs, TeamAssumption
<1>2. Len(l) \in Nat /\ DOMAIN l = 1..Len(l) BY <1>1, LenProperties DEF TeamLists
<1>3. at \in DOMAIN l /\ l[at] = Invited(u) /\ \A j \in 1..(at - 1) : l[j] # Invited(u)
  <2>1. Entries(o) \cap {Invited(u)} # {} BY DEF JoinArrives
  <2> QED BY <1>0, <2>1, PositionIs
<1> HIDE DEF at
<1>4. step \in TeamSteps
  <2>1. at \in Nat BY <1>2, <1>3
  <2>2. step \in [op : {"join"}, team : Owners, who : Members, v : Nat, at : Nat] BY <1>1, <2>1
  <2> HIDE DEF step
  <2> QED BY <2>2 DEF TeamSteps
<1>5. ASSUME NEW j \in DOMAIN l, l[j].user = u PROVE at <= j
  <2>1. l[j] \in MemberEntries BY <1>1, <1>2, ElementOfSeq DEF TeamLists
  <2>2. l[j] = Invited(u) \/ l[j] = Active(u) BY <1>5, <2>1, EntryIs
  <2>3. l[j] # Active(u)
    <3>1. Active(u) \notin Entries(o) BY DEF JoinArrives, InATeam
    <3> QED BY <1>0, <3>1 DEF Entries, Range
  <2> QED BY <1>2, <1>3, <2>2, <2>3
<1>6. IsFirstOf(u, at, l) BY <1>3, <1>5 DEF IsFirstOf, Invited
<1>7. StillTrue(step, teams[step.team], accepted) BY <1>1, <1>6 DEF StillTrue
<1>8. Starts(s, step) /\ UNCHANGED teamDocs BY DEF JoinArrives, at
<1> HIDE DEF step
<1> QED BY <1>4, <1>7, <1>8, TeamStarts
\* The invitation that was found is marked active; the positions have not moved.
LEMMA JoinedStep == ASSUME TeamInv, NEW s \in Slots, MemberJoined(s) PROVE TeamInv'
<1> DEFINE o == slots[s].team
           u == slots[s].who
           at == slots[s].at
           l == teams[o].members
           t == [l EXCEPT ![at] = Active(u)]
           doc == [members |-> t, v |-> teams[o].v]
<1>0. TeamTypes /\ slots[s] \in TeamSteps BY DEF TeamInv, TeamTypes
<1>1. o \in Owners /\ u \in Members BY <1>0, TeamCarries DEF MemberJoined, At
<1>2. /\ slots' \in [Slots -> TeamSteps]
      /\ \A r \in Slots : slots'[r] = slots[r] \/ slots'[r] = Idle
  BY <1>0, StepDone DEF MemberJoined, TeamTypes
<1>3. CASE ~SameVersion(s)
  <2>1. teams' = teams /\ accepted' = accepted BY <1>3 DEF MemberJoined, teamDocs
  <2>2. TeamTypes' BY <1>0, <1>2, <2>1 DEF TeamTypes
  <2>3. \A p \in Owners : HasTeam(p)' => Sound(p, teams'[p].members, accepted')
    BY <2>1 DEF TeamInv, HasTeam
  <2>4. ASSUME NEW r \in Slots, slots'[r].op \in {"push", "join", "replace"}
        PROVE  StillTrue(slots'[r], teams'[slots'[r].team], accepted')
    <3>1. slots'[r] = slots[r] BY <1>2, <2>4 DEF Idle
    <3> QED BY <2>1, <2>4, <3>1 DEF TeamInv
  <2> QED BY <2>2, <2>3, <2>4 DEF TeamInv
<1>4. CASE SameVersion(s)
  <2>1. /\ teams' = [teams EXCEPT ![o].members[at].status = "active"]
        /\ accepted' = accepted \cup {<<o, u>>}
    BY <1>4 DEF MemberJoined
  <2>2. teams[o] \in TeamDocs /\ IsFirstOf(u, at, l)
    BY <1>4 DEF SameVersion, MemberJoined, At, TeamInv, StillTrue
  <2> HIDE DEF o, u, at
  <2>3. l \in TeamLists /\ teams[o].v \in 0..MaxSaves BY <2>2 DEF TeamDocs
  <2>4. at \in DOMAIN l /\ DOMAIN l = 1..Len(l) /\ Len(l) \in Nat
    BY <2>2, <2>3, LenProperties DEF IsFirstOf, TeamLists
  <2>5. l[at] \in MemberEntries /\ l[at].user = u
    BY <2>2, <2>3, <2>4, ElementOfSeq DEF IsFirstOf, TeamLists
  <2>6. [l[at] EXCEPT !.status = "active"] = Active(u)
    BY <2>5 DEF MemberEntries, Active
  <2>7. [l EXCEPT ![at].status = "active"] = t BY <2>6
  <2>8. [teams[o] EXCEPT !.members[at].status = "active"] = doc
    <3>1. [teams[o] EXCEPT !.members[at].status = "active"] =
            [members |-> [l EXCEPT ![at].status = "active"], v |-> teams[o].v]
      BY <2>2 DEF TeamDocs
    <3> QED BY <2>7, <3>1
  <2>9. teams' = [teams EXCEPT ![o] = doc] BY <2>1, <2>8
  <2>10. /\ t \in TeamLists /\ DOMAIN t = DOMAIN l
         /\ t[at] = Active(u) /\ \A i \in DOMAIN l : i # at => t[i] = l[i]
    <3>1. Active(u) \in MemberEntries BY <1>1 DEF Active, MemberEntries
    <3>2. l \in [1..Len(l) -> MemberEntries] BY <2>3, LenProperties DEF TeamLists
    <3>3. t \in [1..Len(l) -> MemberEntries] BY <2>4, <3>1, <3>2
    <3>4. t \in TeamLists BY <2>3, <2>4, <3>1, ExceptSeq DEF TeamLists
    <3> QED BY <2>4, <3>2, <3>4
  <2> HIDE DEF l, t
  <2>11. doc \in TeamDocs /\ doc.members = t /\ doc.v = teams[o].v BY <2>3, <2>10 DEF TeamDocs
  <2> HIDE DEF doc
  <2>12. /\ teams' \in [Owners -> TeamDocs \cup {NoTeam}]
         /\ teams'[o] = doc /\ \A p \in Owners : p # o => teams'[p] = teams[p]
    BY <1>0, <1>1, <2>9, <2>11 DEF TeamTypes
  <2>13. TeamTypes' BY <1>0, <1>1, <1>2, <2>1, <2>12 DEF TeamTypes
  <2>14. \A i \in DOMAIN l : t[i].user = l[i].user
    BY <2>5, <2>10 DEF Active
  <2>15. HasTeam(o) BY <2>2, DocIsTeam DEF HasTeam
  <2>16. Sound(o, l, accepted) BY <1>1, <2>15 DEF TeamInv, l
  <2>17. Sound(o, t, accepted')
    <3>1. ASSUME NEW i \in DOMAIN t, t[i].status = "active", i # at
          PROVE  i \in DOMAIN l /\ l[i].status = "active" /\ l[i].user = t[i].user
      BY <2>10, <3>1
    <3>2. ASSUME NEW i \in DOMAIN t, NEW j \in DOMAIN t,
                 t[i].status = "active", t[j].user = t[i].user
          PROVE  i <= j
      <4>1. CASE i = at BY <2>2, <2>5, <2>10, <2>14, <3>2, <4>1 DEF IsFirstOf
      <4>2. CASE i # at
        <5>1. i \in DOMAIN l /\ l[i].status = "active" /\ l[j].user = l[i].user /\ j \in DOMAIN l
          BY <2>10, <2>14, <3>1, <3>2, <4>2
        <5> QED BY <2>16, <5>1 DEF Sound, ActiveComesFirst
      <4> QED BY <4>1, <4>2
    <3>3. ASSUME NEW i \in DOMAIN t, t[i].status = "active" PROVE <<o, t[i].user>> \in accepted'
      <4>1. CASE i = at BY <2>1, <2>10, <4>1 DEF Active
      <4>2. CASE i # at BY <2>1, <2>16, <3>1, <3>3, <4>2 DEF Sound, AreAccepted
      <4> QED BY <4>1, <4>2
    <3> QED BY <3>2, <3>3 DEF Sound, ActiveComesFirst, AreAccepted
  <2>18. ASSUME NEW p, NEW m, Sound(p, m, accepted) PROVE Sound(p, m, accepted')
    BY <2>1, <2>18, StillSound
  <2>19. ASSUME NEW p \in Owners, HasTeam(p)' PROVE Sound(p, teams'[p].members, accepted')
    <3>1. CASE p = o BY <2>11, <2>12, <2>17, <3>1
    <3>2. CASE p # o
      <4>1. HasTeam(p) /\ teams'[p] = teams[p] BY <2>12, <2>19, <3>2 DEF HasTeam
      <4> QED BY <2>18, <4>1 DEF TeamInv
    <3> QED BY <3>1, <3>2
  <2>20. ASSUME NEW r \in Slots, slots'[r].op \in {"push", "join", "replace"}
         PROVE  StillTrue(slots'[r], teams'[slots'[r].team], accepted')
    <3>1. slots'[r] = slots[r] BY <1>2, <2>20 DEF Idle
    <3>2. StillTrue(slots[r], teams[slots[r].team], accepted) BY <2>20, <3>1 DEF TeamInv
    <3>3. slots[r].team \in Owners BY <1>0, <2>20, <3>1, TeamCarries DEF TeamTypes
    <3>4. StillTrue(slots[r], teams[slots[r].team], accepted')
      BY <2>18, <3>2 DEF StillTrue
    <3>5. CASE slots[r].team = o
      <4>1. \A w, i : IsFirstOf(w, i, l) => IsFirstOf(w, i, t) BY <2>10, <2>14 DEF IsFirstOf
      <4>2. StillTrue(slots[r], doc, accepted')
        BY <2>11, <3>4, <3>5, <4>1 DEF StillTrue, l
      <4> QED BY <2>12, <3>1, <3>5, <4>2
    <3>6. CASE slots[r].team # o BY <2>12, <3>1, <3>3, <3>4, <3>6
    <3> QED BY <3>5, <3>6
  <2> QED BY <2>13, <2>19, <2>20 DEF TeamInv
<1> QED BY <1>3, <1>4

LEMMA DeclinedStep ==
  ASSUME TeamInv, NEW o \in Owners, NEW u \in Members, InviteDeclined(o, u)
  PROVE  TeamInv'
<1> DEFINE at == PositionOf(o, {Invited(u)})
           l == teams[o].members
           t == RemoveAt(l, at)
<1>0. TeamTypes BY DEF TeamInv
<1>1. HasTeam(o) BY DEF InviteDeclined, Entries
<1>2. l \in TeamLists /\ Sound(o, l, accepted) BY <1>0, <1>1, TeamIs DEF TeamInv
<1>3. at \in DOMAIN l
  <2>1. Entries(o) \cap {Invited(u)} # {} BY DEF InviteDeclined
  <2> QED BY <1>0, <1>1, <2>1, PositionIs
<1>4. teams[o].v < MaxSaves /\ Saves(o, t) /\ accepted' = accepted /\ slots' = slots
  BY DEF InviteDeclined
<1> HIDE DEF at, l
<1>5. t \in TeamLists /\ Sound(o, t, accepted) BY <1>2, <1>3, OneLess
<1> HIDE DEF t
<1>6. /\ slots' \in [Slots -> TeamSteps] /\ accepted' \in SUBSET (Owners \X Members)
  BY <1>0, <1>4 DEF TeamTypes
<1> QED BY <1>1, <1>4, <1>5, <1>6, TeamSaved

\* The array that a handler will write has no active entry of the one who goes.
LEMMA GoesArrivesStep ==
  ASSUME TeamInv, NEW s \in Slots, NEW o \in Owners, NEW u \in Members, NEW leaves \in BOOLEAN,
         GoesArrives(s, o, u, leaves)
  PROVE  TeamInv'
<1> DEFINE l == teams[o].members
           at == PositionOf(o, {Invited(u), Active(u)})
           left == IF leaves THEN OthersThan(u, l) ELSE RemoveAt(l, at)
           step == [op |-> "replace", team |-> o, who |-> u, v |-> teams[o].v, left |-> left]
<1>0. TeamTypes /\ HasTeam(o) BY DEF TeamInv, GoesArrives
<1>1. teams[o] \in TeamDocs /\ l \in TeamLists /\ teams[o].v \in Nat
  BY <1>0, TeamIs, TeamAssumption
<1>2. Len(l) \in Nat /\ DOMAIN l = 1..Len(l) BY <1>1, LenProperties DEF TeamLists
<1>3. Sound(o, l, accepted) BY <1>0 DEF TeamInv
<1>4. Starts(s, step) /\ UNCHANGED teamDocs BY DEF GoesArrives
<1>5. ~leaves => /\ at \in DOMAIN l /\ l[at] \in {Invited(u), Active(u)}
                 /\ \A j \in 1..(at - 1) : l[j] \notin {Invited(u), Active(u)}
  <2>1. ~leaves => Entries(o) \cap {Invited(u), Active(u)} # {} BY DEF GoesArrives, InTeam
  <2> QED BY <1>0, <2>1, PositionIs
<1> HIDE DEF l, at, step
<1>6. /\ left \in TeamLists /\ Sound(o, left, accepted)
      /\ \A i \in DOMAIN left : left[i].status = "active" => left[i].user # u
  <2>1. CASE leaves
    <3>1. left = OthersThan(u, l) BY <2>1
    <3> HIDE DEF left
    <3> QED BY <1>1, <1>3, <3>1, OthersOnly
  <2>2. CASE ~leaves
    <3>1. left = RemoveAt(l, at) BY <2>2
    <3> HIDE DEF left
    <3>2. /\ left \in TeamLists /\ Sound(o, left, accepted)
          /\ \A i \in DOMAIN left : \E k \in DOMAIN l : k # at /\ left[i] = l[k]
      BY <1>1, <1>3, <1>5, <2>2, <3>1, OneLess
    <3>3. ASSUME NEW k \in DOMAIN l, k # at, l[k].status = "active", l[k].user = u PROVE FALSE
      <4>1. l[k] \in MemberEntries BY <1>1, <1>2, ElementOfSeq DEF TeamLists
      <4>2. l[k] = Active(u) BY <3>3, <4>1, EntryIs
      <4>3. l[at].user = u BY <1>5, <2>2 DEF Invited, Active
      <4>4. k <= at BY <1>3, <1>5, <2>2, <3>3, <4>3 DEF Sound, ActiveComesFirst
      <4>5. k \in 1..(at - 1) BY <1>2, <1>5, <2>2, <3>3, <4>4
      <4> QED BY <1>5, <2>2, <4>2, <4>5
    <3> QED BY <3>2, <3>3
  <2> QED BY <2>1, <2>2
<1> HIDE DEF left
<1>7. step \in TeamSteps
  <2>1. step \in [op : {"replace"}, team : Owners, who : Members, v : Nat, left : TeamLists]
    BY <1>1, <1>6 DEF step
  <2> QED BY <2>1 DEF TeamSteps
<1>8. StillTrue(step, teams[step.team], accepted) BY <1>1, <1>6 DEF StillTrue, step
<1> QED BY <1>4, <1>7, <1>8, TeamStarts

LEMMA GoneStep == ASSUME TeamInv, NEW s \in Slots, MemberGone(s) PROVE TeamInv'
<1> DEFINE o == slots[s].team
           u == slots[s].who
           l == slots[s].left
<1>0. TeamTypes /\ slots[s] \in TeamSteps BY DEF TeamInv, TeamTypes
<1>1. o \in Owners /\ u \in Members /\ l \in TeamLists BY <1>0, TeamCarries DEF MemberGone, At
<1>2. /\ slots' \in [Slots -> TeamSteps]
      /\ \A r \in Slots : slots'[r] = slots[r] \/ slots'[r] = Idle
  BY <1>0, StepDone DEF MemberGone, TeamTypes
<1>3. CASE ~SameVersion(s)
  <2>1. teams' = teams /\ accepted' = accepted BY <1>3 DEF MemberGone, teamDocs
  <2>2. TeamTypes' BY <1>0, <1>2, <2>1 DEF TeamTypes
  <2>3. \A p \in Owners : HasTeam(p)' => Sound(p, teams'[p].members, accepted')
    BY <2>1 DEF TeamInv, HasTeam
  <2>4. ASSUME NEW r \in Slots, slots'[r].op \in {"push", "join", "replace"}
        PROVE  StillTrue(slots'[r], teams'[slots'[r].team], accepted')
    <3>1. slots'[r] = slots[r] BY <1>2, <2>4 DEF Idle
    <3> QED BY <2>1, <2>4, <3>1 DEF TeamInv
  <2> QED BY <2>2, <2>3, <2>4 DEF TeamInv
<1>4. CASE SameVersion(s)
  <2>1. /\ teams[o].v < MaxSaves /\ Saves(o, l)
        /\ accepted' = accepted \ {<<o, u>>}
    BY <1>4 DEF MemberGone
  <2>2. /\ teams[o] \in TeamDocs /\ Sound(o, l, accepted)
        /\ \A i \in DOMAIN l : l[i].status = "active" => l[i].user # u
    BY <1>4 DEF SameVersion, MemberGone, At, TeamInv, StillTrue
  <2> HIDE DEF o, u, l
  <2>3. HasTeam(o) BY <2>2, DocIsTeam DEF HasTeam
  <2>4. Sound(o, l, accepted') BY <2>1, <2>2 DEF Sound, AreAccepted
  <2>5. accepted' \in SUBSET (Owners \X Members) BY <1>0, <2>1 DEF TeamTypes
  <2>6. \A p \in Owners, w \in Members : p # o /\ <<p, w>> \in accepted => <<p, w>> \in accepted'
    BY <2>1
  <2> QED BY <1>1, <1>2, <2>1, <2>3, <2>4, <2>5, <2>6, TeamSaved
<1> QED BY <1>3, <1>4

LEMMA TeamStep == TeamInv /\ [TeamNext]_teamVars => TeamInv'
<1> SUFFICES ASSUME TeamInv, [TeamNext]_teamVars PROVE TeamInv' OBVIOUS
<1>1. ASSUME NEW s \in Slots, NEW o \in Owners, TeamCreateArrives(s, o) PROVE TeamInv'
  <2> DEFINE step == [op |-> "create team", team |-> o]
  <2>1. step \in TeamSteps BY DEF TeamSteps
  <2>2. Starts(s, step) /\ UNCHANGED teamDocs BY <1>1 DEF TeamCreateArrives
  <2>3. step.op \notin {"push", "join", "replace"} OBVIOUS
  <2> HIDE DEF step
  <2> QED BY <2>1, <2>2, <2>3, TeamStarts
<1>2. CASE TeamServerStops
  <2>1. slots' = AllIdle /\ teams' = teams /\ accepted' = accepted
    BY <1>2 DEF TeamServerStops, Restarts, teamDocs
  <2> QED BY <2>1 DEF TeamInv, TeamTypes, TeamSteps, HasTeam, AllIdle, Idle
<1>3. CASE UNCHANGED teamVars
  <2>1. UNCHANGED <<teams, accepted, slots>> BY <1>3 DEF teamVars
  <2> QED BY <2>1 DEF TeamInv, TeamTypes, HasTeam
<1> QED BY <1>1, <1>2, <1>3, CreatedStep, InviteArrivesStep, InvitedStep, JoinArrivesStep,
           JoinedStep, DeclinedStep, GoesArrivesStep, GoneStep
        DEF TeamNext

LEMMA TeamInvariant == TeamSpec => []TeamInv
<1>1. TeamInit => TeamInv
  BY DEF TeamInit, TeamInv, TeamTypes, TeamSteps, HasTeam, AllIdle, Idle
<1> QED BY <1>1, TeamStep, PTL DEF TeamSpec

\* A team's version and its entries, and who accepted, are always of their types.
THEOREM TeamsTyped == TeamSpec => []TeamTypeOK
<1>1. TeamInv => TeamTypeOK
  <2> SUFFICES ASSUME TeamInv PROVE TeamTypeOK OBVIOUS
  <2>0. TeamTypes BY DEF TeamInv
  <2>1. ASSUME NEW o \in Owners, HasTeam(o)
        PROVE  /\ teams[o].v \in 0..MaxSaves
               /\ Entries(o) \subseteq MemberEntries
    <3>1. teams[o].v \in 0..MaxSaves /\ teams[o].members \in Seq(MemberEntries)
      BY <2>0, <2>1, TeamIs DEF TeamLists
    <3>2. Range(teams[o].members) \subseteq MemberEntries BY <3>1, InRange
    <3> QED BY <2>1, <3>1, <3>2 DEF Entries
  <2> QED BY <2>0, <2>1 DEF TeamTypeOK, TeamTypes, MemberEntries
<1> QED BY <1>1, TeamInvariant, PTL

\* Whoever is an active member of a team accepted its invitation himself, for any
\* number of teams and members, and of handlers at work on one team: an answer is
\* written where the invitation was found only while no entry has moved.
THEOREM MembersAccepted == TeamSpec => []ActivatedBySelf
<1>1. TeamInv => ActivatedBySelf
  <2> SUFFICES ASSUME TeamInv, NEW o \in Owners, NEW u \in Members, Active(u) \in Entries(o)
               PROVE  <<o, u>> \in accepted
    BY DEF ActivatedBySelf
  <2>1. HasTeam(o) BY DEF Entries
  <2>2. PICK i \in DOMAIN teams[o].members : teams[o].members[i] = Active(u)
    BY <2>1 DEF Entries, Range
  <2>3. Sound(o, teams[o].members, accepted) BY <2>1 DEF TeamInv
  <2> QED BY <2>2, <2>3 DEF Sound, AreAccepted, Active
<1> QED BY <1>1, TeamInvariant, PTL

=============================================================================
