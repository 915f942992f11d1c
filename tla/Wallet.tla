------------------------------- MODULE Wallet -------------------------------
(***************************************************************************)
(* A collector's money: the ledger of Transaction documents, the balance    *)
(* derived from it, payout requests and their review, plans bought from the *)
(* wallet or granted by an admin, and the bonus of a referral.              *)
(*                                                                          *)
(* No balance is stored.  A Transaction is written once and is never        *)
(* changed, so the ledger is a set of records; what keeps a second copy out *)
(* are the unique indexes of its schema.                                    *)
(***************************************************************************)
EXTENDS Handlers, Integers, FiniteSets, Sequences, FiniteSetsExt

CONSTANTS
  Collectors,   \* users with a wallet
  Pickups,      \* completed pickups that may be credited
  Earning,      \* what a completed pickup earns
  Payouts,      \* amounts a collector may ask for, not below MIN_PAYOUT_AMOUNT
  PlanKeys,     \* plans that can be bought
  PlanPrice,    \* priceMonthly of a plan that can be bought
  Bonus,        \* REFERRAL_BONUS_AMOUNT
  Referrals,    \* people who signed up with a collector's code
  MaxRequests,  \* bound: payout requests created
  MaxPurchases, \* bound: plan purchases on their way or recorded
  MaxMonths,    \* bound: plan periods that pass
  NoRef         \* an absent pickup or request reference

ASSUME WalletAssumption ==
  /\ Earning \in Nat \ {0} /\ PlanPrice \in Nat \ {0} /\ Bonus \in Nat
  /\ Payouts \subseteq Nat \ {0}
  /\ MaxRequests \in Nat /\ MaxPurchases \in Nat /\ MaxMonths \in Nat
  /\ NoRef \notin Pickups \cup Nat
  /\ "free" \notin PlanKeys

VARIABLES
  transactions,  \* the Transaction documents
  requests,      \* the PayoutRequest documents, in the order they were created
  subscription,  \* User.subscription of each collector; until: month it expires
  purchases,     \* the PlanPurchase documents
  month,         \* the clock, in plan periods
  referral       \* the Referral document of each referee: its referrer and status

walletDocs == <<transactions, requests, subscription, purchases, month, referral>>
walletVars == <<transactions, requests, subscription, purchases, month, referral, slots>>

WalletInit ==
  /\ transactions = {}
  /\ requests = << >>
  /\ subscription = [c \in Collectors |-> [planKey |-> "free", until |-> 0]]
  /\ purchases = {}
  /\ month = 0
  /\ referral \in [Referrals -> [referrer : Collectors, status : {"pending"}]]
  /\ slots = AllIdle

-----------------------------------------------------------------------------
(* The ledger.                                                              *)

Entry(type, c, amount, pickup, request) ==
  [type |-> type, collector |-> c, amount |-> amount, pickup |-> pickup, request |-> request]

\* The indexes on {pickup, type} and {payoutRequest}.  A sparse compound index
\* holds every document that has one of its fields, and "type" has a default:
\* a transaction without a pickup is in it under null.
Duplicate(t) ==
  \E u \in transactions :
    \/ u.pickup = t.pickup /\ u.type = t.type
    \/ u.request # NoRef /\ u.request = t.request

SumOf(type, c) ==
  MapThenSumSet(LAMBDA t : t.amount,
                {t \in transactions : t.collector = c /\ t.type \in type})

PendingOf(c) == {i \in DOMAIN requests : requests[i].collector = c /\ requests[i].status = "pending"}

\* getAvailableBalance: credits less payouts, less plans, less what is reserved.
Available(c, reserved) ==
  SumOf({"earning", "referral_bonus"}, c) - SumOf({"payout"}, c)
    - MapThenSumSet(LAMBDA i : requests[i].amount, reserved) - SumOf({"subscription"}, c)

\* A completed pickup is credited (utils/settlement.js creditEarning).
Earn(c, p) ==
  LET t == Entry("earning", c, Earning, p, NoRef)
  IN /\ ~Duplicate(t)
     /\ transactions' = transactions \cup {t}
     /\ UNCHANGED <<requests, subscription, purchases, month, referral, slots>>

-----------------------------------------------------------------------------
(* Payouts.                                                                 *)

\* requestPayout: no pending request, and the balance covers the amount.
PayoutArrives(s, c, amount) ==
  /\ PendingOf(c) = {}
  /\ amount <= Available(c, PendingOf(c))
  /\ Starts(s, [op |-> "payout", who |-> c, amount |-> amount])
  /\ UNCHANGED walletDocs

PendingIndex_Missing(c) == TRUE

\* The partial unique index on pending requests lets this one in.
PendingIndex(c) == PendingOf(c) = {}

PayoutApplies(s) ==
  /\ At(s, "payout")
  /\ requests' = IF PendingIndex(slots[s].who) /\ Len(requests) < MaxRequests
                 THEN Append(requests, [collector |-> slots[s].who, amount |-> slots[s].amount,
                                        status |-> "pending"])
                 ELSE requests
  /\ Ends(s)
  /\ UNCHANGED <<transactions, subscription, purchases, month, referral>>

\* approvePayout: the request is pending and the balance still covers it.
ApproveArrives(s, i) ==
  /\ requests[i].status = "pending"
  /\ requests[i].amount <= Available(requests[i].collector, PendingOf(requests[i].collector) \ {i})
  /\ Starts(s, [op |-> "approve", id |-> i])
  /\ UNCHANGED walletDocs

\* The filter of both verdicts.
StillPending(i) == requests[i].status = "pending"

\* pending -> approved; the caller that wins goes on to the ledger.
ApproveApplies(s) ==
  /\ At(s, "approve")
  /\ LET i == slots[s].id
     IN IF StillPending(i)
        THEN /\ requests' = [requests EXCEPT ![i].status = "approved"]
             /\ Goes(s, [op |-> "debit", id |-> i])
        ELSE Ends(s) /\ UNCHANGED requests
  /\ UNCHANGED <<transactions, subscription, purchases, month, referral>>

\* Transaction.create; a duplicate-key error is taken for a retry and ignored.
Debit(s) ==
  /\ At(s, "debit")
  /\ LET i == slots[s].id
         t == Entry("payout", requests[i].collector, requests[i].amount, NoRef, i)
     IN transactions' = IF Duplicate(t) THEN transactions ELSE transactions \cup {t}
  /\ Ends(s)
  /\ UNCHANGED <<requests, subscription, purchases, month, referral>>

\* rejectPayout: one filtered update.
Reject(i) ==
  /\ StillPending(i)
  /\ requests' = [requests EXCEPT ![i].status = "rejected"]
  /\ UNCHANGED <<transactions, subscription, purchases, month, referral, slots>>

-----------------------------------------------------------------------------
(* Plans.                                                                   *)

\* effectivePlanKey.
PlanOf(c) == IF subscription[c].until > month THEN subscription[c].planKey ELSE "free"

\* nextPeriod: renewing the plan in force adds to it, another plan starts now.
NextPeriod(c, plan) == (IF PlanOf(c) = plan THEN subscription[c].until ELSE month) + 1

RoomForAPurchase ==
  Cardinality(purchases)
    + Cardinality({s \in Slots : slots[s].op \in {"pay", "purchase", "grant"}}) < MaxPurchases

\* subscribe, up to its first write.
SubscribeArrives(s, c, plan) ==
  /\ RoomForAPurchase
  /\ Available(c, PendingOf(c)) >= PlanPrice
  /\ Starts(s, [op |-> "pay", who |-> c, planKey |-> plan, until |-> NextPeriod(c, plan)])
  /\ UNCHANGED walletDocs

\* Transaction.create; here a duplicate-key error ends the request.
SubscribePays(s) ==
  /\ At(s, "pay")
  /\ LET t == Entry("subscription", slots[s].who, PlanPrice, NoRef, NoRef)
     IN IF Duplicate(t) THEN Ends(s) /\ UNCHANGED transactions
        ELSE /\ transactions' = transactions \cup {t}
             /\ Goes(s, [slots[s] EXCEPT !.op = "purchase"])
  /\ UNCHANGED <<requests, subscription, purchases, month, referral>>

\* adminGrant, up to its first write: paid outside the app.
GrantArrives(s, c, plan) ==
  /\ RoomForAPurchase
  /\ Starts(s, [op |-> "grant", who |-> c, planKey |-> plan, until |-> NextPeriod(c, plan)])
  /\ UNCHANGED walletDocs

Purchase(step) ==
  [collector |-> step.who, planKey |-> step.planKey, until |-> step.until,
   method |-> IF step.op = "purchase" THEN "wallet" ELSE "admin"]

\* PlanPurchase.create.
RecordPurchase(s) ==
  /\ slots[s].op \in {"purchase", "grant"}
  /\ purchases' = purchases \cup {Purchase(slots[s])}
  /\ Goes(s, [slots[s] EXCEPT !.op = "activate"])
  /\ UNCHANGED <<transactions, requests, subscription, month, referral>>

\* User.updateOne sets the period worked out when the request arrived.
Activate(s) ==
  /\ At(s, "activate")
  /\ subscription' = [subscription EXCEPT ![slots[s].who] =
                        [planKey |-> slots[s].planKey, until |-> slots[s].until]]
  /\ Ends(s)
  /\ UNCHANGED <<transactions, requests, purchases, month, referral>>

MonthPasses ==
  /\ month < MaxMonths
  /\ month' = month + 1
  /\ UNCHANGED <<transactions, requests, subscription, purchases, referral, slots>>

-----------------------------------------------------------------------------
(* Referrals.                                                               *)

\* activateReferralIfEligible, called for both parties of every completed
\* pickup: the referral is pending and its referee has completed one.
ReferralArrives(s, r) ==
  /\ referral[r].status = "pending"
  /\ Starts(s, [op |-> "claim", who |-> r])
  /\ UNCHANGED walletDocs

ReferralClaims(s) ==
  /\ At(s, "claim")
  /\ LET r == slots[s].who
     IN IF referral[r].status = "pending"
        THEN /\ referral' = [referral EXCEPT ![r].status = "completed"]
             /\ Goes(s, [op |-> "bonus", who |-> r])
        ELSE Ends(s) /\ UNCHANGED referral
  /\ UNCHANGED <<transactions, requests, subscription, purchases, month>>

\* Transaction.create; an error goes to the log of updateStatus.
ReferralPays(s) ==
  /\ At(s, "bonus")
  /\ LET t == Entry("referral_bonus", referral[slots[s].who].referrer, Bonus, NoRef, NoRef)
     IN transactions' = IF Duplicate(t) THEN transactions ELSE transactions \cup {t}
  /\ Ends(s)
  /\ UNCHANGED <<requests, subscription, purchases, month, referral>>

-----------------------------------------------------------------------------
WalletStops == Restarts /\ UNCHANGED walletDocs

PlansAndPayouts(s, c) ==
  \/ \E amount \in Payouts : PayoutArrives(s, c, amount)
  \/ \E plan \in PlanKeys : SubscribeArrives(s, c, plan) \/ GrantArrives(s, c, plan)

AdminReviews == \E i \in DOMAIN requests : Reject(i) \/ \E s \in Slots : ApproveArrives(s, i)

WalletStep(s) ==
  \/ PayoutApplies(s) \/ ApproveApplies(s) \/ Debit(s)
  \/ SubscribePays(s) \/ RecordPurchase(s) \/ Activate(s)
  \/ ReferralClaims(s) \/ ReferralPays(s)

WalletNext ==
  \/ \E c \in Collectors, p \in Pickups : Earn(c, p)
  \/ \E s \in Slots, c \in Collectors : PlansAndPayouts(s, c)
  \/ \E s \in Slots, r \in Referrals : ReferralArrives(s, r)
  \/ \E s \in Slots : WalletStep(s)
  \/ AdminReviews
  \/ MonthPasses
  \/ WalletStops

WalletSpec == WalletInit /\ [][WalletNext]_walletVars

-----------------------------------------------------------------------------
(* Properties.                                                              *)

Steps ==
  {Idle} \cup [op : {"payout"}, who : Collectors, amount : Payouts]
         \cup [op : {"approve", "debit"}, id : DOMAIN requests]
         \cup [op : {"pay", "purchase", "grant", "activate"}, who : Collectors,
               planKey : PlanKeys, until : Nat]
         \cup [op : {"claim", "bonus"}, who : Referrals]

\* Type invariant of the component.
WalletTypeOK ==
  /\ transactions \subseteq
       [type : {"earning", "payout", "subscription", "referral_bonus"}, collector : Collectors,
        amount : Nat, pickup : Pickups \cup {NoRef}, request : Nat \cup {NoRef}]
  /\ requests \in Seq([collector : Collectors, amount : Payouts,
                       status : {"pending", "approved", "rejected"}])
  /\ subscription \in [Collectors -> [planKey : PlanKeys \cup {"free"}, until : Nat]]
  /\ purchases \subseteq [collector : Collectors, planKey : PlanKeys, until : Nat,
                          method : {"wallet", "admin"}]
  /\ month \in Nat
  /\ referral \in [Referrals -> [referrer : Collectors, status : {"pending", "completed"}]]
  /\ slots \in [Slots -> Steps]

\* However many requests pass the check of requestPayout at once, a collector
\* has at most one pending payout request.
OnePendingPayout ==
  \A i, j \in DOMAIN requests :
    /\ requests[i].status = "pending" /\ requests[j].status = "pending"
    /\ requests[i].collector = requests[j].collector
    => i = j

\* Money that left the wallet as a payout left it for an approved request, for
\* its amount and its collector, and a request whose debit is still to be
\* written is approved: no verdict overtakes another between its two writes.
DebitHasApproval ==
  /\ \A t \in transactions : t.type = "payout" =>
       /\ t.request \in DOMAIN requests
       /\ requests[t.request].status = "approved"
       /\ requests[t.request].collector = t.collector
       /\ requests[t.request].amount = t.amount
  /\ \A s \in Slots : At(s, "debit") => requests[slots[s].id].status = "approved"

\* The plan a collector is on was recorded as a purchase to that same date, and
\* a purchase made from the wallet has its debit in the ledger, whatever else
\* was written, and wherever the server stopped, in between.
PlanIsPaidFor ==
  /\ \A c \in Collectors : subscription[c].planKey # "free" =>
       \E p \in purchases :
         /\ p.collector = c
         /\ p.planKey = subscription[c].planKey
         /\ p.until = subscription[c].until
  /\ \A p \in purchases : p.method = "wallet" =>
       \E t \in transactions : t.type = "subscription" /\ t.collector = p.collector

\* The ledger by what its entries are for, and who is owed for a referral.
Of(type) == {t \in transactions : t.type = type}

Referred ==
  {c \in Collectors : \E r \in Referrals : referral[r] = [referrer |-> c, status |-> "completed"]}

Books == INSTANCE WalletContract WITH
  earned   <- Of("earning"),
  referred <- Referred,
  rewarded <- Of("referral_bonus"),
  asked    <- requests,
  paid     <- Of("payout"),
  charged  <- Of("subscription"),
  bought   <- purchases,
  plan     <- subscription

\* The handlers, their retries and what the server stops between two writes
\* implement what a collector may rely on: one credit for a pickup, one payout to
\* decide at a time, verdicts that are final, money out once and as approved, no
\* plan that was not bought.
BooksAreKept == Books!BooksSpec

(* The schema says of payout transactions that any number of them coexists     *)
(* (Transaction.js:8-12): the handler that approved a request and goes on to    *)
(* its debit leaves that debit in the ledger.                                   *)
ApprovedIsDebited ==
  [][\A s \in Slots : Debit(s) => \E t \in transactions' : t.request = slots[s].id]_walletVars
=============================================================================
