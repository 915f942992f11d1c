---------------------------- MODULE WalletContract ----------------------------
(***************************************************************************)
(* What a collector may rely on about money in the app: a pickup is         *)
(* credited once and a referral only when it came true; there is one        *)
(* payout to decide at a time and its verdict is final; money leaves the    *)
(* wallet once for an approved payout, as it was asked for; a plan starts   *)
(* only as it was bought, and buying it from the wallet costs money.        *)
(* That the wallet covers what leaves it is not promised: a balance is      *)
(* read before it is spent.  Wallet, the model of the handlers, implements  *)
(* this specification.                                                      *)
(***************************************************************************)
EXTENDS Naturals, Sequences

CONSTANTS Collectors,  \* users with a wallet
          Payouts      \* amounts that may be asked for

VARIABLES earned,    \* the credits for completed pickups
          referred,  \* the collectors with a referral that came true
          rewarded,  \* the bonuses
          asked,     \* the payouts asked for, each with its verdict
          paid,      \* the money that left the wallet for one of them
          charged,   \* the money that left the wallet for a plan
          bought,    \* the plans bought
          plan       \* the plan each collector is on, and until when

moneyIn == <<earned, referred, rewarded>>
moneyOut == <<asked, paid>>
plans == <<charged, bought, plan>>
bookVars == <<moneyIn, moneyOut, plans>>

BooksInit ==
  /\ earned = {} /\ referred = {} /\ rewarded = {}
  /\ asked = << >> /\ paid = {}
  /\ charged = {} /\ bought = {}
  /\ plan = [c \in Collectors |-> [planKey |-> "free", until |-> 0]]

\* One credit for a pickup, to one collector.
Credit ==
  /\ \E t \in earned' : /\ earned' = earned \cup {t}
                        /\ \A u \in earned : u.pickup # t.pickup
  /\ UNCHANGED <<referred, rewarded, moneyOut, plans>>

ComesTrue ==
  /\ \E c \in Collectors : referred' = referred \cup {c}
  /\ UNCHANGED <<earned, rewarded, moneyOut, plans>>

Reward ==
  /\ \E t \in rewarded' : rewarded' = rewarded \cup {t} /\ t.collector \in referred
  /\ UNCHANGED <<earned, referred, moneyOut, plans>>

Undecided(c) == {i \in DOMAIN asked : asked[i].collector = c /\ asked[i].status = "pending"}

Ask ==
  /\ \E c \in Collectors, a \in Payouts :
       /\ Undecided(c) = {}
       /\ asked' = Append(asked, [collector |-> c, amount |-> a, status |-> "pending"])
  /\ UNCHANGED <<moneyIn, paid, plans>>

Decide ==
  /\ \E i \in DOMAIN asked, verdict \in {"approved", "rejected"} :
       /\ asked[i].status = "pending"
       /\ asked' = [asked EXCEPT ![i].status = verdict]
  /\ UNCHANGED <<moneyIn, paid, plans>>

\* Once for an approved payout, to the one who asked and for what was asked.
Pay ==
  /\ \E t \in paid' :
       /\ paid' = paid \cup {t}
       /\ \A u \in paid : u.request # t.request
       /\ t.request \in DOMAIN asked
       /\ asked[t.request].status = "approved"
       /\ asked[t.request].collector = t.collector
       /\ asked[t.request].amount = t.amount
  /\ UNCHANGED <<moneyIn, asked, plans>>

Charge ==
  /\ \E t \in charged' : charged' = charged \cup {t}
  /\ UNCHANGED <<moneyIn, moneyOut, bought, plan>>

\* An admin grants a plan that was paid for outside the app.
Buy ==
  /\ \E p \in bought' :
       /\ bought' = bought \cup {p}
       /\ p.method = "wallet" => \E t \in charged : t.collector = p.collector
  /\ UNCHANGED <<moneyIn, moneyOut, charged, plan>>

StartPlan ==
  /\ \E p \in bought :
       plan' = [plan EXCEPT ![p.collector] = [planKey |-> p.planKey, until |-> p.until]]
  /\ UNCHANGED <<moneyIn, moneyOut, charged, bought>>

BooksNext ==
  Credit \/ ComesTrue \/ Reward \/ Ask \/ Decide \/ Pay \/ Charge \/ Buy \/ StartPlan

BooksSpec == BooksInit /\ [][BooksNext]_bookVars
=============================================================================
