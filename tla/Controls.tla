------------------------------ MODULE Controls ------------------------------
(***************************************************************************)
(* One pickup as the web client shows it and as the server guards it.  Each *)
(* component of the client is the set of the requests its buttons, forms    *)
(* and effects can send in the state it is shown, nested as the components  *)
(* are; each handler is its guard and what it does to the pickup.  The two  *)
(* are written by hand on both sides of the API, and must agree.            *)
(*                                                                          *)
(* The copy on the screen is the document here (Boards is about stale       *)
(* copies), and every collector is approved, available and not suspended.   *)
(* A crew has two collectors at most: a holder may give the job to another. *)
(***************************************************************************)
EXTENDS FiniteSets

CONSTANTS
  Crew,       \* the collectors
  Customer,   \* the requester of the pickup
  Reasons,    \* the categories of a report, "weight" and "payment" among them
  NoOne       \* no person

ASSUME ControlsAssumption ==
  /\ Customer \notin Crew /\ NoOne \notin Crew \cup {Customer}
  /\ {"weight", "payment"} \subseteq Reasons

VARIABLES
  pickup,    \* the Pickup document
  reports,   \* its open disputes
  rates      \* who has rated it

controlVars == <<pickup, reports, rates>>

Posted ==
  [status |-> "pending", holder |-> NoOne, member |-> NoOne,
   neg |-> "none", party |-> NoOne, last |-> "nobody",
   departed |-> FALSE, ready |-> FALSE,
   weight |-> "none", paid |-> "unpaid"]

ControlInit == pickup = Posted /\ reports = {} /\ rates = {}

Live == {"accepted", "in_progress"}

\* isActor: the collector of the job, or the team member it is assigned to.
IsActor(who) == who \in {pickup.holder, pickup.member} \ {NoOne}

IsParty(who) == who \in {Customer, pickup.holder}

RoleOf(who) == IF who = Customer THEN "requester" ELSE "collector"

\* isPayable: completed, and the weight is not open.
Payable == pickup.status = "completed" /\ pickup.weight \notin {"pending_confirmation", "disputed"}

-----------------------------------------------------------------------------
(* The components of the client.                                            *)

OfferPanel_AnyTurn(role) ==
  IF pickup.status # "pending" THEN {}
  ELSE {"fairPrice"} \cup
       CASE pickup.neg \in {"none", "declined"} -> IF role = "collector" THEN {"propose"} ELSE {}
         [] OTHER -> {"agree", "counter", "decline"}

\* The one who did not make the last offer answers it; a collector opens.
OfferPanel(role) ==
  IF pickup.status # "pending" THEN {}
  ELSE {"fairPrice"} \cup
       CASE pickup.neg \in {"none", "declined"} -> IF role = "collector" THEN {"propose"} ELSE {}
         [] pickup.neg = "pending" /\ pickup.last # role -> {"agree", "counter", "decline"}
         [] OTHER -> {}

SettlementCard ==
  IF pickup.weight = "pending_confirmation" THEN {"confirmWeight", "disputeWeight"} ELSE {}

\* Fetches the pickup for the code, which no other copy of it carries.
StartCodeCard == IF pickup.status = "accepted" THEN {"view"} ELSE {}

PickCollectorModal ==
  IF pickup.status = "pending" /\ pickup.neg \in {"none", "declined"}
  THEN {"nearby", "invite"} ELSE {}

ShareSheet == {"share", "stopSharing"}

SosSheet == {"sos"}

SafetyKit == IF pickup.status \in Live THEN ShareSheet \cup SosSheet ELSE {}

DisputeStatusPanel == {"readReports"}

ReportIssueModal == {"report"}

RatingModal(who) == IF pickup.status = "completed" /\ who \notin rates THEN {"rate"} ELSE {}

RequesterPaymentCard ==
  IF pickup.status # "completed" THEN {}
  ELSE {"readPayment"} \cup
       IF Payable /\ pickup.paid = "claimed" THEN {"confirmPaid", "disputePaid"} ELSE {}

CollectorPayCard_Unsettled ==
  IF pickup.status # "completed" THEN {}
  ELSE {"readPayment"} \cup IF Payable /\ pickup.weight = "none" THEN {"claimPaid"} ELSE {}

CollectorPayCard ==
  IF pickup.status # "completed" THEN {}
  ELSE {"readPayment"} \cup IF Payable /\ pickup.paid = "unpaid" THEN {"claimPaid"} ELSE {}

StartCodeModal == IF pickup.status = "accepted" THEN {"start"} ELSE {}

CompletionPhotoModal == IF pickup.status = "in_progress" THEN {"complete"} ELSE {}

\* ChatBox loads the history and joins the room of the pickup.
ChatBox == {"chat"}

\* The body of the requester's dialog ...
RequestDetails ==
  (IF pickup.status = "accepted" /\ ~pickup.ready THEN {"ready"} ELSE {})
    \cup SafetyKit \cup OfferPanel("requester") \cup PickCollectorModal \cup StartCodeCard
    \cup SettlementCard

\* ... with the cards that need a collector, and its footer.
RequestDetailModal ==
  RequestDetails
    \cup (IF pickup.status \in {"pending", "accepted"} THEN {"cancel"} ELSE {})
    \cup (IF pickup.status = "completed" THEN {"receipt"} ELSE {})
    \cup (IF pickup.holder = NoOne THEN {}
          ELSE DisputeStatusPanel \cup ReportIssueModal \cup RequesterPaymentCard
                 \cup RatingModal(Customer)
                 \cup (IF pickup.status # "cancelled" THEN ChatBox ELSE {}))

\* A card of the list carries some of the same buttons.
MyRequests ==
  (IF pickup.holder # NoOne /\ pickup.status # "cancelled" THEN ChatBox ELSE {})
    \cup (IF pickup.holder # NoOne THEN RatingModal(Customer) ELSE {})
    \cup (IF pickup.status \in {"pending", "accepted"} THEN {"cancel"} ELSE {})
    \cup RequestDetailModal

PickupDetails ==
  (IF pickup.status = "accepted" /\ ~pickup.departed THEN {"headOut"} ELSE {})
    \cup SafetyKit \cup OfferPanel("collector") \cup CollectorPayCard
    \cup (IF pickup.status # "pending" THEN DisputeStatusPanel ELSE {})

PickupDetailModal ==
  PickupDetails
    \cup (IF pickup.status = "completed" THEN {"receipt"} ELSE {})
    \cup (IF pickup.status = "pending" THEN {"accept"} ELSE {})

AvailableTab == IF pickup.status = "pending" THEN {"accept"} \cup PickupDetailModal ELSE {}

\* "My jobs" and "History": the jobs a collector holds or is assigned to.
JobTabs(who) ==
  IF ~IsActor(who) \/ pickup.status = "pending" THEN {}
  ELSE PickupDetailModal \cup ReportIssueModal \cup RatingModal(who)
         \cup (IF pickup.status \in Live THEN ChatBox ELSE {})
         \cup StartCodeModal \cup CompletionPhotoModal

Offered(who) == IF who = Customer THEN MyRequests ELSE AvailableTab \cup JobTabs(who)

\* The disputes tab of the admin panel: a verdict on each open report.
DisputesTab == reports

-----------------------------------------------------------------------------
(* The guards of the handlers, for one who is signed in with the right role. *)

Untaken == pickup.status = "pending" /\ pickup.neg \in {"none", "declined"}

MayAccept(who)   == Untaken
MayPropose(who)  == /\ pickup.status = "pending"
                    /\ (pickup.neg \in {"none", "declined"} \/ pickup.party = who)
MayInvite(who)   == Untaken
MayAnswer(who)   == /\ who \in {Customer, pickup.party}
                    /\ pickup.status = "pending" /\ pickup.neg = "pending" /\ pickup.last # RoleOf(who)
MayCancel(who)   == pickup.status \in {"pending", "accepted"}
MayGetReady(who) == pickup.status = "accepted" \/ pickup.ready
MayHeadOut(who)  == IsActor(who) /\ pickup.status = "accepted"
MayStart(who)    == IsActor(who) /\ pickup.status = "accepted"
MayFinish(who)   == IsActor(who) /\ pickup.status = "in_progress"
MayDecideWeight(who)    == pickup.weight = "pending_confirmation"
MayClaimPaid(who)       == IsActor(who) /\ Payable /\ pickup.paid \in {"unpaid", "claimed"}
MayConfirmPaid(who)     == pickup.paid \in {"claimed", "confirmed"}
MayDisputePaid(who)     == pickup.paid = "claimed"
MayReadPayment(who)     == who = Customer \/ IsActor(who)
MayReport(who)          == IsParty(who) /\ pickup.status # "pending" /\ pickup.holder # NoOne
MayReadReports(who)     == IsParty(who)
MayRate(who)            == IsParty(who) /\ pickup.status = "completed" /\ who \notin rates
MaySeeReceipt(who)      == IsParty(who) /\ pickup.status = "completed"
MayChat(who)            == /\ who = Customer \/ IsActor(who)
                           /\ pickup.status # "pending" /\ pickup.holder # NoOne
MayUseSafetyTools(who)  == (who = Customer \/ IsActor(who)) /\ pickup.status \in Live
MayStopSharing(who)     == who = Customer \/ IsActor(who)
MaySeeNearby(who)       == pickup.status = "pending"
MayView(who)            == who \in {Customer, pickup.party} \/ IsActor(who)
MaySeeFairPrice(who)    == who \in Crew \cup {Customer}

\* What the server answers when somebody sends a request.
Accepts(who, op) ==
  CASE op = "accept" -> MayAccept(who)
    [] op = "propose" -> MayPropose(who)
    [] op = "invite" -> MayInvite(who)
    [] op \in {"agree", "counter", "decline"} -> MayAnswer(who)
    [] op = "cancel" -> MayCancel(who)
    [] op = "ready" -> MayGetReady(who)
    [] op = "headOut" -> MayHeadOut(who)
    [] op = "start" -> MayStart(who)
    [] op = "complete" -> MayFinish(who)
    [] op \in {"confirmWeight", "disputeWeight"} -> MayDecideWeight(who)
    [] op = "claimPaid" -> MayClaimPaid(who)
    [] op = "confirmPaid" -> MayConfirmPaid(who)
    [] op = "disputePaid" -> MayDisputePaid(who)
    [] op = "readPayment" -> MayReadPayment(who)
    [] op = "report" -> MayReport(who)
    [] op = "readReports" -> MayReadReports(who)
    [] op = "rate" -> MayRate(who)
    [] op = "receipt" -> MaySeeReceipt(who)
    [] op = "chat" -> MayChat(who)
    [] op = "view" -> MayView(who)
    [] op \in {"share", "sos"} -> MayUseSafetyTools(who)
    [] op = "stopSharing" -> MayStopSharing(who)
    [] op = "nearby" -> MaySeeNearby(who)
    [] op = "fairPrice" -> MaySeeFairPrice(who)

-----------------------------------------------------------------------------
(* What happens.  A person presses what is on the screen.                   *)

Pressed(who, op) == Accepts(who, op) /\ op \in Offered(who)

Only(change) == pickup' = change /\ UNCHANGED <<reports, rates>>

\* Dispute.create: one open report of each person; a second one is ignored.
Filed(who, reason) ==
  IF \E r \in reports : r.by = who THEN reports
  ELSE reports \cup {[by |-> who, reason |-> reason]}

Accept(who) ==
  Pressed(who, "accept") /\ Only([pickup EXCEPT !.status = "accepted", !.holder = who])

Propose(who) ==
  /\ Pressed(who, "propose")
  /\ Only([pickup EXCEPT !.neg = "pending", !.party = who, !.last = "collector"])

Invite(who) ==
  /\ Pressed(Customer, "invite")
  /\ Only([pickup EXCEPT !.neg = "pending", !.party = who, !.last = "requester"])

Agree(who) ==
  /\ Pressed(who, "agree")
  /\ Only([pickup EXCEPT !.status = "accepted", !.holder = pickup.party, !.neg = "accepted"])

Counter(who) == Pressed(who, "counter") /\ Only([pickup EXCEPT !.last = RoleOf(who)])

Decline(who) ==
  Pressed(who, "decline") /\ Only([pickup EXCEPT !.neg = "declined", !.party = NoOne])

Cancel == Pressed(Customer, "cancel") /\ Only([pickup EXCEPT !.status = "cancelled"])

GetReady == Pressed(Customer, "ready") /\ Only([pickup EXCEPT !.ready = TRUE])

HeadOut(who) == Pressed(who, "headOut") /\ Only([pickup EXCEPT !.departed = TRUE])

Start(who) == Pressed(who, "start") /\ Only([pickup EXCEPT !.status = "in_progress"])

\* The weights are close to the estimate, or the requester has to confirm them.
Complete(who) ==
  /\ Pressed(who, "complete")
  /\ \E weight \in {"auto_confirmed", "pending_confirmation"} :
       Only([pickup EXCEPT !.status = "completed", !.weight = weight])

ConfirmWeight == Pressed(Customer, "confirmWeight") /\ Only([pickup EXCEPT !.weight = "confirmed"])

DisputeWeight ==
  /\ Pressed(Customer, "disputeWeight")
  /\ pickup' = [pickup EXCEPT !.weight = "disputed"]
  /\ reports' = Filed(Customer, "weight")
  /\ UNCHANGED rates

ClaimPaid(who) == Pressed(who, "claimPaid") /\ Only([pickup EXCEPT !.paid = "claimed"])

ConfirmPaid == Pressed(Customer, "confirmPaid") /\ Only([pickup EXCEPT !.paid = "confirmed"])

DisputePaid ==
  /\ Pressed(Customer, "disputePaid")
  /\ pickup' = [pickup EXCEPT !.paid = "disputed"]
  /\ reports' = Filed(Customer, "payment")
  /\ UNCHANGED rates

Report(who, reason) ==
  /\ Pressed(who, "report")
  /\ reports' = Filed(who, reason)
  /\ UNCHANGED <<pickup, rates>>

Rate(who) == Pressed(who, "rate") /\ rates' = rates \cup {who} /\ UNCHANGED <<pickup, reports>>

\* resolveDispute: the verdict closes what the report was about.
Resolve(r, paid) ==
  /\ r \in DisputesTab
  /\ reports' = reports \ {r}
  /\ pickup' = [pickup EXCEPT
       !.weight = IF r.reason = "weight" /\ @ = "disputed" THEN "resolved" ELSE @,
       !.paid = IF r.reason = "payment" /\ @ = "disputed" THEN paid ELSE @]
  /\ UNCHANGED rates

\* The owner of a team hands a job to a member.
Assign(who) ==
  /\ pickup.status \in Live /\ who # pickup.holder
  /\ Only([pickup EXCEPT !.member = who])

\* The jobs of the server.
OfferExpires ==
  /\ pickup.status = "pending" /\ pickup.neg = "pending"
  /\ Only([pickup EXCEPT !.neg = "declined", !.party = NoOne])

AutoConfirms ==
  pickup.weight = "pending_confirmation" /\ Only([pickup EXCEPT !.weight = "confirmed"])

\* reportNoShow, which no component of the client sends.
NoShow ==
  /\ pickup.status = "accepted"
  /\ Only([pickup EXCEPT !.status = "pending", !.holder = NoOne,
                      !.neg = "none", !.party = NoOne, !.last = "nobody"])

ControlNext ==
  \/ \E who \in Crew :
       \/ Accept(who) \/ Propose(who) \/ Invite(who) \/ Assign(who)
       \/ HeadOut(who) \/ Start(who) \/ Complete(who) \/ ClaimPaid(who)
  \/ \E who \in Crew \cup {Customer} :
       \/ Agree(who) \/ Counter(who) \/ Decline(who) \/ Rate(who)
       \/ \E reason \in Reasons : Report(who, reason)
  \/ Cancel \/ GetReady \/ ConfirmWeight \/ DisputeWeight \/ ConfirmPaid \/ DisputePaid
  \/ \E r \in reports, paid \in {"confirmed", "resolved"} : Resolve(r, paid)
  \/ OfferExpires \/ AutoConfirms \/ NoShow

ControlSpec == ControlInit /\ [][ControlNext]_controlVars

-----------------------------------------------------------------------------
(* Properties.                                                              *)

Concerned ==
  ({Customer, pickup.holder}
     \cup (IF pickup.status = "pending" /\ pickup.neg = "pending" THEN {pickup.party} ELSE {}))
    \ {NoOne}

\* What the requester, the collector of a job and the collector of a live
\* negotiation are offered is what the server accepts from them, at every point
\* of the pickup's life: a condition in a component never drifts from the guard
\* behind it.  The one exception is the plain Accept button, which stays beside
\* the answers to an offer.
OfferedIsAccepted ==
  \A who \in Concerned : \A op \in Offered(who) :
    Accepts(who, op) \/ (op = "accept" /\ pickup.neg = "pending")

Finished == pickup.status = "cancelled" \/ pickup.paid \in {"confirmed", "resolved"}

StepsOn == {"accept", "propose", "agree", "counter", "decline", "cancel", "start", "complete",
          "confirmWeight", "disputeWeight", "claimPaid", "confirmPaid", "disputePaid"}

\* Until a pickup is cancelled or paid for, somebody has a control that moves it
\* on: an admin a report to decide, a party of it a step the server accepts, or,
\* when money is disputed, a report that brings it to an admin.
NobodyIsStuck ==
  \/ Finished
  \/ DisputesTab # {}
  \/ \E who \in {Customer} \cup Crew :
       \/ \E op \in StepsOn : Pressed(who, op)
       \/ "disputed" \in {pickup.weight, pickup.paid} /\ Pressed(who, "report")

\* Type invariant of the component.
ControlTypeOK ==
  /\ pickup \in [status : {"pending", "accepted", "in_progress", "completed", "cancelled"},
              holder : Crew \cup {NoOne}, member : Crew \cup {NoOne},
              neg : {"none", "pending", "declined", "accepted"}, party : Crew \cup {NoOne},
              last : {"requester", "collector", "nobody"},
              departed : BOOLEAN, ready : BOOLEAN,
              weight : {"none", "auto_confirmed", "pending_confirmation", "confirmed",
                        "disputed", "resolved"},
              paid : {"unpaid", "claimed", "confirmed", "disputed", "resolved"}]
  /\ reports \subseteq [by : Crew \cup {Customer}, reason : Reasons]
  /\ rates \subseteq Crew \cup {Customer}
=============================================================================
