------------------------------- MODULE Notices -------------------------------
(***************************************************************************)
(* The one-off notices about a pickup: the reminder before its window, the  *)
(* notice that the window was missed, the two payment reminders, and the    *)
(* collector's "almost there".  Jobs find the pickups a notice is due for,  *)
(* then claim the pickup's marker with a conditional update, and only who   *)
(* claimed it notifies.  Runs of a job overlap when one is slow, and        *)
(* location updates arrive together.                                        *)
(***************************************************************************)
EXTENDS Handlers, Integers

CONSTANTS
  Holders,   \* collectors who may hold the pickup
  NoHolder     \* no collector: the pickup is pending

ASSUME NoticesAssumption == NoHolder \notin Holders

VARIABLES
  visit,   \* the Pickup document: status, holder, onTheWay, pay
  window,  \* where the clock is: "early", "soon" (the last hour), "past" the window
  marks,   \* markers that are set: tracking.*At and payment.*RemindedAt
  sent     \* history: how often each notice was sent

noticeDocs == <<visit, window, marks, sent>>
noticeVars == <<visit, window, marks, sent, slots>>

NoticeKinds == {"reminder", "missed", "arriving", "collector pays", "requester confirms"}

NoticeInit ==
  /\ visit = [status |-> "pending", holder |-> NoHolder, onTheWay |-> FALSE, pay |-> "unpaid"]
  /\ window = "early"
  /\ marks = {}
  /\ sent = [k \in NoticeKinds |-> 0]
  /\ slots = AllIdle

-----------------------------------------------------------------------------
\* What the find of the job asks for; a location update looks at the status only.
IsDue(k) ==
  /\ k # "arriving" => k \notin marks
  /\ CASE k = "reminder"           -> visit.status = "accepted" /\ window = "soon"
       [] k = "missed"             -> visit.status = "accepted" /\ window = "past" /\ ~visit.onTheWay
       [] k = "arriving"           -> visit.status = "accepted"
       [] k = "collector pays"     -> visit.status = "completed" /\ visit.pay = "unpaid"
       [] k = "requester confirms" -> visit.pay = "claimed"

\* A run of a job finds the pickup, or a position near it comes in.
NoticeFound(s, k) ==
  /\ IsDue(k)
  /\ Starts(s, [op |-> "claim", kind |-> k])
  /\ UNCHANGED noticeDocs

ClaimMatches_AsFound(s) == TRUE

\* The filter of the claim: the marker is still not set.
ClaimMatches(s) == slots[s].kind \notin marks

\* findOneAndUpdate, and the notice.
NoticeClaimed(s) ==
  /\ At(s, "claim")
  /\ IF ClaimMatches(s)
     THEN /\ marks' = marks \cup {slots[s].kind}
          /\ sent' = [sent EXCEPT ![slots[s].kind] = @ + 1]
     ELSE UNCHANGED <<marks, sent>>
  /\ Ends(s)
  /\ UNCHANGED <<visit, window>>

-----------------------------------------------------------------------------
\* The handlers of the pickup, as far as the notices see them.
JobAccepted(c) ==
  /\ visit.status = "pending"
  /\ visit' = [visit EXCEPT !.status = "accepted", !.holder = c]
  /\ UNCHANGED <<window, marks, sent, slots>>

SetsOff ==
  /\ visit.status = "accepted"
  /\ visit' = [visit EXCEPT !.onTheWay = TRUE]
  /\ UNCHANGED <<window, marks, sent, slots>>

\* reportNoShow resets neither the markers nor the departure.
JobReopened ==
  /\ visit.status = "accepted"
  /\ visit' = [visit EXCEPT !.status = "pending", !.holder = NoHolder]
  /\ UNCHANGED <<window, marks, sent, slots>>

JobCompleted ==
  /\ visit.status = "accepted"
  /\ visit' = [visit EXCEPT !.status = "completed"]
  /\ UNCHANGED <<window, marks, sent, slots>>

PaymentClaimed ==
  /\ visit.status = "completed" /\ visit.pay = "unpaid"
  /\ visit' = [visit EXCEPT !.pay = "claimed"]
  /\ UNCHANGED <<window, marks, sent, slots>>

PaymentConfirmed ==
  /\ visit.pay = "claimed"
  /\ visit' = [visit EXCEPT !.pay = "confirmed"]
  /\ UNCHANGED <<window, marks, sent, slots>>

WindowMoves ==
  /\ window' = CASE window = "early" -> "soon" [] window = "soon" -> "past" [] OTHER -> window
  /\ window # "past"
  /\ UNCHANGED <<visit, marks, sent, slots>>

NoticesStop == Restarts /\ UNCHANGED noticeDocs

NoticeNext ==
  \/ \E s \in Slots : NoticeClaimed(s) \/ \E k \in NoticeKinds : NoticeFound(s, k)
  \/ \E c \in Holders : JobAccepted(c)
  \/ SetsOff \/ JobReopened \/ JobCompleted \/ PaymentClaimed \/ PaymentConfirmed
  \/ WindowMoves \/ NoticesStop

NoticeSpec == NoticeInit /\ [][NoticeNext]_noticeVars

-----------------------------------------------------------------------------
NoticeTypeOK ==
  /\ visit \in [status : {"pending", "accepted", "completed"}, holder : Holders \cup {NoHolder},
                onTheWay : BOOLEAN, pay : {"unpaid", "claimed", "confirmed"}]
  /\ visit.holder = NoHolder <=> visit.status = "pending"
  /\ window \in {"early", "soon", "past"}
  /\ marks \subseteq NoticeKinds
  /\ sent \in [NoticeKinds -> Nat]
  /\ slots \in [Slots -> {Idle} \cup [op : {"claim"}, kind : NoticeKinds]]

(* Every notice about a pickup goes out at most once, although runs of a job     *)
(* overlap and positions arrive together (slotReminders.js:8-12,                 *)
(* paymentReminders.js:7-9, setupSocket.js:165-181).                             *)
NotifiedOnce == \A k \in NoticeKinds : sent[k] <= 1
=============================================================================
