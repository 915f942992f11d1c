---------------------------- MODULE Verification ----------------------------
(***************************************************************************)
(* The ID verification of one collector: submission, review by admins, and  *)
(* the hourly job that marks a lapsed ID as expired and reminds of one that *)
(* is about to lapse.  Every one of them loads the user, changes the        *)
(* verification in memory, and saves it by _id some awaits later.           *)
(***************************************************************************)
EXTENDS Handlers, Integers

CONSTANT MaxSubmissions   \* bound: documents the collector submits

ASSUME VerificationAssumption == MaxSubmissions \in Nat \ {0}

VARIABLES
  kyc,        \* User.collectorVerification: status, its age, whether reminded
  submitted   \* how many submissions were made

kycVars == <<kyc, submitted, slots>>

\* How far an approval is from its expiry date.
Ages == {"none", "fresh", "soon", "lapsed"}

KycInit ==
  /\ kyc = [status |-> "not_submitted", age |-> "none", reminded |-> FALSE]
  /\ submitted = 0
  /\ slots = AllIdle

-----------------------------------------------------------------------------
\* effectiveStatus: an approved ID past its date counts as expired at once.
EffectiveStatus ==
  IF kyc.status = "approved" /\ kyc.age = "lapsed" THEN "expired" ELSE kyc.status

\* submitVerification refuses a submission under review and a valid approval.
Submittable == EffectiveStatus \notin {"pending", "approved"}

\* submitVerification, up to the storage of the document.
SubmissionArrives(s) ==
  /\ Submittable
  /\ submitted < MaxSubmissions
  /\ submitted' = submitted + 1
  /\ Starts(s, [op |-> "submit"])
  /\ UNCHANGED kyc

\* The whole verification is replaced.
SubmissionSaved(s) ==
  /\ At(s, "submit")
  /\ kyc' = [status |-> "pending", age |-> "none", reminded |-> FALSE]
  /\ Ends(s)
  /\ UNCHANGED submitted

\* reviewVerification: a verdict on a pending submission, or the revocation of
\* an approval.
ReviewArrives(s, decision) ==
  /\ kyc.status = (IF decision = "revoke" THEN "approved" ELSE "pending")
  /\ Starts(s, [op |-> "review", decision |-> decision])
  /\ UNCHANGED <<kyc, submitted>>

StatusAfter_Verbatim(decision) == decision

\* The status a verdict leads to.
StatusAfter(decision) == IF decision = "approve" THEN "approved" ELSE "rejected"

ReviewSaved(s) ==
  /\ At(s, "review")
  /\ LET decision == slots[s].decision
         approved == decision = "approve"
     IN kyc' = [status   |-> StatusAfter(decision),
                age      |-> IF approved THEN "fresh" ELSE "none",
                reminded |-> ~approved /\ kyc.reminded]
  /\ Ends(s)
  /\ UNCHANGED submitted

ExpiryFinds_Soon == kyc.status = "approved" /\ kyc.age = "soon"

\* The filter of the job's first query.
ExpiryFinds == kyc.status = "approved" /\ kyc.age = "lapsed"

\* expireVerifications loads the approved users past their date.
ExpiryLoaded(s) ==
  /\ ExpiryFinds
  /\ \A r \in Slots : ~At(r, "expire")
  /\ Starts(s, [op |-> "expire"])
  /\ UNCHANGED <<kyc, submitted>>

\* ... and saves the status of each, by _id.
ExpirySaved(s) ==
  /\ At(s, "expire")
  /\ kyc' = [kyc EXCEPT !.status = "expired"]
  /\ Ends(s)
  /\ UNCHANGED submitted

\* It reminds of the approvals that lapse soon, once each.
ReminderLoaded(s) ==
  /\ kyc.status = "approved" /\ kyc.age = "soon" /\ ~kyc.reminded
  /\ \A r \in Slots : ~At(r, "remind")
  /\ Starts(s, [op |-> "remind"])
  /\ UNCHANGED <<kyc, submitted>>

ReminderSaved(s) ==
  /\ At(s, "remind")
  /\ kyc' = [kyc EXCEPT !.reminded = TRUE]
  /\ Ends(s)
  /\ UNCHANGED submitted

\* The expiry date comes nearer, and passes.
IdAges ==
  /\ kyc.age \in {"fresh", "soon"}
  /\ kyc' = [kyc EXCEPT !.age = IF kyc.age = "fresh" THEN "soon" ELSE "lapsed"]
  /\ UNCHANGED <<submitted, slots>>

KycStep(s) == SubmissionSaved(s) \/ ReviewSaved(s) \/ ExpirySaved(s) \/ ReminderSaved(s)

KycNext ==
  \/ \E s \in Slots :
       \/ SubmissionArrives(s) \/ ExpiryLoaded(s) \/ ReminderLoaded(s) \/ KycStep(s)
       \/ \E decision \in {"approve", "reject", "revoke"} : ReviewArrives(s, decision)
  \/ IdAges

KycSpec == KycInit /\ [][KycNext]_kycVars

\* Handlers finish, and the job runs hourly.
KycFairness ==
  /\ \A s \in Slots : WF_kycVars(KycStep(s))
  /\ SF_kycVars(\E s \in Slots : ExpiryLoaded(s))

-----------------------------------------------------------------------------
(* Properties.                                                              *)

KycTypeOK ==
  /\ kyc \in [status : {"not_submitted", "pending", "approved", "rejected", "expired"},
              age : Ages, reminded : BOOLEAN]
  /\ submitted \in 0..MaxSubmissions
  /\ slots \in [Slots -> {Idle} \cup [op : {"submit", "expire", "remind"}]
       \cup [op : {"review"}, decision : {"approve", "reject", "revoke"}]]

\* The job marks approvals that have lapsed: a submission under review stays
\* there until an admin decides on it.  Refuted: the job saves what it found
\* before the ID was submitted again.
SubmissionStaysInReview ==
  [][kyc.status = "pending" /\ kyc'.status # "pending" =>
       \E s \in Slots : At(s, "review")]_kycVars

\* An ID that has lapsed does not stay stored as approved, so that queries on
\* the stored status do not keep finding a collector who may not work.
LapsedIsMarked ==
  (kyc.status = "approved" /\ kyc.age = "lapsed")
    ~> ~(kyc.status = "approved" /\ kyc.age = "lapsed")
=============================================================================
