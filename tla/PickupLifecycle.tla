--------------------------- MODULE PickupLifecycle ---------------------------
(***************************************************************************)
(* The life of one pickup on the server: matching (direct accepts, offers,  *)
(* invitations and the negotiation they open), fulfilment (departure, team  *)
(* assignment, start code, completion), cancellation, the no-show path and  *)
(* the two cron jobs that watch it.                                         *)
(*                                                                          *)
(* A request handler of the server is asynchronous: what it reads before an *)
(* await may have changed when its write reaches MongoDB.  A handler is     *)
(* therefore two steps.  Its arrival does the reads and the early returns,  *)
(* and leaves what the rest of the handler goes on using in a slot.  Its    *)
(* write is one atomic update of one document: it happens if the filter     *)
(* of the update still matches, and otherwise the handler answers 4xx and   *)
(* changes nothing.  A handler whose only access is one filtered update is  *)
(* one step.  Authentication re-reads the account on every request          *)
(* (middleware/auth.js), so a deleted account sends nothing more, while     *)
(* what it sent earlier goes on running.                                    *)
(***************************************************************************)
EXTENDS Integers, FiniteSets

CONSTANTS
  Collectors,   \* users with role "collector"
  Requester,    \* the user who owns the pickup
  NoOne,        \* a null user reference
  Amounts,      \* prices that may be listed or offered
  ListPrice,    \* the estimate createPickup lists the load at
  Crews,        \* the active team members each collector may start out with
  Slots,        \* concurrent executions of request handlers
  Workload,     \* the kinds of request the users send
  MaxOffers,    \* bound: offers pushed onto one negotiation
  MaxNoShows,   \* bound: no-shows reported against one collector
  NoShowLimit,  \* NO_SHOW_SUSPENSION_THRESHOLD
  OtpLimit      \* OTP_MAX_ATTEMPTS

Jobs == {"expire job", "stall job"}

Requests ==
  {"create", "accept", "offer", "invite", "decline", "counter", "agree", "cancel",
   "departure", "ready", "start", "miscode", "complete", "assign", "unassign", "release",
   "no-show", "suspend", "withdraw", "erase", "standing", "rate", "reinstate", "crash"}

Operations == {"idle", "expire", "stall"} \cup Requests

ASSUME PeopleAssumption ==
  /\ Requester \notin Collectors
  /\ NoOne \notin Collectors \cup {Requester}
  /\ Crews \subseteq [Collectors -> SUBSET Collectors]
  /\ Slots \cap Jobs = {}

ASSUME SlotsAssumption == IsFiniteSet(Slots)

ASSUME AmountAssumption == Amounts \subseteq Nat /\ ListPrice \in Amounts

ASSUME BoundAssumption ==
  /\ MaxOffers \in Nat
  /\ MaxNoShows \in Nat
  /\ NoShowLimit \in Nat \ {0}
  /\ OtpLimit \in Nat \ {0}

People == Collectors \cup {Requester}
Anyone == Collectors \cup {NoOne}

VARIABLES
  pickup,       \* the Pickup document but for the three records below
  negotiation,  \* its negotiation: the live offer and how many were pushed
  handshake,    \* its start-code bookkeeping
  tracking,     \* its arrival tracking; a time is "no", "recent" or "past"
  clock,        \* which deadlines of the cron jobs have been passed
  members,      \* Team: the active members of each owner's team
  standing,     \* User: what decides whether a collector gets work
  gone,         \* users who deleted their accounts
  slots,        \* the handlers that are running, with what they have read
  setOff,       \* history: whether the crew now holding the job has set off
  stalls        \* history: stalls the job has recorded for each collector

world == <<pickup, negotiation, handshake, tracking, clock, members, standing,
           gone, setOff, stalls>>
vars  == <<pickup, negotiation, handshake, tracking, clock, members, standing,
           gone, slots, setOff, stalls>>

Times == {"no", "recent", "past"}

\* The crew has not set off; did so at the time in tracking.onTheWay; did so at
\* another, recent time; did so long ago.
Departures == {"no", "recorded", "unrecorded", "past"}

\* It set off less than STALLED_PICKUP_MINUTES ago.
JustSetOff ==
  setOff = "unrecorded" \/ (setOff = "recorded" /\ tracking.onTheWay = "recent")

Idle == [op |-> "idle", by |-> NoOne, arg |-> NoOne, n |-> 0]

NoNegotiation ==
  [status |-> "none", collector |-> NoOne, lastBy |-> "nobody",
   lastAmount |-> ListPrice, count |-> 0]

Init ==
  /\ pickup = [status |-> "absent", collector |-> NoOne, price |-> ListPrice,
               assignedTo |-> NoOne, isStalled |-> FALSE, weighed |-> FALSE]
  /\ negotiation = NoNegotiation
  /\ handshake = [verified |-> FALSE, failedAttempts |-> 0, locked |-> FALSE]
  /\ tracking = [onTheWay |-> "no", ready |-> FALSE]
  /\ clock = [waited |-> FALSE, offerOld |-> FALSE]
  /\ members \in Crews
  /\ standing = [c \in Collectors |->
                  [verified |-> TRUE, available |-> TRUE, suspended |-> FALSE,
                   noShows |-> 0]]
  /\ gone = {}
  /\ slots = [s \in Slots \cup Jobs |-> Idle]
  /\ setOff = "no"
  /\ stalls = [c \in Collectors |-> 0]

-----------------------------------------------------------------------------
(* Conditions the handlers test.                                           *)

\* (A mutant of a definition stands before it, named for the bug it plants.)
OpenToAll_OfferIgnored == pickup.status = "pending"

\* The filter of acceptPickup, batchAcceptPickups and inviteCollector.
OpenToAll ==
  /\ pickup.status = "pending"
  /\ negotiation.status \in {"none", "declined"}

InProgress == pickup.status \in {"accepted", "in_progress"}

\* teamAccess.actorFilter: the owner of the job or the member it is assigned to.
IsActor(u) == u \in {pickup.collector, pickup.assignedTo}

EligibleToAccept(c) ==
  standing[c].verified /\ ~standing[c].suspended /\ standing[c].available

\* "requester" or "collector": the side of the negotiation a user is on.
RoleOf(u) == IF u = Requester THEN "requester" ELSE "collector"

MayRespond_AnsweredToo(u) ==
  /\ u \in {Requester, negotiation.collector}
  /\ pickup.status = "pending"
  /\ negotiation.lastBy # RoleOf(u)

\* What respondToOffer checks before it looks at the action.
MayRespond(u) ==
  /\ u \in {Requester, negotiation.collector}
  /\ pickup.status = "pending"
  /\ negotiation.status = "pending"
  /\ negotiation.lastBy # RoleOf(u)

\* Running handlers of one kind.
InFlight(ops) == {s \in Slots \cup Jobs : slots[s].op \in ops}

\* Bound: the offers array stays within MaxOffers whatever is in flight.
RoomForAnOffer ==
  negotiation.count + Cardinality(InFlight({"offer", "invite", "counter"})) < MaxOffers

OpenToOffersOf_Anyone(c) == pickup.status = "pending"

\* The filter of proposeOffer: no other collector is negotiating.
OpenToOffersOf(c) ==
  /\ pickup.status = "pending"
  /\ negotiation.status \in {"none", "declined"} \/ negotiation.collector = c

\* The filters of respondToOffer: of its decline and counter, and of its accept.
StillNegotiating == negotiation.status = "pending"
StillAgreeable_OfferOnly == negotiation.status = "pending"
StillAgreeable == pickup.status = "pending" /\ StillNegotiating

MayComplete_NotStarted(u) == InProgress /\ IsActor(u)

\* The filters of updateStatus, for validFrom of in_progress and of completed.
MayStart(u)    == pickup.status = "accepted" /\ IsActor(u)
MayComplete(u) == pickup.status = "in_progress" /\ IsActor(u)

\* What must still match when the handler r writes; an update by _id alone
\* always applies.
Filter(r) ==
  CASE r.op = "create"               -> pickup.status = "absent"
    [] r.op \in {"accept", "invite"} -> OpenToAll
    [] r.op = "offer"                -> OpenToOffersOf(r.by)
    [] r.op \in {"decline", "counter", "expire"} -> StillNegotiating
    [] r.op = "agree"                -> StillAgreeable
    [] r.op = "start"                -> MayStart(r.by)
    [] r.op = "complete"             -> MayComplete(r.by)
    [] r.op = "assign"               -> InProgress /\ pickup.collector = r.by
    [] r.op = "release"              -> InProgress /\ pickup.collector = r.by
                                                   /\ pickup.assignedTo = r.arg
    [] OTHER                         -> TRUE

-----------------------------------------------------------------------------
(* Arrivals, and the write steps they lead to.                             *)

\* A request of kind op reaches the server: slot s keeps what was read.
Arrive(s, op, by, arg, n) ==
  /\ op \in Workload
  /\ s \in Slots
  /\ slots[s] = Idle
  /\ by \notin gone
  /\ slots' = [slots EXCEPT ![s] = [op |-> op, by |-> by, arg |-> arg, n |-> n]]

\* The handler in slot s, of kind op, applies its update and ends.
Applies(s, op) ==
  /\ slots[s].op = op
  /\ Filter(slots[s])
  /\ slots' = [slots EXCEPT ![s] = Idle]

\* The filter no longer matches: the handler answers 4xx (or the job goes on
\* to its next document) without a change.
NoMatch(s) ==
  /\ ~Filter(slots[s])
  /\ slots' = [slots EXCEPT ![s] = Idle]
  /\ UNCHANGED world

\* A request whose only access is one filtered update.
AtOnce(op, by) == op \in Workload /\ by \notin gone /\ UNCHANGED slots

-----------------------------------------------------------------------------
(* Matching.                                                               *)

\* createPickup: the coupon lookup, then the insert.
CreateArrives(s) == Arrive(s, "create", Requester, NoOne, 0) /\ UNCHANGED world

CreateApplies(s) ==
  /\ Applies(s, "create")
  /\ pickup' = [pickup EXCEPT !.status = "pending"]
  /\ UNCHANGED <<negotiation, handshake, tracking, clock, members, standing,
                 gone, setOff, stalls>>

\* acceptPickup, and batchAcceptPickups for this one of its ids: the account
\* is read first, the update goes by the pickup alone.
AcceptArrives(s, c) ==
  /\ EligibleToAccept(c)
  /\ Arrive(s, "accept", c, NoOne, 0)
  /\ UNCHANGED world

\* The job is c's from now on: a new "accepted" entry in statusHistory.
TakeOver(c, price) ==
  /\ pickup' = [pickup EXCEPT !.status = "accepted", !.collector = c, !.price = price]
  /\ clock' = [clock EXCEPT !.waited = FALSE]
  /\ setOff' = "no"

AcceptApplies(s) ==
  /\ Applies(s, "accept")
  /\ TakeOver(slots[s].by, pickup.price)
  /\ UNCHANGED <<negotiation, handshake, tracking, members, standing, gone, stalls>>

\* An offer of amount n by one side is pushed; the turn passes to the other.
Push(side, n, neg) ==
  /\ negotiation' = [neg EXCEPT !.lastBy = side, !.lastAmount = n, !.count = @ + 1]
  /\ clock' = [clock EXCEPT !.offerOld = FALSE]
  /\ UNCHANGED <<pickup, handshake, tracking, members, standing, gone, setOff, stalls>>

Negotiating(c) == [negotiation EXCEPT !.status = "pending", !.collector = c]

OfferArrives(s, c, n) ==
  /\ standing[c].verified
  /\ RoomForAnOffer
  /\ Arrive(s, "offer", c, c, n)
  /\ UNCHANGED world

OfferApplies(s) ==
  Applies(s, "offer") /\ Push("collector", slots[s].n, Negotiating(slots[s].by))

\* The requester may invite at any amount, the listed price by default.
InviteArrives(s, c, n) ==
  /\ pickup.status # "absent"
  /\ standing[c].verified /\ ~standing[c].suspended
  /\ RoomForAnOffer
  /\ Arrive(s, "invite", Requester, c, n)
  /\ UNCHANGED world

InviteApplies(s) ==
  Applies(s, "invite") /\ Push("requester", slots[s].n, Negotiating(slots[s].arg))

\* respondToOffer: what it accepts later on is the collector and the amount
\* read here.
DeclineArrives(s, u) ==
  MayRespond(u) /\ Arrive(s, "decline", u, NoOne, 0) /\ UNCHANGED world

CounterArrives(s, u, n) ==
  /\ MayRespond(u)
  /\ RoomForAnOffer
  /\ Arrive(s, "counter", u, NoOne, n)
  /\ UNCHANGED world

AgreeArrives(s, u) ==
  /\ MayRespond(u)
  /\ Arrive(s, "agree", u, negotiation.collector, negotiation.lastAmount)
  /\ UNCHANGED world

NegotiationDies_StillPending ==
  /\ negotiation' = [negotiation EXCEPT !.collector = NoOne]
  /\ UNCHANGED <<pickup, handshake, tracking, clock, members, standing, gone,
                 setOff, stalls>>

\* By a decline, or by the expiry job.
NegotiationDies ==
  /\ negotiation' = [negotiation EXCEPT !.status = "declined", !.collector = NoOne]
  /\ UNCHANGED <<pickup, handshake, tracking, clock, members, standing, gone,
                 setOff, stalls>>

DeclineApplies(s) == Applies(s, "decline") /\ NegotiationDies

CounterApplies(s) ==
  Applies(s, "counter") /\ Push(RoleOf(slots[s].by), slots[s].n, negotiation)

AgreeApplies(s) ==
  /\ Applies(s, "agree")
  /\ TakeOver(slots[s].arg, slots[s].n)
  /\ negotiation' = [negotiation EXCEPT !.status = "accepted"]
  /\ UNCHANGED <<handshake, tracking, members, standing, gone, stalls>>

Unanswered_Fresh ==
  pickup.status = "pending" /\ negotiation.status = "pending" /\ ~clock.offerOld

\* What the expiry job looks for: the last offer is STALE_NEGOTIATION_HOURS old.
Unanswered ==
  pickup.status = "pending" /\ negotiation.status = "pending" /\ clock.offerOld

\* expireStaleNegotiations, one run at a time: it looks at the last offer,
\* then writes on negotiation.status alone.
ExpireJobFinds ==
  /\ slots["expire job"] = Idle
  /\ Unanswered
  /\ slots' = [slots EXCEPT !["expire job"] =
                 [op |-> "expire", by |-> NoOne, arg |-> NoOne, n |-> 0]]
  /\ UNCHANGED world

ExpireJobApplies == Applies("expire job", "expire") /\ NegotiationDies

-----------------------------------------------------------------------------
(* Fulfilment.                                                             *)

FirstPress_Every == 1

\* Only the first press of all writes onTheWayAt.
FirstPress == IF tracking.onTheWay = "no" THEN 1 ELSE 0

\* markOnTheWay reads the pickup and writes by _id alone.
SetOffArrives(s, u) ==
  /\ pickup.status = "accepted"
  /\ IsActor(u)
  /\ Arrive(s, "departure", u, NoOne, FirstPress)
  /\ UNCHANGED world

SetOffApplies(s) ==
  /\ Applies(s, "departure")
  /\ tracking' = [tracking EXCEPT !.onTheWay = IF slots[s].n = 1 THEN "recent" ELSE @]
  /\ setOff' = IF pickup.status = "accepted" /\ IsActor(slots[s].by) /\ setOff = "no"
               THEN IF slots[s].n = 1 THEN "recorded" ELSE "unrecorded"
               ELSE setOff
  /\ UNCHANGED <<pickup, negotiation, handshake, clock, members, standing, gone, stalls>>

MarkReady ==
  /\ AtOnce("ready", Requester)
  /\ pickup.status = "accepted"
  /\ ~tracking.ready
  /\ tracking' = [tracking EXCEPT !.ready = TRUE]
  /\ UNCHANGED <<pickup, negotiation, handshake, clock, members, standing, gone,
                 setOff, stalls>>

\* updateStatus to in_progress, the code checked against the collector of the
\* pickup as it is read; when u is no actor of an accepted pickup yet, no code
\* is checked and everything is left to the filter of the update.
StartArrives(s, u) ==
  /\ IF MayStart(u)
     THEN ~handshake.locked /\ Arrive(s, "start", u, pickup.collector, 0)
     ELSE Arrive(s, "start", u, NoOne, 0)
  /\ UNCHANGED world

StartApplies(s) ==
  /\ Applies(s, "start")
  /\ pickup' = [pickup EXCEPT !.status = "in_progress"]
  /\ handshake' = IF slots[s].arg = NoOne THEN handshake
                  ELSE [verified |-> TRUE, failedAttempts |-> 0, locked |-> FALSE]
  /\ UNCHANGED <<negotiation, tracking, clock, members, standing, gone, setOff, stalls>>

Locks_OneTooLate(n) == n > OtpLimit
Locks(n) == n >= OtpLimit

\* A wrong code: the count is written from what was read.
WrongCodeArrives(s, u) ==
  /\ MayStart(u)
  /\ ~handshake.locked
  /\ Arrive(s, "miscode", u, NoOne, handshake.failedAttempts + 1)
  /\ UNCHANGED world

WrongCodeApplies(s) ==
  /\ Applies(s, "miscode")
  /\ handshake' = [handshake EXCEPT
                     !.failedAttempts = IF Locks(slots[s].n) THEN 0 ELSE slots[s].n,
                     !.locked = Locks(slots[s].n)]
  /\ UNCHANGED <<pickup, negotiation, tracking, clock, members, standing, gone,
                 setOff, stalls>>

\* updateStatus to completed; the load is weighed against the pickup that was
\* read, if one was (arg).
CompleteArrives(s, u) ==
  /\ Arrive(s, "complete", u,
            IF MayComplete(u) THEN pickup.collector ELSE NoOne, 0)
  /\ UNCHANGED world

CompleteApplies(s) ==
  /\ Applies(s, "complete")
  /\ pickup' = [pickup EXCEPT !.status = "completed", !.weighed = slots[s].arg # NoOne]
  /\ UNCHANGED <<negotiation, handshake, tracking, clock, members, standing, gone,
                 setOff, stalls>>

\* teamController.assign: the team is read, then the pickup updated.
AssignArrives(s, owner, m) ==
  /\ m \in members[owner]
  /\ standing[m].verified
  /\ Arrive(s, "assign", owner, m, 0)
  /\ UNCHANGED world

Assigned(m) ==
  /\ pickup' = [pickup EXCEPT !.assignedTo = m]
  /\ UNCHANGED <<negotiation, handshake, tracking, clock, members, standing, gone,
                 setOff, stalls>>

AssignApplies(s) == Applies(s, "assign") /\ Assigned(slots[s].arg)

\* assign without a member: the owner takes the job back.  Whoever is in nobody
\* else's team may own one.
Unassign(owner) ==
  /\ AtOnce("unassign", owner)
  /\ \A o \in Collectors : owner \notin members[o]
  /\ InProgress
  /\ pickup.collector = owner
  /\ Assigned(NoOne)

\* removeMember and leave: the team is saved first, then the jobs are updated.
MemberGoes(s, owner, m) ==
  /\ "release" \in Workload
  /\ {owner, m} \ gone # {}
  /\ m \in members[owner]
  /\ s \in Slots
  /\ slots[s] = Idle
  /\ slots' = [slots EXCEPT ![s] = [op |-> "release", by |-> owner, arg |-> m, n |-> 0]]
  /\ members' = [members EXCEPT ![owner] = @ \ {m}]
  /\ UNCHANGED <<pickup, negotiation, handshake, tracking, clock, standing, gone,
                 setOff, stalls>>

ReleaseApplies(s) == Applies(s, "release") /\ Assigned(NoOne)

-----------------------------------------------------------------------------
(* Ways out: cancellation, the no-show path, deleted accounts.             *)

Cancelled ==
  /\ pickup' = [pickup EXCEPT !.status = "cancelled"]
  /\ UNCHANGED <<negotiation, handshake, tracking, clock, members, standing, setOff, stalls>>

CancelByRequester ==
  /\ AtOnce("cancel", Requester)
  /\ pickup.status \in {"pending", "accepted"}
  /\ Cancelled
  /\ UNCHANGED gone

\* updateStatus to cancelled.
CancelByCrew(u) ==
  /\ AtOnce("cancel", u)
  /\ InProgress
  /\ IsActor(u)
  /\ Cancelled
  /\ UNCHANGED gone

\* escalateStalledPickups, one run at a time: its candidates are filtered in
\* memory and then saved by _id, whatever they have become.
StallJobFinds ==
  /\ slots["stall job"] = Idle
  /\ pickup.status = "accepted"
  /\ ~pickup.isStalled
  /\ clock.waited
  /\ tracking.onTheWay # "recent"
  /\ slots' = [slots EXCEPT !["stall job"] =
                 [op |-> "stall", by |-> NoOne, arg |-> NoOne, n |-> 0]]
  /\ UNCHANGED world

StallJobApplies ==
  /\ Applies("stall job", "stall")
  /\ pickup' = [pickup EXCEPT !.isStalled = TRUE]
  /\ stalls' = [c \in Collectors |->
                  stalls[c] + IF c = pickup.collector /\ ~pickup.isStalled THEN 1 ELSE 0]
  /\ UNCHANGED <<negotiation, handshake, tracking, clock, members, standing, gone, setOff>>

Reportable_NotStalled == pickup.status = "accepted"
Reportable == pickup.status = "accepted" /\ pickup.isStalled

Reopened_StillStalled == [pickup EXCEPT !.status = "pending", !.collector = NoOne]
Reopened_StillHeld    == [pickup EXCEPT !.status = "pending", !.isStalled = FALSE]
Reopened == [pickup EXCEPT !.status = "pending", !.collector = NoOne, !.isStalled = FALSE]

\* reportNoShow reopens the pickup in one atomic update, which hands back the
\* collector it had; the rest of the handler records the no-show.
ReportNoShow(s) ==
  /\ Reportable
  /\ stalls[pickup.collector] <= MaxNoShows
  /\ Arrive(s, "no-show", Requester, pickup.collector, 0)
  /\ pickup' = Reopened
  /\ negotiation' = NoNegotiation
  /\ UNCHANGED <<handshake, tracking, clock, members, standing, gone, setOff, stalls>>

\* An atomic increment; the account it returns decides whether to suspend.
CountNoShow(s) ==
  LET c    == slots[s].arg
      user == [standing[c] EXCEPT !.noShows = @ + 1]
  IN  /\ slots[s].op = "no-show"
      /\ standing' = [standing EXCEPT ![c] = user]
      /\ slots' = [slots EXCEPT ![s] =
                     IF ~user.suspended /\ user.noShows >= NoShowLimit
                     THEN [@ EXCEPT !.op = "suspend"] ELSE Idle]
      /\ UNCHANGED <<pickup, negotiation, handshake, tracking, clock, members, gone,
                     setOff, stalls>>

Suspend(s) ==
  /\ Applies(s, "suspend")
  /\ standing' = [standing EXCEPT ![slots[s].arg].suspended = TRUE]
  /\ UNCHANGED <<pickup, negotiation, handshake, tracking, clock, members, gone,
                 setOff, stalls>>

\* deleteAccount of the requester: the open pickups are found, each is saved
\* as cancelled by _id, and the account is saved last.
WithdrawArrives(s) ==
  /\ Arrive(s, "withdraw", Requester, NoOne,
            IF pickup.status \in {"pending", "accepted"} THEN 1 ELSE 0)
  /\ UNCHANGED world

WithdrawApplies(s) ==
  /\ slots[s].op = "withdraw"
  /\ slots' = [slots EXCEPT ![s].op = "erase"]
  /\ IF slots[s].n = 1 THEN Cancelled
     ELSE UNCHANGED <<pickup, negotiation, handshake, tracking, clock, members,
                      standing, setOff, stalls>>
  /\ UNCHANGED gone

\* deleteAccount of a collector, refused during an active job.
EraseArrives(s, c) ==
  /\ ~(InProgress /\ pickup.collector = c)
  /\ Arrive(s, "erase", c, NoOne, 0)
  /\ UNCHANGED world

EraseApplies(s) ==
  /\ Applies(s, "erase")
  /\ gone' = gone \cup {slots[s].by}
  /\ UNCHANGED <<pickup, negotiation, handshake, tracking, clock, members, standing,
                 setOff, stalls>>

-----------------------------------------------------------------------------
(* The accounts of the collectors, the passing of time, a server restart.  *)

AccountChanges(op, c, user) ==
  /\ op \in Workload
  /\ standing' = [standing EXCEPT ![c] = user]
  /\ UNCHANGED <<pickup, negotiation, handshake, tracking, clock, members, gone, slots,
                 setOff, stalls>>

\* An ID is approved, rejected or expires; availability is paused or resumed.
StandingChanges(c) ==
  \E v, a \in BOOLEAN :
    AccountChanges("standing", c, [standing[c] EXCEPT !.verified = v, !.available = a])

\* submitRating for another pickup brings the average below the threshold.
RatedDown(c) == AccountChanges("rate", c, [standing[c] EXCEPT !.suspended = TRUE])

\* reinstateCollector leaves noShowCount as it is.
Reinstate(c) ==
  /\ standing[c].suspended
  /\ AccountChanges("reinstate", c, [standing[c] EXCEPT !.suspended = FALSE])

TimePasses ==
  UNCHANGED <<pickup, negotiation, members, standing, gone, slots, stalls>>

\* STALE_NEGOTIATION_HOURS since the last offer.
AgeOffer ==
  /\ negotiation.status = "pending"
  /\ ~clock.offerOld
  /\ clock' = [clock EXCEPT !.offerOld = TRUE]
  /\ UNCHANGED <<handshake, tracking, setOff>>
  /\ TimePasses

\* STALLED_PICKUP_MINUTES since the latest acceptance and the slot's start.
AgeAcceptance ==
  /\ pickup.status = "accepted"
  /\ ~clock.waited
  /\ clock' = [clock EXCEPT !.waited = TRUE]
  /\ UNCHANGED <<handshake, tracking, setOff>>
  /\ TimePasses

\* STALLED_PICKUP_MINUTES since onTheWayAt, which comes before any departure it
\* does not record.
AgeTracking ==
  /\ tracking.onTheWay = "recent"
  /\ tracking' = [tracking EXCEPT !.onTheWay = "past"]
  /\ UNCHANGED <<handshake, clock, setOff>>
  /\ TimePasses

AgeDeparture ==
  /\ setOff = "unrecorded"
  /\ tracking.onTheWay = "past"
  /\ setOff' = "past"
  /\ UNCHANGED <<handshake, tracking, clock>>
  /\ TimePasses

\* OTP_LOCK_MINUTES since the lock.
LockLapses ==
  /\ handshake.locked
  /\ handshake' = [handshake EXCEPT !.locked = FALSE]
  /\ UNCHANGED <<tracking, clock, setOff>>
  /\ TimePasses

\* Every running handler is lost; the database stays.
Crash ==
  /\ "crash" \in Workload
  /\ slots' = [s \in Slots \cup Jobs |-> Idle]
  /\ UNCHANGED world

-----------------------------------------------------------------------------
ServerRuns(s) ==
  \/ CreateApplies(s) \/ AcceptApplies(s) \/ OfferApplies(s) \/ InviteApplies(s)
  \/ DeclineApplies(s) \/ CounterApplies(s) \/ AgreeApplies(s)
  \/ SetOffApplies(s) \/ StartApplies(s) \/ WrongCodeApplies(s) \/ CompleteApplies(s)
  \/ AssignApplies(s) \/ ReleaseApplies(s)
  \/ CountNoShow(s) \/ Suspend(s) \/ WithdrawApplies(s) \/ EraseApplies(s)
  \/ NoMatch(s)

RequesterAsks(s) ==
  \/ CreateArrives(s) \/ ReportNoShow(s) \/ WithdrawArrives(s)
  \/ DeclineArrives(s, Requester) \/ AgreeArrives(s, Requester)
  \/ \E n \in Amounts : CounterArrives(s, Requester, n)
  \/ \E n \in Amounts, c \in Collectors : InviteArrives(s, c, n)

CollectorAsks(s, c) ==
  \/ AcceptArrives(s, c) \/ DeclineArrives(s, c) \/ AgreeArrives(s, c)
  \/ SetOffArrives(s, c) \/ StartArrives(s, c) \/ WrongCodeArrives(s, c)
  \/ CompleteArrives(s, c) \/ EraseArrives(s, c)
  \/ \E n \in Amounts : OfferArrives(s, c, n) \/ CounterArrives(s, c, n)
  \/ \E m \in Collectors : AssignArrives(s, c, m) \/ MemberGoes(s, c, m)

AtOnceSteps ==
  \/ MarkReady \/ CancelByRequester
  \/ \E c \in Collectors : CancelByCrew(c) \/ Unassign(c)

ExpireJob == ExpireJobFinds \/ ExpireJobApplies \/ NoMatch("expire job")
StallJob  == StallJobFinds \/ StallJobApplies

Environment ==
  \/ AgeOffer \/ AgeAcceptance \/ AgeTracking \/ AgeDeparture \/ LockLapses \/ Crash
  \/ \E c \in Collectors : StandingChanges(c) \/ RatedDown(c) \/ Reinstate(c)

Next ==
  \/ \E s \in Slots : ServerRuns(s) \/ RequesterAsks(s) \/ \E c \in Collectors : CollectorAsks(s, c)
  \/ AtOnceSteps
  \/ ExpireJob \/ StallJob
  \/ Environment

Spec == Init /\ [][Next]_vars

\* node-cron starts the jobs again and again, a started handler runs to its
\* end, and time passes.  Users owe the system nothing.
Fairness ==
  /\ WF_vars(ExpireJob) /\ WF_vars(StallJob)
  /\ \A s \in Slots : WF_vars(ServerRuns(s))
  /\ WF_vars(AgeOffer) /\ WF_vars(AgeAcceptance) /\ WF_vars(AgeTracking)

FairSpec == Spec /\ Fairness

-----------------------------------------------------------------------------
(* What should hold.                                                       *)

Pickups ==
  [status : {"absent", "pending", "accepted", "in_progress", "completed", "cancelled"},
   collector : Anyone, price : Amounts, assignedTo : Anyone,
   isStalled : BOOLEAN, weighed : BOOLEAN]
Negotiations ==
  [status : {"none", "pending", "accepted", "declined"}, collector : Anyone,
   lastBy : {"nobody", "requester", "collector"}, lastAmount : Amounts, count : Nat]
Handshakes == [verified : BOOLEAN, failedAttempts : 0..(OtpLimit - 1), locked : BOOLEAN]
Trackings  == [onTheWay : Times, ready : BOOLEAN]
Clocks     == [waited : BOOLEAN, offerOld : BOOLEAN]
Standings  == [verified : BOOLEAN, available : BOOLEAN, suspended : BOOLEAN, noShows : Nat]
Tickets    == [op : Operations, by : People \cup {NoOne}, arg : Anyone, n : Nat]

\* The types of the document, of the records around it, and of what the
\* running handlers carry.  The counter of wrong codes never reaches the limit.
TypeOK ==
  /\ pickup \in Pickups
  /\ negotiation \in Negotiations
  /\ handshake \in Handshakes
  /\ tracking \in Trackings
  /\ clock \in Clocks
  /\ members \in [Collectors -> SUBSET Collectors]
  /\ standing \in [Collectors -> Standings]
  /\ gone \subseteq People
  /\ slots \in [Slots \cup Jobs -> Tickets]
  /\ setOff \in Departures
  /\ stalls \in [Collectors -> Nat]

\* Two collectors tapping Accept at the same moment, or an accept racing an
\* offer, leave one holder: a job without a collector is not under way, and a
\* job that is under way, or done, has one.
MatchedIffHeld ==
  /\ pickup.status \in {"absent", "pending"} => pickup.collector = NoOne
  /\ pickup.status \in {"accepted", "in_progress", "completed"} => pickup.collector \in Collectors

\* An offer that can be answered names the collector who gets the job if it is
\* accepted, whatever declines, expiries and invitations it raced with.
LiveOfferHasNegotiator ==
  negotiation.status = "pending" => negotiation.collector \in Collectors

\* Nobody takes a job from under a live negotiation: it is only ever taken by
\* accepting the offer.
NoLiveOfferOnTakenJob ==
  negotiation.status = "pending" => pickup.status \in {"pending", "cancelled"}

\* A second collector's offer, or an invitation, never takes over a
\* negotiation that is going on.
NegotiationKeepsItsParty ==
  [][(negotiation.status = "pending" /\ negotiation'.status = "pending")
       => negotiation'.collector = negotiation.collector]_vars

\* A requester can only report a collector whose own acceptance is
\* STALLED_PICKUP_MINUTES old, also when the job had another collector before.
FreshAcceptNotReportable ==
  pickup.status = "accepted" /\ pickup.isStalled => clock.waited

\* One stall costs a collector at most one no-show, however often the requester
\* taps and whichever of the handlers are still running.
OneNoShowPerStall ==
  \A c \in Collectors :
    standing[c].noShows + Cardinality({s \in InFlight({"no-show"}) : slots[s].arg = c})
      <= stalls[c]

\* The lifecycle as its users know it, whatever runs concurrently.
Contract == INSTANCE PickupContract
  WITH status <- pickup.status, holder <- pickup.collector, stalled <- pickup.isStalled
ImplementsContract == Contract!ContractSpec

\* An offer nobody answers does not lock the pickup away for ever.
AbandonedOfferEnds ==
  \A n \in 1..MaxOffers :
    (pickup.status = "pending" /\ negotiation.status = "pending" /\ negotiation.count = n)
      ~> ~(pickup.status = "pending" /\ negotiation.status = "pending" /\ negotiation.count = n)

\* A collector who accepts and never starts can be reported in the end.
SilentCollectorReportable ==
  pickup.status = "accepted" ~> (pickup.status # "accepted" \/ pickup.isStalled)

\* Claimed in respondToOffer: an accept takes "the other party's most recent
\* offer", and locks in that price for that collector.
AcceptsMostRecentOffer ==
  negotiation.status = "accepted" /\ pickup.status = "accepted" =>
    pickup.price = negotiation.lastAmount /\ pickup.collector = negotiation.collector

\* Claimed in expireStaleNegotiations: its guard is safe against an answer that
\* lands after it looked at the offers, so what it ends is an abandoned offer.
ExpiresOnlyOldOffers ==
  [][/\ slots["expire job"] # Idle /\ slots'["expire job"] = Idle
     /\ negotiation.status = "pending" /\ negotiation'.status = "declined"
       => clock.offerOld]_vars

\* Claimed in escalateStalledPickups: a collector who has set off is not flagged
\* as stalled until that has gone quiet for as long.
NotFlaggedAfterSettingOff ==
  [][InFlight({"stall"}) = {} /\ InFlight({"stall"})' # {} => ~JustSetOff]_vars

\* Claimed by the rating gate and its tests: a suspended collector takes no new
\* pickup.
SuspendedTakeNoJobs ==
  [][pickup.status = "pending" /\ pickup'.status = "accepted" /\ negotiation'.status = "accepted"
       => ~standing[pickup'.collector].suspended]_vars

\* Claimed in the Pickup schema and teamController: a job is assigned to a member
\* of its owner's team, and goes back to the owner when there is none.
AssignedWithinTeam ==
  InProgress /\ pickup.assignedTo # NoOne /\ pickup.assignedTo # pickup.collector =>
     \/ pickup.assignedTo \in members[pickup.collector]
     \/ \E s \in InFlight({"release"}) : slots[s].arg = pickup.assignedTo

\* Claimed in deleteAccount: no job is left to a collector who no longer exists.
HolderExists == InProgress => pickup.collector \notin gone
=============================================================================
