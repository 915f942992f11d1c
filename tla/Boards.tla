------------------------------- MODULE Boards -------------------------------
(***************************************************************************)
(* One pickup as the pages of its two sides show it.  Every handler writes  *)
(* the document, populates it, broadcasts it, and only then answers, so     *)
(* broadcasts may leave in another order than the writes, and an answer may *)
(* come after broadcasts of later states.  The collector's page keeps       *)
(* copies in three lists, a selection and a detail window; the requester's  *)
(* in a list and a detail window.  Pages replace copies by what comes in.   *)
(* PickupLifecycle has the handlers' own races; here a write is one step.   *)
(***************************************************************************)
EXTENDS Integers, Sequences, FiniteSets, SequencesExt

CONSTANTS
  Me,          \* the collector whose page is followed
  Other,       \* any other collector
  NoParty,      \* absence of a collector
  MaxWrites,   \* bound: writes of the document
  MaxCalls     \* bound: requests of the page under way

ASSUME BoardAssumption == MaxWrites \in Nat /\ MaxCalls \in Nat

VARIABLES
  doc,        \* the document: status, collector, party of a live negotiation
  unsent,     \* broadcasts of states that were written
  feed,       \* broadcasts on their way to the page, in order
  calls,      \* the page's requests that are under way
  page,       \* what the page keeps
  viewer,     \* whose page it is
  seen,       \* history: the newest state the page was given
  late       \* history: the page was given an older state than that

boardVars == <<doc, unsent, feed, calls, page, viewer, seen, late>>

NoPickup == [rev |-> 0, status |-> "absent", holder |-> NoParty, party |-> NoParty, by |-> "nobody"]

Sides == {"collector", "requester"}

BoardInit ==
  /\ doc \in {NoPickup, [NoPickup EXCEPT !.status = "pending"]}
  /\ unsent = {} /\ feed = << >> /\ calls = {}
  /\ page = [available |-> << >>, mine |-> << >>, invites |-> << >>, items |-> << >>,
             details |-> NoPickup, selected |-> FALSE]
  /\ viewer \in Sides
  /\ seen = 0
  /\ late = FALSE

-----------------------------------------------------------------------------
(* What the server does with the document.                                 *)

Open(d) == d.status = "pending" /\ d.party = NoParty

Running(d) == d.status \in {"accepted", "in_progress"}

OtherSide(side) == IF side = "collector" THEN "requester" ELSE "collector"

Negotiating(d, c, side) == [d EXCEPT !.party = c, !.by = side]

Ended(d) == Negotiating(d, NoParty, "nobody")

\* The states a request of kind op can lead to; c is the collector it is of, or
\* whose offer it is about, and side the side it comes from.
Outcome(op, c, side) ==
  CASE op \in {"accept", "batch"} /\ Open(doc) ->
         {[doc EXCEPT !.status = "accepted", !.holder = c]}
    [] op = "offer" /\ doc.status = "pending" /\ doc.party \in {NoParty, c} ->
         {Negotiating(doc, c, "collector")}
    [] op = "invite" /\ Open(doc) -> {Negotiating(doc, c, "requester")}
    [] op = "respond" /\ doc.status = "pending" /\ doc.party = c /\ doc.by = OtherSide(side) ->
         {[doc EXCEPT !.status = "accepted", !.holder = c, !.party = NoParty],
          Ended(doc), Negotiating(doc, c, side)}
    [] op = "advance" /\ Running(doc) /\ doc.holder = c ->
         {[doc EXCEPT !.status = IF @ = "accepted" THEN "in_progress" ELSE "completed"]}
    [] op = "expire" /\ doc.status = "pending" /\ doc.party # NoParty -> {Ended(doc)}
    [] op = "cancel" /\ doc.status \in {"pending", "accepted"} ->
         {[Ended(doc) EXCEPT !.status = "cancelled"]}
    [] OTHER -> {}

Written(d) == doc' = [d EXCEPT !.rev = doc.rev + 1] /\ doc.rev < MaxWrites

\* createPickup, and the job that spawns recurring pickups.
BoardCreates ==
  /\ doc.status = "absent"
  /\ Written([doc EXCEPT !.status = "pending"])
  /\ unsent' = unsent \cup {[event |-> "new", doc |-> doc']}
  /\ UNCHANGED <<feed, calls, page, viewer, seen, late>>

\* A handler or a job for somebody else: the other side, another collector.
BoardWrites(op, c, side) ==
  /\ IF side = "requester" THEN viewer # "requester" /\ op \in {"invite", "respond", "cancel"}
                           ELSE viewer # "collector" \/ c # Me
  /\ op \in {"invite", "cancel"} => side = "requester"
  /\ \E d \in Outcome(op, c, side) :
       Written(d) /\ unsent' = unsent \cup {[event |-> "update", doc |-> doc']}
  /\ UNCHANGED <<feed, calls, page, viewer, seen, late>>

\* A write that changes neither: tracking, payment, settlement, the alert jobs.
BoardTouches ==
  /\ doc.status # "absent"
  /\ Written(doc)
  /\ unsent' = unsent \cup {[event |-> "update", doc |-> doc']}
  /\ UNCHANGED <<feed, calls, page, viewer, seen, late>>

\* reportNoShow reopens the job and announces it twice.
BoardReopens ==
  /\ doc.status = "accepted"
  /\ Written([doc EXCEPT !.status = "pending", !.holder = NoParty])
  /\ unsent' = unsent \cup {[event |-> "relisted", doc |-> doc']}
  /\ UNCHANGED <<feed, calls, page, viewer, seen, late>>

\* io.emit; the second announcement of a reopened job comes after a notification.
Sent(b) ==
  /\ feed' = Append(feed, [b EXCEPT !.event = IF @ = "relisted" THEN "update" ELSE @])
  /\ unsent' = (unsent \ {b}) \cup
                 {[event |-> "new", doc |-> d] : d \in IF b.event = "relisted" THEN {b.doc} ELSE {}}

BoardEmits(b) ==
  /\ b \in unsent
  /\ Sent(b)
  /\ UNCHANGED <<doc, calls, page, viewer, seen, late>>

-----------------------------------------------------------------------------
(* The requests of the page.                                               *)

CanCall(op) == \A k \in calls : k.op # op

Listed(list) == \E i \in DOMAIN list : list[i].status = "pending"

\* A button of the page: what the page must show for it to be there.
Offers(op) ==
  IF viewer = "requester"
  THEN \/ op = "load"
       \/ op = "cancel"  /\ \E i \in DOMAIN page.items : page.items[i].status \in {"pending", "accepted"}
       \/ op = "respond" /\ page.details.status = "pending" /\ page.details.by = "collector"
  ELSE \/ op \in {"load", "invites"}
       \/ op = "accept"  /\ Listed(page.available)
       \/ op = "batch"   /\ page.selected
       \/ op = "offer"   /\ page.details.status = "pending"
       \/ op = "respond" /\ page.details.status = "pending" /\ page.details.party = Me
                         /\ page.details.by = "requester"
       \/ op = "advance" /\ \E i \in DOMAIN page.mine : Running(page.mine[i])

PageCalls(op) ==
  /\ Offers(op) /\ CanCall(op)
  /\ Cardinality(calls) < MaxCalls
  /\ calls' = calls \cup {[op |-> op, at |-> "sent", a |-> NoPickup, m |-> NoPickup]}
  /\ UNCHANGED <<doc, unsent, feed, page, viewer, seen, late>>

Moves(k, next) == calls' = (calls \ {k}) \cup {next}

\* A load reads the open pickups and one's own at two moments; an invite list once.
LoadReads(k) ==
  /\ k.op \in {"load", "invites"}
  /\ \/ k.at = "sent" /\ Moves(k, [k EXCEPT !.at = "half", !.a = doc])
     \/ k.at = "half" /\ Moves(k, [k EXCEPT !.at = "answered", !.m = doc])
  /\ UNCHANGED <<doc, unsent, feed, page, viewer, seen, late>>

\* The party a request of this page acts for.
Actor == IF viewer = "requester" THEN doc.party ELSE Me

CallApplies(k) ==
  /\ k.at = "sent" /\ k.op \notin {"load", "invites"}
  /\ \E d \in Outcome(k.op, Actor, viewer) :
       Written(d) /\ Moves(k, [k EXCEPT !.at = "written", !.a = doc'])
  /\ UNCHANGED <<unsent, feed, page, viewer, seen, late>>

CallEmits(k) ==
  /\ k.at = "written"
  /\ feed' = Append(feed, [event |-> "update", doc |-> k.a])
  /\ Moves(k, [k EXCEPT !.at = "answered"])
  /\ UNCHANGED <<doc, unsent, page, viewer, seen, late>>

\* The filter of the handler does not match, or the request fails on its way.
CallRefused(k) ==
  /\ k.at = "sent"
  /\ IF k.op = "batch" THEN Moves(k, [k EXCEPT !.at = "answered"])
                       ELSE calls' = calls \ {k}
  /\ UNCHANGED <<doc, unsent, feed, page, viewer, seen, late>>

-----------------------------------------------------------------------------
(* What the page does with what it is given.                               *)

Takes(d) ==
  /\ late' = (late \/ d.rev < seen)
  /\ seen' = IF d.rev > seen THEN d.rev ELSE seen

Replaced(list, d) == [i \in DOMAIN list |-> d]

AvailableAfter_Kept(d) == Replaced(page.available, d)

\* A pickup that is still pending stays in the list, in whatever negotiation.
AvailableAfter(d) == IF d.status = "pending" THEN Replaced(page.available, d) ELSE << >>

InvitesAfter(d) ==
  IF ~(d.status = "pending" /\ d.party = Me) THEN << >>
  ELSE IF page.invites = << >> THEN <<d>> ELSE Replaced(page.invites, d)

InDetails(d) == IF page.details = NoPickup THEN NoPickup ELSE d

\* useSocket("updatePickup") of either page.
PageUpdates(d) ==
  page' = IF viewer = "requester"
          THEN [page EXCEPT !.items = Replaced(@, d), !.details = InDetails(d)]
          ELSE [page EXCEPT !.available = AvailableAfter(d), !.mine = Replaced(@, d),
                            !.invites = InvitesAfter(d), !.details = InDetails(d),
                            !.selected = FALSE]

\* useSocket("newPickup"), for a pickup within radius and preferences; the
\* requester's page does not listen.
PageAnnounces(d) ==
  page' = IF viewer = "requester" THEN page ELSE [page EXCEPT !.available = <<d>> \o @]

PageHears ==
  /\ feed # << >>
  /\ feed' = Tail(feed)
  /\ IF Head(feed).event = "new" THEN PageAnnounces(Head(feed).doc)
                                 ELSE PageUpdates(Head(feed).doc)
  /\ IF viewer = "requester" /\ Head(feed).event = "new"
     THEN UNCHANGED <<seen, late>> ELSE Takes(Head(feed).doc)
  /\ UNCHANGED <<doc, unsent, calls, viewer>>

If(p, d) == IF p THEN <<d>> ELSE << >>

Won(d) == [page EXCEPT !.available = << >>, !.mine = <<d>> \o @]

\* The rest of each handler of the collector's page, with the answer.
CollectorAnswered(k) ==
  CASE k.op = "load" -> [page EXCEPT !.available = If(Open(k.a), k.a),
                                     !.mine = If(k.m.holder = Me, k.m)]
    [] k.op = "invites" -> [page EXCEPT !.invites = If(k.m.status = "pending" /\ k.m.party = Me, k.m)]
    [] k.op = "accept" -> Won(k.a)
    [] k.op = "batch" -> IF k.a = NoPickup
                         THEN [page EXCEPT !.available = << >>, !.selected = FALSE]
                         ELSE [Won(k.a) EXCEPT !.selected = FALSE]
    [] k.op = "respond" /\ k.a.status = "accepted" -> [Won(k.a) EXCEPT !.details = NoPickup]
    [] k.op = "offer" \/ (k.op = "respond" /\ k.a.status # "accepted") ->
         [page EXCEPT !.available = Replaced(@, k.a), !.details = k.a]
    [] OTHER -> [page EXCEPT !.mine = Replaced(@, k.a)]

RequesterAnswered(k) ==
  CASE k.op = "load"    -> [page EXCEPT !.items = If(k.m.status # "absent", k.m)]
    [] k.op = "respond" -> [page EXCEPT !.items = Replaced(@, k.a), !.details = k.a]
    [] OTHER            -> [page EXCEPT !.items = Replaced(@, k.a)]

\* The older of the states an answer carries.
CarriedBy(k) ==
  IF k.op \in {"load", "invites"} THEN IF k.op = "load" /\ viewer = "collector" THEN k.a ELSE k.m
  ELSE k.a

PageAnswered(k) ==
  /\ k.at = "answered"
  /\ calls' = calls \ {k}
  /\ page' = IF viewer = "requester" THEN RequesterAnswered(k) ELSE CollectorAnswered(k)
  /\ IF k.op = "batch" /\ k.a = NoPickup THEN UNCHANGED <<seen, late>> ELSE Takes(CarriedBy(k))
  /\ UNCHANGED <<doc, unsent, feed, viewer>>

\* The answer is lost: the page shows an error and keeps what it has.
AnswerLost(k) ==
  /\ k.at = "answered"
  /\ calls' = calls \ {k}
  /\ UNCHANGED <<doc, unsent, feed, page, viewer, seen, late>>

Copies == Range(page.available) \cup Range(page.mine) \cup Range(page.invites)
            \cup Range(page.items) \cup {NoPickup}

\* toggleSelected; and setDetailsPickup of a copy, or of nothing.
PageSelects ==
  /\ page.available # << >>
  /\ page' = [page EXCEPT !.selected = ~@]
  /\ UNCHANGED <<doc, unsent, feed, calls, viewer, seen, late>>

PageOpens(d) ==
  /\ d \in Copies
  /\ page' = [page EXCEPT !.details = d]
  /\ UNCHANGED <<doc, unsent, feed, calls, viewer, seen, late>>

PageOps == {"load", "invites", "accept", "batch", "offer", "respond", "advance", "cancel"}

BoardNext ==
  \/ BoardCreates \/ BoardTouches \/ BoardReopens
  \/ \E op \in {"accept", "offer", "invite", "respond", "expire", "advance", "cancel"},
        c \in {Me, Other}, side \in Sides : BoardWrites(op, c, side)
  \/ \E b \in unsent : BoardEmits(b)
  \/ \E op \in PageOps : PageCalls(op)
  \/ \E k \in calls :
       \/ LoadReads(k) \/ CallApplies(k) \/ CallEmits(k) \/ CallRefused(k)
       \/ PageAnswered(k) \/ AnswerLost(k)
  \/ PageHears \/ PageSelects
  \/ \E d \in Copies : PageOpens(d)

BoardSpec == BoardInit /\ [][BoardNext]_boardVars
-----------------------------------------------------------------------------
Docs == [rev : 0..MaxWrites, holder : {NoParty, Me, Other}, party : {NoParty, Me, Other},
         by : Sides \cup {"nobody"},
         status : {"absent", "pending", "accepted", "in_progress", "completed", "cancelled"}]

BoardTypeOK ==
  /\ doc \in Docs /\ Copies \subseteq Docs
  /\ \A b \in unsent : b.doc \in Docs
  /\ seen \in 0..MaxWrites

\* Nothing is under way that the page will still be given.
Quiet == unsent = {} /\ feed = << >> /\ calls = {}

(* When nothing is under way, and nothing that came was older than what the     *)
(* page had been given before, every copy on the page is the document as it is: *)
(* no job somebody else took is offered, no invitation that is over is shown,   *)
(* and nothing is selected that is no longer pending, although the page never   *)
(* loads again (Dashboard.jsx, the updatePickup handler and those of the        *)
(* buttons; MyRequests.jsx likewise).                                           *)
CopiesAreCurrent ==
  Quiet /\ ~late =>
    /\ Copies \subseteq {doc, NoPickup}
    /\ page.available # << >> \/ page.selected => doc.status = "pending"
    /\ page.invites # << >> => doc.party = Me

(* A collector whose offer the requester accepted has the job in his list of     *)
(* jobs ("Any pickup updated (by this collector or another) -> reconcile both   *)
(* lists", Dashboard.jsx:410), when nothing is under way and nothing was late.  *)
JobsAreListed ==
  Quiet /\ ~late /\ seen = doc.rev /\ viewer = "collector" /\ Running(doc)
      /\ doc.holder = Me /\ doc.by = "collector"
    => page.mine # << >>
=============================================================================
