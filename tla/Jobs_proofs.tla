---------------------------- MODULE Jobs_proofs ----------------------------
(***************************************************************************)
(* Proofs about what a collector's jobs bring with them: Notices, Desk,     *)
(* Recurring and Routes, for any number of running handlers and jobs, any   *)
(* grid and any number of stops.                                            *)
(***************************************************************************)
EXTENDS Notices, Desk, Recurring, Routes, Sequence_lemmas

-----------------------------------------------------------------------------
(* Notices.                                                                 *)

VisitDocs ==
  [status : {"pending", "accepted", "completed"}, holder : Holders \cup {NoHolder},
   onTheWay : BOOLEAN, pay : {"unpaid", "claimed", "confirmed"}]

NoticeSteps == {Idle} \cup [op : {"claim"}, kind : NoticeKinds]

\* A marker is set exactly when its notice went out.
MarkedOnce == \A k \in NoticeKinds : sent[k] = IF k \in marks THEN 1 ELSE 0

LEMMA VisitHeld ==
  ASSUME NEW doc \in VisitDocs, NEW status \in {"pending", "accepted", "completed"},
         NEW holder \in Holders \cup {NoHolder}
  PROVE  /\ [doc EXCEPT !.status = status, !.holder = holder] \in VisitDocs
         /\ [doc EXCEPT !.status = status, !.holder = holder].status = status
         /\ [doc EXCEPT !.status = status, !.holder = holder].holder = holder
BY DEF VisitDocs

LEMMA VisitWritten ==
  ASSUME NEW doc \in VisitDocs, NEW status \in {"pending", "accepted", "completed"},
         NEW pay \in {"unpaid", "claimed", "confirmed"}
  PROVE  /\ [doc EXCEPT !.status = status] \in VisitDocs
         /\ [doc EXCEPT !.status = status].status = status
         /\ [doc EXCEPT !.status = status].holder = doc.holder
         /\ [doc EXCEPT !.onTheWay = TRUE] \in VisitDocs
         /\ [doc EXCEPT !.onTheWay = TRUE].status = doc.status
         /\ [doc EXCEPT !.onTheWay = TRUE].holder = doc.holder
         /\ [doc EXCEPT !.pay = pay] \in VisitDocs
         /\ [doc EXCEPT !.pay = pay].status = doc.status
         /\ [doc EXCEPT !.pay = pay].holder = doc.holder
<1>1. /\ [doc EXCEPT !.status = status] \in VisitDocs
      /\ [doc EXCEPT !.status = status].status = status
      /\ [doc EXCEPT !.status = status].holder = doc.holder
  BY DEF VisitDocs
<1>2. /\ [doc EXCEPT !.onTheWay = TRUE] \in VisitDocs
      /\ [doc EXCEPT !.onTheWay = TRUE].status = doc.status
      /\ [doc EXCEPT !.onTheWay = TRUE].holder = doc.holder
  BY DEF VisitDocs
<1>3. /\ [doc EXCEPT !.pay = pay] \in VisitDocs
      /\ [doc EXCEPT !.pay = pay].status = doc.status
      /\ [doc EXCEPT !.pay = pay].holder = doc.holder
  BY DEF VisitDocs
<1> QED BY <1>1, <1>2, <1>3

LEMMA NoticeStep ==
  NoticeTypeOK /\ MarkedOnce /\ [NoticeNext]_noticeVars => NoticeTypeOK' /\ MarkedOnce'
<1> SUFFICES ASSUME NoticeTypeOK, MarkedOnce, [NoticeNext]_noticeVars
             PROVE  NoticeTypeOK' /\ MarkedOnce'
  OBVIOUS
<1> USE NoticesAssumption
<1>0. /\ visit \in VisitDocs /\ (visit.holder = NoHolder <=> visit.status = "pending")
      /\ slots \in [Slots -> NoticeSteps]
  BY DEF NoticeTypeOK, VisitDocs, NoticeSteps
<1>1. ASSUME NEW s \in Slots, NEW k \in NoticeKinds, NoticeFound(s, k)
      PROVE  NoticeTypeOK' /\ MarkedOnce'
  <2>1. slots' \in [Slots -> NoticeSteps]
    BY <1>0, <1>1 DEF NoticeFound, Starts, Goes, NoticeSteps
  <2> QED BY <1>1, <2>1 DEF NoticeFound, noticeDocs, NoticeTypeOK, MarkedOnce, NoticeSteps
<1>2. ASSUME NEW s \in Slots, NoticeClaimed(s) PROVE NoticeTypeOK' /\ MarkedOnce'
  <2> DEFINE k == slots[s].kind
  <2>1. k \in NoticeKinds BY <1>0, <1>2 DEF NoticeClaimed, At, NoticeSteps, Idle
  <2>2. slots' \in [Slots -> NoticeSteps] BY <1>0, <1>2 DEF NoticeClaimed, Ends, Goes, NoticeSteps
  <2>3. CASE k \in marks
    <3>1. UNCHANGED <<marks, sent>> BY <1>2, <2>3 DEF NoticeClaimed, ClaimMatches
    <3> QED BY <1>2, <2>2, <3>1 DEF NoticeClaimed, NoticeTypeOK, MarkedOnce, NoticeSteps
  <2>4. CASE k \notin marks
    <3>1. marks' = marks \cup {k} /\ sent' = [sent EXCEPT ![k] = sent[k] + 1]
      BY <1>2, <2>4 DEF NoticeClaimed, ClaimMatches
    <3>2. sent \in [NoticeKinds -> Nat] /\ sent[k] = 0 BY <2>1, <2>4 DEF NoticeTypeOK, MarkedOnce
    <3>3. sent' \in [NoticeKinds -> Nat] /\ marks' \subseteq NoticeKinds
      BY <2>1, <3>1, <3>2 DEF NoticeTypeOK
    <3>4. MarkedOnce' BY <2>1, <3>1, <3>2 DEF MarkedOnce
    <3> QED BY <1>2, <2>2, <3>3, <3>4 DEF NoticeClaimed, NoticeTypeOK, NoticeSteps
  <2> QED BY <2>3, <2>4
<1>3. ASSUME UNCHANGED <<window, marks, sent, slots>>, visit' \in VisitDocs,
             visit'.holder = NoHolder <=> visit'.status = "pending"
      PROVE  NoticeTypeOK' /\ MarkedOnce'
  BY <1>3 DEF NoticeTypeOK, MarkedOnce, VisitDocs
<1>4. ASSUME NEW c \in Holders, JobAccepted(c) PROVE NoticeTypeOK' /\ MarkedOnce'
  <2>1. /\ visit' \in VisitDocs /\ visit'.status = "accepted" /\ visit'.holder = c
    BY <1>0, <1>4, VisitHeld DEF JobAccepted
  <2> QED BY <1>3, <1>4, <2>1 DEF JobAccepted
<1>5. CASE SetsOff BY <1>0, <1>3, <1>5, VisitWritten DEF SetsOff
<1>6. CASE JobReopened
  <2>1. /\ visit' \in VisitDocs /\ visit'.status = "pending" /\ visit'.holder = NoHolder
    BY <1>0, <1>6, VisitHeld DEF JobReopened
  <2> QED BY <1>3, <1>6, <2>1 DEF JobReopened
<1>7. CASE JobCompleted BY <1>0, <1>3, <1>7, VisitWritten DEF JobCompleted
<1>8. CASE PaymentClaimed BY <1>0, <1>3, <1>8, VisitWritten DEF PaymentClaimed
<1>9. CASE PaymentConfirmed BY <1>0, <1>3, <1>9, VisitWritten DEF PaymentConfirmed
<1>10. CASE WindowMoves BY <1>10 DEF WindowMoves, NoticeTypeOK, MarkedOnce
<1>11. CASE NoticesStop
  <2>1. slots' \in [Slots -> NoticeSteps] BY <1>11 DEF NoticesStop, Restarts, AllIdle, NoticeSteps
  <2> QED BY <1>11, <2>1 DEF NoticesStop, noticeDocs, NoticeTypeOK, MarkedOnce, NoticeSteps
<1>12. CASE UNCHANGED noticeVars BY <1>12 DEF noticeVars, NoticeTypeOK, MarkedOnce
<1> QED BY <1>1, <1>2, <1>4, <1>5, <1>6, <1>7, <1>8, <1>9, <1>10, <1>11, <1>12 DEF NoticeNext

\* No notice about a pickup goes out twice, however many runs of a job and
\* positions of a collector found it due at once.
THEOREM NoticesOnce == NoticeSpec => []NotifiedOnce
<1>1. NoticeInit => NoticeTypeOK /\ MarkedOnce
  BY DEF NoticeInit, NoticeTypeOK, MarkedOnce, AllIdle
<1>2. MarkedOnce => NotifiedOnce BY DEF MarkedOnce, NotifiedOnce
<1> QED BY <1>1, <1>2, NoticeStep, PTL DEF NoticeSpec

\* The pickup has a holder exactly while somebody took it; markers and handlers
\* are of the five kinds of notices.
THEOREM NoticeTypes == NoticeSpec => []NoticeTypeOK
<1>1. NoticeInit => NoticeTypeOK /\ MarkedOnce
  BY DEF NoticeInit, NoticeTypeOK, MarkedOnce, AllIdle
<1> QED BY <1>1, NoticeStep, PTL DEF NoticeSpec

-----------------------------------------------------------------------------
(* Desk: links that were stopped.                                           *)

LinkDocs == [revoked : BOOLEAN, last : Nat]

\* The links are a list, and each handler carries what its next step takes.
LinkShape ==
  /\ shares \in Seq(LinkDocs)
  /\ position \in Nat
  /\ DOMAIN slots = Slots
  /\ \A s \in Slots :
       /\ At(s, "position") => slots[s].at \in Nat
       /\ At(s, "look") \/ At(s, "share") =>
            /\ slots[s] = [op |-> slots[s].op, next |-> slots[s].next]
            /\ slots[s].next.op \notin {"position", "look", "share"}

\* A link that was out when sharing was stopped stays revoked, where it was.
StoppedStay ==
  \A link \in stopped : /\ link[1] \in DOMAIN shares
                        /\ shares[link[1]].revoked
                        /\ shares[link[1]].last = link[2]

LEMMA ShareWritten ==
  ASSUME NEW doc \in LinkDocs, NEW revoked \in BOOLEAN, NEW last \in Nat
  PROVE  /\ [doc EXCEPT !.revoked = revoked] \in LinkDocs
         /\ [doc EXCEPT !.revoked = revoked].revoked = revoked
         /\ [doc EXCEPT !.revoked = revoked].last = doc.last
         /\ [doc EXCEPT !.last = last] \in LinkDocs
BY DEF LinkDocs

\* The handlers that do not touch links only move, and only on.
LEMMA LinksKeep ==
  ASSUME LinkShape, StoppedStay, shares' = shares, stopped' = stopped, position' \in Nat,
         \/ slots' = slots \/ slots' = AllIdle
         \/ \E s, r : /\ Goes(s, r)
                      /\ r.op = "position" => r.at \in Nat
                      /\ r.op \in {"look", "share"} =>
                           r = [op |-> r.op, next |-> r.next] /\ r.next.op \notin {"position", "look", "share"}
  PROVE  LinkShape' /\ StoppedStay'
<1>1. CASE slots' = slots BY <1>1 DEF LinkShape, StoppedStay, At
<1>2. CASE slots' = AllIdle BY <1>2 DEF LinkShape, StoppedStay, AllIdle, Idle, At
<1>3. ASSUME NEW s, NEW r, Goes(s, r),
             r.op = "position" => r.at \in Nat,
             r.op \in {"look", "share"} =>
               r = [op |-> r.op, next |-> r.next] /\ r.next.op \notin {"position", "look", "share"}
      PROVE  LinkShape' /\ StoppedStay'
  <2>1. DOMAIN slots' = Slots /\ \A t \in Slots : slots'[t] = IF t = s THEN r ELSE slots[t]
    BY <1>3 DEF LinkShape, Goes
  <2> QED BY <1>3, <2>1 DEF LinkShape, StoppedStay, At
<1> QED BY <1>1, <1>2, <1>3

LEMMA LinkTripStep ==
  ASSUME LinkShape, StoppedStay, TripStep
  PROVE  LinkShape' /\ StoppedStay'
<1>1. ASSUME NEW s \in Slots, ShareAsked(s) PROVE LinkShape' /\ StoppedStay'
  <2> DEFINE r == [op |-> "look", next |-> Idle]
  <2>1. Goes(s, r) BY <1>1 DEF ShareAsked, Starts
  <2>2. r.op # "position" /\ r = [op |-> r.op, next |-> r.next]
        /\ r.next.op \notin {"position", "look", "share"}
    BY DEF Idle
  <2>3. UNCHANGED <<shares, stopped, position>> BY <1>1 DEF ShareAsked, tripDocs
  <2> HIDE DEF r
  <2> QED BY <2>1, <2>2, <2>3, LinksKeep DEF LinkShape
<1>2. ASSUME NEW s \in Slots, NEW p \in Parties, SosAsked(s, p) PROVE LinkShape' /\ StoppedStay'
  <2>1. PICK next \in {Idle, [op |-> "alert", by |-> p]} : Goes(s, [op |-> "look", next |-> next])
    BY <1>2 DEF SosAsked, Starts
  <2> DEFINE r == [op |-> "look", next |-> next]
  <2>2. r.op # "position" /\ r = [op |-> r.op, next |-> r.next]
        /\ r.next.op \notin {"position", "look", "share"}
    BY DEF Idle
  <2>3. UNCHANGED <<shares, stopped, position>> BY <1>2 DEF SosAsked, tripDocs
  <2> HIDE DEF r
  <2>4. Goes(s, r) BY <2>1 DEF r
  <2> QED BY <2>2, <2>3, <2>4, LinksKeep DEF LinkShape
<1>3. ASSUME NEW s \in Slots, ShareLooked(s) PROVE LinkShape' /\ StoppedStay'
  <2> DEFINE r == IF ActiveShares # {} THEN slots[s].next ELSE [slots[s] EXCEPT !.op = "share"]
  <2>1. Goes(s, r) /\ UNCHANGED <<shares, stopped, position>> BY <1>3 DEF ShareLooked, tripDocs
  <2>2. slots[s] = [op |-> "look", next |-> slots[s].next]
        /\ slots[s].next.op \notin {"position", "look", "share"}
    BY <1>3 DEF ShareLooked, LinkShape, At
  <2>3. CASE ActiveShares # {}
    <3>1. r = slots[s].next BY <2>3
    <3> HIDE DEF r
    <3> QED BY <2>1, <2>2, <3>1, LinksKeep DEF LinkShape
  <2>4. CASE ActiveShares = {}
    <3>1. r = [op |-> "share", next |-> slots[s].next]
      <4>1. [[op |-> "look", next |-> slots[s].next] EXCEPT !.op = "share"] =
              [op |-> "share", next |-> slots[s].next]
        OBVIOUS
      <4> QED BY <2>2, <2>4, <4>1
    <3>2. r.op # "position" /\ r = [op |-> r.op, next |-> r.next]
          /\ r.next.op \notin {"position", "look", "share"}
      BY <2>2, <3>1
    <3> HIDE DEF r
    <3> QED BY <2>1, <3>2, LinksKeep DEF LinkShape
  <2> QED BY <2>3, <2>4
<1>4. ASSUME NEW s \in Slots, ShareCreated(s) PROVE LinkShape' /\ StoppedStay'
  <2> DEFINE doc == [revoked |-> FALSE, last |-> 0]
  <2>1. shares' = Append(shares, doc) /\ Goes(s, slots[s].next) /\ UNCHANGED <<stopped, position>>
    BY <1>4 DEF ShareCreated
  <2>2. doc \in LinkDocs BY DEF LinkDocs
  <2>3. slots[s].next.op \notin {"position", "look", "share"}
    BY <1>4 DEF ShareCreated, LinkShape
  <2> HIDE DEF doc
  <2>4. /\ shares' \in Seq(LinkDocs) /\ DOMAIN shares \subseteq DOMAIN shares'
        /\ \A i \in DOMAIN shares : shares'[i] = shares[i]
    BY <2>1, <2>2 DEF LinkShape
  <2>5. StoppedStay' BY <2>1, <2>4 DEF StoppedStay
  <2>6. DOMAIN slots' = Slots /\ \A t \in Slots : slots'[t] = IF t = s THEN slots[s].next ELSE slots[t]
    BY <2>1 DEF LinkShape, Goes
  <2> QED BY <2>1, <2>3, <2>4, <2>5, <2>6 DEF LinkShape, At
<1>5. ASSUME NEW s \in Slots, AlertCreated(s) PROVE LinkShape' /\ StoppedStay'
  BY <1>5, LinksKeep DEF AlertCreated, Ends, Idle, LinkShape
<1>6. ASSUME NEW s \in Slots, CollectorMoved(s) PROVE LinkShape' /\ StoppedStay'
  <2> DEFINE r == [op |-> "position", at |-> position + 1]
  <2>1. Goes(s, r) /\ UNCHANGED <<shares, stopped>> /\ position' = position + 1
    BY <1>6 DEF CollectorMoved, Starts
  <2>2. r.op = "position" /\ r.at \in Nat BY DEF LinkShape
  <2>3. position' \in Nat BY <2>1 DEF LinkShape
  <2> HIDE DEF r
  <2> QED BY <2>1, <2>2, <2>3, LinksKeep
<1>7. ASSUME NEW s \in Slots, PositionCopied(s) PROVE LinkShape' /\ StoppedStay'
  <2>1. Goes(s, Idle) /\ UNCHANGED <<stopped, position>> BY <1>7 DEF PositionCopied, Ends
  <2>2. CASE shares' = shares BY <2>1, <2>2, LinksKeep DEF LinkShape, Idle
  <2>3. ASSUME NEW i \in ActiveShares, shares' = [shares EXCEPT ![i].last = slots[s].at]
        PROVE  LinkShape' /\ StoppedStay'
    <3> DEFINE doc == [shares[i] EXCEPT !.last = slots[s].at]
    <3>1. i \in DOMAIN shares /\ ~shares[i].revoked BY DEF ActiveShares
    <3>2. doc \in LinkDocs
      <4>1. shares[i] \in LinkDocs BY <3>1 DEF LinkShape
      <4>2. slots[s].at \in Nat BY <1>7 DEF PositionCopied, LinkShape
      <4> QED BY <4>1, <4>2, ShareWritten
    <3>3. shares' = [shares EXCEPT ![i] = doc] BY <2>3
    <3> HIDE DEF doc
    <3>4. /\ shares' \in Seq(LinkDocs) /\ DOMAIN shares' = DOMAIN shares
          /\ \A j \in DOMAIN shares : j # i => shares'[j] = shares[j]
      BY <3>1, <3>2, <3>3 DEF LinkShape
    <3>5. StoppedStay' BY <2>1, <3>1, <3>4 DEF StoppedStay
    <3>6. DOMAIN slots' = Slots /\ \A t \in Slots : slots'[t] = IF t = s THEN Idle ELSE slots[t]
      BY <2>1 DEF LinkShape, Goes
    <3> QED BY <2>1, <3>4, <3>5, <3>6 DEF LinkShape, At, Idle
  <2> QED BY <1>7, <2>2, <2>3 DEF PositionCopied
<1>8. ASSUME NEW i \in DOMAIN alerts, AlertResolved(i) PROVE LinkShape' /\ StoppedStay'
  BY <1>8, LinksKeep DEF AlertResolved, LinkShape
<1>9. CASE SharingStopped
  <2> DEFINE new(i) == [shares[i] EXCEPT !.revoked = shares[i].revoked \/ i \in Revoked]
  <2>1. /\ shares' = [i \in DOMAIN shares |-> new(i)]
        /\ stopped' = stopped \cup {<<i, shares[i].last>> : i \in ActiveShares}
        /\ UNCHANGED <<slots, position>>
    BY <1>9 DEF SharingStopped
  <2>2. ASSUME NEW i \in DOMAIN shares
        PROVE  /\ new(i) \in LinkDocs /\ new(i).last = shares[i].last
               /\ shares[i].revoked => new(i).revoked
               /\ i \in ActiveShares => new(i).revoked
    <3>1. shares[i] \in LinkDocs BY DEF LinkShape
    <3>2. PICK revoked \in BOOLEAN : revoked = (shares[i].revoked \/ i \in Revoked) OBVIOUS
    <3>3. new(i) = [shares[i] EXCEPT !.revoked = revoked] BY <3>2
    <3>4. new(i) \in LinkDocs /\ new(i).last = shares[i].last /\ new(i).revoked = revoked
      <4>1. /\ [shares[i] EXCEPT !.revoked = revoked] \in LinkDocs
            /\ [shares[i] EXCEPT !.revoked = revoked].revoked = revoked
            /\ [shares[i] EXCEPT !.revoked = revoked].last = shares[i].last
        <5>1. 0 \in Nat OBVIOUS
        <5> QED BY <3>1, <5>1, ShareWritten
      <4> HIDE DEF new
      <4> QED BY <3>3, <4>1
    <3>5. ActiveShares = Revoked BY DEF Revoked
    <3> HIDE DEF new
    <3> QED BY <3>2, <3>4, <3>5
  <2> HIDE DEF new
  <2>3. shares' \in Seq(LinkDocs) /\ DOMAIN shares' = DOMAIN shares BY <2>1, <2>2 DEF LinkShape
  <2>4. ASSUME NEW link \in stopped'
        PROVE  link[1] \in DOMAIN shares' /\ shares'[link[1]].revoked /\ shares'[link[1]].last = link[2]
    <3>1. CASE link \in stopped BY <2>1, <2>2, <2>3, <3>1 DEF StoppedStay
    <3>2. ASSUME NEW i \in ActiveShares, link = <<i, shares[i].last>>
          PROVE  link[1] \in DOMAIN shares' /\ shares'[link[1]].revoked /\ shares'[link[1]].last = link[2]
      <4>1. i \in DOMAIN shares BY DEF ActiveShares
      <4> QED BY <2>1, <2>2, <2>3, <3>2, <4>1
    <3> QED BY <2>1, <3>1, <3>2
  <2> QED BY <2>1, <2>3, <2>4 DEF LinkShape, StoppedStay, At
<1>10. CASE TripMoves BY <1>10, LinksKeep DEF TripMoves, LinkShape
<1> QED BY <1>1, <1>2, <1>3, <1>4, <1>5, <1>6, <1>7, <1>8, <1>9, <1>10 DEF TripStep

LEMMA LinkOtherStep ==
  ASSUME LinkShape, StoppedStay, UNCHANGED tripDocs,
         \/ TicketStep \/ DeliveryStep \/ DeskStops \/ UNCHANGED slots
  PROVE  LinkShape' /\ StoppedStay'
<1>0. /\ shares' = shares /\ stopped' = stopped /\ position' = position /\ position \in Nat
  BY DEF tripDocs, LinkShape
<1>1. ASSUME NEW s, NEW r, Goes(s, r), r.op \notin {"position", "look", "share"}
      PROVE  LinkShape' /\ StoppedStay'
  BY <1>0, <1>1, LinksKeep
<1>2. Idle.op \notin {"position", "look", "share"} BY DEF Idle
<1>3. CASE UNCHANGED slots \/ slots' = AllIdle BY <1>0, <1>3, LinksKeep
<1>4. CASE TicketStep
  <2>1. ASSUME NEW s, NEW i, NEW by, NEW had, Goes(s, [op |-> "reply", of |-> i, by |-> by, had |-> had])
        PROVE  LinkShape' /\ StoppedStay'
    BY <1>1, <2>1
  <2>2. ASSUME NEW s, NEW i, NEW to, Goes(s, [op |-> "status", of |-> i, to |-> to])
        PROVE  LinkShape' /\ StoppedStay'
    BY <1>1, <2>2
  <2>3. ASSUME NEW s, Goes(s, [op |-> "ticket"]) PROVE LinkShape' /\ StoppedStay'
    BY <1>1, <2>3
  <2> QED BY <1>1, <1>2, <1>4, <2>1, <2>2, <2>3
          DEF TicketStep, TicketAsked, TicketCreated, ReplySaved, StatusSaved, ReplyArrives,
              StatusArrives, Starts, Ends
<1>5. CASE DeliveryStep
  <2>1. ASSUME NEW s, NEW ls, NEW p, Goes(s, [op |-> "drop", hauls |-> ls, at |-> p])
        PROVE  LinkShape' /\ StoppedStay'
    BY <1>1, <2>1
  <2> QED BY <1>1, <1>2, <1>3, <1>5, <2>1
          DEF DeliveryStep, DropOffArrives, DropOffRecorded, PartnerSwitched, Starts, Ends
<1> QED BY <1>3, <1>4, <1>5 DEF DeskStops, Restarts

\* Once either party stops sharing, every link there was is dead for good: not
\* opened, and not told a position, in any order of requests, copies and stops.
THEOREM StoppedLinks == DeskSpec => []StoppedLinksAreDead
<1>1. DeskInit => LinkShape /\ StoppedStay
  BY DEF DeskInit, LinkShape, StoppedStay, AllIdle, Idle, At
<1>2. LinkShape /\ StoppedStay /\ [DeskNext]_deskVars => LinkShape' /\ StoppedStay'
  BY LinkTripStep, LinkOtherStep DEF DeskNext, deskVars, deskDocs, tripDocs, DeskStops
<1>3. StoppedStay => StoppedLinksAreDead BY DEF StoppedStay, StoppedLinksAreDead, LinkOpens
<1> QED BY <1>1, <1>2, <1>3, PTL DEF DeskSpec

-----------------------------------------------------------------------------
(* Desk: types.                                                             *)

AlertDocs  == [by : Parties, status : {"active", "resolved"}]
Statuses   == {"open", "in_progress", "resolved", "closed"}
Speakers   == {"requester", "admin"}
TicketDocs == [status : Statuses, last : Speakers]

\* What comes after the link of an SOS, and what each handler carries.
Alarms == {Idle} \cup [op : {"alert"}, by : Parties]

DeskSteps ==
  Alarms \cup [op : {"look", "share"}, next : Alarms]
         \cup [op : {"position"}, at : Nat]
         \cup [op : {"ticket"}]
         \cup [op : {"reply"}, of : Nat, by : Speakers, had : TicketDocs]
         \cup [op : {"status"}, of : Nat, to : Statuses]
         \cup [op : {"drop"}, hauls : SUBSET Hauls, at : Partners]

\* The handlers that are about to make a link.
Sharing == {s \in Slots : At(s, "share")}

TripTypes ==
  /\ trip \in {"live", "waiting", "forgotten", "over", "past"}
  /\ position \in Nat
  /\ shares \in Seq(LinkDocs)
  /\ \A i \in DOMAIN shares : shares[i].last <= position
  /\ alerts \in Seq(AlertDocs) /\ Len(alerts) <= MaxMade

TicketTypes == tickets \in Seq(TicketDocs)

DeliveryTypes == partners \subseteq Partners /\ dropOff \in [Hauls -> Partners \cup {NoPartner}]

\* A copy that is under way is of a position the collector has been at.
StepTypes ==
  /\ slots \in [Slots -> DeskSteps]
  /\ \A s \in Slots : At(s, "position") => slots[s].at <= position

\* The bound on links counts those that are about to be made.
RoomForLinks == IsFiniteSet(Sharing) /\ Len(shares) + Cardinality(Sharing) <= MaxMade

DeskTypes == TripTypes /\ TicketTypes /\ DeliveryTypes /\ StepTypes /\ RoomForLinks

LEMMA DeskCarries ==
  ASSUME NEW step \in DeskSteps
  PROVE  /\ step.op \in {"look", "share"} =>
              step = [op |-> step.op, next |-> step.next] /\ step.next \in Alarms
         /\ step.op = "alert" => step.by \in Parties
         /\ step.op = "position" => step.at \in Nat
         /\ step.op = "reply" => step.by \in Speakers /\ step.had \in TicketDocs
         /\ step.op = "status" => step.to \in Statuses
         /\ step.op = "drop" => step.at \in Partners
<1>1. CASE step = Idle BY <1>1 DEF Idle
<1>2. CASE step \in [op : {"alert"}, by : Parties] BY <1>2
<1>3. CASE step \in [op : {"look", "share"}, next : Alarms] BY <1>3
<1>4. CASE step \in [op : {"position"}, at : Nat] BY <1>4
<1>5. CASE step \in [op : {"ticket"}] BY <1>5
<1>6. CASE step \in [op : {"reply"}, of : Nat, by : Speakers, had : TicketDocs] BY <1>6
<1>7. CASE step \in [op : {"status"}, of : Nat, to : Statuses] BY <1>7
<1>8. CASE step \in [op : {"drop"}, hauls : SUBSET Hauls, at : Partners] BY <1>8
<1> QED BY <1>1, <1>2, <1>3, <1>4, <1>5, <1>6, <1>7, <1>8 DEF DeskSteps, Alarms

\* A handler moves: the handlers about to make a link are one more or one less.
LEMMA DeskGoes ==
  ASSUME StepTypes, RoomForLinks, NEW s \in Slots, NEW r \in DeskSteps, Goes(s, r),
         position' \in Nat, position \in Nat, position <= position',
         r.op = "position" => r.at <= position'
  PROVE  /\ StepTypes'
         /\ IsFiniteSet(Sharing) /\ IsFiniteSet(Sharing')
         /\ Cardinality(Sharing) \in Nat /\ Cardinality(Sharing') \in Nat
         /\ r.op # "share" => Cardinality(Sharing') <= Cardinality(Sharing)
         /\ r.op # "share" /\ At(s, "share") => Cardinality(Sharing') = Cardinality(Sharing) - 1
         /\ Cardinality(Sharing') <= Cardinality(Sharing) + 1
<1>1. /\ slots' \in [Slots -> DeskSteps] /\ slots'[s] = r
      /\ \A t \in Slots : t # s => slots'[t] = slots[t]
  BY DEF StepTypes, Goes
<1>2. StepTypes'
  <2> SUFFICES ASSUME NEW t \in Slots, At(t, "position")' PROVE slots'[t].at <= position'
    BY <1>1 DEF StepTypes
  <2>1. CASE t = s BY <1>1, <2>1 DEF At
  <2>2. CASE t # s
    <3>1. slots'[t] = slots[t] /\ slots[t].op = "position" BY <1>1, <2>2 DEF At
    <3>2. slots[t].at \in Nat /\ slots[t].at <= position
      BY <3>1, DeskCarries DEF StepTypes, At
    <3> QED BY <3>1, <3>2
  <2> QED BY <2>1, <2>2
<1>3. IsFiniteSet(Sharing) /\ Cardinality(Sharing) \in Nat BY FS_CardinalityType DEF RoomForLinks
<1>4. CASE r.op = "share"
  <2>1. Sharing' = Sharing \cup {s} BY <1>1, <1>4 DEF Sharing, At
  <2>2. /\ IsFiniteSet(Sharing')
        /\ Cardinality(Sharing') = IF s \in Sharing THEN Cardinality(Sharing) ELSE Cardinality(Sharing) + 1
    BY <1>3, <2>1, FS_AddElement
  <2>3. Cardinality(Sharing') \in Nat BY <2>2, FS_CardinalityType
  <2> QED BY <1>2, <1>3, <1>4, <2>2, <2>3
<1>5. CASE r.op # "share"
  <2>1. Sharing' = Sharing \ {s} BY <1>1, <1>5 DEF Sharing, At
  <2>2. At(s, "share") <=> s \in Sharing BY DEF Sharing
  <2>3. /\ IsFiniteSet(Sharing') /\ Cardinality(Sharing') \in Nat
        /\ Cardinality(Sharing') = IF s \in Sharing THEN Cardinality(Sharing) - 1 ELSE Cardinality(Sharing)
    BY <1>3, <2>1, FS_RemoveElement, FS_CardinalityType
  <2> QED BY <1>2, <1>3, <1>5, <2>2, <2>3
<1> QED BY <1>4, <1>5

\* A handler that makes no link moves, or the server stops.
LEMMA DeskMoves ==
  ASSUME DeskTypes, UNCHANGED shares, position' \in Nat, position <= position',
         \/ UNCHANGED slots
         \/ slots' = AllIdle
         \/ \E s \in Slots, r \in DeskSteps :
              Goes(s, r) /\ r.op # "share" /\ (r.op = "position" => r.at <= position')
  PROVE  StepTypes' /\ RoomForLinks'
<1>0. position \in Nat /\ Len(shares) \in Nat /\ Cardinality(Sharing) \in Nat
  BY FS_CardinalityType, LenProperties DEF DeskTypes, TripTypes, RoomForLinks
<1> USE DeskAssumption
<1>1. CASE UNCHANGED slots
  <2>1. Sharing' = Sharing BY <1>1 DEF Sharing, At
  <2>2. \A t \in Slots : At(t, "position") => slots[t].at \in Nat
    BY DeskCarries DEF DeskTypes, StepTypes, At
  <2> QED BY <1>0, <1>1, <2>1, <2>2 DEF DeskTypes, StepTypes, RoomForLinks, At
<1>2. CASE slots' = AllIdle
  <2>1. Sharing' = {} BY <1>2 DEF Sharing, At, AllIdle, Idle
  <2>2. IsFiniteSet(Sharing') /\ Cardinality(Sharing') = 0 BY <2>1, FS_EmptySet
  <2>3. RoomForLinks' BY <1>0, <2>2 DEF DeskTypes, RoomForLinks
  <2>4. StepTypes' BY <1>2 DEF StepTypes, At, AllIdle, DeskSteps, Alarms, Idle
  <2> QED BY <2>3, <2>4
<1>3. ASSUME NEW s \in Slots, NEW r \in DeskSteps, Goes(s, r), r.op # "share",
             r.op = "position" => r.at <= position'
      PROVE  StepTypes' /\ RoomForLinks'
  <2>1. /\ StepTypes' /\ IsFiniteSet(Sharing') /\ Cardinality(Sharing') \in Nat
        /\ Cardinality(Sharing') <= Cardinality(Sharing)
    BY <1>0, <1>3, DeskGoes DEF DeskTypes
  <2> QED BY <1>0, <2>1 DEF DeskTypes, RoomForLinks
<1> QED BY <1>1, <1>2, <1>3

\* What a trip, and its links and alerts, become.
LEMMA DeskTripStep ==
  ASSUME DeskTypes, TripStep
  PROVE  TripTypes' /\ StepTypes' /\ RoomForLinks'
<1> USE DeskAssumption
<1>0. /\ TripTypes /\ StepTypes /\ RoomForLinks
      /\ position \in Nat /\ Len(shares) \in Nat /\ Len(alerts) \in Nat
      /\ slots \in [Slots -> DeskSteps]
  BY LenProperties DEF DeskTypes, TripTypes, StepTypes
<1>1. ASSUME UNCHANGED tripDocs PROVE TripTypes' /\ UNCHANGED shares /\ position' \in Nat /\ position <= position'
  BY <1>0, <1>1 DEF tripDocs, TripTypes
<1>2. ASSUME NEW s \in Slots, NEW next \in Alarms, UNCHANGED tripDocs,
             Goes(s, [op |-> "look", next |-> next])
      PROVE  TripTypes' /\ StepTypes' /\ RoomForLinks'
  <2> DEFINE r == [op |-> "look", next |-> next]
  <2>1. r \in DeskSteps /\ r.op = "look" BY DEF DeskSteps
  <2>2. Goes(s, r) BY <1>2
  <2> HIDE DEF r
  <2> QED BY <1>1, <1>2, <2>1, <2>2, DeskMoves
<1>3. ASSUME NEW s \in Slots, ShareAsked(s) PROVE TripTypes' /\ StepTypes' /\ RoomForLinks'
  BY <1>2, <1>3 DEF ShareAsked, Starts, Alarms
<1>4. ASSUME NEW s \in Slots, NEW p \in Parties, SosAsked(s, p)
      PROVE  TripTypes' /\ StepTypes' /\ RoomForLinks'
  <2>1. PICK next \in {Idle, [op |-> "alert", by |-> p]} : Goes(s, [op |-> "look", next |-> next])
    BY <1>4 DEF SosAsked, Starts
  <2>2. next \in Alarms BY DEF Alarms
  <2> QED BY <1>2, <1>4, <2>1, <2>2 DEF SosAsked
<1>5. ASSUME NEW s \in Slots, ShareLooked(s) PROVE TripTypes' /\ StepTypes' /\ RoomForLinks'
  <2> DEFINE r == IF ActiveShares # {} THEN slots[s].next ELSE [slots[s] EXCEPT !.op = "share"]
  <2>1. Goes(s, r) /\ UNCHANGED tripDocs BY <1>5 DEF ShareLooked
  <2>2. slots[s] = [op |-> "look", next |-> slots[s].next] /\ slots[s].next \in Alarms
    BY <1>0, <1>5, DeskCarries DEF ShareLooked, At
  <2>3. CASE ActiveShares # {}
    <3>1. r = slots[s].next BY <2>3
    <3> HIDE DEF r
    <3>2. r \in DeskSteps /\ r.op # "share" /\ r.op # "position"
      BY <2>2, <3>1 DEF DeskSteps, Alarms, Idle
    <3> QED BY <1>1, <2>1, <3>2, DeskMoves
  <2>4. CASE ActiveShares = {}
    <3>1. r = [op |-> "share", next |-> slots[s].next]
      <4>1. [[op |-> "look", next |-> slots[s].next] EXCEPT !.op = "share"] =
              [op |-> "share", next |-> slots[s].next]
        OBVIOUS
      <4> QED BY <2>2, <2>4, <4>1
    <3>2. r \in DeskSteps /\ r.op # "position"
      <4>1. r \in [op : {"look", "share"}, next : Alarms] BY <2>2, <3>1
      <4> HIDE DEF r
      <4> QED BY <3>1, <4>1 DEF DeskSteps
    <3> HIDE DEF r
    <3>3. TripTypes' /\ UNCHANGED shares /\ position' \in Nat /\ position <= position' BY <1>1, <2>1
    <3>4. /\ StepTypes' /\ IsFiniteSet(Sharing') /\ Cardinality(Sharing') \in Nat
          /\ Cardinality(Sharing) \in Nat /\ Cardinality(Sharing') <= Cardinality(Sharing) + 1
      BY <1>0, <2>1, <3>2, <3>3, DeskGoes
    <3>5. Len(shares) + Cardinality(Sharing) < MaxMade BY <1>5 DEF ShareLooked, AtStep, Sharing
    <3> QED BY <1>0, <3>3, <3>4, <3>5 DEF RoomForLinks
  <2> QED BY <2>3, <2>4
<1>6. ASSUME NEW s \in Slots, ShareCreated(s) PROVE TripTypes' /\ StepTypes' /\ RoomForLinks'
  <2> DEFINE doc == [revoked |-> FALSE, last |-> 0]
             r == slots[s].next
  <2>1. /\ shares' = Append(shares, doc) /\ Goes(s, r)
        /\ UNCHANGED <<trip, alerts, position>> /\ At(s, "share")
    BY <1>6 DEF ShareCreated
  <2>2. doc \in LinkDocs /\ doc.last = 0 BY DEF LinkDocs
  <2>3. r \in DeskSteps /\ r.op # "share" /\ r.op # "position"
    <3>1. r \in Alarms BY <1>0, <2>1, DeskCarries DEF At
    <3> HIDE DEF r
    <3> QED BY <3>1 DEF DeskSteps, Alarms, Idle
  <2> HIDE DEF doc, r
  <2>4. /\ shares' \in Seq(LinkDocs) /\ Len(shares') = Len(shares) + 1
        /\ DOMAIN shares' = DOMAIN shares \cup {Len(shares')}
        /\ shares'[Len(shares')] = doc /\ \A i \in DOMAIN shares : shares'[i] = shares[i]
    BY <1>0, <2>1, <2>2, AndOneMore DEF TripTypes
  <2>5. TripTypes' BY <1>0, <2>1, <2>2, <2>4 DEF TripTypes
  <2>6. /\ StepTypes' /\ IsFiniteSet(Sharing') /\ Cardinality(Sharing') \in Nat
        /\ Cardinality(Sharing) \in Nat /\ Cardinality(Sharing') = Cardinality(Sharing) - 1
    BY <1>0, <2>1, <2>3, DeskGoes
  <2>7. RoomForLinks' BY <1>0, <2>4, <2>6 DEF RoomForLinks
  <2> QED BY <2>5, <2>6, <2>7
<1>7. ASSUME NEW s \in Slots, AlertCreated(s) PROVE TripTypes' /\ StepTypes' /\ RoomForLinks'
  <2> DEFINE doc == [by |-> slots[s].by, status |-> "active"]
  <2>1. /\ alerts' = Append(alerts, doc) /\ Goes(s, Idle) /\ Len(alerts) < MaxMade
        /\ UNCHANGED <<trip, shares, position>>
    BY <1>7 DEF AlertCreated, Ends
  <2>2. doc \in AlertDocs
    <3>1. slots[s].by \in Parties BY <1>0, <1>7, DeskCarries DEF AlertCreated, At
    <3> QED BY <3>1 DEF AlertDocs
  <2> HIDE DEF doc
  <2>3. alerts' \in Seq(AlertDocs) /\ Len(alerts') = Len(alerts) + 1
    BY <1>0, <2>1, <2>2, AndOneMore DEF TripTypes
  <2>4. TripTypes' BY <1>0, <2>1, <2>3 DEF TripTypes
  <2>5. StepTypes' /\ RoomForLinks'
    BY <1>0, <2>1, DeskMoves DEF DeskSteps, Alarms, Idle
  <2> QED BY <2>4, <2>5
<1>8. ASSUME NEW s \in Slots, CollectorMoved(s) PROVE TripTypes' /\ StepTypes' /\ RoomForLinks'
  <2> DEFINE r == [op |-> "position", at |-> position + 1]
  <2>1. Goes(s, r) /\ UNCHANGED <<trip, shares, alerts>> /\ position' = position + 1
    BY <1>8 DEF CollectorMoved, Starts
  <2>2. r \in DeskSteps /\ r.op # "share" /\ r.at = position + 1 BY <1>0 DEF DeskSteps
  <2> HIDE DEF r
  <2>3. \A i \in DOMAIN shares : shares[i].last \in Nat /\ shares[i].last <= position
    <3>1. \A i \in DOMAIN shares : shares[i] \in LinkDocs
      BY <1>0, ElementOfSeq, LenProperties DEF TripTypes
    <3> QED BY <1>0, <3>1 DEF LinkDocs, TripTypes
  <2>4. TripTypes' BY <1>0, <2>1, <2>3 DEF TripTypes
  <2>5. r.at <= position' /\ position' \in Nat /\ position <= position' BY <1>0, <2>1, <2>2
  <2>6. StepTypes' /\ RoomForLinks' BY <2>1, <2>2, <2>5, DeskMoves
  <2> QED BY <2>4, <2>6
<1>9. ASSUME NEW s \in Slots, PositionCopied(s) PROVE TripTypes' /\ StepTypes' /\ RoomForLinks'
  <2>1. Goes(s, Idle) /\ UNCHANGED <<trip, alerts, position>>
    BY <1>9 DEF PositionCopied, Ends
  <2>2. Idle \in DeskSteps /\ Idle.op # "share" /\ Idle.op # "position"
    BY DEF DeskSteps, Alarms, Idle
  <2>3. /\ StepTypes' /\ IsFiniteSet(Sharing') /\ Cardinality(Sharing') \in Nat
        /\ Cardinality(Sharing) \in Nat /\ Cardinality(Sharing') <= Cardinality(Sharing)
    BY <1>0, <2>1, <2>2, DeskGoes
  <2>4. CASE shares' = shares
    BY <1>0, <2>1, <2>3, <2>4 DEF TripTypes, RoomForLinks
  <2>5. ASSUME NEW i \in ActiveShares, shares' = [shares EXCEPT ![i].last = slots[s].at]
        PROVE  TripTypes' /\ RoomForLinks'
    <3> DEFINE doc == [shares[i] EXCEPT !.last = slots[s].at]
    <3>1. i \in DOMAIN shares /\ i \in 1..Len(shares) /\ DOMAIN shares = 1..Len(shares)
      BY <1>0, LenProperties DEF ActiveShares, TripTypes
    <3>2. slots[s].at \in Nat /\ slots[s].at <= position
      BY <1>0, <1>9, DeskCarries DEF PositionCopied, At, StepTypes
    <3>3. doc \in LinkDocs /\ doc.last = slots[s].at
      <4>1. shares[i] \in LinkDocs BY <1>0, <3>1, ElementOfSeq DEF TripTypes
      <4> QED BY <3>2, <4>1 DEF LinkDocs
    <3>4. shares' = [shares EXCEPT ![i] = doc] BY <2>5
    <3> HIDE DEF doc
    <3>5. /\ shares' \in Seq(LinkDocs) /\ Len(shares') = Len(shares)
          /\ \A j \in 1..Len(shares) : shares'[j] = IF j = i THEN doc ELSE shares[j]
      BY <1>0, <3>1, <3>3, <3>4, ExceptSeq DEF TripTypes
    <3>6. DOMAIN shares' = 1..Len(shares) BY <3>5, LenProperties
    <3>7. \A j \in DOMAIN shares' : shares'[j].last <= position
      BY <1>0, <3>1, <3>2, <3>3, <3>5, <3>6 DEF TripTypes
    <3>8. TripTypes' BY <1>0, <2>1, <3>5, <3>7 DEF TripTypes
    <3>9. RoomForLinks' BY <1>0, <2>3, <3>5 DEF RoomForLinks
    <3> QED BY <3>8, <3>9
  <2> QED BY <1>9, <2>3, <2>4, <2>5 DEF PositionCopied
<1>10. ASSUME NEW i \in DOMAIN alerts, AlertResolved(i) PROVE TripTypes' /\ StepTypes' /\ RoomForLinks'
  <2> DEFINE doc == [alerts[i] EXCEPT !.status = "resolved"]
  <2>1. i \in 1..Len(alerts) BY <1>0, LenProperties DEF TripTypes
  <2>2. doc \in AlertDocs
    <3>1. alerts[i] \in AlertDocs BY <1>0, <2>1, ElementOfSeq DEF TripTypes
    <3> QED BY <3>1 DEF AlertDocs
  <2>3. alerts' = [alerts EXCEPT ![i] = doc] /\ UNCHANGED <<trip, shares, position, slots>>
    BY <1>10 DEF AlertResolved
  <2> HIDE DEF doc
  <2>4. alerts' \in Seq(AlertDocs) /\ Len(alerts') = Len(alerts)
    BY <1>0, <2>1, <2>2, <2>3, ExceptSeq DEF TripTypes
  <2>5. TripTypes' BY <1>0, <2>3, <2>4 DEF TripTypes
  <2> QED BY <1>0, <2>3, <2>5, DeskMoves
<1>11. CASE SharingStopped
  <2> DEFINE new(i) == [shares[i] EXCEPT !.revoked = shares[i].revoked \/ i \in Revoked]
  <2>1. /\ shares' = [i \in DOMAIN shares |-> new(i)]
        /\ UNCHANGED <<trip, alerts, position, slots>>
    BY <1>11 DEF SharingStopped
  <2>2. DOMAIN shares = 1..Len(shares) BY <1>0, LenProperties DEF TripTypes
  <2>3. ASSUME NEW i \in DOMAIN shares PROVE new(i) \in LinkDocs /\ new(i).last = shares[i].last
    <3>1. shares[i] \in LinkDocs BY <1>0, <2>2, ElementOfSeq DEF TripTypes
    <3>2. PICK revoked \in BOOLEAN : revoked = (shares[i].revoked \/ i \in Revoked) OBVIOUS
    <3>3. new(i) = [shares[i] EXCEPT !.revoked = revoked] BY <3>2
    <3>4. /\ [shares[i] EXCEPT !.revoked = revoked] \in LinkDocs
          /\ [shares[i] EXCEPT !.revoked = revoked].last = shares[i].last
      BY <3>1 DEF LinkDocs
    <3> HIDE DEF new
    <3> QED BY <3>3, <3>4
  <2> HIDE DEF new
  <2>4. shares' \in Seq(LinkDocs) /\ Len(shares') = Len(shares) /\ DOMAIN shares' = DOMAIN shares
    BY <1>0, <2>1, <2>2, <2>3
  <2>5. \A i \in DOMAIN shares' : shares'[i].last <= position
    BY <1>0, <2>1, <2>3, <2>4 DEF TripTypes
  <2>6. TripTypes' BY <1>0, <2>1, <2>4, <2>5 DEF TripTypes
  <2>7. Sharing' = Sharing BY <2>1 DEF Sharing, At
  <2>8. StepTypes' BY <1>0, <2>1 DEF StepTypes, At
  <2> QED BY <1>0, <2>4, <2>6, <2>7, <2>8 DEF RoomForLinks
<1>12. CASE TripMoves
  <2>1. TripTypes' BY <1>0, <1>12 DEF TripMoves, TripTypes
  <2> QED BY <1>0, <1>12, <2>1, DeskMoves DEF TripMoves
<1> QED BY <1>3, <1>4, <1>5, <1>6, <1>7, <1>8, <1>9, <1>10, <1>11, <1>12 DEF TripStep

\* A list with its i-th entry written over, wherever i is.
LEMMA TicketWritten ==
  ASSUME NEW l \in Seq(TicketDocs), NEW i, NEW e, i \in DOMAIN l => e \in TicketDocs
  PROVE  [l EXCEPT ![i] = e] \in Seq(TicketDocs)
<1>1. DOMAIN l = 1..Len(l) BY LenProperties
<1>2. CASE i \in DOMAIN l BY <1>1, <1>2, ExceptSeq
<1>3. CASE i \notin DOMAIN l
  <2>1. [l EXCEPT ![i] = e] = l BY <1>1, <1>3
  <2> QED BY <2>1
<1> QED BY <1>2, <1>3

LEMMA DeskTicketStep ==
  ASSUME DeskTypes, TicketStep, UNCHANGED <<tripDocs, partners, dropOff>>
  PROVE  DeskTypes'
<1> USE DeskAssumption
<1>0. /\ TripTypes /\ TicketTypes /\ StepTypes /\ RoomForLinks
      /\ position \in Nat /\ slots \in [Slots -> DeskSteps]
      /\ UNCHANGED <<shares, position>> /\ position' \in Nat /\ position <= position'
  BY DEF DeskTypes, TripTypes, StepTypes, tripDocs
<1>1. TripTypes' /\ DeliveryTypes' BY DEF DeskTypes, TripTypes, DeliveryTypes, tripDocs
<1>2. ASSUME NEW s \in Slots, NEW r \in DeskSteps, Goes(s, r), r.op \notin {"share", "position"},
             TicketTypes'
      PROVE  DeskTypes'
  <2>1. StepTypes' /\ RoomForLinks' BY <1>0, <1>2, DeskMoves
  <2> QED BY <1>1, <1>2, <2>1 DEF DeskTypes
<1>3. Idle \in DeskSteps /\ Idle.op = "idle" BY DEF DeskSteps, Alarms, Idle
<1>4. ASSUME NEW s \in Slots, Ends(s), TicketTypes' PROVE DeskTypes'
  BY <1>2, <1>3, <1>4 DEF Ends
<1>5. ASSUME UNCHANGED tickets PROVE TicketTypes' BY <1>0, <1>5 DEF TicketTypes
<1>6. \A i \in DOMAIN tickets : i \in Nat /\ tickets[i] \in TicketDocs
  BY <1>0, ElementOfSeq, LenProperties DEF TicketTypes
<1>7. ASSUME NEW s \in Slots, TicketAsked(s) PROVE DeskTypes'
  <2> DEFINE r == [op |-> "ticket"]
  <2>1. r \in DeskSteps /\ r.op = "ticket" BY DEF DeskSteps
  <2>2. Goes(s, r) /\ UNCHANGED tickets BY <1>7 DEF TicketAsked, Starts
  <2> HIDE DEF r
  <2> QED BY <1>2, <1>5, <2>1, <2>2
<1>8. ASSUME NEW s \in Slots, TicketCreated(s) PROVE DeskTypes'
  <2> DEFINE doc == [status |-> "open", last |-> "requester"]
  <2>1. doc \in TicketDocs BY DEF TicketDocs, Statuses, Speakers
  <2>2. tickets' = Append(tickets, doc) /\ Ends(s) BY <1>8 DEF TicketCreated
  <2> HIDE DEF doc
  <2>3. TicketTypes' BY <1>0, <2>1, <2>2 DEF TicketTypes
  <2> QED BY <1>4, <2>2, <2>3
<1>9. ASSUME NEW s \in Slots, NEW i \in DOMAIN tickets, NEW by \in Speakers, ReplyArrives(s, i, by)
      PROVE  DeskTypes'
  <2> DEFINE r == [op |-> "reply", of |-> i, by |-> by, had |-> tickets[i]]
  <2>1. r \in DeskSteps /\ r.op = "reply"
    <3>1. r \in [op : {"reply"}, of : Nat, by : Speakers, had : TicketDocs] BY <1>6
    <3> HIDE DEF r
    <3> QED BY <3>1 DEF DeskSteps
  <2>2. Goes(s, r) /\ UNCHANGED tickets BY <1>9 DEF ReplyArrives, Starts
  <2> HIDE DEF r
  <2> QED BY <1>2, <1>5, <2>1, <2>2
<1>10. ASSUME NEW s \in Slots, NEW i \in DOMAIN tickets, NEW to \in Statuses, StatusArrives(s, i, to)
       PROVE  DeskTypes'
  <2> DEFINE r == [op |-> "status", of |-> i, to |-> to]
  <2>1. r \in DeskSteps /\ r.op = "status"
    <3>1. r \in [op : {"status"}, of : Nat, to : Statuses] BY <1>6
    <3> HIDE DEF r
    <3> QED BY <3>1 DEF DeskSteps
  <2>2. Goes(s, r) /\ UNCHANGED tickets BY <1>10 DEF StatusArrives, Starts
  <2> HIDE DEF r
  <2> QED BY <1>2, <1>5, <2>1, <2>2
<1>11. ASSUME NEW s \in Slots, ReplySaved(s) PROVE DeskTypes'
  <2> DEFINE had == slots[s].had
             by  == slots[s].by
             of  == slots[s].of
             now == [status |-> Replied(had, by), last |-> by]
             doc == [f \in DOMAIN now |-> IF now[f] = had[f] THEN tickets[of][f] ELSE now[f]]
  <2>1. by \in Speakers /\ had \in TicketDocs
    BY <1>0, <1>11, DeskCarries DEF ReplySaved, At
  <2>2. tickets' = [tickets EXCEPT ![of] = doc] /\ Ends(s) BY <1>11 DEF ReplySaved
  <2> HIDE DEF had, by, of
  <2>3. Replied(had, by) \in Statuses
    <3>1. had.status \in Statuses BY <2>1 DEF TicketDocs
    <3> QED BY <3>1 DEF Replied, Statuses
  <2>4. now.status \in Statuses /\ now.last \in Speakers /\ DOMAIN now = {"status", "last"}
    BY <2>1, <2>3
  <2> HIDE DEF now
  <2>5. ASSUME of \in DOMAIN tickets PROVE doc \in TicketDocs
    <3>1. tickets[of].status \in Statuses /\ tickets[of].last \in Speakers
      BY <1>6, <2>5 DEF TicketDocs
    <3>2. /\ doc = [f \in {"status", "last"} |->
                      IF now[f] = had[f] THEN tickets[of][f] ELSE now[f]]
      BY <2>4
    <3>3. doc["status"] \in Statuses /\ doc["last"] \in Speakers BY <2>4, <3>1, <3>2
    <3>4. doc = [status |-> doc["status"], last |-> doc["last"]] BY <3>2
    <3> HIDE DEF doc
    <3> QED BY <3>3, <3>4 DEF TicketDocs
  <2> HIDE DEF doc
  <2>6. TicketTypes' BY <1>0, <2>2, <2>5, TicketWritten DEF TicketTypes
  <2> QED BY <1>4, <2>2, <2>6
<1>12. ASSUME NEW s \in Slots, StatusSaved(s) PROVE DeskTypes'
  <2> DEFINE of  == slots[s].of
             doc == [tickets[of] EXCEPT !.status = slots[s].to]
  <2>1. slots[s].to \in Statuses BY <1>0, <1>12, DeskCarries DEF StatusSaved, At
  <2>2. tickets' = [tickets EXCEPT ![of] = doc] /\ Ends(s) BY <1>12 DEF StatusSaved
  <2>3. ASSUME of \in DOMAIN tickets PROVE doc \in TicketDocs
    <3>1. tickets[of] \in TicketDocs BY <1>6, <2>3
    <3> QED BY <2>1, <3>1 DEF TicketDocs
  <2> HIDE DEF of, doc
  <2>4. TicketTypes' BY <1>0, <2>2, <2>3, TicketWritten DEF TicketTypes
  <2> QED BY <1>4, <2>2, <2>4
<1> QED BY <1>7, <1>8, <1>9, <1>10, <1>11, <1>12 DEF TicketStep, Speakers, Statuses

LEMMA DeskDeliveryStep ==
  ASSUME DeskTypes, DeliveryStep, UNCHANGED <<tripDocs, tickets>>
  PROVE  DeskTypes'
<1> USE DeskAssumption
<1>0. /\ DeliveryTypes /\ StepTypes /\ RoomForLinks
      /\ position \in Nat /\ slots \in [Slots -> DeskSteps]
      /\ UNCHANGED <<shares, position>> /\ position' \in Nat /\ position <= position'
  BY DEF DeskTypes, TripTypes, StepTypes, tripDocs
<1>1. TripTypes' /\ TicketTypes' BY DEF DeskTypes, TripTypes, TicketTypes, tripDocs
<1>2. ASSUME NEW s \in Slots, NEW ls \in SUBSET Hauls \ {{}}, NEW p \in Partners, DropOffArrives(s, ls, p)
      PROVE  DeskTypes'
  <2> DEFINE r == [op |-> "drop", hauls |-> ls, at |-> p]
  <2>1. r \in DeskSteps /\ r.op = "drop" BY DEF DeskSteps
  <2>2. Goes(s, r) /\ UNCHANGED <<partners, dropOff>> BY <1>2 DEF DropOffArrives, Starts
  <2> HIDE DEF r
  <2>3. StepTypes' /\ RoomForLinks' BY <1>0, <2>1, <2>2, DeskMoves
  <2> QED BY <1>0, <1>1, <2>2, <2>3 DEF DeskTypes, DeliveryTypes
<1>3. ASSUME NEW s \in Slots, DropOffRecorded(s) PROVE DeskTypes'
  <2>1. slots[s].at \in Partners BY <1>0, <1>3, DeskCarries DEF DropOffRecorded, At
  <2>2. DeliveryTypes' BY <1>0, <1>3, <2>1 DEF DropOffRecorded, DeliveryTypes
  <2>3. Goes(s, Idle) /\ Idle \in DeskSteps /\ Idle.op \notin {"share", "position"}
    BY <1>3 DEF DropOffRecorded, Ends, DeskSteps, Alarms, Idle
  <2>4. StepTypes' /\ RoomForLinks' BY <1>0, <2>3, DeskMoves
  <2> QED BY <1>1, <2>2, <2>4 DEF DeskTypes
<1>4. ASSUME NEW p \in Partners, PartnerSwitched(p) PROVE DeskTypes'
  <2>1. DeliveryTypes' /\ UNCHANGED slots BY <1>0, <1>4 DEF PartnerSwitched, DeliveryTypes
  <2>2. StepTypes' /\ RoomForLinks' BY <1>0, <2>1, DeskMoves
  <2> QED BY <1>1, <2>1, <2>2 DEF DeskTypes
<1> QED BY <1>2, <1>3, <1>4 DEF DeliveryStep

\* Links, alerts, tickets and deliveries are always of their types: no link is told
\* a position the collector has not been at, and no more links and alerts are made
\* than the bound says, however many requests look for one at the same time.
THEOREM DeskIsTyped == DeskSpec => []DeskTypeOK
<1> USE DeskAssumption
<1>1. DeskInit => DeskTypes
  <2> SUFFICES ASSUME DeskInit PROVE DeskTypes OBVIOUS
  <2>1. Sharing = {} BY DEF DeskInit, Sharing, At, AllIdle, Idle
  <2>2. RoomForLinks BY <2>1, FS_EmptySet DEF DeskInit, RoomForLinks
  <2>3. StepTypes BY DEF DeskInit, StepTypes, At, AllIdle, DeskSteps, Alarms, Idle
  <2>4. TripTypes /\ TicketTypes /\ DeliveryTypes
    BY DEF DeskInit, TripTypes, TicketTypes, DeliveryTypes
  <2> QED BY <2>2, <2>3, <2>4 DEF DeskTypes
<1>2. DeskTypes /\ [DeskNext]_deskVars => DeskTypes'
  <2> SUFFICES ASSUME DeskTypes, [DeskNext]_deskVars PROVE DeskTypes' OBVIOUS
  <2>1. CASE TripStep /\ UNCHANGED <<matter, tickets, partners, dropOff>>
    BY <2>1, DeskTripStep DEF DeskTypes, TicketTypes, DeliveryTypes
  <2>2. ASSUME UNCHANGED deskDocs, UNCHANGED slots \/ slots' = AllIdle PROVE DeskTypes'
    <3>1. /\ TripTypes' /\ TicketTypes' /\ DeliveryTypes' /\ UNCHANGED <<shares, position>>
          /\ position \in Nat /\ position' \in Nat /\ position <= position'
      BY <2>2 DEF deskDocs, DeskTypes, TripTypes, TicketTypes, DeliveryTypes
    <3>2. StepTypes' /\ RoomForLinks' BY <2>2, <3>1, DeskMoves
    <3> QED BY <3>1, <3>2 DEF DeskTypes
  <2>3. CASE DeskStops BY <2>2, <2>3 DEF DeskStops, Restarts
  <2>4. CASE UNCHANGED deskVars BY <2>2, <2>4 DEF deskVars
  <2> QED BY <2>1, <2>3, <2>4, DeskTicketStep, DeskDeliveryStep DEF DeskNext
<1>3. DeskTypes => DeskTypeOK
  <2> SUFFICES ASSUME DeskTypes PROVE DeskTypeOK OBVIOUS
  <2>0. TripTypes /\ TicketTypes /\ DeliveryTypes /\ RoomForLinks BY DEF DeskTypes
  <2>1. shares \in Seq([revoked : BOOLEAN, last : 0..position])
    <3>1. Len(shares) \in Nat /\ DOMAIN shares = 1..Len(shares) BY <2>0, LenProperties DEF TripTypes
    <3>2. ASSUME NEW i \in 1..Len(shares) PROVE shares[i] \in [revoked : BOOLEAN, last : 0..position]
      <4>1. shares[i] \in LinkDocs /\ shares[i].last <= position
        BY <2>0, <3>1, ElementOfSeq DEF TripTypes
      <4> QED BY <2>0, <4>1 DEF LinkDocs, TripTypes
    <3>3. shares \in [1..Len(shares) -> LinkDocs] BY <2>0, LenProperties DEF TripTypes
    <3> DEFINE Placed == [revoked : BOOLEAN, last : 0..position]
    <3>4. \A i \in 1..Len(shares) : shares[i] \in Placed BY <3>2
    <3> HIDE DEF Placed
    <3>5. shares \in [1..Len(shares) -> Placed] BY <3>3, <3>4
    <3>6. shares \in Seq(Placed) BY <3>1, <3>5
    <3> QED BY <3>6 DEF Placed
  <2>2. Len(shares) <= MaxMade
    <3>1. Len(shares) \in Nat /\ Cardinality(Sharing) \in Nat
      BY <2>0, LenProperties, FS_CardinalityType DEF TripTypes, RoomForLinks
    <3> QED BY <2>0, <3>1 DEF RoomForLinks
  <2> QED BY <2>0, <2>1, <2>2
        DEF DeskTypeOK, TripTypes, TicketTypes, DeliveryTypes, AlertDocs, TicketDocs, Statuses, Speakers
<1> QED BY <1>1, <1>2, <1>3, PTL DEF DeskSpec

-----------------------------------------------------------------------------
(* Recurring: types.                                                        *)

Date == Nat \cup {NoDate}

TemplateDocs ==
  [live : {TRUE}, active : BOOLEAN, every : Periods, next : Nat, last : Date,
   until : Date, born : Nat]

Spawns == [run : Date, day : Date, before : Date]

Loaded == UNION {[D -> [every : Periods, next : Nat]] : D \in SUBSET Templates}

JobShape ==
  \/ job = NoJob
  \/ job = [step |-> "create", loaded |-> job.loaded] /\ job.loaded \in Loaded
  \/ /\ job = [step |-> "save", loaded |-> job.loaded, of |-> job.of]
     /\ job.loaded \in Loaded /\ job.of \in DOMAIN job.loaded

\* An edit under way holds the fields in which two templates differ.
EditShape(s) ==
  At(s, "edit") => /\ slots[s].of \in Templates
                   /\ \E had, d \in TemplateDocs : slots[s].set = Modified(had, d)

RecurringShape ==
  /\ today \in 0..MaxDay
  /\ templates \in [Templates -> TemplateDocs \cup {NoTemplate}]
  /\ spawned \in [Templates -> Spawns]
  /\ JobShape
  /\ raced \subseteq Templates
  /\ DOMAIN slots = Slots
  /\ \A s \in Slots : EditShape(s)

\* A series that stays on its rhythm goes on from a date to one on or after another.
LEMMA FirstRun ==
  ASSUME NEW every \in Periods, NEW from \in Nat, NEW target \in Nat
  PROVE  /\ FirstRunOnOrAfter(every, from, target) \in Nat
         /\ FirstRunOnOrAfter(every, from, target) >= from
         /\ FirstRunOnOrAfter(every, from, target) >= target
<1>1. every \in Nat \ {0} BY RecurringAssumption
<1>2. CASE from >= target BY <1>2 DEF FirstRunOnOrAfter
<1>3. CASE ~(from >= target)
  <2> DEFINE n == target - from
             k == (n + every - 1) \div every
  <2>1. n \in Nat BY <1>3
  <2>2. k \in Nat BY <1>1, <2>1
  <2>3. every * k >= n BY <1>1, <2>1
  <2>4. every * k \in Nat BY <1>1, <2>2
  <2>5. FirstRunOnOrAfter(every, from, target) = from + every * k
    BY <1>1, <1>3 DEF FirstRunOnOrAfter
  <2> HIDE DEF k
  <2> QED BY <1>1, <2>1, <2>3, <2>4, <2>5
<1> QED BY <1>2, <1>3

\* What the requester's handlers make of a template is a template, and its next
\* run lies ahead, or no earlier than it did.
LEMMA EditsAhead ==
  ASSUME NEW d \in TemplateDocs, today \in Nat, NEW e \in Edits(d)
  PROVE  e \in TemplateDocs /\ (e.next > today \/ e.next >= d.next)
<1> USE RecurringAssumption
<1>0. /\ d.every \in Periods /\ d.next \in Nat /\ d.active \in BOOLEAN /\ d.born \in Nat
      /\ d.last \in Date /\ d.until \in Date /\ Periods \subseteq Nat \ {0}
  BY DEF TemplateDocs
<1>a. d.every \in Nat /\ d.every > 0
  <2>1. d.every \in Nat \ {0} BY <1>0
  <2> QED BY <2>1
<1>1. CASE e = Toggle(d)
  <2> DEFINE n == IF d.active THEN d.next ELSE NextRun(d.every, today)
             active == ~d.active
  <2>1. n \in Nat /\ (n > today \/ n >= d.next) BY <1>0, <1>a DEF NextRun
  <2>2. active \in BOOLEAN BY <1>0
  <2>3. e = [d EXCEPT !.active = active, !.until = NoDate, !.next = n] BY <1>1 DEF Toggle
  <2>4. NoDate \in Date BY DEF Date
  <2> HIDE DEF n, active
  <2> QED BY <1>0, <2>1, <2>2, <2>3, <2>4 DEF TemplateDocs
<1>2. CASE e = ResumeNow(d)
  <2> DEFINE n == NextRun(d.every, today)
  <2>1. n \in Nat /\ n > today BY <1>a DEF NextRun
  <2>2. e = [d EXCEPT !.active = TRUE, !.until = NoDate, !.next = n] BY <1>2 DEF ResumeNow
  <2>3. NoDate \in Date BY DEF Date
  <2> HIDE DEF n
  <2> QED BY <1>0, <2>1, <2>2, <2>3 DEF TemplateDocs
<1>3. CASE e = Skip(d)
  <2> DEFINE n == NextRun(d.every, d.next)
  <2>1. n \in Nat /\ n >= d.next BY <1>0, <1>a DEF NextRun
  <2>2. e = [d EXCEPT !.next = n] BY <1>3 DEF Skip
  <2> HIDE DEF n
  <2> QED BY <1>0, <2>1, <2>2 DEF TemplateDocs
<1>4. ASSUME NEW until \in (today + 1)..MaxDay, e = PauseUntil(d, until)
      PROVE  e \in TemplateDocs /\ (e.next > today \/ e.next >= d.next)
  <2>1. until \in Nat BY <1>4
  <2> DEFINE n == FirstRunOnOrAfter(d.every, d.next, until)
  <2>2. n \in Nat /\ n >= d.next BY <1>0, <2>1, FirstRun
  <2>3. e = [d EXCEPT !.active = TRUE, !.until = until, !.next = n] BY <1>4 DEF PauseUntil
  <2> HIDE DEF n
  <2> QED BY <1>0, <2>1, <2>2, <2>3 DEF TemplateDocs, Date
<1>5. ASSUME NEW every \in Periods, e = ChangeFrequency(d, every)
      PROVE  e \in TemplateDocs /\ (e.next > today \/ e.next >= d.next)
  <2> DEFINE base == IF d.last = NoDate THEN d.born ELSE d.last
             next == IF NextRun(every, base) <= today THEN NextRun(every, today)
                     ELSE NextRun(every, base)
             n == IF d.until # NoDate /\ d.until > today
                  THEN FirstRunOnOrAfter(every, next, d.until) ELSE next
  <2>1. base \in Nat /\ every \in Nat \ {0} BY <1>0 DEF Date
  <2>2. next \in Nat /\ next > today
    <3> HIDE DEF base
    <3> QED BY <2>1 DEF NextRun
  <2>3. n \in Nat /\ n > today
    <3> HIDE DEF next
    <3>1. CASE d.until = NoDate BY <2>2, <3>1
    <3>2. CASE d.until # NoDate
      <4>1. d.until \in Nat BY <1>0, <3>2 DEF Date
      <4>2. FirstRunOnOrAfter(every, next, d.until) \in Nat
            /\ FirstRunOnOrAfter(every, next, d.until) >= next
        BY <2>2, <4>1, FirstRun
      <4> QED BY <2>2, <4>2
    <3> QED BY <3>1, <3>2
  <2>4. e = [d EXCEPT !.every = every, !.next = n] BY <1>5 DEF ChangeFrequency
  <2> HIDE DEF n
  <2> QED BY <1>0, <2>3, <2>4 DEF TemplateDocs
<1> QED BY <1>1, <1>2, <1>3, <1>4, <1>5 DEF Edits

\* What is saved over a template leaves a template, with the next run that was
\* set or the one it had.
LEMMA MergedTyped ==
  ASSUME NEW doc \in TemplateDocs, NEW had \in TemplateDocs, NEW d \in TemplateDocs
  PROVE  /\ Merged(doc, Modified(had, d)) \in TemplateDocs
         /\ IF "next" \in DOMAIN Modified(had, d)
            THEN Merged(doc, Modified(had, d)).next = Modified(had, d).next
            ELSE Merged(doc, Modified(had, d)).next = doc.next
<1> DEFINE F == {"live", "active", "every", "next", "last", "until", "born"}
           set == Modified(had, d)
           new == Merged(doc, set)
<1>1. DOMAIN doc = F /\ DOMAIN had = F BY DEF TemplateDocs
<1>2. DOMAIN set \subseteq F /\ \A f \in DOMAIN set : set[f] = d[f]
  BY <1>1 DEF Modified
<1>3. new = [f \in F |-> IF f \in DOMAIN set THEN set[f] ELSE doc[f]]
  BY <1>1 DEF Merged
<1> HIDE DEF set, new
<1>4. \A f \in F : new[f] = d[f] \/ new[f] = doc[f] BY <1>2, <1>3
<1>5. DOMAIN new = F BY <1>3
<1>6. new \in TemplateDocs
  <2>1. new = [live |-> new["live"], active |-> new["active"], every |-> new["every"],
               next |-> new["next"], last |-> new["last"], until |-> new["until"],
               born |-> new["born"]]
    BY <1>3
  <2>2. /\ new["live"] \in {TRUE} /\ new["active"] \in BOOLEAN /\ new["every"] \in Periods
        /\ new["next"] \in Nat /\ new["last"] \in Date /\ new["until"] \in Date
        /\ new["born"] \in Nat
    BY <1>4 DEF TemplateDocs
  <2> QED BY <2>1, <2>2 DEF TemplateDocs
<1>7. IF "next" \in DOMAIN set THEN new.next = set.next ELSE new.next = doc.next
  BY <1>3
<1> QED BY <1>6, <1>7 DEF set, new

\* The run after a late one still lies ahead.
LEMMA AfterSpawnAhead ==
  ASSUME today \in Nat, NEW d \in [every : Periods, next : Nat]
  PROVE  AfterSpawn(d) \in Nat /\ AfterSpawn(d) > today
<1>1. d.every \in Periods /\ d.next \in Nat OBVIOUS
<1>2. d.every \in Nat \ {0} BY <1>1, RecurringAssumption
<1>3. NextRun(d.every, d.next) \in Nat BY <1>1, <1>2 DEF NextRun
<1> DEFINE n == NextRun(d.every, d.next)
<1>4. /\ FirstRunOnOrAfter(d.every, n, today + 1) \in Nat
      /\ FirstRunOnOrAfter(d.every, n, today + 1) >= today + 1
  <2>1. n \in Nat /\ today + 1 \in Nat BY <1>3
  <2> HIDE DEF n
  <2> QED BY <1>1, <2>1, FirstRun
<1> QED BY <1>4 DEF AfterSpawn

LEMMA RecurringShapeStep ==
  ASSUME RecurringShape, RecurringNext
  PROVE  RecurringShape'
<1> USE RecurringAssumption
<1>0. /\ today \in 0..MaxDay /\ today \in Nat /\ DOMAIN slots = Slots
      /\ templates \in [Templates -> TemplateDocs \cup {NoTemplate}]
      /\ \A t \in Templates : templates[t].live => templates[t] \in TemplateDocs
  <2>1. \A t \in Templates : templates[t] \in TemplateDocs \cup {NoTemplate} BY DEF RecurringShape
  <2> QED BY <2>1 DEF RecurringShape, NoTemplate
<1>a. (NoTemplate \in TemplateDocs \cup {NoTemplate}) /\ NoDate \in Date /\ today \in Date BY <1>0 DEF Date
\* The slots, when one of them goes on to a step that is not an edit, or to an edit.
<1>b. ASSUME NEW s \in Slots, NEW r, Goes(s, r),
             r.op = "edit" => r.of \in Templates /\ \E had, d \in TemplateDocs : r.set = Modified(had, d)
      PROVE  DOMAIN slots' = Slots /\ \A z \in Slots : EditShape(z)'
  <2>1. DOMAIN slots' = Slots /\ \A z \in Slots : slots'[z] = IF z = s THEN r ELSE slots[z]
    BY <1>0, <1>b DEF Goes
  <2> QED BY <1>b, <2>1 DEF RecurringShape, EditShape, At
<1>c. slots' = slots \/ slots' = AllIdle => DOMAIN slots' = Slots /\ \A z \in Slots : EditShape(z)'
  BY DEF RecurringShape, EditShape, At, AllIdle, Idle
<1>d. UNCHANGED job => JobShape' BY DEF RecurringShape, JobShape
<1>1. ASSUME NEW t \in Templates, NEW every \in Periods, RecurringCreated(t, every)
      PROVE  RecurringShape'
  <2> DEFINE r == [live |-> TRUE, active |-> TRUE, every |-> every, next |-> NextRun(every, today),
                   last |-> NoDate, until |-> NoDate, born |-> today]
  <2>0. every \in Nat \ {0} OBVIOUS
  <2>1. NextRun(every, today) \in Nat BY <1>0, <2>0 DEF NextRun
  <2>2. r \in TemplateDocs BY <1>0, <1>a, <2>1 DEF TemplateDocs
  <2>3. templates' = [templates EXCEPT ![t] = r] BY <1>1 DEF RecurringCreated
  <2> HIDE DEF r
  <2> QED BY <1>1, <1>0, <1>c, <1>d, <2>2, <2>3 DEF RecurringShape, RecurringCreated
<1>2. ASSUME NEW t \in Templates, RecurringDeleted(t) PROVE RecurringShape'
  BY <1>2, <1>0, <1>a, <1>c, <1>d DEF RecurringShape, RecurringDeleted
<1>3. ASSUME NEW t \in Templates, JobCreates(t) PROVE RecurringShape'
  <2>1. job = [step |-> "create", loaded |-> job.loaded] /\ job.loaded \in Loaded /\ t \in DOMAIN job.loaded
    BY <1>3 DEF JobCreates, RecurringShape, JobShape, NoJob
  <2>2. PICK D \in SUBSET Templates : job.loaded \in [D -> [every : Periods, next : Nat]]
    BY <2>1 DEF Loaded
  <2>3. job.loaded[t].next \in Date BY <2>1, <2>2 DEF Date
  <2>4. spawned[t].day \in Date BY DEF RecurringShape, Spawns
  <2> DEFINE r == [run |-> job.loaded[t].next, day |-> today, before |-> spawned[t].day]
  <2>5. r \in Spawns BY <1>a, <2>3, <2>4 DEF Spawns
  <2>6. spawned' = [spawned EXCEPT ![t] = r] BY <1>3 DEF JobCreates
  <2> HIDE DEF r
  <2>7. spawned' \in [Templates -> Spawns] BY <2>5, <2>6 DEF RecurringShape
  <2> DEFINE l == job.loaded
  <2>8. job' = [step |-> "save", loaded |-> l, of |-> t] BY <1>3 DEF JobCreates
  <2>9. JobShape'
    <3>1. l \in Loaded /\ t \in DOMAIN l BY <2>1
    <3> HIDE DEF l
    <3>2. job'.loaded = l /\ job'.of = t BY <2>8
    <3>3. job' = [step |-> "save", loaded |-> job'.loaded, of |-> job'.of] BY <2>8, <3>2
    <3>4. Loaded' = Loaded BY DEF Loaded
    <3> QED BY <3>1, <3>2, <3>3, <3>4 DEF JobShape
  <2> QED BY <1>3, <1>0, <1>c, <2>7, <2>9 DEF RecurringShape, JobCreates
<1>4. ASSUME NEW t \in Templates, NEW s \in Slots, EditLoaded(s, t) PROVE RecurringShape'
  <2>1. templates[t] \in TemplateDocs BY <1>0, <1>4 DEF EditLoaded
  <2>2. PICK d \in Edits(templates[t]) : Starts(s, [op |-> "edit", of |-> t, set |-> Modified(templates[t], d)])
    BY <1>4 DEF EditLoaded
  <2>3. d \in TemplateDocs BY <1>0, <2>1, EditsAhead
  <2> DEFINE m == Modified(templates[t], d)
             r == [op |-> "edit", of |-> t, set |-> m]
  <2>4. \E had, d1 \in TemplateDocs : m = Modified(had, d1) BY <2>1, <2>3
  <2>5. Goes(s, r) BY <2>2 DEF Starts
  <2> HIDE DEF m
  <2>6. r.of \in Templates /\ \E had, d1 \in TemplateDocs : r.set = Modified(had, d1) BY <2>4
  <2> HIDE DEF r
  <2>7. DOMAIN slots' = Slots /\ \A z \in Slots : EditShape(z)' BY <1>b, <2>5, <2>6
  <2> QED BY <1>4, <1>0, <1>d, <2>7 DEF RecurringShape, EditLoaded
<1>5. ASSUME NEW s \in Slots, EditSaved(s) PROVE RecurringShape'
  <2>1. PICK t \in Templates : t = slots[s].of BY <1>5 DEF EditSaved, RecurringShape, EditShape
  <2>2. PICK had \in TemplateDocs, d \in TemplateDocs : slots[s].set = Modified(had, d)
    BY <1>5 DEF EditSaved, RecurringShape, EditShape
  <2>3. templates' \in [Templates -> TemplateDocs \cup {NoTemplate}]
    <3>1. CASE templates[t].live
      <4>1. templates[t] \in TemplateDocs BY <1>0, <3>1
      <4> DEFINE new == Merged(templates[t], Modified(had, d))
      <4>2. new \in TemplateDocs BY <4>1, MergedTyped
      <4>3. templates' = [templates EXCEPT ![t] = new] BY <1>5, <2>1, <2>2, <3>1 DEF EditSaved
      <4> HIDE DEF new
      <4> QED BY <1>0, <4>2, <4>3
    <3>2. CASE ~templates[t].live BY <1>5, <1>0, <2>1, <3>2 DEF EditSaved
    <3> QED BY <3>1, <3>2
  <2>4. Goes(s, Idle) /\ Idle.op # "edit" BY <1>5 DEF EditSaved, Ends, Idle
  <2>5. DOMAIN slots' = Slots /\ \A z \in Slots : EditShape(z)' BY <1>b, <2>4
  <2>6. raced' \subseteq Templates BY <1>5, <2>1 DEF EditSaved, RecurringShape
  <2> QED BY <1>5, <1>0, <1>d, <2>3, <2>5, <2>6 DEF RecurringShape, EditSaved
<1>6. CASE JobStarts
  <2> DEFINE D == {u \in Templates : Due(u)}
             l == [t \in D |-> [every |-> templates[t].every, next |-> templates[t].next]]
  <2>1. \A t \in D : templates[t].every \in Periods /\ templates[t].next \in Nat
    BY <1>0 DEF Due, TemplateDocs
  <2>2. l \in [D -> [every : Periods, next : Nat]] BY <2>1
  <2>3. l \in Loaded BY <2>2 DEF Loaded
  <2>4. job' = [step |-> "create", loaded |-> l] BY <1>6 DEF JobStarts
  <2>5. JobShape'
    <3> HIDE DEF l
    <3>1. job'.loaded = l BY <2>4
    <3>2. job' = [step |-> "create", loaded |-> job'.loaded] BY <2>4, <3>1
    <3>3. Loaded' = Loaded BY DEF Loaded
    <3> QED BY <2>3, <3>1, <3>2, <3>3 DEF JobShape
  <2> HIDE DEF D, l
  <2> QED BY <1>6, <1>0, <1>c, <2>5 DEF RecurringShape, JobStarts
<1>7. CASE JobSaves
  <2>1. /\ job = [step |-> "save", loaded |-> job.loaded, of |-> job.of]
        /\ job.loaded \in Loaded /\ job.of \in DOMAIN job.loaded
    BY <1>7 DEF JobSaves, RecurringShape, JobShape, NoJob
  <2>2. PICK D \in SUBSET Templates : job.loaded \in [D -> [every : Periods, next : Nat]]
    BY <2>1 DEF Loaded
  <2>3. PICK t \in D : t = job.of BY <2>1, <2>2
  <2>4. job.loaded[t] \in [every : Periods, next : Nat] /\ t \in Templates BY <2>2, <2>3
  <2> DEFINE rest == [u \in DOMAIN job.loaded \ {t} |-> job.loaded[u]]
  <2>5. rest \in Loaded
    <3>1. rest \in [D \ {t} -> [every : Periods, next : Nat]] BY <2>2
    <3> HIDE DEF rest
    <3> QED BY <3>1 DEF Loaded
  <2>6. JobShape'
    <3>1. job' = NoJob \/ job' = [step |-> "create", loaded |-> rest] BY <1>7, <2>3 DEF JobSaves
    <3> HIDE DEF rest
    <3>2. Loaded' = Loaded BY DEF Loaded
    <3>3. CASE job' = NoJob BY <3>3 DEF JobShape
    <3>4. CASE job' = [step |-> "create", loaded |-> rest]
      <4>1. job'.loaded = rest BY <3>4
      <4>2. job' = [step |-> "create", loaded |-> job'.loaded] BY <3>4, <4>1
      <4> QED BY <2>5, <3>2, <4>1, <4>2 DEF JobShape
    <3> QED BY <3>1, <3>3, <3>4
  <2>7. templates' \in [Templates -> TemplateDocs \cup {NoTemplate}]
    <3>1. CASE templates[t].live
      <4> DEFINE n == AfterSpawn(job.loaded[t])
      <4>1. n \in Nat BY <1>0, <2>4, AfterSpawnAhead
      <4>2. templates' = [templates EXCEPT ![t].next = n, ![t].last = today]
        BY <1>7, <2>3, <3>1 DEF JobSaves
      <4> HIDE DEF n
      <4>3. templates[t] \in TemplateDocs BY <1>0, <3>1
      <4>4. templates' = [templates EXCEPT ![t] = [templates[t] EXCEPT !.next = n, !.last = today]]
        BY <1>0, <2>4, <4>2
      <4>5. [templates[t] EXCEPT !.next = n, !.last = today] \in TemplateDocs
        BY <1>a, <4>1, <4>3 DEF TemplateDocs
      <4> QED BY <1>0, <4>4, <4>5
    <3>2. CASE ~templates[t].live BY <1>7, <1>0, <2>3, <3>2 DEF JobSaves
    <3> QED BY <3>1, <3>2
  <2> QED BY <1>7, <1>0, <1>c, <2>6, <2>7 DEF RecurringShape, JobSaves
<1>8. CASE JobStops
  <2>1. job.of \in Templates
    <3>1. job.loaded \in Loaded /\ job.of \in DOMAIN job.loaded
      BY <1>8 DEF JobStops, RecurringShape, JobShape, NoJob
    <3> QED BY <3>1 DEF Loaded
  <2>2. JobShape' BY <1>8 DEF JobStops, JobShape
  <2> QED BY <1>8, <1>0, <1>c, <2>1, <2>2 DEF RecurringShape, JobStops
<1>9. CASE DayPasses
  <2>1. today' \in 0..MaxDay BY <1>9, <1>0 DEF DayPasses
  <2> QED BY <1>9, <1>0, <1>c, <1>d, <2>1 DEF RecurringShape, DayPasses
<1> QED BY <1>1, <1>2, <1>3, <1>4, <1>5, <1>6, <1>7, <1>8, <1>9 DEF RecurringNext

-----------------------------------------------------------------------------
(* Recurring: one pickup for one run.                                       *)

\* The job has created the pickup of this template and not saved the template.
Unsaved(t) == job.step = "save" /\ job.of = t

HadPickup(t) == spawned[t].day # NoDate

EditOf(s, t) == At(s, "edit") /\ slots[s].of = t

\* The last pickup lies before every next run that is known of: the one of the
\* document, the one the job goes by, and the one an edit is about to save.  A job
\* and an edit at work on a template at once have been noted in "raced".
RunsAhead(t) ==
  /\ templates[t].live /\ HadPickup(t) /\ ~Unsaved(t) => spawned[t].day < templates[t].next
  /\ JobHas(t) /\ HadPickup(t) /\ ~Unsaved(t) => spawned[t].day < job.loaded[t].next
  /\ \A s \in Slots :
       EditOf(s, t) =>
         /\ ~JobHas(t)
         /\ "next" \in DOMAIN slots[s].set /\ HadPickup(t) => spawned[t].day < slots[s].set.next
  /\ spawned[t].before # NoDate => spawned[t].before < spawned[t].run

PickupsArePast == \A t \in Templates : HadPickup(t) => spawned[t].day <= today

OnRhythm == PickupsArePast /\ \A t \in Templates \ raced : RunsAhead(t)

\* A step that leaves a template, its pickup and its place in the job alone, and
\* starts no edit of it.
LEMMA RunKept ==
  ASSUME NEW t \in Templates, RunsAhead(t), DOMAIN slots' = Slots,
         templates'[t] = templates[t], spawned'[t] = spawned[t],
         Unsaved(t)' <=> Unsaved(t),
         JobHas(t)' => JobHas(t) /\ job'.loaded[t] = job.loaded[t],
         \A s \in Slots : EditOf(s, t)' => EditOf(s, t) /\ slots'[s].set = slots[s].set
  PROVE  RunsAhead(t)'
BY DEF RunsAhead, HadPickup

LEMMA RunsAheadStep ==
  ASSUME RecurringShape, OnRhythm, RecurringNext, NEW t \in Templates \ raced', t \notin raced
  PROVE  RunsAhead(t)'
<1> USE RecurringAssumption
<1>0. /\ today \in Nat /\ DOMAIN slots = Slots /\ RunsAhead(t)
      /\ templates \in [Templates -> TemplateDocs \cup {NoTemplate}]
      /\ templates[t].live => templates[t] \in TemplateDocs
      /\ \A u \in Templates : spawned[u].day \in Date /\ (HadPickup(u) => spawned[u].day \in Nat)
  <2>1. templates[t] \in TemplateDocs \cup {NoTemplate} BY DEF RecurringShape
  <2>2. \A u \in Templates : spawned[u] \in Spawns BY DEF RecurringShape
  <2> QED BY <2>1, <2>2 DEF RecurringShape, NoTemplate, OnRhythm, Spawns, HadPickup, Date
<1>a. ASSUME UNCHANGED slots
      PROVE  DOMAIN slots' = Slots
             /\ \A s \in Slots : EditOf(s, t)' => EditOf(s, t) /\ slots'[s].set = slots[s].set
  BY <1>0, <1>a DEF EditOf, At
<1>b. ASSUME UNCHANGED job
      PROVE  /\ \A u : Unsaved(u)' <=> Unsaved(u)
             /\ \A u : JobHas(u)' <=> JobHas(u)
             /\ job'.loaded = job.loaded
  BY <1>b DEF Unsaved, JobHas
<1>1. ASSUME NEW u \in Templates, NEW every \in Periods, RecurringCreated(u, every)
      PROVE  RunsAhead(t)'
  <2>1. CASE u = t
    <3>1. ~HadPickup(t)' /\ spawned'[t] = spawned[t] /\ UNCHANGED <<job, slots>>
      BY <1>1, <2>1 DEF RecurringCreated, HadPickup
    <3>2. \A s \in Slots : EditOf(s, t)' <=> EditOf(s, t) BY <3>1 DEF EditOf, At
    <3> QED BY <1>0, <1>b, <3>1, <3>2 DEF RunsAhead
  <2>2. CASE u # t
    <3>1. templates'[t] = templates[t] /\ spawned'[t] = spawned[t] /\ UNCHANGED <<job, slots>>
      BY <1>1, <1>0, <2>2 DEF RecurringCreated
    <3> QED BY <1>0, <1>a, <1>b, <3>1, RunKept
  <2> QED BY <2>1, <2>2
<1>2. ASSUME NEW u \in Templates, RecurringDeleted(u) PROVE RunsAhead(t)'
  <2>1. CASE u = t
    <3>1. ~templates'[t].live /\ spawned'[t] = spawned[t] /\ UNCHANGED <<job, slots>>
      BY <1>2, <1>0, <2>1 DEF RecurringDeleted, NoTemplate
    <3>2. \A s \in Slots : (EditOf(s, t)' <=> EditOf(s, t)) /\ slots' = slots BY <3>1 DEF EditOf, At
    <3>3. HadPickup(t)' <=> HadPickup(t) BY <3>1 DEF HadPickup
    <3> QED BY <1>0, <1>b, <3>1, <3>2, <3>3 DEF RunsAhead
  <2>2. CASE u # t
    <3>1. templates'[t] = templates[t] /\ spawned'[t] = spawned[t] /\ UNCHANGED <<job, slots>>
      BY <1>2, <1>0, <2>2 DEF RecurringDeleted
    <3> QED BY <1>0, <1>a, <1>b, <3>1, RunKept
  <2> QED BY <2>1, <2>2
<1>3. ASSUME NEW u \in Templates, JobCreates(u) PROVE RunsAhead(t)'
  <2>0. /\ job.step = "create" /\ u \in DOMAIN job.loaded /\ UNCHANGED <<templates, slots>>
        /\ job' = [step |-> "save", loaded |-> job.loaded, of |-> u]
        /\ spawned' = [spawned EXCEPT ![u] =
             [run |-> job.loaded[u].next, day |-> today, before |-> spawned[u].day]]
    BY <1>3 DEF JobCreates
  <2>1. /\ \A v : Unsaved(v)' <=> v = u
        /\ \A v : ~Unsaved(v)
        /\ \A v : JobHas(v)' <=> JobHas(v)
        /\ job'.loaded = job.loaded
    BY <2>0 DEF Unsaved, JobHas
  <2>2. CASE u = t
    <3>1. JobHas(t) BY <2>0, <2>2 DEF JobHas
    <3>2. /\ spawned'[t].before = spawned[t].day /\ spawned'[t].run = job.loaded[t].next
      BY <2>0, <2>2 DEF RecurringShape
    <3>3. \A s \in Slots : ~EditOf(s, t)
      BY <1>0, <3>1 DEF RunsAhead
    <3>4. \A s \in Slots : ~EditOf(s, t)' BY <2>0, <3>3 DEF EditOf, At
    <3>5. HadPickup(t) => spawned[t].day < job.loaded[t].next
      BY <1>0, <2>1, <3>1 DEF RunsAhead
    <3>6. spawned'[t].before # NoDate => spawned'[t].before < spawned'[t].run
      BY <3>2, <3>5 DEF HadPickup
    <3>7. Unsaved(t)' BY <2>1, <2>2
    <3> QED BY <3>4, <3>6, <3>7 DEF RunsAhead
  <2>3. CASE u # t
    <3>1. templates'[t] = templates[t] /\ spawned'[t] = spawned[t]
      BY <2>0, <2>3 DEF RecurringShape
    <3>2. Unsaved(t)' <=> Unsaved(t) BY <2>1, <2>3
    <3> QED BY <1>0, <1>a, <2>0, <2>1, <3>1, <3>2, RunKept
  <2> QED BY <2>2, <2>3
<1>4. ASSUME NEW u \in Templates, NEW s \in Slots, EditLoaded(s, u) PROVE RunsAhead(t)'
  <2>1. PICK d \in Edits(templates[u]) :
          Starts(s, [op |-> "edit", of |-> u, set |-> Modified(templates[u], d)])
    BY <1>4 DEF EditLoaded
  <2> DEFINE m == Modified(templates[u], d)
  <2>2. /\ DOMAIN slots' = Slots
        /\ \A z \in Slots : slots'[z] = IF z = s THEN [op |-> "edit", of |-> u, set |-> m] ELSE slots[z]
    BY <1>0, <2>1 DEF Starts, Goes
  <2>3. UNCHANGED <<templates, spawned, job>> BY <1>4 DEF EditLoaded
  <2>4. \A z \in Slots \ {s} : (EditOf(z, t)' <=> EditOf(z, t)) /\ slots'[z] = slots[z]
    BY <2>2 DEF EditOf, At
  <2>5. EditOf(s, t)' <=> u = t
    <3> HIDE DEF m
    <3> QED BY <2>2 DEF EditOf, At
  <2>6. CASE u = t
    <3>1. ~JobHas(t) BY <1>4, <2>6 DEF EditLoaded
    <3>2. ~Unsaved(t)
      BY <3>1 DEF RecurringShape, JobShape, Unsaved, JobHas, NoJob
    <3>3. templates[t].live /\ templates[t] \in TemplateDocs BY <1>0, <1>4, <2>6 DEF EditLoaded
    <3>4. d \in TemplateDocs /\ (d.next > today \/ d.next >= templates[t].next)
      BY <1>0, <2>6, <3>3, EditsAhead
    <3>5. HadPickup(t) => spawned[t].day <= today /\ spawned[t].day < templates[t].next
      BY <1>0, <3>2, <3>3 DEF OnRhythm, PickupsArePast, RunsAhead
    <3>6. HadPickup(t) => spawned[t].day < d.next
      <4>1. d.next \in Nat /\ templates[t].next \in Nat BY <3>3, <3>4 DEF TemplateDocs
      <4> QED BY <1>0, <3>4, <3>5, <4>1
    <3>7. "next" \in DOMAIN m => m.next = d.next BY DEF Modified
    <3>8. slots'[s].set = m BY <2>2
    <3> HIDE DEF m
    <3>9. HadPickup(t)' <=> HadPickup(t) BY <2>3 DEF HadPickup
    <3>10. ~JobHas(t)' /\ ~Unsaved(t)' BY <1>b, <2>3, <3>1, <3>2
    <3>11. ASSUME NEW z \in Slots, EditOf(z, t)',
                  "next" \in DOMAIN slots'[z].set, HadPickup(t)
           PROVE  spawned'[t].day < slots'[z].set.next
      <4>1. CASE z = s BY <2>3, <3>6, <3>7, <3>8, <3>11, <4>1
      <4>2. CASE z # s BY <1>0, <2>3, <2>4, <3>11, <4>2 DEF RunsAhead
      <4> QED BY <4>1, <4>2
    <3>12. templates'[t].live /\ HadPickup(t)' => spawned'[t].day < templates'[t].next
      BY <2>3, <3>5, <3>9
    <3>13. spawned'[t].before # NoDate => spawned'[t].before < spawned'[t].run
      BY <1>0, <2>3 DEF RunsAhead
    <3>14. \A z \in Slots :
             EditOf(z, t)' => /\ ~JobHas(t)'
                              /\ "next" \in DOMAIN slots'[z].set /\ HadPickup(t)'
                                   => spawned'[t].day < slots'[z].set.next
      BY <3>9, <3>10, <3>11
    <3> QED BY <3>10, <3>12, <3>13, <3>14 DEF RunsAhead
  <2>7. CASE u # t
    <3>1. \A z \in Slots : EditOf(z, t)' => EditOf(z, t) /\ slots'[z].set = slots[z].set
      BY <2>4, <2>5, <2>7
    <3> QED BY <1>0, <1>b, <2>2, <2>3, <3>1, RunKept
  <2> QED BY <2>6, <2>7
<1>5. ASSUME NEW s \in Slots, EditSaved(s) PROVE RunsAhead(t)'
  <2>0. UNCHANGED <<today, spawned, job>> /\ At(s, "edit") /\ Goes(s, Idle)
    BY <1>5 DEF EditSaved, Ends
  <2>1. /\ DOMAIN slots' = Slots
        /\ \A z \in Slots : EditOf(z, t)' => EditOf(z, t) /\ slots'[z].set = slots[z].set
    BY <1>0, <2>0 DEF Goes, EditOf, At, Idle
  <2>2. PICK u \in Templates : u = slots[s].of BY <2>0 DEF RecurringShape, EditShape
  <2>3. PICK had \in TemplateDocs, d \in TemplateDocs : slots[s].set = Modified(had, d)
    BY <2>0 DEF RecurringShape, EditShape
  <2>4. CASE u = t /\ templates[t].live
    <3>1. templates[t] \in TemplateDocs BY <1>0, <2>4
    <3> DEFINE m == Modified(had, d)
               new == Merged(templates[t], m)
    <3>2. IF "next" \in DOMAIN m THEN new.next = m.next ELSE new.next = templates[t].next
      BY <3>1, MergedTyped
    <3>3. templates' = [templates EXCEPT ![t] = new] BY <1>5, <2>2, <2>3, <2>4 DEF EditSaved
    <3>4. slots[s].set = m BY <2>3
    <3> HIDE DEF m, new
    <3>5. templates'[t] = new BY <1>0, <3>3
    <3>6. EditOf(s, t) BY <2>0, <2>2, <2>4 DEF EditOf
    <3>7. ~JobHas(t) BY <1>0, <3>6 DEF RunsAhead
    <3>8. ~JobHas(t)' BY <1>b, <2>0, <3>7
    <3>9. "next" \in DOMAIN m /\ HadPickup(t) => spawned[t].day < m.next
      BY <1>0, <3>4, <3>6 DEF RunsAhead
    <3>10. ~Unsaved(t)
      BY <3>7 DEF RecurringShape, JobShape, Unsaved, JobHas, NoJob
    <3>11. HadPickup(t) => spawned[t].day < new.next
      BY <1>0, <2>4, <3>2, <3>9, <3>10 DEF RunsAhead
    <3>12. HadPickup(t)' <=> HadPickup(t) BY <2>0 DEF HadPickup
    <3> QED BY <1>0, <2>0, <2>1, <3>5, <3>8, <3>11, <3>12 DEF RunsAhead
  <2>5. CASE ~(u = t /\ templates[t].live)
    <3>1. templates'[t] = templates[t] BY <1>0, <1>5, <2>2, <2>5 DEF EditSaved
    <3> QED BY <1>0, <1>b, <2>0, <2>1, <3>1, RunKept
  <2> QED BY <2>4, <2>5
<1>6. CASE JobStarts
  <2> DEFINE D == {u \in Templates : Due(u)}
             l == [u \in D |-> [every |-> templates[u].every, next |-> templates[u].next]]
  <2>1. job' = [step |-> "create", loaded |-> l] /\ UNCHANGED <<templates, spawned, slots>>
        /\ job = NoJob
    BY <1>6 DEF JobStarts
  <2>2. t \in D => job'.loaded[t].next = templates[t].next BY <2>1
  <2>3. JobHas(t)' <=> t \in D
    <3>1. DOMAIN l = D OBVIOUS
    <3> HIDE DEF l, D
    <3> QED BY <2>1, <3>1 DEF JobHas
  <2>4. ~Unsaved(t)' /\ ~Unsaved(t) BY <2>1 DEF Unsaved, NoJob
  <2>5. t \in D => templates[t].live BY DEF Due
  <2>6. t \in D => \A s \in Slots : ~EditOf(s, t) BY <1>6 DEF JobStarts, EditOf
  <2>7. \A s \in Slots : EditOf(s, t)' <=> EditOf(s, t) BY <2>1 DEF EditOf, At
  <2>8. HadPickup(t)' <=> HadPickup(t) BY <2>1 DEF HadPickup
  <2> HIDE DEF D, l
  <2> QED BY <1>0, <2>1, <2>2, <2>3, <2>4, <2>5, <2>6, <2>7, <2>8 DEF RunsAhead
<1>7. CASE JobSaves
  <2>1. /\ job = [step |-> "save", loaded |-> job.loaded, of |-> job.of]
        /\ job.loaded \in Loaded /\ job.of \in DOMAIN job.loaded
    BY <1>7 DEF JobSaves, RecurringShape, JobShape, NoJob
  <2>2. PICK D \in SUBSET Templates : job.loaded \in [D -> [every : Periods, next : Nat]]
    BY <2>1 DEF Loaded
  <2>3. PICK u \in D : u = job.of BY <2>1, <2>2
  <2>4. job.loaded[u] \in [every : Periods, next : Nat] /\ u \in Templates BY <2>2, <2>3
  <2>5. UNCHANGED <<today, spawned, slots>> BY <1>7 DEF JobSaves
  <2> DEFINE rest == [v \in DOMAIN job.loaded \ {u} |-> job.loaded[v]]
  <2>6. job' = NoJob \/ job' = [step |-> "create", loaded |-> rest] BY <1>7, <2>3 DEF JobSaves
  <2>7. /\ ~Unsaved(t)'
        /\ JobHas(t)' => t # u /\ JobHas(t) /\ job'.loaded[t] = job.loaded[t]
    <3>1. CASE job' = NoJob BY <3>1 DEF Unsaved, JobHas, NoJob
    <3>2. CASE job' = [step |-> "create", loaded |-> rest]
      <4>1. DOMAIN rest = DOMAIN job.loaded \ {u} /\ \A v \in DOMAIN rest : rest[v] = job.loaded[v]
        OBVIOUS
      <4> HIDE DEF rest
      <4> QED BY <2>1, <3>2, <4>1 DEF Unsaved, JobHas
    <3> QED BY <2>6, <3>1, <3>2
  <2>8. CASE u = t /\ templates[t].live
    <3> DEFINE n == AfterSpawn(job.loaded[t])
    <3>1. n \in Nat /\ n > today BY <1>0, <2>4, <2>8, AfterSpawnAhead
    <3>2. templates' = [templates EXCEPT ![t].next = n, ![t].last = today]
      BY <1>7, <2>3, <2>8 DEF JobSaves
    <3> HIDE DEF n
    <3>3. templates' = [templates EXCEPT ![t] = [templates[t] EXCEPT !.next = n, !.last = today]]
      BY <1>0, <3>2
    <3>4. [templates[t] EXCEPT !.next = n, !.last = today].next = n
      BY <1>0, <2>8 DEF TemplateDocs
    <3>5. templates'[t].next = n BY <1>0, <3>3, <3>4
    <3>6. HadPickup(t)' => spawned'[t].day < templates'[t].next
      <4>1. HadPickup(t)' <=> HadPickup(t) BY <2>5 DEF HadPickup
      <4>2. HadPickup(t) => spawned[t].day <= today BY DEF OnRhythm, PickupsArePast
      <4> QED BY <1>0, <2>5, <3>1, <3>5, <4>1, <4>2
    <3>7. JobHas(t)
      BY <2>1, <2>3, <2>8 DEF JobHas
    <3>8. \A s \in Slots : ~EditOf(s, t) BY <1>0, <3>7 DEF RunsAhead
    <3>9. \A s \in Slots : ~EditOf(s, t)' BY <2>5, <3>8 DEF EditOf, At
    <3>10. spawned'[t].before # NoDate => spawned'[t].before < spawned'[t].run
      BY <1>0, <2>5 DEF RunsAhead
    <3> QED BY <2>7, <2>8, <3>6, <3>9, <3>10 DEF RunsAhead
  <2>9. CASE u = t /\ ~templates[t].live
    <3>1. templates'[t] = templates[t] /\ job' = NoJob BY <1>7, <2>3, <2>9 DEF JobSaves
    <3>2. JobHas(t) BY <2>1, <2>3, <2>9 DEF JobHas
    <3>3. \A s \in Slots : ~EditOf(s, t) BY <1>0, <3>2 DEF RunsAhead
    <3>4. \A s \in Slots : ~EditOf(s, t)' BY <2>5, <3>3 DEF EditOf, At
    <3>5. spawned'[t].before # NoDate => spawned'[t].before < spawned'[t].run
      BY <1>0, <2>5 DEF RunsAhead
    <3> QED BY <2>7, <2>9, <3>1, <3>4, <3>5 DEF RunsAhead
  <2>10. CASE u # t
    <3>1. templates'[t] = templates[t]
      BY <1>7, <1>0, <2>3, <2>4, <2>10 DEF JobSaves
    <3>2. ~Unsaved(t) BY <2>3, <2>10 DEF Unsaved
    <3>3. spawned'[t] = spawned[t] BY <2>5
    <3> QED BY <1>0, <1>a, <2>5, <2>7, <3>1, <3>2, <3>3, RunKept
  <2> QED BY <2>8, <2>9, <2>10
<1>8. CASE JobStops
  <2>1. /\ job' = NoJob /\ slots' = AllIdle /\ job.of # t /\ UNCHANGED <<templates, spawned>>
    BY <1>8 DEF JobStops
  <2>2. ~Unsaved(t) /\ ~Unsaved(t)' /\ ~JobHas(t)' BY <2>1 DEF Unsaved, JobHas, NoJob
  <2>3. DOMAIN slots' = Slots /\ \A s \in Slots : ~EditOf(s, t)'
    BY <2>1 DEF AllIdle, Idle, EditOf, At
  <2>4. templates'[t] = templates[t] /\ spawned'[t] = spawned[t] BY <2>1
  <2> QED BY <1>0, <2>2, <2>3, <2>4, RunKept
<1>9. CASE DayPasses
  <2>1. UNCHANGED <<templates, spawned, job, slots>> BY <1>9 DEF DayPasses
  <2>2. templates'[t] = templates[t] /\ spawned'[t] = spawned[t] BY <2>1
  <2> QED BY <1>0, <1>a, <1>b, <2>1, <2>2, RunKept
<1> QED BY <1>1, <1>2, <1>3, <1>4, <1>5, <1>6, <1>7, <1>8, <1>9 DEF RecurringNext

LEMMA PickupsArePastStep ==
  ASSUME RecurringShape, PickupsArePast, RecurringNext
  PROVE  PickupsArePast'
<1>1. /\ today \in Nat
      /\ \A t \in Templates : spawned[t].day \in Date
  BY RecurringAssumption DEF RecurringShape, Spawns
<1>2. CASE UNCHANGED <<today, spawned>> BY <1>2 DEF PickupsArePast, HadPickup
<1>3. CASE DayPasses
  BY <1>1, <1>3 DEF DayPasses, PickupsArePast, HadPickup, Date
<1>4. ASSUME NEW t \in Templates, JobCreates(t) PROVE PickupsArePast'
  <2>1. /\ today' = today
        /\ spawned' = [spawned EXCEPT ![t] =
             [run |-> job.loaded[t].next, day |-> today, before |-> spawned[t].day]]
    BY <1>4 DEF JobCreates
  <2>2. \A u \in Templates : spawned'[u].day = IF u = t THEN today ELSE spawned[u].day
    BY <2>1 DEF RecurringShape
  <2> QED BY <1>1, <2>1, <2>2 DEF PickupsArePast, HadPickup
<1> QED BY <1>2, <1>3, <1>4
        DEF RecurringNext, RecurringCreated, RecurringDeleted, EditLoaded, EditSaved, JobStarts,
            JobSaves, JobStops

\* Every state of the recurring pickups has its type, for any set of templates and
\* of frequencies.
THEOREM RecurringTypes == RecurringSpec => [](RecurringShape /\ RecurringTypeOK)
<1>1. RecurringInit => RecurringShape
  <2> SUFFICES ASSUME RecurringInit PROVE RecurringShape OBVIOUS
  <2>1. [run |-> NoDate, day |-> NoDate, before |-> NoDate] \in Spawns BY DEF Spawns, Date
  <2> QED BY <2>1, RecurringAssumption
          DEF RecurringInit, RecurringShape, JobShape, EditShape, At, AllIdle, Idle
<1>2. RecurringShape /\ [RecurringNext]_recurringVars => RecurringShape'
  <2>1. RecurringShape /\ UNCHANGED recurringVars => RecurringShape'
    BY DEF RecurringShape, recurringVars, JobShape, EditShape, At
  <2> QED BY <2>1, RecurringShapeStep
<1>3. RecurringShape => RecurringTypeOK
  <2> SUFFICES ASSUME RecurringShape PROVE RecurringTypeOK OBVIOUS
  <2>1. job # NoJob => /\ job.step \in {"create", "save"}
                       /\ DOMAIN job.loaded \subseteq Templates
                       /\ job.step = "save" => job.of \in DOMAIN job.loaded
    BY DEF RecurringShape, JobShape, Loaded
  <2> QED BY <2>1 DEF RecurringTypeOK, RecurringShape, TemplateDocs, Spawns, Date
<1> QED BY <1>1, <1>2, <1>3, PTL DEF RecurringSpec

\* A template gets one pickup for one run, however late the job is, unless a handler
\* worked on it while the job did or the server stopped between the two writes.
THEOREM OneForOneRun == RecurringSpec => []OnePickupPerRun
<1>1. RecurringInit => OnRhythm
  BY DEF RecurringInit, OnRhythm, PickupsArePast, HadPickup, RunsAhead, EditOf, At, AllIdle, Idle
<1>2. RecurringShape /\ OnRhythm /\ [RecurringNext]_recurringVars => OnRhythm'
  <2>1. ASSUME RecurringShape, OnRhythm, RecurringNext PROVE OnRhythm'
    <3>1. raced \subseteq raced'
      BY <2>1 DEF RecurringNext, RecurringCreated, RecurringDeleted, JobCreates, EditLoaded,
                  EditSaved, JobStarts, JobSaves, JobStops, DayPasses
    <3>2. \A t \in Templates \ raced' : RunsAhead(t)' BY <2>1, <3>1, RunsAheadStep
    <3>3. PickupsArePast' BY <2>1, PickupsArePastStep DEF OnRhythm
    <3> QED BY <3>2, <3>3 DEF OnRhythm
  <2>2. OnRhythm /\ UNCHANGED recurringVars => OnRhythm'
    BY DEF OnRhythm, recurringVars, PickupsArePast, HadPickup, RunsAhead, EditOf, At, Unsaved, JobHas
  <2> QED BY <2>1, <2>2
<1>3. OnRhythm => OnePickupPerRun BY DEF OnRhythm, RunsAhead, OnePickupPerRun
<1> QED BY <1>1, <1>2, <1>3, RecurringTypes, PTL DEF RecurringSpec

-----------------------------------------------------------------------------
(* The route of a collector.                                               *)

\* The length of a route is a number.
LEMMA LengthIsNat ==
  ASSUME NEW stops, NEW S, NEW route \in Seq(S)
  PROVE  /\ RouteLength(stops, route) \in Nat
         /\ IsFiniteSet((DOMAIN route) \X (1..(Width + Height)))
<1> DEFINE Grid == (DOMAIN route) \X (1..(Width + Height))
           Walked == {step \in Grid : step[2] <= Leg(stops, route, step[1])}
<1>1. DOMAIN route = 1..Len(route) /\ Len(route) \in Nat BY LenProperties
<1>2. Width + Height \in Int BY RouteAssumption
<1>3. IsFiniteSet(DOMAIN route) BY <1>1, FS_Interval
<1>4. IsFiniteSet(1..(Width + Height)) BY <1>2, FS_Interval
<1>5. IsFiniteSet(Grid) BY <1>3, <1>4, FS_Product
<1>6. IsFiniteSet(Walked)
  <2>1. Walked \in SUBSET Grid OBVIOUS
  <2> HIDE DEF Walked, Grid
  <2> QED BY <1>5, <2>1, FS_Subset
<1>7. Cardinality(Walked) \in Nat
  <2> HIDE DEF Walked
  <2> QED BY <1>6, FS_CardinalityType
<1> QED BY <1>5, <1>7 DEF RouteLength

\* A reversal moves the stops of the stretch, and no others.
LEMMA ReversalIsTurned ==
  ASSUME NEW S, NEW route \in Seq(S), NEW i \in DOMAIN route, NEW k \in DOMAIN route, i < k
  PROVE  /\ Reversal(route, i, k) = Turned(route, i, k)
         /\ Turned(route, i, k) \in Seq(S) /\ DOMAIN Turned(route, i, k) = DOMAIN route
<1> DEFINE n == Len(route)
           a == SubSeq(route, 1, i - 1)
           b == SubSeq(route, i, k)
           c == SubSeq(route, k + 1, n)
           r == Reverse(b)
           t == Turned(route, i, k)
<1>1. n \in Nat /\ DOMAIN route = 1..n /\ i \in 1..n /\ k \in 1..n /\ \A j \in 1..n : route[j] \in S
  BY LenProperties, ElementOfSeq
<1>2. a \in Seq(S) /\ Len(a) = i - 1 /\ \A j \in 1..(i - 1) : a[j] = route[j]
  <2>1. \A j \in 1..(i - 1) : route[j] \in S BY <1>1
  <2>2. i - 1 \in Int /\ 1 \in Int BY <1>1
  <2>3. /\ a \in Seq(S) /\ Len(a) = IF 1 <= i - 1 THEN i - 1 - 1 + 1 ELSE 0
        /\ \A j \in 1..(i - 1 - 1 + 1) : a[j] = route[1 + j - 1]
    BY <2>1, <2>2, SubSeqProperties
  <2> HIDE DEF a
  <2> QED BY <1>1, <2>3
<1>3. b \in Seq(S) /\ Len(b) = k - i + 1 /\ \A j \in 1..(k - i + 1) : b[j] = route[i + j - 1]
  <2>1. \A j \in i..k : route[j] \in S BY <1>1
  <2>2. i \in Int /\ k \in Int BY <1>1
  <2>3. /\ b \in Seq(S) /\ Len(b) = IF i <= k THEN k - i + 1 ELSE 0
        /\ \A j \in 1..(k - i + 1) : b[j] = route[i + j - 1]
    BY <2>1, <2>2, SubSeqProperties
  <2> HIDE DEF b
  <2> QED BY <1>1, <2>3
<1>4. c \in Seq(S) /\ Len(c) = n - k /\ \A j \in 1..(n - k) : c[j] = route[k + j]
  <2>1. \A j \in (k + 1)..n : route[j] \in S BY <1>1
  <2>2. k + 1 \in Int /\ n \in Int BY <1>1
  <2>3. /\ c \in Seq(S) /\ Len(c) = IF k + 1 <= n THEN n - (k + 1) + 1 ELSE 0
        /\ \A j \in 1..(n - (k + 1) + 1) : c[j] = route[k + 1 + j - 1]
    BY <2>1, <2>2, SubSeqProperties
  <2> HIDE DEF c, n
  <2> QED BY <1>1, <2>3
<1>5. r \in Seq(S) /\ Len(r) = k - i + 1 /\ \A j \in 1..(k - i + 1) : r[j] = route[k - j + 1]
  <2> DEFINE m == k - i + 1
  <2>1. m \in Nat /\ DOMAIN b = 1..m /\ \A j \in 1..m : b[j] \in S BY <1>1, <1>3, LenProperties, ElementOfSeq
  <2>2. r = [j \in 1..m |-> b[(m - j) + 1]] BY <1>3 DEF Reverse
  <2>3. \A j \in 1..m : (m - j) + 1 \in 1..m /\ i + ((m - j) + 1) - 1 = k - j + 1 BY <1>1
  <2> HIDE DEF b, m, r
  <2>4. r \in [1..m -> S] BY <2>1, <2>2, <2>3
  <2>5. r \in Seq(S) BY <2>1, <2>4, FunctionIsSeq
  <2>6. Len(r) = m BY <2>1, <2>2, <2>5, LenProperties
  <2>7. \A j \in 1..m : r[j] = route[k - j + 1] BY <1>3, <2>2, <2>3 DEF m
  <2> QED BY <2>5, <2>6, <2>7 DEF m
<1> HIDE DEF a, b, c, r, n
<1>6. PICK v : v = a \o r OBVIOUS
<1>7. PICK u : u = v \o c OBVIOUS
<1>13. /\ v \in Seq(S) /\ Len(v) = k
       /\ \A j \in 1..k : v[j] = IF j <= i - 1 THEN route[j] ELSE route[i + k - j]
  <2>1. /\ v \in Seq(S) /\ Len(v) = (i - 1) + (k - i + 1)
        /\ \A j \in 1..(i - 1) : v[j] = a[j]
        /\ \A j \in 1..Len(v) : j > i - 1 => v[j] = r[j - (i - 1)]
    <3>0. a \in Seq(S) /\ r \in Seq(S) /\ v = a \o r BY <1>2, <1>5, <1>6
    <3>1. v \in Seq(S) /\ Len(v) = Len(a) + Len(r) BY <3>0, Joined
    <3>2. \A j \in 1..Len(a) : v[j] = a[j] BY <3>0, Joined
    <3>3. \A j \in 1..Len(v) : j > Len(a) => v[j] = r[j - Len(a)] BY <3>0, Joined
    <3>4. Len(a) = i - 1 /\ Len(r) = k - i + 1 BY <1>2, <1>5
    <3> QED BY <3>1, <3>2, <3>3, <3>4
  <2>2. \A j \in 1..k : j > i - 1 => j - (i - 1) \in 1..(k - i + 1) /\ k - (j - (i - 1)) + 1 = i + k - j
    BY <1>1
  <2>3. Len(v) = k BY <1>1, <2>1
  <2>4. \A j \in 1..k : j <= i - 1 => v[j] = route[j] BY <1>1, <1>2, <2>1
  <2>5. \A j \in 1..k : j > i - 1 => v[j] = route[i + k - j] BY <1>5, <2>1, <2>2, <2>3
  <2> QED BY <1>1, <2>1, <2>3, <2>4, <2>5
<1>14. /\ u \in Seq(S) /\ Len(u) = n
       /\ \A j \in 1..n : u[j] = IF j <= k THEN v[j] ELSE route[j]
  <2>1. /\ u \in Seq(S) /\ Len(u) = k + (n - k)
        /\ \A j \in 1..k : u[j] = v[j]
        /\ \A j \in 1..Len(u) : j > k => u[j] = c[j - k]
    <3>1. u \in Seq(S) /\ Len(u) = Len(v) + Len(c) BY SMTT(30), <1>4, <1>7, <1>13, Joined
    <3>2. \A j \in 1..Len(v) : u[j] = v[j] BY <1>4, <1>7, <1>13, Joined
    <3>3. \A j \in 1..Len(u) : j > Len(v) => u[j] = c[j - Len(v)] BY <1>4, <1>7, <1>13, Joined
    <3>4. Len(v) = k /\ Len(c) = n - k BY <1>4, <1>13
    <3> QED BY <3>1, <3>2, <3>3, <3>4
  <2>2. \A j \in 1..n : j > k => j - k \in 1..(n - k) /\ k + (j - k) = j BY <1>1
  <2>3. Len(u) = n BY <1>1, <2>1
  <2>4. \A j \in 1..n : j > k => u[j] = route[j] BY <1>4, <2>1, <2>2, <2>3
  <2> QED BY <1>1, <2>1, <2>3, <2>4
<1>8. u \in Seq(S) /\ DOMAIN u = 1..n /\ u = [j \in 1..n |-> u[j]] BY <1>1, <1>14, LenProperties
<1>9. \A j \in 1..n : u[j] = IF j \in i..k THEN route[i + k - j] ELSE route[j]
  BY <1>1, <1>13, <1>14
<1>10. t = [j \in 1..n |-> IF j \in i..k THEN route[i + k - j] ELSE route[j]]
  BY <1>1 DEF Turned
<1>11. Reversal(route, i, k) = u BY <1>6, <1>7 DEF Reversal, a, b, c, r, n
<1> HIDE DEF t
<1>12. u = t BY <1>8, <1>9, <1>10
<1> QED BY <1>1, <1>8, <1>11, <1>12 DEF t

\* So the turned route visits the same stops, each once.
LEMMA TurnedVisits ==
  ASSUME NEW S, NEW route \in Seq(S), NEW i \in DOMAIN route, NEW k \in DOMAIN route, i < k,
         IsInjective(route)
  PROVE  IsInjective(Turned(route, i, k)) /\ Range(Turned(route, i, k)) = Range(route)
<1> DEFINE n == Len(route)
           t == Turned(route, i, k)
           Place(j) == IF j \in i..k THEN i + k - j ELSE j
<1>1. n \in Nat /\ DOMAIN route = 1..n /\ i \in 1..n /\ k \in 1..n BY LenProperties
<1>2. DOMAIN t = 1..n /\ \A j \in 1..n : t[j] = route[Place(j)] BY <1>1 DEF Turned
<1>3. \A j \in 1..n : Place(j) \in 1..n /\ Place(Place(j)) = j BY <1>1
<1> HIDE DEF t, Place, n
<1>4. \A x, y \in 1..n : t[x] = t[y] => x = y
  <2> SUFFICES ASSUME NEW x \in 1..n, NEW y \in 1..n, t[x] = t[y] PROVE x = y OBVIOUS
  <2>1. route[Place(x)] = route[Place(y)] /\ Place(x) \in 1..n /\ Place(y) \in 1..n BY <1>2, <1>3
  <2>2. Place(x) = Place(y) BY <1>1, <2>1 DEF IsInjective
  <2> QED BY <1>3, <2>2
<1>5. Range(t) = Range(route)
  <2>1. ASSUME NEW x \in Range(t) PROVE x \in Range(route)
    <3>1. PICK j \in 1..n : x = t[j] BY <1>2, <2>1 DEF Range
    <3>2. x = route[Place(j)] /\ Place(j) \in 1..n BY <1>2, <1>3, <3>1
    <3> QED BY <1>1, <3>2 DEF Range
  <2>2. ASSUME NEW x \in Range(route) PROVE x \in Range(t)
    <3>1. PICK j \in 1..n : x = route[j] BY <1>1, <2>2 DEF Range
    <3>2. t[Place(j)] = route[Place(Place(j))] /\ Place(j) \in 1..n /\ Place(Place(j)) = j
      BY <1>2, <1>3
    <3> QED BY <1>2, <3>1, <3>2 DEF Range
  <2> QED BY <2>1, <2>2
<1>6. IsInjective(t) BY <1>2, <1>4 DEF IsInjective
<1> QED BY <1>5, <1>6 DEF t

\* Legs have a length, the same one in both directions.
LEMMA ApartIsNat ==
  ASSUME NEW a \in Points, NEW b \in Points
  PROVE  Apart(a, b) \in Nat /\ Apart(a, b) = Apart(b, a)
<1>1. a[1] \in Int /\ a[2] \in Int /\ b[1] \in Int /\ b[2] \in Int BY RouteAssumption DEF Points
<1> QED BY <1>1 DEF Apart

LEMMA LegIsNat ==
  ASSUME NEW stops \in Seq(Points), NEW route \in Seq(DOMAIN stops), NEW i \in DOMAIN route
  PROVE  Leg(stops, route, i) \in Nat
<1>1. DOMAIN route = 1..Len(route) /\ Len(route) \in Nat BY LenProperties
<1>2. \A j \in DOMAIN route : stops[route[j]] \in Points
  <2>1. \A j \in DOMAIN route : route[j] \in DOMAIN stops BY ElementOfSeq, <1>1
  <2>2. \A x \in DOMAIN stops : stops[x] \in Points BY ElementOfSeq, LenProperties
  <2> QED BY <2>1, <2>2
<1>3. Origin \in Points
  <2>1. Width \in Nat \ {0} /\ Height \in Nat \ {0} BY RouteAssumption
  <2>2. 1 \in 1..Width /\ 1 \in 1..Height BY <2>1
  <2> QED BY <2>2 DEF Origin, Points
<1>4. i # 1 => i - 1 \in DOMAIN route BY <1>1
<1> DEFINE from == IF i = 1 THEN Origin ELSE stops[route[i - 1]]
<1>5. from \in Points /\ stops[route[i]] \in Points BY <1>2, <1>3, <1>4
<1>6. Leg(stops, route, i) = Apart(from, stops[route[i]]) BY DEF Leg
<1> HIDE DEF from
<1> QED BY <1>5, <1>6, ApartIsNat

\* A batch is the longest beginning of the route that keeps to its limits.
LEMMA ClusterIsLongest ==
  ASSUME NEW stops \in Seq(Points), NEW route \in Seq(DOMAIN stops),
         NEW b, b = BuildCluster(stops, route)
  PROVE  /\ b \in Seq(DOMAIN stops) /\ IsPrefix(b, route)
         /\ \A n \in DOMAIN route :
              (n <= Len(b)) <=> /\ n <= MaxCluster
                                /\ \A i \in 2..n : Leg(stops, route, i) <= MaxLeg
<1> DEFINE Over(i) == i > MaxCluster \/ (i > 1 /\ Leg(stops, route, i) > MaxLeg)
           cut == {i \in DOMAIN route : Over(i)}
           l == Len(route)
           Within(n) == n <= MaxCluster /\ \A i \in 2..n : Leg(stops, route, i) <= MaxLeg
<1>1. l \in Nat /\ DOMAIN route = 1..l BY LenProperties
<1>2. \A i \in 1..l : Leg(stops, route, i) \in Nat BY <1>1, LegIsNat
<1>3. MaxCluster \in Nat /\ MaxLeg \in Nat BY RouteAssumption
<1>4. b = IF cut = {} THEN route ELSE SubSeq(route, 1, Min(cut) - 1) BY DEF BuildCluster
<1>5. ASSUME NEW n \in 1..l, \A i \in 1..n : ~Over(i) PROVE Within(n) BY <1>1, <1>2, <1>3, <1>5
<1>6. ASSUME NEW n \in 1..l, NEW i \in 1..n, Over(i) PROVE ~Within(n)
  <2>1. CASE i > MaxCluster BY <1>1, <1>3, <2>1
  <2>2. CASE i > 1 /\ Leg(stops, route, i) > MaxLeg
    <3>1. i \in 2..n /\ ~(Leg(stops, route, i) <= MaxLeg) BY <1>1, <1>2, <1>3, <2>2
    <3> QED BY <3>1
  <2> QED BY <1>6, <2>1, <2>2
<1>7. CASE cut = {}
  <2>1. \A n \in 1..l : Within(n)
    <3>1. \A i \in 1..l : ~Over(i) BY <1>1, <1>7
    <3> HIDE DEF Over, Within, l
    <3> QED BY <1>1, <1>5, <3>1
  <2>2. b = route BY <1>4, <1>7
  <2>3. IsPrefix(b, route) BY <1>1, <2>2 DEF IsPrefix
  <2>4. \A n \in 1..l : n <= Len(b) BY <1>1, <2>2
  <2> QED BY <1>1, <2>1, <2>2, <2>3, <2>4
<1>8. CASE cut # {}
  <2> DEFINE m == Min(cut)
  <2>1. m \in cut /\ \A y \in cut : m <= y
    <3>1. cut \in SUBSET Nat BY <1>1
    <3>2. \E x \in cut : \A y \in cut : x <= y
      <4> HIDE DEF cut
      <4> QED BY <1>8, <3>1, SmallestOf
    <3> HIDE DEF cut
    <3> QED BY <3>2 DEF Min
  <2>2. m \in 1..l /\ Over(m) /\ \A i \in 1..l : i < m => ~Over(i)
    <3>1. m \in 1..l /\ Over(m) BY <1>1, <2>1
    <3>2. ASSUME NEW i \in 1..l, i < m PROVE ~Over(i)
      <4>1. i \in cut => m <= i BY <2>1
      <4>2. ~(m <= i) BY <1>1, <3>1, <3>2
      <4> HIDE DEF m, Over
      <4> QED BY <1>1, <4>1, <4>2
    <3> QED BY <3>1, <3>2
  <2> HIDE DEF m
  <2>3. b = SubSeq(route, 1, m - 1) BY <1>4, <1>8 DEF m
  <2>4. b \in Seq(DOMAIN stops) /\ Len(b) = m - 1
    <3>1. \A j \in 1..(m - 1) : route[j] \in DOMAIN stops BY <1>1, <2>2, ElementOfSeq
    <3>2. m - 1 \in Int /\ 1 \in Int BY <2>2
    <3>3. b \in Seq(DOMAIN stops) /\ Len(b) = IF 1 <= m - 1 THEN m - 1 - 1 + 1 ELSE 0
      BY <2>3, <3>1, <3>2, SubSeqProperties
    <3> QED BY <1>1, <2>2, <3>3
  <2>5. IsPrefix(b, route)
    <3>1. SubSeq(b, 1, Len(b)) = b BY <2>4, SubSeqFull
    <3>2. Len(b) <= Len(route) BY <1>1, <2>2, <2>4
    <3> QED BY <2>3, <2>4, <3>1, <3>2 DEF IsPrefix
  <2>6. ASSUME NEW n \in 1..l PROVE (n <= Len(b)) <=> Within(n)
    <3>1. CASE n < m
      <4>1. \A i \in 1..n : i \in 1..l /\ i < m BY <1>1, <2>2, <3>1
      <4>2. \A i \in 1..n : ~Over(i) BY <2>2, <4>1
      <4>3. n <= Len(b) BY <1>1, <2>2, <2>4, <3>1
      <4> HIDE DEF Within, Over
      <4> QED BY <1>5, <4>2, <4>3
    <3>2. CASE m <= n
      <4>1. m \in 1..n /\ ~(n <= Len(b)) BY <1>1, <2>2, <2>4, <3>2
      <4> HIDE DEF Within, Over
      <4> QED BY <1>6, <2>2, <4>1
    <3>3. n < m \/ m <= n BY <1>1, <2>2
    <3> HIDE DEF Within
    <3> QED BY <3>1, <3>2, <3>3
  <2> QED BY <1>1, <2>4, <2>5, <2>6
<1> HIDE DEF cut
<1> QED BY <1>7, <1>8

-----------------------------------------------------------------------------
\* Nothing has begun.
NothingYet == stage = "idle" => given = << >> /\ greedy = << >> /\ ordered = << >> /\ batch = << >>

\* Every stop has been taken once or is still ahead, and the first one taken is
\* the nearest of all.
GreedyVisits ==
  /\ IsInjective(greedy) /\ Range(greedy) \cap ahead = {}
  /\ Range(greedy) \cup ahead = DOMAIN given
  /\ greedy # << >> => \A s \in DOMAIN given : Apart(Origin, given[greedy[1]]) <= Apart(Origin, given[s])

\* Reversals keep the stops, and only ever make the route shorter.
OrderedVisits ==
  stage \in {"reversing", "planned"} =>
    /\ IsInjective(ordered) /\ Range(ordered) = DOMAIN given /\ ahead = {}
    /\ RouteLength(given, ordered) <= RouteLength(given, greedy)

NoShorter(i, k) == RouteLength(given, ordered) <= RouteLength(given, Turned(ordered, i, k))

\* A pass that has improved nothing so far has tried what lies behind it.
PassSoFar ==
  stage = "reversing" =>
    /\ 3 <= Len(ordered) /\ sweep.i \in 1..(Len(ordered) - 1) /\ sweep.k \in (sweep.i + 1)..Len(ordered)
    /\ ~sweep.improved => \A i, k \in DOMAIN ordered :
         i < k /\ (i < sweep.i \/ (i = sweep.i /\ k < sweep.k)) => NoShorter(i, k)

Planned ==
  stage = "planned" =>
    /\ batch = BuildCluster(given, ordered)
    /\ ~sweep.improved => \A i, k \in DOMAIN ordered : i < k => NoShorter(i, k)

RouteInv ==
  RouteTypeOK /\ NothingYet /\ GreedyVisits /\ OrderedVisits /\ PassSoFar /\ Planned

\* Of two stops the nearer one is better first.
LEMMA TwoStops ==
  ASSUME NEW stops \in Seq(Points), NEW route \in Seq(DOMAIN stops), Len(route) = 2,
         \A s \in DOMAIN stops : Apart(Origin, stops[route[1]]) <= Apart(Origin, stops[s])
  PROVE  RouteLength(stops, route) <= RouteLength(stops, Turned(route, 1, 2))
<1> DEFINE t == Turned(route, 1, 2)
           Walked(r) == {step \in (DOMAIN r) \X (1..(Width + Height)) : step[2] <= Leg(stops, r, step[1])}
<1>1. DOMAIN route = 1..2 BY LenProperties
<1>2. route[1] \in DOMAIN stops /\ route[2] \in DOMAIN stops
  <2>1. \A j \in 1..Len(route) : route[j] \in DOMAIN stops BY ElementOfSeq
  <2> QED BY <2>1
<1>3. DOMAIN t = 1..2 /\ t[1] = route[2] /\ t[2] = route[1] BY <1>1 DEF Turned
<1> HIDE DEF t
<1>4. Leg(stops, route, 1) <= Leg(stops, t, 1) BY <1>2, <1>3 DEF Leg
<1>5. Leg(stops, route, 2) = Leg(stops, t, 2)
  <2>1. \A x \in DOMAIN stops : stops[x] \in Points BY ElementOfSeq, LenProperties
  <2>2. stops[route[1]] \in Points /\ stops[route[2]] \in Points BY <1>2, <2>1
  <2>3. Leg(stops, route, 2) = Apart(stops[route[1]], stops[route[2]]) BY DEF Leg
  <2>4. Leg(stops, t, 2) = Apart(stops[route[2]], stops[route[1]]) BY <1>3 DEF Leg
  <2> QED BY <2>2, <2>3, <2>4, ApartIsNat
<1>6. /\ Leg(stops, route, 1) \in Nat /\ Leg(stops, t, 1) \in Nat /\ Leg(stops, t, 2) \in Nat
      /\ t \in Seq(DOMAIN stops)
  <2>1. t \in Seq(DOMAIN stops)
    <3>1. 1 \in DOMAIN route /\ 2 \in DOMAIN route /\ 1 < 2 BY <1>1
    <3> QED BY <3>1, ReversalIsTurned DEF t
  <2> QED BY <1>1, <1>3, <2>1, LegIsNat
<1>7. Walked(route) \subseteq Walked(t)
  <2> SUFFICES ASSUME NEW i \in 1..2, NEW m \in 1..(Width + Height), m <= Leg(stops, route, i)
               PROVE  m <= Leg(stops, t, i)
    BY <1>1, <1>3
  <2>1. m \in Int /\ (i = 1 \/ i = 2) BY RouteAssumption
  <2> QED BY <1>4, <1>5, <1>6, <2>1
<1>8. IsFiniteSet(Walked(t))
  <2>1. IsFiniteSet((DOMAIN t) \X (1..(Width + Height))) BY <1>6, LengthIsNat
  <2>2. Walked(t) \in SUBSET ((DOMAIN t) \X (1..(Width + Height))) OBVIOUS
  <2> HIDE DEF Walked
  <2> QED BY <2>1, <2>2, FS_Subset
<1>9. RouteLength(stops, route) = Cardinality(Walked(route)) /\ RouteLength(stops, t) = Cardinality(Walked(t))
  BY DEF RouteLength
<1> HIDE DEF Walked
<1>10. Cardinality(Walked(route)) <= Cardinality(Walked(t)) BY <1>7, <1>8, FS_Subset
<1> QED BY <1>9, <1>10 DEF t

LEMMA RouteBegins == RouteInit => RouteInv
<1> SUFFICES ASSUME RouteInit PROVE RouteInv OBVIOUS
<1>1. << >> \in Seq({}) /\ << >> \in Seq(Points) /\ DOMAIN << >> = {} /\ Len(<< >>) = 0 OBVIOUS
<1>2. RouteTypeOK
  <2>1. FirstStretch(1) \in [pass : 1..MaxPasses, i : Nat, k : Nat, improved : BOOLEAN]
    BY DEF FirstStretch, MaxPasses
  <2>2. 0 <= MaxStops BY RouteAssumption
  <2> QED BY <1>1, <2>1, <2>2 DEF RouteInit, RouteTypeOK
<1>3. Range(<< >>) = {} /\ IsInjective(<< >>) BY <1>1 DEF Range, IsInjective
<1> QED BY <1>1, <1>2, <1>3
        DEF RouteInit, RouteInv, NothingYet, GreedyVisits, OrderedVisits, PassSoFar, Planned

LEMMA AskedKeeps ==
  ASSUME RouteInv, NEW n \in 1..MaxStops, NEW stops \in [1..n -> Points], RouteAsked(stops)
  PROVE  RouteInv'
<1>1. /\ stage = "idle" /\ given' = stops /\ ahead' = DOMAIN stops /\ stage' = "nearest"
      /\ UNCHANGED <<greedy, ordered, sweep, batch>>
      /\ greedy = << >> /\ ordered = << >> /\ batch = << >>
  BY DEF RouteInv, NothingYet, RouteAsked
<1>2. n \in Nat /\ n <= MaxStops BY RouteAssumption
<1>3. stops \in Seq(Points) /\ Len(stops) = n BY <1>2, FunctionIsSeq, LenProperties
<1>4. \A S : << >> \in Seq(S) OBVIOUS
<1>5. RouteTypeOK' BY <1>1, <1>2, <1>3, <1>4 DEF RouteInv, RouteTypeOK
<1>6. Range(<< >>) = {} /\ IsInjective(<< >>) BY DEF Range, IsInjective
<1> QED BY <1>1, <1>5, <1>6
        DEF RouteInv, NothingYet, GreedyVisits, OrderedVisits, PassSoFar, Planned

LEMMA NearestKeeps ==
  ASSUME RouteInv, NEW s \in ahead, NearestTaken(s)
  PROVE  RouteInv'
<1>1. /\ stage = "nearest" /\ greedy' = Append(greedy, s) /\ ahead' = ahead \ {s}
      /\ UNCHANGED <<given, stage, ordered, sweep, batch>>
  BY DEF NearestTaken
<1>2. /\ given \in Seq(Points) /\ s \in DOMAIN given /\ greedy \in Seq(DOMAIN given)
      /\ GreedyVisits /\ ahead \subseteq DOMAIN given
  BY DEF RouteInv, RouteTypeOK
<1>3. /\ greedy' \in Seq(DOMAIN given)
      /\ DOMAIN greedy' = DOMAIN greedy \cup {Len(greedy')} /\ Len(greedy') \notin DOMAIN greedy
      /\ greedy'[Len(greedy')] = s /\ \A i \in DOMAIN greedy : greedy'[i] = greedy[i]
      /\ Len(greedy') = Len(greedy) + 1
  BY <1>1, <1>2, AndOneMore
<1>4. RouteTypeOK' BY <1>1, <1>2, <1>3 DEF RouteInv, RouteTypeOK
<1>5. Range(greedy') = Range(greedy) \cup {s} BY <1>1, <1>2, RangeOfAppend
<1>6. s \notin Range(greedy) BY <1>2 DEF GreedyVisits
<1>7. IsInjective(greedy')
  <2>1. \A i \in DOMAIN greedy : greedy[i] # s BY <1>6 DEF Range
  <2> QED BY <1>2, <1>3, <2>1 DEF GreedyVisits, IsInjective
<1>8. \A t \in DOMAIN given : Apart(Origin, given[greedy'[1]]) <= Apart(Origin, given[t])
  <2>1. Len(greedy) \in Nat /\ DOMAIN greedy = 1..Len(greedy) BY <1>2, LenProperties
  <2>2. CASE greedy = << >>
    <3>1. greedy'[1] = s BY <1>3, <2>2
    <3>2. ahead = DOMAIN given
      <4>1. Range(greedy) = {} BY <2>2 DEF Range
      <4> QED BY <1>2, <4>1 DEF GreedyVisits
    <3>3. \A t \in DOMAIN given : given[t] \in Points BY <1>2, ElementOfSeq, LenProperties
    <3>4. Origin \in Points BY RouteAssumption DEF Origin, Points
    <3>5. \A t \in DOMAIN given : Apart(Origin, given[t]) \in Nat BY <3>3, <3>4, ApartIsNat
    <3>6. \A t \in DOMAIN given : \/ Apart(Origin, given[s]) < Apart(Origin, given[t])
                                  \/ Apart(Origin, given[s]) = Apart(Origin, given[t])
      BY <2>2, <3>2 DEF NearestTaken
    <3> QED BY <1>2, <3>1, <3>5, <3>6
  <2>3. CASE greedy # << >>
    <3>1. 1 \in DOMAIN greedy BY <1>2, <2>1, <2>3, EmptySeq
    <3> QED BY <1>2, <1>3, <2>3, <3>1 DEF GreedyVisits
  <2> QED BY <2>2, <2>3
<1>9. GreedyVisits' BY <1>1, <1>2, <1>5, <1>6, <1>7, <1>8 DEF GreedyVisits
<1> QED BY <1>1, <1>4, <1>9 DEF RouteInv, NothingYet, OrderedVisits, PassSoFar, Planned

LEMMA GreedyDoneKeeps ==
  ASSUME RouteInv, GreedyDone
  PROVE  RouteInv'
<1>1. /\ stage = "nearest" /\ ahead = {} /\ ordered' = greedy /\ sweep' = FirstStretch(1)
      /\ IF Len(greedy) < 3 THEN RoutePlanned(greedy) ELSE stage' = "reversing" /\ UNCHANGED batch
      /\ UNCHANGED <<given, ahead, greedy>>
  BY DEF GreedyDone
<1>2. /\ given \in Seq(Points) /\ greedy \in Seq(DOMAIN given) /\ GreedyVisits
      /\ Len(greedy) \in Nat /\ DOMAIN greedy = 1..Len(greedy) /\ RouteTypeOK
  BY LenProperties DEF RouteInv, RouteTypeOK
<1>3. /\ FirstStretch(1) \in [pass : 1..MaxPasses, i : Nat, k : Nat, improved : BOOLEAN]
      /\ FirstStretch(1).i = 1 /\ FirstStretch(1).k = 2
  BY DEF FirstStretch, MaxPasses
<1>4. /\ RouteLength(given, greedy) \in Nat
      /\ OrderedVisits'
  <2>1. RouteLength(given, greedy) \in Nat BY <1>2, LengthIsNat
  <2>2. RouteLength(given, greedy) <= RouteLength(given, greedy) BY <2>1
  <2> QED BY <1>1, <1>2, <2>1, <2>2 DEF OrderedVisits, GreedyVisits
<1>5. NothingYet' /\ GreedyVisits'
  <2>1. stage' # "idle" BY <1>1 DEF RoutePlanned
  <2> QED BY <1>1, <1>2, <2>1 DEF NothingYet, GreedyVisits
<1>6. CASE Len(greedy) < 3
  <2>1. stage' = "planned" /\ batch' = BuildCluster(given, greedy) BY <1>1, <1>6 DEF RoutePlanned
  <2>2. batch' \in Seq(DOMAIN given) BY <1>2, <2>1, ClusterIsLongest
  <2>3. RouteTypeOK' BY <1>1, <1>2, <1>3, <2>1, <2>2 DEF RouteTypeOK
  <2>4. ASSUME NEW i \in DOMAIN greedy, NEW k \in DOMAIN greedy, i < k
        PROVE  RouteLength(given, greedy) <= RouteLength(given, Turned(greedy, i, k))
    <3>1. Len(greedy) = 2 /\ i = 1 /\ k = 2 BY <1>2, <1>6, <2>4
    <3>2. greedy # << >> BY <1>2, <2>4
    <3>3. \A s \in DOMAIN given : Apart(Origin, given[greedy[1]]) <= Apart(Origin, given[s])
      BY <1>2, <3>2 DEF GreedyVisits
    <3> QED BY <1>2, <3>1, <3>3, TwoStops
  <2>5. Planned' BY <1>1, <2>1, <2>4 DEF Planned, NoShorter
  <2>6. PassSoFar' BY <2>1 DEF PassSoFar
  <2> QED BY <1>4, <1>5, <2>3, <2>5, <2>6 DEF RouteInv
<1>7. CASE ~(Len(greedy) < 3)
  <2>1. stage' = "reversing" /\ batch' = batch BY <1>1, <1>7
  <2>2. RouteTypeOK' BY <1>1, <1>2, <1>3, <2>1 DEF RouteTypeOK
  <2>3. Planned' BY <2>1 DEF Planned
  <2>4. PassSoFar'
    <3>1. 3 <= Len(greedy) /\ 1 \in 1..(Len(greedy) - 1) /\ 2 \in 2..Len(greedy) BY <1>2, <1>7
    <3>2. \A i, k \in DOMAIN greedy : ~(i < k /\ (i < 1 \/ (i = 1 /\ k < 2))) BY <1>2
    <3> QED BY <1>1, <1>3, <3>1, <3>2 DEF PassSoFar
  <2> QED BY <1>4, <1>5, <2>2, <2>3, <2>4 DEF RouteInv
<1> QED BY <1>6, <1>7

Sweeps == [pass : 1..MaxPasses, i : Nat, k : Nat, improved : BOOLEAN]

LEMMA StretchKeeps ==
  ASSUME RouteInv, StretchTried
  PROVE  RouteInv'
<1> DEFINE n == Len(ordered)
           i0 == sweep.i
           k0 == sweep.k
           r == Reversal(ordered, i0, k0)
           improved == sweep.improved \/ Shorter(r, ordered)
<1>1. /\ stage = "reversing"
      /\ ordered' = IF Shorter(r, ordered) THEN r ELSE ordered
      /\ UNCHANGED <<given, ahead, greedy>>
      /\ \/ ~LastStretch /\ sweep' = NextStretch(improved) /\ UNCHANGED <<stage, batch>>
         \/ /\ LastStretch /\ improved /\ sweep.pass < MaxPasses
            /\ sweep' = FirstStretch(sweep.pass + 1) /\ UNCHANGED <<stage, batch>>
         \/ /\ LastStretch /\ ~(improved /\ sweep.pass < MaxPasses)
            /\ sweep' = [sweep EXCEPT !.improved = improved] /\ RoutePlanned(ordered')
  BY DEF StretchTried
<1>2. /\ given \in Seq(Points) /\ ordered \in Seq(DOMAIN given) /\ n \in Nat /\ DOMAIN ordered = 1..n
      /\ sweep \in Sweeps /\ RouteTypeOK /\ GreedyVisits
      /\ IsInjective(ordered) /\ Range(ordered) = DOMAIN given /\ ahead = {}
      /\ RouteLength(given, ordered) <= RouteLength(given, greedy)
      /\ 3 <= n /\ i0 \in 1..(n - 1) /\ k0 \in (i0 + 1)..n
      /\ ~sweep.improved => \A i, k \in 1..n :
           i < k /\ (i < i0 \/ (i = i0 /\ k < k0)) => NoShorter(i, k)
  BY <1>1, LenProperties DEF RouteInv, RouteTypeOK, Sweeps, OrderedVisits, PassSoFar
<1>3. i0 \in 1..n /\ k0 \in 1..n /\ i0 < k0 BY <1>2
<1>4. /\ r = Turned(ordered, i0, k0) /\ r \in Seq(DOMAIN given) /\ DOMAIN r = 1..n
      /\ IsInjective(r) /\ Range(r) = DOMAIN given /\ Len(r) = n
  <2> HIDE DEF n, i0, k0
  <2>0. /\ i0 \in DOMAIN ordered /\ k0 \in DOMAIN ordered /\ i0 < k0
        /\ ordered \in Seq(DOMAIN given) /\ IsInjective(ordered)
    BY <1>2, <1>3
  <2>1. r = Turned(ordered, i0, k0) /\ r \in Seq(DOMAIN given) /\ DOMAIN r = 1..n
    <3>1. r = Turned(ordered, i0, k0) BY <2>0, ReversalIsTurned
    <3>2. /\ Turned(ordered, i0, k0) \in Seq(DOMAIN given)
          /\ DOMAIN Turned(ordered, i0, k0) = DOMAIN ordered
      BY <2>0, ReversalIsTurned
    <3> QED BY <1>2, <3>1, <3>2
  <2>2. IsInjective(r) /\ Range(r) = DOMAIN given
    <3>1. /\ IsInjective(Turned(ordered, i0, k0))
          /\ Range(Turned(ordered, i0, k0)) = Range(ordered)
      BY <2>0, TurnedVisits
    <3> QED BY <1>2, <2>1, <3>1
  <2>3. Len(r) = n BY <1>2, <2>1, LenProperties
  <2> QED BY <2>1, <2>2, <2>3
<1>5. /\ RouteLength(given, ordered) \in Nat /\ RouteLength(given, r) \in Nat
      /\ RouteLength(given, greedy) \in Nat
  BY <1>2, <1>4, LengthIsNat DEF RouteTypeOK, Sweeps
<1> HIDE DEF r
<1>6. /\ ordered' \in Seq(DOMAIN given) /\ DOMAIN ordered' = 1..n /\ Len(ordered') = n
      /\ IsInjective(ordered') /\ Range(ordered') = DOMAIN given
      /\ RouteLength(given, ordered') <= RouteLength(given, greedy)
  <2>1. CASE Shorter(r, ordered) BY <1>1, <1>2, <1>4, <1>5, <2>1 DEF Shorter
  <2>2. CASE ~Shorter(r, ordered) BY <1>1, <1>2, <2>2
  <2> QED BY <2>1, <2>2
<1>7. ~improved => ordered' = ordered /\ NoShorter(i0, k0) /\ ~sweep.improved
  BY <1>1, <1>4, <1>5 DEF NoShorter, Shorter
<1>8. improved \in BOOLEAN BY <1>2 DEF Shorter
<1> HIDE DEF improved, n
<1>9. stage' \in {"reversing", "planned"} BY <1>1 DEF RoutePlanned
<1>10. NothingYet' /\ GreedyVisits' /\ OrderedVisits'
  <2>1. NothingYet' BY <1>9 DEF NothingYet
  <2>2. GreedyVisits' BY <1>1, <1>2 DEF GreedyVisits
  <2>3. OrderedVisits' BY <1>1, <1>2, <1>6 DEF OrderedVisits
  <2> QED BY <2>1, <2>2, <2>3
<1>11. ASSUME ~improved, NEW i \in 1..n, NEW k \in 1..n, NoShorter(i, k) PROVE NoShorter(i, k)'
  BY <1>1, <1>7, <1>11 DEF NoShorter
<1>12. CASE ~LastStretch /\ sweep' = NextStretch(improved) /\ UNCHANGED <<stage, batch>>
  <2>1. /\ sweep' \in Sweeps /\ sweep'.improved = improved
        /\ \/ k0 < n /\ sweep'.i = i0 /\ sweep'.k = k0 + 1
           \/ k0 = n /\ i0 < n - 1 /\ sweep'.i = i0 + 1 /\ sweep'.k = i0 + 2
    <3>1. CASE k0 < n
      <4>1. sweep' = [sweep EXCEPT !.k = @ + 1, !.improved = improved]
        BY <1>12, <3>1 DEF NextStretch, n
      <4>2. sweep' = [[sweep EXCEPT !.k = k0 + 1] EXCEPT !.improved = improved] BY <4>1
      <4>3. k0 + 1 \in Nat BY <1>2
      <4>4. sweep \in Sweeps /\ improved \in BOOLEAN BY <1>2, <1>8
      <4>5. sweep' \in Sweeps /\ sweep'.improved = improved /\ sweep'.i = i0 /\ sweep'.k = k0 + 1
        <5> DEFINE v == [[sweep EXCEPT !.k = k0 + 1] EXCEPT !.improved = improved]
        <5>1. v \in Sweeps /\ v.improved = improved /\ v.i = sweep.i /\ v.k = k0 + 1
          <6> HIDE DEF k0
          <6> QED BY <4>3, <4>4 DEF Sweeps
        <5> HIDE DEF v
        <5> QED BY <4>2, <5>1 DEF v
      <4> QED BY <3>1, <4>5
    <3>2. CASE ~(k0 < n)
      <4>1. sweep' = [sweep EXCEPT !.i = @ + 1, !.k = sweep.i + 2, !.improved = improved]
        BY <1>12, <3>2 DEF NextStretch, n
      <4>2. k0 = n /\ i0 < n - 1 BY <1>2, <1>12, <3>2 DEF LastStretch, n
      <4>3. sweep' = [[sweep EXCEPT !.i = i0 + 1, !.k = i0 + 2] EXCEPT !.improved = improved] BY <4>1
      <4>4. i0 + 1 \in Nat /\ i0 + 2 \in Nat BY <1>2
      <4>5. sweep \in Sweeps /\ improved \in BOOLEAN BY <1>2, <1>8
      <4>6. sweep' \in Sweeps /\ sweep'.improved = improved /\ sweep'.i = i0 + 1 /\ sweep'.k = i0 + 2
        <5> DEFINE v == [[sweep EXCEPT !.i = i0 + 1, !.k = i0 + 2] EXCEPT !.improved = improved]
        <5>1. v \in Sweeps /\ v.improved = improved /\ v.i = i0 + 1 /\ v.k = i0 + 2
          <6> HIDE DEF i0
          <6> QED BY <4>4, <4>5 DEF Sweeps
        <5> HIDE DEF v
        <5> QED BY <4>3, <5>1 DEF v
      <4> QED BY <4>2, <4>6
    <3> QED BY <3>1, <3>2
  <2>2. RouteTypeOK' BY <1>1, <1>2, <1>6, <1>12, <2>1 DEF RouteTypeOK, Sweeps
  <2>3. PassSoFar'
    <3>1. 3 <= n /\ sweep'.i \in 1..(n - 1) /\ sweep'.k \in (sweep'.i + 1)..n BY SMTT(30), <1>2, <2>1
    <3>2. ASSUME ~improved, NEW i \in 1..n, NEW k \in 1..n, i < k,
                 i < sweep'.i \/ (i = sweep'.i /\ k < sweep'.k)
          PROVE  NoShorter(i, k)'
      <4>1. i < i0 \/ (i = i0 /\ k < k0) \/ (i = i0 /\ k = k0) BY SMTT(30), <1>2, <2>1, <3>2
      <4>2. NoShorter(i, k) BY <1>2, <1>7, <3>2, <4>1
      <4> QED BY <1>11, <3>2, <4>2
    <3> QED BY <1>6, <2>1, <3>1, <3>2 DEF PassSoFar
  <2>4. Planned' BY <1>1, <1>12 DEF Planned
  <2> QED BY <1>10, <2>2, <2>3, <2>4 DEF RouteInv
<1>13. CASE /\ LastStretch /\ improved /\ sweep.pass < MaxPasses
            /\ sweep' = FirstStretch(sweep.pass + 1) /\ UNCHANGED <<stage, batch>>
  <2>1. sweep' \in Sweeps /\ sweep'.i = 1 /\ sweep'.k = 2
    <3>1. sweep.pass \in 1..20 /\ sweep.pass < 20 BY <1>2, <1>13 DEF MaxPasses, Sweeps
    <3>2. sweep.pass + 1 \in 1..MaxPasses BY <3>1 DEF MaxPasses, Sweeps
    <3> QED BY <1>13, <3>2 DEF FirstStretch, Sweeps
  <2>2. RouteTypeOK' BY <1>1, <1>2, <1>6, <1>13, <2>1 DEF RouteTypeOK, Sweeps
  <2>3. PassSoFar'
    <3>1. 3 <= n /\ 1 \in 1..(n - 1) /\ 2 \in (1 + 1)..n BY <1>2
    <3>2. \A i, k \in 1..n : ~(i < k /\ (i < 1 \/ (i = 1 /\ k < 2))) BY <1>2
    <3> QED BY <1>6, <2>1, <3>1, <3>2 DEF PassSoFar
  <2>4. Planned' BY <1>1, <1>13 DEF Planned
  <2> QED BY <1>10, <2>2, <2>3, <2>4 DEF RouteInv
<1>14. CASE /\ LastStretch /\ ~(improved /\ sweep.pass < MaxPasses)
            /\ sweep' = [sweep EXCEPT !.improved = improved] /\ RoutePlanned(ordered')
  <2>1. sweep' \in Sweeps /\ sweep'.improved = improved BY <1>2, <1>8, <1>14 DEF Sweeps
  <2>2. stage' = "planned" /\ batch' = BuildCluster(given, ordered') BY <1>14 DEF RoutePlanned
  <2>3. batch' \in Seq(DOMAIN given) BY <1>2, <1>6, <2>2, ClusterIsLongest
  <2>4. RouteTypeOK' BY <1>1, <1>2, <1>6, <2>1, <2>2, <2>3 DEF RouteTypeOK, Sweeps
  <2>5. PassSoFar' BY <2>2 DEF PassSoFar
  <2>6. Planned'
    <3>1. i0 = n - 1 /\ k0 = n BY <1>14 DEF LastStretch, n
    <3>2. ASSUME ~improved, NEW i \in 1..n, NEW k \in 1..n, i < k PROVE NoShorter(i, k)'
      <4>1. i < i0 \/ (i = i0 /\ k < k0) \/ (i = i0 /\ k = k0) BY <1>2, <3>1, <3>2
      <4>2. NoShorter(i, k) BY <1>2, <1>7, <3>2, <4>1
      <4> QED BY <1>11, <3>2, <4>2
    <3> QED BY <1>1, <1>6, <2>1, <2>2, <3>2 DEF Planned
  <2> QED BY <1>10, <2>4, <2>5, <2>6 DEF RouteInv
<1> QED BY <1>1, <1>12, <1>13, <1>14 DEF improved

LEMMA RouteStep == RouteInv /\ [RouteNext]_routeVars => RouteInv'
<1> SUFFICES ASSUME RouteInv, [RouteNext]_routeVars PROVE RouteInv' OBVIOUS
<1>1. CASE \E stops \in UNION {[1..n -> Points] : n \in 1..MaxStops} : RouteAsked(stops)
  <2>1. PICK stops \in UNION {[1..n -> Points] : n \in 1..MaxStops} : RouteAsked(stops) BY <1>1
  <2>2. PICK n \in 1..MaxStops : stops \in [1..n -> Points] OBVIOUS
  <2> QED BY <2>1, <2>2, AskedKeeps
<1>2. CASE \E s \in ahead : NearestTaken(s) BY <1>2, NearestKeeps
<1>3. CASE GreedyDone BY <1>3, GreedyDoneKeeps
<1>4. CASE StretchTried BY <1>4, StretchKeeps
<1>5. CASE UNCHANGED routeVars
  BY <1>5 DEF routeVars, RouteInv, RouteTypeOK, NothingYet, GreedyVisits, OrderedVisits,
              PassSoFar, Planned, NoShorter
<1> QED BY <1>1, <1>2, <1>3, <1>4, <1>5 DEF RouteNext

\* The search of a route never leaves its types, for any grid, any number of
\* stops and any limits of a batch.
THEOREM RouteIsTyped == RouteSpec => []RouteTypeOK
<1>1. RouteInv => RouteTypeOK BY DEF RouteInv
<1> QED BY <1>1, RouteBegins, RouteStep, PTL DEF RouteSpec

\* A planned route visits every stop once and is no longer than going to the
\* nearest stop each time, its batch is its longest beginning within the limits,
\* and it is settled unless the cap on passes cut it off
\* (routeOptimizer.js:54-149, 170-198), for any grid and any stops.
THEOREM RoutesSettle == RouteSpec => [](RouteIsWhole /\ (PassesEnd => RouteIsSettled))
<1>1. RouteInv => RouteIsWhole
  <2> SUFFICES ASSUME RouteInv, stage = "planned" PROVE RouteIsWhole BY DEF RouteIsWhole
  <2>1. given \in Seq(Points) /\ ordered \in Seq(DOMAIN given) BY DEF RouteInv, RouteTypeOK
  <2> QED BY <2>1, ClusterIsLongest DEF RouteIsWhole, RouteInv, OrderedVisits, Planned
<1>2. RouteInv /\ PassesEnd => RouteIsSettled
  BY <1>1 DEF RouteIsSettled, PassesEnd, RouteInv, Planned, NoShorter
<1> QED BY <1>1, <1>2, RouteBegins, RouteStep, PTL DEF RouteSpec

-----------------------------------------------------------------------------
(* The cap on passes.                                                       *)

\* Every pass but the last improved something, and an improvement is at least one
\* step of the grid.
PassesPay ==
  /\ stage = "reversing" =>
       RouteLength(given, ordered) + sweep.pass
         <= RouteLength(given, greedy) + (IF sweep.improved THEN 0 ELSE 1)
  /\ stage = "planned" /\ sweep.improved =>
       RouteLength(given, ordered) + MaxPasses <= RouteLength(given, greedy)

LEMMA PassesPayStep == RouteInv /\ PassesPay /\ [RouteNext]_routeVars => PassesPay'
<1> SUFFICES ASSUME RouteInv, PassesPay, [RouteNext]_routeVars PROVE PassesPay' OBVIOUS
<1>1. /\ given \in Seq(Points) /\ greedy \in Seq(DOMAIN given) /\ ordered \in Seq(DOMAIN given)
      /\ sweep \in Sweeps
  BY DEF RouteInv, RouteTypeOK, Sweeps
<1>2. RouteLength(given, ordered) \in Nat /\ RouteLength(given, greedy) \in Nat
  BY <1>1, LengthIsNat
<1>3. ASSUME NEW stops, RouteAsked(stops) PROVE PassesPay' BY <1>3 DEF RouteAsked, PassesPay
<1>4. ASSUME NEW s \in ahead, NearestTaken(s) PROVE PassesPay'
  BY <1>4 DEF NearestTaken, PassesPay
<1>5. ASSUME GreedyDone PROVE PassesPay'
  <2>1. ordered' = greedy /\ given' = given /\ greedy' = greedy /\ sweep' = FirstStretch(1)
    BY <1>5 DEF GreedyDone
  <2>2. sweep'.pass = 1 /\ sweep'.improved = FALSE BY <2>1 DEF FirstStretch
  <2>3. RouteLength(given, greedy) + 1 <= RouteLength(given, greedy) + 1 BY <1>2
  <2> QED BY <2>1, <2>2, <2>3 DEF PassesPay
<1>6. ASSUME StretchTried PROVE PassesPay'
  <2> DEFINE improved == sweep.improved \/ Shorter(Reversal(ordered, sweep.i, sweep.k), ordered)
             now  == RouteLength(given, ordered)
             then == RouteLength(given, ordered')
             from == RouteLength(given, greedy)
  <2>1. /\ stage = "reversing" /\ given' = given /\ greedy' = greedy
        /\ \/ ~LastStretch /\ sweep' = NextStretch(improved) /\ stage' = stage
           \/ /\ LastStretch /\ improved /\ sweep.pass < MaxPasses
              /\ sweep' = FirstStretch(sweep.pass + 1) /\ stage' = stage
           \/ /\ LastStretch /\ ~(improved /\ sweep.pass < MaxPasses)
              /\ sweep' = [sweep EXCEPT !.improved = improved] /\ stage' = "planned"
    BY <1>6 DEF StretchTried, RoutePlanned
  <2>2. \/ then < now /\ improved
        \/ then = now /\ improved = sweep.improved
    BY <1>6, <1>1 DEF StretchTried, Shorter, Sweeps
  <2>3. improved \in BOOLEAN BY <1>1 DEF Sweeps, Shorter
  <2>4. now \in Nat /\ from \in Nat /\ sweep.pass \in 1..20 BY <1>1, <1>2 DEF Sweeps, MaxPasses
  <2>5. then \in Nat
    <3>1. RouteInv' BY RouteStep
    <3>2. given' \in Seq(Points) /\ ordered' \in Seq(DOMAIN given') BY <3>1 DEF RouteInv, RouteTypeOK
    <3> QED BY <2>1, <3>2, LengthIsNat
  <2>6. now + sweep.pass <= from + (IF sweep.improved THEN 0 ELSE 1) BY <2>1 DEF PassesPay
  <2> HIDE DEF improved, now, then, from
  <2>7. then + sweep.pass <= from + (IF improved THEN 0 ELSE 1) BY <2>2, <2>3, <2>4, <2>5, <2>6
  <2>8. CASE ~LastStretch /\ sweep' = NextStretch(improved) /\ stage' = stage
    <3>1. sweep'.pass = sweep.pass /\ sweep'.improved = improved
      BY <1>1, <2>3, <2>8 DEF NextStretch, Sweeps
    <3> QED BY <2>1, <2>7, <2>8, <3>1 DEF PassesPay, then, from
  <2>9. CASE /\ LastStretch /\ improved /\ sweep.pass < MaxPasses
             /\ sweep' = FirstStretch(sweep.pass + 1) /\ stage' = stage
    <3>1. sweep'.pass = sweep.pass + 1 /\ sweep'.improved = FALSE BY <2>9 DEF FirstStretch
    <3>2. then + (sweep.pass + 1) <= from + 1 BY <2>4, <2>5, <2>7, <2>9
    <3> QED BY <2>1, <2>9, <3>1, <3>2 DEF PassesPay, then, from
  <2>10. CASE /\ LastStretch /\ ~(improved /\ sweep.pass < MaxPasses)
              /\ sweep' = [sweep EXCEPT !.improved = improved] /\ stage' = "planned"
    <3>1. sweep'.improved = improved BY <1>1, <2>10 DEF Sweeps
    <3>2. improved => then + MaxPasses <= from BY <2>4, <2>5, <2>7, <2>10 DEF MaxPasses
    <3> QED BY <2>1, <2>10, <3>1, <3>2 DEF PassesPay, then, from
  <2> QED BY <2>1, <2>8, <2>9, <2>10
<1>7. CASE UNCHANGED routeVars BY <1>7 DEF routeVars, PassesPay
<1> QED BY <1>3, <1>4, <1>5, <1>6, <1>7 DEF RouteNext

\* The way from a stop to another crosses the grid at most once in either
\* direction, and a greedy route has no more stops than it was given.
LEMMA GreedyIsBounded ==
  RouteInv => RouteLength(given, greedy) <= MaxStops * (Width + Height - 2)
<1> SUFFICES ASSUME RouteInv PROVE RouteLength(given, greedy) <= MaxStops * (Width + Height - 2)
  OBVIOUS
<1> DEFINE most   == Width + Height - 2
           n      == Len(greedy)
           Walked == {step \in (DOMAIN greedy) \X (1..(Width + Height)) :
                        step[2] <= Leg(given, greedy, step[1])}
<1>1. /\ given \in Seq(Points) /\ greedy \in Seq(DOMAIN given) /\ Len(given) <= MaxStops
      /\ IsInjective(greedy)
  BY DEF RouteInv, RouteTypeOK, GreedyVisits
<1>2. /\ Width \in Nat \ {0} /\ Height \in Nat \ {0} /\ MaxStops \in Nat
      /\ most \in Nat
  BY RouteAssumption
<1>3. n \in Nat /\ DOMAIN greedy = 1..n /\ Len(given) \in Nat /\ DOMAIN given = 1..Len(given)
  BY <1>1, LenProperties
<1>4. n <= MaxStops
  <2>1. IsFiniteSet(1..n) /\ Cardinality(1..n) = n
    <3>1. 1 \in Int /\ n \in Int BY <1>3
    <3>2. IsFiniteSet(1..n) /\ Cardinality(1..n) = IF 1 > n THEN 0 ELSE n - 1 + 1
      BY <3>1, FS_Interval
    <3> QED BY <1>3, <3>2
  <2>2. IsFiniteSet(1..Len(given)) /\ Cardinality(1..Len(given)) = Len(given)
    <3>1. 1 \in Int /\ Len(given) \in Int BY <1>3
    <3>2. /\ IsFiniteSet(1..Len(given))
          /\ Cardinality(1..Len(given)) = IF 1 > Len(given) THEN 0 ELSE Len(given) - 1 + 1
      BY <3>1, FS_Interval
    <3> QED BY <1>3, <3>2
  <2>3. greedy \in [1..n -> 1..Len(given)] BY <1>1, <1>3, ElementOfSeq
  <2>4. ~(Len(given) < n)
    <3>1. SUFFICES ASSUME Len(given) < n PROVE FALSE OBVIOUS
    <3>2. \E x, y \in 1..n : x # y /\ greedy[x] = greedy[y]
      <4> HIDE DEF n
      <4> QED BY <2>1, <2>2, <2>3, <3>1, FS_PigeonHole
    <3> QED BY <1>1, <1>3, <3>2 DEF IsInjective
  <2> QED BY <1>1, <1>2, <1>3, <2>4
<1>5. Walked \subseteq (1..n) \X (1..most)
  <2> SUFFICES ASSUME NEW i \in 1..n, NEW m \in 1..(Width + Height), m <= Leg(given, greedy, i)
               PROVE  m \in 1..most
    BY <1>3
  <2>1. \A j \in 1..n : given[greedy[j]] \in Points
    <3>1. \A j \in 1..n : greedy[j] \in DOMAIN given BY <1>1, <1>3, ElementOfSeq
    <3>2. \A x \in DOMAIN given : given[x] \in Points BY <1>1, <1>3, ElementOfSeq
    <3> QED BY <3>1, <3>2
  <2>2. Origin \in Points BY <1>2 DEF Origin, Points
  <2>3. PICK a \in Points, b \in Points : Leg(given, greedy, i) = Apart(a, b)
    <3>1. i # 1 => i - 1 \in 1..n BY <1>3
    <3> QED BY <2>1, <2>2, <3>1 DEF Leg
  <2>4. a[1] \in 1..Width /\ a[2] \in 1..Height /\ b[1] \in 1..Width /\ b[2] \in 1..Height
    BY DEF Points
  <2>5. Apart(a, b) <= most BY <1>2, <2>4 DEF Apart
  <2>6. Apart(a, b) \in Nat BY ApartIsNat
  <2> QED BY <1>2, <2>3, <2>5, <2>6
<1>6. IsFiniteSet(1..most) /\ Cardinality(1..most) = most
  <2>1. 1 \in Int /\ most \in Int BY <1>2
  <2> HIDE DEF most
  <2>2. IsFiniteSet(1..most) /\ Cardinality(1..most) = IF 1 > most THEN 0 ELSE most - 1 + 1
    BY <2>1, FS_Interval
  <2> QED BY <1>2, <2>2
<1>7. IsFiniteSet(1..n) /\ Cardinality(1..n) = n
  <2>1. 1 \in Int /\ n \in Int BY <1>3
  <2> HIDE DEF n
  <2>2. IsFiniteSet(1..n) /\ Cardinality(1..n) = IF 1 > n THEN 0 ELSE n - 1 + 1
    BY <2>1, FS_Interval
  <2> QED BY <1>3, <2>2
<1> HIDE DEF most, n
<1>8. IsFiniteSet((1..n) \X (1..most)) /\ Cardinality((1..n) \X (1..most)) = n * most
  BY <1>6, <1>7, FS_Product
<1> HIDE DEF Walked
<1>9. Cardinality(Walked) <= n * most BY <1>5, <1>8, FS_Subset
<1>10. n * most <= MaxStops * most BY <1>2, <1>3, <1>4
<1>11. RouteLength(given, greedy) = Cardinality(Walked) BY DEF RouteLength, Walked
<1>12. RouteLength(given, greedy) \in Nat BY <1>1, LengthIsNat
<1>13. n * most \in Nat /\ MaxStops * most \in Nat BY <1>2, <1>3
<1>14. RouteLength(given, greedy) <= MaxStops * most BY <1>9, <1>10, <1>11, <1>12, <1>13
<1> QED BY <1>14 DEF most

\* Where a route of the most stops cannot be as long as MAX_TWO_OPT_PASSES steps, the
\* cap is never what ends the passes: every planned route is settled.
THEOREM ShortRoutesSettle ==
  ASSUME MaxStops * (Width + Height - 2) < MaxPasses
  PROVE  RouteSpec => []RouteIsSettled
<1>1. RouteInit => PassesPay BY DEF RouteInit, PassesPay
<1>2. RouteInv /\ PassesPay => PassesEnd
  <2> SUFFICES ASSUME RouteInv, PassesPay, stage = "planned", sweep.improved PROVE FALSE
    BY DEF PassesEnd
  <2>1. given \in Seq(Points) /\ greedy \in Seq(DOMAIN given) /\ ordered \in Seq(DOMAIN given)
    BY DEF RouteInv, RouteTypeOK
  <2>2. RouteLength(given, ordered) \in Nat /\ RouteLength(given, greedy) \in Nat
    BY <2>1, LengthIsNat
  <2>3. RouteLength(given, ordered) + MaxPasses <= RouteLength(given, greedy) BY DEF PassesPay
  <2>4. RouteLength(given, greedy) <= MaxStops * (Width + Height - 2) BY GreedyIsBounded
  <2>5. MaxStops * (Width + Height - 2) \in Int BY RouteAssumption
  <2> QED BY <2>2, <2>3, <2>4, <2>5 DEF MaxPasses
<1> QED BY <1>1, <1>2, RouteBegins, RouteStep, PassesPayStep, RoutesSettle, PTL DEF RouteSpec
=============================================================================
