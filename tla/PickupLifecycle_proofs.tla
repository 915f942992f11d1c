----------------------- MODULE PickupLifecycle_proofs -----------------------
(***************************************************************************)
(* Proofs about PickupLifecycle, for every set of collectors, any number of *)
(* concurrent handlers and every workload.                                  *)
(***************************************************************************)
EXTENDS PickupLifecycle, FiniteSetTheorems, TLAPS

\* What a handler has read is fit for what it will write.
Carried(r) ==
  /\ r.op \in {"accept", "offer"} => r.by \in Collectors
  /\ r.op \in {"withdraw", "erase"} => r.by \in People
  /\ r.op \in {"offer", "invite", "counter", "agree"} => r.n \in Amounts
  /\ r.op \in {"invite", "agree", "assign", "no-show", "suspend"} => r.arg \in Collectors
  /\ r.op = "miscode" => r.n \in 1..OtpLimit

SlotsOK ==
  /\ slots \in [Slots \cup Jobs -> Tickets]
  /\ \A s \in Slots \cup Jobs : Carried(slots[s])

\* A job's slot runs that job and nothing else, and no other slot runs it.
JobSlots ==
  /\ slots["expire job"].op \in {"idle", "expire"}
  /\ slots["stall job"].op \in {"idle", "stall"}
  /\ \A s \in Slots : slots[s].op \notin {"expire", "stall"}

\* The inductive core: the types, and what a live offer, a held job and a
\* running handler say about each other.
Core == TypeOK /\ SlotsOK /\ JobSlots /\ LiveOfferHasNegotiator /\ MatchedIffHeld

-----------------------------------------------------------------------------
(* Slots.                                                                  *)

\* Any handler whose reads are fit may start in any slot.
LEMMA SlotFilled ==
  ASSUME SlotsOK, NEW s \in Slots \cup Jobs, NEW r \in Tickets, Carried(r),
         slots' = [slots EXCEPT ![s] = r]
  PROVE  SlotsOK'
<1>1. slots' \in [Slots \cup Jobs -> Tickets]
  BY DEF SlotsOK
<1>2. ASSUME NEW t \in Slots \cup Jobs PROVE Carried(slots'[t])
  <2>1. CASE t = s BY <2>1 DEF SlotsOK
  <2>2. CASE t # s BY <2>2 DEF SlotsOK
  <2> QED BY <2>1, <2>2
<1>3. (\A t \in Slots \cup Jobs : Carried(slots[t]))'
  BY <1>2 DEF Carried
<1> QED BY <1>1, <1>3 DEF SlotsOK

LEMMA IdleFits == Idle \in Tickets /\ Carried(Idle)
BY DEF Idle, Tickets, Carried, Operations, Anyone

\* A handler that ends leaves its slot free.
LEMMA SlotFreed ==
  ASSUME SlotsOK, NEW s \in Slots \cup Jobs, slots' = [slots EXCEPT ![s] = Idle]
  PROVE  SlotsOK'
BY IdleFits, SlotFilled

\* An arrival fills a slot of a request.
LEMMA SlotTaken ==
  ASSUME SlotsOK, NEW s, NEW op \in Requests, NEW by \in People, NEW arg \in Anyone, NEW n \in Nat,
         Carried([op |-> op, by |-> by, arg |-> arg, n |-> n]),
         Arrive(s, op, by, arg, n)
  PROVE  SlotsOK'
<1> DEFINE r == [op |-> op, by |-> by, arg |-> arg, n |-> n]
<1>1. r \in Tickets BY DEF Tickets, Operations
<1>2. slots' = [slots EXCEPT ![s] = r] /\ s \in Slots \cup Jobs BY DEF Arrive
<1> HIDE DEF r
<1> QED BY <1>1, <1>2, SlotFilled DEF r

-----------------------------------------------------------------------------
(* The inductive core.                                                     *)

LEMMA CoreInit == Init => Core
<1> SUFFICES ASSUME Init PROVE Core OBVIOUS
<1> USE PeopleAssumption, AmountAssumption, BoundAssumption
<1>1. TypeOK
  BY DEF TypeOK, Init, Pickups, Negotiations, Handshakes, Trackings, Clocks, Standings, Tickets,
     NoNegotiation, Idle, Anyone, People, Times, Departures, Operations
<1>2. SlotsOK /\ JobSlots
  BY IdleFits DEF Init, SlotsOK, JobSlots, Idle, Jobs
<1>3. LiveOfferHasNegotiator /\ MatchedIffHeld
  BY DEF Init, NoNegotiation, LiveOfferHasNegotiator, MatchedIffHeld
<1> QED BY <1>1, <1>2, <1>3 DEF Core

\* Requests that only read.
LEMMA ArrivalKeepsCore ==
  ASSUME Core, NEW s \in Slots, RequesterAsks(s) \/ \E c \in Collectors : CollectorAsks(s, c)
  PROVE  Core'
<1> USE PeopleAssumption, AmountAssumption, BoundAssumption
<1> USE DEF Core
<1>1. ASSUME NEW op \in Requests, NEW by \in People, NEW arg \in Anyone, NEW n \in Nat,
             Carried([op |-> op, by |-> by, arg |-> arg, n |-> n]),
             Arrive(s, op, by, arg, n), UNCHANGED world
      PROVE  Core'
  <2>1. SlotsOK' BY <1>1, SlotTaken
  <2>2. TypeOK' /\ LiveOfferHasNegotiator' /\ MatchedIffHeld'
    BY <1>1, <2>1 DEF TypeOK, world, SlotsOK, Tickets, LiveOfferHasNegotiator, MatchedIffHeld
  <2>3. JobSlots' BY <1>1 DEF JobSlots, Arrive, Jobs, Requests, SlotsOK
  <2> QED BY <2>1, <2>2, <2>3
<1>2. ASSUME CreateArrives(s) PROVE Core'
  BY <1>2, <1>1 DEF CreateArrives, Carried, Requests, People, Anyone
<1>3. ASSUME WithdrawArrives(s) PROVE Core'
  BY <1>3, <1>1 DEF WithdrawArrives, Carried, Requests, People, Anyone
<1>4. ASSUME NEW u \in People, DeclineArrives(s, u) PROVE Core'
  BY <1>4, <1>1 DEF DeclineArrives, Carried, Requests, People, Anyone
<1>5. ASSUME NEW u \in People, AgreeArrives(s, u) PROVE Core'
  BY <1>5, <1>1 DEF AgreeArrives, MayRespond, LiveOfferHasNegotiator, TypeOK, Negotiations, Carried, Requests, People, Anyone
<1>6. ASSUME NEW u \in People, NEW n \in Amounts, CounterArrives(s, u, n) PROVE Core'
  BY <1>6, <1>1 DEF CounterArrives, Carried, Requests, People, Anyone
<1>7. ASSUME NEW c \in Collectors, NEW n \in Amounts, InviteArrives(s, c, n) PROVE Core'
  BY <1>7, <1>1 DEF InviteArrives, Carried, Requests, People, Anyone
<1>8. ASSUME NEW c \in Collectors, AcceptArrives(s, c) PROVE Core'
  BY <1>8, <1>1 DEF AcceptArrives, Carried, Requests, People, Anyone
<1>9. ASSUME NEW c \in Collectors, SetOffArrives(s, c) PROVE Core'
  BY <1>9, <1>1 DEF SetOffArrives, FirstPress, Carried, Requests, People, Anyone
<1>10. ASSUME NEW c \in Collectors, StartArrives(s, c) PROVE Core'
  BY SMTT(30), <1>10, <1>1 DEF StartArrives, TypeOK, Pickups, Carried, Requests, People, Anyone
<1>11. ASSUME NEW c \in Collectors, WrongCodeArrives(s, c) PROVE Core'
  <2>1. handshake.failedAttempts + 1 \in 1..OtpLimit /\ handshake.failedAttempts + 1 \in Nat
    BY DEF TypeOK, Handshakes
  <2>2. "miscode" \in Requests /\ c \in People /\ NoOne \in Anyone
    BY DEF Requests, People, Anyone
  <2> QED BY <1>11, <1>1, <2>1, <2>2 DEF WrongCodeArrives, Carried
<1>12. ASSUME NEW c \in Collectors, CompleteArrives(s, c) PROVE Core'
  BY SMTT(30), <1>12, <1>1 DEF CompleteArrives, TypeOK, Pickups, Carried, Requests, People, Anyone
<1>13. ASSUME NEW c \in Collectors, EraseArrives(s, c) PROVE Core'
  BY <1>13, <1>1 DEF EraseArrives, Carried, Requests, People, Anyone
<1>14. ASSUME NEW c \in Collectors, NEW n \in Amounts, OfferArrives(s, c, n) PROVE Core'
  BY <1>14, <1>1 DEF OfferArrives, Carried, Requests, People, Anyone
<1>15. ASSUME NEW c \in Collectors, NEW m \in Collectors, AssignArrives(s, c, m) PROVE Core'
  BY <1>15, <1>1 DEF AssignArrives, Carried, Requests, People, Anyone
<1>16. ASSUME ReportNoShow(s) PROVE Core'
  <2>1. pickup.collector \in Collectors
    BY <1>16 DEF ReportNoShow, Reportable, MatchedIffHeld
  <2>2. SlotsOK'
    BY <1>16, <2>1, SlotTaken DEF ReportNoShow, Carried, Requests, People, Anyone
  <2>3. JobSlots'
    BY <1>16 DEF ReportNoShow, JobSlots, Arrive, Jobs, SlotsOK
  <2>4. TypeOK'
    BY <1>16, <2>2 DEF ReportNoShow, Reopened, NoNegotiation, TypeOK, SlotsOK, Pickups, Negotiations, Anyone
  <2>5. LiveOfferHasNegotiator' /\ MatchedIffHeld'
    BY <1>16 DEF ReportNoShow, Reopened, NoNegotiation, TypeOK, LiveOfferHasNegotiator, MatchedIffHeld
  <2> QED BY <2>2, <2>3, <2>4, <2>5
<1>17. ASSUME NEW c \in Collectors, NEW m \in Collectors, MemberGoes(s, c, m) PROVE Core'
  <2> DEFINE r == [op |-> "release", by |-> c, arg |-> m, n |-> 0]
  <2>1. r \in Tickets /\ Carried(r)
    BY DEF Tickets, Operations, Requests, People, Anyone, Carried
  <2>2. SlotsOK'
    BY <1>17, <2>1, SlotFilled DEF MemberGoes
  <2>3. JobSlots'
    BY <1>17 DEF MemberGoes, JobSlots, Jobs, SlotsOK
  <2>4. TypeOK'
    BY <1>17, <2>2 DEF MemberGoes, TypeOK, SlotsOK, Tickets
  <2>5. LiveOfferHasNegotiator' /\ MatchedIffHeld'
    BY <1>17 DEF MemberGoes, LiveOfferHasNegotiator, MatchedIffHeld
  <2> QED BY <2>2, <2>3, <2>4, <2>5
<1>18. Requester \in People /\ Collectors \subseteq People
  BY DEF People
<1> QED
  BY <1>2, <1>3, <1>4, <1>5, <1>6, <1>7, <1>8, <1>9, <1>10, <1>11, <1>12, <1>13, <1>14, <1>15,
     <1>16, <1>17, <1>18 DEF RequesterAsks, CollectorAsks

\* TypeOK without the slots.
RecordsOK ==
  /\ pickup \in Pickups /\ negotiation \in Negotiations /\ handshake \in Handshakes
  /\ tracking \in Trackings /\ clock \in Clocks
  /\ members \in [Collectors -> SUBSET Collectors]
  /\ standing \in [Collectors -> Standings]
  /\ gone \subseteq People
  /\ setOff \in Departures
  /\ stalls \in [Collectors -> Nat]

LEMMA TypeParts == TypeOK <=> RecordsOK /\ slots \in [Slots \cup Jobs -> Tickets]
BY DEF TypeOK, RecordsOK

LEMMA TypePartsPrimed == TypeOK' <=> RecordsOK' /\ slots' \in [Slots \cup Jobs -> Tickets]
BY DEF TypeOK, RecordsOK

\* A handler or a job that ends frees its slot; what it writes fits the types.
LEMMA EndKeepsCore ==
  ASSUME Core, NEW s \in Slots \cup Jobs, slots' = [slots EXCEPT ![s] = Idle],
         RecordsOK', LiveOfferHasNegotiator', MatchedIffHeld'
  PROVE  Core'
<1>1. SlotsOK' BY SlotFreed DEF Core
<1>2. JobSlots' BY DEF Core, JobSlots, Jobs, SlotsOK, Idle
<1>3. TypeOK' BY <1>1, TypePartsPrimed DEF SlotsOK
<1> QED BY <1>1, <1>2, <1>3 DEF Core

\* A pushed offer leaves a negotiation.
LEMMA PushType ==
  ASSUME NEW neg \in Negotiations, NEW side \in {"requester", "collector"}, NEW n \in Amounts
  PROVE  [neg EXCEPT !.lastBy = side, !.lastAmount = n, !.count = @ + 1] \in Negotiations
<1>1. neg.count + 1 \in Nat BY DEF Negotiations
<1> QED BY <1>1 DEF Negotiations

LEMMA ServerKeepsCore ==
  ASSUME Core, NEW s \in Slots, ServerRuns(s)
  PROVE  Core'
<1> USE PeopleAssumption, AmountAssumption, BoundAssumption
<1>1. /\ Carried(slots[s])
      /\ slots[s].by \in People \cup {NoOne}
      /\ slots[s].arg \in Anyone
      /\ slots[s].n \in Nat
  BY DEF Core, SlotsOK, Tickets
<1>2. RecordsOK /\ LiveOfferHasNegotiator /\ MatchedIffHeld
  BY TypeParts DEF Core
<1>3. ASSUME CreateApplies(s) PROVE Core'
  <2>1. slots' = [slots EXCEPT ![s] = Idle]
    BY <1>3 DEF CreateApplies, Applies
  <2>2. pickup' \in Pickups
    BY <1>1, <1>2, <1>3 DEF CreateApplies, Applies, RecordsOK, Carried, Anyone, Pickups
  <2>3. RecordsOK'
    BY <1>1, <1>2, <1>3, <2>2 DEF CreateApplies, RecordsOK
  <2>4. LiveOfferHasNegotiator' /\ MatchedIffHeld'
    BY <1>1, <1>2, <1>3 DEF CreateApplies, Applies, Filter, RecordsOK, Pickups, Negotiations, Carried, Anyone,
       LiveOfferHasNegotiator, MatchedIffHeld, InProgress, IsActor, OpenToAll, OpenToOffersOf,
       StillNegotiating, StillAgreeable, MayStart, MayComplete
  <2> QED BY <2>1, <2>3, <2>4, EndKeepsCore
<1>4. ASSUME AcceptApplies(s) PROVE Core'
  <2>1. slots' = [slots EXCEPT ![s] = Idle]
    BY <1>4 DEF AcceptApplies, Applies
  <2>2. pickup' \in Pickups
    BY <1>1, <1>2, <1>4 DEF AcceptApplies, TakeOver, Applies, RecordsOK, Carried, Anyone, Pickups
  <2>3. clock' \in Clocks
    BY <1>1, <1>2, <1>4 DEF AcceptApplies, TakeOver, Applies, RecordsOK, Carried, Anyone, Clocks
  <2>4. RecordsOK'
    BY <1>1, <1>2, <1>4, <2>2, <2>3 DEF AcceptApplies, TakeOver, RecordsOK, Departures
  <2>5. LiveOfferHasNegotiator' /\ MatchedIffHeld'
    BY <1>1, <1>2, <1>4 DEF AcceptApplies, TakeOver, Applies, Filter, RecordsOK, Pickups, Negotiations, Carried, Anyone,
       LiveOfferHasNegotiator, MatchedIffHeld, InProgress, IsActor, OpenToAll, OpenToOffersOf,
       StillNegotiating, StillAgreeable, MayStart, MayComplete
  <2> QED BY <2>1, <2>4, <2>5, EndKeepsCore
<1>5. ASSUME OfferApplies(s) PROVE Core'
  <2>1. slots' = [slots EXCEPT ![s] = Idle]
    BY <1>5 DEF OfferApplies, Applies
  <2>2. negotiation' \in Negotiations
    <3>1. Negotiating(slots[s].by) \in Negotiations
      BY <1>1, <1>2, <1>5 DEF Negotiating, OfferApplies, Applies, Carried, RecordsOK, Negotiations, Anyone
    <3> QED BY <1>1, <1>2, <1>5, <3>1, PushType DEF OfferApplies, Push, Applies, Carried, RecordsOK
  <2>3. clock' \in Clocks
    BY <1>1, <1>2, <1>5 DEF OfferApplies, Push, Negotiating, Applies, RecordsOK, Carried, Anyone, Clocks
  <2>4. RecordsOK'
    BY <1>1, <1>2, <1>5, <2>2, <2>3 DEF OfferApplies, Push, Negotiating, RecordsOK
  <2>5. LiveOfferHasNegotiator' /\ MatchedIffHeld'
    BY <1>1, <1>2, <1>5 DEF OfferApplies, Push, Negotiating, Applies, Filter, RecordsOK, Pickups, Negotiations, Carried, Anyone,
       LiveOfferHasNegotiator, MatchedIffHeld, InProgress, IsActor, OpenToAll, OpenToOffersOf,
       StillNegotiating, StillAgreeable, MayStart, MayComplete
  <2> QED BY <2>1, <2>4, <2>5, EndKeepsCore
<1>6. ASSUME InviteApplies(s) PROVE Core'
  <2>1. slots' = [slots EXCEPT ![s] = Idle]
    BY <1>6 DEF InviteApplies, Applies
  <2>2. negotiation' \in Negotiations
    <3>1. Negotiating(slots[s].arg) \in Negotiations
      BY <1>1, <1>2, <1>6 DEF Negotiating, InviteApplies, Applies, Carried, RecordsOK, Negotiations, Anyone
    <3> QED BY <1>1, <1>2, <1>6, <3>1, PushType DEF InviteApplies, Push, Applies, Carried, RecordsOK
  <2>3. clock' \in Clocks
    BY <1>1, <1>2, <1>6 DEF InviteApplies, Push, Negotiating, Applies, RecordsOK, Carried, Anyone, Clocks
  <2>4. RecordsOK'
    BY <1>1, <1>2, <1>6, <2>2, <2>3 DEF InviteApplies, Push, Negotiating, RecordsOK
  <2>5. LiveOfferHasNegotiator' /\ MatchedIffHeld'
    BY <1>1, <1>2, <1>6 DEF InviteApplies, Push, Negotiating, Applies, Filter, RecordsOK, Pickups, Negotiations, Carried, Anyone,
       LiveOfferHasNegotiator, MatchedIffHeld, InProgress, IsActor, OpenToAll, OpenToOffersOf,
       StillNegotiating, StillAgreeable, MayStart, MayComplete
  <2> QED BY <2>1, <2>4, <2>5, EndKeepsCore
<1>7. ASSUME DeclineApplies(s) PROVE Core'
  <2>1. slots' = [slots EXCEPT ![s] = Idle]
    BY <1>7 DEF DeclineApplies, Applies
  <2>2. negotiation' \in Negotiations
    BY <1>1, <1>2, <1>7 DEF DeclineApplies, NegotiationDies, Applies, RecordsOK, Carried, Anyone, Negotiations
  <2>3. RecordsOK'
    BY <1>1, <1>2, <1>7, <2>2 DEF DeclineApplies, NegotiationDies, RecordsOK
  <2>4. LiveOfferHasNegotiator' /\ MatchedIffHeld'
    BY <1>1, <1>2, <1>7 DEF DeclineApplies, NegotiationDies, Applies, Filter, RecordsOK, Pickups, Negotiations, Carried, Anyone,
       LiveOfferHasNegotiator, MatchedIffHeld, InProgress, IsActor, OpenToAll, OpenToOffersOf,
       StillNegotiating, StillAgreeable, MayStart, MayComplete
  <2> QED BY <2>1, <2>3, <2>4, EndKeepsCore
<1>8. ASSUME CounterApplies(s) PROVE Core'
  <2>1. slots' = [slots EXCEPT ![s] = Idle]
    BY <1>8 DEF CounterApplies, Applies
  <2>2. negotiation' \in Negotiations
    <3>1. RoleOf(slots[s].by) \in {"requester", "collector"}
      BY <1>1, <1>2, <1>8 DEF RoleOf
    <3> QED BY <1>1, <1>2, <1>8, <3>1, PushType DEF CounterApplies, Push, Applies, Carried, RecordsOK
  <2>3. clock' \in Clocks
    BY <1>1, <1>2, <1>8 DEF CounterApplies, Push, RoleOf, Applies, RecordsOK, Carried, Anyone, Clocks
  <2>4. RecordsOK'
    BY <1>1, <1>2, <1>8, <2>2, <2>3 DEF CounterApplies, Push, RoleOf, RecordsOK
  <2>5. LiveOfferHasNegotiator' /\ MatchedIffHeld'
    BY <1>1, <1>2, <1>8 DEF CounterApplies, Push, RoleOf, Applies, Filter, RecordsOK, Pickups, Negotiations, Carried, Anyone,
       LiveOfferHasNegotiator, MatchedIffHeld, InProgress, IsActor, OpenToAll, OpenToOffersOf,
       StillNegotiating, StillAgreeable, MayStart, MayComplete
  <2> QED BY <2>1, <2>4, <2>5, EndKeepsCore
<1>9. ASSUME AgreeApplies(s) PROVE Core'
  <2>1. slots' = [slots EXCEPT ![s] = Idle]
    BY <1>9 DEF AgreeApplies, Applies
  <2>2. pickup' \in Pickups
    BY <1>1, <1>2, <1>9 DEF AgreeApplies, TakeOver, Applies, RecordsOK, Carried, Anyone, Pickups
  <2>3. negotiation' \in Negotiations
    BY <1>1, <1>2, <1>9 DEF AgreeApplies, TakeOver, Applies, RecordsOK, Carried, Anyone, Negotiations
  <2>4. clock' \in Clocks
    BY <1>1, <1>2, <1>9 DEF AgreeApplies, TakeOver, Applies, RecordsOK, Carried, Anyone, Clocks
  <2>5. RecordsOK'
    BY <1>1, <1>2, <1>9, <2>2, <2>3, <2>4 DEF AgreeApplies, TakeOver, RecordsOK, Departures
  <2>6. LiveOfferHasNegotiator' /\ MatchedIffHeld'
    BY <1>1, <1>2, <1>9 DEF AgreeApplies, TakeOver, Applies, Filter, RecordsOK, Pickups, Negotiations, Carried, Anyone,
       LiveOfferHasNegotiator, MatchedIffHeld, InProgress, IsActor, OpenToAll, OpenToOffersOf,
       StillNegotiating, StillAgreeable, MayStart, MayComplete
  <2> QED BY <2>1, <2>5, <2>6, EndKeepsCore
<1>10. ASSUME SetOffApplies(s) PROVE Core'
  <2>1. slots' = [slots EXCEPT ![s] = Idle]
    BY <1>10 DEF SetOffApplies, Applies
  <2>2. tracking' \in Trackings
    BY <1>1, <1>2, <1>10 DEF SetOffApplies, Times, Applies, RecordsOK, Carried, Anyone, Trackings
  <2>3. RecordsOK'
    BY <1>1, <1>2, <1>10, <2>2 DEF SetOffApplies, Times, Departures, RecordsOK
  <2>4. LiveOfferHasNegotiator' /\ MatchedIffHeld'
    BY <1>1, <1>2, <1>10 DEF SetOffApplies, Times, Applies, Filter, RecordsOK, Pickups, Negotiations, Carried, Anyone,
       LiveOfferHasNegotiator, MatchedIffHeld, InProgress, IsActor, OpenToAll, OpenToOffersOf,
       StillNegotiating, StillAgreeable, MayStart, MayComplete
  <2> QED BY <2>1, <2>3, <2>4, EndKeepsCore
<1>11. ASSUME StartApplies(s) PROVE Core'
  <2>1. slots' = [slots EXCEPT ![s] = Idle]
    BY <1>11 DEF StartApplies, Applies
  <2>2. pickup' \in Pickups
    BY <1>1, <1>2, <1>11 DEF StartApplies, Applies, RecordsOK, Carried, Anyone, Pickups
  <2>3. handshake' \in Handshakes
    BY <1>1, <1>2, <1>11 DEF StartApplies, Applies, RecordsOK, Carried, Anyone, Handshakes
  <2>4. RecordsOK'
    BY <1>1, <1>2, <1>11, <2>2, <2>3 DEF StartApplies, RecordsOK
  <2>5. LiveOfferHasNegotiator' /\ MatchedIffHeld'
    BY <1>1, <1>2, <1>11 DEF StartApplies, Applies, Filter, RecordsOK, Pickups, Negotiations, Carried, Anyone,
       LiveOfferHasNegotiator, MatchedIffHeld, InProgress, IsActor, OpenToAll, OpenToOffersOf,
       StillNegotiating, StillAgreeable, MayStart, MayComplete
  <2> QED BY <2>1, <2>4, <2>5, EndKeepsCore
<1>12. ASSUME WrongCodeApplies(s) PROVE Core'
  <2>1. slots' = [slots EXCEPT ![s] = Idle]
    BY <1>12 DEF WrongCodeApplies, Applies
  <2>2. handshake' \in Handshakes
    <3>1. ~Locks(slots[s].n) => slots[s].n \in 0..(OtpLimit - 1)
      <4>1. slots[s].n \in 1..OtpLimit BY <1>1, <1>12 DEF WrongCodeApplies, Applies, Carried
      <4>2. ASSUME NEW m \in 1..OtpLimit, ~Locks(m) PROVE m \in 0..(OtpLimit - 1)
        BY <4>2 DEF Locks
      <4> QED BY <4>1, <4>2
    <3>2. 0 \in 0..(OtpLimit - 1) /\ Locks(slots[s].n) \in BOOLEAN
      BY DEF Locks
    <3> QED BY <1>2, <1>12, <3>1, <3>2 DEF WrongCodeApplies, RecordsOK, Handshakes
  <2>3. RecordsOK'
    BY <1>1, <1>2, <1>12, <2>2 DEF WrongCodeApplies, Locks, RecordsOK
  <2>4. LiveOfferHasNegotiator' /\ MatchedIffHeld'
    BY <1>1, <1>2, <1>12 DEF WrongCodeApplies, Locks, Applies, Filter, RecordsOK, Pickups, Negotiations, Carried, Anyone,
       LiveOfferHasNegotiator, MatchedIffHeld, InProgress, IsActor, OpenToAll, OpenToOffersOf,
       StillNegotiating, StillAgreeable, MayStart, MayComplete
  <2> QED BY <2>1, <2>3, <2>4, EndKeepsCore
<1>13. ASSUME CompleteApplies(s) PROVE Core'
  <2>1. slots' = [slots EXCEPT ![s] = Idle]
    BY <1>13 DEF CompleteApplies, Applies
  <2>2. pickup' \in Pickups
    BY <1>1, <1>2, <1>13 DEF CompleteApplies, Applies, RecordsOK, Carried, Anyone, Pickups
  <2>3. RecordsOK'
    BY <1>1, <1>2, <1>13, <2>2 DEF CompleteApplies, RecordsOK
  <2>4. LiveOfferHasNegotiator' /\ MatchedIffHeld'
    BY <1>1, <1>2, <1>13 DEF CompleteApplies, Applies, Filter, RecordsOK, Pickups, Negotiations, Carried, Anyone,
       LiveOfferHasNegotiator, MatchedIffHeld, InProgress, IsActor, OpenToAll, OpenToOffersOf,
       StillNegotiating, StillAgreeable, MayStart, MayComplete
  <2> QED BY <2>1, <2>3, <2>4, EndKeepsCore
<1>14. ASSUME AssignApplies(s) PROVE Core'
  <2>1. slots' = [slots EXCEPT ![s] = Idle]
    BY <1>14 DEF AssignApplies, Applies
  <2>2. pickup' \in Pickups
    BY <1>1, <1>2, <1>14 DEF AssignApplies, Assigned, Applies, RecordsOK, Carried, Anyone, Pickups
  <2>3. RecordsOK'
    BY <1>1, <1>2, <1>14, <2>2 DEF AssignApplies, Assigned, RecordsOK
  <2>4. LiveOfferHasNegotiator' /\ MatchedIffHeld'
    BY <1>1, <1>2, <1>14 DEF AssignApplies, Assigned, Applies, Filter, RecordsOK, Pickups, Negotiations, Carried, Anyone,
       LiveOfferHasNegotiator, MatchedIffHeld, InProgress, IsActor, OpenToAll, OpenToOffersOf,
       StillNegotiating, StillAgreeable, MayStart, MayComplete
  <2> QED BY <2>1, <2>3, <2>4, EndKeepsCore
<1>15. ASSUME ReleaseApplies(s) PROVE Core'
  <2>1. slots' = [slots EXCEPT ![s] = Idle]
    BY <1>15 DEF ReleaseApplies, Applies
  <2>2. pickup' \in Pickups
    BY <1>1, <1>2, <1>15 DEF ReleaseApplies, Assigned, Applies, RecordsOK, Carried, Anyone, Pickups
  <2>3. RecordsOK'
    BY <1>1, <1>2, <1>15, <2>2 DEF ReleaseApplies, Assigned, RecordsOK
  <2>4. LiveOfferHasNegotiator' /\ MatchedIffHeld'
    BY <1>1, <1>2, <1>15 DEF ReleaseApplies, Assigned, Applies, Filter, RecordsOK, Pickups, Negotiations, Carried, Anyone,
       LiveOfferHasNegotiator, MatchedIffHeld, InProgress, IsActor, OpenToAll, OpenToOffersOf,
       StillNegotiating, StillAgreeable, MayStart, MayComplete
  <2> QED BY <2>1, <2>3, <2>4, EndKeepsCore
<1>16. ASSUME Suspend(s) PROVE Core'
  <2>1. slots' = [slots EXCEPT ![s] = Idle]
    BY <1>16 DEF Suspend, Applies
  <2>2. standing' \in [Collectors -> Standings]
    BY ZenonT(60), <1>1, <1>2, <1>16 DEF Suspend, Applies, RecordsOK, Carried, Anyone, Standings
  <2>3. RecordsOK'
    BY <1>1, <1>2, <1>16, <2>2 DEF Suspend, RecordsOK
  <2>4. LiveOfferHasNegotiator' /\ MatchedIffHeld'
    BY <1>1, <1>2, <1>16 DEF Suspend, Applies, Filter, RecordsOK, Pickups, Negotiations, Carried, Anyone,
       LiveOfferHasNegotiator, MatchedIffHeld, InProgress, IsActor, OpenToAll, OpenToOffersOf,
       StillNegotiating, StillAgreeable, MayStart, MayComplete
  <2> QED BY <2>1, <2>3, <2>4, EndKeepsCore
<1>17. ASSUME EraseApplies(s) PROVE Core'
  <2>1. slots' = [slots EXCEPT ![s] = Idle]
    BY <1>17 DEF EraseApplies, Applies
  <2>2. RecordsOK'
    BY <1>1, <1>2, <1>17 DEF EraseApplies, Applies, Carried, RecordsOK
  <2>3. LiveOfferHasNegotiator' /\ MatchedIffHeld'
    BY <1>1, <1>2, <1>17 DEF EraseApplies, Applies, Filter, RecordsOK, Pickups, Negotiations, Carried, Anyone,
       LiveOfferHasNegotiator, MatchedIffHeld, InProgress, IsActor, OpenToAll, OpenToOffersOf,
       StillNegotiating, StillAgreeable, MayStart, MayComplete
  <2> QED BY <2>1, <2>2, <2>3, EndKeepsCore
<1>18. ASSUME CountNoShow(s) PROVE Core'
  <2> DEFINE c == slots[s].arg
             user == [standing[c] EXCEPT !.noShows = @ + 1]
             next == IF ~user.suspended /\ user.noShows >= NoShowLimit
                     THEN [slots[s] EXCEPT !.op = "suspend"] ELSE Idle
  <2>1. /\ c \in Collectors
        /\ standing' = [standing EXCEPT ![c] = user]
        /\ slots' = [slots EXCEPT ![s] = next]
        /\ UNCHANGED <<pickup, negotiation, handshake, tracking, clock, members, gone, setOff, stalls>>
    BY <1>1, <1>18 DEF CountNoShow, Carried
  <2>2. user \in Standings
    <3>1. standing[c] \in Standings BY <1>2, <2>1 DEF RecordsOK
    <3>2. standing[c].noShows + 1 \in Nat BY <3>1 DEF Standings
    <3> QED BY <3>1, <3>2 DEF Standings
  <2>3. next \in Tickets /\ Carried(next)
    <3>1. [slots[s] EXCEPT !.op = "suspend"] \in Tickets
      BY DEF Core, SlotsOK, Tickets, Operations, Requests
    <3>2. Carried([slots[s] EXCEPT !.op = "suspend"])
      BY <2>1 DEF Carried, Core, SlotsOK, Tickets
    <3> QED BY <3>1, <3>2, IdleFits
  <2>4. next.op \in {"idle", "suspend"}
    BY DEF Core, SlotsOK, Tickets, Idle
  <2> HIDE DEF next, user
  <2>5. SlotsOK' BY <2>1, <2>3, SlotFilled DEF Core
  <2>6. JobSlots' BY <2>1, <2>4 DEF Core, JobSlots, Jobs, SlotsOK
  <2>7. RecordsOK' BY <1>2, <2>1, <2>2 DEF RecordsOK
  <2>8. LiveOfferHasNegotiator' /\ MatchedIffHeld'
    BY <1>2, <2>1 DEF LiveOfferHasNegotiator, MatchedIffHeld
  <2> QED BY <2>5, <2>6, <2>7, <2>8, TypePartsPrimed DEF Core, SlotsOK
<1>19. ASSUME WithdrawApplies(s) PROVE Core'
  <2> DEFINE next == [slots[s] EXCEPT !.op = "erase"]
  <2>1. next \in Tickets /\ Carried(next) /\ next.op = "erase"
    BY <1>1, <1>19 DEF WithdrawApplies, Core, SlotsOK, Tickets, Operations, Requests, Carried
  <2>2. slots' = [slots EXCEPT ![s] = next]
    BY <1>19 DEF WithdrawApplies, Core, SlotsOK
  <2> HIDE DEF next
  <2>3. SlotsOK' BY <2>1, <2>2, SlotFilled DEF Core
  <2>4. JobSlots' BY <2>1, <2>2 DEF Core, JobSlots, Jobs, SlotsOK
  <2>5. pickup' \in Pickups
    BY <1>2, <1>19 DEF WithdrawApplies, Cancelled, RecordsOK, Pickups
  <2>6. RecordsOK' BY <1>2, <1>19, <2>5 DEF WithdrawApplies, Cancelled, RecordsOK
  <2>7. LiveOfferHasNegotiator' /\ MatchedIffHeld'
    BY <1>2, <1>19 DEF WithdrawApplies, Cancelled, LiveOfferHasNegotiator, MatchedIffHeld, RecordsOK, Pickups
  <2> QED BY <2>3, <2>4, <2>6, <2>7, TypePartsPrimed DEF Core, SlotsOK
<1>20. ASSUME NoMatch(s) PROVE Core'
  <2>1. RecordsOK' /\ LiveOfferHasNegotiator' /\ MatchedIffHeld'
    BY <1>2, <1>20 DEF NoMatch, world, RecordsOK, LiveOfferHasNegotiator, MatchedIffHeld
  <2> QED BY <1>20, <2>1, EndKeepsCore DEF NoMatch
<1> QED
  BY <1>3, <1>4, <1>5, <1>6, <1>7, <1>8, <1>9, <1>10, <1>11, <1>12, <1>13, <1>14, <1>15, <1>16,
     <1>17, <1>18, <1>19, <1>20 DEF ServerRuns

\* The cron jobs.
LEMMA JobKeepsCore ==
  ASSUME Core, ExpireJob \/ StallJob
  PROVE  Core'
<1> USE PeopleAssumption
<1>1. RecordsOK /\ LiveOfferHasNegotiator /\ MatchedIffHeld /\ SlotsOK /\ JobSlots
  BY TypeParts DEF Core
<1>2. "expire job" \in Slots \cup Jobs /\ "stall job" \in Slots \cup Jobs
  BY DEF Jobs
<1>3. ASSUME SlotsOK', JobSlots', UNCHANGED world
      PROVE  Core'
  <2>1. RecordsOK' /\ LiveOfferHasNegotiator' /\ MatchedIffHeld'
    BY <1>1, <1>3 DEF world, RecordsOK, LiveOfferHasNegotiator, MatchedIffHeld
  <2> QED BY <1>3, <2>1, TypePartsPrimed DEF Core, SlotsOK
<1>4. CASE ExpireJobFinds
  <2> DEFINE r == [op |-> "expire", by |-> NoOne, arg |-> NoOne, n |-> 0]
  <2>1. r \in Tickets /\ Carried(r) /\ r.op = "expire"
    BY DEF Tickets, Carried, Operations, Anyone
  <2>2. slots' = [slots EXCEPT !["expire job"] = r] /\ UNCHANGED world BY <1>4 DEF ExpireJobFinds
  <2> HIDE DEF r
  <2>3. SlotsOK' BY <1>1, <1>2, <2>1, <2>2, SlotFilled
  <2>4. JobSlots' BY <1>1, <1>2, <2>1, <2>2 DEF JobSlots, Jobs, SlotsOK
  <2> QED BY <1>3, <2>2, <2>3, <2>4
<1>5. CASE StallJobFinds
  <2> DEFINE r == [op |-> "stall", by |-> NoOne, arg |-> NoOne, n |-> 0]
  <2>1. r \in Tickets /\ Carried(r) /\ r.op = "stall"
    BY DEF Tickets, Carried, Operations, Anyone
  <2>2. slots' = [slots EXCEPT !["stall job"] = r] /\ UNCHANGED world BY <1>5 DEF StallJobFinds
  <2> HIDE DEF r
  <2>3. SlotsOK' BY <1>1, <1>2, <2>1, <2>2, SlotFilled
  <2>4. JobSlots' BY <1>1, <1>2, <2>1, <2>2 DEF JobSlots, Jobs, SlotsOK
  <2> QED BY <1>3, <2>2, <2>3, <2>4
<1>6. CASE ExpireJobApplies
  <2>1. negotiation' \in Negotiations
    BY <1>1, <1>6 DEF ExpireJobApplies, NegotiationDies, RecordsOK, Negotiations, Anyone
  <2>2. RecordsOK' BY <1>1, <1>6, <2>1 DEF ExpireJobApplies, NegotiationDies, RecordsOK
  <2>3. LiveOfferHasNegotiator' /\ MatchedIffHeld'
    BY <1>1, <1>6 DEF ExpireJobApplies, NegotiationDies, RecordsOK, Negotiations,
       LiveOfferHasNegotiator, MatchedIffHeld
  <2> QED BY <1>2, <1>6, <2>2, <2>3, EndKeepsCore DEF ExpireJobApplies, Applies
<1>7. CASE StallJobApplies
  <2>1. pickup' \in Pickups BY <1>1, <1>7 DEF StallJobApplies, RecordsOK, Pickups
  <2>2. stalls' \in [Collectors -> Nat]
    <3>1. ASSUME NEW c \in Collectors, NEW flagged \in BOOLEAN
          PROVE  stalls[c] + (IF flagged THEN 1 ELSE 0) \in Nat
      <4>1. stalls[c] \in Nat BY <1>1 DEF RecordsOK
      <4> QED BY <4>1
    <3>2. \A c \in Collectors : (c = pickup.collector /\ ~pickup.isStalled) \in BOOLEAN
      OBVIOUS
    <3> QED BY <1>7, <3>1, <3>2 DEF StallJobApplies
  <2>3. RecordsOK' BY <1>1, <1>7, <2>1, <2>2 DEF StallJobApplies, RecordsOK
  <2>4. LiveOfferHasNegotiator' /\ MatchedIffHeld'
    BY <1>1, <1>7 DEF StallJobApplies, RecordsOK, Pickups, LiveOfferHasNegotiator, MatchedIffHeld
  <2> QED BY <1>2, <1>7, <2>3, <2>4, EndKeepsCore DEF StallJobApplies, Applies
<1>8. CASE NoMatch("expire job")
  <2>1. RecordsOK' /\ LiveOfferHasNegotiator' /\ MatchedIffHeld'
    BY <1>1, <1>8 DEF NoMatch, world, RecordsOK, LiveOfferHasNegotiator, MatchedIffHeld
  <2> QED BY <1>2, <1>8, <2>1, EndKeepsCore DEF NoMatch
<1> QED BY <1>4, <1>5, <1>6, <1>7, <1>8 DEF ExpireJob, StallJob

LEMMA AtOnceKeepsCore ==
  ASSUME Core, AtOnceSteps
  PROVE  Core'
<1> USE PeopleAssumption
<1>1. RecordsOK /\ LiveOfferHasNegotiator /\ MatchedIffHeld /\ SlotsOK /\ JobSlots
  BY TypeParts DEF Core
<1>2. ASSUME UNCHANGED slots, RecordsOK', LiveOfferHasNegotiator', MatchedIffHeld'
      PROVE  Core'
  <2>1. SlotsOK' /\ JobSlots' BY <1>1, <1>2 DEF SlotsOK, JobSlots
  <2> QED BY <1>2, <2>1, TypePartsPrimed DEF Core, SlotsOK
<1>3. CASE MarkReady
  <2>1. tracking' \in Trackings BY <1>1, <1>3 DEF MarkReady, RecordsOK, Trackings
  <2> QED
    BY <1>1, <1>2, <1>3, <2>1
    DEF MarkReady, AtOnce, RecordsOK, LiveOfferHasNegotiator, MatchedIffHeld
<1>4. ASSUME Cancelled, UNCHANGED <<slots, gone>> PROVE Core'
  <2>1. pickup' \in Pickups BY <1>1, <1>4 DEF Cancelled, RecordsOK, Pickups
  <2>2. RecordsOK' BY <1>1, <1>4, <2>1 DEF Cancelled, RecordsOK
  <2>3. LiveOfferHasNegotiator' /\ MatchedIffHeld'
    BY <1>1, <1>4 DEF Cancelled, RecordsOK, Pickups, LiveOfferHasNegotiator, MatchedIffHeld
  <2> QED BY <1>2, <1>4, <2>2, <2>3
<1>5. CASE CancelByRequester BY <1>4, <1>5 DEF CancelByRequester, AtOnce
<1>6. ASSUME NEW c \in Collectors, CancelByCrew(c) PROVE Core'
  BY <1>4, <1>6 DEF CancelByCrew, AtOnce
<1>7. ASSUME NEW c \in Collectors, Unassign(c) PROVE Core'
  <2>1. pickup' \in Pickups BY <1>1, <1>7 DEF Unassign, Assigned, RecordsOK, Pickups, Anyone
  <2>2. RecordsOK' BY <1>1, <1>7, <2>1 DEF Unassign, Assigned, RecordsOK
  <2>3. LiveOfferHasNegotiator' /\ MatchedIffHeld'
    BY <1>1, <1>7 DEF Unassign, Assigned, RecordsOK, Pickups, LiveOfferHasNegotiator, MatchedIffHeld
  <2> QED BY <1>2, <1>7, <2>2, <2>3 DEF Unassign, AtOnce
<1> QED BY <1>3, <1>5, <1>6, <1>7 DEF AtOnceSteps

LEMMA EnvironmentKeepsCore ==
  ASSUME Core, Environment
  PROVE  Core'
<1> USE PeopleAssumption
<1>1. RecordsOK /\ LiveOfferHasNegotiator /\ MatchedIffHeld /\ SlotsOK /\ JobSlots
  BY TypeParts DEF Core
<1>2. ASSUME UNCHANGED <<pickup, negotiation, slots>>, RecordsOK'
      PROVE  Core'
  <2>1. SlotsOK' /\ JobSlots' BY <1>1, <1>2 DEF SlotsOK, JobSlots
  <2>2. LiveOfferHasNegotiator' /\ MatchedIffHeld'
    BY <1>1, <1>2 DEF LiveOfferHasNegotiator, MatchedIffHeld
  <2> QED BY <1>2, <2>1, <2>2, TypePartsPrimed DEF Core, SlotsOK
<1>3. CASE AgeOffer \/ AgeAcceptance \/ AgeTracking \/ AgeDeparture \/ LockLapses
  <2>1. clock' \in Clocks /\ tracking' \in Trackings /\ handshake' \in Handshakes
    BY <1>1, <1>3 DEF AgeOffer, AgeAcceptance, AgeTracking, AgeDeparture, LockLapses,
       RecordsOK, Clocks, Trackings, Handshakes, Times
  <2>2. setOff' \in Departures
    BY <1>1, <1>3 DEF AgeOffer, AgeAcceptance, AgeTracking, AgeDeparture, LockLapses,
       RecordsOK, Departures
  <2>3. UNCHANGED <<pickup, negotiation, members, standing, gone, slots, stalls>>
    BY <1>3 DEF AgeOffer, AgeAcceptance, AgeTracking, AgeDeparture, LockLapses, TimePasses
  <2>4. RecordsOK' BY <1>1, <2>1, <2>2, <2>3 DEF RecordsOK
  <2> QED BY <1>2, <2>3, <2>4
<1>4. ASSUME NEW op, NEW c \in Collectors, NEW user \in Standings, AccountChanges(op, c, user)
      PROVE  Core'
  <2>1. RecordsOK' BY <1>1, <1>4 DEF AccountChanges, RecordsOK
  <2> QED BY <1>2, <1>4, <2>1 DEF AccountChanges
<1>5. ASSUME NEW c \in Collectors, StandingChanges(c) \/ RatedDown(c) \/ Reinstate(c)
      PROVE  Core'
  <2>1. standing[c] \in Standings BY <1>1 DEF RecordsOK
  <2>2. \A v, a \in BOOLEAN : [standing[c] EXCEPT !.verified = v, !.available = a] \in Standings
    BY <2>1 DEF Standings
  <2>3. \A b \in BOOLEAN : [standing[c] EXCEPT !.suspended = b] \in Standings
    BY <2>1 DEF Standings
  <2>4. CASE StandingChanges(c) BY <1>4, <2>2, <2>4 DEF StandingChanges
  <2>5. CASE RatedDown(c) BY <1>4, <2>3, <2>5 DEF RatedDown
  <2>6. CASE Reinstate(c) BY <1>4, <2>3, <2>6 DEF Reinstate
  <2> QED BY <1>5, <2>4, <2>5, <2>6
<1>6. CASE Crash
  <2>1. SlotsOK' BY <1>6, IdleFits DEF Crash, SlotsOK
  <2>2. JobSlots' BY <1>6 DEF Crash, JobSlots, Jobs, Idle
  <2>3. RecordsOK' /\ LiveOfferHasNegotiator' /\ MatchedIffHeld'
    BY <1>1, <1>6 DEF Crash, world, RecordsOK, LiveOfferHasNegotiator, MatchedIffHeld
  <2> QED BY <2>1, <2>2, <2>3, TypePartsPrimed DEF Core, SlotsOK
<1> QED BY <1>3, <1>5, <1>6 DEF Environment

LEMMA NextKeepsCore == Core /\ [Next]_vars => Core'
<1> SUFFICES ASSUME Core, [Next]_vars PROVE Core' OBVIOUS
<1>1. ASSUME NEW s \in Slots, ServerRuns(s) PROVE Core'
  BY <1>1, ServerKeepsCore
<1>2. ASSUME NEW s \in Slots, RequesterAsks(s) \/ \E c \in Collectors : CollectorAsks(s, c)
      PROVE  Core'
  BY <1>2, ArrivalKeepsCore
<1>3. CASE AtOnceSteps BY <1>3, AtOnceKeepsCore
<1>4. CASE ExpireJob \/ StallJob BY <1>4, JobKeepsCore
<1>5. CASE Environment BY <1>5, EnvironmentKeepsCore
<1>6. CASE UNCHANGED vars
  BY <1>6 DEF vars, Core, TypeOK, SlotsOK, JobSlots, LiveOfferHasNegotiator, MatchedIffHeld
<1> QED BY <1>1, <1>2, <1>3, <1>4, <1>5, <1>6 DEF Next

LEMMA CoreHolds == Spec => []Core
BY CoreInit, NextKeepsCore, PTL DEF Spec

\* The types of the document and of what running handlers carry, for every
\* workload.
THEOREM Types == Spec => []TypeOK
BY CoreHolds, PTL DEF Core

\* However many handlers run, a job under way has a collector and a free one
\* has none.
THEOREM Matching == Spec => []MatchedIffHeld
BY CoreHolds, PTL DEF Core

\* An offer that can be answered names the collector who made it or got it.
THEOREM LiveOffers == Spec => []LiveOfferHasNegotiator
BY CoreHolds, PTL DEF Core

-----------------------------------------------------------------------------
(* Deleting the requester's account only ever cancels a job that exists.    *)

WithdrawKnows ==
  \A s \in Slots : slots[s].op = "withdraw" /\ slots[s].n = 1 => pickup.status # "absent"

\* A document never ceases to exist.
LEMMA DocumentStays ==
  ASSUME Core, [Next]_vars, pickup.status # "absent"
  PROVE  pickup'.status # "absent"
<1>1. pickup \in Pickups
  BY TypeParts DEF Core, RecordsOK
<1>2. ASSUME NEW s \in Slots, ServerRuns(s) PROVE pickup'.status # "absent"
  BY <1>1, <1>2 DEF ServerRuns, CreateApplies, AcceptApplies, TakeOver, OfferApplies, InviteApplies,
     Push, DeclineApplies, NegotiationDies, CounterApplies, AgreeApplies, SetOffApplies,
     StartApplies, WrongCodeApplies, CompleteApplies, AssignApplies, Assigned, ReleaseApplies,
     CountNoShow, Suspend, WithdrawApplies, Cancelled, EraseApplies, NoMatch, world, Pickups
<1>3. ASSUME NEW s \in Slots, RequesterAsks(s) \/ \E c \in Collectors : CollectorAsks(s, c)
      PROVE  pickup'.status # "absent"
  BY <1>1, <1>3 DEF RequesterAsks, CollectorAsks, CreateArrives, ReportNoShow, Reopened,
     WithdrawArrives, DeclineArrives, AgreeArrives, CounterArrives, InviteArrives, AcceptArrives,
     SetOffArrives, StartArrives, WrongCodeArrives, CompleteArrives, EraseArrives, OfferArrives,
     AssignArrives, MemberGoes, world, Pickups
<1>4. CASE AtOnceSteps \/ ExpireJob \/ StallJob
  BY <1>1, <1>4 DEF AtOnceSteps, MarkReady, CancelByRequester, CancelByCrew, Cancelled, Unassign,
     Assigned, ExpireJob, ExpireJobFinds, ExpireJobApplies, NegotiationDies, NoMatch, StallJob,
     StallJobFinds, StallJobApplies, world, Pickups
<1>5. CASE Environment \/ UNCHANGED vars
  BY <1>5 DEF Environment, AgeOffer, AgeAcceptance, AgeTracking, AgeDeparture, LockLapses,
     TimePasses, Crash, world, StandingChanges, RatedDown, Reinstate, AccountChanges, vars
<1> QED BY <1>2, <1>3, <1>4, <1>5 DEF Next

\* A handler gets to its write of the open pickups only through its read of them.
LEMMA WithdrawStep == Core /\ WithdrawKnows /\ [Next]_vars => WithdrawKnows'
<1> SUFFICES ASSUME Core, WithdrawKnows, [Next]_vars, NEW s \in Slots,
                    slots'[s].op = "withdraw", slots'[s].n = 1
             PROVE  pickup'.status # "absent"
  BY DEF WithdrawKnows
<1>1. slots \in [Slots \cup Jobs -> Tickets] /\ Slots \cap Jobs = {}
  BY PeopleAssumption DEF Core, SlotsOK
<1>2. SUFFICES ASSUME slots'[s] # slots[s] PROVE pickup.status # "absent"
  BY DocumentStays DEF WithdrawKnows
<1>3. ASSUME NEW t \in Slots, NEW r, slots' = [slots EXCEPT ![t] = r] PROVE t = s /\ slots'[s] = r
  BY <1>1, <1>2, <1>3
<1>4. ASSUME NEW t \in Slots, ServerRuns(t) PROVE FALSE
  <2>1. slots' # [slots EXCEPT ![t] = Idle] BY <1>3 DEF Idle
  <2>2. CASE CountNoShow(t)
    <3>1. slots' = [slots EXCEPT ![t] = [slots[t] EXCEPT !.op = "suspend"]]
      BY <2>1, <2>2 DEF CountNoShow
    <3>2. slots'[s] = [slots[t] EXCEPT !.op = "suspend"] BY <1>3, <3>1
    <3> QED BY <1>1, <3>2 DEF Tickets
  <2>3. CASE WithdrawApplies(t)
    <3>1. slots' = [slots EXCEPT ![t] = [slots[t] EXCEPT !.op = "erase"]]
      BY <2>3 DEF WithdrawApplies
    <3>2. slots'[s] = [slots[t] EXCEPT !.op = "erase"] BY <1>3, <3>1
    <3> QED BY <1>1, <3>2 DEF Tickets
  <2> QED
    BY <1>4, <2>1, <2>2, <2>3 DEF ServerRuns, CreateApplies, AcceptApplies, OfferApplies,
       InviteApplies, DeclineApplies, CounterApplies, AgreeApplies, SetOffApplies, StartApplies,
       WrongCodeApplies, CompleteApplies, AssignApplies, ReleaseApplies, Suspend, EraseApplies,
       NoMatch, Applies
<1>5. ASSUME NEW t \in Slots, RequesterAsks(t) \/ \E c \in Collectors : CollectorAsks(t, c)
      PROVE  pickup.status # "absent"
  <2>1. ASSUME NEW op, NEW by, NEW arg, NEW n, Arrive(t, op, by, arg, n)
        PROVE  op = "withdraw" /\ n = 1
    <3>1. slots'[s] = [op |-> op, by |-> by, arg |-> arg, n |-> n] BY <1>3, <2>1 DEF Arrive
    <3> QED BY <3>1
  <2>2. CASE WithdrawArrives(t) BY <2>1, <2>2 DEF WithdrawArrives
  <2>3. CASE \E c, m \in Collectors : MemberGoes(t, c, m)
    <3>1. PICK c, m \in Collectors : MemberGoes(t, c, m) BY <2>3
    <3>2. slots'[s] = [op |-> "release", by |-> c, arg |-> m, n |-> 0]
      BY <1>3, <3>1 DEF MemberGoes
    <3> QED BY <3>2
  <2>4. CASE RequesterAsks(t) /\ ~WithdrawArrives(t)
    BY <2>1, <2>4 DEF RequesterAsks, CreateArrives, ReportNoShow, DeclineArrives, AgreeArrives,
       CounterArrives, InviteArrives
  <2>5. ASSUME NEW c \in Collectors, CollectorAsks(t, c), \A m \in Collectors : ~MemberGoes(t, c, m)
        PROVE  FALSE
    <3>1. CASE \/ AcceptArrives(t, c) \/ DeclineArrives(t, c) \/ AgreeArrives(t, c)
               \/ SetOffArrives(t, c) \/ WrongCodeArrives(t, c)
      BY <2>1, <3>1 DEF AcceptArrives, DeclineArrives, AgreeArrives, SetOffArrives, WrongCodeArrives
    <3>2. CASE StartArrives(t, c) \/ CompleteArrives(t, c) \/ EraseArrives(t, c)
      BY <2>1, <3>2 DEF StartArrives, CompleteArrives, EraseArrives
    <3>3. CASE \/ \E n \in Amounts : OfferArrives(t, c, n) \/ CounterArrives(t, c, n)
               \/ \E m \in Collectors : AssignArrives(t, c, m)
      BY <2>1, <3>3 DEF OfferArrives, CounterArrives, AssignArrives
    <3> QED BY <2>5, <3>1, <3>2, <3>3 DEF CollectorAsks
  <2> QED BY <1>5, <2>2, <2>3, <2>4, <2>5
<1>6. CASE ExpireJob \/ StallJob
  <2>1. \E j \in Jobs : \E r : slots' = [slots EXCEPT ![j] = r]
    BY <1>6 DEF ExpireJob, ExpireJobFinds, ExpireJobApplies, NoMatch, StallJob,
       StallJobFinds, StallJobApplies, Applies, Jobs
  <2> QED BY <1>1, <1>2, <2>1
<1>7. CASE Crash
  BY <1>7 DEF Crash, Idle
<1>8. CASE AtOnceSteps \/ (Environment /\ ~Crash) \/ UNCHANGED vars
  BY <1>2, <1>8 DEF AtOnceSteps, MarkReady, CancelByRequester, CancelByCrew, Unassign, AtOnce,
     Environment, AgeOffer, AgeAcceptance, AgeTracking, AgeDeparture, LockLapses, TimePasses,
     StandingChanges, RatedDown, Reinstate, AccountChanges, vars
<1> QED BY <1>4, <1>5, <1>6, <1>7, <1>8 DEF Next

-----------------------------------------------------------------------------
(* What every step does: the safety invariants and the contract.           *)

\* What makes FreshAcceptNotReportable inductive: a running stall job has seen
\* the job in the state the present collector left it in, because a job only
\* gets back to the pool when it is flagged, and only this job flags it.
StallJobKnows ==
  /\ pickup.status \in {"absent", "pending"} => ~pickup.isStalled
  /\ slots["stall job"].op = "stall" =>
       /\ pickup.status \notin {"absent", "pending"}
       /\ ~pickup.isStalled
       /\ pickup.status = "accepted" => clock.waited

Safe == NoLiveOfferOnTakenJob /\ FreshAcceptNotReportable /\ StallJobKnows

ContractStep == Contract!ContractNext \/ UNCHANGED Contract!contractVars

PartyStep ==
  negotiation.status = "pending" /\ negotiation'.status = "pending"
    => negotiation'.collector = negotiation.collector

Effect == Safe' /\ ContractStep /\ PartyStep

LEMMA SafeInit == Init => Safe
<1> SUFFICES ASSUME Init PROVE Safe OBVIOUS
<1>1. slots["stall job"].op = "idle" BY DEF Init, Idle, Jobs
<1>2. negotiation.status = "none" BY DEF Init, NoNegotiation
<1> QED
  BY <1>1, <1>2 DEF Init, Safe, NoLiveOfferOnTakenJob, FreshAcceptNotReportable, StallJobKnows

\* A step that leaves the document's status and the negotiation alone.
LEMMA QuietStep ==
  ASSUME Safe, UNCHANGED <<pickup, negotiation>>, clock'.waited = clock.waited \/ clock'.waited,
         slots'["stall job"] = slots["stall job"] \/ slots'["stall job"].op = "idle"
  PROVE  Effect
BY DEF Effect, Safe, NoLiveOfferOnTakenJob, FreshAcceptNotReportable, StallJobKnows,
       ContractStep, PartyStep, Contract!contractVars

LEMMA ServerEffect ==
  ASSUME Core, Safe, WithdrawKnows, NEW s \in Slots, ServerRuns(s)
  PROVE  Effect
<1> USE PeopleAssumption
<1> USE DEF Effect, Safe, NoLiveOfferOnTakenJob, FreshAcceptNotReportable, StallJobKnows,
           ContractStep, PartyStep, Contract!contractVars, Contract!ContractNext,
           Contract!Post, Contract!Match, Contract!Begin, Contract!Finish, Contract!Cancel,
           Contract!Flag, Contract!Reopen, Contract!Withdraw
<1>1. Carried(slots[s])
  BY DEF Core, SlotsOK
<1>2. RecordsOK /\ MatchedIffHeld
  BY TypeParts DEF Core
<1>3. ASSUME NEW r, slots' = [slots EXCEPT ![s] = r]
      PROVE  slots'["stall job"] = slots["stall job"]
  BY <1>3 DEF Core, SlotsOK, Jobs
<1>4. ASSUME CreateApplies(s) PROVE Effect
  <2>1. slots'["stall job"] = slots["stall job"] BY <1>3, <1>4 DEF CreateApplies, Applies
  <2> QED
    BY <1>1, <1>2, <1>4, <2>1 DEF CreateApplies, Applies, Filter, Carried, RecordsOK, Pickups, Negotiations, Clocks,
       MatchedIffHeld, OpenToAll, OpenToOffersOf, StillNegotiating, StillAgreeable, MayStart,
       MayComplete, InProgress
<1>5. ASSUME AcceptApplies(s) PROVE Effect
  <2>1. slots'["stall job"] = slots["stall job"] BY <1>3, <1>5 DEF AcceptApplies, Applies
  <2> QED
    BY <1>1, <1>2, <1>5, <2>1 DEF AcceptApplies, TakeOver, Applies, Filter, Carried, RecordsOK, Pickups, Negotiations, Clocks,
       MatchedIffHeld, OpenToAll, OpenToOffersOf, StillNegotiating, StillAgreeable, MayStart,
       MayComplete, InProgress
<1>6. ASSUME OfferApplies(s) PROVE Effect
  <2>1. slots'["stall job"] = slots["stall job"] BY <1>3, <1>6 DEF OfferApplies, Applies
  <2> QED
    BY <1>1, <1>2, <1>6, <2>1 DEF OfferApplies, Push, Negotiating, Applies, Filter, Carried, RecordsOK, Pickups, Negotiations, Clocks,
       MatchedIffHeld, OpenToAll, OpenToOffersOf, StillNegotiating, StillAgreeable, MayStart,
       MayComplete, InProgress
<1>7. ASSUME InviteApplies(s) PROVE Effect
  <2>1. slots'["stall job"] = slots["stall job"] BY <1>3, <1>7 DEF InviteApplies, Applies
  <2> QED
    BY <1>1, <1>2, <1>7, <2>1 DEF InviteApplies, Push, Negotiating, Applies, Filter, Carried, RecordsOK, Pickups, Negotiations, Clocks,
       MatchedIffHeld, OpenToAll, OpenToOffersOf, StillNegotiating, StillAgreeable, MayStart,
       MayComplete, InProgress
<1>8. ASSUME DeclineApplies(s) PROVE Effect
  <2>1. slots'["stall job"] = slots["stall job"] BY <1>3, <1>8 DEF DeclineApplies, Applies
  <2> QED
    BY <1>1, <1>2, <1>8, <2>1 DEF DeclineApplies, NegotiationDies, Applies, Filter, Carried, RecordsOK, Pickups, Negotiations, Clocks,
       MatchedIffHeld, OpenToAll, OpenToOffersOf, StillNegotiating, StillAgreeable, MayStart,
       MayComplete, InProgress
<1>9. ASSUME CounterApplies(s) PROVE Effect
  <2>1. slots'["stall job"] = slots["stall job"] BY <1>3, <1>9 DEF CounterApplies, Applies
  <2> QED
    BY <1>1, <1>2, <1>9, <2>1 DEF CounterApplies, Push, Applies, Filter, Carried, RecordsOK, Pickups, Negotiations, Clocks,
       MatchedIffHeld, OpenToAll, OpenToOffersOf, StillNegotiating, StillAgreeable, MayStart,
       MayComplete, InProgress
<1>10. ASSUME AgreeApplies(s) PROVE Effect
  <2>1. slots'["stall job"] = slots["stall job"] BY <1>3, <1>10 DEF AgreeApplies, Applies
  <2> QED
    BY <1>1, <1>2, <1>10, <2>1 DEF AgreeApplies, TakeOver, Applies, Filter, Carried, RecordsOK, Pickups, Negotiations, Clocks,
       MatchedIffHeld, OpenToAll, OpenToOffersOf, StillNegotiating, StillAgreeable, MayStart,
       MayComplete, InProgress
<1>11. ASSUME StartApplies(s) PROVE Effect
  <2>1. slots'["stall job"] = slots["stall job"] BY <1>3, <1>11 DEF StartApplies, Applies
  <2> QED
    BY <1>1, <1>2, <1>11, <2>1 DEF StartApplies, Applies, Filter, Carried, RecordsOK, Pickups, Negotiations, Clocks,
       MatchedIffHeld, OpenToAll, OpenToOffersOf, StillNegotiating, StillAgreeable, MayStart,
       MayComplete, InProgress
<1>12. ASSUME CompleteApplies(s) PROVE Effect
  <2>1. slots'["stall job"] = slots["stall job"] BY <1>3, <1>12 DEF CompleteApplies, Applies
  <2> QED
    BY <1>1, <1>2, <1>12, <2>1 DEF CompleteApplies, Applies, Filter, Carried, RecordsOK, Pickups, Negotiations, Clocks,
       MatchedIffHeld, OpenToAll, OpenToOffersOf, StillNegotiating, StillAgreeable, MayStart,
       MayComplete, InProgress
<1>13. ASSUME AssignApplies(s) PROVE Effect
  <2>1. slots'["stall job"] = slots["stall job"] BY <1>3, <1>13 DEF AssignApplies, Applies
  <2> QED
    BY <1>1, <1>2, <1>13, <2>1 DEF AssignApplies, Assigned, Applies, Filter, Carried, RecordsOK, Pickups, Negotiations, Clocks,
       MatchedIffHeld, OpenToAll, OpenToOffersOf, StillNegotiating, StillAgreeable, MayStart,
       MayComplete, InProgress
<1>14. ASSUME ReleaseApplies(s) PROVE Effect
  <2>1. slots'["stall job"] = slots["stall job"] BY <1>3, <1>14 DEF ReleaseApplies, Applies
  <2> QED
    BY <1>1, <1>2, <1>14, <2>1 DEF ReleaseApplies, Assigned, Applies, Filter, Carried, RecordsOK, Pickups, Negotiations, Clocks,
       MatchedIffHeld, OpenToAll, OpenToOffersOf, StillNegotiating, StillAgreeable, MayStart,
       MayComplete, InProgress
<1>15. ASSUME WithdrawApplies(s) PROVE Effect
  <2>1. slots'["stall job"] = slots["stall job"]
    BY <1>15 DEF WithdrawApplies, Core, SlotsOK, Jobs
  <2>2. CASE slots[s].n = 1
    <3>1. pickup.status # "absent" BY <1>15, <2>2 DEF WithdrawApplies, WithdrawKnows
    <3> QED
      BY <1>2, <1>15, <2>1, <2>2, <3>1 DEF WithdrawApplies, Cancelled, RecordsOK, Pickups, Negotiations
  <2>3. CASE slots[s].n # 1
    <3>1. UNCHANGED <<pickup, negotiation, clock>> BY <1>15, <2>3 DEF WithdrawApplies
    <3> QED BY <2>1, <3>1, QuietStep
  <2> QED BY <2>2, <2>3
<1>16. ASSUME SetOffApplies(s) \/ WrongCodeApplies(s) \/ CountNoShow(s) \/ Suspend(s)
              \/ EraseApplies(s) \/ NoMatch(s)
       PROVE  Effect
  <2>1. UNCHANGED <<pickup, negotiation, clock>>
    BY <1>16 DEF SetOffApplies, WrongCodeApplies, CountNoShow, Suspend, EraseApplies, NoMatch, world
  <2>2. slots'["stall job"] = slots["stall job"]
    BY <1>3, <1>16 DEF SetOffApplies, WrongCodeApplies, CountNoShow, Suspend, EraseApplies,
       NoMatch, Applies
  <2> QED BY <2>1, <2>2, QuietStep
<1> QED
  BY <1>4, <1>5, <1>6, <1>7, <1>8, <1>9, <1>10, <1>11, <1>12, <1>13, <1>14, <1>15, <1>16
  DEF ServerRuns

LEMMA ArrivalEffect ==
  ASSUME Core, Safe, NEW s \in Slots, RequesterAsks(s) \/ \E c \in Collectors : CollectorAsks(s, c)
  PROVE  Effect
<1> USE PeopleAssumption
<1>1. ASSUME NEW r, slots' = [slots EXCEPT ![s] = r]
      PROVE  slots'["stall job"] = slots["stall job"]
  BY <1>1 DEF Core, SlotsOK, Jobs
<1>2. CASE ReportNoShow(s)
  <2>1. slots'["stall job"] = slots["stall job"] BY <1>1, <1>2 DEF ReportNoShow, Arrive
  <2>2. RecordsOK BY TypeParts DEF Core
  <2> QED
    BY <1>2, <2>1, <2>2
    DEF ReportNoShow, Reportable, Reopened, NoNegotiation, RecordsOK, Pickups, Negotiations,
        Effect, Safe, NoLiveOfferOnTakenJob, FreshAcceptNotReportable, StallJobKnows, PartyStep,
        ContractStep, Contract!contractVars, Contract!ContractNext, Contract!Reopen
<1>3. CASE \E c, m \in Collectors : MemberGoes(s, c, m)
  <2>1. slots'["stall job"] = slots["stall job"] /\ UNCHANGED <<pickup, negotiation, clock>>
    BY <1>1, <1>3 DEF MemberGoes
  <2> QED BY <2>1, QuietStep
<1>4. ASSUME NEW op, NEW by, NEW arg, NEW n, Arrive(s, op, by, arg, n), UNCHANGED world
      PROVE  Effect
  <2>1. slots'["stall job"] = slots["stall job"] /\ UNCHANGED <<pickup, negotiation, clock>>
    BY <1>1, <1>4 DEF Arrive, world
  <2> QED BY <2>1, QuietStep
<1>5. CASE \/ CreateArrives(s) \/ WithdrawArrives(s)
           \/ \E u \in People : DeclineArrives(s, u) \/ AgreeArrives(s, u)
           \/ \E u \in People, n \in Amounts : CounterArrives(s, u, n)
           \/ \E c \in Collectors, n \in Amounts : InviteArrives(s, c, n) \/ OfferArrives(s, c, n)
  BY <1>4, <1>5 DEF CreateArrives, WithdrawArrives, DeclineArrives, AgreeArrives, CounterArrives,
     InviteArrives, OfferArrives
<1>6. CASE \E c \in Collectors :
             \/ AcceptArrives(s, c) \/ SetOffArrives(s, c) \/ StartArrives(s, c)
             \/ WrongCodeArrives(s, c) \/ CompleteArrives(s, c) \/ EraseArrives(s, c)
             \/ \E m \in Collectors : AssignArrives(s, c, m)
  BY <1>4, <1>6 DEF AcceptArrives, SetOffArrives, StartArrives, WrongCodeArrives,
     CompleteArrives, EraseArrives, AssignArrives
<1> QED
  BY <1>2, <1>3, <1>5, <1>6 DEF RequesterAsks, CollectorAsks, People

LEMMA JobEffect ==
  ASSUME Core, Safe, ExpireJob \/ StallJob
  PROVE  Effect
<1> USE DEF Effect, Safe, NoLiveOfferOnTakenJob, FreshAcceptNotReportable, StallJobKnows,
           ContractStep, PartyStep, Contract!contractVars, Contract!ContractNext, Contract!Flag
<1>1. RecordsOK /\ slots \in [Slots \cup Jobs -> Tickets]
  BY TypeParts DEF Core
<1>2. ASSUME NEW r, slots' = [slots EXCEPT !["expire job"] = r]
      PROVE  slots'["stall job"] = slots["stall job"]
  BY <1>1, <1>2 DEF Jobs
<1>3. CASE ExpireJobFinds \/ NoMatch("expire job")
  <2>1. slots'["stall job"] = slots["stall job"] /\ UNCHANGED <<pickup, negotiation, clock>>
    BY <1>2, <1>3 DEF ExpireJobFinds, NoMatch, world
  <2> QED BY <2>1, QuietStep
<1>4. CASE ExpireJobApplies
  <2>1. slots'["stall job"] = slots["stall job"] BY <1>2, <1>4 DEF ExpireJobApplies, Applies
  <2> QED
    BY <1>1, <1>4, <2>1 DEF ExpireJobApplies, NegotiationDies, RecordsOK, Negotiations
<1>5. CASE StallJobFinds
  <2>1. slots'["stall job"].op = "stall" BY <1>1, <1>5 DEF StallJobFinds, Jobs
  <2> QED BY <1>1, <1>5, <2>1 DEF StallJobFinds, world, RecordsOK, Pickups
<1>6. CASE StallJobApplies
  <2>1. slots'["stall job"].op = "idle" BY <1>1, <1>6 DEF StallJobApplies, Applies, Jobs, Idle
  <2> QED BY <1>1, <1>6, <2>1 DEF StallJobApplies, Applies, RecordsOK, Pickups
<1> QED BY <1>3, <1>4, <1>5, <1>6 DEF ExpireJob, StallJob

LEMMA OtherEffect ==
  ASSUME Core, Safe, AtOnceSteps \/ Environment \/ UNCHANGED vars
  PROVE  Effect
<1>1. RecordsOK /\ slots \in [Slots \cup Jobs -> Tickets]
  BY TypeParts DEF Core
<1>2. CASE MarkReady \/ UNCHANGED vars
  <2>1. UNCHANGED <<slots, pickup, negotiation, clock>> BY <1>2 DEF MarkReady, AtOnce, vars
  <2> QED BY <2>1, QuietStep
<1>3. ASSUME Cancelled, UNCHANGED slots, InProgress \/ pickup.status \in {"pending", "accepted"}
      PROVE  Effect
  BY <1>1, <1>3
  DEF Cancelled, InProgress, RecordsOK, Pickups, Negotiations, Effect, Safe, NoLiveOfferOnTakenJob,
      FreshAcceptNotReportable, StallJobKnows, PartyStep, ContractStep, Contract!contractVars,
      Contract!ContractNext, Contract!Cancel
<1>4. CASE CancelByRequester \/ \E c \in Collectors : CancelByCrew(c)
  BY <1>3, <1>4 DEF CancelByRequester, CancelByCrew, AtOnce
<1>5. CASE \E c \in Collectors : Unassign(c)
  BY <1>1, <1>5
  DEF Unassign, AtOnce, Assigned, RecordsOK, Pickups, Effect, Safe, NoLiveOfferOnTakenJob,
      FreshAcceptNotReportable, StallJobKnows, PartyStep, ContractStep, Contract!contractVars
<1>6. CASE Environment
  <2>1. UNCHANGED <<pickup, negotiation>>
    BY <1>6 DEF Environment, AgeOffer, AgeAcceptance, AgeTracking, AgeDeparture, LockLapses,
       TimePasses, Crash, world, StandingChanges, RatedDown, Reinstate, AccountChanges
  <2>2. clock'.waited = clock.waited \/ clock'.waited
    BY <1>1, <1>6 DEF Environment, AgeOffer, AgeAcceptance, AgeTracking, AgeDeparture, LockLapses,
       Crash, world, StandingChanges, RatedDown, Reinstate, AccountChanges, RecordsOK, Clocks
  <2>3. slots'["stall job"] = slots["stall job"] \/ slots'["stall job"].op = "idle"
    <3>1. CASE Crash BY <3>1 DEF Crash, Idle, Jobs
    <3>2. CASE ~Crash
      BY <1>6, <3>2 DEF Environment, AgeOffer, AgeAcceptance, AgeTracking, AgeDeparture, LockLapses,
         TimePasses, StandingChanges, RatedDown, Reinstate, AccountChanges
    <3> QED BY <3>1, <3>2
  <2> QED BY <2>1, <2>2, <2>3, QuietStep
<1> QED BY <1>2, <1>4, <1>5, <1>6 DEF AtOnceSteps

LEMMA StepEffect == Core /\ Safe /\ WithdrawKnows /\ [Next]_vars => Effect
BY ServerEffect, ArrivalEffect, JobEffect, OtherEffect DEF Next

LEMMA SafeHolds == Spec => [](Safe /\ WithdrawKnows)
<1>1. Init => WithdrawKnows
  BY DEF Init, Idle, WithdrawKnows
<1>2. Core /\ Safe /\ WithdrawKnows /\ [Next]_vars => Safe' BY StepEffect DEF Effect
<1> QED BY <1>1, <1>2, CoreHolds, SafeInit, WithdrawStep, PTL DEF Spec

\* Accepts, counters, expiries and cancellations never leave an open offer on a
\* job somebody has taken.
THEOREM OffersAndJobs == Spec => []NoLiveOfferOnTakenJob
BY SafeHolds, PTL DEF Safe

\* reportNoShow never hits a collector whose acceptance is fresh.
THEOREM FreshAccepts == Spec => []FreshAcceptNotReportable
BY SafeHolds, PTL DEF Safe

\* Whoever negotiates goes on negotiating until the negotiation ends.
THEOREM OneNegotiator == Spec => NegotiationKeepsItsParty
<1>1. Core /\ Safe /\ WithdrawKnows /\ [Next]_vars => [PartyStep]_vars BY StepEffect DEF Effect
<1> QED BY <1>1, CoreHolds, SafeHolds, PTL DEF Spec, NegotiationKeepsItsParty, PartyStep

\* The handlers and the jobs implement the contract, whatever runs concurrently.
THEOREM Refinement == Spec => ImplementsContract
<1>1. Init => Contract!ContractInit
  BY DEF Init, Contract!ContractInit
<1>2. Core /\ Safe /\ WithdrawKnows /\ [Next]_vars => [Contract!ContractNext]_(Contract!contractVars)
  BY StepEffect DEF Effect, ContractStep
<1> QED
  BY <1>1, <1>2, CoreHolds, SafeHolds, PTL DEF Spec, ImplementsContract, Contract!ContractSpec
-----------------------------------------------------------------------------
(* No-shows: every report, counted or on its way, has a stall of its own.   *)

\* The running reports against c, and the stall that may still be reported.
Reporting(c) == {s \in InFlight({"no-show"}) : slots[s].arg = c}
Flagged(c)   == pickup.isStalled /\ pickup.collector = c

\* What makes OneNoShowPerStall inductive: the flag that is up pays for the
\* report that will take it down.
StallsCover ==
  \A c \in Collectors :
    standing[c].noShows + Cardinality(Reporting(c)) + (IF Flagged(c) THEN 1 ELSE 0) <= stalls[c]

\* The handlers that run are finitely many.
LEMMA ReportsAreFinite ==
  ASSUME NEW c
  PROVE  /\ IsFiniteSet(Reporting(c)) /\ Cardinality(Reporting(c)) \in Nat
         /\ IsFiniteSet(Reporting(c)') /\ Cardinality(Reporting(c)') \in Nat
<1>1. IsFiniteSet(Jobs)
  <2>1. IsFiniteSet({"expire job"} \cup {"stall job"}) BY FS_Singleton, FS_Union
  <2>2. {"expire job"} \cup {"stall job"} = Jobs BY DEF Jobs
  <2> QED BY <2>1, <2>2
<1>2. IsFiniteSet(Slots \cup Jobs)
  BY <1>1, FS_Union, SlotsAssumption
<1>3. Reporting(c) \in SUBSET (Slots \cup Jobs) /\ Reporting(c)' \in SUBSET (Slots \cup Jobs)
  BY DEF Reporting, InFlight
<1> QED BY <1>2, <1>3, FS_Subset, FS_CardinalityType

\* A step that counts no report, starts none and raises no flag.
LEMMA CoverKept ==
  ASSUME Core, StallsCover, UNCHANGED stalls,
         \A c \in Collectors : /\ standing'[c].noShows = standing[c].noShows
                               /\ Reporting(c)' \subseteq Reporting(c)
                               /\ Flagged(c)' => Flagged(c)
  PROVE  StallsCover'
<1> SUFFICES ASSUME NEW c \in Collectors
             PROVE  standing'[c].noShows + Cardinality(Reporting(c)')
                      + (IF Flagged(c)' THEN 1 ELSE 0) <= stalls'[c]
  BY DEF StallsCover
<1>1. standing[c].noShows \in Nat /\ stalls[c] \in Nat
  BY DEF Core, TypeOK, Standings
<1>2. Cardinality(Reporting(c)') <= Cardinality(Reporting(c))
  BY ReportsAreFinite, FS_Subset
<1>3. standing[c].noShows + Cardinality(Reporting(c)) + (IF Flagged(c) THEN 1 ELSE 0) <= stalls[c]
  BY DEF StallsCover
<1>4. (IF Flagged(c)' THEN 1 ELSE 0) <= (IF Flagged(c) THEN 1 ELSE 0)
  OBVIOUS
<1> HIDE DEF Flagged, Reporting
<1> QED BY <1>1, <1>2, <1>3, <1>4, ReportsAreFinite

\* A handler that starts, goes on or ends, and is not a report afterwards.
LEMMA NoReportStarts ==
  ASSUME Core, NEW s, NEW r, slots' = [slots EXCEPT ![s] = r], r.op # "no-show", NEW c
  PROVE  Reporting(c)' \subseteq Reporting(c)
BY DEF Core, SlotsOK, Reporting, InFlight

\* Steps that leave the flag and the counters alone.
LEMMA CoverIgnores ==
  ASSUME Core, StallsCover, NEW s, NEW r, slots' = [slots EXCEPT ![s] = r], r.op # "no-show",
         UNCHANGED <<stalls, standing>>,
         \A c \in Collectors : Flagged(c)' => Flagged(c)
  PROVE  StallsCover'
BY NoReportStarts, CoverKept

\* A report becomes a no-show.
LEMMA CountKeepsCover ==
  ASSUME Core, StallsCover, NEW s \in Slots, CountNoShow(s)
  PROVE  StallsCover'
<1> DEFINE who == slots[s].arg
           r   == IF ~[standing[who] EXCEPT !.noShows = @ + 1].suspended
                     /\ [standing[who] EXCEPT !.noShows = @ + 1].noShows >= NoShowLimit
                  THEN [slots[s] EXCEPT !.op = "suspend"] ELSE Idle
<1>1. who \in Collectors /\ s \in Reporting(who)
  BY DEF CountNoShow, Core, SlotsOK, Carried, Reporting, InFlight
<1>2. slots' = [slots EXCEPT ![s] = r] /\ r.op # "no-show"
  BY DEF CountNoShow, Core, SlotsOK, Tickets, Idle
<1>3. \A c \in Collectors : Flagged(c)' <=> Flagged(c)
  BY DEF CountNoShow, Flagged
<1> HIDE DEF r
<1> SUFFICES ASSUME NEW c \in Collectors
             PROVE  standing'[c].noShows + Cardinality(Reporting(c)')
                      + (IF Flagged(c)' THEN 1 ELSE 0) <= stalls'[c]
  BY DEF StallsCover
<1>4. standing[c] \in Standings /\ standing[c].noShows \in Nat /\ stalls[c] \in Nat /\ stalls' = stalls
  BY DEF Core, TypeOK, Standings, CountNoShow
<1>5. standing[c].noShows + Cardinality(Reporting(c)) + (IF Flagged(c) THEN 1 ELSE 0) <= stalls[c]
  BY DEF StallsCover
<1>6. CASE c = who
  <2>1. s \notin Reporting(c)'
    BY <1>2 DEF Core, SlotsOK, Reporting, InFlight
  <2>2. Reporting(c)' \subseteq Reporting(c) \ {s}
    BY <1>2, <2>1, NoReportStarts
  <2>3. Cardinality(Reporting(c)') <= Cardinality(Reporting(c)) - 1
    BY <1>1, <1>6, <2>2, ReportsAreFinite, FS_RemoveElement, FS_Subset
  <2>4. standing'[c].noShows = standing[c].noShows + 1
    BY <1>4, <1>6 DEF CountNoShow, Core, TypeOK, Standings
  <2> HIDE DEF who
  <2> QED BY <1>3, <1>4, <1>5, <2>3, <2>4, ReportsAreFinite
<1>7. CASE c # who
  <2>1. Cardinality(Reporting(c)') <= Cardinality(Reporting(c))
    BY <1>2, NoReportStarts, ReportsAreFinite, FS_Subset
  <2>2. standing'[c] = standing[c]
    BY <1>4, <1>7 DEF CountNoShow, Core, TypeOK
  <2> HIDE DEF who
  <2> QED BY <1>3, <1>4, <1>5, <2>1, <2>2, ReportsAreFinite
<1> QED BY <1>6, <1>7

\* A flag becomes a report.
LEMMA ReportKeepsCover ==
  ASSUME Core, StallsCover, NEW s \in Slots, ReportNoShow(s)
  PROVE  StallsCover'
<1> DEFINE r == [op |-> "no-show", by |-> Requester, arg |-> pickup.collector, n |-> 0]
<1>1. slots' = [slots EXCEPT ![s] = r] /\ UNCHANGED <<standing, stalls>>
  BY DEF ReportNoShow, Arrive
<1>2. pickup.isStalled /\ ~pickup'.isStalled /\ slots \in [Slots \cup Jobs -> Tickets]
  BY DEF ReportNoShow, Reportable, Reopened, Core, TypeOK, Pickups
<1> SUFFICES ASSUME NEW c \in Collectors
             PROVE  standing'[c].noShows + Cardinality(Reporting(c)')
                      + (IF Flagged(c)' THEN 1 ELSE 0) <= stalls'[c]
  BY DEF StallsCover
<1>3. standing[c].noShows \in Nat /\ stalls[c] \in Nat
  BY DEF Core, TypeOK, Standings
<1>4. standing[c].noShows + Cardinality(Reporting(c)) + (IF Flagged(c) THEN 1 ELSE 0) <= stalls[c]
  BY DEF StallsCover
<1>5. ~Flagged(c)'
  BY <1>2 DEF Flagged
<1>6. CASE pickup.collector = c
  <2>1. Reporting(c)' \subseteq Reporting(c) \cup {s}
    BY <1>1, <1>2 DEF Reporting, InFlight
  <2>2. Cardinality(Reporting(c)') <= Cardinality(Reporting(c)) + 1
    <3> HIDE DEF r
    <3>1. IsFiniteSet(Reporting(c)) /\ Cardinality(Reporting(c)) \in Nat
      BY ReportsAreFinite
    <3>2. /\ IsFiniteSet(Reporting(c) \cup {s})
          /\ Cardinality(Reporting(c) \cup {s}) \in {Cardinality(Reporting(c)), Cardinality(Reporting(c)) + 1}
      BY <3>1, FS_AddElement
    <3>3. Cardinality(Reporting(c)') <= Cardinality(Reporting(c) \cup {s})
      BY <2>1, <3>2, FS_Subset
    <3> QED BY <3>1, <3>2, <3>3, ReportsAreFinite
  <2>3. Flagged(c) BY <1>2, <1>6 DEF Flagged
  <2> QED BY <1>1, <1>3, <1>4, <1>5, <2>2, <2>3, ReportsAreFinite
<1>7. CASE pickup.collector # c
  <2>1. Reporting(c)' \subseteq Reporting(c)
    BY <1>1, <1>2, <1>7 DEF Reporting, InFlight
  <2>2. Cardinality(Reporting(c)') <= Cardinality(Reporting(c))
    BY <2>1, ReportsAreFinite, FS_Subset
  <2> QED BY <1>1, <1>3, <1>4, <1>5, <2>2, ReportsAreFinite
<1> QED BY <1>6, <1>7

\* The stall job records a stall with every flag it raises.
LEMMA StallKeepsCover ==
  ASSUME Core, StallsCover, StallJobApplies
  PROVE  StallsCover'
<1>1. slots' = [slots EXCEPT !["stall job"] = Idle] /\ Idle.op # "no-show"
  BY DEF StallJobApplies, Applies, Idle
<1> SUFFICES ASSUME NEW c \in Collectors
             PROVE  standing'[c].noShows + Cardinality(Reporting(c)')
                      + (IF Flagged(c)' THEN 1 ELSE 0) <= stalls'[c]
  BY DEF StallsCover
<1>2. standing[c].noShows \in Nat /\ stalls[c] \in Nat /\ pickup \in Pickups /\ standing' = standing
  BY DEF Core, TypeOK, Standings, StallJobApplies
<1>3. standing[c].noShows + Cardinality(Reporting(c)) + (IF Flagged(c) THEN 1 ELSE 0) <= stalls[c]
  BY DEF StallsCover
<1>4. Cardinality(Reporting(c)') <= Cardinality(Reporting(c))
  BY <1>1, NoReportStarts, ReportsAreFinite, FS_Subset
<1>5. stalls'[c] = stalls[c] + (IF c = pickup.collector /\ ~pickup.isStalled THEN 1 ELSE 0)
  BY DEF StallJobApplies
<1>6. Flagged(c)' => c = pickup.collector
  BY <1>2 DEF StallJobApplies, Flagged, Pickups
<1>7. pickup.isStalled /\ c = pickup.collector => Flagged(c)
  BY DEF Flagged
<1> QED BY <1>2, <1>3, <1>4, <1>5, <1>6, <1>7, ReportsAreFinite

LEMMA ServerKeepsCover ==
  ASSUME Core, Safe, StallsCover, NEW s \in Slots, ServerRuns(s)
  PROVE  StallsCover'
<1>1. CASE CountNoShow(s) BY <1>1, CountKeepsCover
<1>2. pickup \in Pickups /\ slots \in [Slots \cup Jobs -> Tickets]
  BY DEF Core, TypeOK
<1>3. Idle.op # "no-show" BY DEF Idle
<1>4. CASE AcceptApplies(s) \/ AgreeApplies(s)
  <2>1. ~pickup.isStalled
    BY <1>4 DEF AcceptApplies, AgreeApplies, Applies, Filter, OpenToAll, StillAgreeable, Safe,
       StallJobKnows
  <2>2. \A c \in Collectors : ~Flagged(c)'
    BY <1>2, <1>4, <2>1 DEF AcceptApplies, AgreeApplies, TakeOver, Flagged, Pickups
  <2> QED
    BY <1>3, <1>4, <2>2, CoverIgnores DEF AcceptApplies, AgreeApplies, Applies
<1>5. CASE \/ CreateApplies(s) \/ StartApplies(s) \/ CompleteApplies(s)
           \/ AssignApplies(s) \/ ReleaseApplies(s)
  <2>1. \A c \in Collectors : Flagged(c)' => Flagged(c)
    BY <1>2, <1>5 DEF CreateApplies, StartApplies, CompleteApplies, AssignApplies, ReleaseApplies,
       Assigned, Flagged, Pickups
  <2>2. UNCHANGED <<stalls, standing>> /\ slots' = [slots EXCEPT ![s] = Idle]
    BY <1>5 DEF CreateApplies, StartApplies, CompleteApplies, AssignApplies, ReleaseApplies,
       Assigned, Applies
  <2> QED BY <1>3, <2>1, <2>2, CoverIgnores
<1>6. CASE \/ OfferApplies(s) \/ InviteApplies(s) \/ DeclineApplies(s) \/ CounterApplies(s)
           \/ SetOffApplies(s) \/ WrongCodeApplies(s) \/ EraseApplies(s) \/ NoMatch(s)
  <2>1. UNCHANGED <<pickup, stalls, standing>> /\ slots' = [slots EXCEPT ![s] = Idle]
    BY <1>6 DEF OfferApplies, InviteApplies, Push, DeclineApplies, NegotiationDies, CounterApplies,
       SetOffApplies, WrongCodeApplies, EraseApplies, NoMatch, Applies, world
  <2> QED BY <1>3, <2>1, CoverIgnores DEF Flagged
<1>7. CASE Suspend(s)
  <2>1. UNCHANGED <<pickup, stalls>> /\ slots' = [slots EXCEPT ![s] = Idle]
    BY <1>7 DEF Suspend, Applies
  <2>2. \A c \in Collectors : standing'[c].noShows = standing[c].noShows
    BY <1>7 DEF Suspend, Core, TypeOK, Standings
  <2> QED BY <1>3, <2>1, <2>2, NoReportStarts, CoverKept DEF Flagged
<1>8. CASE WithdrawApplies(s)
  <2> DEFINE r == [slots[s] EXCEPT !.op = "erase"]
  <2>1. slots' = [slots EXCEPT ![s] = r] /\ r.op # "no-show"
    BY <1>2, <1>8 DEF WithdrawApplies, Tickets
  <2>2. UNCHANGED <<stalls, standing>> /\ \A c \in Collectors : Flagged(c)' => Flagged(c)
    BY <1>2, <1>8 DEF WithdrawApplies, Cancelled, Flagged, Pickups
  <2> QED BY <2>1, <2>2, CoverIgnores
<1> QED BY <1>1, <1>4, <1>5, <1>6, <1>7, <1>8 DEF ServerRuns

LEMMA ArrivalKeepsCover ==
  ASSUME Core, StallsCover, NEW s \in Slots,
         RequesterAsks(s) \/ \E c \in Collectors : CollectorAsks(s, c)
  PROVE  StallsCover'
<1>1. CASE ReportNoShow(s) BY <1>1, ReportKeepsCover
<1>2. CASE \E c, m \in Collectors : MemberGoes(s, c, m)
  <2>1. PICK c, m \in Collectors : MemberGoes(s, c, m) BY <1>2
  <2> DEFINE r == [op |-> "release", by |-> c, arg |-> m, n |-> 0]
  <2>2. slots' = [slots EXCEPT ![s] = r] /\ r.op # "no-show" /\ UNCHANGED <<pickup, stalls, standing>>
    BY <2>1 DEF MemberGoes
  <2> HIDE DEF r
  <2> QED BY <2>2, CoverIgnores DEF Flagged
<1>3. ASSUME NEW op, NEW by, NEW arg, NEW n, Arrive(s, op, by, arg, n), op # "no-show", UNCHANGED world
      PROVE  StallsCover'
  <2> DEFINE r == [op |-> op, by |-> by, arg |-> arg, n |-> n]
  <2>1. slots' = [slots EXCEPT ![s] = r] /\ r.op # "no-show" /\ UNCHANGED <<pickup, stalls, standing>>
    BY <1>3 DEF Arrive, world
  <2> HIDE DEF r
  <2> QED BY <2>1, CoverIgnores DEF Flagged
<1>4. CASE \/ CreateArrives(s) \/ WithdrawArrives(s)
           \/ \E u \in People : DeclineArrives(s, u) \/ AgreeArrives(s, u)
           \/ \E u \in People, n \in Amounts : CounterArrives(s, u, n)
           \/ \E c \in Collectors, n \in Amounts : InviteArrives(s, c, n) \/ OfferArrives(s, c, n)
  BY <1>3, <1>4 DEF CreateArrives, WithdrawArrives, DeclineArrives, AgreeArrives, CounterArrives,
     InviteArrives, OfferArrives
<1>5. CASE \E c \in Collectors :
             \/ AcceptArrives(s, c) \/ SetOffArrives(s, c) \/ StartArrives(s, c)
             \/ WrongCodeArrives(s, c) \/ CompleteArrives(s, c) \/ EraseArrives(s, c)
             \/ \E m \in Collectors : AssignArrives(s, c, m)
  BY <1>3, <1>5 DEF AcceptArrives, SetOffArrives, StartArrives, WrongCodeArrives,
     CompleteArrives, EraseArrives, AssignArrives
<1> QED BY <1>1, <1>2, <1>4, <1>5 DEF RequesterAsks, CollectorAsks, People

LEMMA OthersKeepCover ==
  ASSUME Core, StallsCover, AtOnceSteps \/ ExpireJob \/ StallJob \/ Environment \/ UNCHANGED vars
  PROVE  StallsCover'
<1>1. pickup \in Pickups /\ slots \in [Slots \cup Jobs -> Tickets]
  BY DEF Core, TypeOK
<1>2. ASSUME UNCHANGED <<slots, stalls, standing>>, \A c \in Collectors : Flagged(c)' => Flagged(c)
      PROVE  StallsCover'
  BY <1>2, CoverKept DEF Reporting, InFlight
<1>3. CASE AtOnceSteps \/ UNCHANGED vars
  BY <1>1, <1>2, <1>3 DEF AtOnceSteps, MarkReady, CancelByRequester, CancelByCrew, Cancelled,
     Unassign, Assigned, AtOnce, Flagged, Pickups, vars
<1>4. CASE ExpireJob
  <2>1. UNCHANGED <<pickup, stalls, standing>>
    BY <1>4 DEF ExpireJob, ExpireJobFinds, ExpireJobApplies, NegotiationDies, NoMatch, world
  <2>2. \E r : r.op # "no-show" /\ slots' = [slots EXCEPT !["expire job"] = r]
    <3>1. ASSUME NEW r, slots' = [slots EXCEPT !["expire job"] = r], r.op # "no-show"
          PROVE  \E q : q.op # "no-show" /\ slots' = [slots EXCEPT !["expire job"] = q]
      BY <3>1
    <3> QED BY <1>4, <3>1 DEF ExpireJob, ExpireJobFinds, ExpireJobApplies, NoMatch, Applies, Idle
  <2> QED BY <2>1, <2>2, CoverIgnores DEF Flagged
<1>5. CASE StallJobFinds
  <2> DEFINE r == [op |-> "stall", by |-> NoOne, arg |-> NoOne, n |-> 0]
  <2>1. /\ slots' = [slots EXCEPT !["stall job"] = r] /\ r.op # "no-show"
        /\ UNCHANGED <<pickup, stalls, standing>>
    BY <1>5 DEF StallJobFinds, world
  <2> HIDE DEF r
  <2> QED BY <2>1, CoverIgnores DEF Flagged
<1>6. CASE StallJobApplies BY <1>6, StallKeepsCover
<1>7. CASE AgeOffer \/ AgeAcceptance \/ AgeTracking \/ AgeDeparture \/ LockLapses
  BY <1>2, <1>7 DEF AgeOffer, AgeAcceptance, AgeTracking, AgeDeparture, LockLapses, TimePasses,
     Flagged
<1>8. CASE Crash
  <2>1. \A c \in Collectors : Reporting(c)' = {}
    BY <1>8 DEF Crash, Reporting, InFlight, Idle
  <2> QED BY <1>8, <2>1, CoverKept DEF Crash, world, Flagged
<1>9. CASE \E c \in Collectors : StandingChanges(c) \/ RatedDown(c) \/ Reinstate(c)
  <2>1. UNCHANGED <<pickup, slots, stalls>>
    BY <1>9 DEF StandingChanges, RatedDown, Reinstate, AccountChanges
  <2>2. \A c \in Collectors : standing'[c].noShows = standing[c].noShows
    <3>1. ASSUME NEW op, NEW d \in Collectors, NEW user, user.noShows = standing[d].noShows,
                 AccountChanges(op, d, user), NEW c \in Collectors
          PROVE  standing'[c].noShows = standing[c].noShows
      BY <3>1 DEF AccountChanges, Core, TypeOK
    <3>2. \A d \in Collectors, v, a \in BOOLEAN :
            [standing[d] EXCEPT !.verified = v, !.available = a].noShows = standing[d].noShows
      BY DEF Core, TypeOK, Standings
    <3>3. \A d \in Collectors, b \in BOOLEAN :
            [standing[d] EXCEPT !.suspended = b].noShows = standing[d].noShows
      BY DEF Core, TypeOK, Standings
    <3> QED BY <1>9, <3>1, <3>2, <3>3 DEF StandingChanges, RatedDown, Reinstate
  <2> QED BY <2>1, <2>2, CoverKept DEF Reporting, InFlight, Flagged
<1> QED BY <1>3, <1>4, <1>5, <1>6, <1>7, <1>8, <1>9 DEF StallJob, Environment

LEMMA CoverHolds == Spec => []StallsCover
<1>1. Init => StallsCover
  <2> SUFFICES ASSUME Init, NEW c \in Collectors
               PROVE  standing[c].noShows + Cardinality(Reporting(c))
                        + (IF Flagged(c) THEN 1 ELSE 0) <= stalls[c]
    BY DEF StallsCover
  <2>1. Reporting(c) = {} BY DEF Init, Reporting, InFlight, Idle
  <2>2. ~Flagged(c) BY DEF Init, Flagged
  <2>3. standing[c].noShows = 0 /\ stalls[c] = 0 BY DEF Init
  <2> QED BY <2>1, <2>2, <2>3, FS_EmptySet
<1>2. Core /\ Safe /\ StallsCover /\ [Next]_vars => StallsCover'
  BY ServerKeepsCover, ArrivalKeepsCover, OthersKeepCover DEF Next
<1> QED BY <1>1, <1>2, CoreHolds, SafeHolds, PTL DEF Spec

\* One stall costs a collector at most one no-show, for any number of reports
\* that run at once and however often the server stops between their writes.
THEOREM OneReportPerStall == Spec => []OneNoShowPerStall
<1>1. Core /\ StallsCover => OneNoShowPerStall
  <2> SUFFICES ASSUME Core, StallsCover, NEW c \in Collectors
               PROVE  standing[c].noShows + Cardinality(Reporting(c)) <= stalls[c]
    BY DEF OneNoShowPerStall, Reporting
  <2>1. standing[c].noShows \in Nat /\ stalls[c] \in Nat
    BY DEF Core, TypeOK, Standings
  <2>2. standing[c].noShows + Cardinality(Reporting(c)) + (IF Flagged(c) THEN 1 ELSE 0) <= stalls[c]
    BY DEF StallsCover
  <2> QED BY <2>1, <2>2, ReportsAreFinite
<1> QED BY <1>1, CoreHolds, CoverHolds, PTL
=============================================================================
