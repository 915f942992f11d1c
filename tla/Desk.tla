-------------------------------- MODULE Desk --------------------------------
(***************************************************************************)
(* What is kept beside a pickup: the link a trip is followed with, and the  *)
(* SOS alerts; the help tickets of a user; the delivery of collected scrap  *)
(* to a recycling partner.  They share no document, so a behaviour is about *)
(* one of them.  Most handlers look for a document first and then create or *)
(* save one, with nothing in the database that keeps two of them apart.     *)
(***************************************************************************)
EXTENDS Handlers, Naturals, Sequences, FiniteSets

CONSTANTS
  Parties,     \* the requester and the collector of the pickup
  Hauls,       \* completed pickups of one collector
  Partners,    \* recycling partners
  NoPartner,   \* not delivered yet
  MaxActive,   \* MAX_ACTIVE_TICKETS
  MaxMade      \* bound: links, alerts, positions, and tickets made

ASSUME DeskAssumption ==
  NoPartner \notin Partners /\ MaxActive \in Nat \ {0} /\ MaxMade \in Nat \ {0}

VARIABLES
  matter,     \* what the behaviour is about
  trip,       \* the pickup: "live"; "waiting" (reopened) or "over"; and either of
              \* them for longer than LINK_GRACE: "forgotten", "past"
  shares,     \* TripShare documents: revoked, and the last position stored
  stopped,    \* history: links out when sharing was stopped, with their position
  alerts,     \* SafetyAlert documents: who raised it, and its status
  position,   \* how often the collector has moved
  tickets,    \* SupportTicket documents: status, and who spoke last
  partners,   \* the partners that are active
  dropOff     \* Pickup.dropOff of each load: where it was delivered

deskDocs == <<matter, trip, shares, stopped, alerts, position, tickets, partners, dropOff>>
deskVars == <<deskDocs, slots>>
tripDocs == <<trip, shares, stopped, alerts, position>>

DeskInit ==
  /\ matter \in {"trip", "tickets", "deliveries"}
  /\ trip = "live" /\ shares = << >> /\ stopped = {} /\ alerts = << >> /\ position = 0
  /\ tickets = << >>
  /\ partners = Partners
  /\ dropOff = [l \in Hauls |-> NoPartner]
  /\ slots = AllIdle

AtStep(op) == Cardinality({s \in Slots : At(s, op)})

-----------------------------------------------------------------------------
ActiveShares == {i \in DOMAIN shares : ~shares[i].revoked}

\* createShare, up to ensureShare; and raiseSos, which looks for an alert first.
ShareAsked(s) ==
  /\ trip = "live"
  /\ Starts(s, [op |-> "look", next |-> Idle])
  /\ UNCHANGED tripDocs

SosAsked(s, p) ==
  /\ trip = "live"
  /\ LET raised == \E i \in DOMAIN alerts : alerts[i] = [by |-> p, status |-> "active"]
     IN Starts(s, [op |-> "look", next |-> IF raised THEN Idle ELSE [op |-> "alert", by |-> p]])
  /\ UNCHANGED tripDocs

\* ensureShare: the active link, or a new one.
ShareLooked(s) ==
  /\ At(s, "look")
  /\ Len(shares) + AtStep("share") < MaxMade
  /\ Goes(s, IF ActiveShares # {} THEN slots[s].next ELSE [slots[s] EXCEPT !.op = "share"])
  /\ UNCHANGED tripDocs

ShareCreated(s) ==
  /\ At(s, "share")
  /\ shares' = Append(shares, [revoked |-> FALSE, last |-> 0])
  /\ Goes(s, slots[s].next)
  /\ UNCHANGED <<trip, stopped, alerts, position>>

AlertCreated(s) ==
  /\ At(s, "alert")
  /\ Len(alerts) < MaxMade
  /\ alerts' = Append(alerts, [by |-> slots[s].by, status |-> "active"])
  /\ Ends(s)
  /\ UNCHANGED <<trip, shares, stopped, position>>

\* adminResolve.
AlertResolved(i) ==
  /\ alerts[i].status = "active"
  /\ alerts' = [alerts EXCEPT ![i].status = "resolved"]
  /\ UNCHANGED <<trip, shares, stopped, position, slots>>

Revoked_One == {CHOOSE i \in ActiveShares : TRUE}

\* What updateMany of revokeShare finds.
Revoked == ActiveShares

\* revokeShare, by either party.
SharingStopped ==
  /\ ActiveShares # {}
  /\ stopped' = stopped \cup {<<i, shares[i].last>> : i \in ActiveShares}
  /\ shares' = [i \in DOMAIN shares |-> [shares[i] EXCEPT !.revoked = @ \/ i \in Revoked]]
  /\ UNCHANGED <<trip, alerts, position, slots>>

\* collectorLocationUpdate, up to its check of the pickup; and the copy of the
\* position in one of the active links.
CollectorMoved(s) ==
  /\ trip = "live" /\ position < MaxMade
  /\ position' = position + 1
  /\ Starts(s, [op |-> "position", at |-> position + 1])
  /\ UNCHANGED <<trip, shares, stopped, alerts>>

PositionCopied(s) ==
  /\ At(s, "position")
  /\ \/ \E i \in ActiveShares : shares' = [shares EXCEPT ![i].last = slots[s].at]
     \/ ActiveShares = {} /\ UNCHANGED shares
  /\ Ends(s)
  /\ UNCHANGED <<trip, stopped, alerts, position>>

\* The pickup is completed or reopened; reopened, it is taken again; time passes.
TripMoves ==
  /\ \/ trip = "live"    /\ trip' \in {"waiting", "over"}
     \/ trip = "waiting" /\ trip' \in {"live", "forgotten"}
     \/ trip = "forgotten" /\ trip' = "live"
     \/ trip = "over"    /\ trip' = "past"
  /\ UNCHANGED <<shares, stopped, alerts, position, slots>>

\* getPublicTrip.
LinkOpens(i) == ~shares[i].revoked /\ trip \notin {"past", "forgotten"}

TripStep ==
  \/ \E s \in Slots :
       \/ ShareAsked(s) \/ (\E p \in Parties : SosAsked(s, p)) \/ ShareLooked(s)
       \/ ShareCreated(s) \/ AlertCreated(s) \/ CollectorMoved(s) \/ PositionCopied(s)
  \/ (\E i \in DOMAIN alerts : AlertResolved(i)) \/ SharingStopped \/ TripMoves

-----------------------------------------------------------------------------
StillOpen(t) == t.status \in {"open", "in_progress"}

\* createTicket counts, reads the name, and creates.
TicketAsked(s) ==
  /\ Cardinality({i \in DOMAIN tickets : StillOpen(tickets[i])}) < MaxActive
  /\ Len(tickets) + AtStep("ticket") < MaxMade
  /\ Starts(s, [op |-> "ticket"])
  /\ UNCHANGED tickets

TicketCreated(s) ==
  /\ At(s, "ticket")
  /\ tickets' = Append(tickets, [status |-> "open", last |-> "requester"])
  /\ Ends(s)

\* replyMine and adminReply load a ticket that is not closed, adminSetStatus any.
ReplyArrives(s, i, by) ==
  /\ tickets[i].status # "closed"
  /\ Starts(s, [op |-> "reply", of |-> i, by |-> by, had |-> tickets[i]])
  /\ UNCHANGED tickets

StatusArrives(s, i, status) ==
  /\ tickets[i].status # status
  /\ Starts(s, [op |-> "status", of |-> i, to |-> status])
  /\ UNCHANGED tickets

\* The status a reply gives to the ticket it loaded.
Replied(had, by) ==
  IF by = "requester" THEN "open" ELSE IF had.status = "open" THEN "in_progress" ELSE had.status

\* save: the message is pushed, and a field with a new value is written.
ReplySaved(s) ==
  /\ At(s, "reply")
  /\ LET had == slots[s].had
         now == [status |-> Replied(had, slots[s].by), last |-> slots[s].by]
     IN tickets' = [tickets EXCEPT ![slots[s].of] =
          [f \in DOMAIN now |-> IF now[f] = had[f] THEN @[f] ELSE now[f]]]
  /\ Ends(s)

StatusSaved(s) ==
  /\ At(s, "status")
  /\ tickets' = [tickets EXCEPT ![slots[s].of].status = slots[s].to]
  /\ Ends(s)

TicketStep ==
  \E s \in Slots :
    \/ TicketAsked(s) \/ TicketCreated(s) \/ ReplySaved(s) \/ StatusSaved(s)
    \/ \E i \in DOMAIN tickets :
         \/ \E by \in {"requester", "admin"} : ReplyArrives(s, i, by)
         \/ \E to \in {"open", "in_progress", "resolved", "closed"} : StatusArrives(s, i, to)

-----------------------------------------------------------------------------
\* recordDropOff: the partner and the loads are checked, then written by their ids.
DropOffArrives(s, ls, partner) ==
  /\ partner \in partners
  /\ \A l \in ls : dropOff[l] = NoPartner
  /\ Starts(s, [op |-> "drop", hauls |-> ls, at |-> partner])
  /\ UNCHANGED <<partners, dropOff>>

DropOffRecorded(s) ==
  /\ At(s, "drop")
  /\ dropOff' = [l \in Hauls |-> IF l \in slots[s].hauls THEN slots[s].at ELSE dropOff[l]]
  /\ Ends(s)
  /\ UNCHANGED partners

\* updatePartner of an admin.
PartnerSwitched(partner) ==
  /\ partners' = IF partner \in partners THEN partners \ {partner} ELSE partners \cup {partner}
  /\ UNCHANGED <<dropOff, slots>>

DeliveryStep ==
  \/ \E s \in Slots :
       \/ DropOffRecorded(s)
       \/ \E ls \in SUBSET Hauls \ {{}}, p \in Partners : DropOffArrives(s, ls, p)
  \/ \E p \in Partners : PartnerSwitched(p)

-----------------------------------------------------------------------------
DeskStops == Restarts /\ UNCHANGED deskDocs

DeskNext ==
  \/ matter = "trip"       /\ TripStep     /\ UNCHANGED <<matter, tickets, partners, dropOff>>
  \/ matter = "tickets"    /\ TicketStep   /\ UNCHANGED <<matter, tripDocs, partners, dropOff>>
  \/ matter = "deliveries" /\ DeliveryStep /\ UNCHANGED <<matter, tripDocs, tickets>>
  \/ DeskStops

DeskSpec == DeskInit /\ [][DeskNext]_deskVars

-----------------------------------------------------------------------------
(* Properties.                                                              *)

DeskTypeOK ==
  /\ trip \in {"live", "waiting", "forgotten", "over", "past"}
  /\ shares \in Seq([revoked : BOOLEAN, last : 0..position]) /\ Len(shares) <= MaxMade
  /\ alerts \in Seq([by : Parties, status : {"active", "resolved"}]) /\ Len(alerts) <= MaxMade
  /\ tickets \in Seq([status : {"open", "in_progress", "resolved", "closed"},
                      last : {"requester", "admin"}])
  /\ partners \subseteq Partners
  /\ dropOff \in [Hauls -> Partners \cup {NoPartner}]

(* Whoever stops sharing ends every link that is out, also the second one that   *)
(* two requests made at once: none of them opens again, and none learns another  *)
(* position, not even from an update that was under way                          *)
(* (safetyController.js:66-70, setupSocket.js:160-163).                          *)
StoppedLinksAreDead ==
  \A link \in stopped : ~LinkOpens(link[1]) /\ shares[link[1]].last = link[2]
=============================================================================
