-------------------------------- MODULE Chat --------------------------------
(***************************************************************************)
(* The conversation about one pickup: the Message collection, the           *)
(* socket.io room of the pickup, and the chat window of each person.  A     *)
(* window fetches the history over HTTP and joins the room over its socket  *)
(* at the same time; from then on it shows what the socket brings.  Events  *)
(* for one socket keep their order; requests and sockets are not ordered    *)
(* with each other.  A socket that drops is in no room when it is back.     *)
(***************************************************************************)
EXTENDS Handlers, Integers, Sequences, FiniteSets, SequencesExt

CONSTANTS
  Requester,    \* the requester of the pickup
  Couriers,     \* collectors who may hold it
  Nobody,       \* no collector: the pickup is pending
  MaxMessages,  \* bound: messages sent
  MaxWire,      \* bound: no typing while so many events are on the way to somebody
  ChatWork      \* what else happens, one of it to a behaviour: "type", "drop", "hand off"

ASSUME ChatAssumption ==
  /\ Requester \notin Couriers
  /\ Nobody \notin Couriers \cup {Requester}
  /\ MaxMessages \in Nat /\ MaxWire \in Nat
  /\ ChatWork \subseteq {"type", "drop", "hand off"}

VARIABLES
  pastime,   \* what else happens in this behaviour
  courier,   \* Pickup.collector
  msgs,      \* Message documents in order: [by, read]
  room,      \* people whose socket is in the pickup's room
  joining,   \* people with a joinPickup the server has not finished
  online,    \* people whose socket is connected
  wire,      \* events on their way to each socket
  typer,     \* usePickupChat: "still", "typing", or "stuck" (isTyping, no timer)
  win        \* chat window of each person

chatDocs == <<pastime, courier, msgs, room, joining, online, wire, typer, win>>
chatVars == <<pastime, courier, msgs, room, joining, online, wire, typer, win, slots>>

People == Couriers \cup {Requester}

ClosedWindow == [open |-> FALSE, shown |-> << >>, fetch |-> "none", upTo |-> 0, otherTyping |-> FALSE]

ChatInit ==
  /\ pastime \in ChatWork
  /\ courier \in Couriers
  /\ msgs = << >>
  /\ room = {} /\ joining = {} /\ online = People
  /\ wire = [p \in People |-> << >>]
  /\ typer = [p \in People |-> "still"]
  /\ win = [p \in People |-> ClosedWindow]
  /\ slots = AllIdle

-----------------------------------------------------------------------------
\* assertChatAccess: the requester, or the collector, once there is one.
HasAccess(p) == courier # Nobody /\ p \in {Requester, courier}

\* Emitted to the room, to those of it in ps.
Emit(ps, event) ==
  wire' = [p \in People |-> IF p \in room \cap ps THEN Append(wire[p], event) ELSE wire[p]]

\* The effect of usePickupChat: history asked for, room joined, listeners on.
OpenChat(p) ==
  /\ HasAccess(p) /\ ~win[p].open
  /\ win' = [win EXCEPT ![p].open = TRUE, ![p].fetch = "asked"]
  /\ joining' = joining \cup {p}
  /\ UNCHANGED <<pastime, courier, msgs, room, online, wire, typer, slots>>

\* joinPickup: the access check is awaited, the room is left at once.
JoinPickup(p) ==
  /\ p \in joining /\ p \in online
  /\ joining' = joining \ {p}
  /\ room' = IF HasAccess(p) THEN room \cup {p} ELSE room
  /\ UNCHANGED <<pastime, courier, msgs, online, wire, typer, win, slots>>

\* The effect's cleanup: its timer is cleared, its room left, its fetch ignored.
CloseChat(p) ==
  /\ win[p].open
  /\ win' = [win EXCEPT ![p].open = FALSE, ![p].fetch = "none", ![p].upTo = 0]
  /\ room' = room \ {p}
  /\ typer' = [typer EXCEPT ![p] = IF @ = "typing" THEN "stuck" ELSE @]
  /\ UNCHANGED <<pastime, courier, msgs, joining, online, wire, slots>>

\* getMessages answers, and the window shows its answer instead of what it had.
HistoryRead(p) ==
  /\ win[p].fetch = "asked"
  /\ win' = IF HasAccess(p) THEN [win EXCEPT ![p].fetch = "read", ![p].upTo = Len(msgs)]
                            ELSE [win EXCEPT ![p].fetch = "none"]
  /\ UNCHANGED <<pastime, courier, msgs, room, joining, online, wire, typer, slots>>

HistoryShown(s, p) ==
  /\ win[p].fetch = "read"
  /\ win' = [win EXCEPT ![p].fetch = "none", ![p].upTo = 0,
                        ![p].shown = [i \in 1..win[p].upTo |-> i]]
  /\ Starts(s, [op |-> "read", by |-> p])
  /\ UNCHANGED <<pastime, courier, msgs, room, joining, online, wire, typer>>

-----------------------------------------------------------------------------
Typing(p) ==
  /\ pastime = "type"
  /\ win[p].open
  /\ typer[p] # "typing"
  /\ \A q \in People : Len(wire[q]) < MaxWire
  /\ IF typer[p] = "still" THEN Emit(IF p \in room THEN People \ {p} ELSE {}, [ev |-> "typing"])
                           ELSE UNCHANGED wire
  /\ typer' = [typer EXCEPT ![p] = "typing"]
  /\ UNCHANGED <<pastime, courier, msgs, room, joining, online, win, slots>>

\* The trailing pause.
StopTyping(p) ==
  /\ typer[p] = "typing"
  /\ typer' = [typer EXCEPT ![p] = "still"]
  /\ Emit(IF p \in room THEN People \ {p} ELSE {}, [ev |-> "stopTyping"])
  /\ UNCHANGED <<pastime, courier, msgs, room, joining, online, win, slots>>

\* send: typing is over, and the message is posted; access is checked on arrival.
SendMessage(s, p) ==
  /\ win[p].open /\ HasAccess(p)
  /\ Len(msgs) + Cardinality({t \in Slots : At(t, "create")}) < MaxMessages
  /\ typer' = [typer EXCEPT ![p] = "still"]
  /\ Emit(IF p \in room /\ pastime = "type" THEN People \ {p} ELSE {}, [ev |-> "stopTyping"])
  /\ Starts(s, [op |-> "create", by |-> p])
  /\ UNCHANGED <<pastime, courier, msgs, room, joining, online, win>>

MessageStored(s) ==
  /\ At(s, "create")
  /\ msgs' = Append(msgs, [by |-> slots[s].by, read |-> FALSE])
  /\ Goes(s, [op |-> "emit", id |-> Len(msgs) + 1])
  /\ UNCHANGED <<pastime, courier, room, joining, online, wire, typer, win>>

EmitMessage_NotSender(s) ==
  Emit(People \ {msgs[slots[s].id].by}, [ev |-> "message", id |-> slots[s].id])

\* To the whole room, the sender's own window included: nothing is appended locally.
EmitMessage(s) == Emit(People, [ev |-> "message", id |-> slots[s].id])

MessageEmitted(s) ==
  /\ At(s, "emit")
  /\ EmitMessage(s)
  /\ Ends(s)
  /\ UNCHANGED <<pastime, courier, msgs, room, joining, online, typer, win>>

\* markMessagesRead: what the others sent is read; told to the room when any was not.
MarkMessagesRead(s) ==
  /\ At(s, "read")
  /\ LET p == slots[s].by
         unread == {i \in DOMAIN msgs : msgs[i].by # p /\ ~msgs[i].read}
     IN IF HasAccess(p) /\ unread # {}
        THEN /\ msgs' = [i \in DOMAIN msgs |-> IF i \in unread THEN [msgs[i] EXCEPT !.read = TRUE]
                                                               ELSE msgs[i]]
             /\ Emit(People, [ev |-> "messagesRead"])
        ELSE UNCHANGED <<msgs, wire>>
  /\ Ends(s)
  /\ UNCHANGED <<pastime, courier, room, joining, online, typer, win>>

-----------------------------------------------------------------------------
\* What the window does with an event: nothing when it is closed.
Shows(w, e) ==
  CASE w.open /\ e.ev = "message"    -> [w EXCEPT !.shown = Append(@, e.id)]
    [] w.open /\ e.ev = "typing"     -> [w EXCEPT !.otherTyping = TRUE]
    [] w.open /\ e.ev = "stopTyping" -> [w EXCEPT !.otherTyping = FALSE]
    [] OTHER                         -> w

\* A message of the other party in an open window is read at once.
Delivered(s, p) ==
  /\ wire[p] # << >>
  /\ LET e == Head(wire[p])
     IN /\ win' = [win EXCEPT ![p] = Shows(@, e)]
        /\ IF win[p].open /\ e.ev = "message" /\ msgs[e.id].by # p
           THEN Starts(s, [op |-> "read", by |-> p])
           ELSE UNCHANGED slots
  /\ wire' = [wire EXCEPT ![p] = Tail(@)]
  /\ UNCHANGED <<pastime, courier, msgs, room, joining, online, typer>>

\* The connection drops, with what was on its way; and is back, in no room.
Drops(p) ==
  /\ pastime = "drop"
  /\ p \in online
  /\ online' = online \ {p}
  /\ room' = room \ {p}
  /\ wire' = [wire EXCEPT ![p] = << >>]
  /\ UNCHANGED <<pastime, courier, msgs, joining, typer, win, slots>>

Reconnects(p) ==
  /\ p \notin online
  /\ online' = online \cup {p}
  /\ UNCHANGED <<pastime, courier, msgs, room, joining, wire, typer, win, slots>>

\* A no-show report or a new match changes the collector under open windows.
HandsOff(c) ==
  /\ pastime = "hand off"
  /\ courier' = IF courier = Nobody THEN c ELSE Nobody
  /\ UNCHANGED <<pastime, msgs, room, joining, online, wire, typer, win, slots>>

ChatNext ==
  \/ \E p \in People :
       \/ OpenChat(p) \/ JoinPickup(p) \/ CloseChat(p) \/ HistoryRead(p)
       \/ Typing(p) \/ StopTyping(p) \/ Drops(p) \/ Reconnects(p)
       \/ \E s \in Slots : HistoryShown(s, p) \/ SendMessage(s, p) \/ Delivered(s, p)
  \/ \E s \in Slots : MessageStored(s) \/ MessageEmitted(s) \/ MarkMessagesRead(s)
  \/ \E c \in Couriers : HandsOff(c)

ChatSpec == ChatInit /\ [][ChatNext]_chatVars

\* What was asked of the server or is on its way arrives, and timers fire; a
\* connection that never breaks again delivers.
ChatFairness ==
  /\ \A p \in People :
       /\ WF_chatVars(JoinPickup(p)) /\ WF_chatVars(HistoryRead(p)) /\ WF_chatVars(StopTyping(p))
       /\ WF_chatVars(\E s \in Slots : HistoryShown(s, p))
       /\ SF_chatVars(\E s \in Slots : Delivered(s, p))
  /\ \A s \in Slots :
       /\ WF_chatVars(MessageStored(s)) /\ WF_chatVars(MessageEmitted(s))
       /\ WF_chatVars(MarkMessagesRead(s))

ChatFairSpec == ChatSpec /\ ChatFairness

-----------------------------------------------------------------------------
\* The window is open, in the room, and has its history.
Attends(p) == win[p].open /\ p \in room /\ win[p].fetch = "none"

LeavesFor(i) == \E s \in Slots : slots[s] = [op |-> "emit", id |-> i]

ChatTypeOK ==
  LET Event == [ev : {"typing", "stopTyping", "messagesRead"}] \cup [ev : {"message"}, id : Nat]
  IN /\ pastime \in ChatWork
     /\ courier \in Couriers \cup {Nobody}
     /\ Len(msgs) <= MaxMessages
     /\ room \subseteq online /\ joining \cup online \subseteq People
     /\ \A p \in People : Range(wire[p]) \subseteq Event
     /\ typer \in [People -> {"still", "typing", "stuck"}]
     /\ \A p \in People :
          /\ win[p].fetch \in {"none", "asked", "read"}
          /\ win[p].upTo \in 0..Len(msgs) /\ Range(win[p].shown) \subseteq DOMAIN msgs

(* A message that is sent while a window attends is shown in it, the sender's    *)
(* own window included, unless that window closes, its connection drops, or it   *)
(* leaves the room first: nothing is appended locally and nothing is fetched     *)
(* again, so the socket is its only way in (usePickupChat.js:45-52, 103-108).    *)
MessageReachesWindow ==
  \A p \in People, i \in 1..MaxMessages :
    (LeavesFor(i) /\ Attends(p)) ~> (i \in Range(win[p].shown) \/ ~Attends(p))

(* An open window does not show "is typing" forever: a person who stops typing   *)
(* without sending anything stops being shown so (usePickupChat.js:5-8).         *)
(* Refuted: a window that closes clears the timer that would have said so.       *)
TypingEnds ==
  \A p \in People : (win[p].open /\ win[p].otherTyping) ~> ~(win[p].open /\ win[p].otherTyping)

(* No window shows a message twice (usePickupChat.js:107-109).  Refuted: what    *)
(* the history holds and the socket brings afterwards is shown both ways.        *)
NoDuplicate == \A p \in People : IsInjective(win[p].shown)

=============================================================================
