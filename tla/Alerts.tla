------------------------------- MODULE Alerts -------------------------------
(***************************************************************************)
(* The notifications of one user and the bell that shows them.  A           *)
(* notification is created, then emitted to the user's room and pushed.     *)
(* The bell loads the newest ones and the unread count by queries that run  *)
(* side by side, adds what it hears, and marks before it asks the server;   *)
(* when that request fails, it loads again, and a load that fails leaves    *)
(* the bell as it was.                                                      *)
(***************************************************************************)
EXTENDS Integers, Sequences, FiniteSets, SequencesExt

CONSTANTS
  Notes,      \* notifications the user may get
  BellLimit,  \* entries the bell keeps
  MaxAsks     \* bound: requests of the bell under way

ASSUME AlertAssumption == BellLimit \in Nat \ {0} /\ MaxAsks \in Nat

ASSUME NotesAssumption == IsFiniteSet(Notes)

VARIABLES
  notes,     \* Notification documents: "absent", "unread" or "read"
  order,     \* the order in which they were created
  toEmit,    \* notifications created, not yet emitted
  heard,     \* emitted ones on their way to the bell
  asks,      \* the bell's requests under way
  bell,      \* its entries, the ones shown as read, and the count
  jumbled    \* history: a load failed, or overlapped something else that changed the bell

alertVars == <<notes, order, toEmit, heard, asks, bell, jumbled>>

AlertInit ==
  /\ notes = [n \in Notes |-> "absent"]
  /\ order = << >>
  /\ toEmit = {} /\ heard = << >>
  /\ asks = {[op |-> "load", at |-> "sent"]}
  /\ bell = [items |-> << >>, read |-> {}, count |-> 0]
  /\ jumbled = FALSE

-----------------------------------------------------------------------------
Unread == {n \in Notes : notes[n] = "unread"}

FirstOnes(list) == SubSeq(list, 1, IF Len(list) < BellLimit THEN Len(list) ELSE BellLimit)

Arriving == toEmit # {} \/ heard # << >>

Loading == \E a \in asks : a.op = "load"

\* notifyUser: create, and emit when the create has answered.
NotifyUser(n) ==
  /\ notes[n] = "absent"
  /\ notes' = [notes EXCEPT ![n] = "unread"]
  /\ order' = <<n>> \o order
  /\ toEmit' = toEmit \cup {n}
  /\ jumbled' = (jumbled \/ Loading)
  /\ UNCHANGED <<heard, asks, bell>>

NoticeEmitted(n) ==
  /\ n \in toEmit
  /\ toEmit' = toEmit \ {n}
  /\ heard' = Append(heard, n)
  /\ UNCHANGED <<notes, order, asks, bell, jumbled>>

BellHears ==
  /\ heard # << >>
  /\ heard' = Tail(heard)
  /\ bell' = [bell EXCEPT !.items = FirstOnes(<<Head(heard)>> \o @), !.count = @ + 1]
  /\ jumbled' = (jumbled \/ Loading)
  /\ UNCHANGED <<notes, order, toEmit, asks>>

\* getNotifications: the entries, and the count, each read at its moment.
ListRead(a) ==
  /\ a.op = "load" /\ a.at = "sent"
  /\ asks' = (asks \ {a}) \cup
       {[op |-> "load", at |-> "listed", items |-> FirstOnes(order),
        read |-> {n \in Notes : notes[n] = "read"}]}
  /\ UNCHANGED <<notes, order, toEmit, heard, bell, jumbled>>

CountRead(a) ==
  /\ a.op = "load" /\ a.at = "listed"
  /\ asks' = (asks \ {a}) \cup {[op |-> "load", at |-> "answered", items |-> a.items,
                                 read |-> a.read, count |-> Cardinality(Unread)]}
  /\ jumbled' = (jumbled \/ Arriving)
  /\ UNCHANGED <<notes, order, toEmit, heard, bell>>

BellLoaded(a) ==
  /\ a.op = "load" /\ a.at = "answered"
  /\ asks' = asks \ {a}
  /\ bell' = [items |-> a.items, read |-> a.read, count |-> a.count]
  /\ UNCHANGED <<notes, order, toEmit, heard, jumbled>>

\* The load fails, at the server or on its way: its error is ignored, and nothing
\* asks again.
BellMisses(a) ==
  /\ a.op = "load"
  /\ asks' = asks \ {a}
  /\ jumbled' = TRUE
  /\ UNCHANGED <<notes, order, toEmit, heard, bell>>

\* markRead of an entry that is not shown as read, and markAllRead: the bell first.
Marks(ns, count) ==
  /\ bell' = [bell EXCEPT !.read = @ \cup ns, !.count = count]
  /\ asks' = asks \cup {[op |-> "mark", at |-> "sent", notes |-> ns]}
  /\ jumbled' = (jumbled \/ Loading)
  /\ UNCHANGED <<notes, order, toEmit, heard>>

MarkRead(n) ==
  /\ n \in Range(bell.items) /\ n \notin bell.read
  /\ Cardinality(asks) < MaxAsks
  /\ Marks({n}, IF bell.count = 0 THEN 0 ELSE bell.count - 1)

\* markAllRead asks for everything unread when it arrives.
MarkAllRead ==
  /\ bell.count > 0 /\ Cardinality(asks) < MaxAsks
  /\ [op |-> "mark", at |-> "sent", notes |-> Notes] \notin asks
  /\ bell' = [bell EXCEPT !.read = @ \cup Range(bell.items), !.count = 0]
  /\ asks' = asks \cup {[op |-> "mark", at |-> "sent", notes |-> Notes]}
  /\ jumbled' = (jumbled \/ Loading \/ Arriving)
  /\ UNCHANGED <<notes, order, toEmit, heard>>

MarkApplies(a) ==
  /\ a.op = "mark"
  /\ asks' = asks \ {a}
  /\ notes' = [n \in Notes |-> IF n \in a.notes /\ notes[n] = "unread" THEN "read" ELSE notes[n]]
  /\ jumbled' = (jumbled \/ Loading \/ (a.notes = Notes /\ (Arriving \/ bell.count > 0)))
  /\ UNCHANGED <<order, toEmit, heard, bell>>

AfterFailure_Nothing(a) == asks \ {a}

\* A request that failed: the bell loads again, to undo what it showed.
AfterFailure(a) == (asks \ {a}) \cup {[op |-> "load", at |-> "sent"]}

MarkFails(a) ==
  /\ a.op = "mark"
  /\ asks' = AfterFailure(a)
  /\ jumbled' = (jumbled \/ Loading \/ Cardinality(asks) > 1 \/ Arriving)
  /\ UNCHANGED <<notes, order, toEmit, heard, bell>>

AlertNext ==
  \/ \E n \in Notes : NotifyUser(n) \/ NoticeEmitted(n) \/ MarkRead(n)
  \/ BellHears \/ MarkAllRead
  \/ \E a \in asks :
       \/ ListRead(a) \/ CountRead(a) \/ BellLoaded(a) \/ BellMisses(a)
       \/ MarkApplies(a) \/ MarkFails(a)

AlertSpec == AlertInit /\ [][AlertNext]_alertVars
-----------------------------------------------------------------------------
AlertTypeOK ==
  /\ notes \in [Notes -> {"absent", "unread", "read"}]
  /\ Range(order) = {n \in Notes : notes[n] # "absent"}
  /\ Range(bell.items) \subseteq Notes /\ bell.count \in 0..(2 * Cardinality(Notes))

(* When nothing is under way, and every load came and overlapped no arrival and  *)
(* no mark, the badge counts what the server has as unread, and no entry shows   *)
(* as read that is not, although the bell marks before it asks and the server    *)
(* may refuse the mark (useNotifications.js:77-95).  A load that fails is not    *)
(* sent again (useNotifications.js:47-50): after it the bell may stay wrong.     *)
BellAgrees ==
  toEmit = {} /\ heard = << >> /\ asks = {} /\ ~jumbled =>
    /\ bell.count = Cardinality(Unread)
    /\ bell.read \cap Range(bell.items) = Range(bell.items) \ Unread
=============================================================================
