---------------------------- MODULE Lists_proofs ----------------------------
(***************************************************************************)
(* Proofs about what the pages show of what others change: the bell of     *)
(* Alerts, the copies of a pickup of Boards and the windows of Chat, for   *)
(* any notifications, any limit of the bell, any collectors, any number of *)
(* running handlers and any bounds.                                        *)
(***************************************************************************)
EXTENDS Alerts, Boards, Chat, Sequence_lemmas

-----------------------------------------------------------------------------
(* The bell.                                                                *)

Created == {n \in Notes : notes[n] # "absent"}

\* The notifications that have not reached the bell.
Coming == toEmit \cup Range(heard)

\* What the requests to mark that are under way will mark.
MarksAll == \E a \in asks : a.op = "mark" /\ a.notes = Notes

Marked == UNION {a.notes : a \in {b \in asks : b.op = "mark"}}

LoadSent == [op |-> "load", at |-> "sent"]

Listings(C) == [op : {"load"}, at : {"listed"}, items : Seq(C), read : SUBSET C]

LoadAnswers(C) == [op : {"load"}, at : {"answered"}, items : Seq(C), read : SUBSET C, count : Nat]

MarkAsks(C) == [op : {"mark"}, at : {"sent"}, notes : {Notes} \cup {{n} : n \in C}]

AsksOf(C) == {LoadSent} \cup Listings(C) \cup LoadAnswers(C) \cup MarkAsks(C)

Bells(C) == [items : Seq(C), read : SUBSET C, count : Nat]

AlertShape ==
  /\ notes \in [Notes -> {"absent", "unread", "read"}]
  /\ IsFiniteSet(Created) /\ IsFiniteSet(asks)
  /\ order \in Seq(Created)
  /\ toEmit \subseteq Created
  /\ heard \in Seq(Created) /\ Range(heard) \cap toEmit = {}
  /\ \A i, j \in DOMAIN heard : heard[i] = heard[j] => i = j
  /\ bell \in Bells(Created)
  /\ asks \subseteq AsksOf(Created)

\* A load that overlaps nothing has the server as it is.
LoadAlone ==
  Loading =>
    /\ Coming = {}
    /\ \A a \in asks : asks = {a}
    /\ \A a \in asks : a.at \in {"listed", "answered"} =>
         /\ a.items = FirstOnes(order)
         /\ a.read = {n \in Notes : notes[n] = "read"}
    /\ \A a \in asks : a.at = "answered" => a.count = Cardinality(Unread)

\* The entries the badge counts: the unread ones that came and are not being marked.
Counts(U) ==
  /\ U \subseteq Created /\ U \cap Coming = {}
  /\ bell.count = Cardinality(U)
  /\ \A n \in Range(bell.items) : n \in bell.read <=> n \notin U
  /\ ~MarksAll => U = Unread \ (Coming \cup Marked)

\* What has not come is unread, not shown and not being marked on its own.
ComingIsNew ==
  /\ Coming \subseteq Unread
  /\ Coming \cap bell.read = {} /\ Coming \cap Range(bell.items) = {}
  /\ \A a \in asks : a.op = "mark" /\ a.notes # Notes => a.notes \cap Coming = {}

BellCounts == ~Loading => ComingIsNew /\ \E U \in SUBSET Created : Counts(U)

BellInv == AlertShape /\ (~jumbled => LoadAlone /\ BellCounts)

LEMMA FirstOnesOf ==
  ASSUME NEW S, NEW l \in Seq(S)
  PROVE  FirstOnes(l) \in Seq(S) /\ Range(FirstOnes(l)) \subseteq Range(l)
<1> DEFINE n == IF Len(l) < BellLimit THEN Len(l) ELSE BellLimit
<1>1. Len(l) \in Nat /\ DOMAIN l = 1..Len(l) BY LenProperties
<1>2. n \in Int /\ n <= Len(l) BY <1>1, AlertAssumption
<1>3. FirstOnes(l) = SubSeq(l, 1, n) BY DEF FirstOnes
<1> HIDE DEF n
<1>4. \A i \in 1..n : l[i] \in Range(l) /\ l[i] \in S
  BY <1>1, <1>2, ElementOfSeq DEF Range
<1>5. SubSeq(l, 1, n) \in Seq(S) BY <1>2, <1>4, SubSeqProperties
<1>6. SubSeq(l, 1, n) \in Seq(Range(l)) BY <1>2, <1>4, SubSeqProperties
<1> QED BY <1>3, <1>5, <1>6, RangeOfSeq

LEMMA AskForms ==
  ASSUME NEW C, NEW a \in AsksOf(C)
  PROVE  /\ a.op \in {"load", "mark"}
         /\ a.op = "load" /\ a.at = "listed" => a \in Listings(C)
         /\ a.op = "load" /\ a.at = "answered" => a \in LoadAnswers(C)
         /\ a.op = "mark" => a \in MarkAsks(C)
BY DEF AsksOf, Listings, LoadAnswers, MarkAsks, LoadSent

LEMMA MoreCreated ==
  ASSUME NEW C, NEW D, C \subseteq D
  PROVE  AsksOf(C) \subseteq AsksOf(D) /\ Bells(C) \subseteq Bells(D)
<1>1. Seq(C) \subseteq Seq(D) BY SeqMonotonic
<1>2. Listings(C) \subseteq Listings(D) BY <1>1 DEF Listings
<1>3. LoadAnswers(C) \subseteq LoadAnswers(D) BY <1>1 DEF LoadAnswers
<1>4. MarkAsks(C) \subseteq MarkAsks(D) BY DEF MarkAsks
<1>5. Bells(C) \subseteq Bells(D) BY <1>1 DEF Bells
<1> QED BY <1>2, <1>3, <1>4, <1>5 DEF AsksOf

LEMMA BellShown ==
  ASSUME NEW C, NEW b \in Bells(C), NEW items \in Seq(C), NEW read \in SUBSET C, NEW count \in Nat
  PROVE  /\ [items |-> items, read |-> read, count |-> count] \in Bells(C)
         /\ [b EXCEPT !.items = items, !.count = count] \in Bells(C)
         /\ [b EXCEPT !.read = read, !.count = count] \in Bells(C)
BY DEF Bells

LEMMA ShapeStep ==
  ASSUME AlertShape, [AlertNext]_alertVars
  PROVE  AlertShape'
<1> USE DEF AlertShape
<1>1. CASE UNCHANGED alertVars BY <1>1 DEF alertVars, Created
<1>2. ASSUME NEW n \in Notes, NotifyUser(n) PROVE AlertShape'
  <2>1. /\ notes[n] = "absent" /\ notes' = [notes EXCEPT ![n] = "unread"]
        /\ order' = <<n>> \o order /\ toEmit' = toEmit \cup {n}
        /\ UNCHANGED <<heard, asks, bell>>
    BY <1>2 DEF NotifyUser
  <2>2. Created' = Created \cup {n} /\ n \notin Created BY <2>1 DEF Created
  <2>3. IsFiniteSet(Created') BY <2>2, FS_AddElement
  <2>4. Seq(Created) \subseteq Seq(Created') BY <2>2, SeqMonotonic
  <2>5. order' \in Seq(Created')
    <3>1. <<n>> \in Seq(Created') BY <2>2
    <3> QED BY <2>1, <2>4, <3>1, ConcatProperties
  <2>6. Range(heard) \subseteq Created BY InRange
  <2>7. heard' \in Seq(Created') /\ Range(heard') \cap toEmit' = {}
    BY <2>1, <2>2, <2>4, <2>6
  <2>8. bell' \in Bells(Created') /\ asks' \subseteq AsksOf(Created') BY <2>1, <2>2, MoreCreated
  <2> QED BY <2>1, <2>2, <2>3, <2>5, <2>7, <2>8
<1>3. ASSUME NEW n \in Notes, NoticeEmitted(n) PROVE AlertShape'
  <2>1. /\ n \in toEmit /\ toEmit' = toEmit \ {n} /\ heard' = Append(heard, n)
        /\ UNCHANGED <<notes, order, asks, bell>> /\ Created' = Created
    BY <1>3 DEF NoticeEmitted, Created
  <2>2. heard' \in Seq(Created') BY <2>1, AppendProperties
  <2>3. Range(heard') = Range(heard) \cup {n} BY <2>1, RangeOfAppend
  <2>4. \A i, j \in DOMAIN heard' : heard'[i] = heard'[j] => i = j
    <3>1. DOMAIN heard = 1..Len(heard) /\ Len(heard) \in Nat BY LenProperties
    <3>2. DOMAIN heard' = 1..(Len(heard) + 1)
      BY <2>1, <2>2, LenProperties, AppendProperties
    <3>3. heard'[Len(heard) + 1] = n BY <2>1, AppendProperties
    <3>4. \A i \in 1..Len(heard) : heard'[i] = heard[i] BY <2>1, AppendProperties
    <3>5. \A i \in DOMAIN heard : heard[i] # n BY <2>1 DEF Range
    <3> QED BY <3>1, <3>2, <3>3, <3>4, <3>5
  <2> QED BY <2>1, <2>2, <2>3, <2>4
<1>4. CASE BellHears
  <2> DEFINE h == Head(heard)
             first == FirstOnes(<<h>> \o bell.items)
  <2>1. /\ heard # << >> /\ heard' = Tail(heard)
        /\ bell' = [bell EXCEPT !.items = first, !.count = bell.count + 1]
        /\ UNCHANGED <<notes, order, toEmit, asks>> /\ Created' = Created
    BY <1>4 DEF BellHears, Created
  <2>2. /\ Tail(heard) \in Seq(Created) /\ h \in Created
        /\ DOMAIN Tail(heard) = 1..(Len(heard) - 1) /\ DOMAIN heard = 1..Len(heard)
        /\ Len(heard) \in Nat
        /\ \A i \in DOMAIN Tail(heard) : Tail(heard)[i] = heard[i + 1]
        /\ Range(heard) = Range(Tail(heard)) \cup {h}
    BY <2>1, RangeOfTail
  <2>3. bell.items \in Seq(Created) /\ bell.count + 1 \in Nat BY DEF Bells
  <2>4. first \in Seq(Created)
    <3>1. <<h>> \in Seq(Created) BY <2>2
    <3>2. <<h>> \o bell.items \in Seq(Created) BY <2>3, <3>1, ConcatProperties
    <3> QED BY <3>2, FirstOnesOf
  <2> HIDE DEF h, first
  <2>5. bell' \in Bells(Created') BY <2>1, <2>3, <2>4, BellShown
  <2>6. \A i, j \in DOMAIN heard' : heard'[i] = heard'[j] => i = j BY <2>1, <2>2
  <2> QED BY <2>1, <2>2, <2>5, <2>6
<1>5. ASSUME NEW a \in asks, NEW next \in AsksOf(Created), asks' = (asks \ {a}) \cup {next},
             UNCHANGED <<notes, order, toEmit, heard, bell>>
      PROVE  AlertShape'
  <2>1. IsFiniteSet(asks') BY <1>5, FS_RemoveElement, FS_AddElement
  <2> QED BY <1>5, <2>1 DEF Created
<1>6. ASSUME NEW a \in asks, ListRead(a) PROVE AlertShape'
  <2> DEFINE items == FirstOnes(order)
             read  == {n \in Notes : notes[n] = "read"}
             next  == [op |-> "load", at |-> "listed", items |-> items, read |-> read]
  <2>1. items \in Seq(Created) BY FirstOnesOf
  <2>2. read \in SUBSET Created BY DEF Created
  <2>3. asks' = (asks \ {a}) \cup {next} /\ UNCHANGED <<notes, order, toEmit, heard, bell>>
    BY <1>6 DEF ListRead
  <2> HIDE DEF items, read
  <2>4. next \in AsksOf(Created) BY <2>1, <2>2 DEF AsksOf, Listings
  <2> HIDE DEF next
  <2> QED BY <1>5, <2>3, <2>4
<1>7. ASSUME NEW a \in asks, CountRead(a) PROVE AlertShape'
  <2> DEFINE count == Cardinality(Unread)
             next  == [op |-> "load", at |-> "answered", items |-> a.items, read |-> a.read,
                       count |-> count]
  <2>1. count \in Nat
    <3>1. Unread \subseteq Created BY DEF Unread, Created
    <3>2. IsFiniteSet(Unread) BY <3>1, FS_Subset
    <3> QED BY <3>2, FS_CardinalityType
  <2>2. a \in Listings(Created) BY <1>7, AskForms DEF CountRead
  <2>3. asks' = (asks \ {a}) \cup {next} /\ UNCHANGED <<notes, order, toEmit, heard, bell>>
    BY <1>7 DEF CountRead
  <2> HIDE DEF count
  <2>4. next \in AsksOf(Created) BY <2>1, <2>2 DEF AsksOf, LoadAnswers, Listings
  <2> HIDE DEF next
  <2> QED BY <1>5, <2>3, <2>4
<1>8. ASSUME NEW a \in asks, BellLoaded(a) PROVE AlertShape'
  <2>1. a \in LoadAnswers(Created) BY <1>8, AskForms DEF BellLoaded
  <2>2. bell' \in Bells(Created) BY <1>8, <2>1 DEF BellLoaded, LoadAnswers, Bells
  <2>3. asks' = asks \ {a} /\ UNCHANGED <<notes, order, toEmit, heard>> BY <1>8 DEF BellLoaded
  <2> QED BY <2>2, <2>3, FS_RemoveElement DEF Created
<1>14. ASSUME NEW a \in asks, BellMisses(a) PROVE AlertShape'
  <2>1. asks' = asks \ {a} /\ UNCHANGED <<notes, order, toEmit, heard, bell>> BY <1>14 DEF BellMisses
  <2> QED BY <2>1, FS_RemoveElement DEF Created
<1>9. ASSUME NEW ns \in {Notes} \cup {{n} : n \in Created}, NEW read \in SUBSET Created, NEW count \in Nat,
             bell' = [bell EXCEPT !.read = read, !.count = count],
             asks' = asks \cup {[op |-> "mark", at |-> "sent", notes |-> ns]},
             UNCHANGED <<notes, order, toEmit, heard>>
      PROVE  AlertShape'
  <2> DEFINE next == [op |-> "mark", at |-> "sent", notes |-> ns]
  <2>1. next \in AsksOf(Created) BY DEF AsksOf, MarkAsks
  <2>2. bell' \in Bells(Created) BY <1>9, BellShown
  <2>3. asks' = asks \cup {next} BY <1>9
  <2> HIDE DEF next
  <2>4. IsFiniteSet(asks') BY <2>3, FS_AddElement
  <2> QED BY <1>9, <2>1, <2>2, <2>3, <2>4 DEF Created
<1>10. ASSUME NEW n \in Notes, MarkRead(n) PROVE AlertShape'
  <2>1. bell.items \in Seq(Created) /\ bell.read \subseteq Created /\ bell.count \in Nat BY DEF Bells
  <2>2. n \in Created BY <1>10, <2>1, InRange DEF MarkRead
  <2> DEFINE count == IF bell.count = 0 THEN 0 ELSE bell.count - 1
             read  == bell.read \cup {n}
  <2>3. count \in Nat /\ read \in SUBSET Created BY <2>1, <2>2
  <2>4. /\ bell' = [bell EXCEPT !.read = read, !.count = count]
        /\ asks' = asks \cup {[op |-> "mark", at |-> "sent", notes |-> {n}]}
        /\ UNCHANGED <<notes, order, toEmit, heard>>
    BY <1>10 DEF MarkRead, Marks
  <2> HIDE DEF count, read
  <2> QED BY <1>9, <2>2, <2>3, <2>4
<1>11. CASE MarkAllRead
  <2>1. bell.items \in Seq(Created) /\ bell.read \subseteq Created BY DEF Bells
  <2> DEFINE read == bell.read \cup Range(bell.items)
  <2>2. read \in SUBSET Created BY <2>1, InRange
  <2>3. /\ bell' = [bell EXCEPT !.read = read, !.count = 0]
        /\ asks' = asks \cup {[op |-> "mark", at |-> "sent", notes |-> Notes]}
        /\ UNCHANGED <<notes, order, toEmit, heard>>
    BY <1>11 DEF MarkAllRead
  <2> HIDE DEF read
  <2> QED BY <1>9, <2>2, <2>3
<1>12. ASSUME NEW a \in asks, MarkApplies(a) PROVE AlertShape'
  <2>1. /\ notes' = [n \in Notes |-> IF n \in a.notes /\ notes[n] = "unread" THEN "read" ELSE notes[n]]
        /\ asks' = asks \ {a} /\ UNCHANGED <<order, toEmit, heard, bell>>
    BY <1>12 DEF MarkApplies
  <2>2. notes' \in [Notes -> {"absent", "unread", "read"}] BY <2>1
  <2>3. Created' = Created BY <2>1 DEF Created
  <2>4. IsFiniteSet(asks') BY <2>1, FS_RemoveElement
  <2> QED BY <2>1, <2>2, <2>3, <2>4
<1>13. ASSUME NEW a \in asks, MarkFails(a) PROVE AlertShape'
  <2>1. LoadSent \in AsksOf(Created) BY DEF AsksOf
  <2>2. asks' = (asks \ {a}) \cup {LoadSent} /\ UNCHANGED <<notes, order, toEmit, heard, bell>>
    BY <1>13 DEF MarkFails, AfterFailure, LoadSent
  <2> QED BY <1>5, <2>1, <2>2
<1> HIDE DEF AlertShape
<1> QED BY <1>1, <1>2, <1>3, <1>4, <1>6, <1>7, <1>8, <1>10, <1>11, <1>12, <1>13, <1>14 DEF AlertNext

\* A step after which nothing overlapped keeps the two.
LEMMA BellStep ==
  ASSUME AlertShape, LoadAlone, BellCounts, [AlertNext]_alertVars, ~jumbled'
  PROVE  LoadAlone' /\ BellCounts'
<1>0. AlertShape' BY ShapeStep
<1>1. CASE UNCHANGED alertVars
  BY <1>1 DEF alertVars, LoadAlone, BellCounts, ComingIsNew, Counts, Created, Coming, MarksAll, Marked,
              Loading, Unread
<1>2. /\ heard \in Seq(Created) /\ toEmit \subseteq Created /\ Range(heard) \subseteq Created
      /\ bell.items \in Seq(Created) /\ bell.read \subseteq Created /\ bell.count \in Nat
      /\ Range(bell.items) \subseteq Created
      /\ \A a \in asks : a.op = "mark" => a \in MarkAsks(Created)
      /\ notes \in [Notes -> {"absent", "unread", "read"}]
  BY InRange, AskForms DEF AlertShape, Bells
<1>3. ASSUME ~Loading PROVE ComingIsNew /\ \E U \in SUBSET Created : Counts(U) /\ IsFiniteSet(U)
  BY <1>3, FS_Subset DEF BellCounts, AlertShape
<1>4. ASSUME NEW n \in Notes, NotifyUser(n) PROVE LoadAlone' /\ BellCounts'
  <2>1. /\ notes[n] = "absent" /\ notes' = [notes EXCEPT ![n] = "unread"]
        /\ toEmit' = toEmit \cup {n} /\ ~Loading
        /\ UNCHANGED <<heard, asks, bell>>
    BY <1>4 DEF NotifyUser
  <2>2. Created' = Created \cup {n} /\ n \notin Created /\ Unread' = Unread \cup {n}
    BY <1>2, <2>1 DEF Created, Unread
  <2>3. Coming' = Coming \cup {n} BY <2>1 DEF Coming
  <2>4. ~Loading' /\ (MarksAll' <=> MarksAll) /\ Marked' = Marked
    BY <2>1 DEF Loading, MarksAll, Marked
  <2>5. PICK U \in SUBSET Created : Counts(U) BY <1>3, <2>1
  <2>6. \A a \in asks : a.op = "mark" /\ a.notes # Notes => a.notes \subseteq Created
    BY <1>2 DEF MarkAsks
  <2>7. ComingIsNew' BY <1>2, <1>3, <2>1, <2>2, <2>3, <2>6 DEF ComingIsNew
  <2>8. Counts(U)' BY <1>2, <2>1, <2>2, <2>3, <2>4, <2>5 DEF Counts
  <2> QED BY <2>2, <2>4, <2>5, <2>7, <2>8 DEF LoadAlone, BellCounts
<1>5. ASSUME NEW n \in Notes, NoticeEmitted(n) PROVE LoadAlone' /\ BellCounts'
  <2>1. /\ n \in toEmit /\ toEmit' = toEmit \ {n} /\ heard' = Append(heard, n)
        /\ UNCHANGED <<notes, order, asks, bell>>
    BY <1>5 DEF NoticeEmitted
  <2>2. Range(heard') = Range(heard) \cup {n} BY <1>2, <2>1, RangeOfAppend
  <2>3. Coming' = Coming /\ Coming # {} BY <2>1, <2>2 DEF Coming
  <2>4. ~Loading /\ ~Loading' BY <2>1, <2>3 DEF LoadAlone, Loading
  <2>5. PICK U \in SUBSET Created : Counts(U) BY <1>3, <2>4
  <2>6. Created' = Created /\ Unread' = Unread /\ MarksAll' = MarksAll /\ Marked' = Marked
    BY <2>1 DEF Created, Unread, MarksAll, Marked
  <2>7. ComingIsNew' BY <1>3, <2>1, <2>3, <2>4, <2>6 DEF ComingIsNew
  <2>8. Counts(U)' BY <2>1, <2>3, <2>5, <2>6 DEF Counts
  <2> QED BY <2>4, <2>5, <2>6, <2>7, <2>8 DEF LoadAlone, BellCounts
<1>6. CASE BellHears
  <2> DEFINE h == Head(heard)
             first == FirstOnes(<<h>> \o bell.items)
  <2>1. /\ heard # << >> /\ heard' = Tail(heard) /\ ~Loading
        /\ bell' = [bell EXCEPT !.items = first, !.count = bell.count + 1]
        /\ UNCHANGED <<notes, order, toEmit, asks>>
    BY <1>6 DEF BellHears
  <2>2. /\ h = heard[1] /\ h \in Created /\ 1 \in DOMAIN heard
        /\ Range(heard) = Range(heard') \cup {h}
        /\ \A i \in DOMAIN heard' : i + 1 \in DOMAIN heard /\ heard'[i] = heard[i + 1] /\ i + 1 # 1
    BY <1>2, <2>1, RangeOfTail
  <2>3. h \notin Range(heard') BY <2>2 DEF AlertShape, Range
  <2>4. h \notin toEmit /\ h \in Coming BY <2>2 DEF AlertShape, Coming
  <2>5. Coming' = Coming \ {h} BY <2>1, <2>2, <2>3, <2>4 DEF Coming
  <2>6. Range(first) \subseteq Range(bell.items) \cup {h}
    <3> DEFINE one == <<h>>
               all == one \o bell.items
    <3>1. one \in Seq(Created) /\ Range(one) = {h} BY <2>2 DEF Range
    <3>2. first = FirstOnes(all) OBVIOUS
    <3> HIDE DEF one, h, first
    <3>3. all \in Seq(Created) BY <1>2, <3>1, ConcatProperties
    <3>4. Range(all) = Range(one) \cup Range(bell.items) BY <1>2, <3>1, RangeConcatenation
    <3> HIDE DEF all
    <3> QED BY <3>1, <3>2, <3>3, <3>4, FirstOnesOf
  <2> HIDE DEF h, first
  <2>7. bell'.items = first /\ bell'.read = bell.read /\ bell'.count = bell.count + 1
    BY <2>1 DEF AlertShape, Bells
  <2>8. PICK U \in SUBSET Created : Counts(U) /\ IsFiniteSet(U) BY <1>3, <2>1
  <2>9. Created' = Created /\ Unread' = Unread /\ MarksAll' = MarksAll /\ Marked' = Marked /\ ~Loading'
    BY <2>1 DEF Created, Unread, MarksAll, Marked, Loading
  <2>10. ComingIsNew BY <1>3, <2>1
  <2>11. PICK V \in SUBSET Created : V = U \cup {h} BY <2>2
  <2>12. h \notin U /\ Cardinality(V) = Cardinality(U) + 1
    BY <2>4, <2>8, <2>11, FS_AddElement DEF Counts
  <2>13. ComingIsNew' BY <2>1, <2>4, <2>5, <2>6, <2>7, <2>9, <2>10 DEF ComingIsNew
  <2>14. V \in SUBSET Created' /\ V \cap Coming' = {}
    BY <2>2, <2>5, <2>8, <2>9, <2>11 DEF Counts
  <2>15. bell'.count = Cardinality(V) BY <2>7, <2>8, <2>12 DEF Counts
  <2>16. \A n \in Range(bell'.items) : n \in bell'.read <=> n \notin V
    BY <2>4, <2>6, <2>7, <2>8, <2>10, <2>11 DEF Counts, ComingIsNew
  <2>17. ~MarksAll => h \notin Marked BY <2>4, <2>10 DEF ComingIsNew, Marked, MarksAll
  <2>18. ~MarksAll' => V = Unread' \ (Coming' \cup Marked')
    BY <2>4, <2>5, <2>8, <2>9, <2>10, <2>17, <2>11 DEF Counts, ComingIsNew
  <2>19. Counts(V)' BY <2>9, <2>14, <2>15, <2>16, <2>18 DEF Counts
  <2> QED BY <2>9, <2>13, <2>14, <2>19 DEF LoadAlone, BellCounts
<1>7. ASSUME NEW a \in asks, ListRead(a) PROVE LoadAlone' /\ BellCounts'
  <2> DEFINE items == FirstOnes(order)
             read  == {n \in Notes : notes[n] = "read"}
             next  == [op |-> "load", at |-> "listed", items |-> items, read |-> read]
  <2>1. /\ asks' = (asks \ {a}) \cup {next} /\ UNCHANGED <<notes, order, toEmit, heard, bell>>
        /\ Loading
    BY <1>7 DEF ListRead, Loading
  <2>2. asks' = {next} /\ Coming = {} BY <2>1 DEF LoadAlone
  <2>3. items = FirstOnes(order') /\ read = {n \in Notes : notes'[n] = "read"} BY <2>1
  <2> HIDE DEF items, read
  <2>4. next.op = "load" /\ next.at = "listed" /\ next.items = items /\ next.read = read OBVIOUS
  <2> HIDE DEF next
  <2>5. Loading' /\ Coming' = {} BY <2>1, <2>2, <2>4 DEF Loading, Coming
  <2>6. LoadAlone' BY <2>2, <2>3, <2>4, <2>5 DEF LoadAlone
  <2> QED BY <2>5, <2>6 DEF BellCounts
<1>8. ASSUME NEW a \in asks, CountRead(a) PROVE LoadAlone' /\ BellCounts'
  <2> DEFINE count == Cardinality(Unread)
             next  == [op |-> "load", at |-> "answered", items |-> a.items, read |-> a.read,
                       count |-> count]
  <2>1. /\ asks' = (asks \ {a}) \cup {next} /\ UNCHANGED <<notes, order, toEmit, heard, bell>>
        /\ Loading /\ a.at = "listed"
    BY <1>8 DEF CountRead, Loading
  <2>2. asks' = {next} /\ Coming = {} BY <2>1 DEF LoadAlone
  <2>3. /\ count = Cardinality(Unread') /\ FirstOnes(order') = FirstOnes(order)
        /\ {n \in Notes : notes'[n] = "read"} = {n \in Notes : notes[n] = "read"}
    BY <2>1 DEF Unread
  <2>4. a.items = FirstOnes(order) /\ a.read = {n \in Notes : notes[n] = "read"}
    BY <2>1 DEF LoadAlone
  <2> HIDE DEF count
  <2>5. /\ next.op = "load" /\ next.at = "answered" /\ next.items = a.items /\ next.read = a.read
        /\ next.count = count
    OBVIOUS
  <2> HIDE DEF next
  <2>6. Loading' /\ Coming' = {} BY <2>1, <2>2, <2>5 DEF Loading, Coming
  <2>7. LoadAlone' BY <2>2, <2>3, <2>4, <2>5, <2>6 DEF LoadAlone
  <2> QED BY <2>6, <2>7 DEF BellCounts
<1>9. ASSUME NEW a \in asks, BellLoaded(a) PROVE LoadAlone' /\ BellCounts'
  <2>1. /\ asks' = asks \ {a} /\ UNCHANGED <<notes, order, toEmit, heard>>
        /\ bell' = [items |-> a.items, read |-> a.read, count |-> a.count]
        /\ Loading /\ a.at = "answered"
    BY <1>9 DEF BellLoaded, Loading
  <2>2. /\ asks' = {} /\ Coming = {} /\ a.items = FirstOnes(order)
        /\ a.read = {n \in Notes : notes[n] = "read"} /\ a.count = Cardinality(Unread)
    BY <2>1 DEF LoadAlone
  <2>3. Range(a.items) \subseteq Created
    BY <2>2, FirstOnesOf, InRange DEF AlertShape
  <2>4. Coming' = {} /\ ~Loading' /\ Created' = Created /\ Unread' = Unread /\ ~MarksAll' /\ Marked' = {}
    BY <2>1, <2>2 DEF Coming, Loading, Created, Unread, MarksAll, Marked
  <2>5. ComingIsNew' BY <2>2, <2>4 DEF ComingIsNew
  <2>6. Unread \subseteq Created BY DEF Unread, Created
  <2>7. \A n \in Range(a.items) : n \in a.read <=> n \notin Unread
    BY <1>2, <2>2, <2>3 DEF Created, Unread
  <2>8. Counts(Unread)' BY <2>1, <2>2, <2>4, <2>6, <2>7 DEF Counts
  <2> QED BY <2>4, <2>5, <2>6, <2>8 DEF LoadAlone, BellCounts
<1>10. ASSUME NEW n \in Notes, MarkRead(n) PROVE LoadAlone' /\ BellCounts'
  <2> DEFINE next  == [op |-> "mark", at |-> "sent", notes |-> {n}]
             count == IF bell.count = 0 THEN 0 ELSE bell.count - 1
             read  == bell.read \cup {n}
  <2>1. /\ n \in Range(bell.items) /\ n \notin bell.read /\ ~Loading
        /\ asks' = asks \cup {next} /\ UNCHANGED <<notes, order, toEmit, heard>>
        /\ bell' = [bell EXCEPT !.read = read, !.count = count]
    BY <1>10 DEF MarkRead, Marks
  <2>2. next.op = "mark" /\ next.notes = {n} OBVIOUS
  <2>3. bell'.items = bell.items /\ bell'.read = read /\ bell'.count = count
    BY <2>1 DEF AlertShape, Bells
  <2> HIDE DEF next
  <2>4. Coming' = Coming /\ ~Loading' /\ Created' = Created /\ Unread' = Unread
    BY <2>1, <2>2 DEF Coming, Loading, Created, Unread
  <2>5. (MarksAll => MarksAll') /\ Marked' = Marked \cup {n}
    BY <2>1, <2>2 DEF MarksAll, Marked
  <2>6. PICK U \in SUBSET Created : Counts(U) /\ IsFiniteSet(U) BY <1>3, <2>1
  <2>7. ComingIsNew BY <1>3, <2>1
  <2> DEFINE V == U \ {n}
  <2>8. n \in U /\ n \notin Coming BY <2>1, <2>6 DEF Counts
  <2>9. Cardinality(V) = Cardinality(U) - 1 /\ Cardinality(V) \in Nat /\ Cardinality(U) = bell.count
    BY <2>6, <2>8, FS_RemoveElement, FS_CardinalityType DEF Counts
  <2>10. Cardinality(V) = count BY <1>2, <2>9
  <2>11. ComingIsNew' BY <2>1, <2>2, <2>3, <2>4, <2>7, <2>8 DEF ComingIsNew
  <2>12. \A m \in Range(bell'.items) : m \in bell'.read <=> m \notin V
    BY <2>3, <2>6 DEF Counts
  <2>13. ~MarksAll' => V = Unread' \ (Coming' \cup Marked') BY <2>4, <2>5, <2>6 DEF Counts
  <2>14. V \in SUBSET Created' /\ V \cap Coming' = {} BY <2>4, <2>6 DEF Counts
  <2> HIDE DEF V, count, read
  <2>15. Counts(V)' BY <2>3, <2>4, <2>10, <2>12, <2>13, <2>14 DEF Counts
  <2> QED BY <2>4, <2>11, <2>14, <2>15 DEF LoadAlone, BellCounts
<1>11. CASE MarkAllRead
  <2> DEFINE next == [op |-> "mark", at |-> "sent", notes |-> Notes]
             read == bell.read \cup Range(bell.items)
  <2>1. /\ ~Loading /\ ~Arriving
        /\ asks' = asks \cup {next} /\ UNCHANGED <<notes, order, toEmit, heard>>
        /\ bell' = [bell EXCEPT !.read = read, !.count = 0]
    BY <1>11 DEF MarkAllRead
  <2>2. next.op = "mark" /\ next.notes = Notes OBVIOUS
  <2>3. bell'.items = bell.items /\ bell'.read = read /\ bell'.count = 0
    BY <2>1 DEF AlertShape, Bells
  <2> HIDE DEF next
  <2>4. Coming = {} /\ Coming' = {} BY <2>1 DEF Coming, Arriving, Range
  <2>5. ~Loading' /\ MarksAll' BY <2>1, <2>2 DEF Loading, MarksAll
  <2>6. ComingIsNew' BY <2>4 DEF ComingIsNew
  <2>7. Counts({})' BY <2>3, <2>4, <2>5, FS_EmptySet DEF Counts
  <2> QED BY <2>5, <2>6, <2>7 DEF LoadAlone, BellCounts
<1>12. ASSUME NEW a \in asks, MarkApplies(a) PROVE LoadAlone' /\ BellCounts'
  <2>1. /\ ~Loading /\ a.op = "mark" /\ (a.notes = Notes => ~Arriving /\ ~(bell.count > 0))
        /\ notes' = [n \in Notes |-> IF n \in a.notes /\ notes[n] = "unread" THEN "read" ELSE notes[n]]
        /\ asks' = asks \ {a} /\ UNCHANGED <<order, toEmit, heard, bell>>
    BY <1>12 DEF MarkApplies
  <2>2. a \in MarkAsks(Created) BY <1>2, <2>1
  <2>3. Created' = Created /\ Unread' = Unread \ a.notes
    BY <1>2, <2>1 DEF Created, Unread
  <2>4. Coming' = Coming /\ ~Loading' BY <2>1 DEF Coming, Loading
  <2>5. PICK U \in SUBSET Created : Counts(U) /\ IsFiniteSet(U) BY <1>3, <2>1
  <2>6. ComingIsNew BY <1>3, <2>1
  <2>7. CASE a.notes # Notes
    <3>1. MarksAll' <=> MarksAll BY <2>1, <2>7 DEF MarksAll
    <3>2. Marked = Marked' \cup a.notes BY <2>1 DEF Marked
    <3>3. a.notes \cap Coming = {} BY <2>1, <2>6, <2>7 DEF ComingIsNew
    <3>4. ComingIsNew' BY <2>1, <2>3, <2>4, <2>6, <3>3 DEF ComingIsNew
    <3>5. ~MarksAll' => U = Unread' \ (Coming' \cup Marked')
      BY <2>3, <2>4, <2>5, <3>1, <3>2 DEF Counts
    <3>6. Counts(U)' BY <2>1, <2>3, <2>4, <2>5, <3>5 DEF Counts
    <3> QED BY <2>3, <2>4, <3>4, <3>6 DEF LoadAlone, BellCounts
  <2>8. CASE a.notes = Notes
    <3>1. Coming = {} BY <2>1, <2>8 DEF Coming, Arriving, Range
    <3>2. bell.count = 0 BY <1>2, <2>1, <2>8
    <3>3. U = {} BY <2>5, <3>2, FS_EmptySet DEF Counts
    <3>4. Unread' = {} BY <2>3, <2>8 DEF Unread
    <3>5. ComingIsNew' BY <2>4, <3>1 DEF ComingIsNew
    <3>6. Counts({})' BY <2>1, <2>3, <2>4, <2>5, <3>1, <3>3, <3>4 DEF Counts
    <3> QED BY <2>4, <3>5, <3>6 DEF LoadAlone, BellCounts
  <2> QED BY <2>7, <2>8
<1>13. ASSUME NEW a \in asks, MarkFails(a) PROVE LoadAlone' /\ BellCounts'
  <2>1. /\ ~(Cardinality(asks) > 1) /\ ~Arriving
        /\ asks' = (asks \ {a}) \cup {LoadSent} /\ UNCHANGED <<toEmit, heard>>
    BY <1>13 DEF MarkFails, AfterFailure, LoadSent
  <2>2. asks \ {a} = {}
    <3>1. IsFiniteSet(asks) /\ Cardinality(asks) \in Nat BY FS_CardinalityType DEF AlertShape
    <3>2. IsFiniteSet(asks \ {a}) /\ Cardinality(asks \ {a}) = Cardinality(asks) - 1
      BY <3>1, FS_RemoveElement
    <3>3. Cardinality(asks \ {a}) = 0 BY <2>1, <3>1, <3>2, FS_CardinalityType
    <3> QED BY <3>2, <3>3, FS_EmptySet
  <2>3. Coming' = {} BY <2>1 DEF Coming, Arriving, Range
  <2>4. asks' = {LoadSent} BY <2>1, <2>2
  <2>5. LoadSent.op = "load" /\ LoadSent.at = "sent" BY DEF LoadSent
  <2>6. Loading' BY <2>4, <2>5 DEF Loading
  <2>7. LoadAlone' BY <2>3, <2>4, <2>5 DEF LoadAlone
  <2> QED BY <2>6, <2>7 DEF BellCounts
<1> QED
  BY <1>1, <1>4, <1>5, <1>6, <1>7, <1>8, <1>9, <1>10, <1>11, <1>12, <1>13 DEF AlertNext, BellMisses

LEMMA AlertStep ==
  ASSUME BellInv, [AlertNext]_alertVars
  PROVE  BellInv'
<1>1. AlertShape' BY ShapeStep DEF BellInv
<1>2. ~jumbled' => ~jumbled
  BY DEF AlertNext, NotifyUser, NoticeEmitted, BellHears, ListRead, CountRead, BellLoaded, BellMisses,
         Marks, MarkRead, MarkAllRead, MarkApplies, MarkFails, alertVars
<1> QED BY <1>1, <1>2, BellStep DEF BellInv

LEMMA AlertStart == AlertInit => BellInv
<1> SUFFICES ASSUME AlertInit PROVE BellInv OBVIOUS
<1>1. Created = {} /\ toEmit = {} /\ heard = << >> /\ order = << >> BY DEF AlertInit, Created
<1>2. asks = {LoadSent} BY DEF AlertInit, LoadSent
<1>3. bell \in Bells(Created) BY <1>1 DEF AlertInit, Bells
<1>4. IsFiniteSet(Created) /\ IsFiniteSet(asks) BY <1>1, <1>2, FS_EmptySet, FS_Singleton
<1>5. AlertShape BY <1>1, <1>2, <1>3, <1>4 DEF AlertShape, AlertInit, AsksOf, Range
<1>6. LoadSent.op = "load" /\ LoadSent.at = "sent" BY DEF LoadSent
<1>7. Coming = {} /\ Loading BY <1>1, <1>2, <1>6 DEF Coming, Range, Loading
<1>8. LoadAlone /\ BellCounts BY <1>2, <1>6, <1>7 DEF LoadAlone, BellCounts
<1> QED BY <1>5, <1>8 DEF BellInv

LEMMA BellIsRight == BellInv => BellAgrees
<1> SUFFICES ASSUME BellInv, toEmit = {}, heard = << >>, asks = {}, ~jumbled
             PROVE  /\ bell.count = Cardinality(Unread)
                    /\ bell.read \cap Range(bell.items) = Range(bell.items) \ Unread
  BY DEF BellAgrees
<1>1. ~Loading /\ ~MarksAll /\ Marked = {} /\ Coming = {}
  BY DEF Loading, MarksAll, Marked, Coming, Range
<1>2. PICK U \in SUBSET Created : Counts(U) BY <1>1 DEF BellInv, BellCounts
<1>3. U = Unread BY <1>1, <1>2 DEF Counts
<1> QED BY <1>2, <1>3 DEF Counts

\* The entries and the count of the bell keep their shape, and so do its requests.
THEOREM BellShape == AlertSpec => []AlertShape
<1>1. BellInv => AlertShape BY DEF BellInv
<1> QED BY <1>1, AlertStart, AlertStep, PTL DEF AlertSpec

\* When nothing is under way, no load has failed and none was overlapped, the
\* badge counts what is unread, although the bell marks before it asks and the
\* server may refuse the mark (useNotifications.js:77-95), for any notifications
\* and any length of the list.
THEOREM BellIsRightAlways == AlertSpec => []BellAgrees
BY AlertStart, AlertStep, BellIsRight, PTL DEF AlertSpec

\* What can still add to the badge: the notifications there may be, and those
\* that have not reached it.
Expected == (Notes \ Created) \cup Coming

\* The list of the server is complete, and the badge counts a notification once
\* by a load and once by its arrival.
AlertLimits ==
  /\ Range(order) = Created
  /\ \A a \in asks : a.op = "load" /\ a.at = "answered" => a.count <= Cardinality(Notes)
  /\ bell.count + Cardinality(Expected) <= 2 * Cardinality(Notes)

LEMMA ExpectedCounted ==
  ASSUME AlertShape
  PROVE  /\ IsFiniteSet(Expected) /\ Cardinality(Expected) \in 0..Cardinality(Notes)
         /\ Cardinality(Notes) \in Nat /\ bell.count \in Nat
<1>1. Range(heard) \subseteq Created /\ Created \subseteq Notes BY InRange DEF AlertShape, Created
<1>2. Expected \subseteq Notes BY <1>1 DEF Expected, Coming, AlertShape
<1>3. IsFiniteSet(Notes) BY NotesAssumption
<1>4. IsFiniteSet(Expected) /\ Cardinality(Expected) <= Cardinality(Notes) BY <1>2, <1>3, FS_Subset
<1>5. Cardinality(Expected) \in Nat /\ Cardinality(Notes) \in Nat BY <1>3, <1>4, FS_CardinalityType
<1>6. bell.count \in Nat BY DEF AlertShape, Bells
<1> QED BY <1>4, <1>5, <1>6

\* A step that leaves the badge and what may still come.
LEMMA LimitsStay ==
  ASSUME AlertLimits, UNCHANGED <<notes, order, toEmit, heard>>, bell'.count = bell.count,
         \A a \in asks' : a.op = "load" /\ a.at = "answered" => a.count <= Cardinality(Notes)
  PROVE  AlertLimits'
BY DEF AlertLimits, Expected, Coming, Created

LEMMA LimitsStep ==
  ASSUME AlertShape, AlertLimits, [AlertNext]_alertVars
  PROVE  AlertLimits'
<1>0. AlertShape' BY ShapeStep
<1>1. CASE UNCHANGED alertVars BY <1>1, LimitsStay DEF alertVars, AlertLimits
<1>2. ASSUME NEW n \in Notes, NotifyUser(n) PROVE AlertLimits'
  <2>1. /\ notes[n] = "absent" /\ notes' = [notes EXCEPT ![n] = "unread"]
        /\ order' = <<n>> \o order /\ toEmit' = toEmit \cup {n}
        /\ UNCHANGED <<heard, asks, bell>>
    BY <1>2 DEF NotifyUser
  <2>2. Created' = Created \cup {n} /\ n \notin Created BY <2>1 DEF Created, AlertShape
  <2>3. Expected' = Expected BY <2>1, <2>2 DEF Expected, Coming
  <2>4. Range(order') = Range(order) \cup {n}
    <3>1. Seq(Created) \subseteq Seq(Notes) BY SeqMonotonic DEF Created
    <3>2. order \in Seq(Notes) BY <3>1 DEF AlertShape
    <3> QED BY <2>1, <3>2, RangeOfPrepended
  <2> QED BY <2>1, <2>2, <2>3, <2>4 DEF AlertLimits
<1>3. ASSUME NEW n \in Notes, NoticeEmitted(n) PROVE AlertLimits'
  <2>1. /\ n \in toEmit /\ toEmit' = toEmit \ {n} /\ heard' = Append(heard, n)
        /\ UNCHANGED <<notes, order, asks, bell>> /\ Created' = Created
    BY <1>3 DEF NoticeEmitted, Created
  <2>2. Range(heard') = Range(heard) \cup {n} BY <2>1, RangeOfAppend DEF AlertShape
  <2>3. Expected' = Expected BY <2>1, <2>2 DEF Expected, Coming
  <2> QED BY <2>1, <2>3 DEF AlertLimits
<1>4. CASE BellHears
  <2> DEFINE h == Head(heard)
             first == FirstOnes(<<h>> \o bell.items)
  <2>1. /\ heard # << >> /\ heard' = Tail(heard)
        /\ bell' = [bell EXCEPT !.items = first, !.count = bell.count + 1]
        /\ UNCHANGED <<notes, order, toEmit, asks>> /\ Created' = Created
    BY <1>4 DEF BellHears, Created
  <2>2. /\ h \in Created /\ h = heard[1]
        /\ DOMAIN Tail(heard) = 1..(Len(heard) - 1) /\ DOMAIN heard = 1..Len(heard)
        /\ Len(heard) \in Nat \ {0}
        /\ \A i \in DOMAIN Tail(heard) : Tail(heard)[i] = heard[i + 1]
        /\ Range(heard) = Range(Tail(heard)) \cup {h}
    BY <2>1, RangeOfTail DEF AlertShape
  <2>3. h \notin Range(Tail(heard))
    <3> SUFFICES ASSUME NEW i \in DOMAIN Tail(heard), Tail(heard)[i] = h PROVE FALSE BY DEF Range
    <3>1. heard[i + 1] = heard[1] /\ i + 1 \in DOMAIN heard /\ 1 \in DOMAIN heard /\ i + 1 # 1 BY <2>2
    <3> QED BY <3>1 DEF AlertShape
  <2>4. bell'.count = bell.count + 1
    <3> HIDE DEF first
    <3>1. bell \in [items : Seq(Created), read : SUBSET Created, count : Nat] BY DEF AlertShape, Bells
    <3> QED BY <2>1, <3>1
  <2> HIDE DEF h, first
  <2>5. h \in Range(heard) /\ h \notin toEmit BY <2>2 DEF AlertShape
  <2>6. Expected' = Expected \ {h} /\ h \in Expected BY <2>1, <2>2, <2>3, <2>5 DEF Expected, Coming
  <2>7. IsFiniteSet(Expected) /\ Cardinality(Expected) \in Nat /\ bell.count \in Nat
        /\ Cardinality(Notes) \in Nat
    BY ExpectedCounted
  <2>8. Cardinality(Expected') = Cardinality(Expected) - 1 BY <2>6, <2>7, FS_RemoveElement
  <2>9. bell'.count + Cardinality(Expected') <= 2 * Cardinality(Notes)
    BY <2>4, <2>7, <2>8 DEF AlertLimits
  <2> QED BY <2>1, <2>9 DEF AlertLimits
<1>5. ASSUME NEW a \in asks, ListRead(a) PROVE AlertLimits'
  <2> DEFINE items == FirstOnes(order)
             read  == {n \in Notes : notes[n] = "read"}
             next  == [op |-> "load", at |-> "listed", items |-> items, read |-> read]
  <2>1. asks' = (asks \ {a}) \cup {next} /\ UNCHANGED <<notes, order, toEmit, heard, bell>>
    BY <1>5 DEF ListRead
  <2>2. next.at = "listed" OBVIOUS
  <2> HIDE DEF next
  <2> QED BY <2>1, <2>2, LimitsStay DEF AlertLimits
<1>6. ASSUME NEW a \in asks, CountRead(a) PROVE AlertLimits'
  <2> DEFINE count == Cardinality(Unread)
             next  == [op |-> "load", at |-> "answered", items |-> a.items, read |-> a.read,
                       count |-> count]
  <2>1. count <= Cardinality(Notes) BY NotesAssumption, FS_Subset DEF Unread
  <2>2. asks' = (asks \ {a}) \cup {next} /\ UNCHANGED <<notes, order, toEmit, heard, bell>>
    BY <1>6 DEF CountRead
  <2>3. next.count = count OBVIOUS
  <2> HIDE DEF next, count
  <2> QED BY <2>1, <2>2, <2>3, LimitsStay DEF AlertLimits
<1>7. ASSUME NEW a \in asks, BellLoaded(a) PROVE AlertLimits'
  <2>1. /\ a.op = "load" /\ a.at = "answered" /\ bell'.count = a.count /\ asks' = asks \ {a}
        /\ UNCHANGED <<notes, order, toEmit, heard>>
    BY <1>7 DEF BellLoaded
  <2>2. a.count <= Cardinality(Notes) BY <2>1 DEF AlertLimits
  <2>3. Cardinality(Expected') \in 0..Cardinality(Notes) /\ Cardinality(Notes) \in Nat /\ bell'.count \in Nat
    <3>1. Expected' = Expected BY <2>1 DEF Expected, Coming, Created
    <3>2. bell'.count \in Nat BY <1>0 DEF AlertShape, Bells
    <3> QED BY <3>1, <3>2, ExpectedCounted
  <2>4. bell'.count + Cardinality(Expected') <= 2 * Cardinality(Notes) BY <2>1, <2>2, <2>3
  <2>5. Created' = Created BY <2>1 DEF Created
  <2> QED BY <2>1, <2>4, <2>5 DEF AlertLimits
<1>13. ASSUME NEW a \in asks, BellMisses(a) PROVE AlertLimits'
  <2>1. asks' = asks \ {a} /\ UNCHANGED <<notes, order, toEmit, heard, bell>> BY <1>13 DEF BellMisses
  <2> QED BY <2>1, LimitsStay DEF AlertLimits
<1>8. ASSUME NEW ns, asks' = asks \cup {[op |-> "mark", at |-> "sent", notes |-> ns]},
             UNCHANGED <<notes, order, toEmit, heard>>, bell'.count <= bell.count
      PROVE  AlertLimits'
  <2>1. Expected' = Expected /\ Created' = Created BY <1>8 DEF Expected, Coming, Created
  <2>2. Cardinality(Expected) \in Nat /\ Cardinality(Notes) \in Nat /\ bell.count \in Nat
    BY ExpectedCounted
  <2>3. bell'.count \in Nat BY <1>0 DEF AlertShape, Bells
  <2>4. bell'.count + Cardinality(Expected') <= 2 * Cardinality(Notes)
    BY <1>8, <2>1, <2>2, <2>3 DEF AlertLimits
  <2> QED BY <1>8, <2>1, <2>4 DEF AlertLimits
<1>9. ASSUME NEW n \in Notes, MarkRead(n) PROVE AlertLimits'
  <2> DEFINE count == IF bell.count = 0 THEN 0 ELSE bell.count - 1
             read  == bell.read \cup {n}
  <2>1. bell.count \in Nat BY DEF AlertShape, Bells
  <2>2. count <= bell.count BY <2>1
  <2>3. /\ bell' = [bell EXCEPT !.read = read, !.count = count]
        /\ asks' = asks \cup {[op |-> "mark", at |-> "sent", notes |-> {n}]}
        /\ UNCHANGED <<notes, order, toEmit, heard>>
    BY <1>9 DEF MarkRead, Marks
  <2>4. bell \in [items : Seq(Created), read : SUBSET Created, count : Nat] BY DEF AlertShape, Bells
  <2> HIDE DEF count, read
  <2>5. bell'.count = count BY <2>3, <2>4
  <2> QED BY <1>8, <2>2, <2>3, <2>5
<1>10. CASE MarkAllRead
  <2> DEFINE read == bell.read \cup Range(bell.items)
  <2>1. /\ bell' = [bell EXCEPT !.read = read, !.count = 0]
        /\ asks' = asks \cup {[op |-> "mark", at |-> "sent", notes |-> Notes]}
        /\ UNCHANGED <<notes, order, toEmit, heard>>
    BY <1>10 DEF MarkAllRead
  <2>2. bell \in [items : Seq(Created), read : SUBSET Created, count : Nat] BY DEF AlertShape, Bells
  <2> HIDE DEF read
  <2>3. bell'.count = 0 /\ 0 <= bell.count BY <2>1, <2>2
  <2> QED BY <1>8, <2>1, <2>3
<1>11. ASSUME NEW a \in asks, MarkApplies(a) PROVE AlertLimits'
  <2>1. /\ notes' = [n \in Notes |-> IF n \in a.notes /\ notes[n] = "unread" THEN "read" ELSE notes[n]]
        /\ asks' = asks \ {a} /\ UNCHANGED <<order, toEmit, heard, bell>>
    BY <1>11 DEF MarkApplies
  <2>2. Created' = Created BY <2>1 DEF Created
  <2> QED BY <2>1, <2>2 DEF AlertLimits, Expected, Coming
<1>12. ASSUME NEW a \in asks, MarkFails(a) PROVE AlertLimits'
  <2>1. asks' = (asks \ {a}) \cup {LoadSent} /\ UNCHANGED <<notes, order, toEmit, heard, bell>>
    BY <1>12 DEF MarkFails, AfterFailure, LoadSent
  <2>2. LoadSent.at = "sent" BY DEF LoadSent
  <2> QED BY <2>1, <2>2, LimitsStay DEF AlertLimits
<1> QED BY <1>1, <1>2, <1>3, <1>4, <1>5, <1>6, <1>7, <1>9, <1>10, <1>11, <1>12, <1>13 DEF AlertNext

\* The list of notifications holds the ones created, the bell shows only such
\* ones, and its badge, which a load and a late arrival may count twice, is
\* bounded, for any finite set of notifications.
THEOREM AlertTypes == AlertSpec => []AlertTypeOK
<1>1. AlertInit => AlertShape /\ AlertLimits
  <2> SUFFICES ASSUME AlertInit PROVE AlertShape /\ AlertLimits OBVIOUS
  <2>1. AlertShape BY AlertStart DEF BellInv
  <2>2. Created = {} /\ Range(order) = {} BY DEF AlertInit, Created, Range
  <2>3. bell.count = 0 /\ \A a \in asks : a.at = "sent" BY DEF AlertInit
  <2>4. Cardinality(Expected) \in 0..Cardinality(Notes) /\ Cardinality(Notes) \in Nat
    BY <2>1, ExpectedCounted
  <2> QED BY <2>1, <2>2, <2>3, <2>4 DEF AlertLimits
<1>2. AlertShape /\ AlertLimits => AlertTypeOK
  <2> SUFFICES ASSUME AlertShape, AlertLimits PROVE AlertTypeOK OBVIOUS
  <2>1. Cardinality(Expected) \in Nat /\ Cardinality(Notes) \in Nat /\ bell.count \in Nat
    BY ExpectedCounted
  <2>2. bell.count \in 0..(2 * Cardinality(Notes)) BY <2>1 DEF AlertLimits
  <2>3. Range(bell.items) \subseteq Created BY InRange DEF AlertShape, Bells
  <2> QED BY <2>2, <2>3 DEF AlertTypeOK, AlertShape, AlertLimits, Created
<1>3. AlertShape /\ AlertLimits /\ [AlertNext]_alertVars => AlertShape' /\ AlertLimits'
  BY ShapeStep, LimitsStep
<1> QED BY <1>1, <1>2, <1>3, PTL DEF AlertSpec

-----------------------------------------------------------------------------
(* The copies of a pickup.                                                  *)

Announcements(events) == [event : events, doc : {d \in Docs : d.status # "absent"}]

PageCallsOf == [op : PageOps, at : {"sent", "half", "written", "answered"}, a : Docs, m : Docs]

Pages ==
  [available : Seq(Docs), mine : Seq(Docs), invites : Seq(Docs), items : Seq(Docs),
   details : Docs, selected : BOOLEAN]

\* Every state of the pickup there is: the document, what the page keeps, and what
\* broadcasts and calls carry.
Versions ==
  ({doc} \cup Copies \cup {b.doc : b \in unsent \cup Range(feed)}
     \cup {k.a : k \in calls} \cup {k.m : k \in calls}) \ {NoPickup}

\* An update of revision r or a later one is on its way to the page.
Owed(r) ==
  \/ \E b \in unsent : b.event \in {"update", "relisted"} /\ b.doc.rev >= r
  \/ \E b \in Range(feed) : b.event = "update" /\ b.doc.rev >= r
  \/ \E k \in calls : k.at = "written" /\ k.a.rev >= r

\* The page has been given revision r, will be, or there is no older one.
Covered(r) == r <= seen \/ Owed(r) \/ \A x \in Versions : x.rev >= r

BoardShape ==
  /\ doc \in Docs /\ viewer \in Sides
  /\ unsent \subseteq Announcements({"new", "update", "relisted"})
  /\ feed \in Seq(Announcements({"new", "update"}))
  /\ calls \subseteq PageCallsOf
  /\ page \in Pages
  /\ seen \in Nat

\* What each list holds, and what each call carries.
ListsHold ==
  /\ viewer = "requester" =>
       /\ Range(page.available) = {} /\ Range(page.mine) = {} /\ Range(page.invites) = {}
       /\ ~page.selected
  /\ viewer = "collector" => Range(page.items) = {}
  /\ \A x \in Range(page.available) : x.status = "pending"
  /\ \A x \in Range(page.invites) : x.status = "pending" /\ x.party = Me

CallsHold ==
  /\ \A b \in unsent : b.event \in {"new", "relisted"} => b.doc.status = "pending"
  /\ \A b \in Range(feed) : b.event = "new" => b.doc.status = "pending"
  /\ viewer = "requester" => \A k \in calls : k.op # "invites"
  /\ \A k \in calls : k.at \in {"written", "answered"} =>
       /\ k.op = "offer" => k.a.status = "pending"
       /\ k.op = "respond" => k.a.status \in {"pending", "accepted"}
       /\ k.op = "load" => k.a.rev <= k.m.rev
       /\ k.at = "written" => k.a.status # "absent"

\* The document is the newest state, and each state is covered.
Newest ==
  /\ doc.status = "absent" => Versions = {} /\ ~page.selected
  /\ \A x \in Versions : x.rev <= doc.rev /\ (x.rev = doc.rev => x = doc)
  /\ \A x \in Versions : Covered(x.rev)
  /\ seen <= doc.rev

\* What the page keeps is as new as what it was given, or an update is to come.
PageKeeps ==
  ~late =>
    /\ \A c \in Copies \ {NoPickup} : c.rev >= seen \/ Owed(seen)
    /\ page.selected => doc.status = "pending" \/ Owed(0)

BoardInv == BoardShape /\ ListsHold /\ CallsHold /\ Newest /\ PageKeeps

LEMMA NoPickupIs ==
  /\ NoPickup.rev = 0 /\ NoPickup.status = "absent" /\ NoPickup \in Docs
  /\ [NoPickup EXCEPT !.status = "pending"] \in Docs
  /\ [NoPickup EXCEPT !.status = "pending"].rev = 0
  /\ [NoPickup EXCEPT !.status = "pending"].status = "pending"
BY BoardAssumption DEF NoPickup, Docs

LEMMA OwedLess ==
  ASSUME BoardShape, NEW r \in Nat, NEW s \in Nat, s <= r, Owed(r)
  PROVE  Owed(s)
<1>1. \A b \in unsent : b.doc.rev \in Nat BY DEF BoardShape, Announcements, Docs
<1>2. \A b \in Range(feed) : b.doc.rev \in Nat
  <2>1. Range(feed) \subseteq Announcements({"new", "update"}) BY InRange DEF BoardShape
  <2> QED BY <2>1 DEF Announcements, Docs
<1>3. \A k \in calls : k.a.rev \in Nat BY DEF BoardShape, PageCallsOf, Docs
<1> QED BY <1>1, <1>2, <1>3 DEF Owed

LEMMA VersionsTyped ==
  ASSUME BoardShape
  PROVE  Versions \subseteq Docs /\ Copies \subseteq Docs /\ Range(feed) \subseteq Announcements({"new", "update"})
<1>1. Range(feed) \subseteq Announcements({"new", "update"}) BY InRange DEF BoardShape
<1>2. /\ page.available \in Seq(Docs) /\ page.mine \in Seq(Docs)
      /\ page.invites \in Seq(Docs) /\ page.items \in Seq(Docs)
  BY DEF BoardShape, Pages
<1>3. Copies \subseteq Docs BY <1>2, InRange, NoPickupIs DEF Copies
<1>4. \A b \in unsent \cup Range(feed) : b.doc \in Docs BY <1>1 DEF BoardShape, Announcements
<1>5. \A k \in calls : k.a \in Docs /\ k.m \in Docs BY DEF BoardShape, PageCallsOf
<1> QED BY <1>1, <1>3, <1>4, <1>5 DEF Versions, BoardShape

\* A step that brings the page nothing: what is on its way stays on its way.
LEMMA CarriedOn ==
  ASSUME BoardInv, BoardShape', ListsHold', CallsHold', Versions' \subseteq Versions,
         \A r \in Nat : Owed(r) => Owed(r)', Copies' \subseteq Copies,
         UNCHANGED <<doc, seen, late>>,
         page'.selected => page.selected \/ (doc.status # "absent" /\ (~late => doc.status = "pending" \/ Owed(0)))
  PROVE  BoardInv'
<1>1. \A x \in Versions : x.rev \in Nat BY VersionsTyped DEF BoardInv, Docs
<1>2. \A r \in Nat : Covered(r) => Covered(r)' BY DEF Covered
<1>3. Newest' BY <1>1, <1>2 DEF BoardInv, Newest
<1>4. seen \in Nat BY DEF BoardInv, BoardShape
<1>5. PageKeeps' BY <1>4 DEF BoardInv, PageKeeps
<1> QED BY <1>3, <1>5 DEF BoardInv

\* A write, whose update is on its way from then on.
LEMMA WrittenOn ==
  ASSUME BoardInv, BoardShape', ListsHold', CallsHold', Versions' \subseteq Versions \cup {doc'},
         UNCHANGED <<page, seen, late>>,
         doc'.rev = doc.rev + 1, doc'.status # "absent",
         \/ \A r \in Nat : r <= doc'.rev => Owed(r)'
         \/ doc.status = "absent" /\ doc'.status = "pending" /\ \A r \in Nat : Owed(r) => Owed(r)'
  PROVE  BoardInv'
<1>1. \A x \in Versions : x.rev \in Nat BY VersionsTyped DEF BoardInv, Docs
<1>2. doc.rev \in Nat /\ seen \in Nat /\ seen <= doc.rev /\ doc'.rev \in Nat
  BY DEF BoardInv, BoardShape, Docs, Newest
<1>3. \A x \in Versions' : x.rev <= doc'.rev /\ (x.rev = doc'.rev => x = doc')
  BY <1>1, <1>2 DEF BoardInv, Newest
<1>4. \A x \in Versions' : x.rev \in Nat BY <1>1, <1>2
<1>5. ASSUME \A r \in Nat : r <= doc'.rev => Owed(r)' PROVE Newest' /\ PageKeeps'
  <2>1. Newest' BY <1>2, <1>3, <1>4, <1>5 DEF Newest, Covered
  <2>2. seen' \in Nat /\ seen' <= doc'.rev /\ 0 <= doc'.rev BY <1>2
  <2>3. Owed(seen)' BY <1>5, <2>2 DEF Owed
  <2>4. Owed(0)' BY <1>5, <2>2 DEF Owed
  <2>5. PageKeeps' BY <2>3, <2>4 DEF PageKeeps
  <2> QED BY <2>1, <2>5
<1>6. ASSUME doc.status = "absent", doc'.status = "pending", \A r \in Nat : Owed(r) => Owed(r)'
      PROVE  Newest' /\ PageKeeps'
  <2>1. Versions = {} /\ ~page.selected BY <1>6 DEF BoardInv, Newest
  <2>2. Versions' \subseteq {doc'} BY <2>1
  <2>3. Newest' BY <1>2, <1>3, <1>4, <2>2 DEF Newest, Covered
  <2>4. Copies \ {NoPickup} = {} BY <2>1 DEF Versions
  <2>5. Copies' = Copies BY DEF Copies
  <2>6. PageKeeps' BY <2>1, <2>4, <2>5 DEF PageKeeps
  <2> QED BY <2>3, <2>6
<1> QED BY <1>5, <1>6 DEF BoardInv

\* The page is given d, and keeps nothing older than d but what it had.
LEMMA TakenIn ==
  ASSUME BoardInv, BoardShape', ListsHold', CallsHold', Versions' \subseteq Versions, doc' = doc,
         NEW d \in Versions \cup {NoPickup}, Takes(d),
         \A r \in Nat : Owed(r) => Owed(r)' \/ d.rev >= r,
         \A c \in Copies' \ {NoPickup} :
            c.rev >= d.rev \/ (c \in Copies /\ \A r \in Nat : Owed(r) => Owed(r)'),
         page'.selected => page.selected /\ \A r \in Nat : Owed(r) => Owed(r)'
  PROVE  BoardInv'
<1>1. \A x \in Versions : x.rev \in Nat BY VersionsTyped DEF BoardInv, Docs
<1>2. seen \in Nat /\ doc.rev \in Nat /\ d.rev \in Nat /\ d.rev <= doc.rev /\ seen <= doc.rev
  BY <1>1, NoPickupIs DEF BoardInv, BoardShape, Docs, Newest
<1>3. /\ seen' \in Nat /\ seen' <= doc.rev /\ seen' >= seen /\ seen' >= d.rev
      /\ seen <= d.rev => seen' = d.rev
  BY <1>2 DEF Takes
<1>4. ~late' => ~late /\ ~(d.rev < seen) BY DEF Takes
<1>5. ~late' => seen <= d.rev /\ seen' = d.rev BY <1>2, <1>3, <1>4
<1>6. \A r \in Nat : Covered(r) => Covered(r)' BY <1>2, <1>3 DEF Covered
<1>7. Newest' BY <1>1, <1>3, <1>6 DEF BoardInv, Newest
<1>8. PageKeeps'
  <2> SUFFICES ASSUME ~late'
               PROVE  /\ \A c \in Copies' \ {NoPickup} : c.rev >= seen' \/ Owed(seen)'
                      /\ page'.selected => doc'.status = "pending" \/ Owed(0)'
    BY DEF PageKeeps
  <2>1. page'.selected => doc'.status = "pending" \/ Owed(0)' BY <1>4 DEF BoardInv, PageKeeps
  <2>2. ASSUME NEW c \in Copies, c # NoPickup, \A r \in Nat : Owed(r) => Owed(r)'
        PROVE  c.rev >= d.rev \/ Owed(d.rev)'
    <3>1. c \in Versions BY <2>2 DEF Versions
    <3>2. c.rev >= seen \/ Owed(seen) BY <1>4, <2>2 DEF BoardInv, PageKeeps
    <3>3. d = NoPickup \/ Covered(d.rev) BY DEF BoardInv, Newest
    <3>4. CASE d = NoPickup BY <1>1, <3>1, <3>4, NoPickupIs
    <3>5. CASE d.rev <= seen
      <4>1. d.rev = seen BY <1>2, <1>5, <3>5
      <4> QED BY <1>2, <2>2, <3>2, <4>1
    <3>6. CASE Owed(d.rev) BY <1>2, <2>2, <3>6
    <3>7. CASE \A x \in Versions : x.rev >= d.rev BY <3>1, <3>7
    <3> QED BY <3>3, <3>4, <3>5, <3>6, <3>7 DEF Covered
  <2>3. seen' = d.rev BY <1>5
  <2>4. \A c \in Copies' \ {NoPickup} : c.rev >= d.rev \/ Owed(d.rev)' BY <2>2
  <2> QED BY <2>1, <2>3, <2>4 DEF Owed
<1> QED BY <1>7, <1>8 DEF BoardInv

BoardParties == {NoParty, Me, Other}

LEMMA DocNegotiated ==
  ASSUME NEW d \in Docs, NEW c \in BoardParties, NEW by \in Sides \cup {"nobody"}
  PROVE  /\ Negotiating(d, c, by) \in Docs
         /\ Negotiating(d, c, by).rev = d.rev
         /\ Negotiating(d, c, by).status = d.status
BY DEF Docs, BoardParties, Negotiating

LEMMA Bumped ==
  ASSUME NEW d \in Docs, NEW r \in Nat, r < MaxWrites
  PROVE  /\ [d EXCEPT !.rev = r + 1] \in Docs
         /\ [d EXCEPT !.rev = r + 1].rev = r + 1
         /\ [d EXCEPT !.rev = r + 1].status = d.status
BY BoardAssumption DEF Docs

\* What a request writes.
LEMMA OutcomeTyped ==
  ASSUME doc \in Docs, NEW op, NEW c \in BoardParties, NEW side \in Sides, NEW d \in Outcome(op, c, side)
  PROVE  /\ d \in Docs /\ d.rev = doc.rev /\ d.status # "absent"
         /\ op = "offer" => d.status = "pending"
         /\ op = "respond" => d.status \in {"pending", "accepted"}
<1> DEFINE accepted  == {[doc EXCEPT !.status = "accepted", !.holder = c]}
           offered   == {Negotiating(doc, c, "collector")}
           invited   == {Negotiating(doc, c, "requester")}
           responded == {[doc EXCEPT !.status = "accepted", !.holder = c, !.party = NoParty],
                         Ended(doc), Negotiating(doc, c, side)}
           advanced  == {[doc EXCEPT !.status = IF @ = "accepted" THEN "in_progress" ELSE "completed"]}
           expired   == {Ended(doc)}
           cancelled == {[Ended(doc) EXCEPT !.status = "cancelled"]}
<1>1. d \in CASE op \in {"accept", "batch"} /\ Open(doc) -> accepted
              [] op = "offer" /\ doc.status = "pending" /\ doc.party \in {NoParty, c} -> offered
              [] op = "invite" /\ Open(doc) -> invited
              [] op = "respond" /\ doc.status = "pending" /\ doc.party = c
                   /\ doc.by = OtherSide(side) -> responded
              [] op = "advance" /\ Running(doc) /\ doc.holder = c -> advanced
              [] op = "expire" /\ doc.status = "pending" /\ doc.party # NoParty -> expired
              [] op = "cancel" /\ doc.status \in {"pending", "accepted"} -> cancelled
              [] OTHER -> {}
  BY DEF Outcome
<1> HIDE DEF accepted, offered, invited, responded, advanced, expired, cancelled
<1>2. /\ op \in {"accept", "batch"} => d \in accepted
      /\ op = "offer" => doc.status = "pending" /\ d \in offered
      /\ op = "invite" => doc.status = "pending" /\ d \in invited
      /\ op = "respond" => doc.status = "pending" /\ d \in responded
      /\ op = "advance" => d \in advanced
      /\ op = "expire" => doc.status = "pending" /\ d \in expired
      /\ op = "cancel" => d \in cancelled
      /\ op \in {"accept", "batch", "offer", "invite", "respond", "advance", "expire", "cancel"}
  BY <1>1 DEF Open
<1>3. NoParty \in BoardParties BY DEF BoardParties
<1>4. /\ Ended(doc) \in Docs /\ Ended(doc).rev = doc.rev /\ Ended(doc).status = doc.status
       /\ \A by \in Sides : /\ Negotiating(doc, c, by) \in Docs /\ Negotiating(doc, c, by).rev = doc.rev
                            /\ Negotiating(doc, c, by).status = doc.status
  BY <1>3, DocNegotiated DEF Ended
<1>5. CASE op \in {"accept", "batch"}
  <2>1. d = [doc EXCEPT !.status = "accepted", !.holder = c] BY <1>2, <1>5 DEF accepted
  <2>2. d \in Docs /\ d.rev = doc.rev /\ d.status = "accepted" BY <1>3, <2>1 DEF Docs, BoardParties
  <2> QED BY <1>5, <2>2
<1>6. CASE op = "offer"
  <2>1. doc.status = "pending" /\ d = Negotiating(doc, c, "collector") BY <1>2, <1>6 DEF offered
  <2> QED BY <1>6, <1>4, <2>1 DEF Sides
<1>7. CASE op = "invite"
  <2>1. doc.status = "pending" /\ d = Negotiating(doc, c, "requester") BY <1>2, <1>7 DEF invited
  <2> QED BY <1>7, <1>4, <2>1 DEF Sides
<1>8. CASE op = "respond"
  <2>1. /\ doc.status = "pending"
        /\ d \in {[doc EXCEPT !.status = "accepted", !.holder = c, !.party = NoParty],
                  Ended(doc), Negotiating(doc, c, side)}
    BY <1>2, <1>8 DEF responded
  <2>2. CASE d = [doc EXCEPT !.status = "accepted", !.holder = c, !.party = NoParty]
    <3>1. d \in Docs /\ d.rev = doc.rev /\ d.status = "accepted" BY <1>3, <2>2 DEF Docs, BoardParties
    <3> QED BY <1>8, <3>1
  <2>3. CASE d \in {Ended(doc), Negotiating(doc, c, side)} BY <1>8, <1>4, <2>1, <2>3
  <2> QED BY <2>1, <2>2, <2>3
<1>9. CASE op = "advance"
  <2> DEFINE next == IF doc.status = "accepted" THEN "in_progress" ELSE "completed"
  <2>1. d = [doc EXCEPT !.status = next] BY <1>2, <1>9 DEF advanced
  <2>2. next \in {"in_progress", "completed"} OBVIOUS
  <2> HIDE DEF next
  <2>3. d \in Docs /\ d.rev = doc.rev /\ d.status = next BY <1>3, <2>1, <2>2 DEF Docs
  <2> QED BY <1>9, <2>2, <2>3
<1>10. CASE op = "expire"
  <2>1. doc.status = "pending" /\ d = Ended(doc) BY <1>2, <1>10 DEF expired
  <2> QED BY <1>10, <1>4, <2>1
<1>11. CASE op = "cancel"
  <2>1. d = [Ended(doc) EXCEPT !.status = "cancelled"] BY <1>2, <1>11 DEF cancelled
  <2>2. d \in Docs /\ d.rev = doc.rev /\ d.status = "cancelled" BY <1>3, <1>4, <2>1 DEF Docs
  <2> QED BY <1>11, <2>2
<1> QED BY <1>2, <1>5, <1>6, <1>7, <1>8, <1>9, <1>10, <1>11

LEMMA ReplacedIs ==
  ASSUME NEW S, NEW l \in Seq(S), NEW d \in S
  PROVE  Replaced(l, d) \in Seq(S) /\ Range(Replaced(l, d)) = (IF Range(l) = {} THEN {} ELSE {d})
<1>1. DOMAIN l = 1..Len(l) /\ Len(l) \in Nat BY LenProperties
<1>2. Replaced(l, d) \in [1..Len(l) -> S] BY <1>1 DEF Replaced
<1>3. Replaced(l, d) \in Seq(S) BY <1>1, <1>2
<1> QED BY <1>3 DEF Replaced, Range

LEMMA IfIs ==
  ASSUME NEW S, NEW d \in S, NEW p
  PROVE  /\ If(p, d) \in Seq(S) /\ Range(If(p, d)) \subseteq {d}
         /\ Range(If(p, d)) # {} => p
BY DEF If, Range

LEMMA PutFirst ==
  ASSUME NEW S, NEW d \in S, NEW l \in Seq(S)
  PROVE  <<d>> \o l \in Seq(S) /\ Range(<<d>> \o l) = {d} \cup Range(l)
<1> DEFINE one == <<d>>
<1>1. one \in Seq(S) /\ Range(one) = {d} BY DEF Range
<1> HIDE DEF one
<1>2. one \o l \in Seq(S) /\ Range(one \o l) = Range(one) \cup Range(l)
  BY <1>1, ConcatProperties, RangeConcatenation
<1> QED BY <1>1, <1>2 DEF one

LEMMA EmptyIs ==
  ASSUME NEW S
  PROVE  << >> \in Seq(S) /\ Range(<< >>) = {} /\ \A l \in Seq(S) : Range(l) = {} => l = << >>
<1>1. \A l \in Seq(S) : l # << >> => 1 \in DOMAIN l BY EmptySeq, LenProperties
<1> QED BY <1>1 DEF Range

LEMMA WriteStep ==
  ASSUME BoardInv, NEW d \in Docs, d.status # "absent", Written(d),
         NEW event \in {"new", "update", "relisted"},
         unsent' = unsent \cup {[event |-> event, doc |-> doc']},
         UNCHANGED <<feed, calls, page, viewer, seen, late>>,
         event \in {"new", "relisted"} => d.status = "pending",
         event = "new" => doc.status = "absent"
  PROVE  BoardInv'
<1> DEFINE b == [event |-> event, doc |-> doc']
<1>1. doc' \in Docs /\ doc'.rev = doc.rev + 1 /\ doc'.status = d.status /\ doc.rev \in Nat
  <2>1. doc.rev \in Nat /\ doc.rev < MaxWrites BY DEF BoardInv, BoardShape, Docs, Written
  <2> QED BY <2>1, Bumped DEF Written
<1>2. b \in Announcements({"new", "update", "relisted"}) /\ b.event = event /\ b.doc = doc'
  BY <1>1 DEF Announcements
<1>3. unsent' = unsent \cup {b} OBVIOUS
<1> HIDE DEF b
<1>4. BoardShape' BY <1>1, <1>2, <1>3 DEF BoardInv, BoardShape
<1>5. ListsHold' BY DEF BoardInv, ListsHold
<1>6. CallsHold' BY <1>1, <1>2, <1>3 DEF BoardInv, CallsHold
<1>7. Versions' \subseteq Versions \cup {doc'} BY <1>2, <1>3 DEF Versions, Copies
<1>8. CASE event = "new"
  <2>1. \A r \in Nat : Owed(r) => Owed(r)' BY <1>3 DEF Owed
  <2> QED BY <1>1, <1>4, <1>5, <1>6, <1>7, <1>8, <2>1, WrittenOn
<1>9. CASE event # "new"
  <2>1. \A r \in Nat : r <= doc'.rev => Owed(r)' BY <1>1, <1>2, <1>3, <1>9 DEF Owed
  <2> QED BY <1>1, <1>4, <1>5, <1>6, <1>7, <2>1, WrittenOn
<1> QED BY <1>8, <1>9

\* A request of the page that moves on and carries the states it carried, or the document.
LEMMA CallStep ==
  ASSUME BoardInv, NEW k \in calls, NEW next \in PageCallsOf, Moves(k, next),
         next.op = k.op, next.at # "written", k.at # "written",
         next.a \in {k.a, doc}, next.m \in {k.m, doc},
         next.at = "answered" => /\ k.op \notin {"offer", "respond"}
                                 /\ k.op = "load" => next.a.rev <= next.m.rev,
         UNCHANGED <<doc, unsent, feed, page, viewer, seen, late>>
  PROVE  BoardInv'
<1>1. calls' = (calls \ {k}) \cup {next} BY DEF Moves
<1>2. BoardShape' BY <1>1 DEF BoardInv, BoardShape
<1>3. ListsHold' BY DEF BoardInv, ListsHold
<1>4. CallsHold' BY <1>1 DEF BoardInv, CallsHold
<1>5. Copies' = Copies BY DEF Copies
<1>6. Versions' \subseteq Versions BY <1>1, <1>5 DEF Versions
<1>7. \A r \in Nat : Owed(r) => Owed(r)' BY <1>1 DEF Owed
<1> QED BY <1>2, <1>3, <1>4, <1>5, <1>6, <1>7, CarriedOn

\* A request of the page that starts or ends without the page taking anything in.
LEMMA CallsStep ==
  ASSUME BoardInv, BoardShape', CallsHold', NEW k, k.at # "written",
         calls' \subseteq calls \cup {k}, calls \ {k} \subseteq calls',
         k \notin calls => k.a = NoPickup /\ k.m = NoPickup,
         UNCHANGED <<doc, unsent, feed, page, viewer, seen, late>>
  PROVE  BoardInv'
<1>1. ListsHold' BY DEF BoardInv, ListsHold
<1>2. Copies' = Copies BY DEF Copies
<1>3. Versions' \subseteq Versions
  <2>1. \A j \in calls' : (j.a = NoPickup \/ \E i \in calls : i.a = j.a) /\ (j.m = NoPickup \/ \E i \in calls : i.m = j.m)
    OBVIOUS
  <2> QED BY <1>2, <2>1 DEF Versions
<1>4. \A r \in Nat : Owed(r) => Owed(r)' BY DEF Owed
<1> QED BY <1>1, <1>2, <1>3, <1>4, CarriedOn

LEMMA EmitStep ==
  ASSUME BoardInv, NEW b \in unsent, BoardEmits(b)
  PROVE  BoardInv'
<1> DEFINE event == IF b.event = "relisted" THEN "update" ELSE b.event
           f     == [b EXCEPT !.event = event]
           more  == {[event |-> "new", doc |-> d] : d \in IF b.event = "relisted" THEN {b.doc} ELSE {}}
<1>1. b \in Announcements({"new", "update", "relisted"}) BY DEF BoardInv, BoardShape
<1>2. /\ feed' = Append(feed, f) /\ unsent' = (unsent \ {b}) \cup more
      /\ UNCHANGED <<doc, calls, page, viewer, seen, late>>
  BY DEF BoardEmits, Sent
<1>3. /\ f \in Announcements({"new", "update"}) /\ f.doc = b.doc
      /\ b.event = "new" => f.event = "new"
      /\ b.event # "new" => f.event = "update"
  BY <1>1 DEF Announcements
<1>4. \A m \in more : /\ m \in Announcements({"new", "update", "relisted"})
                      /\ m.event = "new" /\ m.doc = b.doc /\ b.event = "relisted"
  BY <1>1 DEF Announcements
<1> HIDE DEF event, f, more
<1>5. feed' \in Seq(Announcements({"new", "update"})) /\ Range(feed') = Range(feed) \cup {f}
  BY <1>2, <1>3, AppendProperties, RangeOfAppend DEF BoardInv, BoardShape
<1>6. BoardShape' BY <1>2, <1>4, <1>5 DEF BoardInv, BoardShape
<1>7. ListsHold' BY <1>2 DEF BoardInv, ListsHold
<1>8. b.event \in {"new", "relisted"} => b.doc.status = "pending" BY DEF BoardInv, CallsHold
<1>9. CallsHold'
  <2>1. \A c \in unsent' : c.event \in {"new", "relisted"} => c.doc.status = "pending"
    BY <1>2, <1>4, <1>8 DEF BoardInv, CallsHold
  <2>2. \A c \in Range(feed') : c.event = "new" => c.doc.status = "pending"
    BY <1>1, <1>3, <1>5, <1>8 DEF BoardInv, CallsHold, Announcements
  <2> QED BY <1>2, <2>1, <2>2 DEF BoardInv, CallsHold
<1>10. Copies' = Copies BY <1>2 DEF Copies
<1>11. Versions' \subseteq Versions
  <2>1. \A c \in unsent' \cup Range(feed') : \E a \in unsent \cup Range(feed) : a.doc = c.doc
    BY <1>2, <1>3, <1>4, <1>5
  <2> QED BY <1>2, <1>10, <2>1 DEF Versions
<1>12. \A r \in Nat : Owed(r) => Owed(r)' BY <1>1, <1>2, <1>3, <1>5 DEF Owed, Announcements
<1> QED BY <1>2, <1>6, <1>7, <1>9, <1>10, <1>11, <1>12, CarriedOn

LEMMA ApplyStep ==
  ASSUME BoardInv, NEW k \in calls, CallApplies(k)
  PROVE  BoardInv'
<1>1. PICK d \in Outcome(k.op, Actor, viewer) :
        Written(d) /\ Moves(k, [k EXCEPT !.at = "written", !.a = doc'])
  BY DEF CallApplies
<1>2. k.at = "sent" /\ k.op \notin {"load", "invites"} /\ UNCHANGED <<unsent, feed, page, viewer, seen, late>>
  BY DEF CallApplies
<1>3. doc \in Docs /\ viewer \in Sides /\ k \in PageCallsOf /\ Actor \in BoardParties
  BY DEF BoardInv, BoardShape, Actor, BoardParties, Docs
<1>4. /\ d \in Docs /\ d.status # "absent"
      /\ k.op = "offer" => d.status = "pending"
      /\ k.op = "respond" => d.status \in {"pending", "accepted"}
  BY <1>3, OutcomeTyped
<1>5. doc' \in Docs /\ doc'.rev = doc.rev + 1 /\ doc'.status = d.status
  <2>1. doc.rev \in Nat /\ doc.rev < MaxWrites BY <1>1, <1>3 DEF Docs, Written
  <2> QED BY <1>1, <1>4, <2>1, Bumped DEF Written
<1> DEFINE next == [k EXCEPT !.at = "written", !.a = doc']
<1>6. next \in PageCallsOf /\ next.at = "written" /\ next.op = k.op /\ next.a = doc' /\ next.m = k.m
  BY <1>3, <1>5 DEF PageCallsOf
<1>7. calls' = (calls \ {k}) \cup {next} BY <1>1 DEF Moves
<1> HIDE DEF next
<1>8. BoardShape' BY <1>2, <1>5, <1>6, <1>7 DEF BoardInv, BoardShape
<1>9. ListsHold' BY <1>2 DEF BoardInv, ListsHold
<1>10. CallsHold' BY <1>2, <1>4, <1>5, <1>6, <1>7 DEF BoardInv, CallsHold
<1>11. Versions' \subseteq Versions \cup {doc'} BY <1>2, <1>6, <1>7 DEF Versions, Copies
<1>12. \A r \in Nat : r <= doc'.rev => Owed(r)' BY <1>5, <1>6, <1>7 DEF Owed
<1> QED BY <1>2, <1>4, <1>5, <1>8, <1>9, <1>10, <1>11, <1>12, WrittenOn

LEMMA CallEmitStep ==
  ASSUME BoardInv, NEW k \in calls, CallEmits(k)
  PROVE  BoardInv'
<1> DEFINE next == [k EXCEPT !.at = "answered"]
           f    == [event |-> "update", doc |-> k.a]
<1>1. /\ k.at = "written" /\ feed' = Append(feed, f) /\ calls' = (calls \ {k}) \cup {next}
      /\ UNCHANGED <<doc, unsent, page, viewer, seen, late>>
  BY DEF CallEmits, Moves
<1>2. k \in PageCallsOf BY DEF BoardInv, BoardShape
<1>3. next \in PageCallsOf /\ next.at = "answered" /\ next.op = k.op /\ next.a = k.a /\ next.m = k.m
  BY <1>2 DEF PageCallsOf
<1>4. f \in Announcements({"new", "update"}) /\ f.event = "update" /\ f.doc = k.a
  BY <1>1, <1>2 DEF Announcements, PageCallsOf, BoardInv, CallsHold
<1> HIDE DEF next, f
<1>5. feed' \in Seq(Announcements({"new", "update"})) /\ Range(feed') = Range(feed) \cup {f}
  BY <1>1, <1>4, AppendProperties, RangeOfAppend DEF BoardInv, BoardShape
<1>6. BoardShape' BY <1>1, <1>3, <1>5 DEF BoardInv, BoardShape
<1>7. ListsHold' BY <1>1 DEF BoardInv, ListsHold
<1>8. CallsHold' BY <1>1, <1>3, <1>4, <1>5 DEF BoardInv, CallsHold
<1>9. Copies' = Copies BY <1>1 DEF Copies
<1>10. Versions' \subseteq Versions BY <1>1, <1>3, <1>4, <1>5, <1>9 DEF Versions
<1>11. \A r \in Nat : Owed(r) => Owed(r)' BY <1>1, <1>4, <1>5 DEF Owed
<1> QED BY <1>1, <1>6, <1>7, <1>8, <1>9, <1>10, <1>11, CarriedOn

\* toggleSelected: a pickup of the list is pending, or its update is on its way.
LEMMA SelectStep ==
  ASSUME BoardInv, PageSelects
  PROVE  BoardInv'
<1>1. page \in Pages /\ page.available # << >> /\ page' = [page EXCEPT !.selected = ~page.selected]
      /\ UNCHANGED <<doc, unsent, feed, calls, viewer, seen, late>>
  BY DEF BoardInv, BoardShape, PageSelects
<1>2. /\ page' \in Pages /\ page'.available = page.available /\ page'.mine = page.mine
      /\ page'.invites = page.invites /\ page'.items = page.items
  BY <1>1 DEF Pages
<1>3. PICK x \in Range(page.available) : TRUE
  <2>1. page.available \in Seq(Docs) BY <1>1 DEF Pages
  <2> QED BY <1>1, <2>1, EmptyIs
<1>4. x.status = "pending" /\ x \in Copies /\ x # NoPickup /\ x \in Versions
  BY <1>3, NoPickupIs DEF BoardInv, ListsHold, Copies, Versions
<1>5. doc.status # "absent" BY <1>4 DEF BoardInv, Newest
<1>6. ASSUME ~late PROVE doc.status = "pending" \/ Owed(0)
  <2>1. x.rev \in Nat /\ doc.rev \in Nat /\ seen \in Nat /\ x.rev <= doc.rev
    BY <1>4, VersionsTyped DEF BoardInv, BoardShape, Docs, Newest
  <2>2. x.rev >= seen \/ Owed(seen) BY <1>4, <1>6 DEF BoardInv, PageKeeps
  <2>3. doc \in Versions BY <1>5, NoPickupIs DEF Versions
  <2>4. doc.rev <= seen \/ Owed(doc.rev) \/ x.rev >= doc.rev
    BY <1>4, <2>3 DEF BoardInv, Newest, Covered
  <2>5. CASE Owed(seen) \/ Owed(doc.rev) BY <2>1, <2>5, OwedLess DEF BoardInv
  <2>6. CASE x.rev >= doc.rev BY <1>4, <2>1, <2>6 DEF BoardInv, Newest
  <2> QED BY <2>1, <2>2, <2>4, <2>5, <2>6
<1>7. BoardShape' BY <1>1, <1>2 DEF BoardInv, BoardShape
<1>8. ListsHold'
  <2>1. viewer # "requester" BY <1>3 DEF BoardInv, ListsHold
  <2> QED BY <1>1, <1>2, <2>1 DEF BoardInv, ListsHold
<1>9. CallsHold' BY <1>1 DEF BoardInv, CallsHold
<1>10. Copies' = Copies BY <1>2 DEF Copies
<1>11. Versions' \subseteq Versions BY <1>1, <1>10 DEF Versions
<1>12. \A r \in Nat : Owed(r) => Owed(r)' BY <1>1 DEF Owed
<1> QED BY <1>1, <1>5, <1>6, <1>7, <1>8, <1>9, <1>10, <1>11, <1>12, CarriedOn

LEMMA OpenStep ==
  ASSUME BoardInv, NEW d \in Copies, PageOpens(d)
  PROVE  BoardInv'
<1>1. page \in Pages /\ d \in Docs /\ page' = [page EXCEPT !.details = d]
      /\ UNCHANGED <<doc, unsent, feed, calls, viewer, seen, late>>
  BY VersionsTyped DEF BoardInv, BoardShape, PageOpens
<1>2. /\ page' \in Pages /\ page'.available = page.available /\ page'.mine = page.mine
      /\ page'.invites = page.invites /\ page'.items = page.items /\ page'.selected = page.selected
  BY <1>1 DEF Pages
<1>3. BoardShape' BY <1>1, <1>2 DEF BoardInv, BoardShape
<1>4. ListsHold' BY <1>1, <1>2 DEF BoardInv, ListsHold
<1>5. CallsHold' BY <1>1 DEF BoardInv, CallsHold
<1>6. Copies' = Copies BY <1>2 DEF Copies
<1>7. Versions' \subseteq Versions BY <1>1, <1>6 DEF Versions
<1>8. \A r \in Nat : Owed(r) => Owed(r)' BY <1>1 DEF Owed
<1> QED BY <1>1, <1>2, <1>3, <1>4, <1>5, <1>6, <1>7, <1>8, CarriedOn

\* What the page hears.
LEMMA AnnounceStep ==
  ASSUME BoardInv, PageHears, Head(feed).event = "new", viewer = "collector"
  PROVE  BoardInv'
<1> DEFINE b == Head(feed)
           d == b.doc
           list == <<d>> \o page.available
<1>1. /\ b \in Announcements({"new", "update"}) /\ Tail(feed) \in Seq(Announcements({"new", "update"}))
      /\ Range(feed) = Range(Tail(feed)) \cup {b}
  BY RangeOfTail DEF BoardInv, BoardShape, PageHears
<1>2. /\ feed' = Tail(feed) /\ page' = [page EXCEPT !.available = list] /\ Takes(d)
      /\ UNCHANGED <<doc, unsent, calls, viewer>> /\ b.event = "new"
  BY DEF PageHears, PageAnnounces
<1>3. d \in Docs /\ d.status = "pending"
  BY <1>1, <1>2 DEF Announcements, BoardInv, CallsHold
<1>4. page \in Pages /\ page.available \in Seq(Docs) BY DEF BoardInv, BoardShape, Pages
<1>5. list \in Seq(Docs) /\ Range(list) = {d} \cup Range(page.available) BY <1>3, <1>4, PutFirst
<1>6. d \in Versions
  <2>1. b \in Range(feed) /\ d # NoPickup BY <1>1, <1>3, NoPickupIs
  <2> QED BY <2>1 DEF Versions
<1> HIDE DEF b, d, list
<1>7. /\ page' \in Pages /\ page'.available = list /\ page'.mine = page.mine
      /\ page'.invites = page.invites /\ page'.items = page.items /\ page'.selected = page.selected
  BY <1>2, <1>4, <1>5 DEF Pages
<1>8. seen' \in Nat BY <1>2, <1>3 DEF Takes, BoardInv, BoardShape, Docs
<1>9. BoardShape' BY <1>1, <1>2, <1>7, <1>8 DEF BoardInv, BoardShape
<1>10. ListsHold' BY <1>2, <1>3, <1>5, <1>7 DEF BoardInv, ListsHold
<1>11. CallsHold' BY <1>1, <1>2 DEF BoardInv, CallsHold
<1>12. Copies' = Copies \cup {d} BY <1>5, <1>7 DEF Copies
<1>13. Versions' \subseteq Versions BY <1>1, <1>2, <1>6, <1>12 DEF Versions
<1>14. \A r \in Nat : Owed(r) => Owed(r)' BY <1>1, <1>2 DEF Owed
<1>15. \A c \in Copies' \ {NoPickup} : c.rev >= d.rev \/ (c \in Copies /\ \A r \in Nat : Owed(r) => Owed(r)')
  BY <1>3, <1>12, <1>14 DEF Docs
<1> QED BY <1>2, <1>6, <1>7, <1>9, <1>10, <1>11, <1>13, <1>14, <1>15, TakenIn

LEMMA UnheardStep ==
  ASSUME BoardInv, PageHears, Head(feed).event = "new", viewer = "requester"
  PROVE  BoardInv'
<1> DEFINE b == Head(feed)
<1>1. /\ Tail(feed) \in Seq(Announcements({"new", "update"}))
      /\ Range(feed) = Range(Tail(feed)) \cup {b}
  BY RangeOfTail DEF BoardInv, BoardShape, PageHears
<1>2. /\ feed' = Tail(feed) /\ b.event = "new" /\ UNCHANGED <<page, seen, late, doc, unsent, calls, viewer>>
  BY DEF PageHears, PageAnnounces
<1> HIDE DEF b
<1>3. BoardShape' BY <1>1, <1>2 DEF BoardInv, BoardShape
<1>4. ListsHold' BY <1>2 DEF BoardInv, ListsHold
<1>5. CallsHold' BY <1>1, <1>2 DEF BoardInv, CallsHold
<1>6. Copies' = Copies BY <1>2 DEF Copies
<1>7. Versions' \subseteq Versions BY <1>1, <1>2, <1>6 DEF Versions
<1>8. \A r \in Nat : Owed(r) => Owed(r)' BY <1>1, <1>2 DEF Owed
<1> QED BY <1>2, <1>3, <1>4, <1>5, <1>6, <1>7, <1>8, CarriedOn

\* An update replaces every copy of the list it is in, and drops the selection.
LEMMA PageUpdated ==
  ASSUME page \in Pages, ListsHold, viewer \in Sides, NEW d \in Docs, PageUpdates(d), viewer' = viewer
  PROVE  /\ page' \in Pages /\ ListsHold' /\ ~page'.selected
         /\ Copies' \subseteq {d, NoPickup}
<1>1. /\ page.available \in Seq(Docs) /\ page.mine \in Seq(Docs)
      /\ page.invites \in Seq(Docs) /\ page.items \in Seq(Docs)
  BY DEF Pages
<1>2. InDetails(d) \in Docs BY NoPickupIs DEF InDetails
<1>3. \A l \in Seq(Docs) : /\ Replaced(l, d) \in Seq(Docs)
                           /\ Range(Replaced(l, d)) = (IF Range(l) = {} THEN {} ELSE {d})
  BY ReplacedIs
<1>4. CASE viewer = "requester"
  <2> DEFINE items == Replaced(page.items, d)
             details == InDetails(d)
  <2>1. page' = [page EXCEPT !.items = items, !.details = details] BY <1>4 DEF PageUpdates
  <2>2. items \in Seq(Docs) /\ Range(items) \subseteq {d} /\ details \in Docs BY <1>1, <1>2, <1>3
  <2> HIDE DEF items, details
  <2>3. /\ page' \in Pages /\ page'.available = page.available /\ page'.mine = page.mine
        /\ page'.invites = page.invites /\ page'.items = items /\ page'.selected = page.selected
    BY <2>1, <2>2 DEF Pages
  <2>4. ListsHold' BY <1>4, <2>3 DEF ListsHold
  <2>5. /\ Range(page'.available) = {} /\ Range(page'.mine) = {} /\ Range(page'.invites) = {}
        /\ ~page'.selected
    BY <1>4, <2>3 DEF ListsHold
  <2>6. Copies' \subseteq {d, NoPickup} BY <2>2, <2>3, <2>5 DEF Copies
  <2> QED BY <2>3, <2>4, <2>5, <2>6
<1>5. CASE viewer = "collector"
  <2> DEFINE available == AvailableAfter(d)
             mine      == Replaced(page.mine, d)
             invites   == InvitesAfter(d)
             details   == InDetails(d)
  <2>1. page' = [page EXCEPT !.available = available, !.mine = mine, !.invites = invites,
                             !.details = details, !.selected = FALSE]
    BY <1>5 DEF PageUpdates
  <2>2. << >> \in Seq(Docs) /\ Range(<< >>) = {} BY EmptyIs
  <2>3. available \in Seq(Docs) /\ Range(available) \subseteq {d}
        /\ (Range(available) # {} => d.status = "pending")
    BY <1>1, <1>3, <2>2 DEF AvailableAfter
  <2>4. mine \in Seq(Docs) /\ Range(mine) \subseteq {d} BY <1>1, <1>3
  <2>5. invites \in Seq(Docs) /\ Range(invites) \subseteq {d}
        /\ (Range(invites) # {} => d.status = "pending" /\ d.party = Me)
    <3>1. CASE ~(d.status = "pending" /\ d.party = Me) BY <2>2, <3>1 DEF InvitesAfter
    <3>2. CASE d.status = "pending" /\ d.party = Me /\ page.invites = << >>
      <4>1. invites = <<d>> BY <3>2 DEF InvitesAfter
      <4> QED BY <3>2, <4>1 DEF Range
    <3>3. CASE d.status = "pending" /\ d.party = Me /\ page.invites # << >>
      <4>1. invites = Replaced(page.invites, d) BY <3>3 DEF InvitesAfter
      <4> QED BY <1>1, <1>3, <3>3, <4>1
    <3> QED BY <3>1, <3>2, <3>3
  <2>6. details \in Docs BY <1>2
  <2> HIDE DEF available, mine, invites, details
  <2>7. /\ page' \in Pages /\ page'.available = available /\ page'.mine = mine
        /\ page'.invites = invites /\ page'.items = page.items /\ page'.selected = FALSE
    BY <2>1, <2>3, <2>4, <2>5, <2>6 DEF Pages
  <2>8. Range(page.items) = {} BY <1>5 DEF ListsHold
  <2>9. ListsHold' BY <1>5, <2>3, <2>5, <2>7, <2>8 DEF ListsHold
  <2>10. Copies' \subseteq {d, NoPickup} BY <2>3, <2>4, <2>5, <2>7, <2>8 DEF Copies
  <2> QED BY <2>7, <2>9, <2>10
<1> QED BY <1>4, <1>5 DEF Sides

LEMMA UpdateStep ==
  ASSUME BoardInv, PageHears, Head(feed).event # "new"
  PROVE  BoardInv'
<1> DEFINE b == Head(feed)
           d == b.doc
<1>1. /\ b \in Announcements({"new", "update"}) /\ Tail(feed) \in Seq(Announcements({"new", "update"}))
      /\ Range(feed) = Range(Tail(feed)) \cup {b}
  BY RangeOfTail DEF BoardInv, BoardShape, PageHears
<1>2. feed' = Tail(feed) /\ PageUpdates(d) /\ Takes(d) /\ UNCHANGED <<doc, unsent, calls, viewer>>
  BY DEF PageHears
<1>3. d \in Docs /\ d.status # "absent" BY <1>1 DEF Announcements
<1>4. d \in Versions
  <2>1. b \in Range(feed) /\ d # NoPickup BY <1>1, <1>3, NoPickupIs
  <2> QED BY <2>1 DEF Versions
<1> HIDE DEF b, d
<1>5. page' \in Pages /\ ListsHold' /\ ~page'.selected /\ Copies' \subseteq {d, NoPickup}
  BY <1>2, <1>3, PageUpdated DEF BoardInv, BoardShape
<1>6. seen' \in Nat BY <1>2, <1>3 DEF Takes, BoardInv, BoardShape, Docs
<1>7. BoardShape' BY <1>1, <1>2, <1>5, <1>6 DEF BoardInv, BoardShape
<1>8. CallsHold' BY <1>1, <1>2 DEF BoardInv, CallsHold
<1>9. Versions' \subseteq Versions BY <1>1, <1>2, <1>4, <1>5 DEF Versions
<1>10. \A r \in Nat : Owed(r) => Owed(r)' \/ d.rev >= r BY <1>1, <1>2 DEF Owed, d
<1>11. \A c \in Copies' \ {NoPickup} : c.rev >= d.rev BY <1>3, <1>5 DEF Docs
<1> QED BY <1>2, <1>4, <1>5, <1>7, <1>8, <1>9, <1>10, <1>11, TakenIn

\* What an answer puts on the page.
GivenBy(k) ==
  IF k.op = "load" THEN {k.a, k.m} ELSE IF k.op = "invites" THEN {k.m} ELSE {k.a}

LEMMA CollectorShown ==
  ASSUME BoardInv, NEW k \in calls, k.at = "answered", viewer = "collector", viewer' = viewer,
         page' = CollectorAnswered(k)
  PROVE  /\ page' \in Pages /\ ListsHold' /\ (page'.selected => page.selected)
         /\ Copies' \subseteq Copies \cup GivenBy(k)
<1>1. k.a \in Docs /\ k.m \in Docs BY DEF BoardInv, BoardShape, PageCallsOf
<1>2. /\ page \in Pages /\ page.available \in Seq(Docs) /\ page.mine \in Seq(Docs)
      /\ page.invites \in Seq(Docs) /\ page.items \in Seq(Docs) /\ page.selected \in BOOLEAN
      /\ page.details \in Docs /\ Range(page.items) = {}
  BY DEF BoardInv, BoardShape, Pages, ListsHold
<1>3. ASSUME NEW l \in Seq(Docs)
      PROVE  /\ Replaced(l, k.a) \in Seq(Docs) /\ Range(Replaced(l, k.a)) \subseteq {k.a}
             /\ <<k.a>> \o l \in Seq(Docs) /\ Range(<<k.a>> \o l) = {k.a} \cup Range(l)
  <2>1. Replaced(l, k.a) \in Seq(Docs) /\ Range(Replaced(l, k.a)) \subseteq {k.a}
    <3> DEFINE d == k.a
    <3>1. d \in Docs BY <1>1
    <3> HIDE DEF d
    <3>2. /\ Replaced(l, d) \in Seq(Docs)
          /\ Range(Replaced(l, d)) = (IF Range(l) = {} THEN {} ELSE {d})
      BY <3>1, ReplacedIs
    <3> QED BY <3>2 DEF d
  <2>2. <<k.a>> \o l \in Seq(Docs) /\ Range(<<k.a>> \o l) = {k.a} \cup Range(l) BY <1>1, PutFirst
  <2> QED BY <2>1, <2>2
<1>4. << >> \in Seq(Docs) /\ Range(<< >>) = {} BY EmptyIs
<1>5. ASSUME page' \in Pages, page'.items = page.items, page'.selected => page.selected,
             Range(page'.available) \subseteq Range(page.available) \cup GivenBy(k),
             Range(page'.mine) \subseteq Range(page.mine) \cup GivenBy(k),
             Range(page'.invites) \subseteq Range(page.invites) \cup GivenBy(k),
             \A x \in Range(page'.available) : x.status = "pending",
             \A x \in Range(page'.invites) : x.status = "pending" /\ x.party = Me
      PROVE  /\ page' \in Pages /\ ListsHold' /\ (page'.selected => page.selected)
             /\ Copies' \subseteq Copies \cup GivenBy(k)
  <2>1. ListsHold' BY <1>2, <1>5 DEF ListsHold
  <2>2. Copies' \subseteq Copies \cup GivenBy(k) BY <1>5 DEF Copies
  <2> QED BY <1>5, <2>1, <2>2
<1>6. /\ \A x \in Range(page.available) : x.status = "pending"
      /\ \A x \in Range(page.invites) : x.status = "pending" /\ x.party = Me
  BY DEF BoardInv, ListsHold
<1> DEFINE loaded   == [page EXCEPT !.available = If(Open(k.a), k.a), !.mine = If(k.m.holder = Me, k.m)]
           invited  == [page EXCEPT !.invites = If(k.m.status = "pending" /\ k.m.party = Me, k.m)]
           won      == Won(k.a)
           refused  == [page EXCEPT !.available = << >>, !.selected = FALSE]
           batched  == [Won(k.a) EXCEPT !.selected = FALSE]
           accepted == [Won(k.a) EXCEPT !.details = NoPickup]
           offered  == [page EXCEPT !.available = Replaced(page.available, k.a), !.details = k.a]
           advanced == [page EXCEPT !.mine = Replaced(page.mine, k.a)]
<1>7. page' = CASE k.op = "load" -> loaded
                [] k.op = "invites" -> invited
                [] k.op = "accept" -> won
                [] k.op = "batch" -> IF k.a = NoPickup THEN refused ELSE batched
                [] k.op = "respond" /\ k.a.status = "accepted" -> accepted
                [] k.op = "offer" \/ (k.op = "respond" /\ k.a.status # "accepted") -> offered
                [] OTHER -> advanced
  BY DEF CollectorAnswered
<1> HIDE DEF loaded, invited, won, refused, batched, accepted, offered, advanced
<1>8. k.op \in PageOps BY DEF BoardInv, BoardShape, PageCallsOf
<1>9. CASE k.op = "load"
  <2> DEFINE av == If(Open(k.a), k.a)
             mi == If(k.m.holder = Me, k.m)
  <2>1. av \in Seq(Docs) /\ Range(av) \subseteq {k.a} /\ (Range(av) # {} => Open(k.a))
    BY <1>1, IfIs
  <2>2. mi \in Seq(Docs) /\ Range(mi) \subseteq {k.m} BY <1>1, IfIs
  <2>3. page' = loaded BY <1>7, <1>9
  <2>4. page' = [page EXCEPT !.available = av, !.mine = mi] BY <2>3 DEF loaded
  <2> HIDE DEF av, mi
  <2>5. /\ page' \in Pages /\ page'.available = av /\ page'.mine = mi /\ page'.invites = page.invites
        /\ page'.items = page.items /\ page'.selected = page.selected
    BY <1>2, <2>1, <2>2, <2>4 DEF Pages
  <2>6. GivenBy(k) = {k.a, k.m} BY <1>9 DEF GivenBy
  <2>7. \A x \in Range(av) : x.status = "pending" BY <2>1 DEF Open
  <2> QED BY <1>5, <1>6, <2>1, <2>2, <2>5, <2>6, <2>7
<1>10. CASE k.op = "invites"
  <2> DEFINE inv == If(k.m.status = "pending" /\ k.m.party = Me, k.m)
  <2>1. inv \in Seq(Docs) /\ Range(inv) \subseteq {k.m}
        /\ (Range(inv) # {} => k.m.status = "pending" /\ k.m.party = Me)
    BY <1>1, IfIs
  <2>2. page' = invited BY <1>7, <1>10
  <2>3. page' = [page EXCEPT !.invites = inv] BY <2>2 DEF invited
  <2> HIDE DEF inv
  <2>4. /\ page' \in Pages /\ page'.available = page.available /\ page'.mine = page.mine
        /\ page'.invites = inv /\ page'.items = page.items /\ page'.selected = page.selected
    BY <1>2, <2>1, <2>3 DEF Pages
  <2>5. GivenBy(k) = {k.m} BY <1>10 DEF GivenBy
  <2> QED BY <1>5, <1>6, <2>1, <2>4, <2>5
<1>11. CASE \/ k.op \in {"accept", "batch", "advance", "cancel"}
            \/ k.op = "respond" /\ k.a.status = "accepted"
  <2> DEFINE first    == <<k.a>> \o page.mine
             replaced == Replaced(page.mine, k.a)
             none     == << >>
             taken    == [page EXCEPT !.available = none, !.mine = first]
  <2>1. GivenBy(k) = {k.a} BY <1>11 DEF GivenBy
  <2>2. /\ first \in Seq(Docs) /\ Range(first) \subseteq Range(page.mine) \cup {k.a}
        /\ replaced \in Seq(Docs) /\ Range(replaced) \subseteq Range(page.mine) \cup {k.a}
        /\ none \in Seq(Docs) /\ Range(none) = {}
    <3>1. first \in Seq(Docs) /\ Range(first) = {k.a} \cup Range(page.mine) BY <1>2, <1>3
    <3>2. replaced \in Seq(Docs) /\ Range(replaced) \subseteq {k.a} BY <1>2, <1>3
    <3>3. none \in Seq(Docs) /\ Range(none) = {} BY <1>4
    <3> HIDE DEF first, replaced, none
    <3> QED BY <3>1, <3>2, <3>3
  <2>3. page' \in {won, refused, batched, accepted, advanced}
    <3>1. CASE k.op = "accept" BY <1>7, <3>1
    <3>2. CASE k.op = "batch" BY <1>7, <3>2
    <3>3. CASE k.op \in {"advance", "cancel"} BY <1>7, <3>3
    <3>4. CASE k.op = "respond" /\ k.a.status = "accepted" BY <1>7, <3>4
    <3> QED BY <1>11, <3>1, <3>2, <3>3, <3>4
  <2>4. /\ won = taken /\ batched = [taken EXCEPT !.selected = FALSE]
        /\ accepted = [taken EXCEPT !.details = NoPickup]
        /\ refused = [page EXCEPT !.available = none, !.selected = FALSE]
        /\ advanced = [page EXCEPT !.mine = replaced]
    BY DEF Won, won, refused, batched, accepted, advanced
  <2> HIDE DEF first, replaced, none
  <2>5. /\ taken \in Pages /\ taken.available = none /\ taken.mine = first
        /\ taken.invites = page.invites /\ taken.items = page.items /\ taken.selected = page.selected
    BY <1>2, <2>2 DEF Pages
  <2>6. CASE page' \in {won, batched, accepted}
    <3> HIDE DEF taken
    <3>1. /\ page' \in Pages /\ page'.available = none /\ page'.mine = first
          /\ page'.invites = page.invites /\ page'.items = page.items
          /\ page'.selected \in {FALSE, page.selected}
      BY <2>4, <2>5, <2>6, NoPickupIs DEF Pages
    <3> QED BY <1>5, <1>6, <2>1, <2>2, <3>1
  <2>7. CASE page' = refused
    <3>1. /\ page' \in Pages /\ page'.available = none /\ page'.mine = page.mine
          /\ page'.invites = page.invites /\ page'.items = page.items /\ page'.selected = FALSE
      BY <1>2, <2>2, <2>4, <2>7 DEF Pages
    <3> QED BY <1>5, <1>6, <2>1, <2>2, <3>1
  <2>8. CASE page' = advanced
    <3>1. /\ page' \in Pages /\ page'.available = page.available /\ page'.mine = replaced
          /\ page'.invites = page.invites /\ page'.items = page.items /\ page'.selected = page.selected
      BY <1>2, <2>2, <2>4, <2>8 DEF Pages
    <3> QED BY <1>5, <1>6, <2>1, <2>2, <3>1
  <2> QED BY <2>3, <2>6, <2>7, <2>8
<1>12. CASE k.op = "offer" \/ (k.op = "respond" /\ k.a.status # "accepted")
  <2> DEFINE av == Replaced(page.available, k.a)
  <2>1. av \in Seq(Docs) /\ Range(av) \subseteq {k.a} BY <1>2, <1>3
  <2>2. k.a.status = "pending" BY <1>12 DEF BoardInv, CallsHold
  <2>3. page' = offered BY <1>7, <1>12
  <2>4. page' = [page EXCEPT !.available = av, !.details = k.a] BY <2>3 DEF offered
  <2> HIDE DEF av
  <2>5. /\ page' \in Pages /\ page'.available = av /\ page'.mine = page.mine
        /\ page'.invites = page.invites /\ page'.items = page.items /\ page'.selected = page.selected
    BY <1>1, <1>2, <2>1, <2>4 DEF Pages
  <2>6. GivenBy(k) = {k.a} BY <1>12 DEF GivenBy
  <2> QED BY <1>5, <1>6, <2>1, <2>2, <2>5, <2>6
<1> QED BY <1>8, <1>9, <1>10, <1>11, <1>12 DEF PageOps

LEMMA RequesterShown ==
  ASSUME BoardInv, NEW k \in calls, k.at = "answered", viewer = "requester", viewer' = viewer,
         page' = RequesterAnswered(k)
  PROVE  /\ page' \in Pages /\ ListsHold' /\ (page'.selected => page.selected)
         /\ Copies' \subseteq Copies \cup {IF k.op = "load" THEN k.m ELSE k.a}
<1> DEFINE x      == IF k.op = "load" THEN k.m ELSE k.a
           one    == If(k.m.status # "absent", k.m)
           all    == Replaced(page.items, k.a)
           items  == IF k.op = "load" THEN one ELSE all
<1>1. k.a \in Docs /\ k.m \in Docs /\ x \in Docs BY DEF BoardInv, BoardShape, PageCallsOf
<1>2. page \in Pages /\ page.items \in Seq(Docs) BY DEF BoardInv, BoardShape, Pages
<1>3. one \in Seq(Docs) /\ Range(one) \subseteq {k.m} BY <1>1, IfIs
<1>4. all \in Seq(Docs) /\ Range(all) \subseteq {k.a}
  <2> DEFINE d == k.a
  <2>1. d \in Docs BY <1>1
  <2> HIDE DEF d
  <2>2. /\ Replaced(page.items, d) \in Seq(Docs)
        /\ Range(Replaced(page.items, d)) = (IF Range(page.items) = {} THEN {} ELSE {d})
    BY <1>2, <2>1, ReplacedIs
  <2> QED BY <2>2 DEF d
<1>5. page' = [page EXCEPT !.items = items] \/ page' = [page EXCEPT !.items = items, !.details = k.a]
  BY DEF RequesterAnswered
<1> HIDE DEF one, all
<1>6. items \in Seq(Docs) /\ Range(items) \subseteq {x} BY <1>3, <1>4
<1> HIDE DEF x, items
<1>7. /\ page' \in Pages /\ page'.available = page.available /\ page'.mine = page.mine
      /\ page'.invites = page.invites /\ page'.items = items /\ page'.selected = page.selected
  BY <1>1, <1>2, <1>5, <1>6 DEF Pages
<1>8. ListsHold' BY <1>7 DEF BoardInv, ListsHold
<1>9. Copies' \subseteq Copies \cup {x} BY <1>6, <1>7 DEF Copies
<1> QED BY <1>7, <1>8, <1>9 DEF x

LEMMA AnswerStep ==
  ASSUME BoardInv, NEW k \in calls, PageAnswered(k)
  PROVE  BoardInv'
<1>1. /\ k.at = "answered" /\ calls' = calls \ {k} /\ UNCHANGED <<doc, unsent, feed, viewer>>
      /\ page' = IF viewer = "requester" THEN RequesterAnswered(k) ELSE CollectorAnswered(k)
  BY DEF PageAnswered
<1>2. viewer \in Sides /\ k.a \in Docs /\ k.m \in Docs BY DEF BoardInv, BoardShape, PageCallsOf
<1> DEFINE given == IF viewer = "requester" THEN {IF k.op = "load" THEN k.m ELSE k.a} ELSE GivenBy(k)
<1>3. /\ page' \in Pages /\ ListsHold' /\ (page'.selected => page.selected)
      /\ Copies' \subseteq Copies \cup given
  BY <1>1, <1>2, CollectorShown, RequesterShown DEF Sides
<1>4. given \subseteq {k.a, k.m} BY DEF GivenBy
<1> HIDE DEF given
<1>5. Versions' \subseteq Versions BY <1>1, <1>3, <1>4 DEF Versions
<1>6. \A r \in Nat : Owed(r) => Owed(r)' BY <1>1 DEF Owed
<1>7. CallsHold' BY <1>1 DEF BoardInv, CallsHold
<1>8. CASE k.op = "batch" /\ k.a = NoPickup
  <2>1. UNCHANGED <<seen, late>> BY <1>8 DEF PageAnswered
  <2>2. given = {NoPickup} BY <1>8 DEF given, GivenBy
  <2>3. Copies' \subseteq Copies BY <1>3, <2>2 DEF Copies
  <2>4. BoardShape' BY <1>1, <1>3, <2>1 DEF BoardInv, BoardShape
  <2> QED BY <1>1, <1>3, <1>5, <1>6, <1>7, <2>1, <2>3, <2>4, CarriedOn
<1>9. CASE ~(k.op = "batch" /\ k.a = NoPickup)
  <2> DEFINE d == CarriedBy(k)
  <2>1. Takes(d) BY <1>9 DEF PageAnswered
  <2>2. d \in {k.a, k.m} BY DEF CarriedBy
  <2>3. d \in Versions \cup {NoPickup} BY <2>2 DEF Versions
  <2>4. d.rev \in Nat /\ k.a.rev \in Nat /\ k.m.rev \in Nat BY <1>2, <2>2 DEF Docs
  <2>5. \A c \in given : c.rev >= d.rev \/ c \in Copies
    <3>1. CASE k.op = "load" /\ viewer = "collector"
      <4>1. d = k.a /\ given = {k.a, k.m} BY <3>1 DEF CarriedBy, given, GivenBy
      <4>2. k.a.rev <= k.m.rev BY <1>1, <3>1 DEF BoardInv, CallsHold
      <4> QED BY <2>4, <4>1, <4>2
    <3>2. CASE k.op = "load" /\ viewer = "requester"
      <4>1. d = k.m /\ given = {k.m} BY <3>2 DEF CarriedBy, given
      <4> QED BY <2>4, <4>1
    <3>3. CASE k.op = "invites" /\ viewer = "collector"
      <4>1. d = k.m /\ given = {k.m} BY <3>3 DEF CarriedBy, given, GivenBy
      <4> QED BY <2>4, <4>1
    <3>4. CASE k.op = "invites" /\ viewer = "requester"
      BY <3>4 DEF BoardInv, CallsHold
    <3>5. CASE k.op \notin {"load", "invites"}
      <4>1. d = k.a /\ given = {k.a} BY <3>5 DEF CarriedBy, given, GivenBy
      <4> QED BY <2>4, <4>1
    <3> QED BY <1>2, <3>1, <3>2, <3>3, <3>4, <3>5 DEF Sides
  <2> HIDE DEF d
  <2>6. seen' \in Nat BY <2>1, <2>4 DEF Takes, BoardInv, BoardShape
  <2>7. BoardShape' BY <1>1, <1>3, <2>6 DEF BoardInv, BoardShape
  <2>8. \A c \in Copies' \ {NoPickup} : c.rev >= d.rev \/ c \in Copies BY <1>3, <2>5
  <2> QED BY <1>1, <1>3, <1>5, <1>6, <1>7, <2>1, <2>3, <2>7, <2>8, TakenIn
<1> QED BY <1>8, <1>9

LEMMA BoardStep ==
  ASSUME BoardInv, [BoardNext]_boardVars
  PROVE  BoardInv'
<1>1. CASE UNCHANGED boardVars
  <2>1. UNCHANGED <<doc, unsent, feed, calls, page, viewer, seen, late>> BY <1>1 DEF boardVars
  <2>2. BoardShape' BY <2>1 DEF BoardInv, BoardShape
  <2>3. ListsHold' BY <2>1 DEF BoardInv, ListsHold
  <2>4. CallsHold' BY <2>1 DEF BoardInv, CallsHold
  <2>5. Copies' = Copies BY <2>1 DEF Copies
  <2>6. Versions' = Versions BY <2>1, <2>5 DEF Versions
  <2>7. \A r \in Nat : Owed(r) => Owed(r)' BY <2>1 DEF Owed
  <2> QED BY <2>1, <2>2, <2>3, <2>4, <2>5, <2>6, <2>7, CarriedOn
<1>2. doc \in Docs /\ doc.rev \in Nat /\ viewer \in Sides /\ calls \subseteq PageCallsOf
  BY DEF BoardInv, BoardShape, Docs
<1>3. CASE BoardCreates
  <2> DEFINE d == [doc EXCEPT !.status = "pending"]
  <2>1. d \in Docs /\ d.status = "pending" BY <1>2 DEF Docs
  <2>2. /\ doc.status = "absent" /\ Written(d)
        /\ unsent' = unsent \cup {[event |-> "new", doc |-> doc']}
        /\ UNCHANGED <<feed, calls, page, viewer, seen, late>>
    BY <1>3 DEF BoardCreates
  <2> HIDE DEF d
  <2> QED BY <2>1, <2>2, WriteStep
<1>4. CASE BoardTouches
  BY <1>2, <1>4, WriteStep DEF BoardTouches
<1>5. CASE BoardReopens
  <2> DEFINE d == [doc EXCEPT !.status = "pending", !.holder = NoParty]
  <2>1. d \in Docs /\ d.status = "pending" BY <1>2 DEF Docs
  <2>2. /\ Written(d) /\ unsent' = unsent \cup {[event |-> "relisted", doc |-> doc']}
        /\ UNCHANGED <<feed, calls, page, viewer, seen, late>>
    BY <1>5 DEF BoardReopens
  <2> HIDE DEF d
  <2> QED BY <2>1, <2>2, WriteStep
<1>6. ASSUME NEW op, NEW c \in {Me, Other}, NEW side \in Sides, BoardWrites(op, c, side) PROVE BoardInv'
  <2>1. PICK d \in Outcome(op, c, side) :
          Written(d) /\ unsent' = unsent \cup {[event |-> "update", doc |-> doc']}
    BY <1>6 DEF BoardWrites
  <2>2. UNCHANGED <<feed, calls, page, viewer, seen, late>> BY <1>6 DEF BoardWrites
  <2>3. c \in BoardParties BY DEF BoardParties
  <2>4. d \in Docs /\ d.status # "absent" BY <1>2, <2>1, <2>3, OutcomeTyped
  <2> QED BY <2>1, <2>2, <2>4, WriteStep
<1>7. ASSUME NEW op \in PageOps, PageCalls(op) PROVE BoardInv'
  <2> DEFINE k == [op |-> op, at |-> "sent", a |-> NoPickup, m |-> NoPickup]
  <2>1. /\ k \in PageCallsOf /\ k.op = op /\ k.at = "sent" /\ k.a = NoPickup /\ k.m = NoPickup
    BY NoPickupIs DEF PageCallsOf
  <2>2. calls' = calls \cup {k} /\ UNCHANGED <<doc, unsent, feed, page, viewer, seen, late>>
    BY <1>7 DEF PageCalls
  <2>3. viewer = "requester" => op # "invites" BY <1>7 DEF PageCalls, Offers
  <2> HIDE DEF k
  <2>4. BoardShape' BY <2>1, <2>2 DEF BoardInv, BoardShape
  <2>5. CallsHold' BY <2>1, <2>2, <2>3 DEF BoardInv, CallsHold
  <2>6. k.at # "written" BY <2>1
  <2> QED BY <2>1, <2>2, <2>4, <2>5, <2>6, CallsStep
<1>8. ASSUME NEW k \in calls, LoadReads(k) PROVE BoardInv'
  <2>1. k \in PageCallsOf /\ k.a \in Docs BY <1>2 DEF PageCallsOf
  <2>2. k.op \in {"load", "invites"} /\ UNCHANGED <<doc, unsent, feed, page, viewer, seen, late>>
    BY <1>8 DEF LoadReads
  <2>3. CASE k.at = "sent" /\ Moves(k, [k EXCEPT !.at = "half", !.a = doc])
    <3> DEFINE next == [k EXCEPT !.at = "half", !.a = doc]
    <3>1. next \in PageCallsOf /\ next.at = "half" /\ next.op = k.op /\ next.a = doc /\ next.m = k.m
      BY <1>2, <2>1 DEF PageCallsOf
    <3>2. Moves(k, next) BY <2>3
    <3> HIDE DEF next
    <3> QED BY <2>2, <2>3, <3>1, <3>2, CallStep
  <2>4. CASE k.at = "half" /\ Moves(k, [k EXCEPT !.at = "answered", !.m = doc])
    <3> DEFINE next == [k EXCEPT !.at = "answered", !.m = doc]
    <3>1. next \in PageCallsOf /\ next.at = "answered" /\ next.op = k.op /\ next.a = k.a /\ next.m = doc
      BY <1>2, <2>1 DEF PageCallsOf
    <3>2. Moves(k, next) BY <2>4
    <3> HIDE DEF next
    <3>3. k.a.rev <= doc.rev
      <4>1. CASE k.a = NoPickup BY <1>2, <4>1, NoPickupIs
      <4>2. CASE k.a # NoPickup
        <5>1. k.a \in Versions BY <4>2 DEF Versions
        <5> QED BY <5>1 DEF BoardInv, Newest
      <4> QED BY <4>1, <4>2
    <3> QED BY <2>2, <2>4, <3>1, <3>2, <3>3, CallStep
  <2> QED BY <1>8, <2>3, <2>4 DEF LoadReads
<1>9. ASSUME NEW k \in calls, CallRefused(k) PROVE BoardInv'
  <2>1. k.at = "sent" /\ k \in PageCallsOf /\ UNCHANGED <<doc, unsent, feed, page, viewer, seen, late>>
    BY <1>2, <1>9 DEF CallRefused
  <2>2. CASE k.op = "batch"
    <3> DEFINE next == [k EXCEPT !.at = "answered"]
    <3>1. next \in PageCallsOf /\ next.at = "answered" /\ next.op = k.op /\ next.a = k.a /\ next.m = k.m
      BY <2>1 DEF PageCallsOf
    <3>2. Moves(k, next) BY <1>9, <2>2 DEF CallRefused
    <3> HIDE DEF next
    <3> QED BY <2>1, <2>2, <3>1, <3>2, CallStep
  <2>3. CASE k.op # "batch"
    <3>1. calls' = calls \ {k} BY <1>9, <2>3 DEF CallRefused
    <3>2. BoardShape' BY <2>1, <3>1 DEF BoardInv, BoardShape
    <3>3. CallsHold' BY <2>1, <3>1 DEF BoardInv, CallsHold
    <3> QED BY <2>1, <3>1, <3>2, <3>3, CallsStep
  <2> QED BY <2>2, <2>3
<1>10. ASSUME NEW k \in calls, AnswerLost(k) PROVE BoardInv'
  <2>1. k.at = "answered" /\ calls' = calls \ {k} /\ UNCHANGED <<doc, unsent, feed, page, viewer, seen, late>>
    BY <1>10 DEF AnswerLost
  <2>2. BoardShape' BY <2>1 DEF BoardInv, BoardShape
  <2>3. CallsHold' BY <2>1 DEF BoardInv, CallsHold
  <2> QED BY <2>1, <2>2, <2>3, CallsStep
<1>11. CASE PageHears BY <1>2, <1>11, AnnounceStep, UnheardStep, UpdateStep DEF Sides
<1> QED
  BY <1>1, <1>3, <1>4, <1>5, <1>6, <1>7, <1>8, <1>9, <1>10, <1>11, EmitStep, ApplyStep, CallEmitStep,
     AnswerStep, SelectStep, OpenStep DEF BoardNext

LEMMA BoardStart == BoardInit => BoardInv
<1> SUFFICES ASSUME BoardInit PROVE BoardInv OBVIOUS
<1>1. /\ doc \in {NoPickup, [NoPickup EXCEPT !.status = "pending"]} /\ doc \in Docs /\ doc.rev = 0
      /\ doc.status = "absent" => doc = NoPickup
  BY NoPickupIs DEF BoardInit
<1>2. << >> \in Seq(Docs) /\ Range(<< >>) = {} BY EmptyIs
<1>3. << >> \in Seq(Announcements({"new", "update"})) BY EmptySeq
<1>4. /\ page \in Pages /\ page.available = << >> /\ page.mine = << >> /\ page.invites = << >>
      /\ page.items = << >> /\ page.selected = FALSE
  BY <1>2, NoPickupIs DEF BoardInit, Pages
<1>5. unsent = {} /\ feed = << >> /\ calls = {} /\ viewer \in Sides /\ seen = 0 /\ late = FALSE
  BY DEF BoardInit
<1>6. Copies = {NoPickup} BY <1>2, <1>4 DEF Copies
<1>7. Versions = {doc} \ {NoPickup} BY <1>2, <1>5, <1>6 DEF Versions
<1>8. BoardShape BY <1>1, <1>3, <1>4, <1>5 DEF BoardShape
<1>9. ListsHold /\ CallsHold BY <1>2, <1>4, <1>5 DEF ListsHold, CallsHold
<1>10. Newest /\ PageKeeps BY <1>1, <1>4, <1>5, <1>6, <1>7 DEF Newest, PageKeeps, Covered
<1> QED BY <1>8, <1>9, <1>10 DEF BoardInv

LEMMA CopiesAre == BoardInv => CopiesAreCurrent
<1> SUFFICES ASSUME BoardInv, Quiet, ~late
             PROVE  /\ Copies \subseteq {doc, NoPickup}
                    /\ page.available # << >> \/ page.selected => doc.status = "pending"
                    /\ page.invites # << >> => doc.party = Me
  BY DEF CopiesAreCurrent
<1>1. \A r \in Nat : ~Owed(r) BY EmptyIs DEF Quiet, Owed
<1>2. /\ page.available \in Seq(Docs) /\ page.invites \in Seq(Docs)
      /\ doc.rev \in Nat /\ seen \in Nat
  BY DEF BoardInv, BoardShape, Pages, Docs
<1>3. ASSUME NEW c \in Copies, c # NoPickup PROVE c = doc
  <2>1. c \in Versions /\ c.rev \in Nat /\ c.rev <= doc.rev
    BY <1>3, VersionsTyped DEF Versions, BoardInv, Newest, Docs
  <2>2. c.rev >= seen BY <1>1, <1>2, <1>3 DEF BoardInv, PageKeeps
  <2>3. doc \in Versions
    <3>1. doc.status # "absent" BY <2>1 DEF BoardInv, Newest
    <3> QED BY <3>1, NoPickupIs DEF Versions
  <2>4. doc.rev <= seen \/ c.rev >= doc.rev BY <1>1, <1>2, <2>1, <2>3 DEF BoardInv, Newest, Covered
  <2> QED BY <1>2, <2>1, <2>2, <2>4 DEF BoardInv, Newest
<1>4. ASSUME page.available # << >> PROVE doc.status = "pending"
  <2>1. PICK x \in Range(page.available) : TRUE BY <1>2, <1>4, EmptyIs
  <2>2. x.status = "pending" /\ x \in Copies BY DEF BoardInv, ListsHold, Copies
  <2> QED BY <1>3, <2>2, NoPickupIs
<1>5. ASSUME page.invites # << >> PROVE doc.party = Me
  <2>1. PICK x \in Range(page.invites) : TRUE BY <1>2, <1>5, EmptyIs
  <2>2. x.status = "pending" /\ x.party = Me /\ x \in Copies BY DEF BoardInv, ListsHold, Copies
  <2> QED BY <1>3, <2>2, NoPickupIs
<1>6. page.selected => doc.status = "pending" BY <1>1 DEF BoardInv, PageKeeps
<1> QED BY <1>3, <1>4, <1>5, <1>6

LEMMA BoardTyped == BoardInv => BoardTypeOK
<1> SUFFICES ASSUME BoardInv PROVE BoardTypeOK OBVIOUS
<1>1. doc \in Docs /\ Copies \subseteq Docs /\ seen \in Nat
  BY VersionsTyped DEF BoardInv, BoardShape
<1>2. \A b \in unsent : b.doc \in Docs BY DEF BoardInv, BoardShape, Announcements
<1>3. seen \in 0..MaxWrites BY <1>1, BoardAssumption DEF BoardInv, Newest, Docs
<1> QED BY <1>1, <1>2, <1>3 DEF BoardTypeOK

\* The pickup, its copies and its announcements keep their types, and the page is
\* never given a state that was not written.
THEOREM BoardTypes == BoardSpec => []BoardTypeOK
BY BoardStart, BoardStep, BoardTyped, PTL DEF BoardSpec

\* When nothing is under way and nothing came late, every copy on the page is the
\* pickup as it is, for any number of writes and requests and either side's page
\* (the updatePickup handlers of Dashboard.jsx and MyRequests.jsx).
THEOREM CopiesCurrent == BoardSpec => []CopiesAreCurrent
BY BoardStart, BoardStep, CopiesAre, PTL DEF BoardSpec
-----------------------------------------------------------------------------
(* Chat: types.  What is on its way, in a window or in a handler's hands is  *)
(* about messages that are stored; n is how many there are.                  *)

MessageDocs == [by : People, read : BOOLEAN]

Events(n) ==
  [ev : {"typing", "stopTyping", "messagesRead"}] \cup [ev : {"message"}, id : 1..n]

Windows(n) ==
  [open : BOOLEAN, shown : Seq(1..n), fetch : {"none", "asked", "read"}, upTo : 0..n,
   otherTyping : BOOLEAN]

ChatSteps(n) ==
  {Idle} \cup [op : {"create", "read"}, by : People] \cup [op : {"emit"}, id : 1..n]

\* The handlers that are about to store a message.
Storing == {s \in Slots : At(s, "create")}

PeopleTypes ==
  /\ pastime \in ChatWork /\ courier \in Couriers \cup {Nobody}
  /\ room \subseteq online /\ joining \cup online \subseteq People
  /\ typer \in [People -> {"still", "typing", "stuck"}]

WireTypes  == wire \in [People -> Seq(Events(Len(msgs)))]
WindowTypes == win \in [People -> Windows(Len(msgs))]
StepsTypes == slots \in [Slots -> ChatSteps(Len(msgs))]

RoomForMessages ==
  /\ msgs \in Seq(MessageDocs)
  /\ IsFiniteSet(Storing) /\ Len(msgs) + Cardinality(Storing) <= MaxMessages

ChatTypes == PeopleTypes /\ WireTypes /\ WindowTypes /\ StepsTypes /\ RoomForMessages

\* Messages are only added.
LEMMA SeqGrows ==
  ASSUME NEW S, NEW T, S \subseteq T, NEW l \in Seq(S)
  PROVE  l \in Seq(T)
<1>1. l \in [1..Len(l) -> S] /\ Len(l) \in Nat BY LenProperties
<1>2. l \in [1..Len(l) -> T] BY <1>1
<1> QED BY <1>1, <1>2

LEMMA ChatGrows ==
  ASSUME NEW m \in Nat, NEW n \in Nat, m <= n
  PROVE  /\ Events(m) \subseteq Events(n)
         /\ Windows(m) \subseteq Windows(n)
         /\ ChatSteps(m) \subseteq ChatSteps(n)
<1>1. 1..m \subseteq 1..n /\ 0..m \subseteq 0..n OBVIOUS
<1>2. Seq(1..m) \subseteq Seq(1..n)
  <2> DEFINE M == 1..m
             N == 1..n
  <2>1. M \subseteq N BY <1>1
  <2> HIDE DEF M, N
  <2>2. Seq(M) \subseteq Seq(N) BY <2>1, SeqGrows
  <2> QED BY <2>2 DEF M, N
<1>3. Events(m) \subseteq Events(n) BY <1>1 DEF Events
<1>4. Windows(m) \subseteq Windows(n)
  <2> SUFFICES ASSUME NEW w \in Windows(m) PROVE w \in Windows(n) OBVIOUS
  <2>1. /\ w = [open |-> w.open, shown |-> w.shown, fetch |-> w.fetch, upTo |-> w.upTo,
                otherTyping |-> w.otherTyping]
        /\ w.open \in BOOLEAN /\ w.shown \in Seq(1..m) /\ w.fetch \in {"none", "asked", "read"}
        /\ w.upTo \in 0..m /\ w.otherTyping \in BOOLEAN
    BY DEF Windows
  <2>2. w.shown \in Seq(1..n) /\ w.upTo \in 0..n BY <1>1, <1>2, <2>1
  <2> QED BY <2>1, <2>2 DEF Windows
<1>5. ChatSteps(m) \subseteq ChatSteps(n) BY <1>1 DEF ChatSteps
<1> QED BY <1>3, <1>4, <1>5

LEMMA WindowWritten ==
  ASSUME NEW n \in Nat, NEW w \in Windows(n)
  PROVE  /\ [w EXCEPT !.open = TRUE, !.fetch = "asked"] \in Windows(n)
         /\ [w EXCEPT !.open = FALSE, !.fetch = "none", !.upTo = 0] \in Windows(n)
         /\ [w EXCEPT !.fetch = "read", !.upTo = n] \in Windows(n)
         /\ [w EXCEPT !.fetch = "none"] \in Windows(n)
         /\ \A l \in Seq(1..n) : [w EXCEPT !.fetch = "none", !.upTo = 0, !.shown = l] \in Windows(n)
         /\ \A l \in Seq(1..n) : [w EXCEPT !.shown = l] \in Windows(n)
         /\ [w EXCEPT !.otherTyping = TRUE] \in Windows(n)
         /\ [w EXCEPT !.otherTyping = FALSE] \in Windows(n)
         /\ w.upTo \in 0..n /\ w.shown \in Seq(1..n)
<1> DEFINE Lists == Seq(1..n)
           Numbers == 0..n
           Fetches == {"none", "asked", "read"}
           Panes == [open : BOOLEAN, shown : Lists, fetch : Fetches, upTo : Numbers, otherTyping : BOOLEAN]
<1>1. Windows(n) = Panes BY DEF Windows
<1>2. n \in Numbers /\ 0 \in Numbers /\ {"none", "asked", "read"} \subseteq Fetches OBVIOUS
<1> HIDE DEF Lists, Numbers, Fetches
<1>3. ASSUME NEW v \in Panes
      PROVE  /\ \A b \in BOOLEAN : [v EXCEPT !.open = b] \in Panes /\ [v EXCEPT !.otherTyping = b] \in Panes
             /\ \A x \in Fetches : [v EXCEPT !.fetch = x] \in Panes
             /\ \A x \in Numbers : [v EXCEPT !.upTo = x] \in Panes
             /\ \A x \in Lists : [v EXCEPT !.shown = x] \in Panes
             /\ v.upTo \in Numbers /\ v.shown \in Lists
  OBVIOUS
<1> HIDE DEF Panes
<1>4. w \in Panes BY <1>1
<1>5. [w EXCEPT !.open = TRUE, !.fetch = "asked"] \in Panes
  <2>1. [w EXCEPT !.open = TRUE] \in Panes BY <1>3, <1>4
  <2>2. [[w EXCEPT !.open = TRUE] EXCEPT !.fetch = "asked"] \in Panes BY <1>2, <1>3, <2>1
  <2> QED BY <2>2
<1>6. [w EXCEPT !.open = FALSE, !.fetch = "none", !.upTo = 0] \in Panes
  <2>1. [w EXCEPT !.open = FALSE] \in Panes BY <1>3, <1>4
  <2>2. [[w EXCEPT !.open = FALSE] EXCEPT !.fetch = "none"] \in Panes BY <1>2, <1>3, <2>1
  <2>3. [[[w EXCEPT !.open = FALSE] EXCEPT !.fetch = "none"] EXCEPT !.upTo = 0] \in Panes
    BY <1>2, <1>3, <2>2
  <2> QED BY <2>3
<1>7. [w EXCEPT !.fetch = "read", !.upTo = n] \in Panes
  <2>1. [w EXCEPT !.fetch = "read"] \in Panes BY <1>2, <1>3, <1>4
  <2>2. [[w EXCEPT !.fetch = "read"] EXCEPT !.upTo = n] \in Panes BY <1>2, <1>3, <2>1
  <2> QED BY <2>2
<1>8. ASSUME NEW l \in Lists
      PROVE  [w EXCEPT !.fetch = "none", !.upTo = 0, !.shown = l] \in Panes
  <2>1. [w EXCEPT !.fetch = "none"] \in Panes BY <1>2, <1>3, <1>4
  <2>2. [[w EXCEPT !.fetch = "none"] EXCEPT !.upTo = 0] \in Panes BY <1>2, <1>3, <2>1
  <2>3. [[[w EXCEPT !.fetch = "none"] EXCEPT !.upTo = 0] EXCEPT !.shown = l] \in Panes
    BY <1>2, <1>3, <2>2
  <2> QED BY <2>3
<1>9. /\ [w EXCEPT !.fetch = "none"] \in Panes
      /\ \A l \in Lists : [w EXCEPT !.shown = l] \in Panes
      /\ [w EXCEPT !.otherTyping = TRUE] \in Panes /\ [w EXCEPT !.otherTyping = FALSE] \in Panes
      /\ w.upTo \in Numbers /\ w.shown \in Lists
  BY <1>2, <1>3, <1>4
<1> QED BY <1>1, <1>5, <1>6, <1>7, <1>8, <1>9 DEF Lists, Numbers

LEMMA Emitted ==
  ASSUME NEW E, wire \in [People -> Seq(E)], NEW event \in E, NEW ps, Emit(ps, event)
  PROVE  wire' \in [People -> Seq(E)]
<1>1. \A p \in People : wire[p] \in Seq(E) OBVIOUS
<1>2. \A p \in People : Append(wire[p], event) \in Seq(E) BY <1>1, AppendProperties
<1> QED BY <1>1, <1>2 DEF Emit

\* A handler moves: those about to store a message are one more or one less.
LEMMA ChatGoes ==
  ASSUME StepsTypes, IsFiniteSet(Storing), NEW s \in Slots, NEW n \in Nat, Len(msgs) \in Nat,
         Len(msgs) <= n, Len(msgs') = n, NEW r \in ChatSteps(n), Goes(s, r)
  PROVE  /\ StepsTypes'
         /\ IsFiniteSet(Storing')
         /\ Cardinality(Storing) \in Nat /\ Cardinality(Storing') \in Nat
         /\ r.op # "create" => Cardinality(Storing') <= Cardinality(Storing)
         /\ r.op # "create" /\ At(s, "create") => Cardinality(Storing') = Cardinality(Storing) - 1
         /\ Cardinality(Storing') <= Cardinality(Storing) + 1
<1>1. slots \in [Slots -> ChatSteps(n)]
  <2>1. ChatSteps(Len(msgs)) \subseteq ChatSteps(n) BY ChatGrows
  <2> QED BY <2>1 DEF StepsTypes
<1>2. /\ slots' \in [Slots -> ChatSteps(n)] /\ slots'[s] = r
      /\ \A t \in Slots : t # s => slots'[t] = slots[t]
  BY <1>1 DEF Goes
<1>3. Cardinality(Storing) \in Nat BY FS_CardinalityType
<1>4. StepsTypes' BY <1>2 DEF StepsTypes
<1>5. CASE r.op = "create"
  <2>1. Storing' = Storing \cup {s} BY <1>2, <1>5 DEF Storing, At
  <2>2. /\ IsFiniteSet(Storing')
        /\ Cardinality(Storing') = IF s \in Storing THEN Cardinality(Storing) ELSE Cardinality(Storing) + 1
    BY <2>1, FS_AddElement
  <2> QED BY <1>3, <1>4, <1>5, <2>2
<1>6. CASE r.op # "create"
  <2>1. Storing' = Storing \ {s} BY <1>2, <1>6 DEF Storing, At
  <2>2. At(s, "create") <=> s \in Storing BY DEF Storing
  <2>3. /\ IsFiniteSet(Storing') /\ Cardinality(Storing') \in Nat
        /\ Cardinality(Storing') = IF s \in Storing THEN Cardinality(Storing) - 1 ELSE Cardinality(Storing)
    BY <2>1, FS_RemoveElement, FS_CardinalityType
  <2> QED BY <1>3, <1>4, <1>6, <2>2, <2>3
<1> QED BY <1>5, <1>6
\* A step that stores no message: the handlers may move on.
LEMMA ChatMoves ==
  ASSUME ChatTypes, msgs' \in Seq(MessageDocs), Len(msgs') = Len(msgs),
         \/ UNCHANGED slots
         \/ \E s \in Slots, r \in ChatSteps(Len(msgs)) : Goes(s, r) /\ r.op # "create"
  PROVE  StepsTypes' /\ RoomForMessages'
<1>0. Len(msgs) \in Nat /\ Cardinality(Storing) \in Nat /\ MaxMessages \in Nat
  BY ChatAssumption, LenProperties, FS_CardinalityType DEF ChatTypes, RoomForMessages
<1>1. CASE UNCHANGED slots
  <2>1. Storing' = Storing BY <1>1 DEF Storing, At
  <2> QED BY <1>1, <2>1 DEF ChatTypes, StepsTypes, RoomForMessages
<1>2. ASSUME NEW s \in Slots, NEW r \in ChatSteps(Len(msgs)), Goes(s, r), r.op # "create"
      PROVE  StepsTypes' /\ RoomForMessages'
  <2>1. StepsTypes /\ IsFiniteSet(Storing) /\ Len(msgs) <= Len(msgs)
    BY <1>0 DEF ChatTypes, RoomForMessages
  <2>2. /\ StepsTypes' /\ IsFiniteSet(Storing') /\ Cardinality(Storing') \in Nat
        /\ Cardinality(Storing') <= Cardinality(Storing)
    BY <1>0, <1>2, <2>1, ChatGoes
  <2> QED BY <1>0, <2>2 DEF ChatTypes, RoomForMessages
<1> QED BY <1>1, <1>2

LEMMA ShowsTyped ==
  ASSUME NEW n \in Nat, NEW w \in Windows(n), NEW e \in Events(n)
  PROVE  Shows(w, e) \in Windows(n)
<1>1. CASE w.open /\ e.ev = "message"
  <2>1. e.id \in 1..n BY <1>1 DEF Events
  <2>2. Append(w.shown, e.id) \in Seq(1..n)
    <3>1. w.shown \in Seq(1..n) BY WindowWritten
    <3> QED BY <2>1, <3>1, AppendProperties
  <2>3. Shows(w, e) = [w EXCEPT !.shown = Append(w.shown, e.id)] BY <1>1 DEF Shows
  <2> QED BY ZenonT(60), <2>2, <2>3, WindowWritten
<1>2. CASE w.open /\ e.ev = "typing"
  <2>1. Shows(w, e) = [w EXCEPT !.otherTyping = TRUE] BY <1>2 DEF Shows
  <2> QED BY <2>1, WindowWritten
<1>3. CASE w.open /\ e.ev = "stopTyping"
  <2>1. Shows(w, e) = [w EXCEPT !.otherTyping = FALSE] BY <1>3 DEF Shows
  <2> QED BY <2>1, WindowWritten
<1>4. CASE ~(w.open /\ e.ev \in {"message", "typing", "stopTyping"})
  <2>1. Shows(w, e) = w BY <1>4 DEF Shows
  <2> QED BY <2>1
<1> QED BY <1>1, <1>2, <1>3, <1>4

\* The windows, and what their people do at once.
LEMMA ChatPeopleStep ==
  ASSUME ChatTypes, NEW p \in People,
         OpenChat(p) \/ JoinPickup(p) \/ CloseChat(p) \/ HistoryRead(p) \/ Typing(p) \/ StopTyping(p)
           \/ Drops(p) \/ Reconnects(p)
  PROVE  ChatTypes'
<1> DEFINE n == Len(msgs)
<1>0. /\ PeopleTypes /\ msgs \in Seq(MessageDocs) /\ n \in Nat
      /\ wire \in [People -> Seq(Events(n))] /\ win \in [People -> Windows(n)]
      /\ UNCHANGED <<msgs, slots>>
  BY LenProperties DEF ChatTypes, WireTypes, WindowTypes, RoomForMessages,
        OpenChat, JoinPickup, CloseChat, HistoryRead, Typing, StopTyping, Drops, Reconnects
<1>1. StepsTypes' /\ RoomForMessages' BY <1>0, ChatMoves
<1>2. win[p] \in Windows(n) BY <1>0
<1>3. ASSUME NEW w \in Windows(n), win' = [win EXCEPT ![p] = w] PROVE WindowTypes'
  BY <1>0, <1>3 DEF WindowTypes
<1>4. ASSUME UNCHANGED win PROVE WindowTypes' BY <1>0, <1>4 DEF WindowTypes
<1>5. ASSUME UNCHANGED wire PROVE WireTypes' BY <1>0, <1>5 DEF WireTypes
<1>6. ASSUME NEW ps, NEW name \in {"typing", "stopTyping"}, Emit(ps, [ev |-> name]) PROVE WireTypes'
  <2>1. [ev |-> name] \in Events(n) BY DEF Events
  <2> QED BY <1>0, <1>6, <2>1, Emitted DEF WireTypes
<1>7. CASE OpenChat(p)
  <2>1. [win[p] EXCEPT !.open = TRUE, !.fetch = "asked"] \in Windows(n) BY <1>0, <1>2, WindowWritten
  <2>2. win' = [win EXCEPT ![p] = [win[p] EXCEPT !.open = TRUE, !.fetch = "asked"]]
    BY <1>0, <1>7 DEF OpenChat
  <2>3. PeopleTypes' BY <1>0, <1>7 DEF OpenChat, PeopleTypes
  <2>4. WindowTypes' BY <1>3, <2>1, <2>2
  <2> QED BY <1>1, <1>5, <1>7, <2>3, <2>4 DEF ChatTypes, OpenChat
<1>8. CASE JoinPickup(p)
  <2>1. PeopleTypes' BY <1>0, <1>8 DEF JoinPickup, PeopleTypes
  <2> QED BY <1>1, <1>4, <1>5, <1>8, <2>1 DEF ChatTypes, JoinPickup
<1>9. CASE CloseChat(p)
  <2>1. [win[p] EXCEPT !.open = FALSE, !.fetch = "none", !.upTo = 0] \in Windows(n)
    BY <1>0, <1>2, WindowWritten
  <2>2. win' = [win EXCEPT ![p] = [win[p] EXCEPT !.open = FALSE, !.fetch = "none", !.upTo = 0]]
    BY <1>0, <1>9 DEF CloseChat
  <2>3. PeopleTypes' BY <1>0, <1>9 DEF CloseChat, PeopleTypes
  <2>4. WindowTypes' BY <1>3, <2>1, <2>2
  <2> QED BY <1>1, <1>5, <1>9, <2>3, <2>4 DEF ChatTypes, CloseChat
<1>10. CASE HistoryRead(p)
  <2>1. /\ [win[p] EXCEPT !.fetch = "read", !.upTo = n] \in Windows(n)
        /\ [win[p] EXCEPT !.fetch = "none"] \in Windows(n)
    BY <1>0, <1>2, WindowWritten
  <2>2. \/ win' = [win EXCEPT ![p] = [win[p] EXCEPT !.fetch = "read", !.upTo = n]]
        \/ win' = [win EXCEPT ![p] = [win[p] EXCEPT !.fetch = "none"]]
    BY <1>0, <1>10 DEF HistoryRead
  <2>3. WindowTypes' BY <1>3, <2>1, <2>2
  <2>4. PeopleTypes' BY <1>0, <1>10 DEF HistoryRead, PeopleTypes
  <2> QED BY <1>1, <1>5, <1>10, <2>3, <2>4 DEF ChatTypes, HistoryRead
<1>11. CASE Typing(p)
  <2>1. PeopleTypes' BY <1>0, <1>11 DEF Typing, PeopleTypes
  <2>2. WireTypes' BY <1>5, <1>6, <1>11 DEF Typing
  <2> QED BY <1>1, <1>4, <1>11, <2>1, <2>2 DEF ChatTypes, Typing
<1>12. CASE StopTyping(p)
  <2>1. PeopleTypes' BY <1>0, <1>12 DEF StopTyping, PeopleTypes
  <2>2. WireTypes' BY <1>6, <1>12 DEF StopTyping
  <2> QED BY <1>1, <1>4, <1>12, <2>1, <2>2 DEF ChatTypes, StopTyping
<1>13. CASE Drops(p)
  <2>1. PeopleTypes' BY <1>0, <1>13 DEF Drops, PeopleTypes
  <2>2. WireTypes'
    <3>1. << >> \in Seq(Events(n)) OBVIOUS
    <3> QED BY <1>0, <1>13, <3>1 DEF Drops, WireTypes
  <2> QED BY <1>1, <1>4, <1>13, <2>1, <2>2 DEF ChatTypes, Drops
<1>14. CASE Reconnects(p)
  <2>1. PeopleTypes' BY <1>0, <1>14 DEF Reconnects, PeopleTypes
  <2> QED BY <1>1, <1>4, <1>5, <1>14, <2>1 DEF ChatTypes, Reconnects
<1> QED BY <1>7, <1>8, <1>9, <1>10, <1>11, <1>12, <1>13, <1>14

\* The handlers of the server, and what reaches a window.
LEMMA ChatServerStep ==
  ASSUME ChatTypes, NEW s \in Slots,
         \/ \E p \in People : HistoryShown(s, p) \/ SendMessage(s, p) \/ Delivered(s, p)
         \/ MessageStored(s) \/ MessageEmitted(s) \/ MarkMessagesRead(s)
  PROVE  ChatTypes'
<1> DEFINE n == Len(msgs)
<1>0. /\ PeopleTypes /\ StepsTypes /\ msgs \in Seq(MessageDocs) /\ n \in Nat /\ MaxMessages \in Nat
      /\ wire \in [People -> Seq(Events(n))] /\ win \in [People -> Windows(n)]
      /\ slots[s] \in ChatSteps(n)
      /\ IsFiniteSet(Storing) /\ Cardinality(Storing) \in Nat
      /\ n + Cardinality(Storing) <= MaxMessages
  BY LenProperties, ChatAssumption, FS_CardinalityType
     DEF ChatTypes, WireTypes, WindowTypes, StepsTypes, RoomForMessages
<1>1. /\ slots[s].op \in {"create", "read"} => slots[s].by \in People
      /\ slots[s].op = "emit" => slots[s].id \in 1..n
  BY <1>0 DEF ChatSteps, Idle
<1>2. Idle \in ChatSteps(n) /\ Idle.op # "create" BY DEF ChatSteps, Idle
<1>3. ASSUME NEW p \in People
      PROVE  /\ [op |-> "read", by |-> p] \in ChatSteps(n)
             /\ [op |-> "create", by |-> p] \in ChatSteps(n)
             /\ [op |-> "read", by |-> p].op # "create"
  BY DEF ChatSteps
<1> HIDE DEF n
<1>4. ASSUME NEW p \in People, HistoryShown(s, p) PROVE ChatTypes'
  <2> DEFINE l == [i \in 1..win[p].upTo |-> i]
             w == [win[p] EXCEPT !.fetch = "none", !.upTo = 0, !.shown = l]
  <2>1. l \in Seq(1..n)
    <3>1. win[p].upTo \in 0..n BY <1>0, WindowWritten
    <3>2. l \in [1..win[p].upTo -> 1..n] /\ win[p].upTo \in Nat BY <1>0, <3>1
    <3> QED BY <3>2, FunctionIsSeq
  <2>2. w \in Windows(n) BY <1>0, <2>1, WindowWritten
  <2>3. win' = [win EXCEPT ![p] = w] BY <1>0, <1>4 DEF HistoryShown
  <2> HIDE DEF w
  <2>4. WindowTypes' BY <1>0, <1>4, <2>2, <2>3 DEF HistoryShown, WindowTypes, n
  <2>5. WireTypes' /\ PeopleTypes' BY <1>0, <1>4 DEF HistoryShown, WireTypes, PeopleTypes, n
  <2>6. UNCHANGED msgs /\ Goes(s, [op |-> "read", by |-> p]) BY <1>4 DEF HistoryShown, Starts
  <2>7. StepsTypes' /\ RoomForMessages' BY <1>0, <1>3, <2>6, ChatMoves DEF n
  <2> QED BY <2>4, <2>5, <2>7 DEF ChatTypes
<1>5. ASSUME NEW p \in People, SendMessage(s, p) PROVE ChatTypes'
  <2>1. UNCHANGED msgs /\ Goes(s, [op |-> "create", by |-> p]) BY <1>5 DEF SendMessage, Starts
  <2>2. WireTypes'
    <3>1. [ev |-> "stopTyping"] \in Events(n) BY DEF Events
    <3>2. wire' \in [People -> Seq(Events(n))] BY <1>0, <1>5, <3>1, Emitted DEF SendMessage
    <3> QED BY <2>1, <3>2 DEF WireTypes, n
  <2>3. WindowTypes' /\ PeopleTypes' BY <1>0, <1>5 DEF SendMessage, WindowTypes, PeopleTypes, n
  <2>4. n < MaxMessages /\ n + Cardinality(Storing) < MaxMessages
    <3>1. n + Cardinality(Storing) < MaxMessages BY <1>5 DEF SendMessage, Storing, n
    <3> QED BY <1>0, <3>1
  <2>5. /\ StepsTypes' /\ IsFiniteSet(Storing') /\ Cardinality(Storing') \in Nat
        /\ Cardinality(Storing') <= Cardinality(Storing) + 1
    <3>1. n <= n /\ Len(msgs') = n /\ Len(msgs) = n BY <1>0, <2>1 DEF n
    <3> QED BY <1>0, <1>3, <2>1, <3>1, ChatGoes
  <2>6. RoomForMessages'
    <3>1. n + Cardinality(Storing') <= MaxMessages BY <1>0, <2>4, <2>5
    <3> QED BY <1>0, <2>1, <2>5, <3>1 DEF RoomForMessages, n
  <2> QED BY <2>2, <2>3, <2>5, <2>6 DEF ChatTypes
<1>6. ASSUME NEW p \in People, Delivered(s, p) PROVE ChatTypes'
  <2> DEFINE e == Head(wire[p])
  <2>1. wire[p] \in Seq(Events(n)) /\ wire[p] # << >> BY <1>0, <1>6 DEF Delivered
  <2>2. e \in Events(n) /\ Tail(wire[p]) \in Seq(Events(n)) BY <2>1, HeadTailProperties
  <2>3. /\ win' = [win EXCEPT ![p] = Shows(win[p], e)]
        /\ wire' = [wire EXCEPT ![p] = Tail(wire[p])]
        /\ Goes(s, [op |-> "read", by |-> p]) \/ UNCHANGED slots
        /\ UNCHANGED msgs
    BY <1>6 DEF Delivered, Starts
  <2>4. PeopleTypes' BY <1>0, <1>6 DEF Delivered, PeopleTypes
  <2> HIDE DEF e
  <2>5. Shows(win[p], e) \in Windows(n) BY <1>0, <2>2, ShowsTyped
  <2>6. WindowTypes' BY <1>0, <2>3, <2>5 DEF WindowTypes, n
  <2>7. WireTypes' BY <1>0, <2>2, <2>3 DEF WireTypes, n
  <2>8. StepsTypes' /\ RoomForMessages' BY <1>0, <1>3, <2>3, ChatMoves DEF n
  <2> QED BY <2>4, <2>6, <2>7, <2>8 DEF ChatTypes
<1>7. CASE MessageStored(s)
  <2> DEFINE message == [by |-> slots[s].by, read |-> FALSE]
             r == [op |-> "emit", id |-> n + 1]
  <2>1. /\ msgs' = Append(msgs, message) /\ Goes(s, r) /\ At(s, "create")
        /\ UNCHANGED <<pastime, courier, room, joining, online, wire, typer, win>>
    BY <1>7 DEF MessageStored, n
  <2>2. message \in MessageDocs BY <1>1, <2>1 DEF MessageDocs, At
  <2> HIDE DEF message
  <2>3. msgs' \in Seq(MessageDocs) /\ Len(msgs') = n + 1 /\ n + 1 \in Nat /\ n <= n + 1
    BY <1>0, <2>1, <2>2, AndOneMore DEF n
  <2>4. r \in ChatSteps(n + 1) /\ r.op # "create" BY <1>0 DEF ChatSteps
  <2> HIDE DEF r
  <2>5. /\ StepsTypes' /\ IsFiniteSet(Storing') /\ Cardinality(Storing') \in Nat
        /\ Cardinality(Storing') = Cardinality(Storing) - 1
    <3>1. Len(msgs) = n BY DEF n
    <3> QED BY <1>0, <2>1, <2>3, <2>4, <3>1, ChatGoes
  <2>6. RoomForMessages' BY <1>0, <2>3, <2>5 DEF RoomForMessages
  <2>7. Events(n) \subseteq Events(n + 1) /\ Windows(n) \subseteq Windows(n + 1)
    BY <1>0, <2>3, ChatGrows
  <2>8. WireTypes'
    <3>1. \A p \in People : wire[p] \in Seq(Events(n + 1)) BY <1>0, <2>7, SeqGrows
    <3> QED BY <1>0, <2>1, <2>3, <3>1 DEF WireTypes
  <2>9. WindowTypes' BY <1>0, <2>1, <2>3, <2>7 DEF WindowTypes
  <2>10. PeopleTypes' BY <1>0, <2>1 DEF PeopleTypes
  <2> QED BY <2>5, <2>6, <2>8, <2>9, <2>10 DEF ChatTypes
<1>8. CASE MessageEmitted(s)
  <2>1. UNCHANGED msgs /\ Goes(s, Idle) BY <1>8 DEF MessageEmitted, Ends
  <2>2. WireTypes'
    <3>1. [ev |-> "message", id |-> slots[s].id] \in Events(n)
      BY <1>1, <1>8 DEF Events, MessageEmitted, At
    <3>2. wire' \in [People -> Seq(Events(n))]
      BY <1>0, <1>8, <3>1, Emitted DEF MessageEmitted, EmitMessage
    <3> QED BY <2>1, <3>2 DEF WireTypes, n
  <2>3. WindowTypes' /\ PeopleTypes' BY <1>0, <1>8 DEF MessageEmitted, WindowTypes, PeopleTypes, n
  <2>4. StepsTypes' /\ RoomForMessages' BY <1>0, <1>2, <2>1, ChatMoves DEF n
  <2> QED BY <2>2, <2>3, <2>4 DEF ChatTypes
<1>9. CASE MarkMessagesRead(s)
  <2> DEFINE unread == {i \in DOMAIN msgs : msgs[i].by # slots[s].by /\ ~msgs[i].read}
             marked == [i \in DOMAIN msgs |-> IF i \in unread THEN [msgs[i] EXCEPT !.read = TRUE]
                                                              ELSE msgs[i]]
  <2>1. /\ Goes(s, Idle)
        /\ \/ msgs' = marked /\ Emit(People, [ev |-> "messagesRead"])
           \/ UNCHANGED <<msgs, wire>>
    BY <1>9 DEF MarkMessagesRead, Ends
  <2> HIDE DEF unread
  <2>2. marked \in Seq(MessageDocs) /\ Len(marked) = n
    <3>1. DOMAIN msgs = 1..n BY <1>0, LenProperties DEF n
    <3>2. ASSUME NEW i \in 1..n
          PROVE  msgs[i] \in MessageDocs /\ [msgs[i] EXCEPT !.read = TRUE] \in MessageDocs
      <4>1. msgs[i] \in MessageDocs BY <1>0, ElementOfSeq DEF n
      <4> QED BY <4>1 DEF MessageDocs
    <3>3. marked \in [1..n -> MessageDocs] BY <3>1, <3>2
    <3> HIDE DEF marked
    <3> QED BY <1>0, <3>3
  <2> HIDE DEF marked
  <2>3. msgs' \in Seq(MessageDocs) /\ Len(msgs') = n BY <1>0, <2>1, <2>2 DEF n
  <2>4. WireTypes'
    <3>1. [ev |-> "messagesRead"] \in Events(n) BY DEF Events
    <3>2. wire' \in [People -> Seq(Events(n))] BY <1>0, <2>1, <3>1, Emitted
    <3> QED BY <2>3, <3>2 DEF WireTypes
  <2>5. WindowTypes' /\ PeopleTypes'
    BY <1>0, <1>9, <2>3 DEF MarkMessagesRead, WindowTypes, PeopleTypes
  <2>6. StepsTypes' /\ RoomForMessages' BY <1>0, <1>2, <2>1, <2>3, ChatMoves DEF n
  <2> QED BY <2>4, <2>5, <2>6 DEF ChatTypes
<1> QED BY <1>4, <1>5, <1>6, <1>7, <1>8, <1>9

\* A conversation is always of its types: whatever is on its way to a window, and
\* whatever a window shows or is about to show, is a message that is stored.
THEOREM ChatIsTyped == ChatSpec => []ChatTypeOK
<1>1. ChatInit => ChatTypes
  <2> SUFFICES ASSUME ChatInit PROVE ChatTypes OBVIOUS
  <2>1. Storing = {} /\ Len(msgs) = 0 /\ msgs \in Seq(MessageDocs)
    BY DEF ChatInit, Storing, At, AllIdle, Idle
  <2>2. RoomForMessages
    <3>1. IsFiniteSet({}) /\ Cardinality({}) = 0 BY FS_EmptySet
    <3>2. MaxMessages \in Nat BY ChatAssumption
    <3>3. IsFiniteSet(Storing) /\ Cardinality(Storing) = 0 BY <2>1, <3>1
    <3> QED BY <2>1, <3>2, <3>3 DEF RoomForMessages
  <2>3. StepsTypes BY DEF ChatInit, StepsTypes, AllIdle, ChatSteps
  <2>4. WireTypes BY DEF ChatInit, WireTypes
  <2>5. WindowTypes
    <3>1. ClosedWindow \in Windows(0)
      <4>1. << >> \in Seq(1..0) /\ 0 \in 0..0 OBVIOUS
      <4> QED BY <4>1 DEF ClosedWindow, Windows
    <3> QED BY <2>1, <3>1 DEF ChatInit, WindowTypes
  <2>6. PeopleTypes BY DEF ChatInit, PeopleTypes
  <2> QED BY <2>2, <2>3, <2>4, <2>5, <2>6 DEF ChatTypes
<1>2. ChatTypes /\ [ChatNext]_chatVars => ChatTypes'
  <2> SUFFICES ASSUME ChatTypes, [ChatNext]_chatVars PROVE ChatTypes' OBVIOUS
  <2>1. ASSUME courier' \in Couriers \cup {Nobody},
               UNCHANGED <<pastime, msgs, room, joining, online, wire, typer, win, slots>>
        PROVE  ChatTypes'
    <3>1. StepsTypes' /\ RoomForMessages' BY <2>1, ChatMoves DEF ChatTypes, RoomForMessages
    <3> QED BY <2>1, <3>1 DEF ChatTypes, PeopleTypes, WireTypes, WindowTypes
  <2>2. ASSUME NEW c \in Couriers, HandsOff(c) PROVE ChatTypes' BY <2>1, <2>2 DEF HandsOff
  <2>3. CASE UNCHANGED chatVars BY <2>1, <2>3 DEF chatVars, ChatTypes, PeopleTypes
  <2> QED BY <2>2, <2>3, ChatPeopleStep, ChatServerStep DEF ChatNext
<1>3. ChatTypes => ChatTypeOK
  <2> SUFFICES ASSUME ChatTypes PROVE ChatTypeOK OBVIOUS
  <2> DEFINE n == Len(msgs)
             Event == [ev : {"typing", "stopTyping", "messagesRead"}] \cup [ev : {"message"}, id : Nat]
  <2>0. /\ PeopleTypes /\ msgs \in Seq(MessageDocs) /\ n \in Nat /\ DOMAIN msgs = 1..n
        /\ wire \in [People -> Seq(Events(n))] /\ win \in [People -> Windows(n)]
        /\ Cardinality(Storing) \in Nat /\ n + Cardinality(Storing) <= MaxMessages
    BY LenProperties, FS_CardinalityType
       DEF ChatTypes, WireTypes, WindowTypes, RoomForMessages
  <2>1. n <= MaxMessages
    <3>1. MaxMessages \in Nat BY ChatAssumption
    <3> DEFINE c == Cardinality(Storing)
    <3>2. c \in Nat /\ n + c <= MaxMessages BY <2>0
    <3> HIDE DEF c, n
    <3> QED BY <2>0, <3>1, <3>2
  <2>2. ASSUME NEW p \in People PROVE Range(wire[p]) \subseteq Event
    <3>1. Range(wire[p]) \subseteq Events(n)
      <4>1. wire[p] \in Seq(Events(n)) BY <2>0
      <4> QED BY <4>1, InRange
    <3>2. Events(n) \subseteq Event BY <2>0 DEF Events
    <3> QED BY <3>1, <3>2
  <2>3. ASSUME NEW p \in People
        PROVE  /\ win[p].fetch \in {"none", "asked", "read"}
               /\ win[p].upTo \in 0..n /\ Range(win[p].shown) \subseteq DOMAIN msgs
    <3>1. win[p] \in Windows(n) BY <2>0
    <3>2. win[p].fetch \in {"none", "asked", "read"} /\ win[p].upTo \in 0..n /\ win[p].shown \in Seq(1..n)
      BY <2>0, <3>1 DEF Windows
    <3>3. Range(win[p].shown) \subseteq 1..n BY <3>2, InRange
    <3> QED BY <2>0, <3>2, <3>3
  <2> QED BY <2>0, <2>1, <2>2, <2>3 DEF ChatTypeOK, PeopleTypes
<1> QED BY <1>1, <1>2, <1>3, PTL DEF ChatSpec

=============================================================================
