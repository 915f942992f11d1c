--------------------------- MODULE Client_proofs ---------------------------
(***************************************************************************)
(* Proofs about the web client: Session, Request, Controls and Screens, for *)
(* any accounts, photos, items, collectors and number of calls at a time.   *)
(***************************************************************************)
EXTENDS Session, Request, Controls, Screens, Sequence_lemmas

-----------------------------------------------------------------------------
(* Session.                                                                 *)

TabCalls ==
  [what : Forms, as : Visitors \cup {Null, SignedOut}, shownTo : Visitors \cup {SignedOut},
   answer : {"none", "ok", "mistake", "expired"}]

\* A good answer is to the token of somebody, and a form of the profile page was
\* shown to somebody.
CallsAreOfSomebody ==
  \A c \in asked : /\ c.answer = "ok" => c.as \in Visitors
                   /\ c.what # "login" => c.shownTo \in Visitors

SessionInv == SessionTypeOK /\ CallsAreOfSomebody /\ TabAgrees

LEMMA CallAnswered ==
  ASSUME NEW c \in TabCalls, NEW a \in {"ok", "mistake", "expired"}
  PROVE  /\ [c EXCEPT !.answer = a] \in TabCalls
         /\ [c EXCEPT !.answer = a].answer = a
         /\ [c EXCEPT !.answer = a].what = c.what
         /\ [c EXCEPT !.answer = a].as = c.as
         /\ [c EXCEPT !.answer = a].shownTo = c.shownTo
BY DEF TabCalls

LEMMA SessionStep ==
  ASSUME SessionInv, [SessionNext]_sessionVars
  PROVE  SessionInv'
<1> USE SessionAssumption
<1>0. /\ asked \subseteq TabCalls
      /\ stored \in [token : Visitors \cup {Null, SignedOut}, user : Visitors \cup {SignedOut}]
      /\ tab \in Visitors \cup {SignedOut}
  BY DEF SessionInv, SessionTypeOK, TabCalls
<1>1. ASSUME asked' \subseteq asked, stored' \in [token : Visitors \cup {Null}, user : Visitors],
             tab' = stored'.user
      PROVE  SessionInv'
  BY <1>0, <1>1 DEF SessionInv, SessionTypeOK, CallsAreOfSomebody, TabAgrees, ReadStoredUser
<1>2. ASSUME asked' \subseteq asked, stored' = Cleared, tab' = SignedOut
      PROVE  SessionInv'
  BY <1>0, <1>2 DEF SessionInv, SessionTypeOK, CallsAreOfSomebody, TabAgrees, ReadStoredUser, Cleared
<1>3. ASSUME asked' \subseteq asked, UNCHANGED <<stored, tab, told>>
      PROVE  SessionInv'
  BY <1>0, <1>3 DEF SessionInv, SessionTypeOK, CallsAreOfSomebody, TabAgrees, ReadStoredUser
<1>4. ASSUME NEW what \in Forms, NEW as \in Visitors \cup {Null, SignedOut}, Asks(what, as),
             what # "login" => tab \in Visitors
      PROVE  SessionInv'
  <2> DEFINE c == [what |-> what, as |-> as, shownTo |-> tab, answer |-> "none"]
  <2>1. c \in TabCalls BY <1>0 DEF TabCalls
  <2>2. /\ asked' = asked \cup {c} /\ UNCHANGED <<stored, tab, told>>
        /\ c.answer = "none" /\ c.what = what /\ c.shownTo = tab
    BY <1>4 DEF Asks
  <2> HIDE DEF c
  <2>3. asked' \subseteq TabCalls BY <1>0, <2>1, <2>2
  <2>4. CallsAreOfSomebody' BY <1>4, <2>2 DEF SessionInv, CallsAreOfSomebody
  <2> QED BY <2>2, <2>3, <2>4
          DEF SessionInv, SessionTypeOK, TabCalls, TabAgrees, ReadStoredUser
<1>5. ASSUME NEW who \in Visitors, AskToSignIn(who) PROVE SessionInv'
  BY <1>4, <1>5 DEF AskToSignIn, Forms
<1>6. ASSUME NEW what \in Forms, AskSignedIn(what) PROVE SessionInv'
  <2>1. stored.token \in Visitors \cup {Null, SignedOut} BY <1>0
  <2> QED BY <1>0, <1>4, <1>6, <2>1 DEF AskSignedIn
<1>7. ASSUME NEW c \in asked, ServerAnswers(c) PROVE SessionInv'
  <2>1. PICK a \in Answers(c) : asked' = (asked \ {c}) \cup {[c EXCEPT !.answer = a]}
    BY <1>7 DEF ServerAnswers
  <2>2. a \in {"ok", "mistake", "expired"} /\ (a = "ok" => c.as \in Visitors) BY DEF Answers
  <2>3. c \in TabCalls BY <1>0
  <2> DEFINE new == [c EXCEPT !.answer = a]
  <2>4. /\ new \in TabCalls /\ new.answer = a /\ new.what = c.what /\ new.as = c.as
        /\ new.shownTo = c.shownTo
    BY <2>2, <2>3, CallAnswered
  <2>5. asked' = (asked \ {c}) \cup {new} BY <2>1
  <2>6. UNCHANGED <<stored, tab, told>> BY <1>7 DEF ServerAnswers
  <2> HIDE DEF new
  <2>7. asked' \subseteq TabCalls BY <1>0, <2>4, <2>5
  <2>8. CallsAreOfSomebody' BY <2>2, <2>4, <2>5 DEF SessionInv, CallsAreOfSomebody
  <2> QED BY <2>6, <2>7, <2>8 DEF SessionInv, SessionTypeOK, TabCalls, TabAgrees, ReadStoredUser
<1>8. ASSUME NEW c \in asked, Succeeds(c) PROVE SessionInv'
  <2>1. c.as \in Visitors /\ (c.what # "login" => c.shownTo \in Visitors) /\ c.what \in Forms
    BY <1>0, <1>8 DEF Succeeds, SessionInv, CallsAreOfSomebody, TabCalls
  <2>2. asked' \subseteq asked BY <1>8 DEF Succeeds
  <2>3. TokenText \in Visitors \cup {Null} BY <1>0 DEF TokenText
  <2>4. CASE c.what \in {"login", "profile", "password"}
    <3>1. PICK token \in Visitors \cup {Null}, user \in Visitors : StoreSession(token, user)
      BY <1>8, <2>1, <2>3, <2>4 DEF Succeeds
    <3> QED BY <1>1, <2>2, <3>1 DEF StoreSession
  <2>5. CASE c.what = "delete" BY <1>2, <1>8, <2>2, <2>5 DEF Succeeds, LogOut
  <2>6. CASE c.what = "other" BY <1>3, <1>8, <2>2, <2>6 DEF Succeeds
  <2> QED BY <2>1, <2>4, <2>5, <2>6 DEF Forms
<1>9. ASSUME NEW c \in asked, Unauthorized(c) PROVE SessionInv'
  <2>1. asked' \subseteq asked /\ stored' = Cleared /\ tab' = SignedOut BY <1>9 DEF Unauthorized
  <2> QED BY <1>2, <2>1
<1>10. CASE SignOut BY <1>2, <1>10 DEF SignOut, LogOut
<1>11. ASSUME NEW who \in Visitors, OtherTab([token |-> who, user |-> who]) PROVE SessionInv'
  BY <1>0, <1>11 DEF OtherTab, SessionInv, SessionTypeOK, CallsAreOfSomebody, TabAgrees
<1>12. CASE OtherTab(Cleared)
  BY <1>0, <1>12 DEF OtherTab, Cleared, SessionInv, SessionTypeOK, CallsAreOfSomebody, TabAgrees
<1>13. CASE HearOfIt
  BY <1>0, <1>13 DEF HearOfIt, ReadStoredUser, SessionInv, SessionTypeOK, CallsAreOfSomebody, TabAgrees
<1>14. CASE UNCHANGED sessionVars BY <1>3, <1>14 DEF sessionVars
<1> QED BY <1>5, <1>6, <1>7, <1>8, <1>9, <1>10, <1>11, <1>12, <1>13, <1>14 DEF SessionNext

\* The state of a tab has its type, and a tab that has heard of every change of the
\* store shows the user that is stored, in whatever order its calls are answered.
THEOREM TabFollows == SessionSpec => [](SessionTypeOK /\ TabAgrees)
<1>1. SessionInit => SessionInv
  BY SessionAssumption DEF SessionInit, SessionInv, SessionTypeOK, CallsAreOfSomebody, TabAgrees,
     ReadStoredUser, Cleared
<1>2. SessionInv /\ [SessionNext]_sessionVars => SessionInv' BY SessionStep
<1>3. SessionInv => SessionTypeOK /\ TabAgrees BY DEF SessionInv
<1> QED BY <1>1, <1>2, <1>3, PTL DEF SessionSpec

-----------------------------------------------------------------------------
(* Request.                                                                 *)

Posts ==
  [photo : Nat, preview : Nat, coupon : BOOLEAN, invited : BOOLEAN, repeats : BOOLEAN]

PageSteps ==
  [at : {"form", "creating", "created", "invited", "left"}, form : Posts \cup {<< >>}]

\* A form that was pressed, and every pickup made of one, has the photo that was
\* shown; and so has the page, once the newest photo is compressed.
PhotoShape ==
  /\ picked \in Nat /\ file \in Nat /\ busy \in BOOLEAN
  /\ posted \in Seq(Posts)
  /\ step \in PageSteps
  /\ step.at = "creating" => step.form \in Posts /\ step.form.photo = step.form.preview
  /\ step.at \in {"created", "invited"} => posted # << >>
  /\ ~busy => file = picked
  /\ PhotoIsTheOneShown

LEMMA PostMarked ==
  ASSUME NEW p \in Posts
  PROVE  /\ [p EXCEPT !.invited = TRUE] \in Posts
         /\ [p EXCEPT !.invited = TRUE].photo = p.photo
         /\ [p EXCEPT !.invited = TRUE].preview = p.preview
         /\ [p EXCEPT !.repeats = TRUE] \in Posts
         /\ [p EXCEPT !.repeats = TRUE].photo = p.photo
         /\ [p EXCEPT !.repeats = TRUE].preview = p.preview
BY DEF Posts

LEMMA PageMoves ==
  ASSUME NEW s \in PageSteps, NEW at \in {"created", "invited", "left"}
  PROVE  [s EXCEPT !.at = at] \in PageSteps /\ [s EXCEPT !.at = at].at = at
BY DEF PageSteps

LEMMA PhotoStep ==
  ASSUME PhotoShape, [RequestNext]_requestVars
  PROVE  PhotoShape'
<1>1. ASSUME UNCHANGED <<picked, file, busy, posted, step>> PROVE PhotoShape'
  BY <1>1 DEF PhotoShape, PhotoIsTheOneShown
<1>2. CASE EditItems \/ VoiceRequest \/ ScrapPhotoSuggest \/ ApplyCoupon \/ Locate \/ Repeat
           \/ UNCHANGED requestVars
  BY <1>1, <1>2 DEF EditItems, VoiceRequest, ScrapPhotoSuggest, ApplyCoupon, Locate, Repeat,
                    requestVars, photoVars
<1>3. CASE HandleFile
  BY <1>3 DEF HandleFile, PhotoShape, PhotoIsTheOneShown
<1>4. CASE CompressImage
  <2>1. PICK f \in atWork : Compressed(f) BY <1>4 DEF CompressImage
  <2>2. UNCHANGED <<picked, posted, step>> BY <1>4 DEF CompressImage
  <2>3. CASE f = picked BY <2>1, <2>2, <2>3 DEF Compressed, PhotoShape, PhotoIsTheOneShown
  <2>4. CASE f # picked BY <1>1, <2>1, <2>2, <2>4 DEF Compressed
  <2> QED BY <2>3, <2>4
<1>5. CASE HandleSubmit
  <2> DEFINE coupon == promo = "applied"
  <2>1. coupon \in BOOLEAN OBVIOUS
  <2>2. FormData = [photo |-> file, preview |-> picked, coupon |-> coupon,
                    invited |-> FALSE, repeats |-> FALSE]
    BY DEF FormData
  <2> HIDE DEF coupon
  <2>3. FormData \in Posts /\ FormData.photo = file /\ FormData.preview = picked
    BY <2>1, <2>2 DEF PhotoShape, Posts
  <2>4. /\ UNCHANGED <<picked, file, busy, posted>> /\ ~busy
        /\ step' = [at |-> "creating", form |-> FormData]
    BY <1>5 DEF HandleSubmit, FormFields, photoVars
  <2> DEFINE form == FormData
  <2>5. step' = [at |-> "creating", form |-> form] BY <2>4
  <2> HIDE DEF form
  <2>6. step' \in PageSteps /\ step'.at = "creating" /\ step'.form = form
    BY <2>3, <2>5 DEF PageSteps, form
  <2> QED BY <2>3, <2>4, <2>6 DEF PhotoShape, PhotoIsTheOneShown, form
<1>6. CASE CreatePickup
  <2>1. UNCHANGED <<picked, file, busy>> BY <1>6 DEF CreatePickup, FormFields, photoVars
  <2>2. step.form \in Posts /\ step.form.photo = step.form.preview
    BY <1>6 DEF CreatePickup, PhotoShape
  <2>3. /\ step' \in PageSteps /\ step'.at # "creating"
        /\ step'.at \in {"created", "invited"} => posted' = Append(posted, step.form)
    <3>1. CASE step' = AtForm BY <3>1 DEF AtForm, PageSteps
    <3>2. CASE step' = [step EXCEPT !.at = "created"] /\ posted' = Append(posted, step.form)
      BY <3>2, PageMoves DEF PhotoShape
    <3> QED BY <1>6, <3>1, <3>2 DEF CreatePickup
  <2>4. posted' = posted \/ posted' = Append(posted, step.form) BY <1>6 DEF CreatePickup
  <2>5. posted' \in Seq(Posts) /\ PhotoIsTheOneShown'
    BY <2>2, <2>4 DEF PhotoShape, PhotoIsTheOneShown
  <2>6. step'.at \in {"created", "invited"} => posted' # << >>
    BY <2>2, <2>3 DEF PhotoShape
  <2> QED BY <2>1, <2>3, <2>5, <2>6 DEF PhotoShape
<1>7. ASSUME NEW mark \in {[Last(posted) EXCEPT !.invited = TRUE], [Last(posted) EXCEPT !.repeats = TRUE]},
             NEW next \in {"invited", "left"},
             \/ BestEffort(mark, next)
             \/ step' = [step EXCEPT !.at = next] /\ UNCHANGED posted,
             UNCHANGED <<picked, file, busy>>, step.at \in {"created", "invited"}
      PROVE  PhotoShape'
  <2>1. posted' = posted \/ posted' = [posted EXCEPT ![Len(posted)] = mark] BY <1>7 DEF BestEffort
  <2>2. posted' \in Seq(Posts) /\ PhotoIsTheOneShown' /\ posted' # << >>
    <3>1. /\ posted \in Seq(Posts) /\ Len(posted) \in DOMAIN posted
          /\ Last(posted) = posted[Len(posted)]
      BY <1>7 DEF PhotoShape, Last
    <3>2. Last(posted) \in Posts /\ Last(posted).photo = Last(posted).preview
      BY <3>1 DEF PhotoShape, PhotoIsTheOneShown
    <3>3. mark \in Posts /\ mark.photo = mark.preview BY <3>2, PostMarked
    <3>4. posted' \in Seq(Posts) /\ DOMAIN posted' = DOMAIN posted /\ posted' # << >>
      <4>1. CASE posted' = posted BY <1>7, <3>1, <4>1 DEF PhotoShape
      <4>2. CASE posted' = [posted EXCEPT ![Len(posted)] = mark] BY <3>1, <3>3, <4>2
      <4> QED BY <2>1, <4>1, <4>2
    <3>5. PhotoIsTheOneShown' BY <2>1, <3>1, <3>3, <3>4 DEF PhotoShape, PhotoIsTheOneShown
    <3> QED BY <3>4, <3>5
  <2>3. step' \in PageSteps /\ step'.at = next
    <3>1. step' = [step EXCEPT !.at = next] BY <1>7 DEF BestEffort
    <3>2. step \in PageSteps BY DEF PhotoShape
    <3> QED BY <3>1, <3>2, PageMoves
  <2> QED BY <1>7, <2>2, <2>3 DEF PhotoShape
<1>8. CASE InviteChosen BY <1>7, <1>8 DEF InviteChosen, FormFields, photoVars
<1>9. CASE SaveRepetition BY <1>7, <1>9 DEF SaveRepetition, FormFields, photoVars
<1> QED BY <1>2, <1>3, <1>4, <1>5, <1>6, <1>8, <1>9 DEF RequestNext

LEMMA PhotoInit == RequestInit => PhotoShape
<1> SUFFICES ASSUME RequestInit PROVE PhotoShape OBVIOUS
<1>1. step = AtForm /\ AtForm \in PageSteps /\ AtForm.at = "form" BY DEF RequestInit, AtForm, PageSteps
<1>2. posted \in Seq(Posts) /\ PhotoIsTheOneShown BY DEF RequestInit, PhotoIsTheOneShown
<1>3. picked = 0 /\ file = 0 /\ busy = FALSE BY DEF RequestInit
<1> QED BY <1>1, <1>2, <1>3 DEF PhotoShape

\* A pickup carries the photo that was on the screen at the press of Submit, for any
\* number of photos, however long each takes to compress.
THEOREM PhotoIsSent == RequestSpec => []PhotoIsTheOneShown
<1>1. RequestInit => PhotoShape BY PhotoInit
<1>2. PhotoShape /\ [RequestNext]_requestVars => PhotoShape' BY PhotoStep
<1>3. PhotoShape => PhotoIsTheOneShown BY DEF PhotoShape
<1> QED BY <1>1, <1>2, <1>3, PTL DEF RequestSpec

RowsTyped == rows \in Seq(Row) /\ Len(rows) \in 1..MaxItems

LEMMA RowsStep ==
  ASSUME RowsTyped, [RequestNext]_requestVars
  PROVE  RowsTyped'
<1> USE RequestAssumption
<1>0. rows \in Seq(Row) /\ Len(rows) \in Nat /\ Len(rows) >= 1 /\ Len(rows) <= MaxItems
  BY DEF RowsTyped
<1>1. \A type \in ScrapTypes : NewRow(type) \in Row BY DEF NewRow, Row
<1>2. CASE UNCHANGED rows BY <1>2 DEF RowsTyped
<1>3. CASE EditItems
  <2>1. CASE UpdateItem
    <3>1. PICK i \in DOMAIN rows, row \in Row : rows' = [rows EXCEPT ![i] = row]
      BY <2>1 DEF UpdateItem
    <3> QED BY <1>0, <3>1 DEF RowsTyped
  <2>2. CASE AddItem BY <1>0, <1>1, <2>2 DEF AddItem, RowsTyped
  <2>3. CASE RemoveItem
    <3>1. PICK i \in DOMAIN rows : rows' = RemoveAt(rows, i) BY <2>3 DEF RemoveItem
    <3>2. rows' \in Seq(Row) /\ Len(rows') = Len(rows) - 1 BY <1>0, <3>1, RemoveAtIs
    <3> QED BY <1>0, <2>3, <3>2 DEF RemoveItem, RowsTyped
  <2> QED BY <1>3, <2>1, <2>2, <2>3 DEF EditItems
<1>4. ASSUME NEW type \in ScrapTypes, ApplySuggestion(type) PROVE RowsTyped'
  <2>1. NewRow(type) \in Row BY <1>1
  <2>2. rows' \in {rows, <<NewRow(type)>>}
        \/ (Len(rows) < MaxItems /\ rows' = Append(rows, NewRow(type)))
    BY <1>0, <1>4 DEF ApplySuggestion
  <2>3. CASE rows' = rows BY <1>2, <2>3
  <2>4. CASE rows' = <<NewRow(type)>>
    <3>1. rows' \in Seq(Row) /\ Len(rows') = 1 BY <2>1, <2>4
    <3> QED BY <3>1 DEF RowsTyped
  <2>5. CASE Len(rows) < MaxItems /\ rows' = Append(rows, NewRow(type))
    BY <1>0, <2>1, <2>5 DEF RowsTyped
  <2> QED BY <2>2, <2>3, <2>4, <2>5
<1>5. ASSUME NEW parsed \in ParseVoiceRequest, ApplyVoiceItems(parsed) PROVE RowsTyped'
  <2>1. parsed \in Seq(Row)
    <3>1. \A row \in Row : <<row>> \in Seq(Row) OBVIOUS
    <3>2. \A r, s \in Row : <<r, s>> \in Seq(Row) OBVIOUS
    <3>3. << >> \in Seq(Row) OBVIOUS
    <3>4. parsed \in Heard BY DEF ParseVoiceRequest
    <3>5. \/ parsed = << >> \/ \E row \in Row : parsed = <<row>>
          \/ \E r \in Row, s \in Row : parsed = <<r, s>>
      BY <3>4 DEF Heard
    <3> QED BY <3>1, <3>2, <3>3, <3>5
  <2>2. CASE parsed = << >> BY <1>2, <1>5, <2>2 DEF ApplyVoiceItems
  <2>3. CASE parsed # << >>
    <3> DEFINE n == IF Len(parsed) < MaxItems THEN Len(parsed) ELSE MaxItems
    <3>1. Len(parsed) \in Nat \ {0} BY <2>1, <2>3, EmptySeq
    <3>2. n \in 1..MaxItems /\ n \in 1..Len(parsed) /\ n \in Int /\ 1 \in Int BY <3>1
    <3>3. rows' = SubSeq(parsed, 1, n) BY <1>5, <2>3 DEF ApplyVoiceItems
    <3> HIDE DEF n
    <3>4. \A i \in 1..n : parsed[i] \in Row BY <2>1, <3>2, ElementOfSeq
    <3>5. rows' \in Seq(Row) /\ Len(rows') = IF 1 <= n THEN n - 1 + 1 ELSE 0
      BY <3>2, <3>3, <3>4, SubSeqProperties
    <3> QED BY <3>2, <3>5 DEF RowsTyped
  <2> QED BY <2>2, <2>3
<1>6. CASE VoiceRequest BY <1>2, <1>5, <1>6 DEF VoiceRequest
<1>7. CASE ScrapPhotoSuggest BY <1>2, <1>4, <1>7 DEF ScrapPhotoSuggest
<1>8. CASE HandleFile \/ CompressImage \/ ApplyCoupon \/ Locate \/ Repeat \/ HandleSubmit
           \/ CreatePickup \/ InviteChosen \/ SaveRepetition \/ UNCHANGED requestVars
  BY <1>2, <1>8 DEF HandleFile, CompressImage, ApplyCoupon, Locate, Repeat, HandleSubmit,
                    CreatePickup, InviteChosen, SaveRepetition, FormFields, itemVars, requestVars
<1> QED BY <1>3, <1>6, <1>7, <1>8 DEF RequestNext

\* The rest of the form.
FormTyped ==
  /\ picked \in 0..MaxPicks /\ file \in 0..picked /\ atWork \subseteq 1..picked
  /\ also \in [chosen : BOOLEAN, repeat : BOOLEAN]
  /\ looking \in {"idle", "working", "done", "error"}
  /\ hearing \in {"idle", "listening", "heard"}
  /\ promo \in {"none", "checking", "applied"}
  /\ place \in [at : {"unknown", "site", "here"}, finding : BOOLEAN]
  /\ Len(posted) <= MaxPosts

LEMMA FormStep ==
  ASSUME PhotoShape, FormTyped, [RequestNext]_requestVars
  PROVE  FormTyped'
<1> USE RequestAssumption
<1>1. CASE UNCHANGED <<photoVars, restVars, posted, looking, hearing>>
  BY <1>1 DEF FormTyped, photoVars, restVars
<1>2. CASE EditItems BY <1>1, <1>2 DEF EditItems
<1>3. CASE VoiceRequest BY <1>3 DEF VoiceRequest, FormTyped, photoVars, restVars
<1>4. CASE ScrapPhotoSuggest BY <1>4 DEF ScrapPhotoSuggest, FormTyped, photoVars, restVars
<1>5. CASE HandleFile BY <1>5 DEF HandleFile, FormTyped, restVars
<1>6. CASE CompressImage
  <2>1. PICK f \in atWork : Compressed(f) /\ atWork' = atWork \ {f} BY <1>6 DEF CompressImage
  <2>2. UNCHANGED <<picked, looking, hearing, also, promo, place, posted>>
    BY <1>6 DEF CompressImage, itemVars, restVars
  <2>3. file' \in 0..picked BY <2>1 DEF Compressed, FormTyped
  <2> QED BY <2>1, <2>2, <2>3 DEF FormTyped
<1>7. CASE ApplyCoupon BY <1>7 DEF ApplyCoupon, FormTyped, photoVars, itemVars
<1>8. CASE Locate
  <2>1. place' \in [at : {"unknown", "site", "here"}, finding : BOOLEAN]
    <3>1. place \in [at : {"unknown", "site", "here"}, finding : BOOLEAN] BY DEF FormTyped
    <3>2. PICK at \in {"unknown", "site", "here"} :
            at = IF place.at = "site" THEN "unknown" ELSE place.at
      BY <3>1
    <3>3. [place EXCEPT !.finding = FALSE] \in [at : {"unknown", "site", "here"}, finding : BOOLEAN]
      BY <3>1
    <3>4. \/ place' = [at |-> at, finding |-> TRUE] \/ place' = [at |-> "here", finding |-> FALSE]
          \/ place' = [place EXCEPT !.finding = FALSE]
      BY <1>8, <3>2 DEF Locate
    <3>5. /\ [at |-> at, finding |-> TRUE] \in [at : {"unknown", "site", "here"}, finding : BOOLEAN]
          /\ [at |-> "here", finding |-> FALSE] \in [at : {"unknown", "site", "here"}, finding : BOOLEAN]
      OBVIOUS
    <3> QED BY <3>3, <3>4, <3>5
  <2> QED BY <1>8, <2>1 DEF Locate, FormTyped, photoVars, itemVars
<1>9. CASE Repeat
  <2>1. also' \in [chosen : BOOLEAN, repeat : BOOLEAN]
    <3>1. PICK r \in BOOLEAN : r = ~also.repeat OBVIOUS
    <3>2. also' = [also EXCEPT !.repeat = r] BY <1>9, <3>1 DEF Repeat
    <3> QED BY <3>2 DEF FormTyped
  <2> QED BY <1>9, <2>1 DEF Repeat, FormTyped, photoVars, itemVars
<1>10. CASE HandleSubmit
  BY <1>1, <1>10 DEF HandleSubmit, FormFields, itemVars
<1>11. CASE CreatePickup
  <2>1. UNCHANGED <<photoVars, restVars, looking, hearing>>
    BY <1>11 DEF CreatePickup, FormFields, itemVars
  <2>2. posted' = posted \/ (Len(posted) < MaxPosts /\ posted' = Append(posted, step.form))
    BY <1>11 DEF CreatePickup
  <2>3. Len(posted') <= MaxPosts
    BY <1>11, <2>2 DEF CreatePickup, PhotoShape, FormTyped
  <2> QED BY <2>1, <2>3 DEF FormTyped, photoVars, restVars
<1>12. CASE InviteChosen \/ SaveRepetition
  <2>1. UNCHANGED <<photoVars, restVars, looking, hearing>>
    BY <1>12 DEF InviteChosen, SaveRepetition, FormFields, itemVars
  <2>2. posted' = posted \/ \E mark : posted' = [posted EXCEPT ![Len(posted)] = mark]
    BY <1>12 DEF InviteChosen, SaveRepetition, BestEffort
  <2>3. Len(posted') = Len(posted) BY <2>2 DEF PhotoShape
  <2> QED BY <2>1, <2>3 DEF FormTyped, photoVars, restVars
<1>13. CASE UNCHANGED requestVars BY <1>1, <1>13 DEF requestVars, itemVars
<1> QED BY <1>2, <1>3, <1>4, <1>5, <1>6, <1>7, <1>8, <1>9, <1>10, <1>11, <1>12, <1>13 DEF RequestNext

\* The form of the request page has its type, for any number of items and photos: the
\* list has an item and no more than the server takes, whether it was typed, spoken
\* or suggested.
THEOREM RequestTypes == RequestSpec => []RequestTypeOK
<1>1. RequestInit => PhotoShape /\ RowsTyped /\ FormTyped
  <2> SUFFICES ASSUME RequestInit PROVE PhotoShape /\ RowsTyped /\ FormTyped OBVIOUS
  <2>1. PhotoShape BY PhotoInit
  <2>2. RowsTyped
    <3>1. NewRow(FirstType) \in Row BY RequestAssumption DEF NewRow, Row
    <3> QED BY <3>1, RequestAssumption DEF RequestInit, RowsTyped
  <2>3. FormTyped BY RequestAssumption DEF RequestInit, FormTyped
  <2> QED BY <2>1, <2>2, <2>3
<1>2. PhotoShape /\ RowsTyped /\ FormTyped /\ [RequestNext]_requestVars
        => PhotoShape' /\ RowsTyped' /\ FormTyped'
  BY PhotoStep, RowsStep, FormStep
<1>3. PhotoShape /\ RowsTyped /\ FormTyped => RequestTypeOK
  <2> SUFFICES ASSUME PhotoShape, RowsTyped, FormTyped PROVE RequestTypeOK OBVIOUS
  <2>1. \A i \in DOMAIN rows : rows[i] \in Row BY DEF RowsTyped
  <2>2. step.at \in {"form", "creating", "created", "invited", "left"}
    BY DEF PhotoShape, PageSteps
  <2> QED BY <2>1, <2>2 DEF RequestTypeOK, PhotoShape, RowsTyped, FormTyped
<1> QED BY <1>1, <1>2, <1>3, PTL DEF RequestSpec

-----------------------------------------------------------------------------
(* Controls.                                                                *)

PickupDocs ==
  [status : {"pending", "accepted", "in_progress", "completed", "cancelled"},
   holder : Crew \cup {NoOne}, member : Crew \cup {NoOne},
   neg : {"none", "pending", "declined", "accepted"}, party : Crew \cup {NoOne},
   last : {"requester", "collector", "nobody"},
   departed : BOOLEAN, ready : BOOLEAN,
   weight : {"none", "auto_confirmed", "pending_confirmation", "confirmed", "disputed", "resolved"},
   paid : {"unpaid", "claimed", "confirmed", "disputed", "resolved"}]

\* A job has a collector exactly from the moment it is taken; a live offer has its
\* two sides; there is a weight once the load was weighed, and money is spoken of
\* once the weight is agreed.
ControlsFit(p) ==
  /\ p \in PickupDocs
  /\ p.status = "pending" => p.holder = NoOne /\ p.neg # "accepted"
  /\ p.status \in {"accepted", "in_progress", "completed"} => p.holder \in Crew /\ p.neg # "pending"
  /\ p.neg = "pending" => p.party \in Crew /\ p.last \in {"requester", "collector"}
  /\ p.status # "completed" => p.weight = "none" /\ p.paid = "unpaid"
  /\ p.status = "completed" => p.weight # "none"
  /\ p.paid # "unpaid" => p.weight \notin {"pending_confirmation", "disputed"}

ControlShape ==
  /\ ControlsFit(pickup)
  /\ reports \subseteq [by : Crew \cup {Customer}, reason : Reasons]
  /\ rates \subseteq Crew \cup {Customer}

\* What each request asks of the pickup, one by one.
LEMMA AcceptsEach ==
  ASSUME NEW who
  PROVE  /\ Accepts(who, "accept") <=> MayAccept(who)
         /\ Accepts(who, "propose") <=> MayPropose(who)
         /\ Accepts(who, "invite") <=> MayInvite(who)
         /\ \A op \in {"agree", "counter", "decline"} : Accepts(who, op) <=> MayAnswer(who)
         /\ Accepts(who, "cancel") <=> MayCancel(who)
         /\ Accepts(who, "ready") <=> MayGetReady(who)
         /\ Accepts(who, "headOut") <=> MayHeadOut(who)
         /\ Accepts(who, "start") <=> MayStart(who)
         /\ Accepts(who, "complete") <=> MayFinish(who)
         /\ \A op \in {"confirmWeight", "disputeWeight"} : Accepts(who, op) <=> MayDecideWeight(who)
         /\ Accepts(who, "claimPaid") <=> MayClaimPaid(who)
         /\ Accepts(who, "confirmPaid") <=> MayConfirmPaid(who)
         /\ Accepts(who, "disputePaid") <=> MayDisputePaid(who)
         /\ Accepts(who, "readPayment") <=> MayReadPayment(who)
         /\ Accepts(who, "report") <=> MayReport(who)
         /\ Accepts(who, "readReports") <=> MayReadReports(who)
         /\ Accepts(who, "rate") <=> MayRate(who)
         /\ Accepts(who, "receipt") <=> MaySeeReceipt(who)
         /\ Accepts(who, "chat") <=> MayChat(who)
         /\ Accepts(who, "view") <=> MayView(who)
         /\ \A op \in {"share", "sos"} : Accepts(who, op) <=> MayUseSafetyTools(who)
         /\ Accepts(who, "stopSharing") <=> MayStopSharing(who)
         /\ Accepts(who, "nearby") <=> MaySeeNearby(who)
         /\ Accepts(who, "fairPrice") <=> MaySeeFairPrice(who)
BY DEF Accepts

\* Each field that a request writes keeps the document sound.
LEMMA ControlStep ==
  ASSUME ControlShape, [ControlNext]_controlVars
  PROVE  ControlShape'
<1> USE ControlsAssumption
<1>0. pickup \in PickupDocs /\ ControlsFit(pickup) BY DEF ControlShape, ControlsFit
<1>a. ASSUME NEW p, Only(p), ControlsFit(p) PROVE ControlShape'
  BY <1>a DEF Only, ControlShape, ControlsFit, PickupDocs
<1>b. ASSUME NEW by \in Crew \cup {Customer}, NEW reason \in Reasons
      PROVE  Filed(by, reason) \subseteq [by : Crew \cup {Customer}, reason : Reasons]
  BY DEF Filed, ControlShape
<1>1. ASSUME NEW who \in Crew, Accept(who) PROVE ControlShape'
  <2>1. Only([pickup EXCEPT !.status = "accepted", !.holder = who]) /\ Untaken
    BY <1>1, AcceptsEach DEF Accept, Pressed, MayAccept
  <2>2. ControlsFit([pickup EXCEPT !.status = "accepted", !.holder = who])
    BY <1>0, <2>1 DEF ControlsFit, PickupDocs, Untaken
  <2> QED BY <1>a, <2>1, <2>2
<1>2. ASSUME NEW who \in Crew, NEW side \in {"requester", "collector"}, pickup.status = "pending",
             Only([pickup EXCEPT !.neg = "pending", !.party = who, !.last = side])
      PROVE  ControlShape'
  <2>1. ControlsFit([pickup EXCEPT !.neg = "pending", !.party = who, !.last = side])
    BY <1>0, <1>2 DEF ControlsFit, PickupDocs
  <2> QED BY <1>a, <1>2, <2>1
<1>3. ASSUME NEW who \in Crew, Propose(who) PROVE ControlShape'
  BY <1>2, <1>3, AcceptsEach DEF Propose, Pressed, MayPropose
<1>4. ASSUME NEW who \in Crew, Invite(who) PROVE ControlShape'
  BY <1>2, <1>4, AcceptsEach DEF Invite, Pressed, MayInvite, Untaken
<1>5. ASSUME NEW who \in Crew, Assign(who) PROVE ControlShape'
  <2>1. ControlsFit([pickup EXCEPT !.member = who]) BY <1>0 DEF ControlsFit, PickupDocs
  <2> QED BY <1>a, <1>5, <2>1 DEF Assign
<1>6. ASSUME NEW who \in Crew, HeadOut(who) PROVE ControlShape'
  <2>1. ControlsFit([pickup EXCEPT !.departed = TRUE]) BY ZenonT(60), <1>0 DEF ControlsFit, PickupDocs
  <2> QED BY <1>a, <1>6, <2>1 DEF HeadOut
<1>7. ASSUME NEW who \in Crew, Start(who) PROVE ControlShape'
  <2>1. pickup.status = "accepted" BY <1>7, AcceptsEach DEF Start, Pressed, MayStart
  <2>2. ControlsFit([pickup EXCEPT !.status = "in_progress"]) BY <1>0, <2>1 DEF ControlsFit, PickupDocs
  <2> QED BY <1>a, <1>7, <2>2 DEF Start
<1>8. ASSUME NEW who \in Crew, Complete(who) PROVE ControlShape'
  <2>1. PICK weight \in {"auto_confirmed", "pending_confirmation"} :
          Only([pickup EXCEPT !.status = "completed", !.weight = weight])
    BY <1>8 DEF Complete
  <2>2. pickup.status = "in_progress" BY <1>8, AcceptsEach DEF Complete, Pressed, MayFinish
  <2>3. ControlsFit([pickup EXCEPT !.status = "completed", !.weight = weight])
    BY <1>0, <2>2 DEF ControlsFit, PickupDocs
  <2> QED BY <1>a, <2>1, <2>3
<1>9. ASSUME NEW who \in Crew, ClaimPaid(who) PROVE ControlShape'
  <2>1. Payable BY <1>9, AcceptsEach DEF ClaimPaid, Pressed, MayClaimPaid
  <2>2. ControlsFit([pickup EXCEPT !.paid = "claimed"]) BY <1>0, <2>1 DEF ControlsFit, PickupDocs, Payable
  <2> QED BY <1>a, <1>9, <2>2 DEF ClaimPaid
<1>10. ASSUME NEW who \in Crew \cup {Customer}, Agree(who) PROVE ControlShape'
  <2>1. pickup.status = "pending" /\ pickup.neg = "pending"
    BY <1>10, AcceptsEach DEF Agree, Pressed, MayAnswer
  <2>2. ControlsFit([pickup EXCEPT !.status = "accepted", !.holder = pickup.party, !.neg = "accepted"])
    BY <1>0, <2>1 DEF ControlsFit, PickupDocs
  <2> QED BY <1>a, <1>10, <2>2 DEF Agree
<1>11. ASSUME NEW who \in Crew \cup {Customer}, Counter(who) PROVE ControlShape'
  <2>1. PICK side \in {"requester", "collector"} : side = RoleOf(who) BY DEF RoleOf
  <2>2. ControlsFit([pickup EXCEPT !.last = side])
    BY <1>0 DEF ControlsFit, PickupDocs
  <2> QED BY <1>a, <1>11, <2>1, <2>2 DEF Counter
<1>12. ASSUME pickup.status = "pending", Only([pickup EXCEPT !.neg = "declined", !.party = NoOne])
       PROVE  ControlShape'
  <2>1. ControlsFit([pickup EXCEPT !.neg = "declined", !.party = NoOne])
    BY <1>0, <1>12 DEF ControlsFit, PickupDocs
  <2> QED BY <1>a, <1>12, <2>1
<1>13. ASSUME NEW who \in Crew \cup {Customer}, Decline(who) PROVE ControlShape'
  BY <1>12, <1>13, AcceptsEach DEF Decline, Pressed, MayAnswer
<1>14. ASSUME NEW who \in Crew \cup {Customer}, Rate(who) PROVE ControlShape'
  BY <1>14 DEF Rate, ControlShape, ControlsFit
<1>15. ASSUME NEW who \in Crew \cup {Customer}, NEW reason \in Reasons, Report(who, reason)
       PROVE  ControlShape'
  BY <1>15, <1>b DEF Report, ControlShape, ControlsFit
<1>16. CASE Cancel
  <2>1. pickup.status \in {"pending", "accepted"}
    BY <1>16, AcceptsEach DEF Cancel, Pressed, MayCancel
  <2>2. ControlsFit([pickup EXCEPT !.status = "cancelled"]) BY <1>0, <2>1 DEF ControlsFit, PickupDocs
  <2> QED BY <1>a, <1>16, <2>2 DEF Cancel
<1>17. CASE GetReady
  <2>1. ControlsFit([pickup EXCEPT !.ready = TRUE]) BY ZenonT(60), <1>0 DEF ControlsFit, PickupDocs
  <2> QED BY <1>a, <1>17, <2>1 DEF GetReady
<1>18. ASSUME pickup.weight = "pending_confirmation", Only([pickup EXCEPT !.weight = "confirmed"])
       PROVE  ControlShape'
  <2>1. ControlsFit([pickup EXCEPT !.weight = "confirmed"]) BY <1>0, <1>18 DEF ControlsFit, PickupDocs
  <2> QED BY <1>a, <1>18, <2>1
<1>19. CASE ConfirmWeight
  BY <1>18, <1>19, AcceptsEach DEF ConfirmWeight, Pressed, MayDecideWeight
<1>20. CASE DisputeWeight
  <2>1. pickup.weight = "pending_confirmation"
    BY <1>20, AcceptsEach DEF DisputeWeight, Pressed, MayDecideWeight
  <2>2. ControlsFit([pickup EXCEPT !.weight = "disputed"]) BY <1>0, <2>1 DEF ControlsFit, PickupDocs
  <2>3. Filed(Customer, "weight") \subseteq [by : Crew \cup {Customer}, reason : Reasons] BY <1>b
  <2> QED BY <1>20, <2>2, <2>3 DEF DisputeWeight, ControlShape, ControlsFit
<1>21. CASE ConfirmPaid
  <2>1. pickup.paid \in {"claimed", "confirmed"}
    BY <1>21, AcceptsEach DEF ConfirmPaid, Pressed, MayConfirmPaid
  <2>2. ControlsFit([pickup EXCEPT !.paid = "confirmed"]) BY <1>0, <2>1 DEF ControlsFit, PickupDocs
  <2> QED BY <1>a, <1>21, <2>2 DEF ConfirmPaid
<1>22. CASE DisputePaid
  <2>1. pickup.paid = "claimed"
    BY <1>22, AcceptsEach DEF DisputePaid, Pressed, MayDisputePaid
  <2>2. ControlsFit([pickup EXCEPT !.paid = "disputed"]) BY <1>0, <2>1 DEF ControlsFit, PickupDocs
  <2>3. Filed(Customer, "payment") \subseteq [by : Crew \cup {Customer}, reason : Reasons] BY <1>b
  <2> QED BY <1>22, <2>2, <2>3 DEF DisputePaid, ControlShape, ControlsFit
<1>23. ASSUME NEW r \in reports, NEW paid \in {"confirmed", "resolved"}, Resolve(r, paid)
       PROVE  ControlShape'
  <2> DEFINE w == IF r.reason = "weight" /\ pickup.weight = "disputed" THEN "resolved" ELSE pickup.weight
             m == IF r.reason = "payment" /\ pickup.paid = "disputed" THEN paid ELSE pickup.paid
  <2>1. /\ pickup' = [pickup EXCEPT !.weight = w, !.paid = m] /\ reports' \subseteq reports
        /\ rates' = rates
    BY <1>23 DEF Resolve
  <2>2. /\ w = pickup.weight \/ (w = "resolved" /\ pickup.weight = "disputed")
        /\ m = pickup.paid \/ (m \in {"confirmed", "resolved"} /\ pickup.paid = "disputed")
    <3>1. w = pickup.weight \/ (w = "resolved" /\ pickup.weight = "disputed") OBVIOUS
    <3>2. m = pickup.paid \/ (m \in {"confirmed", "resolved"} /\ pickup.paid = "disputed") OBVIOUS
    <3> QED BY <3>1, <3>2
  <2> HIDE DEF w, m
  <2>3. ControlsFit([pickup EXCEPT !.weight = w, !.paid = m])
    BY ZenonT(60), <1>0, <2>2 DEF ControlsFit, PickupDocs
  <2> QED BY <2>1, <2>3 DEF ControlShape, ControlsFit
<1>24. CASE OfferExpires BY <1>12, <1>24 DEF OfferExpires
<1>25. CASE AutoConfirms BY <1>18, <1>25 DEF AutoConfirms
<1>26. CASE NoShow
  <2> DEFINE new == [pickup EXCEPT !.status = "pending", !.holder = NoOne,
                                   !.neg = "none", !.party = NoOne, !.last = "nobody"]
  <2>1. pickup.status = "accepted" /\ Only(new) BY <1>26 DEF NoShow
  <2>2. ControlsFit(new) BY <1>0, <2>1 DEF ControlsFit, PickupDocs
  <2> QED BY <1>a, <2>1, <2>2
<1>27. CASE UNCHANGED controlVars BY <1>27 DEF controlVars, ControlShape, ControlsFit
<1> QED BY <1>1, <1>3, <1>4, <1>5, <1>6, <1>7, <1>8, <1>9, <1>10, <1>11, <1>13, <1>14, <1>15,
           <1>16, <1>17, <1>19, <1>20, <1>21, <1>22, <1>23, <1>24, <1>25, <1>26, <1>27
        DEF ControlNext

\* What a requester is offered, with the condition it is offered under.
LEMMA RequesterIsOffered ==
  ASSUME ControlShape, NEW op \in MyRequests
  PROVE  \/ op = "cancel" /\ pickup.status \in {"pending", "accepted"}
         \/ op = "ready" /\ pickup.status = "accepted"
         \/ op \in {"share", "sos", "stopSharing"} /\ pickup.status \in Live
         \/ op = "fairPrice"
         \/ op \in {"agree", "counter", "decline"} /\ MayAnswer(Customer)
         \/ op \in {"nearby", "invite"} /\ Untaken
         \/ op = "view"
         \/ op \in {"confirmWeight", "disputeWeight"} /\ MayDecideWeight(Customer)
         \/ op = "receipt" /\ pickup.status = "completed"
         \/ op \in {"readReports", "readPayment"}
         \/ op \in {"report", "chat"} /\ MayReport(Customer)
         \/ op \in {"confirmPaid", "disputePaid"} /\ MayDisputePaid(Customer)
         \/ op = "rate" /\ MayRate(Customer)
<1>1. \/ op \in ChatBox /\ pickup.holder # NoOne
      \/ op \in RatingModal(Customer)
      \/ op = "cancel" /\ pickup.status \in {"pending", "accepted"}
      \/ op = "receipt" /\ pickup.status = "completed"
      \/ op \in RequestDetails
      \/ op \in DisputeStatusPanel \cup ReportIssueModal \cup RequesterPaymentCard /\ pickup.holder # NoOne
  BY DEF MyRequests, RequestDetailModal
<1>2. pickup.holder # NoOne => MayReport(Customer)
  BY DEF ControlShape, ControlsFit, MayReport, IsParty
<1>3. op \in RatingModal(Customer) => op = "rate" /\ MayRate(Customer)
  BY DEF RatingModal, MayRate, IsParty
<1>4. op \in RequesterPaymentCard =>
        op = "readPayment" \/ (op \in {"confirmPaid", "disputePaid"} /\ MayDisputePaid(Customer))
  BY DEF RequesterPaymentCard, MayDisputePaid
<1>5. CASE op \in RequestDetails
  <2>1. \/ op = "ready" /\ pickup.status = "accepted"
        \/ op \in SafetyKit \/ op \in OfferPanel("requester") \/ op \in PickCollectorModal
        \/ op \in StartCodeCard \/ op \in SettlementCard
    BY <1>5 DEF RequestDetails
  <2>2. op \in SafetyKit => op \in {"share", "sos", "stopSharing"} /\ pickup.status \in Live
    BY DEF SafetyKit, ShareSheet, SosSheet
  <2>3. op \in OfferPanel("requester") =>
          op = "fairPrice" \/ (op \in {"agree", "counter", "decline"} /\ MayAnswer(Customer))
    BY DEF OfferPanel, MayAnswer, RoleOf
  <2>4. op \in PickCollectorModal => op \in {"nearby", "invite"} /\ Untaken
    BY DEF PickCollectorModal, Untaken
  <2>5. (op \in StartCodeCard => op = "view")
        /\ (op \in SettlementCard => op \in {"confirmWeight", "disputeWeight"} /\ MayDecideWeight(Customer))
    BY DEF StartCodeCard, SettlementCard, MayDecideWeight
  <2> QED BY <2>1, <2>2, <2>3, <2>4, <2>5
<1> QED BY <1>1, <1>2, <1>3, <1>4, <1>5 DEF ChatBox, DisputeStatusPanel, ReportIssueModal

\* What a collector is offered who holds the job or is in a negotiation about it.
LEMMA CollectorIsOffered ==
  ASSUME ControlShape, NEW who \in Crew, who \in Concerned, NEW op \in AvailableTab \cup JobTabs(who)
  PROVE  \/ op = "accept" /\ pickup.neg = "pending"
         \/ op = "fairPrice"
         \/ op \in {"agree", "counter", "decline"} /\ MayAnswer(who)
         \/ /\ who = pickup.holder /\ IsActor(who)
            /\ \/ op = "headOut" /\ pickup.status = "accepted"
               \/ op \in {"share", "sos", "stopSharing"} /\ pickup.status \in Live
               \/ op = "readPayment"
               \/ op = "claimPaid" /\ Payable /\ pickup.paid = "unpaid"
               \/ op = "readReports"
               \/ op = "receipt" /\ pickup.status = "completed"
               \/ op = "report" /\ pickup.status # "pending"
               \/ op = "rate" /\ MayRate(who)
               \/ op = "chat" /\ pickup.status # "pending"
               \/ op = "start" /\ pickup.status = "accepted"
               \/ op = "complete" /\ pickup.status = "in_progress"
<1> USE ControlsAssumption
<1>1. CASE pickup.status = "pending"
  <2>1. pickup.holder = NoOne /\ pickup.neg = "pending" /\ who = pickup.party
    BY <1>1 DEF ControlShape, ControlsFit, Concerned
  <2>2. op \in PickupDetailModal \/ op = "accept" BY <1>1 DEF AvailableTab, JobTabs
  <2>3. op \in PickupDetailModal => op = "accept" \/ op \in OfferPanel("collector")
    BY <1>1 DEF PickupDetailModal, PickupDetails, SafetyKit, CollectorPayCard, Live
  <2>4. op \in OfferPanel("collector") =>
          op = "fairPrice" \/ (op \in {"agree", "counter", "decline"} /\ MayAnswer(who))
    BY <1>1, <2>1 DEF OfferPanel, MayAnswer, RoleOf
  <2> QED BY <2>1, <2>2, <2>3, <2>4
<1>2. CASE pickup.status # "pending"
  <2>1. who = pickup.holder /\ IsActor(who) BY <1>2 DEF Concerned, IsActor
  <2>2. \/ op \in PickupDetailModal \/ op = "report" \/ op \in RatingModal(who)
        \/ op = "chat"
        \/ op \in StartCodeModal \/ op \in CompletionPhotoModal
    BY <1>2, <2>1 DEF AvailableTab, JobTabs, ReportIssueModal, ChatBox
  <2>3. op \in RatingModal(who) => op = "rate" /\ MayRate(who)
    BY <2>1 DEF RatingModal, MayRate, IsParty
  <2>4. /\ op \in StartCodeModal => op = "start" /\ pickup.status = "accepted"
        /\ op \in CompletionPhotoModal => op = "complete" /\ pickup.status = "in_progress"
    BY DEF StartCodeModal, CompletionPhotoModal
  <2>5. op \in PickupDetailModal =>
          \/ op = "receipt" /\ pickup.status = "completed"
          \/ op = "headOut" /\ pickup.status = "accepted"
          \/ op \in SafetyKit \/ op \in CollectorPayCard \/ op = "readReports"
    BY <1>2 DEF PickupDetailModal, PickupDetails, OfferPanel, DisputeStatusPanel
  <2>6. op \in SafetyKit => op \in {"share", "sos", "stopSharing"} /\ pickup.status \in Live
    BY DEF SafetyKit, ShareSheet, SosSheet
  <2>7. op \in CollectorPayCard =>
          op = "readPayment" \/ (op = "claimPaid" /\ Payable /\ pickup.paid = "unpaid")
    BY DEF CollectorPayCard
  <2> QED BY <1>2, <2>1, <2>2, <2>3, <2>4, <2>5, <2>6, <2>7
<1> QED BY <1>1, <1>2

LEMMA OfferedAreAccepted == ControlShape => OfferedIsAccepted
<1> USE ControlsAssumption
<1> SUFFICES ASSUME ControlShape, NEW who \in Concerned, NEW op \in Offered(who)
             PROVE  Accepts(who, op) \/ (op = "accept" /\ pickup.neg = "pending")
  BY DEF OfferedIsAccepted
<1>1. who = Customer \/ who \in Crew
  BY DEF Concerned, ControlShape, ControlsFit, PickupDocs
<1>2. CASE who = Customer
  <2>1. op \in MyRequests BY <1>2 DEF Offered
  <2>2. MayReport(Customer) => MayChat(Customer) BY DEF MayReport, MayChat
  <2>3. MayDisputePaid(Customer) => MayConfirmPaid(Customer) BY DEF MayDisputePaid, MayConfirmPaid
  <2>4. /\ pickup.status = "accepted" => MayGetReady(Customer)
        /\ pickup.status \in {"pending", "accepted"} => MayCancel(Customer)
        /\ pickup.status \in Live => MayUseSafetyTools(Customer)
        /\ MayStopSharing(Customer) /\ MaySeeFairPrice(Customer) /\ MayView(Customer)
        /\ Untaken => MayInvite(Customer) /\ MaySeeNearby(Customer)
        /\ pickup.status = "completed" => MaySeeReceipt(Customer)
        /\ MayReadReports(Customer) /\ MayReadPayment(Customer)
    BY DEF MayGetReady, MayCancel, MayUseSafetyTools, MayStopSharing, MaySeeFairPrice, MayView,
           MayInvite, MaySeeNearby, Untaken, MaySeeReceipt, MayReadReports, MayReadPayment, IsParty
  <2> QED BY <1>2, <2>1, <2>2, <2>3, <2>4, RequesterIsOffered, AcceptsEach
<1>3. CASE who \in Crew
  <2>1. op \in AvailableTab \cup JobTabs(who) BY <1>3 DEF Offered
  <2>2. who = pickup.holder /\ IsActor(who) =>
          /\ pickup.status = "accepted" => MayHeadOut(who) /\ MayStart(who)
          /\ pickup.status \in Live => MayUseSafetyTools(who)
          /\ MayStopSharing(who) /\ MayReadPayment(who) /\ MayReadReports(who)
          /\ Payable /\ pickup.paid = "unpaid" => MayClaimPaid(who)
          /\ pickup.status = "completed" => MaySeeReceipt(who)
          /\ pickup.status # "pending" => MayReport(who) /\ MayChat(who)
          /\ pickup.status = "in_progress" => MayFinish(who)
    BY <1>3 DEF MayHeadOut, MayStart, MayUseSafetyTools, MayStopSharing, MayReadPayment,
                MayReadReports, MayClaimPaid, MaySeeReceipt, MayReport, MayChat, MayFinish, IsParty
  <2>3. MaySeeFairPrice(who) BY <1>3 DEF MaySeeFairPrice
  <2> QED BY <1>3, <2>1, <2>2, <2>3, CollectorIsOffered, AcceptsEach
<1> QED BY <1>1, <1>2, <1>3

LEMMA SomebodyMovesOn == ControlShape => NobodyIsStuck
<1> USE ControlsAssumption
<1> SUFFICES ASSUME ControlShape, ~Finished, DisputesTab = {} PROVE NobodyIsStuck
  BY DEF NobodyIsStuck
<1>0. ControlsFit(pickup) /\ pickup \in PickupDocs BY DEF ControlShape, ControlsFit
<1>1. CASE pickup.status \in {"pending", "accepted"}
  <2>1. "cancel" \in MyRequests BY <1>1 DEF MyRequests
  <2>2. Pressed(Customer, "cancel") BY <1>1, <2>1, AcceptsEach DEF Pressed, MayCancel, Offered
  <2> QED BY <2>2 DEF NobodyIsStuck, StepsOn
<1>2. CASE pickup.status = "in_progress"
  <2>1. pickup.holder \in Crew BY <1>0, <1>2 DEF ControlsFit
  <2>2. IsActor(pickup.holder) BY <2>1 DEF IsActor
  <2>3. "complete" \in JobTabs(pickup.holder) BY <1>2, <2>2 DEF JobTabs, CompletionPhotoModal
  <2>4. Pressed(pickup.holder, "complete")
    BY <1>2, <2>1, <2>2, <2>3, AcceptsEach DEF Pressed, MayFinish, Offered
  <2> QED BY <2>1, <2>4 DEF NobodyIsStuck, StepsOn
<1>3. CASE pickup.status = "completed"
  <2>1. pickup.holder \in Crew /\ pickup.holder # NoOne BY <1>0, <1>3 DEF ControlsFit
  <2>2. IsActor(pickup.holder) BY <2>1 DEF IsActor
  <2>3. CASE pickup.weight = "pending_confirmation"
    <3>1. "confirmWeight" \in MyRequests
      BY <2>3 DEF MyRequests, RequestDetailModal, RequestDetails, SettlementCard
    <3>2. Pressed(Customer, "confirmWeight")
      BY <2>3, <3>1, AcceptsEach DEF Pressed, MayDecideWeight, Offered
    <3> QED BY <3>2 DEF NobodyIsStuck, StepsOn
  <2>4. CASE "disputed" \in {pickup.weight, pickup.paid}
    <3>1. "report" \in MyRequests
      BY <2>1 DEF MyRequests, RequestDetailModal, ReportIssueModal
    <3>2. Pressed(Customer, "report")
      BY <1>3, <2>1, <3>1, AcceptsEach DEF Pressed, MayReport, IsParty, Offered
    <3> QED BY <2>4, <3>2 DEF NobodyIsStuck
  <2>5. CASE pickup.weight \notin {"pending_confirmation", "disputed"} /\ pickup.paid = "unpaid"
    <3>1. Payable BY <1>3, <2>5 DEF Payable
    <3>2. "claimPaid" \in JobTabs(pickup.holder)
      BY <1>3, <2>2, <2>5, <3>1 DEF JobTabs, PickupDetailModal, PickupDetails, CollectorPayCard
    <3>3. Pressed(pickup.holder, "claimPaid")
      BY <2>1, <2>2, <2>5, <3>1, <3>2, AcceptsEach DEF Pressed, MayClaimPaid, Offered
    <3> QED BY <2>1, <3>3 DEF NobodyIsStuck, StepsOn
  <2>6. CASE pickup.weight \notin {"pending_confirmation", "disputed"} /\ pickup.paid = "claimed"
    <3>1. Payable BY <1>3, <2>6 DEF Payable
    <3>2. "confirmPaid" \in MyRequests
      BY <1>3, <2>1, <2>6, <3>1 DEF MyRequests, RequestDetailModal, RequesterPaymentCard
    <3>3. Pressed(Customer, "confirmPaid")
      BY <2>6, <3>2, AcceptsEach DEF Pressed, MayConfirmPaid, Offered
    <3> QED BY <3>3 DEF NobodyIsStuck, StepsOn
  <2> QED BY <1>0, <2>3, <2>4, <2>5, <2>6 DEF PickupDocs, Finished
<1> QED BY <1>0, <1>1, <1>2, <1>3 DEF PickupDocs, Finished

\* The pickup as the client and the server write it is sound at every point of its
\* life, for any crew.
THEOREM ControlsSound == ControlSpec => [](ControlShape /\ ControlTypeOK)
<1>1. ControlInit => ControlShape
  BY ControlsAssumption DEF ControlInit, ControlShape, ControlsFit, Posted, PickupDocs
<1>2. ControlShape /\ [ControlNext]_controlVars => ControlShape' BY ControlStep
<1>3. ControlShape => ControlTypeOK BY DEF ControlShape, ControlsFit, PickupDocs, ControlTypeOK
<1> QED BY <1>1, <1>2, <1>3, PTL DEF ControlSpec

\* Every control that is shown to somebody concerned sends what the server accepts,
\* except the plain Accept beside an offer (Controls.OfferedIsAccepted).
THEOREM ControlsAgree == ControlSpec => []OfferedIsAccepted
<1>1. ControlShape => OfferedIsAccepted BY OfferedAreAccepted
<1> QED BY <1>1, ControlsSound, PTL

\* Until a pickup is cancelled or paid for, somebody has a control that moves it on
\* and that the server accepts, or there is a report for an admin to decide.
THEOREM SomebodyCanAct == ControlSpec => []NobodyIsStuck
<1>1. ControlShape => NobodyIsStuck BY SomebodyMovesOn
<1> QED BY <1>1, ControlsSound, PTL

-----------------------------------------------------------------------------
(* What the panels have in common.                                          *)

\* The button of the form stays disabled until the form is answered.
Waits(f) == f.off \in {"write", "load"}

\* No form changes what is shown, and a selection shows its own answers only, and
\* nothing when it fails.
Looks(p) ==
  /\ \A f \in p.forms : f.after \in {"aside", "leave"}
  /\ "key" \in p.on => p.late # "shown" /\ p.fails = "cleared"

\* Each answer to a form is put into its part of what was fetched, once, when it
\* opened; no form is sent twice at a time.
EditCalls(p) ==
  /\ p.on = {}
  /\ \A f \in p.forms : /\ f.after \notin {"reload", "replace"}
                        /\ p.reads # {} /\ f.after = "patch" => Waits(f)

\* The answer to its one form is to fetch again, and the form waits for that.
Renews(p) ==
  /\ p.on = {} /\ p.reads # {} /\ p.late = "shown" /\ p.fails = "cleared"
  /\ \A f \in p.forms : f.after = "aside" \/ (f.after = "reload" /\ f.off = "load")
  /\ \A f, g \in p.forms : f.after = "reload" /\ g.after = "reload" => f = g

Careful(p) == Looks(p) \/ EditCalls(p) \/ Renews(p)

-----------------------------------------------------------------------------
(* The invariant.                                                           *)

CallsOf(p) ==
  [kind : {"fetch", "write"}, calls : {p.reads} \cup {f.calls : f \in p.forms}, key : Keys,
   at : {"sent", "answered"}, misses : SUBSET p.forms, fresh : BOOLEAN,
   form : p.forms \cup {NoForm}]

ScreenShape ==
  /\ panel \in Careless \/ Careful(panel)
  /\ key \in Keys
  /\ flight \in Seq(CallsOf(panel))
  /\ shown \in [key : Keys, misses : SUBSET panel.forms] \cup {Nothing}
  /\ disabled \subseteq panel.forms
  /\ panel = NoPanel => key = 1 /\ flight = <<>> /\ shown = Nothing /\ disabled = {}
  /\ \A i \in DOMAIN flight : flight[i].kind = "write" => flight[i].form \in panel.forms

\* A disabled form has a call under way, and one that waits is in no other.
ButtonsWait ==
  /\ \A f \in disabled : \E i \in DOMAIN flight : flight[i].form = f
  /\ \A i, j \in DOMAIN flight :
       flight[i].form = flight[j].form /\ Waits(flight[i].form) => i = j
  /\ \A i \in DOMAIN flight : Waits(flight[i].form) => flight[i].form \in disabled

OneSelection ==
  "key" \notin panel.on =>
    /\ \A i \in DOMAIN flight : flight[i].key = key
    /\ shown # Nothing => shown.key = key

\* A write the server has done and the screen has not heard of.
Unheard(f) ==
  \E i \in DOMAIN flight : /\ flight[i].kind = "write" /\ flight[i].at = "answered"
                           /\ flight[i].form = f

LooksInv ==
  Looks(panel) =>
    /\ "key" \in panel.on =>
         /\ \A i \in DOMAIN flight :
              flight[i].kind = "fetch" /\ flight[i].fresh => flight[i].key = key
         /\ \/ shown = Nothing \/ shown.key = key
            \/ \E i \in DOMAIN flight : flight[i].kind = "fetch" /\ flight[i].fresh
    /\ \A f \in shown.misses : f.after # "aside" /\ Unheard(f)
    /\ \A i \in DOMAIN flight : flight[i].kind = "fetch" =>
         \A f \in flight[i].misses : f.after # "aside" /\ Unheard(f)

EditsInv ==
  EditCalls(panel) =>
    /\ \A i \in DOMAIN flight : flight[i].kind = "fetch" =>
         Len(flight) = 1 /\ shown = Nothing /\ flight[i].misses = {} /\ panel.reads # {}
    /\ panel.reads = {} => shown = Nothing
    /\ \A i \in DOMAIN flight :
         panel.reads # {} /\ flight[i].kind = "write" /\ flight[i].form.after = "patch" =>
           flight[i].misses = {}
    /\ \A f \in shown.misses : f.after # "aside" /\ Unheard(f)

RenewsInv ==
  Renews(panel) =>
    /\ \A i \in DOMAIN flight : flight[i].kind = "fetch" =>
         /\ flight[i].misses = {}
         /\ \/ Len(flight) = 1 /\ shown = Nothing
            \/ flight[i].form \in panel.forms /\ flight[i].form.after = "reload"
    /\ \A f \in shown.misses :
         /\ f.after = "reload"
         /\ \/ Unheard(f)
            \/ \E i \in DOMAIN flight : flight[i].kind = "fetch" /\ flight[i].form = f

ScreenInv == ScreenShape /\ ButtonsWait /\ OneSelection /\ LooksInv /\ EditsInv /\ RenewsInv
-----------------------------------------------------------------------------
(* The pages.                                                               *)

\* Every panel is one that Careless names, or keeps its screen right in one of
\* the three ways.
Fine(p) == p \in Careless \/ Careful(p)

LEMMA PublicAreFine == \A v : \A p \in PublicPages(v) : Fine(p)
<1>1. \A p \in {RateHistory, MyTickets, CollectorReviews, Register} : Fine(p) BY DEF Fine, Careless
<1> USE DEF Fine, Careful, Panel, Form
<1>2. \A p \in {CommunityImpact, ScrapRatesPage, RateOutlooks, VerifyEmail} : Fine(p)
  BY DEF CommunityImpact, ScrapRatesPage, RateOutlooks, VerifyEmail, View, Looks
<1>3. \A p \in {TripShare, PublicProfile} : Fine(p) BY DEF TripShare, PublicProfile, KeyedView, Looks
<1>4. \A p \in {AdminLogin, ForgotPasswordPage, ResetPassword} : Fine(p)
  BY DEF AdminLogin, ForgotPasswordPage, ResetPassword, Action, Looks
<1>5. \A p \in {Login, GoogleSignInButton, ContactForm} : Fine(p)
  BY DEF Login, GoogleSignInButton, ContactForm, Looks
<1> HIDE DEF Fine, Careful, Panel, Form
<1> QED BY <1>1, <1>2, <1>3, <1>4, <1>5 DEF PublicPages

LEMMA ProfileIsFine == \A v : \A p \in Profile(v) \cup Navbar(v) \cup {Receipt, Impact} : Fine(p)
<1>1. Fine(Receipt) /\ Fine(ProfileForms) BY DEF Fine, Careless
<1> USE DEF Fine, Careful, Panel, Form
<1>2. \A p \in {PushSwitch, DeleteAccountModal, ReferralCard, NotificationBell} : Fine(p)
  BY DEF PushSwitch, DeleteAccountModal, ReferralCard, NotificationBell, Looks
<1>3. \A p \in {MyReputationCard, Impact} : Fine(p) BY DEF MyReputationCard, Impact, View, Looks
<1>4. Fine(UpiIdCard) BY DEF UpiIdCard, EditCalls, Waits
<1> HIDE DEF Fine, Careful, Panel, Form
<1> QED BY <1>1, <1>2, <1>3, <1>4 DEF Profile, Navbar, ProtectedRoute

LEMMA SharedAreFine == \A p \in SharedDialogs : Fine(p)
<1>1. Fine(ShareLink) /\ Fine(ChatWindow) BY DEF Fine, Careless
<1> USE DEF Fine, Careful, Panel, Form
<1>2. \A p \in {KeyedView("getFairPrice"), KeyedView("getPickupDisputes"), Action("createDispute"),
                Action("submitRating"), Action("raiseSos")} : Fine(p)
  BY DEF KeyedView, Action, Looks
<1> HIDE DEF Fine, Careful, Panel, Form
<1> QED BY <1>1, <1>2 DEF SharedDialogs

LEMMA RequesterIsFine == \A v : \A p \in RequesterPages(v) : Fine(p)
<1>1. \A p \in {MyRequestsList, ReceivedCard, StartCode, RecurringPickupsPanel, BusinessForms,
                BusinessReport} : Fine(p)
  BY DEF Fine, Careless
<1> USE DEF Fine, Careful, Panel, Form
<1>2. \A p \in {UserDashboard, VerifyEmailBanner, GetQuotes, RequestPickup, SlotPicker} : Fine(p)
  BY DEF UserDashboard, VerifyEmailBanner, GetQuotes, RequestPickup, SlotPicker,
         KeyedView, Action, Looks
<1>3. \A p \in RequestDialogs \ {ReceivedCard, StartCode} : Fine(p)
  BY DEF RequestDialogs, NearbyCollectors, KeyedView, Action, Looks
<1> HIDE DEF Fine, Careful, Panel, Form
<1> QED BY <1>1, <1>2, <1>3, SharedAreFine DEF RequesterPages, ProtectedRoute

LEMMA CollectorIsFine == \A v : \A p \in CollectorDashboard(v) : Fine(p)
<1>1. \A p \in {CollectorLists, WalletTab, PlansCard, TeamPanel, OwnedTeam, TeamAssign, PayCard} :
        Fine(p)
  BY DEF Fine, Careless
<1> USE DEF Fine, Careful, Panel, Form
<1>2. \A p \in {VerifyEmailBanner, CollectorBadges, AchievementsPanel, LeaderboardPanel,
                PerformanceInsightsPanel, NotifyPreferencesModal} : Fine(p)
  BY DEF VerifyEmailBanner, CollectorBadges, AchievementsPanel, LeaderboardPanel,
         PerformanceInsightsPanel, NotifyPreferencesModal, View, Action, Looks
<1>3. \A p \in {RoutePlanner, SuggestedBatchPanel, DemandHeatmapModal, DemandForecastCard,
                RequesterProfileModal, TeamPerformance} : Fine(p)
  BY DEF RoutePlanner, SuggestedBatchPanel, DemandHeatmapModal, DemandForecastCard,
         RequesterProfileModal, TeamPerformance, View, KeyedView, Looks
<1>4. \A p \in {VerificationGate, AvailabilityToggle, WorkingHoursCard, RateCardPanel} : Fine(p)
  BY DEF VerificationGate, AvailabilityToggle, WorkingHoursCard, RateCardPanel, EditCalls, Waits
<1>5. Fine(DropOffPanel) BY DEF DropOffPanel, Renews
<1>6. Fine(Action("markOnTheWay")) BY DEF Action, Looks
<1> HIDE DEF Fine, Careful, Panel, Form
<1> QED BY <1>1, <1>2, <1>3, <1>4, <1>5, <1>6, SharedAreFine
        DEF CollectorDashboard, JobDialogs, ProtectedRoute

LEMMA AdminIsFine == \A v : \A p \in AdminPanel(v) : Fine(p)
<1>1. \A p \in {UsersTab, PayoutsTab, DisputeQueue, AddCollectorTab, AuditLogTab, CouponsTab,
                PartnersTab, PlansTab, FraudTab, ItemCatalogTab, ScrapRatesTab, SafetyTab, SupportTab,
                VerificationsTab} : Fine(p)
  BY DEF Fine, Careless
<1> USE DEF Fine, Careful, Panel, Form
<1>2. \A p \in {SosBadge, OverviewTab, PickupsTab, OpsTab} : Fine(p)
  BY DEF SosBadge, OverviewTab, PickupsTab, OpsTab, View, Looks
<1> HIDE DEF Fine, Careful, Panel, Form
<1> QED BY <1>1, <1>2 DEF AdminPanel, ProtectedRoute

\* Every panel of every page is one of them.
LEMMA AllAreFine == \A v : \A p \in AppRoutes(v) : Fine(p)
BY PublicAreFine, ProfileIsFine, RequesterIsFine, CollectorIsFine, AdminIsFine
   DEF AppRoutes, ProtectedRoute

-----------------------------------------------------------------------------
(* Sequences of calls.                                                      *)

-----------------------------------------------------------------------------
(* Opening and closing a panel.                                             *)

LEMMA NoPanelIsFine == Careful(NoPanel)
BY DEF Careful, Looks, NoPanel, Panel

LEMMA NoFormIs == NoForm.off = "no" /\ NoForm.after = "aside" /\ ~Waits(NoForm)
BY DEF NoForm, Form, Waits

\* An answer frees the button of its form, and of no other that waits.
LEMMA FreedIs ==
  ASSUME NEW form \in panel.forms \cup {NoForm}
  PROVE  form \in Freed(form) /\ \A f \in Freed(form) : Waits(f) => f = form
<1>1. CASE form.off = "row"
  <2>1. form \in panel.forms BY <1>1, NoFormIs
  <2> QED BY <1>1, <2>1 DEF Freed, Waits
<1>2. CASE form.off # "row" BY <1>2 DEF Freed
<1> QED BY <1>1, <1>2

LEMMA FetchIs ==
  ASSUME NEW k \in Keys, NEW form \in panel.forms \cup {NoForm}
  PROVE  /\ Fetch(k, form) \in CallsOf(panel)
         /\ Fetch(k, form) = [kind |-> "fetch", calls |-> panel.reads, key |-> k, at |-> "sent",
                              misses |-> {}, fresh |-> TRUE, form |-> form]
BY DEF Fetch, CallsOf

LEMMA FirstFetch ==
  ASSUME NEW p
  PROVE  [Fetch(1, NoForm) EXCEPT !.calls = p.reads]
           \in [kind : {"fetch"}, calls : {p.reads}, key : {1}, at : {"sent"}, misses : {{}},
                fresh : {TRUE}, form : {NoForm}]
<1> DEFINE r == panel.reads
           q == p.reads
<1>1. Fetch(1, NoForm) \in [kind : {"fetch"}, calls : {r, q}, key : {1}, at : {"sent"},
                            misses : {{}}, fresh : {TRUE}, form : {NoForm}]
  BY DEF Fetch
<1> HIDE DEF r, q
<1>2. [Fetch(1, NoForm) EXCEPT !.calls = q]
        \in [kind : {"fetch"}, calls : {q}, key : {1}, at : {"sent"}, misses : {{}},
             fresh : {TRUE}, form : {NoForm}]
  BY <1>1
<1> QED BY <1>2 DEF q

LEMMA VisitStep ==
  ASSUME ScreenInv, NEW p \in AppRoutes(visitor), Visit(p)
  PROVE  ScreenInv'
<1> DEFINE c == [Fetch(1, NoForm) EXCEPT !.calls = p.reads]
<1>1. /\ key = 1 /\ flight = <<>> /\ shown = Nothing /\ disabled = {}
      /\ key' = key /\ shown' = shown /\ disabled' = disabled /\ panel' = p
      /\ flight' = IF p.reads = {} THEN <<>> ELSE <<c>>
  BY DEF Visit, ScreenInv, ScreenShape
<1>2. c \in [kind : {"fetch"}, calls : {p.reads}, key : {1}, at : {"sent"}, misses : {{}},
             fresh : {TRUE}, form : {NoForm}]
  BY FirstFetch
<1>3. c \in CallsOf(p) /\ c.kind = "fetch" /\ c.key = 1 /\ c.misses = {} /\ c.form = NoForm /\ c.fresh
  BY <1>2 DEF CallsOf, Keys
<1> HIDE DEF c
<1>4. /\ flight' \in Seq(CallsOf(p)) /\ Len(flight') \in {0, 1} /\ DOMAIN flight' \subseteq {1}
      /\ \A i \in DOMAIN flight' : flight'[i] = c /\ Len(flight') = 1 /\ p.reads # {}
  <2>1. CASE p.reads = {} BY <1>1, <2>1
  <2>2. CASE p.reads # {}
    <3>1. flight' = <<c>> BY <1>1, <2>2
    <3>2. <<c>> \in Seq(CallsOf(p)) /\ Len(<<c>>) = 1 /\ DOMAIN <<c>> = {1} /\ <<c>>[1] = c BY <1>3
    <3> QED BY <2>2, <3>1, <3>2
  <2> QED BY <2>1, <2>2
<1>5. ~Waits(NoForm) BY NoFormIs
<1>6. Nothing.misses = {} BY DEF Nothing
<1>7. NoPanel.reads = {} BY DEF NoPanel, Panel
<1>9. ScreenShape'
  <2>1. panel' = NoPanel => flight' = <<>> BY <1>1, <1>7
  <2>2. (panel \in Careless \/ Careful(panel))' BY <1>1, AllAreFine DEF Fine
  <2> QED BY <1>1, <1>3, <1>4, <2>1, <2>2 DEF ScreenShape, Keys
<1>10. ButtonsWait' BY <1>1, <1>3, <1>4, <1>5 DEF ButtonsWait
<1>11. OneSelection' BY <1>1, <1>3, <1>4 DEF OneSelection
<1>12. LooksInv' BY <1>1, <1>3, <1>4, <1>6 DEF LooksInv
<1>13. EditsInv' BY <1>1, <1>3, <1>4, <1>6 DEF EditsInv
<1>14. RenewsInv' BY <1>1, <1>3, <1>4, <1>6 DEF RenewsInv
<1> QED BY <1>9, <1>10, <1>11, <1>12, <1>13, <1>14 DEF ScreenInv

LEMMA PanelGoneStep == Gone => ScreenInv'
<1> SUFFICES ASSUME Gone PROVE ScreenInv' OBVIOUS
<1>1. panel' = NoPanel /\ key' = 1 /\ flight' = <<>> /\ shown' = Nothing /\ disabled' = {}
  BY DEF Gone
<1>2. Careful(panel') BY <1>1, NoPanelIsFine
<1>3. Nothing.misses = {} BY DEF Nothing
<1>4. DOMAIN flight' = {} /\ flight' \in Seq(CallsOf(panel')) BY <1>1
<1>5. ScreenShape' BY <1>1, <1>2, <1>4 DEF ScreenShape, Keys
<1>6. ButtonsWait' /\ OneSelection' BY <1>1, <1>4 DEF ButtonsWait, OneSelection
<1>7. LooksInv' /\ EditsInv' /\ RenewsInv' BY <1>1, <1>3, <1>4 DEF LooksInv, EditsInv, RenewsInv
<1> QED BY <1>5, <1>6, <1>7 DEF ScreenInv

-----------------------------------------------------------------------------
(* Fetching again.                                                          *)

\* What an overtaken call still is.
SameCall(c, d) ==
  /\ c.kind = d.kind /\ c.key = d.key /\ c.at = d.at /\ c.misses = d.misses /\ c.form = d.form

LEMMA OvertakenIs ==
  ASSUME NEW p, NEW s \in Seq(CallsOf(p)), NEW t, t = Overtaken(s)
  PROVE  /\ t \in Seq(CallsOf(p)) /\ Len(t) = Len(s) /\ DOMAIN t = DOMAIN s
         /\ \A i \in DOMAIN s : SameCall(t[i], s[i]) /\ (t[i].kind = "fetch" => ~t[i].fresh)
<1>1. Len(s) \in Nat /\ DOMAIN s = 1..Len(s) /\ \A i \in 1..Len(s) : s[i] \in CallsOf(p)
  BY LenProperties, ElementOfSeq
<1>2. /\ DOMAIN t = DOMAIN s
      /\ \A i \in DOMAIN s : t[i] = [s[i] EXCEPT !.fresh = @ /\ s[i].kind = "write"]
  BY DEF Overtaken
<1>3. ASSUME NEW i \in DOMAIN s
      PROVE  t[i] \in CallsOf(p) /\ SameCall(t[i], s[i]) /\ (t[i].kind = "fetch" => ~t[i].fresh)
  <2>1. PICK c \in CallsOf(p) : c = s[i] BY <1>1
  <2>2. PICK b \in BOOLEAN : b = (c.fresh /\ c.kind = "write") OBVIOUS
  <2>3. t[i] = [c EXCEPT !.fresh = b] BY <1>2, <2>1, <2>2
  <2>4. /\ [c EXCEPT !.fresh = b] \in CallsOf(p) /\ [c EXCEPT !.fresh = b].fresh = b
        /\ SameCall([c EXCEPT !.fresh = b], c)
    BY DEF CallsOf, SameCall
  <2>5. c.kind = "fetch" => ~b BY <2>2
  <2> QED BY <2>1, <2>3, <2>4, <2>5 DEF SameCall
<1>4. t \in [1..Len(s) -> CallsOf(p)]
  <2>1. t = [i \in DOMAIN s |-> t[i]] BY <1>2 DEF Overtaken
  <2> QED BY <1>1, <1>2, <1>3, <2>1
<1>5. t \in Seq(CallsOf(p)) /\ Len(t) = Len(s) BY <1>1, <1>4, SeqDef, LenProperties
<1> QED BY <1>2, <1>3, <1>5

LEMMA RefetchStep ==
  ASSUME ScreenInv, NEW k \in Keys, Refetch(k), panel.on # {}, k = key \/ "key" \in panel.on
  PROVE  ScreenInv'
<1> DEFINE c == Fetch(k, NoForm)
           over == Overtaken(flight)
<1>1. /\ key' = k /\ flight' = Append(over, c)
      /\ panel' = panel /\ shown' = shown /\ disabled' = disabled
  BY DEF Refetch
<1>2. /\ c \in CallsOf(panel) /\ c.kind = "fetch" /\ c.key = k /\ c.misses = {} /\ c.form = NoForm
      /\ c.fresh
  BY FetchIs
<1>3. flight \in Seq(CallsOf(panel)) BY DEF ScreenInv, ScreenShape
<1>4. /\ over \in Seq(CallsOf(panel)) /\ DOMAIN over = DOMAIN flight
      /\ \A i \in DOMAIN flight :
           SameCall(over[i], flight[i]) /\ (over[i].kind = "fetch" => ~over[i].fresh)
  BY <1>3, OvertakenIs
<1> HIDE DEF c, over
<1> DEFINE n == Len(flight')
<1>5. /\ flight' \in Seq(CallsOf(panel)) /\ DOMAIN flight' = DOMAIN flight \cup {n}
      /\ n \notin DOMAIN flight /\ flight'[n] = c
      /\ \A i \in DOMAIN flight : SameCall(flight'[i], flight[i])
                                  /\ (flight'[i].kind = "fetch" => ~flight'[i].fresh)
  BY <1>1, <1>2, <1>4, AndOneMore
<1> HIDE DEF n
<1>6. ~Waits(NoForm) BY NoFormIs
<1>7. \A f : Unheard(f) => Unheard(f)' BY <1>5 DEF Unheard, SameCall
<1>8. panel # NoPanel BY DEF NoPanel, Panel
<1>9. ScreenShape'
  <2>1. \A i \in DOMAIN flight' : flight'[i].kind = "write" => flight'[i].form \in panel.forms
    BY <1>2, <1>5 DEF ScreenInv, ScreenShape, SameCall
  <2>2. flight' \in Seq(CallsOf(panel')) /\ key' \in Keys /\ panel' # NoPanel BY <1>1, <1>5, <1>8
  <2> QED BY <1>1, <2>1, <2>2 DEF ScreenInv, ScreenShape
<1>10. ButtonsWait'
  <2>1. \A f \in disabled : \E i \in DOMAIN flight' : flight'[i].form = f
    BY <1>5 DEF ScreenInv, ButtonsWait, SameCall
  <2>2. \A i \in DOMAIN flight' : Waits(flight'[i].form) =>
          i \in DOMAIN flight /\ flight'[i].form = flight[i].form
    BY <1>2, <1>5, <1>6 DEF SameCall
  <2> QED BY <1>1, <2>1, <2>2 DEF ScreenInv, ButtonsWait
<1>11. OneSelection' BY <1>1, <1>2, <1>5 DEF ScreenInv, OneSelection, SameCall
<1>12. LooksInv'
  <2> SUFFICES ASSUME Looks(panel) PROVE LooksInv' BY <1>1 DEF LooksInv
  <2>1. \A i \in DOMAIN flight' :
          flight'[i].kind = "fetch" /\ flight'[i].fresh => flight'[i].key = key'
    BY <1>1, <1>2, <1>5
  <2>2. \E i \in DOMAIN flight' : flight'[i].kind = "fetch" /\ flight'[i].fresh BY <1>2, <1>5
  <2>3. \A f \in shown'.misses : f.after # "aside" /\ Unheard(f)'
    BY <1>1, <1>7 DEF ScreenInv, LooksInv
  <2>4. \A i \in DOMAIN flight' : flight'[i].kind = "fetch" =>
          \A f \in flight'[i].misses : f.after # "aside" /\ Unheard(f)'
    BY <1>2, <1>5, <1>7 DEF ScreenInv, LooksInv, SameCall
  <2> QED BY <2>1, <2>2, <2>3, <2>4 DEF LooksInv
<1>13. EditsInv' /\ RenewsInv' BY <1>1 DEF EditsInv, RenewsInv, EditCalls, Renews
<1> QED BY <1>9, <1>10, <1>11, <1>12, <1>13 DEF ScreenInv

-----------------------------------------------------------------------------
(* Using a form.                                                            *)

LEMMA PressStep ==
  ASSUME ScreenInv, NEW form \in panel.forms, Press(form)
  PROVE  ScreenInv'
<1> DEFINE c == Send(form)
           n == Len(flight')
<1>1. /\ form \notin disabled
      /\ panel.reads = {} \/ shown.key = key
      /\ flight' = Append(flight, c)
      /\ disabled' = IF form.off = "no" THEN disabled ELSE (disabled \ Freed(form)) \cup {form}
      /\ panel' = panel /\ shown' = shown /\ key' = key
  BY DEF Press
<1>2. /\ c \in CallsOf(panel) /\ c.kind = "write" /\ c.key = key /\ c.misses = {} /\ c.form = form
  BY DEF Send, CallsOf, ScreenInv, ScreenShape
<1>3. flight \in Seq(CallsOf(panel)) BY DEF ScreenInv, ScreenShape
<1> HIDE DEF c
<1>4. /\ flight' \in Seq(CallsOf(panel)) /\ Len(flight') = Len(flight) + 1
      /\ DOMAIN flight' = DOMAIN flight \cup {n}
      /\ n \notin DOMAIN flight /\ flight'[n] = c
      /\ \A i \in DOMAIN flight : flight'[i] = flight[i]
  BY <1>1, <1>2, <1>3, AndOneMore
<1> HIDE DEF n
<1>5. \A f : Unheard(f) => Unheard(f)' BY <1>4 DEF Unheard
<1>6. panel # NoPanel BY DEF NoPanel, Panel
<1>7. panel.reads = {} \/ shown # Nothing BY <1>1 DEF Nothing, ScreenInv, ScreenShape, Keys
<1>8. ScreenShape'
  <2>1. \A i \in DOMAIN flight' : flight'[i].kind = "write" => flight'[i].form \in panel.forms
    BY <1>2, <1>4 DEF ScreenInv, ScreenShape
  <2>2. disabled' \subseteq panel.forms BY <1>1 DEF ScreenInv, ScreenShape
  <2> QED BY <1>1, <1>4, <1>6, <2>1, <2>2 DEF ScreenInv, ScreenShape
<1>9. ButtonsWait'
  <2>1. \A f \in disabled' : \E i \in DOMAIN flight' : flight'[i].form = f
    BY <1>1, <1>2, <1>4 DEF ScreenInv, ButtonsWait
  <2>2. \A i \in DOMAIN flight' : Waits(flight'[i].form) => flight'[i].form \in disabled'
    <3>1. \A i \in DOMAIN flight : Waits(flight[i].form) => flight[i].form \in disabled'
      BY <1>1, FreedIs DEF ScreenInv, ButtonsWait
    <3>2. Waits(form) => form \in disabled' BY <1>1 DEF Waits
    <3> QED BY <1>2, <1>4, <3>1, <3>2
  <2>3. Waits(form) => \A i \in DOMAIN flight : flight[i].form # form
    BY <1>1 DEF ScreenInv, ButtonsWait
  <2>4. \A i, j \in DOMAIN flight' :
          flight'[i].form = flight'[j].form /\ Waits(flight'[i].form) => i = j
    BY <1>2, <1>4, <2>3 DEF ScreenInv, ButtonsWait
  <2> QED BY <2>1, <2>2, <2>4 DEF ButtonsWait
<1>10. OneSelection' BY <1>1, <1>2, <1>4 DEF ScreenInv, OneSelection
<1>11. LooksInv'
  <2> SUFFICES ASSUME Looks(panel) PROVE LooksInv' BY <1>1 DEF LooksInv
  <2>1. "key" \in panel.on =>
          /\ \A i \in DOMAIN flight' :
               flight'[i].kind = "fetch" /\ flight'[i].fresh => flight'[i].key = key
          /\ \/ shown = Nothing \/ shown.key = key
             \/ \E i \in DOMAIN flight' : flight'[i].kind = "fetch" /\ flight'[i].fresh
    BY <1>2, <1>4 DEF ScreenInv, LooksInv
  <2>2. \A f \in shown.misses : f.after # "aside" /\ Unheard(f)' BY <1>5 DEF ScreenInv, LooksInv
  <2>3. \A i \in DOMAIN flight' : flight'[i].kind = "fetch" =>
          \A f \in flight'[i].misses : f.after # "aside" /\ Unheard(f)'
    BY <1>2, <1>4, <1>5 DEF ScreenInv, LooksInv
  <2> QED BY <1>1, <2>1, <2>2, <2>3 DEF LooksInv
<1>12. EditsInv'
  <2> SUFFICES ASSUME EditCalls(panel) PROVE EditsInv' BY <1>1 DEF EditsInv
  <2>1. \A i \in DOMAIN flight' : flight'[i].kind # "fetch" BY <1>2, <1>4, <1>7 DEF ScreenInv, EditsInv
  <2>2. \A i \in DOMAIN flight' :
          panel.reads # {} /\ flight'[i].kind = "write" /\ flight'[i].form.after = "patch" =>
            flight'[i].misses = {}
    BY <1>2, <1>4 DEF ScreenInv, EditsInv
  <2>3. \A f \in shown.misses : f.after # "aside" /\ Unheard(f)' BY <1>5 DEF ScreenInv, EditsInv
  <2>4. panel.reads = {} => shown = Nothing BY DEF ScreenInv, EditsInv
  <2> QED BY <1>1, <2>1, <2>2, <2>3, <2>4 DEF EditsInv
<1>13. RenewsInv'
  <2> SUFFICES ASSUME Renews(panel) PROVE RenewsInv' BY <1>1 DEF RenewsInv
  <2>1. \A i \in DOMAIN flight' : flight'[i].kind = "fetch" =>
          /\ flight'[i].misses = {}
          /\ flight'[i].form \in panel.forms /\ flight'[i].form.after = "reload"
    BY <1>2, <1>4, <1>7 DEF ScreenInv, RenewsInv, Renews
  <2>2. \A f \in shown.misses :
         /\ f.after = "reload"
         /\ \/ Unheard(f)'
            \/ \E i \in DOMAIN flight' : flight'[i].kind = "fetch" /\ flight'[i].form = f
    BY <1>4, <1>5 DEF ScreenInv, RenewsInv
  <2> QED BY <1>1, <2>1, <2>2 DEF RenewsInv
<1> QED BY <1>8, <1>9, <1>10, <1>11, <1>12, <1>13 DEF ScreenInv

-----------------------------------------------------------------------------
(* The server handles a call.                                               *)

\* What a call keeps when it, or another, is handled.
Keeps(c, d) == c.kind = d.kind /\ c.key = d.key /\ c.form = d.form /\ c.fresh = d.fresh

Writes(i) == flight[i].kind = "write" /\ flight[i].form.after # "aside"

LEMMA ShownIs ==
  ASSUME ScreenShape, NEW form \in panel.forms, shown # Nothing
  PROVE  /\ [shown EXCEPT !.misses = @ \cup {form}] \in [key : Keys, misses : SUBSET panel.forms]
         /\ [shown EXCEPT !.misses = @ \cup {form}].key = shown.key
         /\ [shown EXCEPT !.misses = @ \cup {form}].misses = shown.misses \cup {form}
<1>1. shown \in [key : Keys, misses : SUBSET panel.forms] BY DEF ScreenShape
<1> QED BY <1>1

LEMMA NothingIs ==
  /\ Nothing.key = 0 /\ Nothing.misses = {}
  /\ \A F : \A a \in [key : Keys, misses : SUBSET F] : a # Nothing
<1>1. Nothing.key = 0 /\ Nothing.misses = {} BY DEF Nothing
<1>2. \A F : \A a \in [key : Keys, misses : SUBSET F] : a.key \in {1, 2} BY DEF Keys
<1> QED BY <1>1, <1>2

LEMMA Served ==
  ASSUME ScreenInv, NEW i \in DOMAIN flight, Serve(i)
  PROVE  /\ flight' \in Seq(CallsOf(panel)) /\ Len(flight') = Len(flight)
         /\ DOMAIN flight' = DOMAIN flight
         /\ \A j \in DOMAIN flight : Keeps(flight'[j], flight[j])
         /\ \A j \in DOMAIN flight \ {i} : flight'[j].at = flight[j].at
         /\ flight'[i].at = "answered" /\ flight[i].at = "sent"
         /\ panel' = panel /\ key' = key /\ disabled' = disabled
         /\ ~Writes(i) =>
              shown' = shown /\ \A j \in DOMAIN flight : flight'[j].misses = flight[j].misses
         /\ Writes(i) =>
              /\ flight[i].form \in panel.forms
              /\ shown = Nothing => shown' = Nothing
              /\ shown # Nothing =>
                   /\ shown' \in [key : Keys, misses : SUBSET panel.forms]
                   /\ shown'.key = shown.key
                   /\ shown'.misses = shown.misses \cup {flight[i].form}
              /\ flight'[i].misses = flight[i].misses
              /\ \A j \in DOMAIN flight \ {i} :
                   \/ flight'[j].misses = flight[j].misses
                   \/ /\ flight'[j].misses = flight[j].misses \cup {flight[i].form}
                      /\ \/ flight[j].kind = "fetch" \/ flight[j].form.after = "replace"
                         \/ flight[j].form = flight[i].form
<1>1. /\ flight \in Seq(CallsOf(panel)) /\ Len(flight) \in Nat /\ DOMAIN flight = 1..Len(flight)
      /\ \A j \in DOMAIN flight : flight[j] \in CallsOf(panel)
  BY LenProperties, ElementOfSeq DEF ScreenInv, ScreenShape
<1>2. panel' = panel /\ key' = key /\ disabled' = disabled /\ flight[i].at = "sent" BY DEF Serve
<1>3. flight[i].kind = "write" => flight[i].form \in panel.forms BY DEF ScreenInv, ScreenShape
<1>4. PICK c \in CallsOf(panel) : c = flight[i] BY <1>1
<1>5. PICK d : d = [c EXCEPT !.at = "answered"] OBVIOUS
<1>6. /\ d \in CallsOf(panel) /\ Keeps(d, c) /\ d.at = "answered" /\ d.misses = c.misses
  BY <1>5 DEF CallsOf, Keeps
<1>7. CASE ~Writes(i)
  <2>1. flight' = [flight EXCEPT ![i].at = "answered"] /\ shown' = shown
    BY <1>1, <1>4, <1>7 DEF Serve, Writes, CallsOf
  <2>2. /\ DOMAIN flight' = DOMAIN flight /\ flight'[i] = d
        /\ \A j \in DOMAIN flight \ {i} : flight'[j] = flight[j]
    BY <1>1, <1>4, <1>5, <2>1
  <2>3. flight' \in Seq(CallsOf(panel)) /\ Len(flight') = Len(flight)
    <3>1. flight' = [j \in 1..Len(flight) |-> flight'[j]] BY <1>1, <2>1
    <3>2. \A j \in 1..Len(flight) : flight'[j] \in CallsOf(panel) BY <1>1, <1>6, <2>2
    <3>3. flight' \in [1..Len(flight) -> CallsOf(panel)] BY <3>1, <3>2
    <3> QED BY <1>1, <3>3, SeqDef, LenProperties
  <2>4. \A j \in DOMAIN flight : Keeps(flight[j], flight[j]) BY DEF Keeps
  <2> QED BY <1>2, <1>4, <1>6, <1>7, <2>1, <2>2, <2>3, <2>4
<1>8. CASE Writes(i)
  <2>1. /\ flight' = [j \in DOMAIN flight |->
                        IF j = i THEN [c EXCEPT !.at = "answered"]
                        ELSE IF OutdatedBy(flight[j], c.form)
                             THEN [flight[j] EXCEPT !.misses = @ \cup {c.form}]
                             ELSE flight[j]]
        /\ shown' = IF shown = Nothing THEN shown ELSE [shown EXCEPT !.misses = @ \cup {c.form}]
    BY <1>4, <1>8 DEF Serve, Writes
  <2>2. c.form \in panel.forms BY <1>3, <1>4, <1>8 DEF Writes
  <2>3. ASSUME NEW j \in DOMAIN flight \ {i}
        PROVE  /\ flight'[j] \in CallsOf(panel) /\ Keeps(flight'[j], flight[j])
               /\ flight'[j].at = flight[j].at
               /\ \/ flight'[j].misses = flight[j].misses
                  \/ /\ flight'[j].misses = flight[j].misses \cup {c.form}
                     /\ \/ flight[j].kind = "fetch" \/ flight[j].form.after = "replace"
                        \/ flight[j].form = c.form
    <3>1. PICK e \in CallsOf(panel) : e = flight[j] BY <1>1
    <3>2. CASE OutdatedBy(e, c.form)
      <4>1. flight'[j] = [e EXCEPT !.misses = @ \cup {c.form}] BY <2>1, <3>1, <3>2
      <4>2. PICK m \in SUBSET panel.forms : m = e.misses \cup {c.form} BY <2>2 DEF CallsOf
      <4>3. /\ [e EXCEPT !.misses = m] \in CallsOf(panel) /\ Keeps([e EXCEPT !.misses = m], e)
            /\ [e EXCEPT !.misses = m].at = e.at /\ [e EXCEPT !.misses = m].misses = m
        BY DEF CallsOf, Keeps
      <4> QED BY <3>1, <3>2, <4>1, <4>2, <4>3 DEF OutdatedBy
    <3>3. CASE ~OutdatedBy(e, c.form) BY <2>1, <3>1, <3>3 DEF Keeps
    <3> QED BY <3>2, <3>3
  <2>4. flight'[i] = d /\ DOMAIN flight' = DOMAIN flight BY <1>5, <2>1
  <2>5. flight' \in Seq(CallsOf(panel)) /\ Len(flight') = Len(flight)
    <3>1. flight' = [j \in 1..Len(flight) |-> flight'[j]] BY <1>1, <2>1
    <3>2. \A j \in 1..Len(flight) : flight'[j] \in CallsOf(panel) BY <1>1, <1>6, <2>3, <2>4
    <3>3. flight' \in [1..Len(flight) -> CallsOf(panel)] BY <3>1, <3>2
    <3> QED BY <1>1, <3>3, SeqDef, LenProperties
  <2>6. /\ shown = Nothing => shown' = Nothing
        /\ shown # Nothing =>
             /\ shown' \in [key : Keys, misses : SUBSET panel.forms]
             /\ shown'.key = shown.key
             /\ shown'.misses = shown.misses \cup {c.form}
    BY <2>1, <2>2, ShownIs DEF ScreenInv
  <2> QED BY <1>2, <1>4, <1>6, <1>8, <2>2, <2>3, <2>4, <2>5, <2>6
<1> QED BY <1>7, <1>8

LEMMA ServeStep ==
  ASSUME ScreenInv, NEW i \in DOMAIN flight, Serve(i)
  PROVE  ScreenInv'
<1>1. /\ flight' \in Seq(CallsOf(panel)) /\ Len(flight') = Len(flight)
      /\ DOMAIN flight' = DOMAIN flight
      /\ \A j \in DOMAIN flight : Keeps(flight'[j], flight[j])
      /\ \A j \in DOMAIN flight \ {i} : flight'[j].at = flight[j].at
      /\ flight'[i].at = "answered" /\ flight[i].at = "sent"
      /\ panel' = panel /\ key' = key /\ disabled' = disabled
  BY Served
<1>2. ~Writes(i) => shown' = shown /\ \A j \in DOMAIN flight : flight'[j].misses = flight[j].misses
  BY Served
<1>3. Writes(i) =>
        /\ flight[i].form \in panel.forms
        /\ shown = Nothing => shown' = Nothing
        /\ shown # Nothing =>
             /\ shown' \in [key : Keys, misses : SUBSET panel.forms]
             /\ shown'.key = shown.key
             /\ shown'.misses = shown.misses \cup {flight[i].form}
        /\ flight'[i].misses = flight[i].misses
        /\ \A j \in DOMAIN flight \ {i} :
             \/ flight'[j].misses = flight[j].misses
             \/ /\ flight'[j].misses = flight[j].misses \cup {flight[i].form}
                /\ \/ flight[j].kind = "fetch" \/ flight[j].form.after = "replace"
                   \/ flight[j].form = flight[i].form
  BY Served
<1>4. \A f : Unheard(f) => Unheard(f)' BY <1>1 DEF Unheard, Keeps
<1>5. \A f : Writes(i) /\ f = flight[i].form => Unheard(f)' /\ f.after # "aside"
  BY <1>1 DEF Unheard, Keeps, Writes
<1>6. shown # Nothing => shown' # Nothing /\ shown'.key = shown.key BY <1>2, <1>3, NothingIs
<1>7. shown = Nothing => shown' = Nothing BY <1>2, <1>3
<1>8. \A f \in shown'.misses : f \in shown.misses \/ (Writes(i) /\ f = flight[i].form)
  BY <1>2, <1>3, <1>7
<1>9. \A j \in DOMAIN flight : \A f \in flight'[j].misses :
        f \in flight[j].misses \/ (Writes(i) /\ f = flight[i].form)
  BY <1>2, <1>3
<1>10. ScreenShape'
  <2>1. flight = <<>> <=> flight' = <<>> BY <1>1
  <2>2. \A j \in DOMAIN flight' : flight'[j].kind = "write" => flight'[j].form \in panel.forms
    BY <1>1 DEF ScreenInv, ScreenShape, Keeps
  <2>3. shown' \in [key : Keys, misses : SUBSET panel.forms] \cup {Nothing}
    BY <1>2, <1>3 DEF ScreenInv, ScreenShape
  <2> QED BY <1>1, <1>7, <2>1, <2>2, <2>3 DEF ScreenInv, ScreenShape
<1>11. ButtonsWait' BY <1>1 DEF ScreenInv, ButtonsWait, Keeps
<1>12. OneSelection' BY <1>1, <1>6, <1>7 DEF ScreenInv, OneSelection, Keeps
<1>13. LooksInv'
  <2> SUFFICES ASSUME Looks(panel) PROVE LooksInv' BY <1>1 DEF LooksInv
  <2>1. "key" \in panel.on =>
          /\ \A j \in DOMAIN flight :
               flight'[j].kind = "fetch" /\ flight'[j].fresh => flight'[j].key = key
          /\ \/ shown' = Nothing \/ shown'.key = key
             \/ \E j \in DOMAIN flight : flight'[j].kind = "fetch" /\ flight'[j].fresh
    BY <1>1, <1>6, <1>7 DEF ScreenInv, LooksInv, Keeps
  <2>2. \A f \in shown'.misses : f.after # "aside" /\ Unheard(f)'
    BY <1>4, <1>5, <1>8 DEF ScreenInv, LooksInv
  <2>3. \A j \in DOMAIN flight : flight'[j].kind = "fetch" =>
          \A f \in flight'[j].misses : f.after # "aside" /\ Unheard(f)'
    BY <1>1, <1>4, <1>5, <1>9 DEF ScreenInv, LooksInv, Keeps
  <2> QED BY <1>1, <2>1, <2>2, <2>3 DEF LooksInv
<1>14. EditsInv'
  <2> SUFFICES ASSUME EditCalls(panel) PROVE EditsInv' BY <1>1 DEF EditsInv
  <2>1. \A j \in DOMAIN flight : flight[j].kind = "fetch" => i = j /\ ~Writes(i)
    BY LenProperties DEF ScreenInv, EditsInv, ScreenShape, Writes
  <2>2. \A j \in DOMAIN flight : flight'[j].kind = "fetch" =>
          Len(flight') = 1 /\ shown' = Nothing /\ flight'[j].misses = {} /\ panel.reads # {}
    BY <1>1, <1>2, <2>1 DEF ScreenInv, EditsInv, Keeps
  <2>3. ASSUME NEW j \in DOMAIN flight, panel.reads # {}, flight'[j].kind = "write",
               flight'[j].form.after = "patch"
        PROVE  flight'[j].misses = {}
    <3>1. flight[j].kind = "write" /\ flight[j].form = flight'[j].form BY <1>1, <2>3 DEF Keeps
    <3>2. flight[j].misses = {} BY <2>3, <3>1 DEF ScreenInv, EditsInv
    <3>3. Waits(flight[j].form) /\ flight[j].form.after # "replace"
      BY <2>3, <3>1 DEF ScreenInv, ScreenShape, EditCalls
    <3>4. j # i => flight[j].form # flight[i].form BY <3>3 DEF ScreenInv, ButtonsWait
    <3> QED BY <1>2, <1>3, <3>1, <3>2, <3>3, <3>4
  <2>4. \A f \in shown'.misses : f.after # "aside" /\ Unheard(f)'
    BY <1>4, <1>5, <1>8 DEF ScreenInv, EditsInv
  <2>5. panel.reads = {} => shown' = Nothing BY <1>7 DEF ScreenInv, EditsInv
  <2> QED BY <1>1, <2>2, <2>3, <2>4, <2>5 DEF EditsInv
<1>15. RenewsInv'
  <2> SUFFICES ASSUME Renews(panel) PROVE RenewsInv' BY <1>1 DEF RenewsInv
  <2>1. Writes(i) => /\ flight[i].form \in panel.forms /\ flight[i].kind = "write"
                     /\ flight[i].form.after = "reload" /\ Waits(flight[i].form)
    BY <1>3 DEF Writes, Renews, Waits
  <2>2. ASSUME NEW j \in DOMAIN flight, flight[j].kind = "fetch", Writes(i) PROVE FALSE
    <3>1. Len(flight) # 1
      BY <2>1, <2>2, LenProperties DEF ScreenInv, ScreenShape
    <3>2. flight[j].form \in panel.forms /\ flight[j].form.after = "reload"
      BY <2>2, <3>1 DEF ScreenInv, RenewsInv
    <3>3. flight[j].form = flight[i].form BY <2>1, <2>2, <3>2 DEF Renews
    <3>4. j = i BY <2>1, <2>2, <3>3 DEF ScreenInv, ButtonsWait
    <3> QED BY <2>1, <2>2, <3>4
  <2>3. \A j \in DOMAIN flight : flight'[j].kind = "fetch" =>
         /\ flight'[j].misses = {}
         /\ \/ Len(flight') = 1 /\ shown' = Nothing
            \/ flight'[j].form \in panel.forms /\ flight'[j].form.after = "reload"
    BY <1>1, <1>2, <2>2 DEF ScreenInv, RenewsInv, Keeps
  <2>4. \A f \in shown'.misses :
         /\ f.after = "reload"
         /\ \/ Unheard(f)'
            \/ \E j \in DOMAIN flight : flight'[j].kind = "fetch" /\ flight'[j].form = f
    BY <1>1, <1>4, <1>5, <1>8, <2>1 DEF ScreenInv, RenewsInv, Keeps
  <2> QED BY <1>1, <2>3, <2>4 DEF RenewsInv
<1> QED BY <1>10, <1>11, <1>12, <1>13, <1>14, <1>15 DEF ScreenInv

-----------------------------------------------------------------------------
(* An answer, or a refusal, reaches the screen.                             *)

\* What holds however the screen takes it.
Left(i) ==
  /\ flight' = RemoveAt(flight, i)
  /\ disabled' = disabled \ Freed(flight[i].form)
  /\ panel' = panel /\ key' = key
  /\ shown' \in [key : Keys, misses : SUBSET panel.forms] \cup {Nothing}

LEMMA CallIs ==
  ASSUME ScreenShape, NEW i \in DOMAIN flight
  PROVE  flight[i] \in CallsOf(panel) /\ Len(flight) \in Nat /\ DOMAIN flight = 1..Len(flight)
BY LenProperties, ElementOfSeq DEF ScreenShape

LEMMA OthersStay ==
  ASSUME ScreenShape, NEW i \in DOMAIN flight, Left(i)
  PROVE  /\ flight' \in Seq(CallsOf(panel))
         /\ \A j \in DOMAIN flight' : \E k \in DOMAIN flight : k # i /\ flight'[j] = flight[k]
         /\ \A k \in DOMAIN flight : k # i => \E j \in DOMAIN flight' : flight'[j] = flight[k]
         /\ \A j, l \in DOMAIN flight' : j # l =>
              \E k, m \in DOMAIN flight : k # m /\ flight'[j] = flight[k] /\ flight'[l] = flight[m]
<1>1. flight \in Seq(CallsOf(panel)) BY DEF ScreenShape
<1>2. PICK t : t = RemoveAt(flight, i) OBVIOUS
<1>3. flight' = t BY <1>2 DEF Left
<1> QED BY <1>1, <1>2, <1>3, Without

LEMMA LeftOver ==
  ASSUME ScreenInv, NEW i \in DOMAIN flight, Left(i)
  PROVE  ScreenShape' /\ ButtonsWait'
<1>1. /\ flight' \in Seq(CallsOf(panel))
      /\ \A j \in DOMAIN flight' : \E k \in DOMAIN flight : k # i /\ flight'[j] = flight[k]
      /\ \A k \in DOMAIN flight : k # i => \E j \in DOMAIN flight' : flight'[j] = flight[k]
      /\ \A j, l \in DOMAIN flight' : j # l =>
           \E k, m \in DOMAIN flight : k # m /\ flight'[j] = flight[k] /\ flight'[l] = flight[m]
  BY OthersStay DEF ScreenInv
<1>2. /\ disabled' = disabled \ Freed(flight[i].form) /\ panel' = panel /\ key' = key
      /\ shown' \in [key : Keys, misses : SUBSET panel.forms] \cup {Nothing}
  BY DEF Left
<1>3. ScreenShape'
  <2>1. \A j \in DOMAIN flight' : flight'[j].kind = "write" => flight'[j].form \in panel.forms
    BY <1>1 DEF ScreenInv, ScreenShape
  <2>2. panel # NoPanel BY DEF ScreenInv, ScreenShape
  <2> QED BY <1>1, <1>2, <2>1, <2>2 DEF ScreenInv, ScreenShape
<1>4. ButtonsWait'
  <2>1. flight[i].form \in panel.forms \cup {NoForm} BY CallIs DEF ScreenInv, CallsOf
  <2>2. /\ flight[i].form \in Freed(flight[i].form)
        /\ \A f \in Freed(flight[i].form) : Waits(f) => f = flight[i].form
    BY <2>1, FreedIs
  <2>3. \A f \in disabled' : \E j \in DOMAIN flight' : flight'[j].form = f
    BY <1>1, <1>2, <2>2 DEF ScreenInv, ButtonsWait
  <2>4. \A j \in DOMAIN flight' : Waits(flight'[j].form) => flight'[j].form \in disabled'
    BY <1>1, <1>2, <2>2 DEF ScreenInv, ButtonsWait
  <2>5. \A j, l \in DOMAIN flight' :
          flight'[j].form = flight'[l].form /\ Waits(flight'[j].form) => j = l
    BY <1>1 DEF ScreenInv, ButtonsWait
  <2> QED BY <2>3, <2>4, <2>5 DEF ButtonsWait
<1> QED BY <1>3, <1>4

\* A write that is not heard of stays so while another call is answered.
LEMMA StillUnheard ==
  ASSUME ScreenInv, NEW i \in DOMAIN flight, Left(i)
  PROVE  \A f : Unheard(f) /\ (flight[i].form # f \/ flight[i].kind = "fetch" \/ flight[i].at = "sent")
                  => Unheard(f)'
BY OthersStay DEF ScreenInv, Unheard

\* A fetch alone leaves nothing under way.
LEMMA LastOne ==
  ASSUME ScreenInv, NEW i \in DOMAIN flight, Left(i), Len(flight) = 1
  PROVE  DOMAIN flight' = {}
BY OthersStay, CallIs DEF ScreenInv

\* What a fetch may do to the screen.
LEMMA DisplaysIs ==
  ASSUME NEW c, NEW doc, Displays(c, doc)
  PROVE  /\ shown' \in {doc, shown, Nothing}
         /\ c.fresh \/ panel.late = "shown" => shown' = doc
         /\ ~c.fresh /\ panel.late # "shown" => shown' \in {shown, Nothing}
<1>1. CASE c.fresh \/ panel.late = "shown" BY <1>1 DEF Displays
<1>2. CASE ~c.fresh /\ panel.late = "dropped" BY <1>2 DEF Displays
<1>3. CASE ~c.fresh /\ panel.late \notin {"shown", "dropped"} BY <1>3 DEF Displays
<1> QED BY <1>1, <1>2, <1>3

LEMMA FillStep ==
  ASSUME ScreenInv, NEW i \in DOMAIN flight, Fill(i)
  PROVE  ScreenInv'
<1>1. PICK c \in CallsOf(panel) : c = flight[i] BY CallIs DEF ScreenInv
<1>2. PICK a : a = [key |-> c.key, misses |-> c.misses] OBVIOUS
<1>3. /\ c.kind = "fetch" /\ c.at = "answered"
      /\ shown' \in {a, shown, Nothing}
      /\ c.fresh \/ panel.late = "shown" => shown' = a
      /\ ~c.fresh /\ panel.late # "shown" => shown' \in {shown, Nothing}
      /\ flight' = RemoveAt(flight, i) /\ disabled' = disabled \ Freed(c.form)
      /\ panel' = panel /\ key' = key
  BY <1>1, <1>2, DisplaysIs DEF Fill
<1>4. a \in [key : Keys, misses : SUBSET panel.forms] /\ a.key = c.key /\ a.misses = c.misses
  BY <1>2 DEF CallsOf
<1>5. Left(i) BY <1>1, <1>3, <1>2, <1>4 DEF Left, ScreenInv, ScreenShape
<1>6. ScreenShape' /\ ButtonsWait' BY <1>5, LeftOver
<1>7. \A f : Unheard(f) => Unheard(f)' BY <1>1, <1>3, <1>5, StillUnheard
<1>8. /\ \A j \in DOMAIN flight' : \E k \in DOMAIN flight : k # i /\ flight'[j] = flight[k]
      /\ \A k \in DOMAIN flight : k # i => \E j \in DOMAIN flight' : flight'[j] = flight[k]
  BY <1>5, OthersStay DEF ScreenInv
<1>9. OneSelection' BY <1>1, <1>3, <1>4, <1>8 DEF ScreenInv, OneSelection
<1>10. LooksInv'
  <2> SUFFICES ASSUME Looks(panel) PROVE LooksInv' BY <1>3 DEF LooksInv
  <2>1. \A f \in c.misses : f.after # "aside" /\ Unheard(f)
    BY <1>1, <1>3 DEF ScreenInv, LooksInv
  <2>2. \A f \in shown.misses : f.after # "aside" /\ Unheard(f) BY DEF ScreenInv, LooksInv
  <2>3. \A f \in shown'.misses : f.after # "aside" /\ Unheard(f)'
    BY <1>3, <1>4, <1>7, <2>1, <2>2, NothingIs
  <2>4. \A j \in DOMAIN flight' : flight'[j].kind = "fetch" =>
          \A f \in flight'[j].misses : f.after # "aside" /\ Unheard(f)'
    BY <1>7, <1>8 DEF ScreenInv, LooksInv
  <2>5. "key" \in panel.on =>
          \A j \in DOMAIN flight' :
            flight'[j].kind = "fetch" /\ flight'[j].fresh => flight'[j].key = key
    BY <1>8 DEF ScreenInv, LooksInv
  <2>6. ASSUME "key" \in panel.on
        PROVE  \/ shown' = Nothing \/ shown'.key = key
               \/ \E j \in DOMAIN flight' : flight'[j].kind = "fetch" /\ flight'[j].fresh
    <3>1. panel.late # "shown" BY <2>6 DEF Looks
    <3>2. CASE c.fresh
      <4>1. c.key = key BY <1>1, <1>3, <2>6, <3>2 DEF ScreenInv, LooksInv
      <4> QED BY <1>3, <1>4, <3>2, <4>1
    <3>3. CASE ~c.fresh
      <4>1. shown' \in {shown, Nothing} BY <1>3, <3>1, <3>3
      <4>2. \A k \in DOMAIN flight : flight[k].fresh => k # i BY <1>1, <3>3
      <4> QED BY <1>8, <2>6, <4>1, <4>2 DEF ScreenInv, LooksInv
    <3> QED BY <3>2, <3>3
  <2> QED BY <1>3, <2>3, <2>4, <2>5, <2>6 DEF LooksInv
<1>11. EditsInv'
  <2> SUFFICES ASSUME EditCalls(panel) PROVE EditsInv' BY <1>3 DEF EditsInv
  <2>1. Len(flight) = 1 /\ shown = Nothing /\ c.misses = {} /\ panel.reads # {}
    BY <1>1, <1>3 DEF ScreenInv, EditsInv
  <2>2. DOMAIN flight' = {} BY <1>5, <2>1, LastOne
  <2>3. shown'.misses = {} BY <1>3, <1>4, <2>1, NothingIs
  <2> QED BY <1>3, <2>1, <2>2, <2>3 DEF EditsInv
<1>12. RenewsInv'
  <2> SUFFICES ASSUME Renews(panel) PROVE RenewsInv' BY <1>3 DEF RenewsInv
  <2>1. c.misses = {} BY <1>1, <1>3 DEF ScreenInv, RenewsInv
  <2>2. panel.late = "shown" BY DEF Renews
  <2>3. shown'.misses = {} BY <1>3, <1>4, <2>1, <2>2
  <2>4. \A k \in DOMAIN flight : k # i => Len(flight) # 1 BY CallIs DEF ScreenInv
  <2>5. \A j \in DOMAIN flight' : flight'[j].kind = "fetch" =>
          /\ flight'[j].misses = {}
          /\ flight'[j].form \in panel.forms /\ flight'[j].form.after = "reload"
    BY <1>8, <2>4 DEF ScreenInv, RenewsInv
  <2> QED BY <1>3, <2>3, <2>5 DEF RenewsInv
<1> QED BY <1>6, <1>9, <1>10, <1>11, <1>12 DEF ScreenInv

LEMMA PatchStep ==
  ASSUME ScreenInv, NEW i \in DOMAIN flight, Patch(i)
  PROVE  ScreenInv'
<1>1. PICK c \in CallsOf(panel) : c = flight[i] BY CallIs DEF ScreenInv
<1>2. PICK old : old = IF c.form.after = "replace" THEN {} ELSE shown.misses \ {c.form} OBVIOUS
<1>3. PICK a : a = [key |-> c.key, misses |-> old \cup c.misses] OBVIOUS
<1>4. /\ c.kind = "write" /\ c.at = "answered" /\ c.form.after \in {"patch", "replace", "aside"}
      /\ shown' = IF c.form.after = "aside" \/ shown = Nothing THEN shown ELSE a
      /\ flight' = RemoveAt(flight, i) /\ disabled' = disabled \ Freed(c.form)
      /\ panel' = panel /\ key' = key
  BY <1>1, <1>2, <1>3 DEF Patch
<1>5. a.key = c.key /\ a.misses = old \cup c.misses BY <1>3
<1>6. shown # Nothing => a \in [key : Keys, misses : SUBSET panel.forms]
  <2>1. c.key \in Keys /\ c.misses \subseteq panel.forms BY DEF CallsOf
  <2>2. shown # Nothing => old \subseteq panel.forms BY <1>2 DEF ScreenInv, ScreenShape
  <2> QED BY <1>3, <2>1, <2>2
<1>7. Left(i) BY <1>1, <1>4, <1>6 DEF Left, ScreenInv, ScreenShape
<1>8. ScreenShape' /\ ButtonsWait' BY <1>7, LeftOver
<1>9. \A f : Unheard(f) /\ c.form # f => Unheard(f)' BY <1>1, <1>7, StillUnheard
<1>10. \A j \in DOMAIN flight' : \E k \in DOMAIN flight : k # i /\ flight'[j] = flight[k]
  BY <1>7, OthersStay DEF ScreenInv
<1>11. \A k \in DOMAIN flight : flight[k].kind = "fetch" =>
         k # i /\ Len(flight) # 1 /\ \E j \in DOMAIN flight' : flight'[j] = flight[k]
  BY <1>1, <1>4, <1>7, OthersStay, CallIs DEF ScreenInv
<1>12. c.form \in panel.forms BY <1>1, <1>4 DEF ScreenInv, ScreenShape
<1>13. OneSelection' BY <1>1, <1>4, <1>5, <1>10 DEF ScreenInv, OneSelection
<1>14. LooksInv'
  <2> SUFFICES ASSUME Looks(panel) PROVE LooksInv' BY <1>4 DEF LooksInv
  <2>1. c.form.after = "aside" BY <1>4, <1>12 DEF Looks
  <2>2. shown' = shown BY <1>4, <2>1
  <2>3. \A f \in shown'.misses : f.after # "aside" /\ Unheard(f)'
    BY <1>9, <2>1, <2>2 DEF ScreenInv, LooksInv
  <2>4. \A j \in DOMAIN flight' : flight'[j].kind = "fetch" =>
          \A f \in flight'[j].misses : f.after # "aside" /\ Unheard(f)'
    BY <1>9, <1>10, <2>1 DEF ScreenInv, LooksInv
  <2>5. "key" \in panel.on =>
          /\ \A j \in DOMAIN flight' :
               flight'[j].kind = "fetch" /\ flight'[j].fresh => flight'[j].key = key
          /\ \/ shown' = Nothing \/ shown'.key = key
             \/ \E j \in DOMAIN flight' : flight'[j].kind = "fetch" /\ flight'[j].fresh
    BY <1>10, <1>11, <2>2 DEF ScreenInv, LooksInv
  <2> QED BY <1>4, <2>3, <2>4, <2>5 DEF LooksInv
<1>15. EditsInv'
  <2> SUFFICES ASSUME EditCalls(panel) PROVE EditsInv' BY <1>4 DEF EditsInv
  <2>1. \A k \in DOMAIN flight : flight[k].kind # "fetch" BY <1>11 DEF ScreenInv, EditsInv
  <2>2. \A j \in DOMAIN flight' : flight'[j].kind # "fetch" BY <1>10, <2>1
  <2>3. panel.reads = {} => shown' = Nothing BY <1>4 DEF ScreenInv, EditsInv
  <2>4. \A j \in DOMAIN flight' :
          panel.reads # {} /\ flight'[j].kind = "write" /\ flight'[j].form.after = "patch" =>
            flight'[j].misses = {}
    BY <1>10 DEF ScreenInv, EditsInv
  <2>5. \A f \in shown.misses : f.after # "aside" /\ (f # c.form => Unheard(f)')
    BY <1>9 DEF ScreenInv, EditsInv
  <2>6. \A f \in shown'.misses : f.after # "aside" /\ Unheard(f)'
    <3>1. CASE c.form.after = "aside" BY <1>4, <2>5, <3>1
    <3>2. CASE shown = Nothing BY <1>4, <2>5, <3>2, NothingIs
    <3>3. CASE c.form.after # "aside" /\ shown # Nothing
      <4>1. c.form.after = "patch" /\ old = shown.misses \ {c.form}
        BY <1>2, <1>4, <1>12, <3>3 DEF EditCalls
      <4>2. panel.reads # {} BY <3>3 DEF ScreenInv, EditsInv
      <4>3. c.misses = {} BY <1>1, <1>4, <4>1, <4>2 DEF ScreenInv, EditsInv
      <4> QED BY <1>4, <1>5, <2>5, <3>3, <4>1, <4>3
    <3> QED BY <3>1, <3>2, <3>3
  <2> QED BY <1>4, <2>2, <2>3, <2>4, <2>6 DEF EditsInv
<1>16. RenewsInv'
  <2> SUFFICES ASSUME Renews(panel) PROVE RenewsInv' BY <1>4 DEF RenewsInv
  <2>1. c.form.after = "aside" BY <1>4, <1>12 DEF Renews
  <2>2. shown' = shown BY <1>4, <2>1
  <2>3. \A j \in DOMAIN flight' : flight'[j].kind = "fetch" =>
          /\ flight'[j].misses = {}
          /\ flight'[j].form \in panel.forms /\ flight'[j].form.after = "reload"
    BY <1>10, <1>11 DEF ScreenInv, RenewsInv
  <2>4. \A f \in shown.misses :
         /\ f.after = "reload"
         /\ \/ Unheard(f)'
            \/ \E j \in DOMAIN flight' : flight'[j].kind = "fetch" /\ flight'[j].form = f
    BY <1>9, <1>11, <2>1 DEF ScreenInv, RenewsInv
  <2> QED BY <1>4, <2>2, <2>3, <2>4 DEF RenewsInv
<1> QED BY <1>8, <1>13, <1>14, <1>15, <1>16 DEF ScreenInv

LEMMA RefuseStep ==
  ASSUME ScreenInv, NEW i \in DOMAIN flight, Refuse(i)
  PROVE  ScreenInv'
<1>1. PICK c \in CallsOf(panel) : c = flight[i] BY CallIs DEF ScreenInv
<1>2. /\ c.at = "sent"
      /\ shown' \in {Nothing, shown}
      /\ c.kind # "fetch" => shown' = shown
      /\ c.kind = "fetch" /\ panel.fails = "cleared" /\ (c.fresh \/ panel.late = "shown") =>
           shown' = Nothing
      /\ flight' = RemoveAt(flight, i) /\ disabled' = disabled \ Freed(c.form)
      /\ panel' = panel /\ key' = key
  BY <1>1, DisplaysIs DEF Refuse
<1>3. Left(i) BY <1>1, <1>2 DEF Left, ScreenInv, ScreenShape
<1>4. ScreenShape' /\ ButtonsWait' BY <1>3, LeftOver
<1>5. \A f : Unheard(f) => Unheard(f)' BY <1>1, <1>2, <1>3, StillUnheard
<1>6. /\ \A j \in DOMAIN flight' : \E k \in DOMAIN flight : k # i /\ flight'[j] = flight[k]
      /\ \A k \in DOMAIN flight : k # i => \E j \in DOMAIN flight' : flight'[j] = flight[k]
  BY <1>3, OthersStay DEF ScreenInv
<1>7. shown' = Nothing \/ shown' = shown BY <1>2
<1>8. OneSelection' BY <1>2, <1>6, <1>7 DEF ScreenInv, OneSelection
<1>9. LooksInv'
  <2> SUFFICES ASSUME Looks(panel) PROVE LooksInv' BY <1>2 DEF LooksInv
  <2>1. \A f \in shown'.misses : f.after # "aside" /\ Unheard(f)'
    BY <1>5, <1>7, NothingIs DEF ScreenInv, LooksInv
  <2>2. \A j \in DOMAIN flight' : flight'[j].kind = "fetch" =>
          \A f \in flight'[j].misses : f.after # "aside" /\ Unheard(f)'
    BY <1>5, <1>6 DEF ScreenInv, LooksInv
  <2>3. "key" \in panel.on =>
          \A j \in DOMAIN flight' :
            flight'[j].kind = "fetch" /\ flight'[j].fresh => flight'[j].key = key
    BY <1>6 DEF ScreenInv, LooksInv
  <2>4. ASSUME "key" \in panel.on
        PROVE  \/ shown' = Nothing \/ shown'.key = key
               \/ \E j \in DOMAIN flight' : flight'[j].kind = "fetch" /\ flight'[j].fresh
    <3>1. CASE c.kind = "fetch" /\ c.fresh
      <4>1. panel.fails = "cleared" BY <2>4 DEF Looks
      <4> QED BY <1>2, <3>1, <4>1
    <3>2. CASE ~(c.kind = "fetch" /\ c.fresh)
      <4>1. \A k \in DOMAIN flight : flight[k].kind = "fetch" /\ flight[k].fresh => k # i
        BY <1>1, <3>2
      <4> QED BY <1>6, <1>7, <2>4, <4>1 DEF ScreenInv, LooksInv
    <3> QED BY <3>1, <3>2
  <2> QED BY <1>2, <2>1, <2>2, <2>3, <2>4 DEF LooksInv
<1>10. EditsInv'
  <2> SUFFICES ASSUME EditCalls(panel) PROVE EditsInv' BY <1>2 DEF EditsInv
  <2>1. \A k \in DOMAIN flight : k # i => flight[k].kind # "fetch"
    BY CallIs DEF ScreenInv, EditsInv
  <2>2. \A j \in DOMAIN flight' : flight'[j].kind # "fetch" BY <1>6, <2>1
  <2>3. panel.reads = {} => shown' = Nothing BY <1>7 DEF ScreenInv, EditsInv
  <2>4. \A j \in DOMAIN flight' :
          panel.reads # {} /\ flight'[j].kind = "write" /\ flight'[j].form.after = "patch" =>
            flight'[j].misses = {}
    BY <1>6 DEF ScreenInv, EditsInv
  <2>5. \A f \in shown'.misses : f.after # "aside" /\ Unheard(f)'
    BY <1>5, <1>7, NothingIs DEF ScreenInv, EditsInv
  <2> QED BY <1>2, <2>2, <2>3, <2>4, <2>5 DEF EditsInv
<1>11. RenewsInv'
  <2> SUFFICES ASSUME Renews(panel) PROVE RenewsInv' BY <1>2 DEF RenewsInv
  <2>1. \A k \in DOMAIN flight : k # i => Len(flight) # 1 BY CallIs DEF ScreenInv
  <2>2. \A j \in DOMAIN flight' : flight'[j].kind = "fetch" =>
          /\ flight'[j].misses = {}
          /\ flight'[j].form \in panel.forms /\ flight'[j].form.after = "reload"
    BY <1>6, <2>1 DEF ScreenInv, RenewsInv
  <2>3. c.kind = "fetch" => shown'.misses = {} BY <1>2, NothingIs DEF Renews
  <2>4. ASSUME c.kind # "fetch"
        PROVE  \A f \in shown'.misses :
                 /\ f.after = "reload"
                 /\ \/ Unheard(f)'
                    \/ \E j \in DOMAIN flight' : flight'[j].kind = "fetch" /\ flight'[j].form = f
    <3>1. shown' = shown BY <1>2, <2>4
    <3>2. \A k \in DOMAIN flight : flight[k].kind = "fetch" => k # i BY <1>1, <2>4
    <3> QED BY <1>5, <1>6, <3>1, <3>2 DEF ScreenInv, RenewsInv
  <2> QED BY <1>2, <2>2, <2>3, <2>4 DEF RenewsInv
<1> QED BY <1>4, <1>8, <1>9, <1>10, <1>11 DEF ScreenInv

LEMMA ReloadStep ==
  ASSUME ScreenInv, NEW i \in DOMAIN flight, Reload(i)
  PROVE  ScreenInv'
<1>1. PICK c \in CallsOf(panel) : c = flight[i] BY CallIs DEF ScreenInv
<1>2. PICK g : g = IF c.form.off = "load" THEN c.form ELSE NoForm OBVIOUS
<1>3. PICK rest : rest = RemoveAt(flight, i) OBVIOUS
<1>4. PICK over : over = Overtaken(rest) OBVIOUS
<1>5. PICK new : new = Fetch(c.key, g) OBVIOUS
<1>6. /\ c.kind = "write" /\ c.at = "answered" /\ c.form.after = "reload"
      /\ flight' = Append(over, new)
      /\ disabled' = IF c.form.off = "load" THEN disabled ELSE disabled \ Freed(c.form)
      /\ panel' = panel /\ key' = key /\ shown' = shown
  BY <1>1, <1>2, <1>3, <1>4, <1>5 DEF Reload
<1>7. c.form \in panel.forms BY <1>1, <1>6 DEF ScreenInv, ScreenShape
<1>8. c.key \in Keys /\ g \in panel.forms \cup {NoForm} BY <1>2, <1>7 DEF CallsOf
<1>9. /\ new \in CallsOf(panel) /\ new.kind = "fetch" /\ new.key = c.key /\ new.misses = {}
      /\ new.form = g
  BY <1>5, <1>8, FetchIs
<1>10. flight \in Seq(CallsOf(panel)) BY DEF ScreenInv, ScreenShape
<1>11. /\ rest \in Seq(CallsOf(panel))
       /\ \A j \in DOMAIN rest : \E k \in DOMAIN flight : k # i /\ rest[j] = flight[k]
       /\ \A k \in DOMAIN flight : k # i => \E j \in DOMAIN rest : rest[j] = flight[k]
       /\ \A j, l \in DOMAIN rest : j # l =>
            \E k, m \in DOMAIN flight : k # m /\ rest[j] = flight[k] /\ rest[l] = flight[m]
  BY <1>3, <1>10, Without
<1>12. /\ over \in Seq(CallsOf(panel)) /\ DOMAIN over = DOMAIN rest
       /\ \A j \in DOMAIN rest : SameCall(over[j], rest[j])
  BY <1>4, <1>11, OvertakenIs
<1>13. PICK n : n = Len(flight') OBVIOUS
<1>14. /\ flight' \in Seq(CallsOf(panel)) /\ DOMAIN flight' = DOMAIN rest \cup {n}
       /\ n \notin DOMAIN rest /\ flight'[n] = new
       /\ \A j \in DOMAIN rest : flight'[j] = over[j]
  BY <1>6, <1>9, <1>12, <1>13, AndOneMore
<1>15. \A j \in DOMAIN rest : SameCall(flight'[j], rest[j]) BY <1>12, <1>14
<1>16. /\ c.form \in Freed(c.form) /\ ~Waits(NoForm)
       /\ \A f \in Freed(c.form) : Waits(f) => f = c.form
  BY <1>7, FreedIs, NoFormIs
<1>17. panel # NoPanel BY DEF ScreenInv, ScreenShape
<1>18. ScreenShape'
  <2>1. \A j \in DOMAIN flight' : flight'[j].kind = "write" => flight'[j].form \in panel.forms
    BY <1>9, <1>11, <1>14, <1>15 DEF ScreenInv, ScreenShape, SameCall
  <2>2. disabled' \subseteq panel.forms BY <1>6 DEF ScreenInv, ScreenShape
  <2> QED BY <1>6, <1>14, <1>17, <2>1, <2>2 DEF ScreenInv, ScreenShape
<1>19. ButtonsWait'
  <2>1. \A k \in DOMAIN flight : k # i => \E j \in DOMAIN flight' : flight'[j].form = flight[k].form
    BY <1>11, <1>14, <1>15 DEF SameCall
  <2>2. \A f \in disabled' : \E j \in DOMAIN flight' : flight'[j].form = f
    <3>1. CASE c.form.off = "load"
      <4>1. \E j \in DOMAIN flight' : flight'[j].form = c.form BY <1>2, <1>9, <1>14, <3>1
      <4> QED BY <1>1, <1>6, <2>1, <3>1, <4>1 DEF ScreenInv, ButtonsWait
    <3>2. CASE c.form.off # "load"
      BY <1>1, <1>6, <1>16, <2>1, <3>2 DEF ScreenInv, ButtonsWait
    <3> QED BY <3>1, <3>2
  <2>3. \A j \in DOMAIN rest : \E k \in DOMAIN flight : k # i /\ flight'[j].form = flight[k].form
    BY <1>11, <1>15 DEF SameCall
  <2>4. Waits(g) => g = c.form /\ c.form.off = "load" BY <1>2, <1>16
  <2>5. \A j \in DOMAIN rest : Waits(flight'[j].form) =>
          flight'[j].form # c.form /\ flight'[j].form \in disabled
    BY <1>1, <2>3 DEF ScreenInv, ButtonsWait
  <2>6. Waits(c.form) => c.form \in disabled BY <1>1 DEF ScreenInv, ButtonsWait
  <2>7. \A j \in DOMAIN rest : Waits(flight'[j].form) => flight'[j].form \in disabled'
    BY <1>6, <1>16, <2>5
  <2>8. Waits(g) => g \in disabled' BY <1>6, <2>4, <2>6
  <2>9. \A j \in DOMAIN flight' : Waits(flight'[j].form) => flight'[j].form \in disabled'
    BY <1>9, <1>14, <2>7, <2>8
  <2>10. \A j, l \in DOMAIN rest :
          flight'[j].form = flight'[l].form /\ Waits(flight'[j].form) => j = l
    BY <1>11, <1>15 DEF ScreenInv, ButtonsWait, SameCall
  <2>11. \A j \in DOMAIN rest : flight'[j].form = g => ~Waits(g) BY <2>4, <2>5
  <2>12. \A j, l \in DOMAIN flight' :
           flight'[j].form = flight'[l].form /\ Waits(flight'[j].form) => j = l
    BY <1>9, <1>14, <2>10, <2>11
  <2> QED BY <2>2, <2>9, <2>12 DEF ButtonsWait
<1>20. OneSelection'
  <2> SUFFICES ASSUME "key" \notin panel.on PROVE OneSelection' BY <1>6 DEF OneSelection
  <2>1. \A k \in DOMAIN flight : flight[k].key = key BY DEF ScreenInv, OneSelection
  <2>2. \A j \in DOMAIN rest : flight'[j].key = key BY <1>11, <1>15, <2>1 DEF SameCall
  <2>3. flight'[n].key = key BY <1>1, <1>9, <1>14, <2>1
  <2>4. \A j \in DOMAIN flight' : flight'[j].key = key BY <1>14, <2>2, <2>3
  <2>5. shown # Nothing => shown.key = key BY DEF ScreenInv, OneSelection
  <2> QED BY <1>6, <2>4, <2>5 DEF OneSelection
<1>21. LooksInv' BY <1>6, <1>7 DEF LooksInv, Looks
<1>22. EditsInv' BY <1>6, <1>7 DEF EditsInv, EditCalls
<1>23. RenewsInv'
  <2> SUFFICES ASSUME Renews(panel) PROVE RenewsInv' BY <1>6 DEF RenewsInv
  <2>1. c.form.off = "load" /\ g = c.form BY <1>2, <1>6, <1>7 DEF Renews
  <2>2. \A k \in DOMAIN flight : k # i => Len(flight) # 1 BY CallIs DEF ScreenInv
  <2>3. \A k \in DOMAIN flight : k # i /\ flight[k].kind = "fetch" =>
          flight[k].misses = {} /\ flight[k].form \in panel.forms /\ flight[k].form.after = "reload"
    BY <2>2 DEF ScreenInv, RenewsInv
  <2>4. \A j \in DOMAIN flight' : flight'[j].kind = "fetch" =>
          /\ flight'[j].misses = {}
          /\ flight'[j].form \in panel.forms /\ flight'[j].form.after = "reload"
    <3>1. \A j \in DOMAIN rest : rest[j].kind = "fetch" =>
            rest[j].misses = {} /\ rest[j].form \in panel.forms /\ rest[j].form.after = "reload"
      BY <1>11, <2>3
    <3>2. \A j \in DOMAIN rest : flight'[j].kind = "fetch" =>
            /\ flight'[j].misses = {}
            /\ flight'[j].form \in panel.forms /\ flight'[j].form.after = "reload"
      BY <1>15, <3>1 DEF SameCall
    <3>3. /\ flight'[n].misses = {} /\ flight'[n].form \in panel.forms
          /\ flight'[n].form.after = "reload"
      BY <1>6, <1>7, <1>9, <1>14, <2>1
    <3> QED BY <1>14, <3>2, <3>3
  <2>5. \A k \in DOMAIN flight : k # i =>
          \E j \in DOMAIN flight' : SameCall(flight'[j], flight[k])
    BY <1>11, <1>14, <1>15
  <2>6. flight'[n].kind = "fetch" /\ flight'[n].form = c.form /\ n \in DOMAIN flight'
    BY <1>9, <1>14, <2>1
  <2>7. ASSUME NEW f \in shown.misses
        PROVE  /\ f.after = "reload"
               /\ \/ Unheard(f)'
                  \/ \E j \in DOMAIN flight' : flight'[j].kind = "fetch" /\ flight'[j].form = f
    <3>1. f.after = "reload" BY <2>7 DEF ScreenInv, RenewsInv
    <3>2. CASE f = c.form BY <2>6, <3>1, <3>2
    <3>3. CASE f # c.form /\ Unheard(f)
      <4>1. PICK k \in DOMAIN flight : /\ flight[k].kind = "write" /\ flight[k].at = "answered"
                                       /\ flight[k].form = f
        BY <3>3 DEF Unheard
      <4>2. k # i BY <1>1, <3>3, <4>1
      <4> QED BY <2>5, <3>1, <4>1, <4>2 DEF Unheard, SameCall
    <3>4. CASE f # c.form /\ \E k \in DOMAIN flight : flight[k].kind = "fetch" /\ flight[k].form = f
      <4>1. PICK k \in DOMAIN flight : flight[k].kind = "fetch" /\ flight[k].form = f BY <3>4
      <4>2. k # i BY <1>1, <3>4, <4>1
      <4> QED BY <2>5, <3>1, <4>1, <4>2 DEF SameCall
    <3> QED BY <3>2, <3>3, <3>4 DEF ScreenInv, RenewsInv
  <2> QED BY <1>6, <2>4, <2>7 DEF RenewsInv
<1> QED BY <1>18, <1>19, <1>20, <1>21, <1>22, <1>23 DEF ScreenInv

-----------------------------------------------------------------------------
(* The theorem.                                                             *)

LEMMA ScreenStart == ScreenInit => ScreenInv
<1> SUFFICES ASSUME ScreenInit PROVE ScreenInv OBVIOUS
<1>1. panel = NoPanel /\ key = 1 /\ flight = <<>> /\ shown = Nothing /\ disabled = {}
  BY DEF ScreenInit
<1>2. DOMAIN flight = {} /\ flight \in Seq(CallsOf(panel)) BY <1>1
<1>3. ScreenShape BY <1>1, <1>2, NoPanelIsFine DEF ScreenShape, Keys
<1>4. ButtonsWait /\ OneSelection BY <1>1, <1>2 DEF ButtonsWait, OneSelection
<1>5. LooksInv /\ EditsInv /\ RenewsInv BY <1>1, <1>2, NothingIs DEF LooksInv, EditsInv, RenewsInv
<1> QED BY <1>3, <1>4, <1>5 DEF ScreenInv

LEMMA ScreenStep == ScreenInv /\ [ScreenNext]_screenVars => ScreenInv'
<1> SUFFICES ASSUME ScreenInv, [ScreenNext]_screenVars PROVE ScreenInv' OBVIOUS
<1>1. ASSUME NEW p \in AppRoutes(visitor), Visit(p) PROVE ScreenInv' BY <1>1, VisitStep
<1>2. CASE Close BY <1>2, PanelGoneStep DEF Close
<1>3. CASE Select
  <2>1. PICK k \in Keys : Refetch(k) BY <1>3 DEF Select
  <2> QED BY <1>3, <2>1, RefetchStep DEF Select
<1>4. CASE Again
  <2>1. key \in Keys /\ panel.on # {} BY <1>4 DEF Again, ScreenInv, ScreenShape
  <2> QED BY <1>4, <2>1, RefetchStep DEF Again
<1>5. ASSUME NEW form \in panel.forms, Press(form) PROVE ScreenInv' BY <1>5, PressStep
<1>6. ASSUME NEW i \in DOMAIN flight,
             Serve(i) \/ Fill(i) \/ Patch(i) \/ Reload(i) \/ Done(i) \/ Refuse(i)
      PROVE  ScreenInv'
  BY <1>6, ServeStep, FillStep, PatchStep, ReloadStep, RefuseStep, PanelGoneStep DEF Done
<1>7. CASE UNCHANGED screenVars
  BY <1>7 DEF screenVars, ScreenInv, ScreenShape, ButtonsWait, OneSelection, LooksInv, EditsInv,
              RenewsInv, Unheard
<1> QED BY <1>1, <1>2, <1>3, <1>4, <1>5, <1>6, <1>7 DEF ScreenNext

LEMMA ScreenIsCurrent == ScreenInv => SettledScreenIsCurrent
<1> SUFFICES ASSUME ScreenInv, flight = <<>>
             PROVE  /\ disabled = {}
                    /\ panel \notin Careless /\ shown # Nothing =>
                         shown.key = key /\ shown.misses = {}
  BY DEF SettledScreenIsCurrent
<1>1. DOMAIN flight = {} /\ ~\E i \in DOMAIN flight : TRUE OBVIOUS
<1>2. disabled = {} BY <1>1 DEF ScreenInv, ButtonsWait
<1>3. ASSUME panel \notin Careless, shown # Nothing PROVE shown.key = key /\ shown.misses = {}
  <2>1. \A f : ~Unheard(f) BY <1>1 DEF Unheard
  <2>2. Careful(panel) BY <1>3 DEF ScreenInv, ScreenShape
  <2>3. shown.key = key
    BY <1>1, <1>3, <2>2 DEF ScreenInv, OneSelection, LooksInv, Careful, EditCalls, Renews
  <2>4. \A f \in shown.misses : FALSE
    BY <1>1, <2>1, <2>2 DEF ScreenInv, LooksInv, EditsInv, RenewsInv, Careful
  <2> QED BY <2>3, <2>4
<1> QED BY <1>2, <1>3

\* When nothing is under way, no button of any panel is left disabled, and every
\* panel but those that Careless names shows what is selected, as it is after the
\* writes made from it, for any number of calls at a time.
THEOREM ScreenSettles == ScreenSpec => []SettledScreenIsCurrent
BY ScreenStart, ScreenStep, ScreenIsCurrent, PTL DEF ScreenSpec

\* Who looks at what, and how much is under way.
Looking ==
  /\ visitor \in Everyone /\ panel \in AppRoutes(visitor) \cup {NoPanel}
  /\ Len(flight) \in 0..MaxFlight

LEMMA LookingStart == ScreenInit => Looking
<1> SUFFICES ASSUME ScreenInit PROVE Looking OBVIOUS
<1>1. flight = <<>> BY DEF ScreenInit
<1>2. Len(flight) = 0 BY <1>1
<1> QED BY <1>2, ScreenAssumption DEF ScreenInit, Looking

LEMMA LookingStep == ScreenInv /\ Looking /\ [ScreenNext]_screenVars => Looking'
<1> SUFFICES ASSUME ScreenInv, Looking, [ScreenNext]_screenVars PROVE Looking' OBVIOUS
<1> USE ScreenAssumption
<1>1. ASSUME NEW p \in AppRoutes(visitor), Visit(p) PROVE Looking'
  <2>1. Len(flight') \in {0, 1} BY <1>1 DEF Visit
  <2> QED BY <1>1, <2>1 DEF Visit, Looking
<1>2. CASE Gone /\ UNCHANGED visitor BY <1>2 DEF Gone, Looking
<1>3. ASSUME NEW k \in Keys, Refetch(k) PROVE Looking'
  <2>1. Overtaken(flight) \in Seq(CallsOf(panel)) /\ Len(Overtaken(flight)) = Len(flight)
    BY OvertakenIs DEF ScreenInv, ScreenShape
  <2>2. Len(flight') = Len(flight) + 1
    <3>1. Fetch(k, NoForm) \in CallsOf(panel) BY FetchIs
    <3> QED BY <1>3, <2>1, <3>1, AndOneMore DEF Refetch
  <2> QED BY <1>3, <2>2 DEF Refetch, Looking
<1>4. ASSUME NEW form \in panel.forms, Press(form) PROVE Looking'
  <2>1. Send(form) \in CallsOf(panel) BY DEF Send, CallsOf, ScreenInv, ScreenShape
  <2>2. Len(flight') = Len(flight) + 1
    BY <1>4, <2>1, AndOneMore DEF Press, ScreenInv, ScreenShape
  <2> QED BY <1>4, <2>2 DEF Press, Looking
<1>5. ASSUME NEW i \in DOMAIN flight, Serve(i) PROVE Looking'
  <2>1. Len(flight') = Len(flight) /\ panel' = panel /\ visitor' = visitor
    BY <1>5, Served DEF Serve
  <2> QED BY <2>1 DEF Looking
<1>6. ASSUME NEW i \in DOMAIN flight PROVE Len(RemoveAt(flight, i)) = Len(flight) - 1
                                          /\ RemoveAt(flight, i) \in Seq(CallsOf(panel))
  BY RemoveAtIs DEF ScreenInv, ScreenShape
<1>7. \A i \in DOMAIN flight : Len(flight) - 1 \in 0..MaxFlight
  BY CallIs DEF ScreenInv, Looking
<1>8. ASSUME NEW i \in DOMAIN flight, Fill(i) \/ Patch(i) \/ Refuse(i) PROVE Looking'
  <2>1. Len(flight') = Len(flight) - 1 /\ panel' = panel /\ visitor' = visitor
    BY <1>6, <1>8 DEF Fill, Patch, Refuse
  <2> QED BY <1>7, <2>1 DEF Looking
<1>9. ASSUME NEW i \in DOMAIN flight, Reload(i) PROVE Looking'
  <2>1. PICK c \in CallsOf(panel) : c = flight[i] BY CallIs DEF ScreenInv
  <2>2. PICK g : g = IF c.form.off = "load" THEN c.form ELSE NoForm OBVIOUS
  <2>3. c.kind = "write" /\ panel' = panel /\ visitor' = visitor
        /\ flight' = Append(Overtaken(RemoveAt(flight, i)), Fetch(c.key, g))
    BY <1>9, <2>1, <2>2 DEF Reload
  <2>4. c.form \in panel.forms BY <2>1, <2>3 DEF ScreenInv, ScreenShape
  <2>5. Fetch(c.key, g) \in CallsOf(panel) BY <2>2, <2>4, FetchIs DEF CallsOf
  <2>6. PICK over : over = Overtaken(RemoveAt(flight, i)) OBVIOUS
  <2>7. over \in Seq(CallsOf(panel)) /\ Len(over) = Len(flight) - 1
    BY <1>6, <2>6, OvertakenIs
  <2>8. Len(flight') = Len(flight) BY <2>3, <2>5, <2>6, <2>7, AndOneMore, CallIs DEF ScreenInv
  <2> QED BY <2>3, <2>8 DEF Looking
<1>10. CASE UNCHANGED screenVars BY <1>10 DEF screenVars, Looking
<1>11. CASE Select BY <1>3, <1>11 DEF Select
<1>12. CASE Again BY <1>3, <1>12 DEF Again, ScreenInv, ScreenShape
<1> QED BY <1>1, <1>2, <1>4, <1>5, <1>8, <1>9, <1>10, <1>11, <1>12 DEF ScreenNext, Close, Done

LEMMA ScreenTyped == ScreenInv /\ Looking => ScreenTypeOK
<1> SUFFICES ASSUME ScreenInv, Looking PROVE ScreenTypeOK OBVIOUS
<1>1. \A i \in DOMAIN flight : flight[i].key \in Keys /\ flight[i].at \in {"sent", "answered"}
  BY CallIs DEF ScreenInv, CallsOf
<1> QED BY <1>1, ScreenAssumption DEF ScreenTypeOK, ScreenInv, ScreenShape, Looking

\* The screen has its type: a visitor sees the panels of their role only, and no
\* more calls are under way than are let.
THEOREM ScreenTypes == ScreenSpec => []ScreenTypeOK
BY LookingStart, ScreenStart, ScreenStep, LookingStep, ScreenTyped, PTL DEF ScreenSpec

-----------------------------------------------------------------------------
(* Who may send what.                                                       *)

LEMMA CallersAre ==
  ASSUME NEW service \in Services, NEW c \in DOMAIN service
  PROVE  service[c] \subseteq Callers[c]
<1>1. service \in {s \in Services : c \in DOMAIN s} OBVIOUS
<1>2. c \in UNION {DOMAIN s : s \in Services} OBVIOUS
<1> QED BY <1>1, <1>2 DEF Callers

\* The roles in front of the handlers of routes/pickups.js.
LEMMA PickupGates ==
  /\ \A h \in {"getAvailable", "getCollectorJobs", "getCollectorRoute", "getSuggestedBatch",
               "getDemandHeatmap", "getDemandForecast", "getLeaderboard", "getMyAchievements",
               "getPerformanceInsights", "acceptPickup", "batchAcceptPickups", "proposeOffer",
               "getMyInvites", "getMyAvailability", "updateMyAvailability", "updateStatus"} :
       PickupRoutes[h] = CollectorRole
  /\ \A h \in {"getCollectorProfile", "getRequesterProfile", "getPickupById"} :
       PickupRoutes[h] = SignedIn
  /\ \A h \in {"getPublicCollectorProfile", "getCollectorReviews"} : PickupRoutes[h] = Everyone
  /\ \A h \in {"getMyReputation", "getNearbyCollectors", "inviteCollector"} :
       PickupRoutes[h] = RequesterRole
  /\ \A h \in {"respondToOffer", "getFairPrice", "createDispute", "getPickupDisputes"} :
       PickupRoutes[h] = PartyRoles
BY DEF PickupRoutes, Gate, ++

\* The calls the panels send, by the roles that the server lets send them.
PublicCalls ==
  {"loginUser", "googleAuth", "registerUser", "verifyEmail", "forgotPassword",
   "resetPassword", "getCommunityImpact", "getPublicCollectorProfile",
   "getCollectorReviews", "getVapidPublicKey", "validateReferralCode", "getPublicTrip",
   "getScrapRates", "getScrapRateHistory"}

LEMMA PublicMay == \A c \in PublicCalls : Everyone \subseteq Callers[c]
<1> USE DEF Gate, ++
<1>1. \A c \in {"loginUser", "googleAuth", "registerUser", "verifyEmail", "forgotPassword",
               "resetPassword"} :
       c \in DOMAIN AuthService /\ Everyone \subseteq AuthService[c]
  BY DEF AuthService, AuthRoutes
<1>2. \A c \in {"getCommunityImpact"} :
       c \in DOMAIN ImpactService /\ Everyone \subseteq ImpactService[c]
  BY DEF ImpactService, ImpactRoutes
<1>3. \A c \in {"getPublicCollectorProfile", "getCollectorReviews"} :
       c \in DOMAIN PickupViews /\ Everyone \subseteq PickupViews[c]
  BY PickupGates DEF PickupViews
<1>4. \A c \in {"getVapidPublicKey"} :
       c \in DOMAIN PushService /\ Everyone \subseteq PushService[c]
  BY DEF PushService, PushRoutes
<1>5. \A c \in {"validateReferralCode"} :
       c \in DOMAIN ReferralService /\ Everyone \subseteq ReferralService[c]
  BY DEF ReferralService, ReferralRoutes
<1>6. \A c \in {"getPublicTrip"} :
       c \in DOMAIN SafetyService /\ Everyone \subseteq SafetyService[c]
  BY DEF SafetyService, SafetyRoutes
<1>7. \A c \in {"getScrapRates", "getScrapRateHistory"} :
       c \in DOMAIN ScrapRateService /\ Everyone \subseteq ScrapRateService[c]
  BY DEF ScrapRateService, ScrapRateRoutes
<1> HIDE DEF Gate, ++
<1> QED BY <1>1, <1>2, <1>3, <1>4, <1>5, <1>6, <1>7, CallersAre DEF PublicCalls, Services

SignedInCalls ==
  {"fetchMe", "updateProfile", "changePassword", "deleteAccount", "resendVerification",
   "getMyImpact", "getMessages", "sendMessage", "markMessagesRead", "getNotifications",
   "markNotificationRead", "markAllNotificationsRead", "getPickupById",
   "getCollectorProfile", "getRequesterProfile", "subscribeToPush", "unsubscribeFromPush",
   "getItemCatalog", "getRatings", "submitRating", "getReceipt", "getMyReferrals"}

LEMMA SignedInMay == \A c \in SignedInCalls : SignedIn \subseteq Callers[c]
<1> USE DEF Gate, ++
<1>1. \A c \in {"fetchMe", "updateProfile", "changePassword", "deleteAccount",
               "resendVerification"} :
       c \in DOMAIN AuthService /\ SignedIn \subseteq AuthService[c]
  BY DEF AuthService, AuthRoutes
<1>2. \A c \in {"getMyImpact"} :
       c \in DOMAIN ImpactService /\ SignedIn \subseteq ImpactService[c]
  BY DEF ImpactService, ImpactRoutes
<1>3. \A c \in {"getMessages", "sendMessage", "markMessagesRead"} :
       c \in DOMAIN MessageService /\ SignedIn \subseteq MessageService[c]
  BY DEF MessageService, MessageRoutes
<1>4. \A c \in {"getNotifications", "markNotificationRead", "markAllNotificationsRead"} :
       c \in DOMAIN NotificationService /\ SignedIn \subseteq NotificationService[c]
  BY DEF NotificationService, NotificationRoutes
<1>5. \A c \in {"getPickupById"} :
       c \in DOMAIN PickupService /\ SignedIn \subseteq PickupService[c]
  BY PickupGates DEF PickupService
<1>6. \A c \in {"getCollectorProfile", "getRequesterProfile"} :
       c \in DOMAIN PickupViews /\ SignedIn \subseteq PickupViews[c]
  BY PickupGates DEF PickupViews
<1>7. \A c \in {"subscribeToPush", "unsubscribeFromPush"} :
       c \in DOMAIN PushService /\ SignedIn \subseteq PushService[c]
  BY DEF PushService, PushRoutes
<1>8. \A c \in {"getItemCatalog"} :
       c \in DOMAIN QuoteService /\ SignedIn \subseteq QuoteService[c]
  BY DEF QuoteService, QuoteRoutes
<1>9. \A c \in {"getRatings", "submitRating"} :
       c \in DOMAIN RatingService /\ SignedIn \subseteq RatingService[c]
  BY DEF RatingService, RatingRoutes
<1>10. \A c \in {"getReceipt"} :
       c \in DOMAIN ReceiptService /\ SignedIn \subseteq ReceiptService[c]
  BY DEF ReceiptService, ReceiptRoutes
<1>11. \A c \in {"getMyReferrals"} :
       c \in DOMAIN ReferralService /\ SignedIn \subseteq ReferralService[c]
  BY DEF ReferralService, ReferralRoutes
<1> HIDE DEF Gate, ++
<1> QED BY <1>1, <1>2, <1>3, <1>4, <1>5, <1>6, <1>7, <1>8, <1>9, <1>10, <1>11, CallersAre DEF SignedInCalls, Services

PartyCalls ==
  {"getPickupPayment", "createDispute", "getPickupDisputes", "respondToOffer",
   "getFairPrice", "getTripShare", "createTripShare", "stopTripShare", "raiseSos",
   "createTicket", "getMyTickets", "getMyTicket", "replyToMyTicket"}

LEMMA PartyMay == \A c \in PartyCalls : PartyRoles \subseteq Callers[c]
<1> USE DEF Gate, ++
<1>1. \A c \in {"getPickupPayment"} :
       c \in DOMAIN PaymentService /\ PartyRoles \subseteq PaymentService[c]
  BY DEF PaymentService, PaymentRoutes
<1>2. \A c \in {"createDispute", "getPickupDisputes"} :
       c \in DOMAIN PickupService /\ PartyRoles \subseteq PickupService[c]
  BY PickupGates DEF PickupService
<1>3. \A c \in {"respondToOffer", "getFairPrice"} :
       c \in DOMAIN PickupViews /\ PartyRoles \subseteq PickupViews[c]
  BY PickupGates DEF PickupViews
<1>4. \A c \in {"getTripShare", "createTripShare", "stopTripShare", "raiseSos"} :
       c \in DOMAIN SafetyService /\ PartyRoles \subseteq SafetyService[c]
  BY DEF SafetyService, SafetyRoutes
<1>5. \A c \in {"createTicket", "getMyTickets", "getMyTicket", "replyToMyTicket"} :
       c \in DOMAIN SupportService /\ PartyRoles \subseteq SupportService[c]
  BY DEF SupportService, SupportRoutes
<1> HIDE DEF Gate, ++
<1> QED BY <1>1, <1>2, <1>3, <1>4, <1>5, CallersAre DEF PartyCalls, Services

RequesterCalls ==
  {"getBusinessProfile", "saveBusinessProfile", "getBusinessReport",
   "downloadBusinessReportCsv", "validateCoupon", "getMyUpi", "saveMyUpi", "clearMyUpi",
   "confirmReceived", "disputePayment", "createPickup", "getMyRequests",
   "confirmSettlement", "disputeSettlement", "getNearbyCollectors", "inviteCollector",
   "createRecurring", "getMyRecurring", "toggleRecurring", "deleteRecurring",
   "skipNextRecurring", "pauseRecurring", "updateRecurring", "getMyReputation",
   "cancelPickup", "exportMyRequests", "markReady", "getSlotSuggestions", "compareQuotes"}

LEMMA RequesterMay == \A c \in RequesterCalls : RequesterRole \subseteq Callers[c]
<1> USE DEF Gate, ++
<1>1. \A c \in {"getBusinessProfile", "saveBusinessProfile", "getBusinessReport",
               "downloadBusinessReportCsv"} :
       c \in DOMAIN BusinessService /\ RequesterRole \subseteq BusinessService[c]
  BY DEF BusinessService, BusinessRoutes
<1>2. \A c \in {"validateCoupon"} :
       c \in DOMAIN CouponService /\ RequesterRole \subseteq CouponService[c]
  BY DEF CouponService, CouponRoutes
<1>3. \A c \in {"getMyUpi", "saveMyUpi", "clearMyUpi", "confirmReceived", "disputePayment"} :
       c \in DOMAIN PaymentService /\ RequesterRole \subseteq PaymentService[c]
  BY DEF PaymentService, PaymentRoutes
<1>4. \A c \in {"createPickup", "getMyRequests", "confirmSettlement", "disputeSettlement",
               "getNearbyCollectors", "inviteCollector", "createRecurring",
               "getMyRecurring", "toggleRecurring", "deleteRecurring", "skipNextRecurring",
               "pauseRecurring", "updateRecurring"} :
       c \in DOMAIN PickupService /\ RequesterRole \subseteq PickupService[c]
  BY PickupGates DEF PickupService, RequesterRoutes
<1>5. \A c \in {"getMyReputation", "cancelPickup", "exportMyRequests", "markReady",
               "getSlotSuggestions"} :
       c \in DOMAIN PickupViews /\ RequesterRole \subseteq PickupViews[c]
  BY PickupGates DEF PickupViews, ExportRoutes, RequesterRoutes
<1>6. \A c \in {"compareQuotes"} :
       c \in DOMAIN QuoteService /\ RequesterRole \subseteq QuoteService[c]
  BY DEF QuoteService, QuoteRoutes
<1> HIDE DEF Gate, ++
<1> QED BY <1>1, <1>2, <1>3, <1>4, <1>5, <1>6, CallersAre DEF RequesterCalls, Services

CollectorCalls ==
  {"getPendingDropOffs", "recordDropOff", "claimPaid", "getAvailable", "getCollectorJobs",
   "acceptPickup", "batchAcceptPickups", "getMyAvailability", "updateMyAvailability",
   "updateStatus", "getMyInvites", "getLeaderboard", "getMyAchievements",
   "getPerformanceInsights", "getCollectorRoute", "getSuggestedBatch", "getDemandHeatmap",
   "proposeOffer", "markOnTheWay", "getDemandForecast", "getPlans", "subscribeToPlan",
   "getRateCard", "saveRateCard", "getMyTeam", "createTeam", "inviteMember", "removeMember",
   "setMemberVehicle", "addVehicle", "removeVehicle", "getTeamJobs", "assignJob",
   "getTeamStats", "acceptTeamInvite", "declineTeamInvite", "leaveTeam",
   "getMyVerification", "submitVerification", "getWalletSummary", "getEarningsTrend",
   "getTransactions", "requestPayout", "getMyPayouts", "getPayoutDetails",
   "updatePayoutDetails"}

LEMMA CollectorMay == \A c \in CollectorCalls : CollectorRole \subseteq Callers[c]
<1> USE DEF Gate, ++
<1>1. \A c \in {"getPendingDropOffs", "recordDropOff"} :
       c \in DOMAIN DropOffService /\ CollectorRole \subseteq DropOffService[c]
  BY DEF DropOffService, DropOffRoutes
<1>2. \A c \in {"claimPaid"} :
       c \in DOMAIN PaymentService /\ CollectorRole \subseteq PaymentService[c]
  BY DEF PaymentService, PaymentRoutes
<1>3. \A c \in {"getAvailable", "getCollectorJobs", "acceptPickup", "batchAcceptPickups",
               "getMyAvailability", "updateMyAvailability", "updateStatus", "getMyInvites"} :
       c \in DOMAIN PickupService /\ CollectorRole \subseteq PickupService[c]
  BY PickupGates DEF PickupService
<1>4. \A c \in {"getLeaderboard", "getMyAchievements", "getPerformanceInsights",
               "getCollectorRoute", "getSuggestedBatch", "getDemandHeatmap", "proposeOffer",
               "markOnTheWay", "getDemandForecast"} :
       c \in DOMAIN PickupViews /\ CollectorRole \subseteq PickupViews[c]
  BY PickupGates DEF PickupViews, RequesterRoutes
<1>5. \A c \in {"getPlans", "subscribeToPlan"} :
       c \in DOMAIN PlanService /\ CollectorRole \subseteq PlanService[c]
  BY DEF PlanService, PlanRoutes
<1>6. \A c \in {"getRateCard", "saveRateCard"} :
       c \in DOMAIN QuoteService /\ CollectorRole \subseteq QuoteService[c]
  BY DEF QuoteService, QuoteRoutes
<1>7. \A c \in {"getMyTeam", "createTeam", "inviteMember", "removeMember",
               "setMemberVehicle", "addVehicle", "removeVehicle", "getTeamJobs",
               "assignJob", "getTeamStats", "acceptTeamInvite", "declineTeamInvite",
               "leaveTeam"} :
       c \in DOMAIN TeamService /\ CollectorRole \subseteq TeamService[c]
  BY DEF TeamService, TeamRoutes
<1>8. \A c \in {"getMyVerification", "submitVerification"} :
       c \in DOMAIN VerificationService /\ CollectorRole \subseteq VerificationService[c]
  BY DEF VerificationService, VerificationRoutes
<1>9. \A c \in {"getWalletSummary", "getEarningsTrend", "getTransactions", "requestPayout",
               "getMyPayouts", "getPayoutDetails", "updatePayoutDetails"} :
       c \in DOMAIN WalletService /\ CollectorRole \subseteq WalletService[c]
  BY DEF WalletService, WalletRoutes
<1> HIDE DEF Gate, ++
<1> QED BY <1>1, <1>2, <1>3, <1>4, <1>5, <1>6, <1>7, <1>8, <1>9, CallersAre DEF CollectorCalls, Services

AdminCalls ==
  {"getAdminCreatedCollectors", "resetCollectorPassword", "createCollector",
   "getAdminStats", "getAdminAnalytics", "getAdminGrowthStats", "getAdminUsers",
   "deactivateUser", "activateUser", "reinstateCollector", "getPayoutRequests",
   "approvePayout", "rejectPayout", "getAllPickups", "getDisputes", "resolveDispute",
   "exportUsersCsv", "exportPickupsCsv", "getAuditLogs", "listCoupons", "createCoupon",
   "updateCoupon", "adminGetFraudFlags", "adminReviewFraudFlag", "adminGetOps",
   "listAllPartners", "createPartner", "updatePartner", "getPlansOverview",
   "savePlanSettings", "grantPlan", "getCatalogAdmin", "updateCatalogItem",
   "adminListSafetyAlerts", "adminResolveSafetyAlert", "updateScrapRate",
   "adminListTickets", "adminGetTicket", "adminReplyTicket", "adminSetTicketStatus",
   "getVerifications", "getVerificationDocument", "reviewVerification"}

LEMMA AdminMay == \A c \in AdminCalls : AdminRole \subseteq Callers[c]
<1> USE DEF Gate, ++
<1>1. \A c \in {"getAdminCreatedCollectors", "resetCollectorPassword", "createCollector"} :
       c \in DOMAIN AdminCollectorService /\ AdminRole \subseteq AdminCollectorService[c]
  BY DEF AdminCollectorService, AdminRoutes
<1>2. \A c \in {"getAdminStats", "getAdminAnalytics", "getAdminGrowthStats", "getAdminUsers",
               "deactivateUser", "activateUser", "reinstateCollector", "getPayoutRequests",
               "approvePayout", "rejectPayout", "getAllPickups", "getDisputes",
               "resolveDispute", "exportUsersCsv", "exportPickupsCsv"} :
       c \in DOMAIN AdminService /\ AdminRole \subseteq AdminService[c]
  BY DEF AdminService, AdminRoutes, ExportRoutes
<1>3. \A c \in {"getAuditLogs"} :
       c \in DOMAIN AuditService /\ AdminRole \subseteq AuditService[c]
  BY DEF AuditService, AdminRoutes
<1>4. \A c \in {"listCoupons", "createCoupon", "updateCoupon"} :
       c \in DOMAIN CouponService /\ AdminRole \subseteq CouponService[c]
  BY DEF CouponService, CouponRoutes
<1>5. \A c \in {"adminGetFraudFlags", "adminReviewFraudFlag"} :
       c \in DOMAIN FraudService /\ AdminRole \subseteq FraudService[c]
  BY DEF FraudService, FraudRoutes
<1>6. \A c \in {"adminGetOps"} :
       c \in DOMAIN OpsService /\ AdminRole \subseteq OpsService[c]
  BY DEF OpsService, AdminRoutes
<1>7. \A c \in {"listAllPartners", "createPartner", "updatePartner"} :
       c \in DOMAIN PartnerService /\ AdminRole \subseteq PartnerService[c]
  BY DEF PartnerService, PartnerRoutes
<1>8. \A c \in {"getPlansOverview", "savePlanSettings", "grantPlan"} :
       c \in DOMAIN PlanService /\ AdminRole \subseteq PlanService[c]
  BY DEF PlanService, PlanRoutes
<1>9. \A c \in {"getCatalogAdmin", "updateCatalogItem"} :
       c \in DOMAIN QuoteService /\ AdminRole \subseteq QuoteService[c]
  BY DEF QuoteService, QuoteRoutes
<1>10. \A c \in {"adminListSafetyAlerts", "adminResolveSafetyAlert"} :
       c \in DOMAIN SafetyService /\ AdminRole \subseteq SafetyService[c]
  BY DEF SafetyService, SafetyRoutes
<1>11. \A c \in {"updateScrapRate"} :
       c \in DOMAIN ScrapRateService /\ AdminRole \subseteq ScrapRateService[c]
  BY DEF ScrapRateService, ScrapRateRoutes
<1>12. \A c \in {"adminListTickets", "adminGetTicket", "adminReplyTicket",
               "adminSetTicketStatus"} :
       c \in DOMAIN SupportService /\ AdminRole \subseteq SupportService[c]
  BY DEF SupportService, SupportRoutes
<1>13. \A c \in {"getVerifications", "getVerificationDocument", "reviewVerification"} :
       c \in DOMAIN VerificationService /\ AdminRole \subseteq VerificationService[c]
  BY DEF VerificationService, VerificationRoutes
<1> HIDE DEF Gate, ++
<1> QED BY <1>1, <1>2, <1>3, <1>4, <1>5, <1>6, <1>7, <1>8, <1>9, <1>10, <1>11, <1>12, <1>13, CallersAre DEF AdminCalls, Services

PartnerCalls ==
  {"listPartners"}

LEMMA PartnerMay == \A c \in PartnerCalls : {"collector", "admin"} \subseteq Callers[c]
<1> USE DEF Gate, ++
<1>1. \A c \in {"listPartners"} :
       c \in DOMAIN PartnerService /\ {"collector", "admin"} \subseteq PartnerService[c]
  BY DEF PartnerService, PartnerRoutes
<1> HIDE DEF Gate, ++
<1> QED BY <1>1, CallersAre DEF PartnerCalls, Services

\* Everything a panel sends is let in from that role.
Allowed(v, p) ==
  /\ \A c \in p.reads : v \in Callers[c]
  /\ \A f \in p.forms : \A c \in f.calls : v \in Callers[c]

LEMMA PublicIsAllowed == \A v \in Everyone : \A p \in PublicPages(v) : Allowed(v, p)
<1> SUFFICES ASSUME NEW v \in Everyone PROVE \A p \in PublicPages(v) : Allowed(v, p) OBVIOUS
<1>1. \A c \in PublicCalls : v \in Callers[c] BY PublicMay
<1>2. v \in {"user", "collector"} => \A c \in PartyCalls : v \in Callers[c]
  BY PartyMay DEF PartyRoles
<1> USE DEF Allowed, Panel, Form, Keeping, Rows
<1>3. \A p \in {CommunityImpact, ScrapRatesPage, RateHistory, RateOutlooks, VerifyEmail} : Allowed(v, p)
  BY <1>1 DEF CommunityImpact, ScrapRatesPage, RateHistory, RateOutlooks, VerifyEmail, View, PublicCalls
<1>4. \A p \in {TripShare, PublicProfile, CollectorReviews, Register} : Allowed(v, p)
  BY <1>1 DEF TripShare, PublicProfile, CollectorReviews, Register, KeyedView, PublicCalls
<1>5. \A p \in {AdminLogin, ForgotPasswordPage, ResetPassword, Login, GoogleSignInButton} : Allowed(v, p)
  BY <1>1 DEF AdminLogin, ForgotPasswordPage, ResetPassword, Login, GoogleSignInButton, Action,
     PublicCalls
<1>6. v \in {"user", "collector"} => \A p \in {ContactForm, MyTickets} : Allowed(v, p)
  BY <1>2 DEF ContactForm, MyTickets, PartyCalls
<1> HIDE DEF Allowed, Panel, Form, Keeping, Rows
<1> QED BY <1>3, <1>4, <1>5, <1>6 DEF PublicPages

LEMMA ProfileIsAllowed ==
  \A v \in Everyone : \A p \in Profile(v) \cup Navbar(v) : Allowed(v, p)
<1> SUFFICES ASSUME NEW v \in Everyone PROVE \A p \in Profile(v) \cup Navbar(v) : Allowed(v, p)
  OBVIOUS
<1>1. \A c \in PublicCalls : v \in Callers[c] BY PublicMay
<1>2. v \in SignedIn => \A c \in SignedInCalls : v \in Callers[c] BY SignedInMay
<1>3. v = "user" => \A c \in RequesterCalls : v \in Callers[c] BY RequesterMay DEF RequesterRole
<1> USE DEF Allowed, Panel, Form, Keeping, Rows
<1>4. v \in SignedIn => \A p \in {ProfileForms, DeleteAccountModal, ReferralCard, NotificationBell} :
                          Allowed(v, p)
  BY <1>2 DEF ProfileForms, DeleteAccountModal, ReferralCard, NotificationBell, SignedInCalls
<1>5. v \in SignedIn => Allowed(v, PushSwitch)
  BY <1>1, <1>2 DEF PushSwitch, SignedInCalls, PublicCalls
<1>6. v = "user" => \A p \in {MyReputationCard, UpiIdCard} : Allowed(v, p)
  BY <1>3 DEF MyReputationCard, UpiIdCard, RequesterCalls
<1> HIDE DEF Allowed, Panel, Form, Keeping, Rows
<1> QED BY <1>4, <1>5, <1>6 DEF Profile, Navbar, ProtectedRoute, SignedIn, Everyone

LEMMA ReceiptIsAllowed == \A v \in SignedIn : \A p \in {Receipt, Impact} : Allowed(v, p)
BY SignedInMay DEF Allowed, Panel, Form, Receipt, Impact, View, SignedInCalls

LEMMA SharedIsAllowed == \A v \in PartyRoles : \A p \in SharedDialogs : Allowed(v, p)
<1> SUFFICES ASSUME NEW v \in PartyRoles PROVE \A p \in SharedDialogs : Allowed(v, p) OBVIOUS
<1>1. \A c \in PartyCalls : v \in Callers[c] BY PartyMay
<1>2. \A c \in SignedInCalls : v \in Callers[c] BY SignedInMay DEF SignedIn, Everyone, PartyRoles
<1> USE DEF Allowed, Panel, Form, Keeping, Rows
<1>3. \A p \in {KeyedView("getFairPrice"), KeyedView("getPickupDisputes"), Action("createDispute"),
                Action("raiseSos")} : Allowed(v, p)
  BY <1>1 DEF KeyedView, Action, PartyCalls
<1>4. Allowed(v, Action("submitRating")) BY <1>2 DEF Action, SignedInCalls
<1>5. Allowed(v, ShareLink) BY <1>1 DEF ShareLink, PartyCalls
<1>6. Allowed(v, ChatWindow) BY <1>2 DEF ChatWindow, SignedInCalls
<1> HIDE DEF Allowed, Panel, Form, Keeping, Rows
<1> QED BY <1>3, <1>4, <1>5, <1>6 DEF SharedDialogs

LEMMA RequesterIsAllowed == \A v \in Everyone : \A p \in RequesterPages(v) : Allowed(v, p)
<1> SUFFICES ASSUME NEW v, v = "user" PROVE \A p \in RequesterPages(v) : Allowed(v, p)
  BY DEF RequesterPages, ProtectedRoute
<1>1. \A c \in RequesterCalls : v \in Callers[c] BY RequesterMay DEF RequesterRole
<1>2. \A c \in PartyCalls : v \in Callers[c] BY PartyMay DEF PartyRoles
<1>3. \A c \in SignedInCalls : v \in Callers[c] BY SignedInMay DEF SignedIn, Everyone
<1>4. \A c \in PublicCalls : v \in Callers[c] BY PublicMay DEF Everyone
<1> USE DEF Allowed, Panel, Form, Keeping, Rows
<1>5. \A p \in {UserDashboard, RecurringPickupsPanel, BusinessForms, BusinessReport, SlotPicker} :
        Allowed(v, p)
  BY <1>1 DEF UserDashboard, RecurringPickupsPanel, BusinessForms, BusinessReport, SlotPicker,
     KeyedView, RequesterCalls
<1>6. \A p \in {VerifyEmailBanner, GetQuotes} : Allowed(v, p)
  BY <1>1, <1>3 DEF VerifyEmailBanner, GetQuotes, Action, RequesterCalls, SignedInCalls
<1>7. Allowed(v, RequestPickup) BY <1>1, <1>4 DEF RequestPickup, RequesterCalls, PublicCalls
<1>8. Allowed(v, MyRequestsList)
  BY <1>1, <1>2, <1>3 DEF MyRequestsList, RequesterCalls, PartyCalls, SignedInCalls
<1>9. \A p \in RequestDialogs : Allowed(v, p)
  BY <1>1, <1>2, <1>3 DEF RequestDialogs, NearbyCollectors, StartCode, ReceivedCard, KeyedView,
     Action, RequesterCalls, PartyCalls, SignedInCalls
<1> HIDE DEF Allowed, Panel, Form, Keeping, Rows
<1> QED BY <1>5, <1>6, <1>7, <1>8, <1>9, SharedIsAllowed
        DEF RequesterPages, ProtectedRoute, PartyRoles

LEMMA CollectorIsAllowed == \A v \in Everyone : \A p \in CollectorDashboard(v) : Allowed(v, p)
<1> SUFFICES ASSUME NEW v, v = "collector" PROVE \A p \in CollectorDashboard(v) : Allowed(v, p)
  BY DEF CollectorDashboard, ProtectedRoute
<1>1. \A c \in CollectorCalls : v \in Callers[c] BY CollectorMay DEF CollectorRole
<1>2. \A c \in PartyCalls : v \in Callers[c] BY PartyMay DEF PartyRoles
<1>3. \A c \in SignedInCalls : v \in Callers[c] BY SignedInMay DEF SignedIn, Everyone
<1>4. v \in Callers["listPartners"] BY PartnerMay DEF PartnerCalls
<1> USE DEF Allowed, Panel, Form, Keeping, Rows
<1>5. \A p \in {VerificationGate, CollectorBadges, WalletTab, PlansCard} : Allowed(v, p)
  BY <1>1 DEF VerificationGate, CollectorBadges, WalletTab, PayoutDetailsCard, PlansCard,
     CollectorCalls
<1>6. \A p \in {AchievementsPanel, LeaderboardPanel, PerformanceInsightsPanel, AvailabilityToggle,
                WorkingHoursCard, RateCardPanel} : Allowed(v, p)
  BY <1>1 DEF AchievementsPanel, LeaderboardPanel, PerformanceInsightsPanel, AvailabilityToggle,
     WorkingHoursCard, RateCardPanel, View, CollectorCalls
<1>7. \A p \in {RoutePlanner, SuggestedBatchPanel, DemandHeatmapModal, DemandForecastCard} :
        Allowed(v, p)
  BY <1>1 DEF RoutePlanner, SuggestedBatchPanel, DemandHeatmapModal, DemandForecastCard, View,
     KeyedView, CollectorCalls
<1>8. \A p \in {TeamPanel, OwnedTeam, TeamAssign, TeamPerformance} : Allowed(v, p)
  BY <1>1 DEF TeamPanel, OwnedTeam, TeamMembers, TeamFleet, TeamAssign, TeamPerformance, KeyedView,
     CollectorCalls
<1>9. \A p \in {VerifyEmailBanner, NotifyPreferencesModal, RequesterProfileModal} : Allowed(v, p)
  BY <1>3 DEF VerifyEmailBanner, NotifyPreferencesModal, RequesterProfileModal, KeyedView, Action,
     SignedInCalls
<1>10. Allowed(v, CollectorLists)
  BY <1>1, <1>2, <1>3 DEF CollectorLists, CollectorCalls, PartyCalls, SignedInCalls
<1>11. Allowed(v, DropOffPanel) BY <1>1, <1>4 DEF DropOffPanel, CollectorCalls
<1>12. \A p \in JobDialogs : Allowed(v, p)
  BY <1>1, <1>2 DEF JobDialogs, PayCard, Action, CollectorCalls, PartyCalls
<1> HIDE DEF Allowed, Panel, Form, Keeping, Rows
<1> QED BY <1>5, <1>6, <1>7, <1>8, <1>9, <1>10, <1>11, <1>12, SharedIsAllowed
        DEF CollectorDashboard, ProtectedRoute, PartyRoles

LEMMA AdminIsAllowed == \A v \in Everyone : \A p \in AdminPanel(v) : Allowed(v, p)
<1> SUFFICES ASSUME NEW v, v = "admin" PROVE \A p \in AdminPanel(v) : Allowed(v, p)
  BY DEF AdminPanel, ProtectedRoute
<1>1. \A c \in AdminCalls : v \in Callers[c] BY AdminMay DEF AdminRole
<1>2. \A c \in PublicCalls : v \in Callers[c] BY PublicMay DEF Everyone
<1> USE DEF Allowed, Panel, Form, Keeping, Rows
<1>3. \A p \in {SosBadge, OverviewTab, UsersTab, PayoutsTab, DisputeQueue, PickupsTab} : Allowed(v, p)
  BY <1>1 DEF SosBadge, OverviewTab, UsersTab, PayoutsTab, DisputeQueue, PickupsTab, View,
     AdminCalls
<1>4. \A p \in {AddCollectorTab, AuditLogTab, CouponsTab, PartnersTab, PlansTab, FraudTab} :
        Allowed(v, p)
  BY <1>1 DEF AddCollectorTab, AuditLogTab, CouponsTab, PartnersTab, PlansTab, FraudTab, AdminCalls
<1>5. \A p \in {ItemCatalogTab, OpsTab, SafetyTab, SupportTab, VerificationsTab} : Allowed(v, p)
  BY <1>1 DEF ItemCatalogTab, OpsTab, SafetyTab, SupportTab, VerificationsTab, AdminCalls
<1>6. Allowed(v, ScrapRatesTab) BY <1>1, <1>2 DEF ScrapRatesTab, AdminCalls, PublicCalls
<1> HIDE DEF Allowed, Panel, Form, Keeping, Rows
<1> QED BY <1>3, <1>4, <1>5, <1>6 DEF AdminPanel, ProtectedRoute

LEMMA AllAreAllowed == \A v \in Everyone : \A p \in AppRoutes(v) : Allowed(v, p)
BY PublicIsAllowed, ProfileIsAllowed, ReceiptIsAllowed, RequesterIsAllowed, CollectorIsAllowed,
   AdminIsAllowed DEF AppRoutes, ProtectedRoute

LEMMA LookedCalls == ScreenInv /\ Looking => CallsAreAllowed
<1> SUFFICES ASSUME ScreenInv, Looking, NEW i \in DOMAIN flight, NEW c \in flight[i].calls
             PROVE  visitor \in Callers[c]
  BY DEF CallsAreAllowed
<1>1. PICK call \in CallsOf(panel) : call = flight[i] BY CallIs DEF ScreenInv
<1>2. call.calls \in {panel.reads} \cup {f.calls : f \in panel.forms} BY DEF CallsOf
<1>3. Allowed(visitor, panel)
  <2>1. CASE panel = NoPanel BY <2>1 DEF NoPanel, Panel, Allowed
  <2>2. CASE panel \in AppRoutes(visitor) BY <2>2, AllAreAllowed DEF Looking
  <2> QED BY <2>1, <2>2 DEF Looking
<1> QED BY <1>1, <1>2, <1>3 DEF Allowed

\* No page sends a call that the server refuses to the role it is shown to, in
\* every order in which panels are opened, used and closed.
THEOREM PagesMayCall == ScreenSpec => []CallsAreAllowed
BY LookingStart, ScreenStart, ScreenStep, LookingStep, LookedCalls, PTL DEF ScreenSpec
=============================================================================
