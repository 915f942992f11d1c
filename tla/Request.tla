------------------------------- MODULE Request -------------------------------
(***************************************************************************)
(* The page that requests a pickup: the list of items and what may fill it  *)
(* (typing, a spoken sentence, a look at the photo), the photo and its      *)
(* compression, the coupon, the place, and the chain of calls behind the    *)
(* Submit button.  The server answers each call well, with an error, or not *)
(* at all.                                                                  *)
(*                                                                          *)
(* A photo is named by its number among those picked, 0 is none; a weight   *)
(* is given or not.  What a coupon or a pickup is worth is in Coupons.  A   *)
(* requester who picks photos and submits is busy, besides, with one part   *)
(* of the form in a behaviour: the parts do not touch each other.           *)
(***************************************************************************)
EXTENDS Naturals, Sequences, SequencesExt

CONSTANTS
  ScrapTypes,    \* what an item may be of
  FirstType,     \* what a new row is of
  MaxItems,      \* MAX_ITEMS_PER_PICKUP
  MaxPicks,      \* bound: photos picked
  MaxPosts       \* bound: pickups the server has made

ASSUME RequestAssumption ==
  /\ FirstType \in ScrapTypes /\ MaxItems \in Nat \ {0}
  /\ MaxPicks \in Nat /\ MaxPosts \in Nat

VARIABLES
  rows,      \* the items
  picked,    \* the photo in the preview
  file,      \* the photo that a submission sends
  atWork,    \* the photos under compression
  busy,      \* "Optimizing photo"
  looking,   \* what the look at the photo in the preview is up to
  hearing,   \* what the microphone is up to
  promo,     \* the coupon: "none", "checking", "applied"
  place,     \* where: "unknown", "site", "here"; and whether it is being found
  also,      \* what follows the creation: a chosen collector, a repetition
  step,      \* what is under way since Submit was pressed
  posted,    \* the pickups the server has made from this page
  care       \* the part of the form the requester is busy with

itemVars    == <<rows, hearing, looking>>
photoVars   == <<picked, file, atWork, busy>>
restVars    == <<promo, place, also>>
requestVars == <<itemVars, photoVars, restVars, step, posted, care>>

FormFields == <<itemVars, photoVars, restVars, care>>

-----------------------------------------------------------------------------
(* The items.                                                               *)

Row == [type : ScrapTypes, weighed : BOOLEAN]

NewRow(type) == [type |-> type, weighed |-> FALSE]

HasType(type) == \E i \in DOMAIN rows : rows[i].type = type

UpdateItem ==
  \E i \in DOMAIN rows, row \in Row : row # rows[i] /\ rows' = [rows EXCEPT ![i] = row]

AddItem == Len(rows) < MaxItems /\ rows' = Append(rows, NewRow(FirstType))

RemoveItem == Len(rows) > 1 /\ \E i \in DOMAIN rows : rows' = RemoveAt(rows, i)

\* A suggested type takes the row nobody has filled in, or a row of its own.
ApplySuggestion(type) ==
  rows' = IF HasType(type) THEN rows
          ELSE IF Len(rows) = 1 /\ ~rows[1].weighed THEN <<NewRow(type)>>
          ELSE IF Len(rows) >= MaxItems THEN rows
          ELSE Append(rows, NewRow(type))

\* What was heard takes the place of the whole list: one row for each type.
ApplyVoiceItems(parsed) ==
  rows' = IF parsed = << >> THEN rows ELSE SubSeq(parsed, 1, IF Len(parsed) < MaxItems THEN Len(parsed) ELSE MaxItems)

EditItems ==
  /\ care = "items"
  /\ UpdateItem \/ AddItem \/ RemoveItem
  /\ UNCHANGED <<hearing, looking, photoVars, restVars, step, posted, care>>

-----------------------------------------------------------------------------
(* The microphone and the look at the photo.                                *)

\* parseVoiceRequest: rows of different types, or nothing understood.
Heard == {<< >>} \cup {<<row>> : row \in Row}
           \cup {<<r, s>> : r \in Row, s \in {t \in Row : t.type = FirstType}}
ParseVoiceRequest == {s \in Heard : \A i, j \in DOMAIN s : s[i].type = s[j].type => i = j}

VoiceRequest ==
  /\ care = "items"
  /\ \/ hearing = "idle" /\ hearing' = "listening" /\ UNCHANGED rows
     \/ hearing = "listening" /\ hearing' \in {"idle", "heard"} /\ UNCHANGED rows
     \/ hearing = "heard" /\ hearing' = "listening" /\ UNCHANGED rows
     \/ /\ hearing = "heard" /\ hearing' = "idle"
        /\ \E parsed \in ParseVoiceRequest : ApplyVoiceItems(parsed)
  /\ UNCHANGED <<looking, photoVars, restVars, step, posted, care>>

\* The card is a new one with every photo.
ScrapPhotoSuggest ==
  /\ care = "items" /\ picked # 0
  /\ \/ looking \in {"idle", "error"} /\ looking' = "working" /\ UNCHANGED rows
     \/ looking = "working" /\ looking' \in {"done", "error"} /\ UNCHANGED rows
     \/ looking = "done" /\ UNCHANGED looking /\ \E type \in ScrapTypes : ApplySuggestion(type)
  /\ UNCHANGED <<hearing, photoVars, restVars, step, posted, care>>

-----------------------------------------------------------------------------
(* The photo: shown at once, sent once it is compressed.                    *)

HandleFile ==
  /\ picked < MaxPicks
  /\ picked' = picked + 1
  /\ atWork' = atWork \cup {picked + 1}
  /\ busy' = TRUE /\ looking' = "idle"
  /\ UNCHANGED <<rows, file, hearing, restVars, step, posted, care>>

Compressed_AnyRequest(f) == file' = f /\ busy' = IF f = picked THEN FALSE ELSE busy

\* compressImage gives the photo back, smaller or as it was; only for the newest
\* photo is that still wanted.
Compressed(f) == IF f = picked THEN file' = f /\ busy' = FALSE ELSE UNCHANGED <<file, busy>>

CompressImage ==
  /\ \E f \in atWork : Compressed(f) /\ atWork' = atWork \ {f}
  /\ UNCHANGED <<itemVars, picked, restVars, step, posted, care>>

-----------------------------------------------------------------------------
(* The coupon, the place, and the rest of the form.                         *)

ApplyCoupon ==
  /\ care = "coupon"
  /\ \/ promo = "none" /\ promo' = "checking"
     \/ promo = "checking" /\ promo' \in {"applied", "none"}
     \/ promo = "applied" /\ promo' = "none"
  /\ UNCHANGED <<itemVars, photoVars, place, also, step, posted, care>>

\* A saved site has a place; to find the phone's gives that up at once.
Locate ==
  /\ care = "place"
  /\ \/ /\ ~place.finding \/ place.at = "here"
        /\ place' = [at |-> IF place.at = "site" THEN "unknown" ELSE place.at, finding |-> TRUE]
     \/ place.finding /\ place' = [at |-> "here", finding |-> FALSE]
     \/ place.finding /\ place' = [place EXCEPT !.finding = FALSE]
  /\ UNCHANGED <<itemVars, photoVars, promo, also, step, posted, care>>

Repeat ==
  /\ care = "repeat"
  /\ also' = [also EXCEPT !.repeat = ~@]
  /\ UNCHANGED <<itemVars, photoVars, promo, place, step, posted, care>>

-----------------------------------------------------------------------------
(* Submit: create the pickup, then invite the collector the requester comes *)
(* with, then save the repetition; the two that follow may fail.            *)

AtForm == [at |-> "form", form |-> << >>]

\* Of what is sent, what a later answer or a later choice could change: the
\* photo, the coupon; preview is what the requester saw at the press.
FormData ==
  [photo |-> file, preview |-> picked, coupon |-> promo = "applied",
   invited |-> FALSE, repeats |-> FALSE]

HandleSubmit ==
  /\ step = AtForm /\ ~busy
  /\ place.at # "unknown"
  /\ step' = [at |-> "creating", form |-> FormData]
  /\ UNCHANGED <<FormFields, posted>>

\* The pickup is made, and the page may not hear of it: then it is a form again.
CreatePickup ==
  /\ step.at = "creating"
  /\ \/ /\ Len(posted) < MaxPosts
        /\ posted' = Append(posted, step.form)
        /\ \/ step' = [step EXCEPT !.at = "created"]
           \/ step' = AtForm
     \/ step' = AtForm /\ UNCHANGED posted
  /\ UNCHANGED FormFields

\* Whether a call that follows the creation succeeds or not, the page goes on.
BestEffort(mark, next) ==
  /\ \/ posted' = [posted EXCEPT ![Len(posted)] = mark]
     \/ UNCHANGED posted
  /\ step' = [step EXCEPT !.at = next]

InviteChosen ==
  /\ step.at = "created"
  /\ IF also.chosen THEN BestEffort([Last(posted) EXCEPT !.invited = TRUE], "invited")
     ELSE step' = [step EXCEPT !.at = "invited"] /\ UNCHANGED posted
  /\ UNCHANGED FormFields

\* The page still shows the form as it was read at the press: a repetition is of
\* its first item.
SaveRepetition ==
  /\ step.at = "invited"
  /\ IF also.repeat THEN BestEffort([Last(posted) EXCEPT !.repeats = TRUE], "left")
     ELSE step' = [step EXCEPT !.at = "left"] /\ UNCHANGED posted
  /\ UNCHANGED FormFields

-----------------------------------------------------------------------------

RequestInit ==
  /\ care \in {"items", "coupon", "place", "repeat"}
  /\ rows = <<NewRow(FirstType)>>
  /\ picked = 0 /\ file = 0 /\ atWork = {} /\ busy = FALSE
  /\ looking = "idle" /\ hearing = "idle" /\ promo = "none"
  /\ \E at \in {"unknown", "site"} : place = [at |-> at, finding |-> FALSE]
  /\ \E chosen \in BOOLEAN : also = [chosen |-> chosen, repeat |-> FALSE]
  /\ step = AtForm /\ posted = << >>

\* Until the page is left, the form can be filled in, also while it is sent.
RequestNext ==
  /\ step.at # "left"
  /\ \/ EditItems \/ VoiceRequest \/ ScrapPhotoSuggest \/ HandleFile \/ CompressImage
     \/ ApplyCoupon \/ Locate \/ Repeat
     \/ HandleSubmit \/ CreatePickup \/ InviteChosen \/ SaveRepetition

RequestSpec == RequestInit /\ [][RequestNext]_requestVars

-----------------------------------------------------------------------------
(* Properties.                                                              *)

\* A pickup carries the photo the requester saw when they pressed Submit, however
\* long each photo took to compress and whatever was picked meanwhile.
PhotoIsTheOneShown == \A i \in DOMAIN posted : posted[i].photo = posted[i].preview

\* Type invariant of the component.
RequestTypeOK ==
  /\ Len(rows) \in 1..MaxItems /\ \A i \in DOMAIN rows : rows[i] \in Row
  /\ picked \in 0..MaxPicks /\ file \in 0..picked /\ atWork \subseteq 1..picked
  /\ busy \in BOOLEAN /\ also \in [chosen : BOOLEAN, repeat : BOOLEAN]
  /\ looking \in {"idle", "working", "done", "error"}
  /\ hearing \in {"idle", "listening", "heard"}
  /\ promo \in {"none", "checking", "applied"}
  /\ place \in [at : {"unknown", "site", "here"}, finding : BOOLEAN]
  /\ step.at \in {"form", "creating", "created", "invited", "left"}
  /\ Len(posted) <= MaxPosts
=============================================================================
