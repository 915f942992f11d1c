------------------------------- MODULE Session -------------------------------
(***************************************************************************)
(* The session of the web client.  The browser stores a token and the user  *)
(* it is of; every tab of it shows the user it last read there.  This is    *)
(* one tab; the others sign in and out in the same store, and this one      *)
(* hears of it by a storage event.  What the server thinks of a token is in *)
(* Accounts: here it refuses one whenever it likes.                         *)
(***************************************************************************)
EXTENDS Naturals, FiniteSets

CONSTANTS
  Visitors,   \* the accounts of the one in front of the browser
  Null,       \* the text "null", which is not the token of anyone
  SignedOut,  \* nothing stored
  MaxAwaited     \* the calls under way at a time

ASSUME SessionAssumption == Null \notin Visitors /\ SignedOut \notin Visitors \cup {Null}

VARIABLES
  stored,   \* localStorage: whose token it is, and the user beside it
  tab,      \* the user this tab shows
  told,     \* it has heard of the last change of another tab
  asked     \* the calls this tab has sent

sessionVars == <<stored, tab, told, asked>>

Cleared == [token |-> SignedOut, user |-> SignedOut]

\* readStoredUser: nobody is signed in without both.
ReadStoredUser(s) == IF SignedOut \in {s.token, s.user} THEN SignedOut ELSE s.user

SessionInit == stored = Cleared /\ tab = SignedOut /\ told = TRUE /\ asked = {}

\* The forms whose answer changes the session, and any other call.
Forms == {"login", "profile", "password", "delete", "other"}

\* login: the answer to a form, or to a call of the page, opens a session.
StoreSession(token, user) == stored' = [token |-> token, user |-> user] /\ tab' = user

-----------------------------------------------------------------------------

Asks(what, as) ==
  /\ Cardinality(asked) < MaxAwaited
  /\ asked' = asked \cup {[what |-> what, as |-> as, shownTo |-> tab, answer |-> "none"]}
  /\ UNCHANGED <<stored, tab, told>>

\* The login page is for one who is not signed in; the admin's is for anyone.
AskToSignIn(who) == Asks("login", who)

\* A form of the profile page, or a call of any page, with the stored token.
AskSignedIn(what) == tab # SignedOut /\ what # "login" /\ Asks(what, stored.token)

\* A wrong password is answered like a session that is over: with a 401.
Answers(c) ==
  (IF c.what \in {"login", "password", "delete"} THEN {"mistake"} ELSE {})
    \cup (IF c.what = "login" THEN {} ELSE {"expired"})
    \cup (IF c.as \in Visitors THEN {"ok"} ELSE {})

ServerAnswers(c) ==
  /\ c.answer = "none"
  /\ \E a \in Answers(c) : asked' = (asked \ {c}) \cup {[c EXCEPT !.answer = a]}
  /\ UNCHANGED <<stored, tab, told>>

\* The token that is stored now, turned into text.
TokenText == IF stored.token = SignedOut THEN Null ELSE stored.token

LogOut == stored' = Cleared /\ tab' = SignedOut

\* A good answer.  A saved profile is stored with whatever token is there; a
\* changed password with the user the form was shown to.
Succeeds(c) ==
  /\ c.answer = "ok" /\ asked' = asked \ {c} /\ UNCHANGED told
  /\ CASE c.what = "login"    -> StoreSession(c.as, c.as)
       [] c.what = "profile"  -> StoreSession(TokenText, c.as)
       [] c.what = "password" -> StoreSession(c.as, c.shownTo)
       [] c.what = "delete"   -> LogOut
       [] c.what = "other"    -> UNCHANGED <<stored, tab>>

Unauthorized_KeepsPage(c) ==
  c.answer \in {"mistake", "expired"} /\ stored' = Cleared /\ asked' = asked \ {c} /\ UNCHANGED <<tab, told>>

\* The interceptor of every call: a 401 clears the store, and loads the login
\* page, with which all that is under way is gone, unless it is there already.
Unauthorized(c) ==
  /\ c.answer \in {"mistake", "expired"}
  /\ stored' = Cleared
  /\ \/ tab = SignedOut /\ asked' = asked \ {c} /\ UNCHANGED <<tab, told>>
     \/ asked' = {} /\ tab' = SignedOut /\ told' = TRUE

SignOut == tab # SignedOut /\ LogOut /\ UNCHANGED <<told, asked>>

OtherTab(session) == told /\ told' = FALSE /\ stored' = session /\ UNCHANGED <<tab, asked>>

HearOfIt == ~told /\ told' = TRUE /\ tab' = ReadStoredUser(stored) /\ UNCHANGED <<stored, asked>>

SessionNext ==
  \/ \E who \in Visitors : AskToSignIn(who) \/ OtherTab([token |-> who, user |-> who])
  \/ \E what \in Forms : AskSignedIn(what)
  \/ \E c \in asked : ServerAnswers(c) \/ Succeeds(c) \/ Unauthorized(c)
  \/ SignOut \/ OtherTab(Cleared) \/ HearOfIt

SessionSpec == SessionInit /\ [][SessionNext]_sessionVars

-----------------------------------------------------------------------------
(* Properties.                                                              *)

\* A tab that has heard of every change shows the user that is stored, also
\* when an answer to an older page's call opens or ends a session.
TabAgrees == told => tab = ReadStoredUser(stored)

\* Claimed of the form that changes the password (Profile.test.jsx:213): a wrong
\* current password is answered with an error, and the session stays.
MistakesKeepTheSession ==
  [][\A c \in asked :
       c.what = "password" /\ c.answer = "mistake" /\ c \notin asked' => stored' = stored]_sessionVars

\* Type invariant of the component.
SessionTypeOK ==
  /\ stored \in [token : Visitors \cup {Null, SignedOut}, user : Visitors \cup {SignedOut}]
  /\ tab \in Visitors \cup {SignedOut}
  /\ asked \subseteq [what : Forms, as : Visitors \cup {Null, SignedOut},
                      shownTo : Visitors \cup {SignedOut},
                      answer : {"none", "ok", "mistake", "expired"}]
=============================================================================
