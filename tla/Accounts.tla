------------------------------ MODULE Accounts ------------------------------
(***************************************************************************)
(* One account and its sessions.  A token carries the sessionVersion of the *)
(* account document it was made from, and is accepted while the account is  *)
(* active and has that version; tokens that claim the same are one here.    *)
(* Handlers load the account, await bcrypt, and save the fields they        *)
(* changed.  An open socket keeps its token and is looked at again every    *)
(* few minutes.                                                             *)
(***************************************************************************)
EXTENDS Handlers, Integers

CONSTANT
  MaxVersion   \* bound: values of sessionVersion

ASSUME AccountAssumption == MaxVersion \in Nat

VARIABLES
  account,    \* sessionVersion, isActive, deletedAt, and whether a reset link is out
  tokens,     \* the tokens that were issued
  sockets,    \* the tokens with an open connection
  ended,      \* history: tokens out when a new password or a deletion was saved
  overlapped  \* history: two handlers that write the password, the deletion or
              \* isActive were under way at once

accountDocs == <<account, tokens, sockets, ended, overlapped>>
accountVars == <<account, tokens, sockets, ended, overlapped, slots>>

AccountInit ==
  /\ account = [version |-> 0, active |-> TRUE, deleted |-> FALSE, reset |-> FALSE]
  /\ tokens = {}
  /\ sockets = {}
  /\ ended = {}
  /\ overlapped = FALSE
  /\ slots = AllIdle

-----------------------------------------------------------------------------
Accepted_AnyVersion(t) == account.active

\* middleware/auth.js, and isStillValid of the sockets.
Accepted(t) == account.active /\ t = account.version

\* login by email and googleAuth: the account is found and active; the password
\* is compared, or the Google identity saved, before the token is made.
LoginArrives(s) ==
  /\ account.active /\ ~account.deleted
  /\ Starts(s, [op |-> "login", version |-> account.version])
  /\ UNCHANGED accountDocs

LoggedIn(s) ==
  /\ At(s, "login")
  /\ tokens' = tokens \cup {slots[s].version}
  /\ Ends(s)
  /\ UNCHANGED <<account, sockets, ended, overlapped>>

-----------------------------------------------------------------------------
Writers == {"change", "reset", "delete", "activate", "deactivate"}

\* A handler that writes what decides about sessions loads the account.
Loads(s, op) ==
  /\ Starts(s, [op |-> op, version |-> account.version, active |-> account.active])
  /\ overlapped' = (overlapped \/ \E r \in Slots : slots[r].op \in Writers)
  /\ UNCHANGED <<account, tokens, sockets, ended>>

\* changePassword of a session, and resetCollectorPassword of an admin.
ChangeArrives(s, byAdmin) ==
  /\ account.version < MaxVersion
  /\ byAdmin \/ \E t \in tokens : Accepted(t)
  /\ Loads(s, IF byAdmin THEN "reset" ELSE "change")

\* forgotPassword stores the hash of a fresh link; found by email.
ForgotPassword ==
  /\ ~account.deleted /\ ~account.reset
  /\ account' = [account EXCEPT !.reset = TRUE]
  /\ UNCHANGED <<tokens, sockets, ended, overlapped, slots>>

\* resetPassword finds the account by the hash of the link.
ResetArrives(s) ==
  /\ account.reset /\ account.version < MaxVersion
  /\ Loads(s, "reset")

NewVersion_Same(s) == slots[s].version

\* sessionVersion + 1, of the version loaded.
NewVersion(s) == slots[s].version + 1

\* user.save() after the hash.  The link is used up, and only changePassword
\* answers with a fresh token.
PasswordSaved(s) ==
  /\ At(s, "change") \/ At(s, "reset")
  /\ account' = [account EXCEPT !.version = NewVersion(s), !.reset = @ /\ At(s, "change")]
  /\ ended' = ended \cup tokens
  /\ tokens' = tokens \cup (IF At(s, "change") THEN {NewVersion(s)} ELSE {})
  /\ Ends(s)
  /\ UNCHANGED <<sockets, overlapped>>

\* deleteAccount: its checks and its open requests lie between the load and the save.
DeleteArrives(s) ==
  /\ account.version < MaxVersion
  /\ (\E t \in tokens : Accepted(t))
  /\ Loads(s, "delete")

AccountDeleted(s) ==
  /\ At(s, "delete")
  /\ account' = [version |-> NewVersion(s), active |-> FALSE, deleted |-> TRUE, reset |-> FALSE]
  /\ ended' = ended \cup tokens
  /\ Ends(s)
  /\ UNCHANGED <<tokens, sockets, overlapped>>

\* deactivateUser and activateUser of an admin; the latter not of a deleted account.
SwitchArrives(s, op) ==
  /\ op = "activate" => ~account.deleted
  /\ Loads(s, op)

\* A flag that was loaded with the value it is given is not sent.
Switched(s) ==
  /\ At(s, "activate") \/ At(s, "deactivate")
  /\ account' = [account EXCEPT !.active = IF slots[s].active = At(s, "activate")
                                           THEN @ ELSE At(s, "activate")]
  /\ Ends(s)
  /\ UNCHANGED <<tokens, sockets, ended, overlapped>>

-----------------------------------------------------------------------------
\* The handshake of a socket checks its token; so does every interval after it.
SocketOpens(t) ==
  /\ Accepted(t) /\ t \notin sockets
  /\ sockets' = sockets \cup {t}
  /\ UNCHANGED <<account, tokens, ended, overlapped, slots>>

SocketRevalidated(t) ==
  /\ t \in sockets /\ ~Accepted(t)
  /\ sockets' = sockets \ {t}
  /\ UNCHANGED <<account, tokens, ended, overlapped, slots>>

SocketCloses(t) ==
  /\ t \in sockets
  /\ sockets' = sockets \ {t}
  /\ UNCHANGED <<account, tokens, ended, overlapped, slots>>

AccountServerStops ==
  /\ Restarts
  /\ sockets' = {}
  /\ UNCHANGED <<account, tokens, ended, overlapped>>

AccountNext ==
  \/ \E s \in Slots :
       \/ LoginArrives(s) \/ LoggedIn(s)
       \/ (\E byAdmin \in BOOLEAN : ChangeArrives(s, byAdmin))
       \/ ResetArrives(s) \/ PasswordSaved(s)
       \/ DeleteArrives(s) \/ AccountDeleted(s)
       \/ (\E op \in {"activate", "deactivate"} : SwitchArrives(s, op))
       \/ Switched(s)
  \/ ForgotPassword
  \/ \E t \in tokens : SocketOpens(t) \/ SocketRevalidated(t) \/ SocketCloses(t)
  \/ AccountServerStops

AccountSpec == AccountInit /\ [][AccountNext]_accountVars

AccountFairness == \A t \in 0..MaxVersion : WF_accountVars(SocketRevalidated(t))

AccountFairSpec == AccountSpec /\ AccountFairness
-----------------------------------------------------------------------------
AccountTypeOK ==
  /\ account \in [version : 0..MaxVersion, active : BOOLEAN, deleted : BOOLEAN, reset : BOOLEAN]
  /\ sockets \cup ended \subseteq tokens /\ tokens \subseteq 0..MaxVersion

(* A password that is changed or reset, and a deletion, end every session there *)
(* is: no token from before is accepted again, and a deleted account is never   *)
(* active again, whatever logins, activations and links interleave, as long as  *)
(* no two of the handlers that write this overlap (User.js, sessionVersion;     *)
(* middleware/auth.js; adminController.js, activateUser).                       *)
SessionsEnd ==
  ~overlapped => /\ \A t \in ended : ~Accepted(t)
                 /\ account.deleted => ~account.active

(* A live connection of a session that was ended is closed in the end, although *)
(* only its handshake looked at the token (setupSocket.js:75-111).              *)
SocketsClose ==
  \A t \in 0..MaxVersion : (t \in ended /\ t \in sockets) ~>
      (t \notin sockets \/ (account.active /\ t = account.version))
=============================================================================
