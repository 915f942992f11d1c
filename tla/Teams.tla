-------------------------------- MODULE Teams --------------------------------
(***************************************************************************)
(* Collector teams.  A Team document holds its members in an array.  Every  *)
(* handler loads the document, checks, changes the array in memory and      *)
(* saves; what Mongoose then sends depends on the change:                   *)
(*   push and pull        an atomic $push or $pull, and __v + 1;            *)
(*   splice and filter    the whole array, if __v is still the one loaded,  *)
(*                        and __v + 1;                                      *)
(*   a field of an entry  that field at the position the entry was loaded   *)
(*                        at, if __v is still the one loaded.               *)
(* A save that finds another __v fails, and the handler with it.            *)
(***************************************************************************)
EXTENDS Handlers, Integers, Sequences, FiniteSets, SequencesExt

CONSTANTS
  Owners,     \* collectors who may run a team
  Members,    \* collectors who may be invited
  NoTeam,     \* absence of a team
  MaxSaves    \* bound: versions of one Team document

ASSUME TeamAssumption ==
  /\ MaxSaves \in Nat
  /\ NoTeam \notin [members : Seq([user : Members, status : {"invited", "active"}]), v : Nat]

VARIABLES
  teams,      \* the Team document of each owner: its members and __v
  accepted    \* history: who accepted an invitation of whose team

teamDocs == <<teams, accepted>>
teamVars == <<teams, accepted, slots>>

TeamInit ==
  /\ teams = [o \in Owners |-> NoTeam]
  /\ accepted = {}
  /\ slots = AllIdle

-----------------------------------------------------------------------------
Invited(u) == [user |-> u, status |-> "invited"]
Active(u)  == [user |-> u, status |-> "active"]

HasTeam(o) == teams[o] # NoTeam

Entries(o) == IF HasTeam(o) THEN Range(teams[o].members) ELSE {}

\* memberTeam: some team lists this user as an active member.
InATeam(u) == \E o \in Owners : Active(u) \in Entries(o)

InTeam(o, u) == Entries(o) \cap {Invited(u), Active(u)} # {}

Saves(o, members) == teams' = [teams EXCEPT ![o] = [members |-> members, v |-> @.v + 1]]

\* The position findIndex and find give: the first one.
PositionOf(o, entries) ==
  CHOOSE i \in DOMAIN teams[o].members :
    /\ teams[o].members[i] \in entries
    /\ \A j \in 1..(i - 1) : teams[o].members[j] \notin entries

\* What filter keeps: the entries of the others, in the order they had.
OthersThan(u, entries) ==
  LET kept == {i \in DOMAIN entries : entries[i].user # u}
      Nth(n) == CHOOSE i \in kept : Cardinality({j \in kept : j <= i}) = n
  IN [n \in 1..Cardinality(kept) |-> entries[Nth(n)]]

\* createTeam, and Team.create under the unique index on owner.
TeamCreateArrives(s, o) ==
  /\ ~HasTeam(o)
  /\ ~InATeam(o)
  /\ Starts(s, [op |-> "create team", team |-> o])
  /\ UNCHANGED teamDocs

TeamCreated(s) ==
  /\ At(s, "create team")
  /\ teams' = IF HasTeam(slots[s].team) THEN teams
              ELSE [teams EXCEPT ![slots[s].team] = [members |-> << >>, v |-> 0]]
  /\ Ends(s)
  /\ UNCHANGED accepted

\* invite: neither in this team, nor in another, nor an owner.
InviteMemberArrives(s, o, u) ==
  /\ HasTeam(o) /\ u # o
  /\ ~InTeam(o, u)
  /\ u \in Owners => ~HasTeam(u)
  /\ ~InATeam(u)
  /\ Starts(s, [op |-> "push", team |-> o, who |-> u])
  /\ UNCHANGED teamDocs

MemberInvited(s) ==
  /\ At(s, "push")
  /\ LET o == slots[s].team
     IN teams[o].v < MaxSaves /\ Saves(o, Append(teams[o].members, Invited(slots[s].who)))
  /\ Ends(s)
  /\ UNCHANGED accepted

\* respond(true): invited, not an owner, not in a team.
JoinArrives(s, o, u) ==
  /\ HasTeam(o) /\ Invited(u) \in Entries(o)
  /\ u \in Owners => ~HasTeam(u)
  /\ ~InATeam(u)
  /\ Starts(s, [op |-> "join", team |-> o, who |-> u, v |-> teams[o].v,
                at |-> PositionOf(o, {Invited(u)})])
  /\ UNCHANGED teamDocs

SameVersion_Unchecked(s) == slots[s].op = "join" => slots[s].at \in DOMAIN teams[slots[s].team].members

\* What Mongoose adds to the filter of a save by position or of a whole array.
SameVersion(s) == teams[slots[s].team].v = slots[s].v

MemberJoined(s) ==
  /\ At(s, "join")
  /\ IF SameVersion(s)
     THEN /\ teams' = [teams EXCEPT ![slots[s].team].members[slots[s].at].status = "active"]
          /\ accepted' = accepted \cup {<<slots[s].team, slots[s].who>>}
     ELSE UNCHANGED teamDocs
  /\ Ends(s)

\* respond(false) pulls the entry it found.
InviteDeclined(o, u) ==
  /\ Invited(u) \in Entries(o)
  /\ teams[o].v < MaxSaves
  /\ Saves(o, RemoveAt(teams[o].members, PositionOf(o, {Invited(u)})))
  /\ UNCHANGED <<accepted, slots>>

\* removeMember by the owner, and leave by the member: the array without him.
GoesArrives(s, o, u, leaves) ==
  /\ HasTeam(o)
  /\ IF leaves THEN Active(u) \in Entries(o) ELSE InTeam(o, u)
  /\ Starts(s, [op |-> "replace", team |-> o, who |-> u, v |-> teams[o].v,
                left |-> IF leaves
                         THEN OthersThan(u, teams[o].members)
                         ELSE RemoveAt(teams[o].members, PositionOf(o, {Invited(u), Active(u)}))])
  /\ UNCHANGED teamDocs

MemberGone(s) ==
  /\ At(s, "replace")
  /\ IF SameVersion(s)
     THEN /\ teams[slots[s].team].v < MaxSaves
          /\ Saves(slots[s].team, slots[s].left)
          /\ accepted' = accepted \ {<<slots[s].team, slots[s].who>>}
     ELSE UNCHANGED teamDocs
  /\ Ends(s)

TeamServerStops == Restarts /\ UNCHANGED teamDocs

TeamNext ==
  \/ \E s \in Slots :
       \/ TeamCreated(s) \/ MemberInvited(s) \/ MemberJoined(s) \/ MemberGone(s)
       \/ \E o \in Owners :
            \/ TeamCreateArrives(s, o)
            \/ \E u \in Members :
                 \/ InviteMemberArrives(s, o, u) \/ JoinArrives(s, o, u)
                 \/ \E leaves \in BOOLEAN : GoesArrives(s, o, u, leaves)
  \/ \E o \in Owners, u \in Members : InviteDeclined(o, u)
  \/ TeamServerStops

TeamSpec == TeamInit /\ [][TeamNext]_teamVars
-----------------------------------------------------------------------------
\* The team a slot works on, when it has one to change.
TeamTypeOK ==
  /\ \A o \in Owners : HasTeam(o) =>
       /\ teams[o].v \in 0..MaxSaves
       /\ Entries(o) \subseteq [user : Members, status : {"invited", "active"}]
  /\ accepted \subseteq Owners \X Members

(* Nobody is made an active member by an answer that was not his: respond       *)
(* writes at a position it read earlier, and every entry that is active is one  *)
(* whose own user accepted it, whatever was invited, removed or declined before *)
(* the write (teamController.js:122-146).                                       *)
ActivatedBySelf ==
  \A o \in Owners, u \in Members : Active(u) \in Entries(o) => <<o, u>> \in accepted
=============================================================================
