------------------------------ MODULE MCPickup ------------------------------
(* Instances of PickupLifecycle for TLC. *)
EXTENDS PickupLifecycle, TLC

CONSTANTS c1, c2, s1, s2, s3, c3

NoCrews   == {[c \in Collectors |-> {}]}
OwnerC1   == {[c \in Collectors |-> IF c = c1 THEN {c2} ELSE {}]}

\* Collectors are interchangeable where none owns a team.
SymmetricUsers == Permutations(Collectors) \cup Permutations(Slots)
SymmetricSlots == Permutations(Slots)

MatchingWork   == {"create", "accept", "offer", "invite", "decline", "counter", "agree",
                   "cancel", "standing"}
NoShowWork     == {"create", "accept", "start", "complete", "cancel", "no-show",
                   "rate", "reinstate", "withdraw", "erase", "crash"}
PatienceWork   == {"create", "accept", "offer", "counter", "decline", "agree", "departure",
                   "ready", "start", "miscode", "complete", "assign", "unassign", "release",
                   "cancel"}

\* The shortest workloads that show what the violation runs show.
StaleTermsWork == {"create", "offer", "agree"}
ExpiryWork     == {"create", "offer", "counter"}
SetOffWork     == {"create", "accept", "departure", "no-show"}
SuspendedWork  == {"create", "invite", "agree", "rate"}
AssignedWork   == {"create", "accept", "assign", "no-show"}
DeletedWork    == {"create", "offer", "agree", "erase"}
=============================================================================
