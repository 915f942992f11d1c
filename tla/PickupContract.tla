--------------------------- MODULE PickupContract ---------------------------
(***************************************************************************)
(* What a scrap pickup promises its requester and its collectors, with no  *)
(* negotiation, no concurrency and no server: who holds the job, and the   *)
(* only ways in which that may change.                                     *)
(* PickupLifecycle, the model of the request handlers and the cron jobs,   *)
(* implements this specification.                                          *)
(***************************************************************************)
CONSTANTS Collectors, \* the users with role "collector"
          NoOne       \* stands for a null user reference

VARIABLES status,     \* Pickup.status, "absent" before the document exists
          holder,     \* Pickup.collector
          stalled     \* Pickup.isStalled

contractVars == <<status, holder, stalled>>

ContractInit == status = "absent" /\ holder = NoOne /\ stalled = FALSE

Post == status = "absent" /\ status' = "pending" /\ UNCHANGED <<holder, stalled>>

\* A free pickup, and only a free one, gets a collector.
Match(c) ==
  /\ status = "pending"
  /\ holder = NoOne
  /\ status' = "accepted"
  /\ holder' = c
  /\ UNCHANGED stalled

Begin == status = "accepted" /\ status' = "in_progress" /\ UNCHANGED <<holder, stalled>>

Finish == status = "in_progress" /\ status' = "completed" /\ UNCHANGED <<holder, stalled>>

Cancel ==
  /\ status \in {"pending", "accepted", "in_progress"}
  /\ status' = "cancelled"
  /\ UNCHANGED <<holder, stalled>>

Flag == stalled' = TRUE /\ UNCHANGED <<status, holder>>

\* The one way a collector loses a job that goes on: reported after a stall.
Reopen ==
  /\ status = "accepted"
  /\ stalled
  /\ status' = "pending"
  /\ holder' = NoOne
  /\ stalled' = FALSE

\* Deleting the requester's account writes "cancelled" over whatever the job
\* has become since the deletion read it, a completed job included.
Withdraw == status = "completed" /\ status' = "cancelled" /\ UNCHANGED <<holder, stalled>>

ContractNext ==
  \/ Post \/ Begin \/ Finish \/ Cancel \/ Flag \/ Reopen \/ Withdraw
  \/ \E c \in Collectors : Match(c)

ContractSpec == ContractInit /\ [][ContractNext]_contractVars
=============================================================================
