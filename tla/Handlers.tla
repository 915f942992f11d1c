------------------------------ MODULE Handlers ------------------------------
(***************************************************************************)
(* The request handlers of the server, as the smaller components use them.  *)
(* A handler that goes on after an await occupies a slot, which holds the   *)
(* step it is at ("op") and what it has read.  Between two of its steps any *)
(* other handler may run, and the server may stop: the host starts it again *)
(* with no handler running, and the database as it was.                     *)
(***************************************************************************)

CONSTANT Slots   \* concurrent executions of request handlers

VARIABLE slots   \* the running handlers, with what they carry

Idle == [op |-> "idle"]

AllIdle == [s \in Slots |-> Idle]

\* A handler goes on to its next step; ends; or starts.
Goes(s, step) == slots' = [slots EXCEPT ![s] = step]

Ends(s) == Goes(s, Idle)

Starts(s, step) == slots[s] = Idle /\ Goes(s, step)

\* A handler at this step.
At(s, op) == slots[s].op = op

\* The server process stops and is started again.
Restarts == slots # AllIdle /\ slots' = AllIdle
=============================================================================
