----------------------------- MODULE HandledJob -----------------------------
(***************************************************************************)
(* What dispatch_once promises about a job whose handler keeps the boundary *)
(* rule, without rows, leases, workers or exceptions.  A job is open until  *)
(* it is sent or settled; it is withdrawn when its cancellation arrives     *)
(* first.  As long as it was not sent it may be run again, and of those     *)
(* runs only some were asked for by the handler: returns counts them.       *)
(***************************************************************************)
EXTENDS Naturals

CONSTANTS Jobs, Limit

VARIABLES
  stage,      \* "absent", "open", "withdrawn", "sent" or how the job ended
  requests,   \* paid requests made for it
  returns     \* times a retryable error sent it back to the queue

handledVars == <<stage, requests, returns>>

Ends   == {"needs_review", "succeeded", "failed", "cancelled"}
Stages == {"absent", "open", "withdrawn", "sent"} \union Ends

Init ==
  /\ stage    = [j \in Jobs |-> "absent"]
  /\ requests = [j \in Jobs |-> 0]
  /\ returns  = [j \in Jobs |-> 0]

\* A sent job never fails and is never open again, a withdrawn one is neither
\* sent nor succeeds, and only a job whose cancellation was asked for is
\* cancelled.  A handler need not send anything to succeed.
Moves(s) ==
  CASE s = "absent"    -> {"open"}
    [] s = "open"      -> {"withdrawn", "sent", "succeeded", "needs_review", "failed"}
    [] s = "withdrawn" -> {"cancelled", "needs_review", "failed"}
    [] s = "sent"      -> {"succeeded", "cancelled", "needs_review"}
    [] OTHER           -> {}

Move(j) == stage'[j] \in Moves(stage[j]) /\ UNCHANGED <<requests[j], returns[j]>>

\* The one request, which may be late: its worker need not know that its lease
\* has lapsed and the job was handed to a human.
Request(j) ==
  /\ requests[j] = 0 /\ stage[j] \in {"sent", "needs_review"}
  /\ requests'[j] = 1 /\ UNCHANGED <<stage[j], returns[j]>>

\* A run that sent nothing is repeated.
Return(j) ==
  /\ returns[j] < Limit /\ stage[j] \in {"open", "withdrawn"} /\ requests[j] = 0
  /\ returns'[j] = returns[j] + 1 /\ UNCHANGED <<stage[j], requests[j]>>

JobStep(j) ==
  Move(j) \/ Request(j) \/ Return(j) \/ UNCHANGED <<stage[j], requests[j], returns[j]>>

Next ==
  /\ stage'    \in [Jobs -> Stages]
  /\ requests' \in [Jobs -> Nat]
  /\ returns'  \in [Jobs -> Nat]
  /\ \A j \in Jobs : JobStep(j)

Spec == Init /\ [][Next]_handledVars

=============================================================================
