--------------------------- MODULE PaidGeneration ---------------------------
(***************************************************************************)
(* What the queue and its workers together promise about the money of one  *)
(* generation job, without rows, leases, workers or provider protocol.      *)
(* A job is open until it is sent or settled; it is withdrawn when its      *)
(* cancellation arrives first.  Jobs are independent, and several of them   *)
(* may move at the same instant.                                            *)
(***************************************************************************)
EXTENDS Naturals

CONSTANT Jobs

VARIABLES
  stage,    \* "absent", "open", "withdrawn", "sent" or how the job ended
  charges   \* requests the provider accepted for it

paidVars == <<stage, charges>>

Ends   == {"needs_review", "succeeded", "failed", "cancelled"}
Stages == {"absent", "open", "withdrawn", "sent"} \union Ends

Init ==
  /\ stage   = [j \in Jobs |-> "absent"]
  /\ charges = [j \in Jobs |-> 0]

\* How the stage of a job may change, given how often it has been charged.
\* A job that was sent never fails and is never open again; a withdrawn one is
\* never sent; succeeding takes exactly one charge.
Moves(s, c) ==
  CASE s = "absent"    -> {"open"}
    [] s = "open"      -> {"withdrawn", "sent", "needs_review", "failed"}
    [] s = "withdrawn" -> {"cancelled", "needs_review", "failed"}
    [] s = "sent"      -> IF c = 1 THEN {"succeeded", "cancelled", "needs_review"}
                                   ELSE {"needs_review"}
    [] OTHER           -> {}

\* The one request may still reach the provider after the job was handed to a
\* human: the worker that sends it need not know that its lease has lapsed.
MayCharge(s, c) == c = 0 /\ s \in {"sent", "needs_review"}

JobStep(j) ==
  \/ stage'[j] \in Moves(stage[j], charges[j]) /\ charges'[j] = charges[j]
  \/ MayCharge(stage[j], charges[j]) /\ stage'[j] = stage[j] /\ charges'[j] = charges[j] + 1
  \/ stage'[j] = stage[j] /\ charges'[j] = charges[j]

Next ==
  /\ stage'   \in [Jobs -> Stages]
  /\ charges' \in [Jobs -> Nat]
  /\ \A j \in Jobs : JobStep(j)

Spec == Init /\ [][Next]_paidVars

=============================================================================
