---------------------------- MODULE JobLifecycle ----------------------------
(***************************************************************************)
(* What a background job promises its owner, whatever threads, locks and   *)
(* signals it is built from.  A job is started, possibly asked to cancel,  *)
(* possibly passes the commit barrier and publishes, and ends in exactly   *)
(* one outcome, which the owner takes before it can start another run.     *)
(*                                                                         *)
(* Three classes of the program keep this promise, each shown by a         *)
(* refinement: the transcript GenerationJob, the audio separation Job and  *)
(* the coordinator's WorkerTask.  They differ in two constants.            *)
(***************************************************************************)

CONSTANTS
  CancelledRunMayEnd,   \* the outcomes open to a run that accepted a cancel
  BarrierRequired       \* whether success takes a passage of the barrier

VARIABLES
  phase,        \* "Idle", "Running", "Cancelling" or "Publishing"
  outcome,      \* the outcome that waits to be taken, "None" when none does
  published     \* the current or last run put its output in place

vars == <<phase, outcome, published>>

Outcomes == {"Succeeded", "Failed", "Cancelled"}

TypeOK ==
  /\ phase \in {"Idle", "Running", "Cancelling", "Publishing"}
  /\ outcome \in Outcomes \cup {"None"}
  /\ published \in BOOLEAN

Init ==
  /\ phase = "Idle"
  /\ outcome = "None"
  /\ published = FALSE

Startable == phase = "Idle" /\ outcome = "None"

Start ==
  /\ Startable
  /\ phase' = "Running"
  /\ published' = FALSE
  /\ UNCHANGED outcome

\* The start is accepted but no thread could be made: a failed run.
StartFails ==
  /\ Startable
  /\ outcome' = "Failed"
  /\ published' = FALSE
  /\ UNCHANGED phase

AcceptCancel ==
  /\ phase = "Running"
  /\ phase' = "Cancelling"
  /\ UNCHANGED <<outcome, published>>

\* The barrier: from here on the run can no longer be cancelled.
PassBarrier ==
  /\ phase = "Running"
  /\ phase' = "Publishing"
  /\ UNCHANGED <<outcome, published>>

Publish ==
  /\ phase = "Publishing"
  /\ published' = TRUE
  /\ UNCHANGED <<phase, outcome>>

\* A run succeeds when it published, or when it had nothing to publish.
MayEnd(o) ==
  \/ phase = "Publishing" /\ o = IF published THEN "Succeeded" ELSE "Failed"
  \/ phase = "Cancelling" /\ o \in CancelledRunMayEnd
  \/ phase = "Running" /\ o = "Failed"
  \/ phase = "Running" /\ ~BarrierRequired /\ o = "Succeeded"

End ==
  \E o \in Outcomes:
    /\ MayEnd(o)
    /\ phase' = "Idle"
    /\ outcome' = o
    /\ UNCHANGED published

Take ==
  /\ outcome # "None"
  /\ outcome' = "None"
  /\ UNCHANGED <<phase, published>>

Next ==
  \/ Start
  \/ StartFails
  \/ AcceptCancel
  \/ PassBarrier
  \/ Publish
  \/ End
  \/ Take

Spec == Init /\ [][Next]_vars
=============================================================================
