------------------------- MODULE MCMediaCoordinator -------------------------
(***************************************************************************)
(* The coordinator for TLC: its calls over three abstract workers, and the *)
(* leases that pause the separation, over the whole of that job, for what  *)
(* they owe in the end (module MCPlayback has what they never do).  Which  *)
(* of the two a behaviour shows is chosen at the start and the other one   *)
(* never moves.                                                            *)
(***************************************************************************)
EXTENDS MediaCoordinator

CONSTANT Leases

VARIABLES
  side,
  sepState, scheduling, sepCancelRequested, suspensionRequested,
  sepCompletion, sepHandle, sepWorker, after, sepOperation, held, interrupted,
  notified, sepOk, sepPublished, sepSignalled, sepOwner, closing, leases,
  granted, subtitles

Playback == INSTANCE InteractivePlayback WITH
  state <- sepState, cancelRequested <- sepCancelRequested,
  completion <- sepCompletion, handle <- sepHandle, worker <- sepWorker,
  operation <- sepOperation, ok <- sepOk, published <- sepPublished,
  signalled <- sepSignalled, owner <- sepOwner

\* Every kind of task.  Two tasks are enough for a stale id, for a completion
\* that meets the next request, for a transcript after an export, and for a
\* redundant setup that makes the binding worse.
AllKinds == {"export", "setup", "subtitles", "separation"}
TwoTasks == 2

-----------------------------------------------------------------------------

leaseVars == <<sepState, scheduling, sepCancelRequested, suspensionRequested,
               sepCompletion, sepHandle, sepWorker, after, sepOperation, held,
               interrupted, notified, sepOk, sepPublished, sepSignalled,
               sepOwner, closing, leases, granted, subtitles>>

MCInit ==
  /\ side \in {"requests", "leases"}
  /\ Init
  /\ Playback!LeaseInit
  /\ side = "leases" => binding = "Ready"

MCNext ==
  \/ side = "requests" /\ Next /\ UNCHANGED <<side, leaseVars>>
  \/ side = "leases" /\ Playback!LeaseNext /\ UNCHANGED <<side, vars>>

\* Nothing that either fairness is about is enabled on the side that rests.
MCSpec ==
  /\ MCInit /\ [][MCNext]_<<side, vars, leaseVars>>
  /\ Fairness
  /\ Playback!Fairness

-----------------------------------------------------------------------------
(* Properties *)

\* What the owner asks of its workers is done: the coordinator's shutdown returns,
\* as does the destructor of the job; under a lease a separation parks with
\* nothing held, after the last one it goes on, and its completion is taken.
CallsTakeEffect ==
  /\ ShutdownReturns
  /\ Playback!PausesTakeEffect
  /\ Playback!DestructorReturns
  /\ Playback!CompletionIsTaken
=============================================================================
