----------------------------- MODULE MCWorkers -----------------------------
(***************************************************************************)
(* The five pairs of an owner and its worker thread, side by side for TLC: *)
(* the latest-request worker, the transcript job, the coordinator's task,  *)
(* the two jobs of the video editor and the window of the playback session.*)
(* They share nothing, so a behaviour is one of any of them: "which" is    *)
(* chosen at the start and the others never move.  The task is taken with  *)
(* the theorems about it.                                                  *)
(***************************************************************************)
EXTENDS LatestRequestWorker

CONSTANT MaxTransitions

VARIABLES
  which,
  jobState, jobCancelRequested, jobCompletion, jobHandle, jobWorker, jobOk,
  jobPublished, jobSignalled, jobOwner,
  active, cancellable, cancelling, commitStarted, taskCancelRequested,
  contract, taskCompletion, taskHandle, taskWorker, result, taskPublished,
  taskSignalled, taskOwner,
  editState, cancelled, editCompletion, editThread, editWake, editOwner,
  desired, applied, failing, session, asked, lifecycle, threadState, changed,
  windowWake, accepting, queueReady, item, purpose, windowThread, broken

Transcript == INSTANCE GenerationJob WITH
  state <- jobState, cancelRequested <- jobCancelRequested,
  completion <- jobCompletion, handle <- jobHandle, worker <- jobWorker,
  ok <- jobOk, published <- jobPublished, signalled <- jobSignalled,
  owner <- jobOwner

Task == INSTANCE WorkerTaskProofs WITH
  cancelRequested <- taskCancelRequested, completion <- taskCompletion,
  handle <- taskHandle, worker <- taskWorker, published <- taskPublished,
  signalled <- taskSignalled, owner <- taskOwner

Edits == INSTANCE VideoEditJobs WITH
  state <- editState, completion <- editCompletion, thread <- editThread,
  wake <- editWake, owner <- editOwner

Window == INSTANCE WindowPresentation WITH
  wake <- windowWake, ready <- queueReady, thread <- windowThread

-----------------------------------------------------------------------------

MCInit ==
  /\ which \in {"latest", "transcript", "task", "edits", "window"}
  /\ Init
  /\ Transcript!Init
  /\ Task!Init
  /\ Edits!Init
  /\ Window!Init
  /\ which # "window" => desired = "terminal"

jobVars == <<jobState, jobCancelRequested, jobCompletion, jobHandle, jobWorker,
             jobOk, jobPublished, jobSignalled, jobOwner>>
taskVars == <<active, cancellable, cancelling, commitStarted,
              taskCancelRequested, contract, taskCompletion, taskHandle,
              taskWorker, result, taskPublished, taskSignalled, taskOwner>>
editVars == <<editState, cancelled, editCompletion, editThread, editWake,
              editOwner>>
windowVars == <<desired, applied, failing, session, asked, lifecycle,
                threadState, changed, windowWake, accepting, queueReady, item,
                purpose, windowThread, broken>>
allVars == <<which, vars, jobVars, taskVars, editVars, windowVars>>

OthersRest ==
  /\ UNCHANGED which
  /\ which # "latest" => UNCHANGED vars
  /\ which # "transcript" => UNCHANGED jobVars
  /\ which # "task" => UNCHANGED taskVars
  /\ which # "edits" => UNCHANGED editVars
  /\ which # "window" => UNCHANGED windowVars

MCNext ==
  \/ which = "latest" /\ Next /\ OthersRest
  \/ which = "transcript" /\ Transcript!Next /\ OthersRest
  \/ which = "task" /\ Task!Next /\ OthersRest
  \/ which = "edits" /\ Edits!Next /\ OthersRest
  \/ which = "window" /\ Window!Next /\ OthersRest

-----------------------------------------------------------------------------
(* The fairness each module states, for the one that moves; nothing the two *)
(* jobs' fairness is about is enabled in one that rests.                    *)

LatestFairness ==
  /\ WF_vars(which = "latest" /\ WorkerStep)
  /\ WF_vars(which = "latest" /\ Notify)
  /\ WF_vars(which = "latest" /\ Join)

EditsFairness ==
  /\ Edits!WorkersGoOn
  /\ WF_editVars(which = "edits" /\ Edits!SessionGoesOn)

WindowFairness ==
  /\ WF_windowVars(which = "window" /\ Window!Wake)
  /\ WF_windowVars(which = "window" /\ Window!Synchronize)
  /\ WF_windowVars(which = "window" /\ Window!Sleep)
  /\ WF_windowVars(which = "window" /\ Window!SessionGoesOn)
  /\ WF_windowVars(which = "window" /\ Window!WindowGoesOn)

MCSpec ==
  /\ MCInit /\ [][MCNext]_allVars
  /\ LatestFairness
  /\ Transcript!Fairness
  /\ Task!Fairness
  /\ EditsFairness
  /\ WindowFairness

-----------------------------------------------------------------------------
(* Properties: each module's own, those of one kind together *)

\* Every background job keeps the promise of JobLifecycle to its owner: the
\* transcript, the coordinator's task, the edit review and the export.
KeepsLifecycle ==
  /\ Transcript!KeepsLifecycle
  /\ Task!KeepsLifecycle
  /\ Edits!KeepsLifecycle

\* What is reported is what happened: a job's outcome agrees with the disk, a
\* job is busy exactly while its operation runs, and a window that was closed
\* on demand is never taken for one that failed.
OutcomeMatchesOutput ==
  /\ Transcript!OutcomeMatchesOutput
  /\ Task!OutcomeMatchesOutput
  /\ Edits!BusyMeansWorking
  /\ Window!FailureIsReal

\* No completion waits on a signal nobody raises, and none is refused for
\* good because its thread had not quite exited when its signal was consumed.
CompletionIsTaken ==
  /\ Transcript!CompletionIsTaken
  /\ Task!CompletionIsTaken
  /\ Edits!CompletionIsTaken

\* No thread is lost or overwritten: one that exists is reachable for a join,
\* and the window's thread finds its dispatch queue closed and empty.
ThreadIsOwned ==
  /\ Transcript!ThreadIsOwned
  /\ Task!ThreadIsOwned
  /\ Window!QueueOpensEmpty

\* What was asked for last comes about: the newest request is answered, and
\* the window comes to be what the user last chose.
LastRequestSettles ==
  /\ RequestIsAnswered
  /\ Window!PresentationSettles

\* A call across threads returns, and a session that asked its threads to
\* stop sees them stopped.
CallsAndStopsReturn ==
  /\ Window!InvokeReturns
  /\ Window!ShutdownFinishes
  /\ Edits!StopFinishes

=============================================================================
