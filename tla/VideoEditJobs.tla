---------------------------- MODULE VideoEditJobs ----------------------------
(***************************************************************************)
(* The two background jobs of the video editor, the edit review            *)
(* (playback/video/analysis/scene_analysis_job.cpp) and the export         *)
(* (playback/video/edit/export.cpp), on the worker thread of               *)
(* core/pumpable_worker_thread.cpp, and the playback session that starts,  *)
(* cancels, polls and stops them (playback/session/video_edit_workspace.cpp*)
(* and shutdown_sequence.cpp).                                             *)
(*                                                                         *)
(* A completion is handed out only when its thread has exited, which is    *)
(* some time after the thread signalled its end.  The session sleeps on    *)
(* the jobs' common wake event and on the exit of their threads.  What is  *)
(* published and drawn, and each job's changed signal, which only asks for *)
(* a redraw, are left out.                                                 *)
(***************************************************************************)

VARIABLES
  state,       \* state.state of each job
  cancelled,   \* the flag each operation polls
  completion,  \* outcome in the completion optional, "None" when empty
  thread,      \* each worker thread, "none" when it is not joinable
  wake,        \* the workspace's wake event, which both jobs notify
  owner        \* the session's thread

vars == <<state, cancelled, completion, thread, wake, owner>>

Jobs == {"review", "export"}
Outcomes == {"Succeeded", "Failed", "Cancelled"}

Busy(j) == state[j] \in {"Running", "Pausing"}

Init ==
  /\ state = [j \in Jobs |-> "Idle"]
  /\ cancelled = [j \in Jobs |-> FALSE]
  /\ completion = [j \in Jobs |-> "None"]
  /\ thread = [j \in Jobs |-> "none"]
  /\ wake = FALSE
  /\ owner = "turn"

-----------------------------------------------------------------------------
(* The session: starting and cancelling *)

\* A slip of Startable: a completion nobody took is overlooked.
StartableUntaken(j) == ~Busy(j) /\ thread[j] = "none"

Startable(j) == ~Busy(j) /\ completion[j] = "None" /\ thread[j] = "none"

\* start(): the job is running before its thread is.
Start(j) ==
  /\ owner = "turn"
  /\ Startable(j)
  /\ cancelled' = [cancelled EXCEPT ![j] = FALSE]
  /\ state' = [state EXCEPT ![j] = "Running"]
  /\ thread' = [thread EXCEPT ![j] = "working"]
  /\ wake' = TRUE
  /\ UNCHANGED <<completion, owner>>

\* The thread constructor throws.
StartFails(j) ==
  /\ owner = "turn"
  /\ Startable(j)
  /\ cancelled' = [cancelled EXCEPT ![j] = FALSE]
  /\ state' = [state EXCEPT ![j] = "Failed"]
  /\ completion' = [completion EXCEPT ![j] = "Failed"]
  /\ wake' = TRUE
  /\ UNCHANGED <<thread, owner>>

\* cancel(): only the review has a state of its own for it.
Cancel(j) ==
  /\ owner = "turn"
  /\ state[j] = "Running"
  /\ ~cancelled[j]
  /\ cancelled' = [cancelled EXCEPT ![j] = TRUE]
  /\ state' = [state EXCEPT ![j] = IF j = "review" THEN "Pausing" ELSE @]
  /\ wake' = TRUE
  /\ UNCHANGED <<completion, thread, owner>>

-----------------------------------------------------------------------------
(* The session: sleeping and polling *)

Sleep ==
  /\ owner = "turn"
  /\ owner' = "asleep"
  /\ UNCHANGED <<state, cancelled, completion, thread, wake>>

\* A slip of Activity: the session sleeps on the wake event alone.
ActivityOfSignalOnly == wake

\* activityWaitHandles(): the event, and the handle of every joinable thread.
Activity == wake \/ \E j \in Jobs : thread[j] = "exited"

Wake ==
  /\ owner = "asleep"
  /\ Activity
  /\ owner' = "poll"
  /\ UNCHANGED <<state, cancelled, completion, thread, wake>>

\* Input, a deadline or another handle of the session wakes it as well.
OtherWake ==
  /\ owner = "asleep"
  /\ owner' = "poll"
  /\ UNCHANGED <<state, cancelled, completion, thread, wake>>

\* poll(): the event is consumed before the completions are looked for.
ConsumeWake ==
  /\ owner = "poll"
  /\ wake' = FALSE
  /\ owner' = "take_export"
  /\ UNCHANGED <<state, cancelled, completion, thread>>

\* A slip of Finished: a completion is taken from a thread still running.
FinishedBeforeExit(j) == completion[j] # "None" \/ thread[j] = "none"

\* PumpableWorkerThread::ready(): no thread, or its handle is signalled.
Finished(j) == thread[j] \in {"none", "exited"}

\* takeCompletion(): joins the thread first, or leaves everything as it is.
TakeFrom(j) ==
  /\ thread' = [thread EXCEPT ![j] = IF Finished(j) THEN "none" ELSE @]
  /\ completion' = [completion EXCEPT ![j] = IF Finished(j) THEN "None" ELSE @]

TakeExport ==
  /\ owner = "take_export"
  /\ TakeFrom("export")
  /\ owner' = "take_review"
  /\ UNCHANGED <<state, cancelled, wake>>

TakeReview ==
  /\ owner = "take_review"
  /\ TakeFrom("review")
  /\ owner' = "turn"
  /\ UNCHANGED <<state, cancelled, wake>>

\* startExport(): a completed export is applied before a new one is started.
TakeBeforeExport ==
  /\ owner = "turn"
  /\ state["export"] # "Running"
  /\ TakeFrom("export")
  /\ UNCHANGED <<state, cancelled, wake, owner>>

-----------------------------------------------------------------------------
(* The session: stopping *)

\* A slip of RequestStop: the export is not told.
RequestStopOfReview ==
  /\ owner = "turn"
  /\ cancelled' = [cancelled EXCEPT !["review"] = TRUE]
  /\ wake' = TRUE
  /\ owner' = "stopping"
  /\ UNCHANGED <<state, completion, thread>>

\* beginShutdown(): requestStop() raises the flags, running or not, and
\* leaves the states alone.
RequestStop ==
  /\ owner = "turn"
  /\ cancelled' = [j \in Jobs |-> TRUE]
  /\ wake' = TRUE
  /\ owner' = "stopping"
  /\ UNCHANGED <<state, completion, thread>>

\* finishStop(), behind stopReady() of both: the threads are joined without
\* blocking, and a job still busy would be cancelled here.
FinishStop ==
  /\ owner = "stopping"
  /\ \A j \in Jobs : Finished(j)
  /\ thread' = [j \in Jobs |-> "none"]
  /\ state' = [j \in Jobs |-> IF Busy(j) THEN "Cancelled" ELSE state[j]]
  /\ owner' = "stopped"
  /\ UNCHANGED <<cancelled, completion, wake>>

Owner ==
  \/ \E j \in Jobs : Start(j) \/ StartFails(j) \/ Cancel(j)
  \/ Sleep
  \/ Wake
  \/ OtherWake
  \/ ConsumeWake
  \/ TakeExport
  \/ TakeReview
  \/ TakeBeforeExport
  \/ RequestStop
  \/ FinishStop

-----------------------------------------------------------------------------
(* The worker threads *)

\* updateProgress(): only of a run that nobody pauses.
ReportProgress(j) ==
  /\ thread[j] = "working"
  /\ state[j] = "Running"
  /\ wake' = TRUE
  /\ UNCHANGED <<state, cancelled, completion, thread, owner>>

\* A slip of OutcomeOf: a cancelled run is reported as failed.
OutcomeBlind(j, succeeded) == IF succeeded THEN "Succeeded" ELSE "Failed"

\* A success stands even when it was cancelled; a failure under a cancellation
\* is the cancellation.  (What the export's pipeline itself calls cancelled has
\* seen the same flag, which only the next start lowers.)
OutcomeOf(j, succeeded) ==
  IF succeeded THEN "Succeeded"
  ELSE IF cancelled[j] THEN "Cancelled" ELSE "Failed"

\* run(): the operation is over, and one locked section says how.
End(j) ==
  /\ thread[j] = "working"
  /\ \E succeeded \in BOOLEAN :
       /\ state' = [state EXCEPT ![j] = OutcomeOf(j, succeeded)]
       /\ completion' = [completion EXCEPT ![j] = OutcomeOf(j, succeeded)]
  /\ thread' = [thread EXCEPT ![j] = "notify"]
  /\ UNCHANGED <<cancelled, wake, owner>>

\* notifyChanged(), after the unlock and before the thread is gone.
NotifyEnd(j) ==
  /\ thread[j] = "notify"
  /\ thread' = [thread EXCEPT ![j] = "ending"]
  /\ wake' = TRUE
  /\ UNCHANGED <<state, cancelled, completion, owner>>

Exit(j) ==
  /\ thread[j] = "ending"
  /\ thread' = [thread EXCEPT ![j] = "exited"]
  /\ UNCHANGED <<state, cancelled, completion, wake, owner>>

Worker(j) == ReportProgress(j) \/ End(j) \/ NotifyEnd(j) \/ Exit(j)

Next == Owner \/ \E j \in Jobs : Worker(j)

Spec == Init /\ [][Next]_vars

CancelledEnds(j) == cancelled[j] /\ End(j)

\* A thread runs on once its operation is over, and an operation is over some
\* time after it was cancelled.  The session finishes its turns: it sleeps
\* again whatever it was asked to do, and wakes when a handle is signalled.
WorkersGoOn ==
  \A j \in Jobs :
    /\ WF_vars(CancelledEnds(j))
    /\ WF_vars(NotifyEnd(j))
    /\ WF_vars(Exit(j))

SessionGoesOn ==
  Sleep \/ Wake \/ ConsumeWake \/ TakeExport \/ TakeReview \/ FinishStop

Fairness == WorkersGoOn /\ WF_vars(SessionGoesOn)

FairSpec == Spec /\ Fairness

-----------------------------------------------------------------------------
(* Properties *)

TypeOK ==
  /\ state \in [Jobs -> {"Idle", "Running", "Pausing"} \cup Outcomes]
  /\ cancelled \in [Jobs -> BOOLEAN]
  /\ completion \in [Jobs -> {"None"} \cup Outcomes]
  /\ thread \in [Jobs -> {"none", "working", "notify", "ending", "exited"}]
  /\ wake \in BOOLEAN
  /\ owner \in {"turn", "asleep", "poll", "take_export", "take_review",
                "stopping", "stopped"}

\* A job is busy exactly while its operation runs, so the branch of
\* finishStop() that cancels a busy job is never needed; and a completion
\* belongs to the run whose outcome the snapshot shows.
BusyMeansWorking ==
  \A j \in Jobs :
    /\ Busy(j) <=> thread[j] = "working"
    /\ completion[j] # "None" => completion[j] = state[j]

\* Each job keeps the promise of a background job, with nothing published
\* behind a barrier: no run starts over a completion nobody took, and one
\* that was cancelled ends as cancelled or succeeded and never as failed.
Phase(j) == IF ~Busy(j) THEN "Idle"
            ELSE IF cancelled[j] THEN "Cancelling" ELSE "Running"

Review == INSTANCE JobLifecycle WITH
  CancelledRunMayEnd <- {"Cancelled", "Succeeded"},
  BarrierRequired <- FALSE,
  phase <- Phase("review"), outcome <- completion["review"],
  published <- FALSE

Export == INSTANCE JobLifecycle WITH
  CancelledRunMayEnd <- {"Cancelled", "Succeeded"},
  BarrierRequired <- FALSE,
  phase <- Phase("export"), outcome <- completion["export"],
  published <- FALSE

KeepsLifecycle == Review!Spec /\ Export!Spec

\* Every completion is taken while the session runs, although the wake event
\* may be consumed before the thread that raised it has exited.
CompletionIsTaken ==
  \A j \in Jobs :
    completion[j] # "None" ~> completion[j] = "None" \/ owner = "stopped"

\* A session that asked its jobs to stop comes to its end.
StopFinishes == owner = "stopping" ~> owner = "stopped"

=============================================================================
