--------------------------- MODULE GenerationJob ---------------------------
(***************************************************************************)
(* playback/video/transcript/generation_job.cpp: one background transcript *)
(* generation, its worker thread and the owner thread that starts, cancels,*)
(* polls and destroys it.                                                  *)
(*                                                                         *)
(* A section under the job's mutex is one step; a join, a signal after an  *)
(* unlock and the operation itself are steps of their own.  The operation  *)
(* is a parameter of the class, so the worker may do what its type allows: *)
(* give up at any time, ask for the commit barrier and publish behind it,  *)
(* or claim a success it never published.  Progress and texts are left     *)
(* out; a progress report is the signal it raises.                         *)
(***************************************************************************)

VARIABLES
  state,            \* state.state
  cancelRequested,  \* the flag the operation polls
  completion,       \* outcome in the completion optional, "None" when empty
  handle,           \* the worker std::thread member is joinable
  worker,           \* the worker thread's place
  ok,               \* what the operation returned
  published,        \* the run's transcript is in place
  signalled,        \* changed and ownerWake are signalled
  owner             \* the owner thread: "idle", or its place in a call

vars == <<state, cancelRequested, completion, handle, worker, ok, published,
          signalled, owner>>

Outcomes == {"Succeeded", "Failed", "Cancelled"}
ActiveStates == {"Running", "Cancelling", "Publishing"}
Running == state \in ActiveStates

Init ==
  /\ state = "Idle"
  /\ cancelRequested = FALSE
  /\ completion = "None"
  /\ handle = FALSE
  /\ worker = "none"
  /\ ok = FALSE
  /\ published = FALSE
  /\ signalled = FALSE
  /\ owner = "idle"

-----------------------------------------------------------------------------
(* Starting *)

\* tryStart(), first lock: a finished worker's handle is moved out to join.
JoinFinishedWorker ==
  /\ owner = "idle"
  /\ IF ~Running /\ handle
       THEN handle' = FALSE /\ owner' = "start_join"
       ELSE owner' = "start" /\ UNCHANGED handle
  /\ UNCHANGED <<state, cancelRequested, completion, worker, ok, published,
                 signalled>>

Startable == ~Running /\ completion = "None"

\* tryStart(), second lock: refused while a run or its completion is there.
RefuseStart ==
  /\ owner = "start"
  /\ ~Startable
  /\ owner' = "idle"
  /\ UNCHANGED <<state, cancelRequested, completion, handle, worker, ok,
                 published, signalled>>

\* A slip of StartWorker: the last run's flag stays up.
StartWorkerStillCancelled ==
  /\ owner = "start"
  /\ Startable
  /\ state' = "Running"
  /\ handle' = TRUE
  /\ worker' = "working"
  /\ ok' = FALSE
  /\ published' = FALSE
  /\ owner' = IF handle THEN "terminated" ELSE "notify"
  /\ UNCHANGED <<cancelRequested, completion, signalled>>

\* Assigning a new thread over a joinable handle terminates the program.
StartWorker ==
  /\ owner = "start"
  /\ Startable
  /\ cancelRequested' = FALSE
  /\ state' = "Running"
  /\ handle' = TRUE
  /\ worker' = "working"
  /\ ok' = FALSE
  /\ published' = FALSE
  /\ owner' = IF handle THEN "terminated" ELSE "notify"
  /\ UNCHANGED <<completion, signalled>>

\* The thread constructor throws: accepted, and failed at once.
StartFails ==
  /\ owner = "start"
  /\ Startable
  /\ cancelRequested' = FALSE
  /\ state' = "Failed"
  /\ completion' = "Failed"
  /\ published' = FALSE
  /\ owner' = "notify"
  /\ UNCHANGED <<handle, worker, ok, signalled>>

\* notifyChanged() at the end of tryStart() or requestCancel().
Notify ==
  /\ owner \in {"notify", "close_notify"}
  /\ signalled' = TRUE
  /\ owner' = IF owner = "notify" THEN "idle" ELSE "close"
  /\ UNCHANGED <<state, cancelRequested, completion, handle, worker, ok,
                 published>>

-----------------------------------------------------------------------------
(* Cancelling, polling and destroying *)

\* A slip of Cancellable: a run behind its barrier can be cancelled too.
CancellablePastBarrier == state \in {"Running", "Publishing"}

Cancellable == state = "Running"

\* requestCancel(), refused without a trace unless the run is cancellable.
RequestCancel ==
  /\ owner = "idle"
  /\ Cancellable
  /\ cancelRequested' = TRUE
  /\ state' = "Cancelling"
  /\ owner' = "notify"
  /\ UNCHANGED <<completion, handle, worker, ok, published, signalled>>

\* poll(): the signal is consumed before the completion is looked for.
ConsumeChanged ==
  /\ owner = "idle"
  /\ signalled
  /\ signalled' = FALSE
  /\ owner' = "take"
  /\ UNCHANGED <<state, cancelRequested, completion, handle, worker, ok,
                 published>>

\* takeCompletion(): from poll(), or alone before a start.
TakeCompletion ==
  /\ owner \in {"idle", "take"}
  /\ completion' = "None"
  /\ IF completion # "None" /\ ~Running /\ handle
       THEN handle' = FALSE /\ owner' = "take_join"
       ELSE owner' = "idle" /\ UNCHANGED handle
  /\ UNCHANGED <<state, cancelRequested, worker, ok, published, signalled>>

\* ~GenerationJob(): cancelAndJoin() starts with requestCancel().
BeginDestruction ==
  /\ owner = "idle"
  /\ IF Cancellable
       THEN /\ cancelRequested' = TRUE
            /\ state' = "Cancelling"
            /\ owner' = "close_notify"
       ELSE owner' = "close" /\ UNCHANGED <<state, cancelRequested>>
  /\ UNCHANGED <<completion, handle, worker, ok, published, signalled>>

\* A slip of TakeHandle: the thread is let go instead of joined.
DetachHandle ==
  /\ owner = "close"
  /\ handle' = FALSE
  /\ owner' = "gone"
  /\ UNCHANGED <<state, cancelRequested, completion, worker, ok, published,
                 signalled>>

\* cancelAndJoin(): the handle is moved out, running or not.
TakeHandle ==
  /\ owner = "close"
  /\ handle' = FALSE
  /\ owner' = IF handle THEN "close_join" ELSE "gone"
  /\ UNCHANGED <<state, cancelRequested, completion, worker, ok, published,
                 signalled>>

\* The join of a moved-out handle returns once the thread has exited.
Join ==
  /\ owner \in {"start_join", "take_join", "close_join"}
  /\ worker = "exited"
  /\ worker' = "none"
  /\ owner' = CASE owner = "start_join" -> "start"
                [] owner = "take_join" -> "idle"
                [] owner = "close_join" -> "gone"
  /\ UNCHANGED <<state, cancelRequested, completion, handle, ok, published,
                 signalled>>

Owner ==
  \/ JoinFinishedWorker
  \/ RefuseStart
  \/ StartWorker
  \/ StartFails
  \/ Notify
  \/ RequestCancel
  \/ ConsumeChanged
  \/ TakeCompletion
  \/ BeginDestruction
  \/ TakeHandle
  \/ Join

-----------------------------------------------------------------------------
(* The worker thread *)

\* updateProgress() raises the signal; the run it belongs to is active.
ReportProgress ==
  /\ worker \in {"working", "publishing"}
  /\ Running
  /\ signalled' = TRUE
  /\ UNCHANGED <<state, cancelRequested, completion, handle, worker, ok,
                 published, owner>>

\* The operation returns without the barrier, whatever it then claims.
ReturnUnpublished ==
  /\ worker = "working"
  /\ worker' = "finish"
  /\ ok' \in BOOLEAN
  /\ UNCHANGED <<state, cancelRequested, completion, handle, published,
                 signalled, owner>>

\* A slip of BeginCommit: it asks neither the state nor the flag.
BeginCommitUnasked ==
  /\ worker = "working"
  /\ state' = "Publishing"
  /\ worker' = "granted"
  /\ UNCHANGED <<cancelRequested, completion, handle, ok, published,
                 signalled, owner>>

\* beginCommit(): the barrier; refused, the operation returns false.
BeginCommit ==
  /\ worker = "working"
  /\ IF state = "Running" /\ ~cancelRequested
       THEN state' = "Publishing" /\ worker' = "granted"
       ELSE worker' = "finish" /\ UNCHANGED state
  /\ UNCHANGED <<cancelRequested, completion, handle, ok, published,
                 signalled, owner>>

NotifyCommit ==
  /\ worker = "granted"
  /\ signalled' = TRUE
  /\ worker' = "publishing"
  /\ UNCHANGED <<state, cancelRequested, completion, handle, ok, published,
                 owner>>

\* The transcript replaces the old one, or the publication fails.
Publish ==
  /\ worker = "publishing"
  /\ ok' \in BOOLEAN
  /\ published' = ok'
  /\ worker' = "finish"
  /\ UNCHANGED <<state, cancelRequested, completion, handle, signalled, owner>>

\* finish(): a success that skipped the barrier is none.
Succeeds == ok /\ state = "Publishing"

Outcome ==
  IF Succeeds THEN "Succeeded" ELSE IF cancelRequested THEN "Cancelled"
                                                       ELSE "Failed"

Finish ==
  /\ worker = "finish"
  /\ state' = Outcome
  /\ completion' = Outcome
  /\ worker' = "notify"
  /\ UNCHANGED <<cancelRequested, handle, ok, published, signalled, owner>>

\* A slip of NotifyFinish: the thread ends without a signal.
ExitSilently ==
  /\ worker = "notify"
  /\ worker' = "exited"
  /\ UNCHANGED <<state, cancelRequested, completion, handle, ok, published,
                 signalled, owner>>

NotifyFinish ==
  /\ worker = "notify"
  /\ signalled' = TRUE
  /\ worker' = "exited"
  /\ UNCHANGED <<state, cancelRequested, completion, handle, ok, published,
                 owner>>

WorkerStep ==
  \/ ReturnUnpublished
  \/ BeginCommit
  \/ NotifyCommit
  \/ Publish
  \/ Finish
  \/ NotifyFinish

Next == Owner \/ ReportProgress \/ WorkerStep

Spec == Init /\ [][Next]_vars

CancelledRunEnds == cancelRequested /\ (ReturnUnpublished \/ BeginCommit)
RunGoesOn == NotifyCommit \/ Publish \/ Finish \/ NotifyFinish
CallGoesOn ==
  RefuseStart \/ StartWorker \/ StartFails \/ Notify \/ TakeHandle \/ Join
PollGoesOn == owner = "take" /\ TakeCompletion

\* An operation may run for hours, but polls its flag and returns once it is
\* up; the rest of the worker runs on, and so does a call the owner entered.
\* The owner's loop polls on every turn, whatever commands it handles between
\* two polls, so a signal that stays up is consumed: SF.  Nothing obliges the
\* owner to start, cancel or destroy.
Fairness ==
  /\ WF_vars(CancelledRunEnds)
  /\ WF_vars(RunGoesOn)
  /\ WF_vars(CallGoesOn)
  /\ SF_vars(ConsumeChanged)
  /\ WF_vars(PollGoesOn)

FairSpec == Spec /\ Fairness

-----------------------------------------------------------------------------
(* Properties *)

OwnerPlaces ==
  {"idle", "start_join", "start", "notify", "take", "take_join",
   "close_notify", "close", "close_join", "gone"}

\* Every variable keeps to its values, and std::terminate is never reached:
\* the owner has no place "terminated".
TypeOK ==
  /\ state \in {"Idle"} \cup ActiveStates \cup Outcomes
  /\ cancelRequested \in BOOLEAN
  /\ completion \in {"None"} \cup Outcomes
  /\ handle \in BOOLEAN
  /\ worker \in {"none", "working", "granted", "publishing", "finish",
                 "notify", "exited"}
  /\ ok \in BOOLEAN
  /\ published \in BOOLEAN
  /\ signalled \in BOOLEAN
  /\ owner \in OwnerPlaces

\* The outcome tells the truth about the disk: a run reported as succeeded
\* has published, one reported as cancelled or failed has not.
OutcomeMatchesOutput ==
  completion # "None" => (published <=> completion = "Succeeded")

\* A cancellation that requestCancel() accepted holds: that run publishes
\* nothing and cannot pass the barrier any more.
AcceptedCancelHolds ==
  cancelRequested =>
    /\ ~published
    /\ state \in {"Cancelling", "Cancelled"}

\* A thread that exists is reachable: by the member or by a call joining it.
\* A start never meets a joinable handle, which would terminate the program.
ThreadIsOwned ==
  /\ worker # "none" <=>
       handle \/ owner \in {"start_join", "take_join", "close_join"}
  /\ owner = "start" /\ Startable => ~handle

\* The job keeps the promise every background job makes.
Lifecycle == INSTANCE JobLifecycle WITH
  CancelledRunMayEnd <- {"Cancelled"},
  BarrierRequired <- TRUE,
  phase <- IF Running THEN state ELSE "Idle",
  outcome <- completion

KeepsLifecycle == Lifecycle!Spec

\* A run that was cancelled or is past its barrier ends, and its completion
\* is taken by the owner unless the owner destroys the job: no completion
\* waits on a signal nobody raises.
CompletionIsTaken ==
  state \in {"Cancelling", "Publishing"} \/ completion # "None" ~>
    (~Running /\ completion = "None") \/ owner = "gone"

=============================================================================
