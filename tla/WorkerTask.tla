----------------------------- MODULE WorkerTask -----------------------------
(***************************************************************************)
(* app/media_processing_coordinator.cpp, WorkerTask: the background thread *)
(* the coordinator runs melody analysis, loop splitting, the two exports   *)
(* and the provider setup on, one at a time.                               *)
(*                                                                         *)
(* Unlike the two jobs, the end of a run is three separate steps: a locked *)
(* look at the barrier, an unlocked look at the cancel flag, and a locked  *)
(* store of the completion.  A cancellation can be accepted between any    *)
(* two of them.  A run has a contract: all of them publish a file behind   *)
(* the barrier, except the provider setup, which has nothing to publish.   *)
(***************************************************************************)

VARIABLES
  active,           \* activity_ holds a task
  cancellable,      \* its flags
  cancelling,
  commitStarted,    \* the run passed the barrier
  cancelRequested,  \* the flag the operation polls
  contract,         \* completionContract of the run
  completion,       \* outcome in completion_, "None" when empty
  handle,           \* worker_ is joinable
  worker,           \* the worker thread's place
  result,           \* the outcome run() is carrying to the store
  published,        \* the run's output is in place
  signalled,        \* changed_ and the owner's wake event
  owner             \* the owner thread: "idle", or its place in a call

vars == <<active, cancellable, cancelling, commitStarted, cancelRequested,
          contract, completion, handle, worker, result, published, signalled,
          owner>>

activity == <<active, cancellable, cancelling>>

Outcomes == {"Succeeded", "Failed", "Cancelled"}
Contracts == {"RequiresPublishedOutput", "NoPublishedOutput"}

Init ==
  /\ active = FALSE
  /\ cancellable = FALSE
  /\ cancelling = FALSE
  /\ commitStarted = FALSE
  /\ cancelRequested = FALSE
  /\ contract = "None"
  /\ completion = "None"
  /\ handle = FALSE
  /\ worker = "none"
  /\ result = "None"
  /\ published = FALSE
  /\ signalled = FALSE
  /\ owner = "idle"

-----------------------------------------------------------------------------
(* Starting *)

\* tryStart(), joinFinished(): a finished worker's handle is moved out.
JoinFinished ==
  /\ owner = "idle"
  /\ IF ~active /\ handle
       THEN handle' = FALSE /\ owner' = "start_join"
       ELSE owner' = "start" /\ UNCHANGED handle
  /\ UNCHANGED <<activity, commitStarted, cancelRequested, contract,
                 completion, worker, result, published, signalled>>

Startable == ~active /\ completion = "None"

RefuseStart ==
  /\ owner = "start"
  /\ ~Startable
  /\ owner' = "idle"
  /\ UNCHANGED <<activity, commitStarted, cancelRequested, contract,
                 completion, handle, worker, result, published, signalled>>

\* A slip of StartWorker: commitStarted_ keeps the last run's value.
StartWorkerStillCommitted ==
  /\ owner = "start"
  /\ Startable
  /\ cancelRequested' = FALSE
  /\ active' = TRUE /\ cancellable' = TRUE /\ cancelling' = FALSE
  /\ contract' \in Contracts
  /\ handle' = TRUE
  /\ worker' = "working"
  /\ result' = "None"
  /\ published' = FALSE
  /\ owner' = IF handle THEN "terminated" ELSE "notify"
  /\ UNCHANGED <<commitStarted, completion, signalled>>

\* Every task starts cancellable.  Assigning a new thread over a joinable
\* handle terminates the program.
StartWorker ==
  /\ owner = "start"
  /\ Startable
  /\ cancelRequested' = FALSE
  /\ commitStarted' = FALSE
  /\ active' = TRUE /\ cancellable' = TRUE /\ cancelling' = FALSE
  /\ contract' \in Contracts
  /\ handle' = TRUE
  /\ worker' = "working"
  /\ result' = "None"
  /\ published' = FALSE
  /\ owner' = IF handle THEN "terminated" ELSE "notify"
  /\ UNCHANGED <<completion, signalled>>

\* The thread constructor throws: accepted, and failed at once.
StartFails ==
  /\ owner = "start"
  /\ Startable
  /\ cancelRequested' = FALSE
  /\ commitStarted' = FALSE
  /\ active' = FALSE /\ cancellable' = FALSE /\ cancelling' = FALSE
  /\ contract' \in Contracts
  /\ completion' = "Failed"
  /\ published' = FALSE
  /\ owner' = "notify"
  /\ UNCHANGED <<handle, worker, result, signalled>>

\* notifyChanged() at the end of tryStart() or requestCancel().
Notify ==
  /\ owner \in {"notify", "close_notify"}
  /\ signalled' = TRUE
  /\ owner' = IF owner = "notify" THEN "idle" ELSE "close"
  /\ UNCHANGED <<activity, commitStarted, cancelRequested, contract,
                 completion, handle, worker, result, published>>

-----------------------------------------------------------------------------
(* Cancelling, polling and destroying *)

\* requestCancel(), accepted: the task is there, cancellable and not yet
\* cancelling.
AcceptCancel ==
  /\ active /\ cancellable /\ ~cancelling
  /\ cancelling' = TRUE
  /\ cancellable' = FALSE
  /\ cancelRequested' = TRUE
  /\ UNCHANGED active

RequestCancel ==
  /\ owner = "idle"
  /\ AcceptCancel
  /\ owner' = "notify"
  /\ UNCHANGED <<commitStarted, contract, completion, handle, worker, result,
                 published, signalled>>

\* poll(): the signal is consumed before the completion is looked for.
ConsumeChanged ==
  /\ owner = "idle"
  /\ signalled
  /\ signalled' = FALSE
  /\ owner' = "take"
  /\ UNCHANGED <<activity, commitStarted, cancelRequested, contract,
                 completion, handle, worker, result, published>>

\* takeCompletion(): from poll(), or alone before a start.
TakeCompletion ==
  /\ owner \in {"idle", "take"}
  /\ completion' = "None"
  /\ IF completion # "None" /\ ~active /\ handle
       THEN handle' = FALSE /\ owner' = "take_join"
       ELSE owner' = "idle" /\ UNCHANGED handle
  /\ UNCHANGED <<activity, commitStarted, cancelRequested, contract, worker,
                 result, published, signalled>>

\* ~WorkerTask() and Coordinator::shutdown(): cancelAndJoin().
BeginDestruction ==
  /\ owner = "idle"
  /\ \/ AcceptCancel /\ owner' = "close_notify"
     \/ /\ ~(active /\ cancellable /\ ~cancelling)
        /\ owner' = "close"
        /\ UNCHANGED <<activity, cancelRequested>>
  /\ UNCHANGED <<commitStarted, contract, completion, handle, worker, result,
                 published, signalled>>

\* cancelAndJoin(): the handle is moved out, running or not.
TakeHandle ==
  /\ owner = "close"
  /\ handle' = FALSE
  /\ owner' = IF handle THEN "close_join" ELSE "gone"
  /\ UNCHANGED <<activity, commitStarted, cancelRequested, contract,
                 completion, worker, result, published, signalled>>

\* The join of a moved-out handle returns once the thread has exited.
Join ==
  /\ owner \in {"start_join", "take_join", "close_join"}
  /\ worker = "exited"
  /\ worker' = "none"
  /\ owner' = IF owner = "start_join" THEN "start"
              ELSE IF owner = "take_join" THEN "idle" ELSE "gone"
  /\ UNCHANGED <<activity, commitStarted, cancelRequested, contract,
                 completion, handle, result, published, signalled>>

Owner ==
  \/ JoinFinished
  \/ RefuseStart
  \/ StartWorker
  \/ StartFails
  \/ Notify
  \/ RequestCancel
  \/ ConsumeChanged
  \/ TakeCompletion
  \/ BeginDestruction
  \/ TakeHandle
  \/ Join

-----------------------------------------------------------------------------
(* The operation, on the worker thread *)

\* updateProgress() raises the signal while there is an activity.
ReportProgress ==
  /\ worker \in {"working", "publishing"}
  /\ active
  /\ signalled' = TRUE
  /\ UNCHANGED <<activity, commitStarted, cancelRequested, contract,
                 completion, handle, worker, result, published, owner>>

\* The operation returns or throws without the barrier, and may claim a
\* success.  Only the provider setup reports Cancelled itself, and only when
\* it saw the flag.
ReturnUnpublished ==
  /\ worker = "working"
  /\ \/ result' \in {"Succeeded", "Failed"}
     \/ /\ contract = "NoPublishedOutput"
        /\ cancelRequested
        /\ result' = "Cancelled"
  /\ worker' = "contract"
  /\ UNCHANGED <<activity, commitStarted, cancelRequested, contract,
                 completion, handle, published, signalled, owner>>

\* A slip of BeginCommit: the cancellation is not asked for.
BeginCommitUnasked ==
  /\ worker = "working"
  /\ contract = "RequiresPublishedOutput"
  /\ cancellable' = FALSE
  /\ commitStarted' = TRUE
  /\ worker' = "granted"
  /\ UNCHANGED <<active, cancelling, cancelRequested, contract, completion,
                 handle, result, published, signalled, owner>>

\* beginCommit(): the barrier; refused, the operation returns a failure.  The
\* provider setup is not given the barrier.
BeginCommit ==
  /\ worker = "working"
  /\ contract = "RequiresPublishedOutput"
  /\ IF active /\ ~cancelling /\ ~cancelRequested
       THEN /\ cancellable' = FALSE
            /\ commitStarted' = TRUE
            /\ worker' = "granted"
            /\ UNCHANGED result
       ELSE /\ result' = "Failed"
            /\ worker' = "contract"
            /\ UNCHANGED <<cancellable, commitStarted>>
  /\ UNCHANGED <<active, cancelling, cancelRequested, contract, completion,
                 handle, published, signalled, owner>>

NotifyCommit ==
  /\ worker = "granted"
  /\ signalled' = TRUE
  /\ worker' = "publishing"
  /\ UNCHANGED <<activity, commitStarted, cancelRequested, contract,
                 completion, handle, result, published, owner>>

\* The staged files replace the old ones, or the publication fails.
Publish ==
  /\ worker = "publishing"
  /\ result' \in {"Succeeded", "Failed"}
  /\ published' = (result' = "Succeeded")
  /\ worker' = "contract"
  /\ UNCHANGED <<activity, commitStarted, cancelRequested, contract,
                 completion, handle, signalled, owner>>

-----------------------------------------------------------------------------
(* The end of run() *)

\* A slip of CheckContract: a claimed success is taken for one.
CheckContractTrusting ==
  /\ worker = "contract"
  /\ worker' = "cancel_test"
  /\ UNCHANGED <<activity, commitStarted, cancelRequested, contract,
                 completion, handle, result, published, signalled, owner>>

\* A success that never passed the barrier is none, under a contract that
\* requires it.
CheckContract ==
  /\ worker = "contract"
  /\ result' = IF /\ result = "Succeeded"
                  /\ ~commitStarted
                  /\ contract = "RequiresPublishedOutput"
                 THEN "Failed" ELSE result
  /\ worker' = "cancel_test"
  /\ UNCHANGED <<activity, commitStarted, cancelRequested, contract,
                 completion, handle, published, signalled, owner>>

\* A slip of TestCancel: a success is reported as cancelled too.
TestCancelAlways ==
  /\ worker = "cancel_test"
  /\ result' = IF cancelRequested \/ ~cancellable THEN "Cancelled" ELSE result
  /\ worker' = "store"
  /\ UNCHANGED <<activity, commitStarted, cancelRequested, contract,
                 completion, handle, published, signalled, owner>>

\* The flag is read without the mutex: what it says may change before the
\* completion is stored.
TestCancel ==
  /\ worker = "cancel_test"
  /\ result' = IF cancelRequested /\ result # "Succeeded" THEN "Cancelled"
                                                          ELSE result
  /\ worker' = "store"
  /\ UNCHANGED <<activity, commitStarted, cancelRequested, contract,
                 completion, handle, published, signalled, owner>>

StoreCompletion ==
  /\ worker = "store"
  /\ completion' = result
  /\ active' = FALSE /\ cancellable' = FALSE /\ cancelling' = FALSE
  /\ worker' = "notify"
  /\ UNCHANGED <<commitStarted, cancelRequested, contract, handle, result,
                 published, signalled, owner>>

\* A slip of NotifyFinish: the thread ends without a signal.
ExitSilently ==
  /\ worker = "notify"
  /\ worker' = "exited"
  /\ UNCHANGED <<activity, commitStarted, cancelRequested, contract,
                 completion, handle, result, published, signalled, owner>>

NotifyFinish ==
  /\ worker = "notify"
  /\ signalled' = TRUE
  /\ worker' = "exited"
  /\ UNCHANGED <<activity, commitStarted, cancelRequested, contract,
                 completion, handle, result, published, owner>>

EndOfRun == CheckContract \/ TestCancel \/ StoreCompletion \/ NotifyFinish

Next ==
  \/ Owner
  \/ ReportProgress
  \/ ReturnUnpublished
  \/ BeginCommit
  \/ NotifyCommit
  \/ Publish
  \/ EndOfRun

Spec == Init /\ [][Next]_vars

CancelledRunEnds == cancelRequested /\ (ReturnUnpublished \/ BeginCommit)
RunGoesOn == NotifyCommit \/ Publish \/ EndOfRun
CallGoesOn ==
  RefuseStart \/ StartWorker \/ StartFails \/ Notify \/ TakeHandle \/ Join
PollGoesOn == owner = "take" /\ TakeCompletion

\* As for the two jobs: an operation polls its flag and returns once it is
\* up; the rest of the worker runs on, and so does a call the owner entered.
\* The owner's loop polls on every turn: SF.
Fairness ==
  /\ WF_vars(CancelledRunEnds)
  /\ WF_vars(RunGoesOn)
  /\ WF_vars(CallGoesOn)
  /\ SF_vars(ConsumeChanged)
  /\ WF_vars(PollGoesOn)

FairSpec == Spec /\ Fairness

-----------------------------------------------------------------------------
(* Properties *)

WorkerPlaces ==
  {"none", "working", "granted", "publishing", "contract", "cancel_test",
   "store", "notify", "exited"}

JoinPlaces == {"start_join", "take_join", "close_join"}

OwnerPlaces ==
  JoinPlaces \cup {"idle", "start", "notify", "take", "close_notify", "close",
                   "gone"}

\* Every variable keeps to its values, and std::terminate is never reached:
\* the owner has no place "terminated".
TypeOK ==
  /\ active \in BOOLEAN
  /\ cancellable \in BOOLEAN
  /\ cancelling \in BOOLEAN
  /\ commitStarted \in BOOLEAN
  /\ cancelRequested \in BOOLEAN
  /\ contract \in Contracts \cup {"None"}
  /\ completion \in Outcomes \cup {"None"}
  /\ handle \in BOOLEAN
  /\ worker \in WorkerPlaces
  /\ result \in Outcomes \cup {"None"}
  /\ published \in BOOLEAN
  /\ signalled \in BOOLEAN
  /\ owner \in OwnerPlaces

\* The outcome tells the truth about the disk, although the barrier, the flag
\* and the store are looked at apart: a run that had to publish is reported
\* as succeeded exactly when it did, and the setup never publishes.
OutcomeMatchesOutput ==
  completion # "None" =>
    (published <=> /\ completion = "Succeeded"
                   /\ contract = "RequiresPublishedOutput")

\* A cancellation that requestCancel() accepted keeps the run from the
\* barrier and from publishing, and a run that passed it accepts none.
AcceptedCancelHolds ==
  cancelRequested => ~commitStarted /\ ~published

\* Cancelled is never reported to a user who did not ask for it.
CancelledWasAsked == completion = "Cancelled" => cancelRequested

\* A thread that exists is reachable: by the member or by a call joining it.
\* A start never meets a joinable handle, which would terminate the program.
ThreadIsOwned ==
  /\ worker # "none" <=> handle \/ owner \in JoinPlaces
  /\ owner = "start" /\ Startable => ~handle

\* The worker task keeps the promise of a background job, with the outcomes
\* its unlocked look at the flag leaves open to a cancelled run: Failed, when
\* the cancellation was accepted after that look, and Succeeded, when the run
\* has nothing to publish.
Lifecycle == INSTANCE JobLifecycle WITH
  CancelledRunMayEnd <- Outcomes,
  BarrierRequired <- FALSE,
  phase <- IF ~active THEN "Idle"
           ELSE IF cancelling THEN "Cancelling"
           ELSE IF commitStarted THEN "Publishing" ELSE "Running",
  outcome <- completion

KeepsLifecycle == Lifecycle!Spec

\* A run that was cancelled or is past its barrier ends, and its completion
\* is taken by the owner unless the owner destroys the task.
CompletionIsTaken ==
  (active /\ ~cancellable) \/ completion # "None" ~>
    (~active /\ completion = "None") \/ owner = "gone"

=============================================================================
