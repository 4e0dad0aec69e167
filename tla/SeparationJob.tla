--------------------------- MODULE SeparationJob ---------------------------
(***************************************************************************)
(* audio/separation/job.cpp: one background audio separation that can be   *)
(* paused while video playback owns the GPU, with the operation it runs    *)
(* (separator.cpp, compiled_model_cache.cpp, mask_model.cpp) as a worker   *)
(* that compiles, loads and runs a model between checkpoints.              *)
(*                                                                         *)
(* A section under the job's mutex is one step.  Steps of their own are    *)
(* the unlocked tests of the cancellation flag, the yielding of resources  *)
(* in the middle of a checkpoint, the GPU operation, and what the owner    *)
(* does after an unlock: interrupt, notify_all, signal.  Texts, progress   *)
(* and diagnostics are left out; a progress report is its signal.          *)
(***************************************************************************)
VARIABLES
  state,                \* state.state
  scheduling,           \* state.scheduling
  cancelRequested,      \* atomic flag, read without the mutex
  suspensionRequested,  \* atomic flag, read without the mutex
  completion,           \* outcome in the completion optional, or "None"
  handle,               \* the worker std::thread member is joinable
  worker,               \* the worker thread's place
  after,                \* what follows the checkpoint the worker is in
  operation,            \* the interruptible operation the worker is at
  held,                 \* "model", "lock" (of the compilation) or "nothing"
  interrupted,          \* the operation's local flag
  notified,             \* runCondition was notified since the worker parked
  ok,                   \* what the separation returned
  published,            \* the run's stems are in place
  signalled,            \* changed and ownerWake are signalled
  owner,                \* the owner thread: "idle", or its place in a call
  closing               \* the owner is in the destructor

locked == <<state, scheduling, cancelRequested, suspensionRequested,
            completion>>
progress == <<after, operation, held, interrupted>>
result == <<ok, published>>
calls == <<owner, closing, handle>>

vars == <<locked, progress, result, calls, worker, notified, signalled>>

Outcomes == {"Succeeded", "Failed", "Cancelled"}
ActiveStates == {"Running", "Cancelling", "Publishing"}
Active == state \in ActiveStates

Init ==
  /\ state = "Idle"
  /\ scheduling = "Running"
  /\ cancelRequested = FALSE
  /\ suspensionRequested = FALSE
  /\ completion = "None"
  /\ handle = FALSE
  /\ worker = "none"
  /\ after = "prepare"
  /\ operation = "Load"
  /\ held = "nothing"
  /\ interrupted = FALSE
  /\ notified = FALSE
  /\ ok = FALSE
  /\ published = FALSE
  /\ signalled = FALSE
  /\ owner = "idle"
  /\ closing = FALSE

-----------------------------------------------------------------------------
(* The owner: starting *)

\* tryStart(), first lock: a finished worker's handle is moved out to join.
JoinFinishedWorker ==
  /\ owner = "idle"
  /\ IF ~Active /\ handle
       THEN handle' = FALSE /\ owner' = "start_join"
       ELSE owner' = "start" /\ UNCHANGED handle
  /\ UNCHANGED <<locked, progress, result, closing, worker, notified,
                 signalled>>

Startable == ~Active /\ completion = "None"

RefuseStart ==
  /\ owner = "start"
  /\ ~Startable
  /\ owner' = "idle"
  /\ UNCHANGED <<locked, progress, result, handle, closing, worker, notified,
                 signalled>>

\* The flags and the state tryStart() resets for a run that may start paused.
Reset(initiallyPaused) ==
  /\ cancelRequested' = FALSE
  /\ suspensionRequested' = initiallyPaused
  /\ scheduling' = IF initiallyPaused THEN "Suspended" ELSE "Running"
  /\ published' = FALSE

\* Assigning a new thread over a joinable handle terminates the program.
StartWorker(initiallyPaused) ==
  /\ owner = "start"
  /\ Startable
  /\ Reset(initiallyPaused)
  /\ state' = "Running"
  /\ handle' = TRUE
  /\ worker' = "check"
  /\ after' = "prepare"
  /\ held' = "nothing"
  /\ ok' = FALSE
  /\ owner' = IF handle THEN "terminated" ELSE "notify"
  /\ UNCHANGED <<completion, operation, interrupted, notified, signalled,
                 closing>>

\* The thread constructor throws; the scheduling stays as it was reset.
StartFails(initiallyPaused) ==
  /\ owner = "start"
  /\ Startable
  /\ Reset(initiallyPaused)
  /\ state' = "Failed"
  /\ completion' = "Failed"
  /\ owner' = "notify"
  /\ UNCHANGED <<progress, ok, handle, closing, worker, notified, signalled>>

-----------------------------------------------------------------------------
(* The owner: pausing, resuming and cancelling *)

\* setPaused(true), under the lock.
Pause ==
  /\ owner = "idle"
  /\ state = "Running"
  /\ scheduling = "Running"
  /\ scheduling' = "Suspending"
  /\ suspensionRequested' = TRUE
  /\ owner' = "pause_interrupt"
  /\ UNCHANGED <<state, cancelRequested, completion, progress, result, handle,
                 closing, worker, notified, signalled>>

\* setPaused(false), under the lock.
Resume ==
  /\ owner = "idle"
  /\ state = "Running"
  /\ scheduling # "Running"
  /\ scheduling' = "Running"
  /\ suspensionRequested' = FALSE
  /\ owner' = "resume_wake"
  /\ UNCHANGED <<state, cancelRequested, completion, progress, result, handle,
                 closing, worker, notified, signalled>>

\* requestCancel(), under the lock: a cancelled run is no longer paused.
AcceptCancel ==
  /\ cancelRequested' = TRUE
  /\ state' = "Cancelling"
  /\ scheduling' = "Running"
  /\ suspensionRequested' = FALSE
  /\ UNCHANGED completion

\* requestCancel(), refused without a trace unless the run is cancellable.
RequestCancel ==
  /\ owner = "idle"
  /\ state = "Running"
  /\ AcceptCancel
  /\ owner' = "cancel_interrupt"
  /\ UNCHANGED <<progress, result, handle, closing, worker, notified,
                 signalled>>

\* interruptActiveOperation(): reaches the operation that is registered, which
\* it is for as long as it runs.
InterruptActiveOperation ==
  /\ owner \in {"pause_interrupt", "cancel_interrupt"}
  /\ interrupted' = (interrupted \/ worker = "operate")
  /\ owner' = IF owner = "pause_interrupt" THEN "notify" ELSE "cancel_wake"
  /\ UNCHANGED <<locked, after, operation, held, result, handle, closing,
                 worker, notified, signalled>>

\* A slip of NotifyAll: the condition variable is left alone.
NotifyNobody ==
  /\ owner \in {"resume_wake", "cancel_wake"}
  /\ owner' = "notify"
  /\ UNCHANGED <<locked, progress, result, handle, closing, worker, notified,
                 signalled>>

\* runCondition.notify_all(): wakes a worker that waits, and nobody else.
NotifyAll ==
  /\ owner \in {"resume_wake", "cancel_wake"}
  /\ notified' = (notified \/ worker = "parked")
  /\ owner' = "notify"
  /\ UNCHANGED <<locked, progress, result, handle, closing, worker, signalled>>

\* notifyChanged() at the end of a call.
Notify ==
  /\ owner = "notify"
  /\ signalled' = TRUE
  /\ owner' = IF closing THEN "close" ELSE "idle"
  /\ UNCHANGED <<locked, progress, result, handle, closing, worker, notified>>

-----------------------------------------------------------------------------
(* The owner: polling and destroying *)

\* poll(): the signal is consumed before the completion is looked for.
ConsumeChanged ==
  /\ owner = "idle"
  /\ signalled
  /\ signalled' = FALSE
  /\ owner' = "take"
  /\ UNCHANGED <<locked, progress, result, handle, closing, worker, notified>>

\* takeCompletion(): from poll(), or alone before a start.
TakeCompletion ==
  /\ owner \in {"idle", "take"}
  /\ completion' = "None"
  /\ IF completion # "None" /\ ~Active /\ handle
       THEN handle' = FALSE /\ owner' = "take_join"
       ELSE owner' = "idle" /\ UNCHANGED handle
  /\ UNCHANGED <<state, scheduling, cancelRequested, suspensionRequested,
                 progress, result, closing, worker, notified, signalled>>

\* A slip of BeginDestruction: a paused run is left to its pause.
BeginDestructionWaiting ==
  /\ owner = "idle"
  /\ closing' = TRUE
  /\ owner' = "close"
  /\ UNCHANGED <<locked, progress, result, handle, worker, notified,
                 signalled>>

\* ~Job(): cancelAndJoin() starts with requestCancel().
BeginDestruction ==
  /\ owner = "idle"
  /\ closing' = TRUE
  /\ IF state = "Running"
       THEN AcceptCancel /\ owner' = "cancel_interrupt"
       ELSE owner' = "close" /\ UNCHANGED locked
  /\ UNCHANGED <<progress, result, handle, worker, notified, signalled>>

TakeHandle ==
  /\ owner = "close"
  /\ handle' = FALSE
  /\ owner' = IF handle THEN "close_join" ELSE "gone"
  /\ UNCHANGED <<locked, progress, result, closing, worker, notified,
                 signalled>>

\* The join of a moved-out handle returns once the thread has exited.
Join ==
  /\ owner \in {"start_join", "take_join", "close_join"}
  /\ worker = "exited"
  /\ worker' = "none"
  /\ owner' = IF owner = "start_join" THEN "start"
                ELSE IF owner = "take_join" THEN "idle" ELSE "gone"
  /\ UNCHANGED <<locked, progress, result, handle, closing, notified,
                 signalled>>

-----------------------------------------------------------------------------
(* The worker: checkpoints *)

owned == <<calls, cancelRequested, suspensionRequested, completion>>

\* The checkpoints that pass a callback which gives up what the worker holds.
Yielding == {"compile", "cached", "acquire"}

\* ExecutionControl::checkpoint(): the unlocked look at the flag.
Check ==
  /\ worker = "check"
  /\ worker' = IF cancelRequested THEN "giveup" ELSE "gate"
  /\ UNCHANGED <<owned, state, scheduling, progress, result, notified,
                 signalled>>

Blocked == scheduling # "Running" /\ ~cancelRequested

Passed == IF cancelRequested THEN "giveup" ELSE "continue"

\* The rest of waitUntilRunnable(), under the lock up to the wait.
ParkOrPass ==
  /\ worker' = IF Blocked THEN "parked" ELSE Passed
  /\ scheduling' = IF Blocked THEN "Suspended" ELSE scheduling
  /\ signalled' = (signalled \/ Blocked)
  /\ notified' = FALSE

\* waitUntilRunnable(), first lock: a pause makes the worker yield unlocked.
Gate ==
  /\ worker = "gate"
  /\ IF Blocked /\ after \in Yielding
       THEN /\ worker' = "yield"
            /\ UNCHANGED <<scheduling, signalled, notified>>
       ELSE ParkOrPass
  /\ UNCHANGED <<owned, state, progress, result>>

\* A slip of Yield: the callback keeps what it should give up.
YieldNothing ==
  /\ worker = "yield"
  /\ worker' = "regate"
  /\ UNCHANGED <<locked, calls, progress, result, notified, signalled>>

\* yieldResources(): the model or the compilation lock is given up.
Yield ==
  /\ worker = "yield"
  /\ held' = "nothing"
  /\ worker' = "regate"
  /\ UNCHANGED <<locked, calls, after, operation, interrupted, result,
                 notified, signalled>>

\* waitUntilRunnable(), second lock: the pause may be over by now.
Regate ==
  /\ worker = "regate"
  /\ ParkOrPass
  /\ UNCHANGED <<owned, state, progress, result>>

\* The wait ends for a notification or spuriously; a worker that finds itself
\* still blocked waits on, and says nothing.
Wake ==
  /\ worker = "parked"
  /\ worker' = IF Blocked THEN "parked" ELSE Passed
  /\ notified' = FALSE
  /\ UNCHANGED <<owned, state, scheduling, progress, result, signalled>>

-----------------------------------------------------------------------------
(* The worker: the separation *)

unshared == <<owned, state, scheduling, notified, signalled, published>>

CheckThen(next) == worker' = "check" /\ after' = next

\* A checkpoint was refused, or some step failed: everything is given up.
GiveUp ==
  /\ worker \in {"giveup", "continue", "classify"}
  /\ worker' = "finish"
  /\ held' = "nothing"
  /\ UNCHANGED <<unshared, after, operation, interrupted, ok>>

\* prepareProductionModel(): the cache has the model, another process has the
\* compilation lock, or the worker takes it and looks for a pause before it
\* compiles.
Prepare ==
  /\ worker = "continue"
  /\ after = "prepare"
  /\ \/ CheckThen("acquire") /\ UNCHANGED held
     \/ CheckThen("prepare") /\ UNCHANGED held
     \/ CheckThen("compile") /\ held' = "lock"
  /\ UNCHANGED <<unshared, operation, interrupted, ok>>

\* A slip of Compile: it forgets that the checkpoint may have yielded the lock.
CompileUnlocked ==
  /\ worker = "continue"
  /\ after = "compile"
  /\ worker' = "begin"
  /\ operation' = "Compile"
  /\ UNCHANGED <<unshared, after, held, interrupted, ok>>

\* With the lock yielded the preparation starts over.
Compile ==
  /\ worker = "continue"
  /\ after = "compile"
  /\ IF held = "nothing"
       THEN CheckThen("prepare") /\ UNCHANGED operation
       ELSE worker' = "begin" /\ operation' = "Compile" /\ UNCHANGED after
  /\ UNCHANGED <<unshared, held, interrupted, ok>>

\* The compiled model is published to the cache, and the lock let go; a
\* rebuilt model is loaded without another checkpoint.
PublishCompiled ==
  /\ worker = "continue"
  /\ after = "cached"
  /\ held' = "nothing"
  /\ IF held = "nothing"
       THEN CheckThen("prepare") /\ UNCHANGED operation
       ELSE \/ CheckThen("acquire") /\ UNCHANGED operation
            \/ worker' = "begin" /\ operation' = "Load" /\ UNCHANGED after
  /\ UNCHANGED <<unshared, interrupted, ok>>

\* A slip of Acquire: once loaded, the model is taken to be there.
AcquireOnce ==
  /\ worker = "continue"
  /\ after \in {"acquire", "reload"}
  /\ worker' = "begin"
  /\ operation' = IF held = "nothing" /\ operation # "Run" THEN "Load" ELSE "Run"
  /\ UNCHANGED <<unshared, after, held, interrupted, ok>>

\* acquire(): loads the model unless the worker still holds it; then the next
\* chunk is inferred, or the next checkpoint comes first.
Acquire ==
  /\ worker = "continue"
  /\ after \in {"acquire", "reload"}
  /\ \/ /\ worker' = "begin"
        /\ operation' = IF held = "nothing" THEN "Load" ELSE "Run"
        /\ UNCHANGED after
     \/ /\ held # "nothing"
        /\ CheckThen("acquire")
        /\ UNCHANGED operation
  /\ UNCHANGED <<unshared, held, interrupted, ok>>

\* The unlocked test that an operation makes first.
Begin ==
  /\ worker = "begin"
  /\ worker' = IF cancelRequested THEN "classify" ELSE "register"
  /\ interrupted' = FALSE
  /\ UNCHANGED <<unshared, after, operation, held, ok>>

\* A slip of RegisterInterrupt: a request that came before is not looked for.
RegisterOnly ==
  /\ worker = "register"
  /\ worker' = "operate"
  /\ UNCHANGED <<unshared, progress, ok>>

\* registerInterrupt(): a request that came before interrupts at once.
RegisterInterrupt ==
  /\ worker = "register"
  /\ interrupted' = (cancelRequested \/ suspensionRequested)
  /\ worker' = "operate"
  /\ UNCHANGED <<unshared, after, operation, held, ok>>

\* The GPU is done, by itself or for the interrupt; the interrupt is released.
EndOperation ==
  /\ worker = "operate"
  /\ worker' = "classify"
  /\ UNCHANGED <<unshared, progress, ok>>

\* A cancelled operation ends the separation (GiveUp); an interrupted one goes
\* back to a checkpoint: without the lock, without a model, or yielding it.
Interrupted ==
  /\ worker = "classify"
  /\ interrupted
  /\ \/ operation = "Compile" /\ CheckThen("prepare") /\ held' = "nothing"
     \/ operation = "Load" /\ CheckThen("reload") /\ UNCHANGED held
     \/ operation = "Run" /\ CheckThen("acquire") /\ UNCHANGED held
  /\ UNCHANGED <<unshared, operation, interrupted, ok>>

Completed ==
  /\ worker = "classify"
  /\ ~interrupted
  /\ ~cancelRequested
  /\ \/ /\ operation = "Compile"
        /\ CheckThen("cached")
        /\ UNCHANGED <<operation, held>>
     \/ /\ operation = "Load"
        /\ held' = "model"
        /\ \/ worker' = "begin" /\ operation' = "Run" /\ UNCHANGED after
           \/ CheckThen("acquire") /\ UNCHANGED operation
     \/ /\ operation = "Run"
        /\ \/ CheckThen("acquire") /\ UNCHANGED held
           \/ CheckThen("finalize") /\ held' = "nothing"
        /\ UNCHANGED operation
  /\ UNCHANGED <<unshared, interrupted, ok>>

\* A cached model that does not load is rebuilt once: the preparation again.
Rebuild ==
  /\ worker = "classify"
  /\ ~interrupted
  /\ ~cancelRequested
  /\ operation = "Load"
  /\ CheckThen("prepare")
  /\ UNCHANGED <<unshared, operation, held, interrupted, ok>>

\* updateProgress() raises the signal of the run it belongs to.
ReportProgress ==
  /\ worker \in {"continue", "publishing"}
  /\ Active
  /\ signalled' = TRUE
  /\ UNCHANGED <<locked, calls, progress, result, worker, notified>>

-----------------------------------------------------------------------------
(* The worker: publishing and finishing *)

\* A slip of BeginCommit: it does not ask.
BeginCommitUnasked ==
  /\ worker = "continue"
  /\ after = "finalize"
  /\ state' = "Publishing"
  /\ scheduling' = "Running"
  /\ suspensionRequested' = FALSE
  /\ worker' = "granted"
  /\ UNCHANGED <<calls, cancelRequested, completion, progress, result,
                 notified, signalled>>

\* beginCommit(): the barrier ends pausing as well as cancelling.
BeginCommit ==
  /\ worker = "continue"
  /\ after = "finalize"
  /\ IF state = "Running" /\ ~cancelRequested
       THEN /\ state' = "Publishing"
            /\ scheduling' = "Running"
            /\ suspensionRequested' = FALSE
            /\ worker' = "granted"
       ELSE /\ worker' = "finish"
            /\ UNCHANGED <<state, scheduling, suspensionRequested>>
  /\ UNCHANGED <<calls, cancelRequested, completion, progress, result,
                 notified, signalled>>

NotifyCommit ==
  /\ worker = "granted"
  /\ signalled' = TRUE
  /\ worker' = "publishing"
  /\ UNCHANGED <<locked, calls, progress, result, notified>>

\* The stems are put in place together, or the publication fails.
Publish ==
  /\ worker = "publishing"
  /\ ok' \in BOOLEAN
  /\ published' = ok'
  /\ worker' = "finish"
  /\ UNCHANGED <<locked, calls, progress, notified, signalled>>

\* finish(): a success that skipped the barrier is none.
Succeeds == ok /\ state = "Publishing"

Outcome ==
  IF Succeeds THEN "Succeeded" ELSE IF cancelRequested THEN "Cancelled"
                                                       ELSE "Failed"

Finish ==
  /\ worker = "finish"
  /\ state' = Outcome
  /\ completion' = Outcome
  /\ scheduling' = "Running"
  /\ suspensionRequested' = FALSE
  /\ worker' = "notify"
  /\ UNCHANGED <<calls, cancelRequested, progress, result, notified,
                 signalled>>

NotifyFinish ==
  /\ worker = "notify"
  /\ signalled' = TRUE
  /\ worker' = "exited"
  /\ UNCHANGED <<locked, calls, progress, result, notified>>

-----------------------------------------------------------------------------
(* The job *)

OwnerCall ==
  \/ RefuseStart
  \/ \E initiallyPaused \in BOOLEAN : \/ StartWorker(initiallyPaused)
                                      \/ StartFails(initiallyPaused)
  \/ InterruptActiveOperation
  \/ NotifyAll
  \/ Notify
  \/ TakeHandle
  \/ Join

Owner ==
  \/ JoinFinishedWorker
  \/ Pause
  \/ Resume
  \/ RequestCancel
  \/ ConsumeChanged
  \/ TakeCompletion
  \/ BeginDestruction
  \/ OwnerCall

WorkerStep ==
  \/ Check
  \/ Gate
  \/ Yield
  \/ Regate
  \/ GiveUp
  \/ Prepare
  \/ Compile
  \/ PublishCompiled
  \/ Acquire
  \/ Begin
  \/ RegisterInterrupt
  \/ Interrupted
  \/ Completed
  \/ Rebuild
  \/ BeginCommit
  \/ NotifyCommit
  \/ Publish
  \/ Finish
  \/ NotifyFinish

Next == Owner \/ WorkerStep \/ Wake \/ EndOperation \/ ReportProgress

Spec == Init /\ [][Next]_vars

InterruptedOperationEnds == interrupted /\ EndOperation
NotifiedWorkerWakes == notified /\ Wake
PollGoesOn == owner = "take" /\ TakeCompletion

\* A GPU operation may run for as long as it likes, but ends once it is
\* interrupted; a worker that waits comes back once it is notified; all other
\* steps of the worker, and a call the owner entered, go on.  The owner's loop
\* polls on every turn, whatever it does between two polls, so a signal that
\* stays up is consumed: SF.  Nothing obliges the owner to anything else.
Fairness ==
  /\ WF_vars(WorkerStep)
  /\ WF_vars(InterruptedOperationEnds)
  /\ WF_vars(NotifiedWorkerWakes)
  /\ WF_vars(OwnerCall)
  /\ SF_vars(ConsumeChanged)
  /\ WF_vars(PollGoesOn)

FairSpec == Spec /\ Fairness

-----------------------------------------------------------------------------
(* Properties *)

InJoin == owner \in {"start_join", "take_join", "close_join"}

\* Every variable keeps to its values, and std::terminate is never reached:
\* the owner has no place "terminated".
TypeOK ==
  /\ state \in {"Idle"} \cup ActiveStates \cup Outcomes
  /\ scheduling \in {"Running", "Suspending", "Suspended"}
  /\ cancelRequested \in BOOLEAN
  /\ suspensionRequested \in BOOLEAN
  /\ completion \in {"None"} \cup Outcomes
  /\ handle \in BOOLEAN
  /\ worker \in {"none", "check", "gate", "yield", "regate", "parked",
                 "continue", "giveup", "begin", "register", "operate",
                 "classify", "granted", "publishing", "finish", "notify",
                 "exited"}
  /\ after \in {"prepare", "compile", "cached", "acquire", "reload",
                "finalize"}
  /\ operation \in {"Compile", "Load", "Run"}
  /\ held \in {"nothing", "lock", "model"}
  /\ interrupted \in BOOLEAN
  /\ notified \in BOOLEAN
  /\ ok \in BOOLEAN
  /\ published \in BOOLEAN
  /\ signalled \in BOOLEAN
  /\ owner \in {"idle", "start_join", "start", "pause_interrupt",
                "resume_wake", "cancel_interrupt", "cancel_wake", "notify",
                "take", "take_join", "close", "close_join", "gone"}
  /\ closing \in BOOLEAN

\* The outcome tells the truth about the disk: a run reported as succeeded
\* has published, one reported as cancelled or failed has not.
OutcomeMatchesOutput ==
  completion # "None" => (published <=> completion = "Succeeded")

\* A cancellation that requestCancel() accepted holds: that run publishes
\* nothing and cannot pass the barrier any more.
AcceptedCancelHolds ==
  cancelRequested =>
    /\ ~published
    /\ state \in {"Cancelling", "Cancelled"}

\* What foreground playback waits for: while the job calls itself suspended,
\* its worker is at no GPU operation and holds neither the model nor the lock
\* that another process needs to compile it.
SuspendedHoldsNothing ==
  state = "Running" /\ scheduling = "Suspended" =>
    /\ held = "nothing"
    /\ worker # "operate"

\* A pause or a cancellation reaches the operation at work, whichever of the
\* two threads comes first: it is interrupted, or the owner is about to.
RequestInterrupts ==
  worker = "operate" /\ (cancelRequested \/ suspensionRequested) =>
    interrupted \/ owner \in {"pause_interrupt", "cancel_interrupt"}

\* A worker that may run does not sleep on: it was notified, or will be.
ParkedIsWoken ==
  worker = "parked" /\ ~Blocked =>
    notified \/ owner \in {"resume_wake", "cancel_interrupt", "cancel_wake"}

\* No signal between the threads is lost: neither the interrupt of an operation
\* that is to yield or to end, nor the wake-up of a worker that may go on.
NoSignalIsLost == RequestInterrupts /\ ParkedIsWoken

\* No inference on a model that a checkpoint yielded, no compilation without
\* the lock: the worker looks again at what it holds after every wait.
OperationHasItsResource ==
  worker \in {"begin", "register", "operate"} =>
    /\ operation = "Compile" => held = "lock"
    /\ operation = "Load" => held = "nothing"
    /\ operation = "Run" => held = "model"

\* The flag that interrupts operations agrees with the state the owner reads,
\* and a run that is cancelled, publishing or over is not paused.
SuspensionFlagAgrees ==
  /\ suspensionRequested <=> scheduling # "Running"
  /\ scheduling # "Running" => state \in {"Running", "Failed"}

\* A thread that exists is reachable: by the member or by a call joining it.
\* A start never meets a joinable handle, which would terminate the program.
ThreadIsOwned ==
  /\ worker # "none" <=> handle \/ InJoin
  /\ owner = "start" /\ Startable => ~handle

\* The job keeps the promise every background job makes.
Lifecycle == INSTANCE JobLifecycle WITH
  CancelledRunMayEnd <- {"Cancelled"},
  BarrierRequired <- TRUE,
  phase <- IF Active THEN state ELSE "Idle",
  outcome <- completion

KeepsLifecycle == Lifecycle!Spec

\* The destructor returns, however long the operation would have run.
DestructorReturns == closing ~> owner = "gone"

\* A separation that was cancelled or is past its barrier ends, whatever the
\* leases do, and its completion is taken unless the job is destroyed.
CompletionIsTaken ==
  state \in {"Cancelling", "Publishing"} \/ completion # "None" ~>
    (~Active /\ completion = "None") \/ owner = "gone"

=============================================================================
