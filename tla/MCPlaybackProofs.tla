-------------------------- MODULE MCPlaybackProofs --------------------------
(***************************************************************************)
(* Proofs about playback and the work it interrupts, in three parts.       *)
(*                                                                         *)
(* The separation job: the inductive invariant of the job's mutex, its two *)
(* unlocked flags and its condition variable, the safety properties that   *)
(* follow from it, and that it implements JobLifecycle.                    *)
(*                                                                         *)
(* The leases that pause it: foreground playback owns the GPU, for any     *)
(* number of leases.  What InteractivePlaybackLease::ready() promises when *)
(* it lets playback start stays true until that lease is released.  The    *)
(* invariant joins the job's, kept by every step of InteractivePlayback    *)
(* because it is a step or a stutter of the job, to what leases, pause and *)
(* worker know of each other.                                              *)
(*                                                                         *)
(* The shell and its sessions: the handoff workflow, the lease and the     *)
(* session agree, a quit is last and edits are kept, for any numbers of    *)
(* sessions, requests, drops and edited states.  Every handler of the      *)
(* shell is an operator from a state to the states it may leave behind;    *)
(* each has a lemma that says so of one call, and a step is a composition  *)
(* of handlers.                                                            *)
(***************************************************************************)
EXTENDS MCPlayback, Naturals, Sequences, TLAPS

-----------------------------------------------------------------------------
(* The separation job *)

InCheckpoint == {"check", "gate", "yield", "regate", "parked", "continue"}
InOperation == {"begin", "register", "operate", "classify"}

\* Where the worker is tells what the state may be.
WorkerAgrees ==
  /\ worker \in InCheckpoint \cup InOperation \cup {"giveup"} =>
       state \in {"Running", "Cancelling"}
  /\ worker \in {"granted", "publishing"} => state = "Publishing"
  /\ worker = "finish" => Active
  /\ worker \in {"none", "notify", "exited"} => ~Active

\* The flag is up exactly in the states that follow an accepted cancel.
FlagAgrees == cancelRequested <=> state \in {"Cancelling", "Cancelled"}

\* Only a run behind the barrier has published, and it says so.
OutputAgrees ==
  published <=> \/ state = "Succeeded"
                \/ state = "Publishing" /\ worker = "finish" /\ ok

\* A waiting completion is the terminal state of the last run.
CompletionAgrees == completion # "None" => completion = state

\* Nobody joins a thread that is still the member's.
HandleAgrees ==
  /\ handle => ~InJoin
  /\ owner \in {"start_join", "take_join"} => ~Active
  /\ owner = "take_join" => completion = "None"

SignalAgrees ==
  completion # "None" /\ owner \in {"idle", "start_join", "start"} =>
    signalled \/ worker = "notify"

\* What each checkpoint may find in the worker's hands; behind the yield it
\* is nothing.
HeldAgrees ==
  /\ worker \in InCheckpoint =>
       /\ after \in {"prepare", "reload", "finalize"} => held = "nothing"
       /\ after \in {"compile", "cached"} => held # "model"
       /\ after = "acquire" => held # "lock"
  /\ worker \in {"regate", "parked"} => held = "nothing"
  /\ worker \in InOperation =>
       /\ operation = "Compile" => held = "lock"
       /\ operation = "Load" => held = "nothing"
       /\ operation = "Run" => held = "model"

\* A suspended run's worker is parked, or has not passed its first checkpoint.
SuspendedIsParked ==
  state = "Running" /\ scheduling = "Suspended" =>
    \/ worker = "parked"
    \/ worker \in {"check", "gate"} /\ after = "prepare"

\* The two halves of the type invariant: the provers take them one by one.
PlacesOK ==
  /\ state \in {"Idle"} \cup ActiveStates \cup Outcomes
  /\ scheduling \in {"Running", "Suspending", "Suspended"}
  /\ completion \in {"None"} \cup Outcomes
  /\ worker \in {"none", "check", "gate", "yield", "regate", "parked",
                 "continue", "giveup", "begin", "register", "operate",
                 "classify", "granted", "publishing", "finish", "notify",
                 "exited"}
  /\ after \in {"prepare", "compile", "cached", "acquire", "reload",
                "finalize"}
  /\ operation \in {"Compile", "Load", "Run"}
  /\ held \in {"nothing", "lock", "model"}
  /\ owner \in {"idle", "start_join", "start", "pause_interrupt",
                "resume_wake", "cancel_interrupt", "cancel_wake", "notify",
                "take", "take_join", "close", "close_join", "gone"}

FlagsOK ==
  /\ cancelRequested \in BOOLEAN
  /\ suspensionRequested \in BOOLEAN
  /\ handle \in BOOLEAN
  /\ interrupted \in BOOLEAN
  /\ notified \in BOOLEAN
  /\ ok \in BOOLEAN
  /\ published \in BOOLEAN
  /\ signalled \in BOOLEAN
  /\ closing \in BOOLEAN

IInv ==
  /\ TypeOK
  /\ WorkerAgrees
  /\ FlagAgrees
  /\ SuspensionFlagAgrees
  /\ OutputAgrees
  /\ CompletionAgrees
  /\ HandleAgrees
  /\ ThreadIsOwned
  /\ SignalAgrees
  /\ HeldAgrees
  /\ SuspendedIsParked
  /\ RequestInterrupts
  /\ ParkedIsWoken

\* A job as it is constructed.
LEMMA Initially == Init => IInv
BY DEF Init, IInv, ActiveStates, Outcomes, Active, InJoin, Startable, Blocked,
       InCheckpoint, InOperation, TypeOK, WorkerAgrees, FlagAgrees,
       SuspensionFlagAgrees, OutputAgrees, CompletionAgrees, HandleAgrees,
       ThreadIsOwned, SignalAgrees, HeldAgrees, SuspendedIsParked,
       RequestInterrupts, ParkedIsWoken

\* Every step of the owner and of the worker, in any order, keeps IInv.
LEMMA StepKeeps == IInv /\ [Next]_vars => IInv'
<1> SUFFICES ASSUME IInv, [Next]_vars PROVE IInv'
  OBVIOUS
<1> USE DEF IInv, ActiveStates, Outcomes, Active, InJoin, Startable, Blocked,
            InCheckpoint, InOperation,
            TypeOK, WorkerAgrees, FlagAgrees, SuspensionFlagAgrees,
            OutputAgrees, CompletionAgrees, HandleAgrees, ThreadIsOwned,
            SignalAgrees, HeldAgrees, SuspendedIsParked, RequestInterrupts,
            ParkedIsWoken
<1> USE DEF locked, progress, result, calls, owned, unshared, CheckThen
<1>1. CASE JoinFinishedWorker
  <2>1. TypeOK'
    <3>1. FlagsOK'
      BY <1>1 DEF JoinFinishedWorker, FlagsOK
    <3>2. PlacesOK'
      BY <1>1 DEF JoinFinishedWorker, PlacesOK
    <3> QED
      BY <3>1, <3>2 DEF FlagsOK, PlacesOK
  <2>2. (WorkerAgrees /\ FlagAgrees /\ SuspensionFlagAgrees)'
    BY <1>1 DEF JoinFinishedWorker
  <2>3. (OutputAgrees /\ CompletionAgrees)'
    BY <1>1 DEF JoinFinishedWorker
  <2>4. (HandleAgrees /\ ThreadIsOwned /\ SignalAgrees)'
    BY <1>1 DEF JoinFinishedWorker
  <2>5. (HeldAgrees /\ SuspendedIsParked)'
    BY <1>1 DEF JoinFinishedWorker
  <2>6. (RequestInterrupts /\ ParkedIsWoken)'
    BY <1>1 DEF JoinFinishedWorker
  <2> QED
    BY <2>1, <2>2, <2>3, <2>4, <2>5, <2>6 DEF IInv
<1>2. CASE RefuseStart
  BY <1>2 DEF RefuseStart
<1>3. ASSUME NEW p \in BOOLEAN, StartWorker(p) PROVE IInv'
  BY <1>3 DEF StartWorker, Reset
<1>4. ASSUME NEW p \in BOOLEAN, StartFails(p) PROVE IInv'
  <2>1. TypeOK'
    <3>1. FlagsOK'
      BY <1>4 DEF StartFails, Reset, FlagsOK
    <3>2. PlacesOK'
      BY <1>4 DEF StartFails, Reset, PlacesOK
    <3> QED
      BY <3>1, <3>2 DEF FlagsOK, PlacesOK
  <2>2. (WorkerAgrees /\ FlagAgrees /\ SuspensionFlagAgrees)'
    BY <1>4 DEF StartFails, Reset
  <2>3. (OutputAgrees /\ CompletionAgrees)'
    BY <1>4 DEF StartFails, Reset
  <2>4. (HandleAgrees /\ ThreadIsOwned /\ SignalAgrees)'
    BY <1>4 DEF StartFails, Reset
  <2>5. (HeldAgrees /\ SuspendedIsParked)'
    BY <1>4 DEF StartFails, Reset
  <2>6. (RequestInterrupts /\ ParkedIsWoken)'
    BY <1>4 DEF StartFails, Reset
  <2> QED
    BY <2>1, <2>2, <2>3, <2>4, <2>5, <2>6 DEF IInv
<1>5. CASE Pause
  BY <1>5 DEF Pause
<1>6. CASE Resume
  <2>1. TypeOK'
    <3>1. FlagsOK'
      BY <1>6 DEF Resume, FlagsOK
    <3>2. PlacesOK'
      BY <1>6 DEF Resume, PlacesOK
    <3> QED
      BY <3>1, <3>2 DEF FlagsOK, PlacesOK
  <2>2. (WorkerAgrees /\ FlagAgrees /\ SuspensionFlagAgrees)'
    BY <1>6 DEF Resume
  <2>3. (OutputAgrees /\ CompletionAgrees)'
    BY <1>6 DEF Resume
  <2>4. (HandleAgrees /\ ThreadIsOwned /\ SignalAgrees)'
    BY <1>6 DEF Resume
  <2>5. (HeldAgrees /\ SuspendedIsParked)'
    BY <1>6 DEF Resume
  <2>6. (RequestInterrupts /\ ParkedIsWoken)'
    BY <1>6 DEF Resume
  <2> QED
    BY <2>1, <2>2, <2>3, <2>4, <2>5, <2>6 DEF IInv
<1>7. CASE RequestCancel
  <2>1. TypeOK'
    <3>1. FlagsOK'
      BY <1>7 DEF RequestCancel, AcceptCancel, FlagsOK
    <3>2. PlacesOK'
      BY <1>7 DEF RequestCancel, AcceptCancel, PlacesOK
    <3> QED
      BY <3>1, <3>2 DEF FlagsOK, PlacesOK
  <2>2. (WorkerAgrees /\ FlagAgrees /\ SuspensionFlagAgrees)'
    BY <1>7 DEF RequestCancel, AcceptCancel
  <2>3. (OutputAgrees /\ CompletionAgrees)'
    BY <1>7 DEF RequestCancel, AcceptCancel
  <2>4. (HandleAgrees /\ ThreadIsOwned /\ SignalAgrees)'
    BY <1>7 DEF RequestCancel, AcceptCancel
  <2>5. (HeldAgrees /\ SuspendedIsParked)'
    BY <1>7 DEF RequestCancel, AcceptCancel
  <2>6. (RequestInterrupts /\ ParkedIsWoken)'
    BY <1>7 DEF RequestCancel, AcceptCancel
  <2> QED
    BY <2>1, <2>2, <2>3, <2>4, <2>5, <2>6 DEF IInv
<1>8. CASE InterruptActiveOperation
  BY <1>8 DEF InterruptActiveOperation
<1>9. CASE NotifyAll
  BY <1>9 DEF NotifyAll
<1>10. CASE Notify
  BY <1>10 DEF Notify
<1>11. CASE ConsumeChanged
  <2>1. TypeOK'
    <3>1. FlagsOK'
      BY <1>11 DEF ConsumeChanged, FlagsOK
    <3>2. PlacesOK'
      BY <1>11 DEF ConsumeChanged, PlacesOK
    <3> QED
      BY <3>1, <3>2 DEF FlagsOK, PlacesOK
  <2>2. (WorkerAgrees /\ FlagAgrees /\ SuspensionFlagAgrees)'
    BY <1>11 DEF ConsumeChanged
  <2>3. (OutputAgrees /\ CompletionAgrees)'
    BY <1>11 DEF ConsumeChanged
  <2>4. (HandleAgrees /\ ThreadIsOwned /\ SignalAgrees)'
    BY <1>11 DEF ConsumeChanged
  <2>5. (HeldAgrees /\ SuspendedIsParked)'
    BY <1>11 DEF ConsumeChanged
  <2>6. (RequestInterrupts /\ ParkedIsWoken)'
    BY <1>11 DEF ConsumeChanged
  <2> QED
    BY <2>1, <2>2, <2>3, <2>4, <2>5, <2>6 DEF IInv
<1>12. CASE TakeCompletion
  <2>1. TypeOK'
    <3>1. FlagsOK'
      BY <1>12 DEF TakeCompletion, FlagsOK
    <3>2. PlacesOK'
      BY <1>12 DEF TakeCompletion, PlacesOK
    <3> QED
      BY <3>1, <3>2 DEF FlagsOK, PlacesOK
  <2>2. (WorkerAgrees /\ FlagAgrees /\ SuspensionFlagAgrees)'
    BY <1>12 DEF TakeCompletion
  <2>3. (OutputAgrees /\ CompletionAgrees)'
    BY <1>12 DEF TakeCompletion
  <2>4. (HandleAgrees /\ ThreadIsOwned /\ SignalAgrees)'
    BY <1>12 DEF TakeCompletion
  <2>5. (HeldAgrees /\ SuspendedIsParked)'
    BY <1>12 DEF TakeCompletion
  <2>6. (RequestInterrupts /\ ParkedIsWoken)'
    BY <1>12 DEF TakeCompletion
  <2> QED
    BY <2>1, <2>2, <2>3, <2>4, <2>5, <2>6 DEF IInv
<1>13. CASE BeginDestruction
  <2>1. TypeOK'
    <3>1. FlagsOK'
      BY <1>13 DEF BeginDestruction, AcceptCancel, FlagsOK
    <3>2. PlacesOK'
      BY <1>13 DEF BeginDestruction, AcceptCancel, PlacesOK
    <3> QED
      BY <3>1, <3>2 DEF FlagsOK, PlacesOK
  <2>2. (WorkerAgrees /\ FlagAgrees /\ SuspensionFlagAgrees)'
    BY <1>13 DEF BeginDestruction, AcceptCancel
  <2>3. (OutputAgrees /\ CompletionAgrees)'
    BY <1>13 DEF BeginDestruction, AcceptCancel
  <2>4. (HandleAgrees /\ ThreadIsOwned /\ SignalAgrees)'
    BY <1>13 DEF BeginDestruction, AcceptCancel
  <2>5. (HeldAgrees /\ SuspendedIsParked)'
    BY <1>13 DEF BeginDestruction, AcceptCancel
  <2>6. (RequestInterrupts /\ ParkedIsWoken)'
    BY <1>13 DEF BeginDestruction, AcceptCancel
  <2> QED
    BY <2>1, <2>2, <2>3, <2>4, <2>5, <2>6 DEF IInv
<1>14. CASE TakeHandle
  <2>1. TypeOK'
    <3>1. FlagsOK'
      BY <1>14 DEF TakeHandle, FlagsOK
    <3>2. PlacesOK'
      BY <1>14 DEF TakeHandle, PlacesOK
    <3> QED
      BY <3>1, <3>2 DEF FlagsOK, PlacesOK
  <2>2. (WorkerAgrees /\ FlagAgrees /\ SuspensionFlagAgrees)'
    BY <1>14 DEF TakeHandle
  <2>3. (OutputAgrees /\ CompletionAgrees)'
    BY <1>14 DEF TakeHandle
  <2>4. (HandleAgrees /\ ThreadIsOwned /\ SignalAgrees)'
    BY <1>14 DEF TakeHandle
  <2>5. (HeldAgrees /\ SuspendedIsParked)'
    BY <1>14 DEF TakeHandle
  <2>6. (RequestInterrupts /\ ParkedIsWoken)'
    BY <1>14 DEF TakeHandle
  <2> QED
    BY <2>1, <2>2, <2>3, <2>4, <2>5, <2>6 DEF IInv
<1>15. CASE Join
  BY <1>15 DEF Join
<1>16. CASE Check
  BY <1>16 DEF Check
<1>17. CASE Gate
  <2>1. TypeOK'
    <3>1. FlagsOK'
      BY <1>17 DEF Gate, ParkOrPass, Passed, Yielding, FlagsOK
    <3>2. PlacesOK'
      BY <1>17 DEF Gate, ParkOrPass, Passed, Yielding, PlacesOK
    <3> QED
      BY <3>1, <3>2 DEF FlagsOK, PlacesOK
  <2>2. (WorkerAgrees /\ FlagAgrees /\ SuspensionFlagAgrees)'
    BY <1>17 DEF Gate, ParkOrPass, Passed, Yielding
  <2>3. (OutputAgrees /\ CompletionAgrees)'
    BY <1>17 DEF Gate, ParkOrPass, Passed, Yielding
  <2>4. (HandleAgrees /\ ThreadIsOwned /\ SignalAgrees)'
    BY <1>17 DEF Gate, ParkOrPass, Passed, Yielding
  <2>5. (HeldAgrees /\ SuspendedIsParked)'
    BY <1>17 DEF Gate, ParkOrPass, Passed, Yielding
  <2>6. (RequestInterrupts /\ ParkedIsWoken)'
    BY <1>17 DEF Gate, ParkOrPass, Passed, Yielding
  <2> QED
    BY <2>1, <2>2, <2>3, <2>4, <2>5, <2>6 DEF IInv
<1>18. CASE Yield
  BY <1>18 DEF Yield
<1>19. CASE Regate
  <2>1. TypeOK'
    <3>1. FlagsOK'
      BY <1>19 DEF Regate, ParkOrPass, Passed, FlagsOK
    <3>2. PlacesOK'
      BY <1>19 DEF Regate, ParkOrPass, Passed, PlacesOK
    <3> QED
      BY <3>1, <3>2 DEF FlagsOK, PlacesOK
  <2>2. (WorkerAgrees /\ FlagAgrees /\ SuspensionFlagAgrees)'
    BY <1>19 DEF Regate, ParkOrPass, Passed
  <2>3. (OutputAgrees /\ CompletionAgrees)'
    BY <1>19 DEF Regate, ParkOrPass, Passed
  <2>4. (HandleAgrees /\ ThreadIsOwned /\ SignalAgrees)'
    BY <1>19 DEF Regate, ParkOrPass, Passed
  <2>5. (HeldAgrees /\ SuspendedIsParked)'
    BY <1>19 DEF Regate, ParkOrPass, Passed
  <2>6. (RequestInterrupts /\ ParkedIsWoken)'
    BY <1>19 DEF Regate, ParkOrPass, Passed
  <2> QED
    BY <2>1, <2>2, <2>3, <2>4, <2>5, <2>6 DEF IInv
<1>20. CASE Wake
  <2>1. TypeOK'
    <3>1. FlagsOK'
      BY <1>20 DEF Wake, Passed, FlagsOK
    <3>2. PlacesOK'
      BY <1>20 DEF Wake, Passed, PlacesOK
    <3> QED
      BY <3>1, <3>2 DEF FlagsOK, PlacesOK
  <2>2. (WorkerAgrees /\ FlagAgrees /\ SuspensionFlagAgrees)'
    BY <1>20 DEF Wake, Passed
  <2>3. (OutputAgrees /\ CompletionAgrees)'
    BY <1>20 DEF Wake, Passed
  <2>4. (HandleAgrees /\ ThreadIsOwned /\ SignalAgrees)'
    BY <1>20 DEF Wake, Passed
  <2>5. (HeldAgrees /\ SuspendedIsParked)'
    BY <1>20 DEF Wake, Passed
  <2>6. (RequestInterrupts /\ ParkedIsWoken)'
    BY <1>20 DEF Wake, Passed
  <2> QED
    BY <2>1, <2>2, <2>3, <2>4, <2>5, <2>6 DEF IInv
<1>21. CASE GiveUp
  BY <1>21 DEF GiveUp
<1>22. CASE Prepare
  BY <1>22 DEF Prepare
<1>23. CASE Compile
  BY <1>23 DEF Compile
<1>24. CASE PublishCompiled
  BY <1>24 DEF PublishCompiled
<1>25. CASE Acquire
  BY <1>25 DEF Acquire
<1>26. CASE Begin
  <2>1. TypeOK'
    <3>1. FlagsOK'
      BY <1>26 DEF Begin, FlagsOK
    <3>2. PlacesOK'
      BY <1>26 DEF Begin, PlacesOK
    <3> QED
      BY <3>1, <3>2 DEF FlagsOK, PlacesOK
  <2>2. (WorkerAgrees /\ FlagAgrees /\ SuspensionFlagAgrees)'
    BY <1>26 DEF Begin
  <2>3. (OutputAgrees /\ CompletionAgrees)'
    BY <1>26 DEF Begin
  <2>4. (HandleAgrees /\ ThreadIsOwned /\ SignalAgrees)'
    BY <1>26 DEF Begin
  <2>5. (HeldAgrees /\ SuspendedIsParked)'
    BY <1>26 DEF Begin
  <2>6. (RequestInterrupts /\ ParkedIsWoken)'
    BY <1>26 DEF Begin
  <2> QED
    BY <2>1, <2>2, <2>3, <2>4, <2>5, <2>6 DEF IInv
<1>27. CASE RegisterInterrupt
  BY <1>27 DEF RegisterInterrupt
<1>28. CASE EndOperation
  BY <1>28 DEF EndOperation
<1>29. CASE Interrupted
  BY <1>29 DEF Interrupted
<1>30. CASE Completed
  BY <1>30 DEF Completed
<1>31. CASE Rebuild
  BY <1>31 DEF Rebuild
<1>32. CASE ReportProgress
  BY <1>32 DEF ReportProgress
<1>33. CASE BeginCommit
  <2>1. TypeOK'
    <3>1. FlagsOK'
      BY <1>33 DEF BeginCommit, FlagsOK
    <3>2. PlacesOK'
      BY <1>33 DEF BeginCommit, PlacesOK
    <3> QED
      BY <3>1, <3>2 DEF FlagsOK, PlacesOK
  <2>2. (WorkerAgrees /\ FlagAgrees /\ SuspensionFlagAgrees)'
    BY <1>33 DEF BeginCommit
  <2>3. (OutputAgrees /\ CompletionAgrees)'
    BY <1>33 DEF BeginCommit
  <2>4. (HandleAgrees /\ ThreadIsOwned /\ SignalAgrees)'
    BY <1>33 DEF BeginCommit
  <2>5. (HeldAgrees /\ SuspendedIsParked)'
    BY <1>33 DEF BeginCommit
  <2>6. (RequestInterrupts /\ ParkedIsWoken)'
    BY <1>33 DEF BeginCommit
  <2> QED
    BY <2>1, <2>2, <2>3, <2>4, <2>5, <2>6 DEF IInv
<1>34. CASE NotifyCommit
  BY <1>34 DEF NotifyCommit
<1>35. CASE Publish
  BY <1>35 DEF Publish
<1>36. CASE Finish
  <2>1. TypeOK'
    <3>1. FlagsOK'
      BY <1>36 DEF Finish, Outcome, Succeeds, FlagsOK
    <3>2. PlacesOK'
      BY <1>36 DEF Finish, Outcome, Succeeds, PlacesOK
    <3> QED
      BY <3>1, <3>2 DEF FlagsOK, PlacesOK
  <2>2. (WorkerAgrees /\ FlagAgrees /\ SuspensionFlagAgrees)'
    BY <1>36 DEF Finish, Outcome, Succeeds
  <2>3. (OutputAgrees /\ CompletionAgrees)'
    BY <1>36 DEF Finish, Outcome, Succeeds
  <2>4. (HandleAgrees /\ ThreadIsOwned /\ SignalAgrees)'
    BY <1>36 DEF Finish, Outcome, Succeeds
  <2>5. (HeldAgrees /\ SuspendedIsParked)'
    BY <1>36 DEF Finish, Outcome, Succeeds
  <2>6. (RequestInterrupts /\ ParkedIsWoken)'
    BY <1>36 DEF Finish, Outcome, Succeeds
  <2> QED
    BY <2>1, <2>2, <2>3, <2>4, <2>5, <2>6 DEF IInv
<1>37. CASE NotifyFinish
  BY <1>37 DEF NotifyFinish
<1>38. CASE UNCHANGED vars
  BY <1>38 DEF vars
<1> QED
  BY <1>1, <1>2, <1>3, <1>4, <1>5, <1>6, <1>7, <1>8, <1>9, <1>10, <1>11,
     <1>12, <1>13, <1>14, <1>15, <1>16, <1>17, <1>18, <1>19, <1>20, <1>21,
     <1>22, <1>23, <1>24, <1>25, <1>26, <1>27, <1>28, <1>29, <1>30, <1>31,
     <1>32, <1>33, <1>34, <1>35, <1>36, <1>37, <1>38
     DEF Next, Owner, OwnerCall, WorkerStep

\* IInv holds in every reachable state of the job.
THEOREM Inductive == Spec => []IInv
BY Initially, StepKeeps, PTL DEF Spec

\* The owner never reaches std::terminate, and every variable keeps its type.
THEOREM TypeCorrect == Spec => []TypeOK
<1>1. IInv => TypeOK
  BY DEF IInv
<1> QED
  BY <1>1, Inductive, PTL

\* What Coordinator::InteractivePlaybackLease::ready() relies on: behind the
\* word "Suspended" there is no model, no lock and no GPU operation.
THEOREM YieldedGpu == Spec => []SuspendedHoldsNothing
<1>1. IInv => SuspendedHoldsNothing
  BY DEF IInv, SuspendedHoldsNothing, SuspendedIsParked, HeldAgrees, InCheckpoint
<1> QED
  BY <1>1, Inductive, PTL

\* Whichever comes first, the registration of the interrupt or the request, the
\* operation is interrupted; and a worker parks only while it is blocked, under
\* the mutex that a resume or a cancel takes before it notifies.
THEOREM SignalsArrive == Spec => []NoSignalIsLost
<1>1. IInv => NoSignalIsLost
  BY DEF IInv, NoSignalIsLost
<1> QED
  BY <1>1, Inductive, PTL

\* The checkpoints may yield the model or the lock at any time, and still no
\* operation starts without the one it needs.
THEOREM ModelIsAtHand == Spec => []OperationHasItsResource
<1>1. IInv => OperationHasItsResource
  BY DEF IInv, OperationHasItsResource, HeldAgrees, InOperation
<1> QED
  BY <1>1, Inductive, PTL

\* finish() reports success for the runs whose stems are in place and for no
\* other.
THEOREM OutcomeIsTrue == Spec => []OutcomeMatchesOutput
<1>1. IInv => OutcomeMatchesOutput
  BY DEF IInv, OutcomeMatchesOutput, TypeOK, WorkerAgrees, OutputAgrees,
         CompletionAgrees, Outcomes, ActiveStates, Active
<1> QED
  BY <1>1, Inductive, PTL

\* Once requestCancel() returned true, beginCommit() is refused.
THEOREM CancelHolds == Spec => []AcceptedCancelHolds
<1>1. IInv => AcceptedCancelHolds
  BY DEF IInv, AcceptedCancelHolds, FlagAgrees, OutputAgrees
<1> QED
  BY <1>1, Inductive, PTL

-----------------------------------------------------------------------------
(* Refinement *)

\* Steps that only move the worker, the owner or a flag that no observer sees.
Internal ==
  \/ JoinFinishedWorker \/ RefuseStart \/ Pause \/ Resume \/ NotifyAll \/ Notify
  \/ InterruptActiveOperation \/ ConsumeChanged \/ TakeHandle \/ Join
  \/ Check \/ Gate \/ Yield \/ Regate \/ Wake \/ GiveUp \/ Prepare \/ Compile
  \/ PublishCompiled \/ Acquire \/ Begin \/ RegisterInterrupt \/ EndOperation
  \/ Interrupted \/ Completed \/ Rebuild \/ ReportProgress \/ NotifyCommit
  \/ NotifyFinish \/ UNCHANGED vars

\* Pausing, yielding and the GPU are invisible in the life cycle.
LEMMA InternalStutters == Internal => UNCHANGED Lifecycle!vars
<1> SUFFICES ASSUME Internal
             PROVE  UNCHANGED <<state, completion, published>>
  BY DEF Lifecycle!vars, Active
<1> USE DEF locked, progress, result, calls, owned, unshared
<1>1. CASE \/ JoinFinishedWorker \/ RefuseStart \/ Pause \/ Resume
           \/ NotifyAll \/ Notify \/ InterruptActiveOperation
           \/ ConsumeChanged \/ TakeHandle \/ Join
  BY <1>1 DEF JoinFinishedWorker, RefuseStart, Pause, Resume, NotifyAll,
              Notify, InterruptActiveOperation, ConsumeChanged, TakeHandle,
              Join
<1>2. CASE Check \/ Gate \/ Yield \/ Regate \/ Wake
  BY <1>2 DEF Check, Gate, ParkOrPass, Yield, Regate, Wake
<1>3. CASE \/ GiveUp \/ Prepare \/ Compile \/ PublishCompiled \/ Acquire
           \/ Begin \/ RegisterInterrupt \/ EndOperation \/ Interrupted
           \/ Completed \/ Rebuild
  BY <1>3 DEF GiveUp, Prepare, Compile, PublishCompiled, Acquire, Begin,
              RegisterInterrupt, EndOperation, Interrupted, Completed, Rebuild
<1>4. CASE ReportProgress \/ NotifyCommit \/ NotifyFinish \/ UNCHANGED vars
  BY <1>4 DEF ReportProgress, NotifyCommit, NotifyFinish, vars
<1> QED
  BY <1>1, <1>2, <1>3, <1>4 DEF Internal

\* Each step of the two threads is a step of JobLifecycle or none of its
\* business; the outcome is decided where finish() holds the mutex.
LEMMA StepSimulation ==
  IInv /\ [Next]_vars => [Lifecycle!Next]_(Lifecycle!vars)
<1> SUFFICES ASSUME IInv, [Next]_vars
             PROVE  Lifecycle!Next \/ UNCHANGED Lifecycle!vars
  OBVIOUS
<1> USE DEF IInv, ActiveStates, Outcomes, Active, Lifecycle!vars,
            locked, progress, result, calls, owned, unshared
<1>1. ASSUME NEW p \in BOOLEAN, StartWorker(p) PROVE Lifecycle!Next
  <2>1. Lifecycle!Start
    BY <1>1 DEF StartWorker, Reset, Startable, Lifecycle!Start,
                Lifecycle!Startable
  <2> QED
    BY <2>1 DEF Lifecycle!Next
<1>2. ASSUME NEW p \in BOOLEAN, StartFails(p) PROVE Lifecycle!Next
  <2>1. Lifecycle!StartFails
    BY <1>2 DEF StartFails, Reset, Startable, Lifecycle!StartFails,
                Lifecycle!Startable
  <2> QED
    BY <2>1 DEF Lifecycle!Next
<1>3. CASE RequestCancel
  <2>1. Lifecycle!AcceptCancel
    BY <1>3 DEF RequestCancel, AcceptCancel, Lifecycle!AcceptCancel
  <2> QED
    BY <2>1 DEF Lifecycle!Next
<1>4. CASE BeginDestruction
  <2>1. Lifecycle!AcceptCancel \/ UNCHANGED Lifecycle!vars
    BY <1>4 DEF BeginDestruction, AcceptCancel, Lifecycle!AcceptCancel
  <2> QED
    BY <2>1 DEF Lifecycle!Next
<1>5. CASE TakeCompletion
  <2>1. Lifecycle!Take \/ UNCHANGED Lifecycle!vars
    BY <1>5 DEF TakeCompletion, Lifecycle!Take
  <2> QED
    BY <2>1 DEF Lifecycle!Next
<1>6. CASE BeginCommit
  <2>1. Lifecycle!PassBarrier \/ UNCHANGED Lifecycle!vars
    BY <1>6 DEF BeginCommit, Lifecycle!PassBarrier
  <2> QED
    BY <2>1 DEF Lifecycle!Next
<1>7. CASE Publish
  <2>1. state = "Publishing" /\ ~published
    BY <1>7 DEF Publish, WorkerAgrees, OutputAgrees
  <2>2. Lifecycle!Publish \/ UNCHANGED Lifecycle!vars
    BY <1>7, <2>1 DEF Publish, TypeOK, Lifecycle!Publish
  <2> QED
    BY <2>2 DEF Lifecycle!Next
<1>8. CASE Finish
  <2>1. Active /\ state' = Outcome /\ completion' = Outcome
        /\ published' = published
    BY <1>8 DEF Finish, WorkerAgrees
  <2>2. Outcome \in Outcomes
    BY DEF Outcome
  <2>3. Lifecycle!MayEnd(Outcome)
    BY <1>8, <2>1 DEF Finish, Outcome, Succeeds, FlagAgrees, OutputAgrees,
                      Lifecycle!MayEnd
  <2>4. Lifecycle!End
    BY <2>1, <2>2, <2>3 DEF Lifecycle!End, Lifecycle!Outcomes
  <2> QED
    BY <2>4 DEF Lifecycle!Next
<1>9. CASE Internal
  BY <1>9, InternalStutters
<1> QED
  BY <1>1, <1>2, <1>3, <1>4, <1>5, <1>6, <1>7, <1>8, <1>9
     DEF Next, Owner, OwnerCall, WorkerStep, Internal

\* The separation job is a background job: started, cancelled, published and
\* taken in the order JobLifecycle allows.
THEOREM Refinement == Spec => KeepsLifecycle
<1>1. Init => Lifecycle!Init
  BY DEF Init, Lifecycle!Init, Active, ActiveStates
<1> QED
  BY <1>1, Inductive, StepSimulation, PTL
     DEF KeepsLifecycle, Spec, Lifecycle!Spec
-----------------------------------------------------------------------------
(* The leases that pause it *)

\* A separation is started only where no transcript runs.
StartIsAlone == owner \in {"start_join", "start"} => subtitles = "idle"

\* The coordinator leaves after its thread, and after the transcript.
ClosingAgrees ==
  /\ closing =>
       /\ owner \in {"cancel_interrupt", "cancel_wake", "notify", "close",
                     "close_join", "gone"}
       /\ subtitles # "running"
  /\ owner \in {"close", "close_join", "gone"} => closing
  /\ owner = "gone" => ~handle

\* A worker that is past its work, or has none, holds nothing.
FreeHoldsNothing ==
  worker \in {"none", "granted", "publishing", "finish", "notify", "exited"} =>
    held = "nothing"

\* The pause follows the leases in the middle of a call, too.
PauseAgrees ==
  state = "Running" => (scheduling # "Running" <=> leases # {})

\* Once a lease was granted, a separation under way is suspended or on the
\* shortest way to its end.
GrantIsQuiet ==
  granted # {} =>
    /\ subtitles # "running"
    /\ Active =>
         /\ state \in {"Running", "Cancelling"}
         /\ worker \in {"check", "gate", "parked", "giveup", "finish"}
         /\ worker \in {"check", "gate"} => after = "prepare"
         /\ held = "nothing"
         /\ state = "Running" =>
              /\ scheduling = "Suspended"
              /\ worker \in {"check", "gate", "parked"}

LeaseValues ==
  /\ leases \subseteq Leases
  /\ granted \subseteq leases
  /\ subtitles \in {"idle", "running", "ended"}

LInv ==
  /\ LeaseValues
  /\ OneJobAtATime
  /\ StartIsAlone
  /\ ClosingAgrees
  /\ FreeHoldsNothing
  /\ PauseAgrees
  /\ GrantIsQuiet

\* A step of this module is a step of the separation job, or leaves it alone.
LEMMA StepOfTheJob == LeaseNext => [Next]_vars
BY DEF LeaseNext, JobStep, AcquireLease, AskReady, ReleaseLease,
       ReleaseOrphan, RequestSubtitles, EndSubtitles, CollectSubtitles,
       RequestSeparation, StartSeparation, Shutdown, InitiallyPaused,
       Next, Owner, OwnerCall

\* A coordinator as it is constructed.
LEMMA LeaseInitially == LeaseInit => LInv
BY DEF LeaseInit, Init, LInv, LeaseValues, OneJobAtATime, StartIsAlone,
       ClosingAgrees, FreeHoldsNothing, PauseAgrees, GrantIsQuiet, Active,
       ActiveStates

\* Every step keeps what leases, pause and worker know of each other.
LEMMA LeaseStepKeeps == IInv /\ LInv /\ [LeaseNext]_allVars => LInv'
<1> SUFFICES ASSUME IInv, LInv, [LeaseNext]_allVars PROVE LInv'
  OBVIOUS
<1> USE DEF LInv, LeaseValues, OneJobAtATime, StartIsAlone, ClosingAgrees,
            FreeHoldsNothing, PauseAgrees, GrantIsQuiet,
            Active, ActiveStates, InJoin, InCheckpoint, InOperation
<1> USE DEF foreground, locked, progress, result, calls, owned, unshared,
            CheckThen
<1>a. TypeOK /\ WorkerAgrees /\ FlagAgrees /\ SuspensionFlagAgrees
  BY DEF IInv
<1>b. HandleAgrees /\ ThreadIsOwned /\ HeldAgrees /\ SuspendedIsParked
  BY DEF IInv
<1> USE <1>a, <1>b DEF TypeOK, WorkerAgrees, FlagAgrees, SuspensionFlagAgrees,
            HandleAgrees, ThreadIsOwned, HeldAgrees, SuspendedIsParked
<1>1. CASE \E l \in Leases : AcquireLease(l)
  BY <1>1 DEF AcquireLease, Pause, vars
<1>2. CASE \E l \in Leases : AskReady(l)
  BY <1>2 DEF AskReady, Ready, vars
<1>3. CASE \E l \in Leases : ReleaseLease(l)
  BY <1>3 DEF ReleaseLease, Resume, vars
<1>4. CASE \E l \in Leases : ReleaseOrphan(l)
  BY <1>4 DEF ReleaseOrphan, vars
<1>5. CASE RequestSubtitles
  BY <1>5 DEF RequestSubtitles, NoConflict, vars
<1>6. CASE EndSubtitles
  BY <1>6 DEF EndSubtitles, vars
<1>7. CASE CollectSubtitles
  BY <1>7 DEF CollectSubtitles, vars
<1>8. CASE RequestSeparation /\ UNCHANGED foreground
  BY <1>8 DEF RequestSeparation, NoConflict, JoinFinishedWorker
<1>9. CASE RefuseStart /\ UNCHANGED foreground
  BY <1>9 DEF RefuseStart
<1>10. CASE StartWorker(InitiallyPaused) /\ UNCHANGED foreground
  BY <1>10 DEF StartWorker, Reset, InitiallyPaused
<1>11. CASE StartFails(InitiallyPaused) /\ UNCHANGED foreground
  BY <1>11 DEF StartFails, Reset, InitiallyPaused
<1>12. CASE RequestCancel /\ UNCHANGED foreground
  BY <1>12 DEF RequestCancel, AcceptCancel
<1>13. CASE InterruptActiveOperation /\ UNCHANGED foreground
  BY <1>13 DEF InterruptActiveOperation
<1>14. CASE NotifyAll /\ UNCHANGED foreground
  BY <1>14 DEF NotifyAll
<1>15. CASE Notify /\ UNCHANGED foreground
  BY <1>15 DEF Notify
<1>16. CASE ConsumeChanged /\ UNCHANGED foreground
  BY <1>16 DEF ConsumeChanged
<1>17. CASE TakeCompletion /\ UNCHANGED foreground
  BY <1>17 DEF TakeCompletion
<1>18. CASE Shutdown /\ UNCHANGED foreground
  BY <1>18 DEF Shutdown, BeginDestruction, AcceptCancel
<1>19. CASE TakeHandle /\ UNCHANGED foreground
  BY <1>19 DEF TakeHandle
<1>20. CASE Join /\ UNCHANGED foreground
  BY <1>20 DEF Join
<1>21. CASE Check /\ UNCHANGED foreground
  BY <1>21 DEF Check
<1>22. CASE Gate /\ UNCHANGED foreground
  BY <1>22 DEF Gate, ParkOrPass, Blocked, Passed, Yielding
<1>23. CASE Yield /\ UNCHANGED foreground
  BY <1>23 DEF Yield
<1>24. CASE Regate /\ UNCHANGED foreground
  BY <1>24 DEF Regate, ParkOrPass, Blocked, Passed
<1>25. CASE GiveUp /\ UNCHANGED foreground
  BY <1>25 DEF GiveUp
<1>26. CASE Prepare /\ UNCHANGED foreground
  BY <1>26 DEF Prepare
<1>27. CASE Compile /\ UNCHANGED foreground
  BY <1>27 DEF Compile
<1>28. CASE PublishCompiled /\ UNCHANGED foreground
  BY <1>28 DEF PublishCompiled
<1>29. CASE Acquire /\ UNCHANGED foreground
  BY <1>29 DEF Acquire
<1>30. CASE Begin /\ UNCHANGED foreground
  BY <1>30 DEF Begin
<1>31. CASE RegisterInterrupt /\ UNCHANGED foreground
  BY <1>31 DEF RegisterInterrupt
<1>32. CASE Interrupted /\ UNCHANGED foreground
  BY <1>32 DEF Interrupted
<1>33. CASE Completed /\ UNCHANGED foreground
  BY <1>33 DEF Completed
<1>34. CASE Rebuild /\ UNCHANGED foreground
  BY <1>34 DEF Rebuild
<1>35. CASE BeginCommit /\ UNCHANGED foreground
  BY <1>35 DEF BeginCommit
<1>36. CASE NotifyCommit /\ UNCHANGED foreground
  BY <1>36 DEF NotifyCommit
<1>37. CASE Publish /\ UNCHANGED foreground
  BY <1>37 DEF Publish
<1>38. CASE Finish /\ UNCHANGED foreground
  BY <1>38 DEF Finish, Outcome, Succeeds
<1>39. CASE NotifyFinish /\ UNCHANGED foreground
  BY <1>39 DEF NotifyFinish
<1>40. CASE Wake /\ UNCHANGED foreground
  BY <1>40 DEF Wake, Blocked, Passed
<1>41. CASE EndOperation /\ UNCHANGED foreground
  BY <1>41 DEF EndOperation
<1>42. CASE ReportProgress /\ UNCHANGED foreground
  BY <1>42 DEF ReportProgress
<1>43. CASE UNCHANGED allVars
  BY <1>43 DEF allVars, vars
<1> QED
  BY <1>1, <1>2, <1>3, <1>4, <1>5, <1>6, <1>7, <1>8, <1>9, <1>10, <1>11,
     <1>12, <1>13, <1>14, <1>15, <1>16, <1>17, <1>18, <1>19, <1>20, <1>21,
     <1>22, <1>23, <1>24, <1>25, <1>26, <1>27, <1>28, <1>29, <1>30, <1>31,
     <1>32, <1>33, <1>34, <1>35, <1>36, <1>37, <1>38, <1>39, <1>40, <1>41,
     <1>42, <1>43
     DEF LeaseNext, JobStep, StartSeparation, WorkerStep

\* Both invariants hold in every reachable state, whatever the owner calls.
THEOREM LeaseInductive == LeaseSpec => [](IInv /\ LInv)
<1>1. LeaseInit => IInv /\ LInv
  BY Initially, LeaseInitially DEF LeaseInit
<1>2. [LeaseNext]_allVars => [Next]_vars
  BY StepOfTheJob DEF allVars
<1>3. IInv /\ LInv /\ [LeaseNext]_allVars => (IInv /\ LInv)'
  BY <1>2, StepKeeps, LeaseStepKeeps
<1> QED
  BY <1>1, <1>3, PTL DEF LeaseSpec

\* From ready() to the release of its lease, playback has the GPU to itself:
\* no operation, no model, no compilation lock and no transcript.
THEOREM GpuIsGranted == LeaseSpec => []PlaybackOwnsTheGpu
<1>1. IInv /\ LInv => PlaybackOwnsTheGpu
  <2> SUFFICES ASSUME IInv, LInv, granted # {}
               PROVE  worker # "operate" /\ held = "nothing" /\ subtitles # "running"
    BY DEF PlaybackOwnsTheGpu
  <2>1. CASE Active
    BY <2>1 DEF LInv, GrantIsQuiet
  <2>2. CASE ~Active
    BY <2>2 DEF IInv, TypeOK, WorkerAgrees, InCheckpoint, InOperation, LInv,
       GrantIsQuiet, FreeHoldsNothing, Active, ActiveStates
  <2> QED
    BY <2>1, <2>2
<1> QED
  BY <1>1, LeaseInductive, PTL

\* A separation under way is paused exactly while there is a lease, between
\* two calls and in the middle of one.
THEOREM PauseTheorem == LeaseSpec => []PauseFollowsLeases
<1>1. LInv => PauseFollowsLeases
  BY DEF LInv, PauseAgrees, PauseFollowsLeases
<1> QED
  BY <1>1, LeaseInductive, PTL

\* The transcript and the separation are never at work together.
THEOREM MutualExclusion == LeaseSpec => []OneJobAtATime
<1>1. LInv => OneJobAtATime
  BY DEF LInv
<1> QED
  BY <1>1, LeaseInductive, PTL

\* Every variable keeps to its values, and only held leases are granted.
THEOREM LeaseTypes == LeaseSpec => []LeaseTypeOK
<1>1. IInv /\ LInv => LeaseTypeOK
  BY DEF IInv, LInv, LeaseValues, LeaseTypeOK
<1> QED
  BY <1>1, LeaseInductive, PTL

-----------------------------------------------------------------------------
(* The shell and its sessions, for any numbers of sessions, requests, drops *)
(* and edited states.                                                       *)

\* The fold of DrainEvents, over the sequences it meets: no event and one.
LEMMA DrainsNone ==
  ASSUME NEW s, Shell!Controllable(s), s.events = <<>>
  PROVE  Shell!DrainEvents(s) = {[s EXCEPT !.events = <<>>]}
<1> DEFINE start == {[s EXCEPT !.events = <<>>]}
           Drained(it, S) ==
             IF S = {} THEN start
             ELSE Shell!Then(it[S \ {Shell!Max(S)}],
                       LAMBDA t : Shell!HandleEvent(t, s.events[Shell!Max(S)]))
           iter == CHOOSE it :
                     it = [S \in SUBSET DOMAIN s.events |-> Drained(it, S)]
<1>1. Shell!DrainEvents(s) = iter[DOMAIN s.events]
  BY DEF Shell!DrainEvents, Shell!FoldLeft, Shell!MapThenFoldSet
<1>2. DOMAIN s.events = {}
  OBVIOUS
<1>3. iter = [S \in SUBSET DOMAIN s.events |-> Drained(iter, S)]
  <2> DEFINE it == [S \in SUBSET DOMAIN s.events |-> start]
  <2>1. it = [S \in SUBSET DOMAIN s.events |-> Drained(it, S)]
    BY <1>2
  <2> HIDE DEF it, start, Drained
  <2> QED
    BY <2>1
<1> HIDE DEF iter
<1> QED
  BY <1>1, <1>2, <1>3

LEMMA DrainsOne ==
  ASSUME NEW s, NEW event, Shell!Controllable(s), s.events = <<event>>
  PROVE  Shell!DrainEvents(s) = Shell!HandleEvent([s EXCEPT !.events = <<>>], event)
<1> DEFINE start == {[s EXCEPT !.events = <<>>]}
           Handled(states, i) ==
             Shell!Then(states, LAMBDA t : Shell!HandleEvent(t, s.events[i]))
           Drained(it, S) ==
             IF S = {} THEN start ELSE Handled(it[S \ {Shell!Max(S)}], Shell!Max(S))
           iter == CHOOSE it :
                     it = [S \in SUBSET DOMAIN s.events |-> Drained(it, S)]
<1>1. Shell!DrainEvents(s) = iter[DOMAIN s.events]
  BY DEF Shell!DrainEvents, Shell!FoldLeft, Shell!MapThenFoldSet
<1>2. Handled(start, 1) = Shell!HandleEvent([s EXCEPT !.events = <<>>], event)
  BY DEF Shell!Then
<1>3. DOMAIN s.events = {1}
  OBVIOUS
<1>4. Shell!Max({1}) = 1
  BY DEF Shell!Max
<1> HIDE DEF Handled, start
<1>5. \A it : \A S \in SUBSET {1} :
        Drained(it, S) = IF S = {} THEN start ELSE Handled(it[{}], 1)
  <2>1. \A S \in SUBSET {1} : S # {} => S = {1} /\ S \ {1} = {}
    OBVIOUS
  <2> QED
    BY <1>4, <2>1
<1> HIDE DEF Drained
<1>6. iter = [S \in SUBSET {1} |-> Drained(iter, S)]
  <2> DEFINE it == [S \in SUBSET {1} |->
                     IF S = {} THEN start ELSE Handled(start, 1)]
  <2>1. it[{}] = start
    OBVIOUS
  <2>2. \A S \in SUBSET {1} : Drained(it, S) = it[S]
    BY <1>5, <2>1
  <2>3. it = [S \in SUBSET {1} |-> Drained(it, S)]
    BY <2>2
  <2> HIDE DEF it
  <2> QED
    BY <1>3, <2>3
<1> HIDE DEF iter
<1>7. iter[{1}] = Handled(start, 1)
  <2>1. \A S \in SUBSET {1} : iter[S] = Drained(iter, S)
    BY <1>6
  <2>2. iter[{}] = start
    BY <2>1, <1>5
  <2> QED
    BY <2>1, <2>2, <1>5
<1> QED
  BY <1>1, <1>2, <1>3, <1>7

-----------------------------------------------------------------------------
(* The shell and its sessions.  The state is one record, of which these     *)
(* fields matter here; the others may hold anything.                        *)

Tracked ==
  {"phase", "exit", "ids", "events", "workflow", "lease", "fallback", "quits"}

MediaCommands == {"audio", "browse", "quit", "video"}
Intents == Shell!Handoffs \cup {"stop", "quit"}

WorkflowTyped(s) ==
  /\ s.workflow.state \in {"Idle", "Deferred", "Negotiating"}
  /\ s.workflow.state = "Idle" => s.workflow = Shell!Idle
  /\ s.workflow.state # "Idle" => s.workflow.command \in MediaCommands
  /\ s.workflow.state = "Negotiating" =>
       "id" \in DOMAIN s.workflow /\ s.workflow.id \in Nat

ExitTyped(s) ==
  \/ s.exit = Shell!NoExit
  \/ /\ s.exit.phase \in {"AwaitingConfirmation", "AwaitingHandoffDecision"}
     /\ s.exit.intent \in Intents
     /\ s.exit.id \in Nat
     /\ s.exit.intent \in Shell!Handoffs <=> s.exit.id # 0

ShellTyped(s) ==
  /\ Tracked \subseteq DOMAIN s
  /\ s.phase \in {"none", "Opening", "BootClosing", "Running", "Stopping",
                  "Closing"}
  /\ s.ids \in Nat \ {0}
  /\ WorkflowTyped(s)
  /\ ExitTyped(s)

\* A session that takes no calls has no exit and no events.
QuietOutside(s) == ~Shell!Controllable(s) => s.exit = Shell!NoExit /\ s.events = <<>>

\* A command waits for the end of a session or for the lease, and negotiates
\* only with a session that was running.
WorkflowPlaced(s) ==
  /\ s.workflow.state = "Deferred" => s.phase \in {"none", "Stopping", "Closing"}
  /\ s.workflow.state = "Negotiating" =>
       s.phase \in {"Running", "Stopping", "Closing"}

LeasePlaced(s) ==
  /\ Shell!Occupied(s) => s.lease = "ready" /\ ~s.fallback
  /\ s.lease # "none" =>
       Shell!Occupied(s) \/ s.fallback \/ s.workflow.state = "Deferred"

\* The shell waits for the very request that the session made for it.
RequestIsKnown(s) ==
  /\ s.workflow.state = "Negotiating" /\ s.workflow.id # 0 /\ Shell!Controllable(s) =>
       s.exit # Shell!NoExit /\ s.exit.id = s.workflow.id
  /\ s.exit # Shell!NoExit /\ s.exit.intent = "external" => Shell!Matches(s, s.exit.id)

Placed(s) ==
  ShellTyped(s) /\ QuietOutside(s) /\ WorkflowPlaced(s) /\ LeasePlaced(s)

\* A request waits for the shell exactly while the session waits for it.
EventsTell(s) ==
  s.events = IF s.exit.phase = "AwaitingHandoffDecision"
             THEN <<[kind |-> "request", intent |-> s.exit.intent,
                     id |-> s.exit.id]>>
             ELSE <<>>

\* What holds of the shell and its session between any two handlers.
Sound(s) == Placed(s) /\ RequestIsKnown(s) /\ EventsTell(s)

\* In the middle of draining: the event was taken, the answer is to come.
Asked(s) ==
  /\ Placed(s) /\ RequestIsKnown(s)
  /\ s.exit.phase = "AwaitingHandoffDecision"
  /\ s.events = <<>>

\* The user has called an exit off, and the shell does not know yet.
CalledOff(s, id) ==
  /\ Placed(s)
  /\ Shell!Controllable(s)
  /\ s.exit = Shell!NoExit
  /\ s.workflow.state = "Negotiating" /\ s.workflow.id # 0 =>
       s.workflow.id = id

\* Within a session, nothing undoes that it stops or that it quits, and its
\* lease is as it was.
Onward(s, t) ==
  /\ Shell!Controllable(s) => Shell!Controllable(t)
  /\ s.phase \in {"Stopping", "Closing"} => t.phase = s.phase
  /\ s.quits => t.quits
  /\ t.lease = s.lease

\* A session that was left to quit is the last thing that happens.
Leaving(s) == s.quits /\ s.phase \in {"Stopping", "Closing"}
Left(s) == s.phase = "none" /\ s.workflow = Shell!Idle /\ s.lease = "none"
QuitFirst(s, t) == Leaving(s) => Leaving(t) \/ Left(t)

\* The shell has nothing open, and no question to the user.
Vacant(s) ==
  /\ Tracked \subseteq DOMAIN s
  /\ s.phase = "none" /\ s.exit = Shell!NoExit /\ s.events = <<>>
  /\ s.ids \in Nat \ {0}
  /\ s.workflow = Shell!Idle
  /\ ~s.fallback

\* States that differ in no field that matters here.
Alike(s, t) ==
  /\ Tracked \subseteq DOMAIN t
  /\ \A f \in Tracked : t[f] = s[f]

\* The fields that a handler of an exit never touches.
Beside(s, t) ==
  /\ Tracked \subseteq DOMAIN t
  /\ t.workflow = s.workflow
  /\ t.lease = s.lease
  /\ t.fallback = s.fallback

\* What beginning an exit does to the tracked fields: the user is asked, the
\* shell is asked, or the session stops.
ExitBegun(s, t, intent) ==
  LET id == IF intent \in Shell!Handoffs THEN s.ids ELSE 0
  IN /\ Beside(s, t)
     /\ t.ids = IF intent \in Shell!Handoffs THEN s.ids + 1 ELSE s.ids
     /\ s.quits => t.quits
     /\ \/ /\ t.phase = s.phase /\ t.events = <<>>
           /\ t.exit = [phase |-> "AwaitingConfirmation", id |-> id,
                        intent |-> intent]
        \/ /\ intent \in Shell!Handoffs
           /\ t.phase = s.phase
           /\ t.events = <<[kind |-> "request", intent |-> intent, id |-> id]>>
           /\ t.exit = [phase |-> "AwaitingHandoffDecision", id |-> id,
                        intent |-> intent]
        \/ /\ intent \notin Shell!Handoffs
           /\ t.phase = "Stopping" /\ t.events = <<>>
           /\ t.exit = Shell!NoExit

LEMMA ExitFields ==
  ASSUME NEW s, NEW intent, Tracked \subseteq DOMAIN s, s.exit = Shell!NoExit,
         s.events = <<>>
  PROVE  ExitBegun(s, Shell!BeginExit(s, intent), intent)
<1> USE DEF Tracked, Beside, ExitBegun
<1>1. CASE Shell!NeedsExitConfirmation(s)
  BY <1>1 DEF Shell!BeginExit
<1>2. CASE ~Shell!NeedsExitConfirmation(s) /\ intent \in Shell!Handoffs
  <2>1. \A e : Append(s.events, e) = <<e>>
    OBVIOUS
  <2> QED
    BY <1>2, <2>1 DEF Shell!BeginExit, Shell!RequestDecision
<1>3. CASE ~Shell!NeedsExitConfirmation(s) /\ intent \notin Shell!Handoffs
  BY <1>3 DEF Shell!BeginExit, Shell!FinishLoopExit
<1> QED
  BY <1>1, <1>2, <1>3

\* Beginning an exit, other than for a command of the shell.
LEMMA BeginsExit ==
  ASSUME NEW s, NEW intent \in Intents \ {"external"}, Sound(s), Shell!Controllable(s)
  PROVE  Sound(Shell!BeginExit(s, intent)) /\ Onward(s, Shell!BeginExit(s, intent))
<1> DEFINE t == Shell!BeginExit(s, intent)
<1>1. CASE s.exit # Shell!NoExit
  BY <1>1 DEF Shell!BeginExit, Onward
<1>2. CASE s.exit = Shell!NoExit
  <2> USE DEF Sound, Placed, ShellTyped
  <2>1. ExitBegun(s, t, intent)
    BY <1>2, ExitFields DEF EventsTell, Shell!NoExit
  <2> HIDE DEF t
  <2> USE DEF ExitBegun, Beside
  <2>2. ShellTyped(t)
    BY <2>1 DEF WorkflowTyped, ExitTyped, Intents, Shell!Handoffs,
      Shell!NoExit
  <2>3. QuietOutside(t) /\ WorkflowPlaced(t) /\ LeasePlaced(t)
    BY <2>1 DEF QuietOutside, WorkflowPlaced, LeasePlaced, Shell!Controllable,
      Shell!Occupied
  <2>4. RequestIsKnown(t)
    BY <1>2, <2>1 DEF RequestIsKnown, Shell!Controllable, Shell!NoExit,
      Shell!Matches
  <2>5. EventsTell(t)
    BY <2>1 DEF EventsTell, Shell!NoExit
  <2>6. Onward(s, t)
    BY <2>1 DEF Onward, Shell!Controllable
  <2> QED
    BY <2>2, <2>3, <2>4, <2>5, <2>6 DEF t
<1> QED
  BY <1>1, <1>2

\* The user confirms an exit, or the export the user waited for has ended.
LEMMA CompletesExit ==
  ASSUME NEW s, Sound(s), Shell!Controllable(s)
  PROVE  LET t == Shell!CompletePendingExit(s) IN Sound(t) /\ Onward(s, t)
<1> DEFINE t == Shell!CompletePendingExit(s)
<1> USE DEF Sound, Placed, ShellTyped
<1>1. CASE ~Shell!ConfirmationVisible(s) \/ Shell!ExportRunning(s.edits)
  BY <1>1 DEF Shell!CompletePendingExit, Onward
<1>2. CASE Shell!ConfirmationVisible(s) /\ ~Shell!ExportRunning(s.edits)
  <2>1. /\ s.exit.phase = "AwaitingConfirmation" /\ s.exit # Shell!NoExit
        /\ s.events = <<>>
        /\ s.exit.intent \in Shell!Handoffs <=> s.exit.id # 0
        /\ s.exit.intent \in Intents /\ s.exit.id \in Nat
    BY <1>2 DEF Shell!ConfirmationVisible, EventsTell, Shell!NoExit, ExitTyped
  <2>2. /\ Beside(s, t)
        /\ t.ids = s.ids
        /\ s.quits => t.quits
        /\ \/ /\ t.phase = s.phase
              /\ t.events = <<[kind |-> "request", intent |-> s.exit.intent,
                               id |-> s.exit.id]>>
              /\ t.exit = [phase |-> "AwaitingHandoffDecision",
                           id |-> s.exit.id, intent |-> s.exit.intent]
           \/ /\ s.exit.intent \notin Shell!Handoffs
              /\ t.phase = "Stopping" /\ t.events = <<>> /\ t.exit = Shell!NoExit
    <3>1. \A e : Append(s.events, e) = <<e>>
      BY <2>1
    <3>2. CASE s.exit.intent \in Shell!Handoffs
      BY <1>2, <2>1, <3>1, <3>2
         DEF Shell!CompletePendingExit, Shell!RequestDecision, Beside, Tracked
    <3>3. CASE s.exit.intent \notin Shell!Handoffs
      BY <1>2, <2>1, <3>3
         DEF Shell!CompletePendingExit, Shell!FinishLoopExit, Beside, Tracked
    <3> QED
      BY <3>2, <3>3
  <2> HIDE DEF t
  <2> USE DEF Beside
  <2>3. ShellTyped(t)
    BY <2>1, <2>2 DEF WorkflowTyped, ExitTyped
  <2>4. QuietOutside(t) /\ WorkflowPlaced(t) /\ LeasePlaced(t)
    BY <2>2 DEF QuietOutside, WorkflowPlaced, LeasePlaced, Shell!Controllable,
      Shell!Occupied
  <2>5. RequestIsKnown(t)
    BY <2>1, <2>2 DEF RequestIsKnown, Shell!Controllable, Shell!NoExit,
      Shell!Matches
  <2>6. EventsTell(t)
    BY <2>2 DEF EventsTell, Shell!NoExit
  <2>7. Onward(s, t)
    BY <2>2 DEF Onward, Shell!Controllable
  <2> QED
    BY <2>3, <2>4, <2>5, <2>6, <2>7 DEF t
<1> QED
  BY <1>1, <1>2

\* The host's answer ends the wait, and the session when it is accepted.
LEMMA ResolveFields ==
  ASSUME NEW s, NEW id, NEW accepted \in BOOLEAN, Asked(s)
  PROVE  LET t == Shell!ResolveHandoff(s, id, accepted)
         IN  /\ Beside(s, t)
             /\ t.ids = s.ids /\ t.exit = Shell!NoExit /\ t.events = <<>>
             /\ s.quits => t.quits
             /\ t.phase = IF accepted THEN "Stopping" ELSE s.phase
<1> USE DEF Asked, Placed, ShellTyped, Tracked, Beside
<1>1. CASE accepted
  BY <1>1 DEF Shell!ResolveHandoff, Shell!FinishLoopExit
<1>2. CASE ~accepted
  BY <1>2 DEF Shell!ResolveHandoff
<1> QED
  BY <1>1, <1>2

\* A state that differs from an asked one by an answered exit.
LEMMA AnsweredIsSound ==
  ASSUME NEW s, NEW t, Asked(s), Shell!Controllable(s),
         Tracked \subseteq DOMAIN t,
         t.ids = s.ids, t.exit = Shell!NoExit, t.events = <<>>,
         t.lease = s.lease, t.fallback = s.fallback,
         s.quits => t.quits,
         \/ t.phase = s.phase /\ t.workflow.state # "Deferred"
         \/ t.phase = "Stopping",
         WorkflowTyped(t),
         t.workflow.state = "Negotiating" => t.workflow.id = 0,
         t.workflow.state = "Deferred" => t.phase = "Stopping"
  PROVE  Sound(t) /\ Onward(s, t) /\ t.events = <<>>
<1> USE DEF Asked, Placed, ShellTyped
<1>1. ShellTyped(t)
  BY DEF ExitTyped
<1>2. QuietOutside(t) /\ WorkflowPlaced(t) /\ LeasePlaced(t)
  BY DEF QuietOutside, WorkflowPlaced, LeasePlaced, Shell!Controllable,
    Shell!Occupied
<1>3. RequestIsKnown(t) /\ EventsTell(t)
  BY DEF RequestIsKnown, EventsTell, Shell!NoExit
<1>4. Onward(s, t)
  BY DEF Onward, Shell!Controllable
<1> QED
  BY <1>1, <1>2, <1>3, <1>4 DEF Sound

\* The shell answers the session's request: every answer is sound.
LEMMA AnswersRequest ==
  ASSUME NEW s, NEW event, Asked(s),
         event = [kind |-> "request", intent |-> s.exit.intent,
                  id |-> s.exit.id]
  PROVE  \A t \in Shell!HandleEvent(s, event) :
           Sound(t) /\ Onward(s, t) /\ t.events = <<>>
<1> DEFINE id == s.exit.id
           Good(t) == Sound(t) /\ Onward(s, t) /\ t.events = <<>>
<1>1. /\ Shell!Controllable(s) /\ Shell!Resolvable(s, id) /\ s.exit # Shell!NoExit
      /\ s.exit.intent \in Intents /\ id \in Nat
      /\ Tracked \subseteq DOMAIN s /\ WorkflowTyped(s)
  BY DEF Asked, Placed, ShellTyped, QuietOutside, ExitTyped, Shell!NoExit,
    Shell!Resolvable
<1>2. s.workflow.state = "Negotiating" /\ s.workflow.id # 0 => Shell!Matches(s, id)
  BY <1>1 DEF Asked, RequestIsKnown, Shell!Matches
<1>3. Good(Shell!DeclineRequest(s, id))
  <2> DEFINE r == Shell!ResolveHandoff(s, id, FALSE)
             t == [r EXCEPT !.workflow = IF Shell!Matches(s, id) THEN Shell!Idle ELSE @]
  <2>1. /\ Beside(s, r) /\ r.ids = s.ids /\ r.exit = Shell!NoExit /\ r.events = <<>>
        /\ s.quits => r.quits
        /\ r.phase = s.phase
    BY ResolveFields
  <2> HIDE DEF r
  <2>2. /\ Tracked \subseteq DOMAIN t
        /\ t.ids = s.ids /\ t.exit = Shell!NoExit /\ t.events = <<>>
        /\ t.lease = s.lease /\ t.fallback = s.fallback
        /\ s.quits => t.quits
        /\ t.phase = s.phase
        /\ t.workflow = IF Shell!Matches(s, id) THEN Shell!Idle ELSE s.workflow
    BY <2>1 DEF Beside, Tracked
  <2> HIDE DEF t
  <2>3. t.workflow.state = "Deferred" => t.phase = "Stopping"
    BY <1>1, <2>2 DEF Asked, Placed, WorkflowPlaced, Shell!Idle,
      Shell!Controllable
  <2>4. /\ WorkflowTyped(t)
        /\ t.workflow.state = "Negotiating" => t.workflow.id = 0
    BY <1>1, <1>2, <2>2 DEF WorkflowTyped, Shell!Idle
  <2>5. Good(t)
    BY <1>1, <2>2, <2>3, <2>4, AnsweredIsSound
  <2> QED
    BY <1>1, <2>5 DEF Shell!DeclineRequest, r, t
<1>4. ASSUME NEW command \in MediaCommands
      PROVE  Good([Shell!ResolveHandoff(s, id, TRUE)
                     EXCEPT !.workflow = Shell!Deferred(command)])
  <2> DEFINE r == Shell!ResolveHandoff(s, id, TRUE)
             t == [r EXCEPT !.workflow = Shell!Deferred(command)]
  <2>1. /\ Beside(s, r) /\ r.ids = s.ids /\ r.exit = Shell!NoExit /\ r.events = <<>>
        /\ s.quits => r.quits
        /\ r.phase = "Stopping"
    BY ResolveFields
  <2> HIDE DEF r
  <2>2. /\ Tracked \subseteq DOMAIN t
        /\ t.ids = s.ids /\ t.exit = Shell!NoExit /\ t.events = <<>>
        /\ t.lease = s.lease /\ t.fallback = s.fallback
        /\ s.quits => t.quits
        /\ t.phase = "Stopping"
        /\ t.workflow = Shell!Deferred(command)
    BY <2>1 DEF Beside, Tracked
  <2> HIDE DEF t
  <2>3. t.workflow.state = "Deferred" /\ t.workflow.command \in MediaCommands
    BY <1>4, <2>2 DEF Shell!Deferred
  <2>4. WorkflowTyped(t)
    BY <2>3 DEF WorkflowTyped
  <2>5. Good(t)
    BY <1>1, <2>2, <2>3, <2>4, AnsweredIsSound
  <2> QED
    BY <2>5 DEF r, t
<1> HIDE DEF Good
<1>5. CASE s.exit.intent = "external"
  <2>1. Shell!Matches(s, id) /\ s.workflow.command \in MediaCommands
    BY <1>1, <1>5 DEF Asked, RequestIsKnown, Shell!Matches, WorkflowTyped
  <2>2. Shell!HandleEvent(s, event) =
          {[Shell!ResolveHandoff(s, id, TRUE)
              EXCEPT !.workflow = Shell!Deferred(s.workflow.command)]}
    BY <1>1, <1>5, <2>1 DEF Shell!HandleEvent, Shell!AcceptExternalRequest
  <2> QED
    BY <1>4, <2>1, <2>2 DEF Good
<1>6. CASE s.exit.intent # "external"
  <2>1. \A command \in Shell!Commands(s) : Good(Shell!AcceptSessionRequest(s, command, id))
    <3> TAKE command \in Shell!Commands(s)
    <3>1. command \in MediaCommands
      BY DEF Shell!Commands, MediaCommands
    <3>2. CASE s.workflow # Shell!Idle
      BY <1>3, <3>2 DEF Shell!AcceptSessionRequest
    <3>3. CASE s.workflow = Shell!Idle
      BY <1>1, <1>4, <3>1, <3>3 DEF Shell!AcceptSessionRequest
    <3> QED
      BY <3>2, <3>3
  <2>2. ASSUME NEW t \in Shell!HandleEvent(s, event)
        PROVE  Good(t)
    <3>1. \/ t = Shell!DeclineRequest(s, id)
          \/ \E command \in Shell!Commands(s) : t = Shell!AcceptSessionRequest(s, command, id)
      BY <1>6, <2>2 DEF Shell!HandleEvent
    <3> QED
      BY <1>3, <2>1, <3>1
  <2> QED
    BY <2>2 DEF Good
<1> QED
  BY <1>5, <1>6

\* The shell hears that the exit was called off.
LEMMA HearsCalledOff ==
  ASSUME NEW s, NEW id, CalledOff(s, id), s.events = <<>>
  PROVE  \A t \in Shell!HandleEvent(s, [kind |-> "cancel", id |-> id]) :
           Sound(t) /\ Onward(s, t)
<1> DEFINE t == IF Shell!Matches(s, id) THEN [s EXCEPT !.workflow = Shell!Idle] ELSE s
<1> USE DEF CalledOff, Placed, ShellTyped
<1>1. /\ Tracked \subseteq DOMAIN t
      /\ t.phase = s.phase /\ t.exit = Shell!NoExit /\ t.ids = s.ids
      /\ t.events = <<>> /\ t.lease = s.lease /\ t.fallback = s.fallback
      /\ t.quits = s.quits
      /\ t.workflow = IF Shell!Matches(s, id) THEN Shell!Idle ELSE s.workflow
  BY DEF Tracked
<1>2. t.workflow.state = "Negotiating" => t.workflow.id = 0
  BY <1>1 DEF Shell!Matches, Shell!Idle
<1>3. Shell!HandleEvent(s, [kind |-> "cancel", id |-> id]) = {t}
  BY DEF Shell!HandleEvent
<1> HIDE DEF t
<1>4. ShellTyped(t)
  BY <1>1 DEF WorkflowTyped, ExitTyped, Shell!Idle
<1>5. QuietOutside(t) /\ WorkflowPlaced(t) /\ LeasePlaced(t)
  BY <1>1 DEF QuietOutside, WorkflowPlaced, LeasePlaced, Shell!Controllable,
    Shell!Occupied, Shell!Idle
<1>6. RequestIsKnown(t) /\ EventsTell(t)
  BY <1>1, <1>2 DEF RequestIsKnown, EventsTell, Shell!NoExit
<1>7. Onward(s, t)
  BY <1>1 DEF Onward, Shell!Controllable
<1> QED
  BY <1>3, <1>4, <1>5, <1>6, <1>7 DEF Sound

\* Draining leaves no event, whatever the shell answers.
LEMMA DrainsSound ==
  ASSUME NEW s, Sound(s)
  PROVE  \A t \in Shell!DrainEvents(s) : Sound(t) /\ Onward(s, t) /\ t.events = <<>>
<1> DEFINE taken == [s EXCEPT !.events = <<>>]
<1> USE DEF Sound, Placed, ShellTyped
<1>1. CASE ~Shell!Controllable(s)
  BY <1>1 DEF Shell!DrainEvents, QuietOutside, Onward
<1>2. CASE Shell!Controllable(s)
  <2>1. /\ Tracked \subseteq DOMAIN taken
        /\ taken.phase = s.phase /\ taken.exit = s.exit /\ taken.ids = s.ids
        /\ taken.events = <<>> /\ taken.lease = s.lease
        /\ taken.fallback = s.fallback /\ taken.quits = s.quits
        /\ taken.workflow = s.workflow
    BY DEF Tracked
  <2>2. CASE s.exit.phase = "AwaitingHandoffDecision"
    <3> DEFINE event == [kind |-> "request", intent |-> s.exit.intent,
                         id |-> s.exit.id]
    <3>1. Shell!DrainEvents(s) = Shell!HandleEvent(taken, event)
      BY <1>2, <2>2, DrainsOne DEF EventsTell
    <3> HIDE DEF taken
    <3>2. Asked(taken)
      BY <1>2, <2>1, <2>2 DEF Asked, WorkflowTyped, ExitTyped, QuietOutside,
        WorkflowPlaced, LeasePlaced, RequestIsKnown, Shell!Controllable,
        Shell!Occupied, Shell!Matches
    <3>3. event = [kind |-> "request", intent |-> taken.exit.intent,
                   id |-> taken.exit.id]
      BY <2>1
    <3>4. \A t \in Shell!HandleEvent(taken, event) :
            Sound(t) /\ Onward(taken, t) /\ t.events = <<>>
      BY <3>2, <3>3, AnswersRequest
    <3>5. \A t : Onward(taken, t) => Onward(s, t)
      BY <2>1 DEF Onward, Shell!Controllable
    <3> QED
      BY <3>1, <3>4, <3>5
  <2>3. CASE s.exit.phase # "AwaitingHandoffDecision"
    <3>1. Shell!DrainEvents(s) = {taken}
      BY <1>2, <2>3, DrainsNone DEF EventsTell
    <3> HIDE DEF taken
    <3>2. Placed(taken) /\ RequestIsKnown(taken) /\ EventsTell(taken)
      BY <1>2, <2>1, <2>3 DEF WorkflowTyped, ExitTyped, QuietOutside,
        WorkflowPlaced, EventsTell, LeasePlaced, RequestIsKnown,
        Shell!Controllable, Shell!Occupied, Shell!Matches
    <3>3. Onward(s, taken)
      BY <2>1 DEF Onward, Shell!Controllable
    <3> QED
      BY <2>1, <3>1, <3>2, <3>3
  <2> QED
    BY <2>2, <2>3
<1> QED
  BY <1>1, <1>2

\* The user calls an exit off, and the shell hears of it.
LEMMA CancelsSound ==
  ASSUME NEW s, Sound(s), Shell!Controllable(s), Shell!ConfirmationVisible(s)
  PROVE  \A t \in Shell!DrainEvents(Shell!CancelPendingExit(s)) : Sound(t) /\ Onward(s, t)
<1> DEFINE c == Shell!CancelPendingExit(s)
           id == s.exit.id
           event == [kind |-> "cancel", id |-> id]
           taken == [c EXCEPT !.events = <<>>]
<1> USE DEF Sound, Placed, ShellTyped
<1>1. /\ s.events = <<>> /\ s.exit # Shell!NoExit
      /\ Append(s.events, event) = <<event>>
  BY DEF EventsTell, Shell!ConfirmationVisible, Shell!NoExit
<1>2. /\ Tracked \subseteq DOMAIN c
      /\ c.phase = s.phase /\ c.exit = Shell!NoExit /\ c.ids = s.ids
      /\ c.lease = s.lease /\ c.fallback = s.fallback /\ c.quits = s.quits
      /\ c.workflow = s.workflow
      /\ c.events = IF id = 0 THEN <<>> ELSE <<event>>
  BY <1>1 DEF Shell!CancelPendingExit, Tracked
<1>3. Shell!Controllable(c)
  BY <1>2 DEF Shell!Controllable
<1> HIDE DEF c
<1>4. ShellTyped(c) /\ QuietOutside(c) /\ WorkflowPlaced(c) /\ LeasePlaced(c)
  BY <1>2, <1>3 DEF WorkflowTyped, ExitTyped, QuietOutside, WorkflowPlaced,
    LeasePlaced, Shell!Occupied
<1>5. s.workflow.state = "Negotiating" /\ s.workflow.id # 0 =>
        s.workflow.id = id
  BY <1>1 DEF RequestIsKnown
<1>6. CASE id = 0
  <2>1. Sound(c) /\ Onward(s, c)
    BY <1>2, <1>4, <1>5, <1>6 DEF RequestIsKnown, EventsTell, Shell!NoExit,
      Onward, Shell!Controllable
  <2>2. \A t \in Shell!DrainEvents(c) : Sound(t) /\ Onward(c, t)
    BY <2>1, DrainsSound
  <2> QED
    BY <1>2, <2>2 DEF c, Onward, Shell!Controllable
<1>7. CASE id # 0
  <2>1. Shell!DrainEvents(c) = Shell!HandleEvent(taken, event)
    BY <1>2, <1>3, <1>7, DrainsOne
  <2>2. /\ Tracked \subseteq DOMAIN taken
        /\ taken.phase = s.phase /\ taken.exit = Shell!NoExit /\ taken.ids = s.ids
        /\ taken.lease = s.lease /\ taken.fallback = s.fallback
        /\ taken.quits = s.quits /\ taken.workflow = s.workflow
        /\ taken.events = <<>>
    BY <1>2 DEF Tracked
  <2> HIDE DEF taken
  <2>3. CalledOff(taken, id)
    BY <1>5, <2>2 DEF CalledOff, WorkflowTyped, ExitTyped, QuietOutside,
      WorkflowPlaced, LeasePlaced, Shell!Occupied, Shell!Controllable
  <2>4. \A t \in Shell!HandleEvent(taken, event) : Sound(t) /\ Onward(taken, t)
    BY <2>2, <2>3, HearsCalledOff
  <2> QED
    BY <2>1, <2>2, <2>4 DEF c, Onward, Shell!Controllable
<1> QED
  BY <1>6, <1>7

\* A command that has no request yet makes one, or is dropped.
LEMMA ResumesSound ==
  ASSUME NEW s, Sound(s)
  PROVE  \A t \in Shell!ResumeHandoff(s) : Sound(t) /\ Onward(s, t)
<1> USE DEF Sound, Placed, ShellTyped
<1>1. CASE ~Shell!Matches(s, 0) \/ Shell!CapturesInput(s)
  BY <1>1 DEF Shell!ResumeHandoff, Onward
<1>2. CASE Shell!Matches(s, 0) /\ ~Shell!CapturesInput(s) /\ s.exit # Shell!NoExit
  <2> DEFINE r == [s EXCEPT !.workflow = Shell!Idle]
  <2>1. /\ Tracked \subseteq DOMAIN r
        /\ r.phase = s.phase /\ r.exit = s.exit /\ r.ids = s.ids
        /\ r.lease = s.lease /\ r.fallback = s.fallback /\ r.quits = s.quits
        /\ r.workflow = Shell!Idle /\ r.events = s.events
    BY DEF Tracked
  <2>2. Shell!Controllable(s) /\ s.workflow.id = 0
    BY <1>2 DEF Shell!CapturesInput, Shell!Matches
  <2>3. Shell!ResumeHandoff(s) = Shell!DrainEvents(r)
    BY <1>2 DEF Shell!ResumeHandoff
  <2> HIDE DEF r
  <2>4. ShellTyped(r)
    BY <2>1 DEF WorkflowTyped, ExitTyped, Shell!Idle
  <2>5. QuietOutside(r) /\ WorkflowPlaced(r) /\ LeasePlaced(r)
    BY <1>2, <2>1 DEF QuietOutside, WorkflowPlaced, LeasePlaced,
      Shell!Occupied, Shell!Controllable, Shell!Idle, Shell!Matches
  <2>6. RequestIsKnown(r)
    <3>1. s.exit.intent # "external"
      BY <1>2, <2>2 DEF RequestIsKnown, ExitTyped, Shell!Matches,
        Shell!Handoffs
    <3> QED
      BY <2>1, <3>1 DEF RequestIsKnown, Shell!Idle
  <2>7. EventsTell(r) /\ Onward(s, r)
    BY <2>1 DEF EventsTell, Onward, Shell!Controllable
  <2>8. \A t \in Shell!DrainEvents(r) : Sound(t) /\ Onward(r, t)
    BY <2>4, <2>5, <2>6, <2>7, DrainsSound
  <2> QED
    BY <2>1, <2>3, <2>8 DEF Onward, Shell!Controllable
<1>3. CASE Shell!Matches(s, 0) /\ ~Shell!CapturesInput(s) /\ s.exit = Shell!NoExit
  <2> DEFINE b == Shell!BeginExit(s, "external")
             r == [b EXCEPT !.workflow.id = s.ids]
  <2>1. ExitBegun(s, b, "external")
    BY <1>3, ExitFields DEF EventsTell, Shell!NoExit
  <2>2. Shell!Controllable(s) /\ s.workflow.state = "Negotiating" /\ s.ids # 0
    BY <1>3 DEF Shell!CapturesInput, Shell!Matches
  <2>3. Shell!ResumeHandoff(s) = Shell!DrainEvents(r)
    BY <1>3 DEF Shell!ResumeHandoff
  <2> HIDE DEF b
  <2>4. /\ Tracked \subseteq DOMAIN r
        /\ r.phase = s.phase /\ r.lease = s.lease /\ r.fallback = s.fallback
        /\ s.quits => r.quits
        /\ r.ids = s.ids + 1
        /\ r.workflow = [s.workflow EXCEPT !.id = s.ids]
        /\ \/ /\ r.events = <<>>
              /\ r.exit = [phase |-> "AwaitingConfirmation", id |-> s.ids,
                           intent |-> "external"]
           \/ /\ r.events = <<[kind |-> "request", intent |-> "external",
                               id |-> s.ids]>>
              /\ r.exit = [phase |-> "AwaitingHandoffDecision", id |-> s.ids,
                           intent |-> "external"]
    BY <2>1 DEF ExitBegun, Beside, Tracked, Shell!Handoffs
  <2> HIDE DEF r
  <2>5. /\ r.workflow.state = "Negotiating" /\ r.workflow.id = s.ids
        /\ r.workflow.command = s.workflow.command
        /\ "id" \in DOMAIN r.workflow
    BY <2>2, <2>4 DEF WorkflowTyped
  <2>6. ShellTyped(r)
    BY <2>2, <2>4, <2>5 DEF WorkflowTyped, ExitTyped, Shell!Idle, Intents,
      Shell!Handoffs
  <2>7. QuietOutside(r) /\ WorkflowPlaced(r) /\ LeasePlaced(r)
    BY <2>2, <2>4, <2>5 DEF QuietOutside, WorkflowPlaced, LeasePlaced,
      Shell!Occupied, Shell!Controllable
  <2>8. RequestIsKnown(r)
    BY <2>2, <2>4, <2>5 DEF RequestIsKnown, Shell!Matches, Shell!NoExit
  <2>9. EventsTell(r) /\ Onward(s, r)
    BY <2>4 DEF EventsTell, Onward, Shell!Controllable
  <2>10. \A t \in Shell!DrainEvents(r) : Sound(t) /\ Onward(r, t)
    BY <2>6, <2>7, <2>8, <2>9, DrainsSound
  <2>11. \A t : Onward(r, t) => Onward(s, t)
    BY <2>9 DEF Onward, Shell!Controllable
  <2> QED
    BY <2>3, <2>10, <2>11
<1> QED
  BY <1>1, <1>2, <1>3

\* What the coordinator does after every input.
LEMMA DrainResumeSound ==
  ASSUME NEW s, Sound(s)
  PROVE  \A t \in Shell!DrainAndResume(s) : Sound(t) /\ Onward(s, t)
<1>1. \A u \in Shell!DrainEvents(s) : Sound(u) /\ Onward(s, u)
  BY DrainsSound
<1>2. \A t \in Shell!DrainAndResume(s) : \E u \in Shell!DrainEvents(s) :
        t \in Shell!ResumeHandoff(u)
  BY DEF Shell!DrainAndResume, Shell!Then
<1>3. \A u \in Shell!DrainEvents(s) : \A t \in Shell!ResumeHandoff(u) :
        Sound(t) /\ Onward(u, t)
  BY <1>1, ResumesSound
<1>4. \A u, t : Onward(s, u) /\ Onward(u, t) => Onward(s, t)
  BY DEF Onward
<1> QED
  BY <1>1, <1>2, <1>3, <1>4

LEMMA AlikeIsSound ==
  ASSUME NEW s, NEW t, Sound(s), Alike(s, t)
  PROVE  Sound(t) /\ Onward(s, t) /\ Onward(t, s)
<1>1. /\ t.phase = s.phase /\ t.exit = s.exit /\ t.ids = s.ids
      /\ t.events = s.events /\ t.workflow = s.workflow /\ t.lease = s.lease
      /\ t.fallback = s.fallback /\ t.quits = s.quits
      /\ Tracked \subseteq DOMAIN t
  BY DEF Alike, Tracked
<1>2. ShellTyped(t) /\ QuietOutside(t)
  BY <1>1 DEF Sound, Placed, ShellTyped, WorkflowTyped, ExitTyped,
    QuietOutside, Shell!Controllable
<1>3. WorkflowPlaced(t) /\ LeasePlaced(t)
  BY <1>1 DEF Sound, Placed, WorkflowPlaced, LeasePlaced, Shell!Occupied
<1>4. RequestIsKnown(t) /\ EventsTell(t)
  BY <1>1 DEF Sound, RequestIsKnown, EventsTell, Shell!Matches,
    Shell!Controllable
<1> QED
  BY <1>1, <1>2, <1>3, <1>4 DEF Sound, Placed, Onward, Shell!Controllable

LEMMA OnwardAgain ==
  ASSUME NEW s, NEW t, NEW u, Onward(s, t), Onward(t, u)
  PROVE  Onward(s, u)
BY DEF Onward

\* A session goes on: whether it was left to quit is not forgotten.
LEMMA OnwardQuits ==
  ASSUME NEW s, NEW t, Onward(s, t)
  PROVE  Leaving(s) => Leaving(t)
BY DEF Onward, Leaving

\* Files that were dropped while something was in the way.
LEMMA DropsSound ==
  ASSUME NEW s, Sound(s)
  PROVE  LET t == Shell!ResumeDeferredDrop(s) IN Sound(t) /\ Onward(s, t)
<1> DEFINE u == [s EXCEPT !.drops = @ - 1]
<1>1. CASE s.drops > 0 /\ Shell!NativeFileDropAccepted(s)
  <2>1. Alike(s, u)
    BY DEF Alike, Tracked, Sound, Placed, ShellTyped
  <2>2. Shell!Controllable(s)
    BY <1>1 DEF Shell!NativeFileDropAccepted, Shell!CapturesInput
  <2>3. Shell!ResumeDeferredDrop(s) = Shell!BeginExit(u, "openFiles")
    BY <1>1 DEF Shell!ResumeDeferredDrop
  <2> HIDE DEF u
  <2>4. Sound(u) /\ Onward(s, u) /\ Shell!Controllable(u)
    BY <2>1, <2>2, AlikeIsSound DEF Onward
  <2>5. "openFiles" \in Intents \ {"external"}
    BY DEF Intents, Shell!Handoffs
  <2>6. Sound(Shell!BeginExit(u, "openFiles")) /\ Onward(u, Shell!BeginExit(u, "openFiles"))
    BY <2>4, <2>5, BeginsExit
  <2> QED
    BY <2>3, <2>4, <2>6, OnwardAgain
<1>2. CASE ~(s.drops > 0 /\ Shell!NativeFileDropAccepted(s))
  BY <1>2 DEF Shell!ResumeDeferredDrop, Onward
<1> QED
  BY <1>1, <1>2

\* What an export left is applied, and the user may have waited for it.
LEMMA PollsExport ==
  ASSUME NEW s, Sound(s), Shell!Controllable(s)
  PROVE  LET t == Shell!PollExport(s) IN Sound(t) /\ Onward(s, t)
<1> DEFINE u == [s EXCEPT !.edits = Shell!TakeExportCompletion(@)]
           v == [u EXCEPT !.armed = FALSE]
<1>1. Alike(s, u) /\ Alike(s, v)
  BY DEF Alike, Tracked, Sound, Placed, ShellTyped
<1>2. Shell!PollExport(s) \in {u, v, Shell!CompletePendingExit(v)}
  BY DEF Shell!PollExport
<1> HIDE DEF u, v
<1>3. /\ Sound(u) /\ Onward(s, u)
      /\ Sound(v) /\ Onward(s, v)
      /\ Shell!Controllable(v)
  BY <1>1, AlikeIsSound DEF Onward
<1>4. LET t == Shell!CompletePendingExit(v) IN Sound(t) /\ Onward(v, t)
  BY <1>3, CompletesExit
<1> QED
  BY <1>2, <1>3, <1>4, OnwardAgain

\* Nothing is open any more, and background work may have the GPU.
LEMMA VacantIsSound ==
  ASSUME NEW s, Vacant(s), s.lease = "none"
  PROVE  Sound(s)
<1>1. ShellTyped(s) /\ QuietOutside(s)
  BY DEF Vacant, ShellTyped, WorkflowTyped, ExitTyped, QuietOutside,
    Shell!Idle
<1>2. WorkflowPlaced(s) /\ LeasePlaced(s)
  BY DEF Vacant, WorkflowPlaced, LeasePlaced, Shell!Occupied, Shell!Idle
<1>3. RequestIsKnown(s) /\ EventsTell(s)
  BY DEF Vacant, RequestIsKnown, EventsTell, Shell!Idle, Shell!NoExit
<1> QED
  BY <1>1, <1>2, <1>3 DEF Sound, Placed

\* A command that waits while nothing is open.
LEMMA WaitingIsSound ==
  ASSUME NEW s, NEW t, NEW command \in MediaCommands, Vacant(s),
         Tracked \subseteq DOMAIN t,
         t.workflow = Shell!Deferred(command),
         \A f \in {"phase", "exit", "events", "ids", "fallback"} : t[f] = s[f]
  PROVE  Sound(t)
<1>1. /\ t.phase = "none" /\ t.exit = Shell!NoExit /\ t.events = <<>>
      /\ t.ids \in Nat \ {0} /\ ~t.fallback
  BY DEF Vacant
<1>2. ShellTyped(t) /\ QuietOutside(t)
  BY <1>1 DEF ShellTyped, WorkflowTyped, ExitTyped, QuietOutside, Shell!Idle,
    Shell!Deferred
<1>3. WorkflowPlaced(t) /\ LeasePlaced(t)
  BY <1>1 DEF WorkflowPlaced, LeasePlaced, Shell!Occupied, Shell!Deferred
<1>4. RequestIsKnown(t) /\ EventsTell(t)
  BY <1>1 DEF RequestIsKnown, EventsTell, Shell!Deferred, Shell!NoExit
<1> QED
  BY <1>2, <1>3, <1>4 DEF Sound, Placed

\* The session is gone with all it kept for itself.
LEMMA DestroyedFields ==
  ASSUME NEW s, Tracked \subseteq DOMAIN s
  PROVE  LET t == Shell!DestroySession(s)
         IN  /\ Tracked \subseteq DOMAIN t
             /\ t.phase = "none" /\ t.exit = Shell!NoExit /\ t.events = <<>>
             /\ t.ids = 1 /\ ~t.quits
             /\ t.workflow = s.workflow /\ t.lease = s.lease
             /\ t.fallback = s.fallback
<1> DEFINE f == Shell!FreshSession(s, "none")
<1>1. /\ Tracked \subseteq DOMAIN f
      /\ f.phase = "none" /\ f.exit = Shell!NoExit /\ f.events = <<>>
      /\ f.ids = 1
      /\ f.workflow = s.workflow /\ f.lease = s.lease
      /\ f.fallback = s.fallback
  BY DEF Shell!FreshSession, Tracked
<1> HIDE DEF f
<1> QED
  BY <1>1 DEF Shell!DestroySession, Tracked, f

LEMMA ReleasedIsSound ==
  ASSUME NEW s, Vacant(s)
  PROVE  /\ Vacant(Shell!Release(s)) /\ Shell!Release(s).lease = "none"
         /\ Sound(Shell!Release(s))
<1>1. Vacant(Shell!Release(s)) /\ Shell!Release(s).lease = "none"
  BY DEF Vacant, Shell!Release, Tracked
<1> QED
  BY <1>1, VacantIsSound

LEMMA RestoreIsAlike ==
  ASSUME NEW s, Tracked \subseteq DOMAIN s
  PROVE  Alike(s, Shell!RestoreDisplacedAudio(s))
BY DEF Alike, Tracked, Shell!RestoreDisplacedAudio

LEMMA AudioIsSound ==
  ASSUME NEW s, Sound(Shell!Release(s))
  PROVE  \A t \in Shell!ActivateAudio(s) : Sound(t)
<1> DEFINE r == Shell!Release(s)
<1>1. Sound(r)
  OBVIOUS
<1> HIDE DEF r
<1>2. \A t \in Shell!ActivateAudio(s) : Alike(r, t)
  BY <1>1 DEF Shell!ActivateAudio, Alike, Tracked, r, Sound, Placed,
    ShellTyped
<1> QED
  BY <1>1, <1>2, AlikeIsSound

\* An opening ends: the session runs, or it is gone and with it the lease,
\* unless the user is asked about a fallback.
LEMMA OpensSound ==
  ASSUME NEW s, NEW outcome, Sound(s), Shell!Opening(s)
  PROVE  \A t \in Shell!FinishVideoOpen(s, outcome) : Sound(t)
<1> USE DEF Sound, Placed, ShellTyped
<1>1. /\ s.exit = Shell!NoExit /\ s.events = <<>> /\ s.workflow = Shell!Idle
      /\ s.lease = "ready" /\ ~s.fallback /\ Tracked \subseteq DOMAIN s
  BY DEF Shell!Opening, QuietOutside, Shell!Controllable, WorkflowPlaced,
    WorkflowTyped, LeasePlaced, Shell!Occupied
<1>2. CASE outcome = "ready"
  <2> SUFFICES ASSUME NEW t \in Shell!FinishVideoOpen(s, outcome) PROVE Sound(t)
    OBVIOUS
  <2>1. /\ t.phase = "Running" /\ t.exit = Shell!NoExit /\ t.events = <<>>
        /\ t.workflow = Shell!Idle /\ t.lease = "ready" /\ ~t.fallback
        /\ t.ids = s.ids /\ Tracked \subseteq DOMAIN t
    BY <1>1, <1>2 DEF Shell!FinishVideoOpen, Tracked
  <2> QED
    BY <2>1 DEF WorkflowTyped, ExitTyped, QuietOutside, WorkflowPlaced,
      Shell!Idle, LeasePlaced, Shell!Occupied, RequestIsKnown, EventsTell,
      Shell!NoExit, Shell!Controllable
<1>3. CASE outcome # "ready"
  <2> DEFINE d == Shell!DestroySession(s)
  <2>1. Vacant(d) /\ d.lease = "ready"
    BY <1>1, DestroyedFields DEF Vacant
  <2>2. Vacant(Shell!Release(d)) /\ Shell!Release(d).lease = "none" /\ Sound(Shell!Release(d))
    BY <2>1, ReleasedIsSound
  <2> HIDE DEF d
  <2>3. CASE outcome = "fallback"
    <3> DEFINE f == [d EXCEPT !.fallback = TRUE]
    <3>1. Shell!FinishVideoOpen(s, outcome) = {Shell!RestoreDisplacedAudio(f)}
      BY <1>3, <2>3 DEF Shell!FinishVideoOpen, d
    <3>2. /\ f.phase = "none" /\ f.exit = Shell!NoExit /\ f.events = <<>>
          /\ f.workflow = Shell!Idle /\ f.lease = "ready" /\ f.fallback
          /\ f.ids = d.ids /\ Tracked \subseteq DOMAIN f
      BY <2>1 DEF Vacant, Tracked
    <3> HIDE DEF f
    <3>3. Sound(f)
      BY <2>1, <3>2 DEF Vacant, WorkflowTyped, ExitTyped, QuietOutside,
        WorkflowPlaced, Shell!Idle, LeasePlaced, Shell!Occupied,
        RequestIsKnown, EventsTell, Shell!NoExit
    <3> QED
      BY <3>1, <3>2, <3>3, RestoreIsAlike, AlikeIsSound
  <2>4. CASE outcome = "quit"
    <3> DEFINE q == [Shell!Release(d) EXCEPT !.displaced = FALSE,
                                       !.workflow = Shell!Deferred("quit")]
    <3>1. Shell!FinishVideoOpen(s, outcome) = {q}
      BY <1>3, <2>4 DEF Shell!FinishVideoOpen, d
    <3>2. /\ Tracked \subseteq DOMAIN q /\ q.workflow = Shell!Deferred("quit")
          /\ \A f \in {"phase", "exit", "events", "ids", "fallback"} :
               q[f] = Shell!Release(d)[f]
      BY <2>2 DEF Vacant, Tracked
    <3>3. "quit" \in MediaCommands
      BY DEF MediaCommands
    <3> HIDE DEF q
    <3>4. Sound(q)
      BY <2>2, <3>2, <3>3, WaitingIsSound
    <3> QED
      BY <3>1, <3>4
  <2>5. CASE outcome \notin {"fallback", "quit"}
    <3>1. Shell!FinishVideoOpen(s, outcome) = {Shell!RestoreDisplacedAudio(Shell!Release(d))}
      BY <1>3, <2>5 DEF Shell!FinishVideoOpen, d
    <3> QED
      BY <2>2, <3>1, RestoreIsAlike, AlikeIsSound
  <2> QED
    BY <2>3, <2>4, <2>5
<1> QED
  BY <1>2, <1>3

\* A video with its lease opens a session.
LEMMA StartsSound ==
  ASSUME NEW s, Vacant(s), s.lease = "ready"
  PROVE  \A t \in Shell!StartVideo(s) : Sound(t)
<1> DEFINE b == [s EXCEPT !.displaced = s.control /\ s.audio = "file",
                          !.control = FALSE]
           o == [b EXCEPT !.started = @ + 1, !.phase = "Opening"]
<1>1. Vacant(b)
  BY DEF Vacant, Tracked
<1>2. /\ o.phase = "Opening" /\ o.exit = Shell!NoExit /\ o.events = <<>>
      /\ o.workflow = Shell!Idle /\ o.lease = "ready" /\ ~o.fallback
      /\ o.ids \in Nat \ {0} /\ Tracked \subseteq DOMAIN o
  BY DEF Vacant, Tracked
<1>3. \A t \in Shell!StartVideo(s) :
        \/ t = Shell!RestoreDisplacedAudio(Shell!Release(b))
        \/ t = o
        \/ \E outcome : t \in Shell!FinishVideoOpen(o, outcome)
  BY DEF Shell!StartVideo, Shell!Then
<1> HIDE DEF b, o
<1>4. Sound(Shell!RestoreDisplacedAudio(Shell!Release(b)))
  BY <1>1, ReleasedIsSound, RestoreIsAlike, AlikeIsSound DEF Vacant
<1>5. Sound(o)
  BY <1>2 DEF Sound, Placed, ShellTyped, WorkflowTyped, ExitTyped,
    QuietOutside, WorkflowPlaced, Shell!Idle, LeasePlaced, Shell!Occupied,
    RequestIsKnown, EventsTell, Shell!NoExit, Shell!Controllable
<1>6. \A outcome : \A t \in Shell!FinishVideoOpen(o, outcome) : Sound(t)
  BY <1>2, <1>5, OpensSound DEF Shell!Opening
<1> QED
  BY <1>3, <1>4, <1>5, <1>6

\* A command is carried out while nothing is open.
LEMMA DispatchesSound ==
  ASSUME NEW s, NEW command \in MediaCommands, Vacant(s)
  PROVE  \A t \in Shell!Dispatch(s, command) : Sound(t)
<1>1. CASE command = "audio"
  BY <1>1, AudioIsSound, ReleasedIsSound DEF Shell!Dispatch
<1>2. CASE command \in {"browse", "quit"}
  BY <1>2, ReleasedIsSound DEF Shell!Dispatch
<1>3. CASE command = "video"
  <2> DEFINE waits == [s EXCEPT !.lease = "held", !.workflow = Shell!Deferred(command)]
             ready == [s EXCEPT !.lease = "ready"]
  <2>1. \A t \in Shell!Dispatch(s, command) : t = waits \/ t \in Shell!StartVideo(ready)
    BY <1>3 DEF Shell!Dispatch
  <2>2. Vacant(ready) /\ ready.lease = "ready"
    BY DEF Vacant, Tracked
  <2>3. /\ Tracked \subseteq DOMAIN waits /\ waits.workflow = Shell!Deferred(command)
        /\ \A f \in {"phase", "exit", "events", "ids", "fallback"} :
             waits[f] = s[f]
    BY DEF Vacant, Tracked
  <2> HIDE DEF waits, ready
  <2> QED
    BY <2>1, <2>2, <2>3, WaitingIsSound, StartsSound
<1> QED
  BY <1>1, <1>2, <1>3 DEF MediaCommands

\* The command that waited runs when nothing is open any more.
LEMMA RunsDeferred ==
  ASSUME NEW s, Sound(s)
  PROVE  \A t \in Shell!ResumeDeferredCommand(s) : Sound(t)
<1>1. CASE s.workflow.state = "Deferred" /\ ~Shell!Occupied(s) /\ ~s.fallback
  <2> DEFINE v == [s EXCEPT !.workflow = Shell!Idle]
  <2>1. Vacant(v)
    BY <1>1 DEF Vacant, Tracked, Sound, Placed, ShellTyped, QuietOutside,
      Shell!Occupied, Shell!Controllable
  <2>2. s.workflow.command \in MediaCommands
    BY <1>1 DEF Sound, Placed, ShellTyped, WorkflowTyped
  <2>3. Shell!ResumeDeferredCommand(s) = Shell!Dispatch(v, s.workflow.command)
    BY <1>1 DEF Shell!ResumeDeferredCommand
  <2> HIDE DEF v
  <2> QED
    BY <2>1, <2>2, <2>3, DispatchesSound
<1>2. CASE ~(s.workflow.state = "Deferred" /\ ~Shell!Occupied(s) /\ ~s.fallback)
  BY <1>2 DEF Shell!ResumeDeferredCommand
<1> QED
  BY <1>1, <1>2

\* The session begins to close: what waits for its end goes on waiting.
LEMMA ClosesSound ==
  ASSUME NEW s, Sound(s), Shell!Occupied(s), ~Shell!Opening(s)
  PROVE  LET t == Shell!BeginClosing(s)
         IN Sound(t) /\ t.phase = "Closing" /\ (Leaving(s) => Leaving(t))
<1> DEFINE t == Shell!BeginClosing(s)
<1> USE DEF Sound, Placed, ShellTyped
<1>1. /\ Tracked \subseteq DOMAIN t
      /\ t.phase = "Closing" /\ t.exit = Shell!NoExit /\ t.events = <<>> /\ t.ids = 1
      /\ t.workflow = s.workflow /\ t.lease = s.lease
      /\ t.fallback = s.fallback /\ t.quits = s.quits
  BY DEF Shell!BeginClosing, Shell!FreshSession, Tracked
<1> HIDE DEF t
<1>2. ShellTyped(t)
  BY <1>1 DEF WorkflowTyped, ExitTyped
<1>3. QuietOutside(t) /\ WorkflowPlaced(t) /\ LeasePlaced(t)
  BY <1>1 DEF QuietOutside, WorkflowPlaced, LeasePlaced, Shell!Occupied,
    Shell!Controllable
<1>4. RequestIsKnown(t) /\ EventsTell(t)
  BY <1>1 DEF RequestIsKnown, EventsTell, Shell!NoExit, Shell!Controllable
<1> QED
  BY <1>1, <1>2, <1>3, <1>4 DEF t, Leaving

\* The session has ended: a quit runs now, whatever waited for the end.
LEMMA FinishesSound ==
  ASSUME NEW s, Sound(s), s.phase = "Closing"
  PROVE  \A t \in Shell!FinishSession(s) : Sound(t) /\ (s.quits => Left(t))
<1> DEFINE c == [s EXCEPT !.control = FALSE]
           d == Shell!DestroySession(c)
           next == IF s.quits THEN Shell!Deferred("quit")
                   ELSE CASE d.workflow.state = "HandoffFault" -> Shell!Idle
                          [] d.workflow.state = "Negotiating" ->
                               Shell!Deferred(d.workflow.command)
                          [] OTHER -> d.workflow
           u == [d EXCEPT !.workflow = next]
           v == IF u.workflow.state = "Deferred" THEN u ELSE Shell!Release(u)
<1> USE DEF Sound, Placed, ShellTyped
<1>1. /\ Tracked \subseteq DOMAIN c
      /\ c.workflow = s.workflow /\ c.lease = s.lease
      /\ c.fallback = s.fallback
  BY DEF Tracked
<1>2. Shell!FinishSession(s) = Shell!ResumeDeferredCommand(v)
  BY DEF Shell!FinishSession
<1> HIDE DEF c
<1>3. /\ Tracked \subseteq DOMAIN d
      /\ d.phase = "none" /\ d.exit = Shell!NoExit /\ d.events = <<>> /\ d.ids = 1
      /\ d.workflow = s.workflow /\ ~d.fallback
  BY <1>1, DestroyedFields DEF LeasePlaced, Shell!Occupied
<1> HIDE DEF d
<1>4. \/ next = Shell!Idle /\ ~s.quits
      \/ /\ next.state = "Deferred" /\ next.command \in MediaCommands
         /\ s.quits => next.command = "quit"
  <2>1. CASE s.quits
    BY <2>1 DEF MediaCommands, Shell!Deferred
  <2>2. CASE ~s.quits /\ s.workflow.state = "Negotiating"
    BY <1>3, <2>2 DEF WorkflowTyped, Shell!Deferred
  <2>3. CASE ~s.quits /\ s.workflow.state = "Idle"
    BY <1>3, <2>3 DEF WorkflowTyped
  <2>4. CASE ~s.quits /\ s.workflow.state = "Deferred"
    BY <1>3, <2>4 DEF WorkflowTyped
  <2> QED
    BY <2>1, <2>2, <2>3, <2>4 DEF WorkflowTyped
<1> HIDE DEF next
<1>5. /\ Tracked \subseteq DOMAIN u
      /\ u.phase = "none" /\ u.exit = Shell!NoExit /\ u.events = <<>> /\ u.ids = 1
      /\ ~u.fallback /\ u.workflow = next
  BY <1>3 DEF Tracked
<1> HIDE DEF u
<1>6. CASE next = Shell!Idle /\ ~s.quits
  <2>1. v = Shell!Release(u)
    BY <1>5, <1>6 DEF Shell!Idle
  <2>2. Sound(v)
    BY <1>5, <1>6, <2>1, ReleasedIsSound DEF Vacant
  <2> HIDE DEF v
  <2> QED
    BY <1>2, <1>6, <2>2, RunsDeferred
<1>7. CASE /\ next.state = "Deferred" /\ next.command \in MediaCommands
           /\ s.quits => next.command = "quit"
  <2> DEFINE i == [u EXCEPT !.workflow = Shell!Idle]
  <2>1. v = u
    BY <1>5, <1>7
  <2>2. Vacant(i)
    BY <1>5 DEF Vacant, Tracked
  <2> HIDE DEF v
  <2>3. Shell!ResumeDeferredCommand(u) = Shell!Dispatch(i, next.command)
    BY <1>5, <1>7 DEF Shell!ResumeDeferredCommand, Shell!Occupied
  <2> HIDE DEF i
  <2>4. \A t \in Shell!Dispatch(i, next.command) : Sound(t)
    BY <1>7, <2>2, DispatchesSound
  <2>5. s.quits => Shell!Dispatch(i, next.command) = {Shell!Release(i)}
    BY <1>7 DEF Shell!Dispatch
  <2>6. Left(Shell!Release(i))
    BY <2>2, ReleasedIsSound DEF Left, Vacant
  <2> QED
    BY <1>2, <2>1, <2>3, <2>4, <2>5, <2>6
<1> QED
  BY <1>4, <1>6, <1>7

\* One turn of the session's loop.
LEMMA LoopSound ==
  ASSUME NEW s, Sound(s), Shell!Occupied(s), ~Shell!Opening(s)
  PROVE  \A t \in Shell!PumpLoop(s) : Sound(t) /\ (Leaving(s) => Leaving(t))
<1>1. CASE s.phase # "Running"
  BY <1>1, ClosesSound DEF Shell!PumpLoop
<1>2. CASE s.phase = "Running"
  <2> DEFINE p == Shell!PollExport(s)
             b == Shell!BeginExit(p, "stop")
             Ended(u) == IF u.phase = "Stopping" \/ u.failed
                         THEN Shell!BeginClosing(u) ELSE u
  <2>1. Shell!Controllable(s) /\ ~Leaving(s)
    BY <1>2 DEF Shell!Controllable, Leaving
  <2>2. Sound(p) /\ Shell!Controllable(p)
    BY <2>1, PollsExport DEF Onward
  <2>3. \A t \in Shell!PumpLoop(s) : t = Ended(p) \/ t = Ended(b)
    BY <1>2 DEF Shell!PumpLoop, Shell!Then
  <2> HIDE DEF p
  <2>4. "stop" \in Intents \ {"external"}
    BY DEF Intents, Shell!Handoffs
  <2>5. Sound(b) /\ Shell!Controllable(b)
    BY <2>2, <2>4, BeginsExit DEF Onward
  <2> HIDE DEF b
  <2>6. \A u : Sound(u) /\ Shell!Controllable(u) => Sound(Ended(u))
    BY ClosesSound DEF Shell!Controllable, Shell!Occupied, Shell!Opening
  <2> QED
    BY <2>1, <2>2, <2>3, <2>5, <2>6
<1> QED
  BY <1>1, <1>2

LEMMA PlaybackSound ==
  ASSUME NEW s, Sound(s), Shell!Occupied(s), ~Shell!Opening(s)
  PROVE  \A t \in Shell!PumpPlayback(s) : Sound(t) /\ QuitFirst(s, t)
<1> SUFFICES ASSUME NEW t \in Shell!PumpPlayback(s)
             PROVE  Sound(t) /\ QuitFirst(s, t)
  OBVIOUS
<1>1. PICK u \in Shell!PumpLoop(s) :
        \/ u.phase = "Closing" /\ t \in Shell!FinishSession(u)
        \/ t \in Shell!DrainAndResume(u)
  BY DEF Shell!PumpPlayback, Shell!Then
<1>2. Sound(u) /\ (Leaving(s) => Leaving(u))
  BY LoopSound
<1>3. CASE u.phase = "Closing" /\ t \in Shell!FinishSession(u)
  BY <1>2, <1>3, FinishesSound DEF QuitFirst, Leaving
<1>4. CASE t \in Shell!DrainAndResume(u)
  BY <1>2, <1>4, DrainResumeSound, OnwardQuits DEF QuitFirst
<1> QED
  BY <1>1, <1>3, <1>4

\* An opening that ends before the session is ready waits for its worker.
LEMMA BootsSound ==
  ASSUME NEW s, NEW t, NEW outcome, Sound(s), Shell!Opening(s),
         t = [s EXCEPT !.phase = "BootClosing", !.after = outcome]
  PROVE  Sound(t)
<1> USE DEF Sound, Placed, ShellTyped
<1>1. /\ Tracked \subseteq DOMAIN t /\ t.phase = "BootClosing"
      /\ t.exit = s.exit /\ t.events = s.events /\ t.ids = s.ids
      /\ t.workflow = s.workflow /\ t.lease = s.lease
      /\ t.fallback = s.fallback
  BY DEF Tracked
<1>2. ShellTyped(t) /\ QuietOutside(t)
  BY <1>1 DEF WorkflowTyped, ExitTyped, QuietOutside, Shell!Controllable,
    Shell!Opening
<1>3. WorkflowPlaced(t) /\ LeasePlaced(t)
  BY <1>1 DEF WorkflowPlaced, LeasePlaced, Shell!Occupied, Shell!Opening
<1>4. RequestIsKnown(t) /\ EventsTell(t)
  BY <1>1 DEF RequestIsKnown, EventsTell, Shell!Controllable, Shell!Matches,
    QuietOutside, Shell!Opening, Shell!NoExit
<1> QED
  BY <1>2, <1>3, <1>4

LEMMA OpeningLeaves ==
  ASSUME NEW s, NEW t \in Shell!PumpOpen(s)
  PROVE  \/ t = s
         \/ \E outcome :
              t = [s EXCEPT !.phase = "BootClosing", !.after = outcome]
         \/ \E outcome : \E u \in Shell!FinishVideoOpen(s, outcome) :
              t \in Shell!ResumeDeferredCommand(u)
<1>1. CASE s.phase = "BootClosing"
  BY <1>1 DEF Shell!PumpOpen, Shell!Then
<1>2. CASE s.phase # "BootClosing"
  <2>1. ASSUME NEW u \in Shell!Then({"ready", "failure", "fallback"},
                             LAMBDA outcome : Shell!Then(Shell!FinishVideoOpen(s, outcome),
                                                   Shell!ResumeDeferredCommand))
        PROVE  \E outcome : \E v \in Shell!FinishVideoOpen(s, outcome) :
                 u \in Shell!ResumeDeferredCommand(v)
    BY <2>1 DEF Shell!Then
  <2> QED
    BY <1>2, <2>1 DEF Shell!PumpOpen
<1> QED
  BY <1>1, <1>2

LEMMA OpeningSound ==
  ASSUME NEW s, Sound(s), Shell!Opening(s)
  PROVE  \A t \in Shell!PumpOpen(s) : Sound(t)
BY OpeningLeaves, BootsSound, OpensSound, RunsDeferred

LEMMA TaskSound ==
  ASSUME NEW s, Sound(s)
  PROVE  /\ \A t \in Shell!SynchronizeTask(s) : Sound(t) /\ Onward(s, t)
         /\ Left(s) => Shell!SynchronizeTask(s) = {s}
<1> DEFINE u == [s EXCEPT !.task = FALSE]
<1>1. Alike(s, u)
  BY DEF Alike, Tracked, Sound, Placed, ShellTyped
<1>2. \A t \in Shell!SynchronizeTask(s) : t = s \/ t = Shell!ResumeDeferredDrop(u)
  BY DEF Shell!SynchronizeTask
<1> HIDE DEF u
<1>3. Onward(s, s)
  BY DEF Onward
<1>4. Sound(u) /\ Onward(s, u)
  BY <1>1, AlikeIsSound
<1>5. LET t == Shell!ResumeDeferredDrop(u) IN Sound(t) /\ Onward(u, t)
  BY <1>4, DropsSound
<1>6. Left(s) => Shell!SynchronizeTask(s) = {s}
  BY DEF Left, Shell!SynchronizeTask, Shell!Controllable
<1> QED
  BY <1>2, <1>3, <1>4, <1>5, <1>6, OnwardAgain

\* A poll of the shell.
LEMMA PollSound ==
  ASSUME Sound(app), Shell!Poll
  PROVE  Sound(app') /\ QuitFirst(app, app')
<1> DEFINE First == IF Shell!Occupied(app) THEN {app} ELSE Shell!ResumeDeferredCommand(app)
           Pumped(s) == IF ~Shell!Occupied(s) THEN {s}
                        ELSE IF Shell!Opening(s) THEN Shell!PumpOpen(s)
                        ELSE Shell!Then(Shell!DrainAndResume(s), Shell!PumpPlayback)
<1>1. PICK s \in First : \E t \in Pumped(s) : app' \in Shell!SynchronizeTask(t)
  BY DEF Shell!Poll, Shell!Then
<1> HIDE DEF First
<1>2. PICK t \in Pumped(s) : app' \in Shell!SynchronizeTask(t)
  BY <1>1
<1>3. Sound(s) /\ (Leaving(app) => Leaving(s))
  BY RunsDeferred DEF First, Leaving, Shell!Occupied
<1>4. Sound(t) /\ QuitFirst(s, t)
  <2>1. CASE ~Shell!Occupied(s)
    BY <1>3, <2>1 DEF Leaving, QuitFirst, Shell!Occupied
  <2>2. CASE Shell!Occupied(s) /\ Shell!Opening(s)
    BY <1>3, <2>2, OpeningSound DEF Leaving, QuitFirst, Shell!Opening
  <2>3. CASE Shell!Occupied(s) /\ ~Shell!Opening(s)
    <3>1. PICK u \in Shell!DrainAndResume(s) : t \in Shell!PumpPlayback(u)
      BY <2>3 DEF Shell!Then
    <3>2. Sound(u) /\ Onward(s, u)
      BY <1>3, DrainResumeSound
    <3>3. Leaving(s) => Leaving(u)
      BY <3>2, OnwardQuits
    <3>4. Shell!Occupied(u) /\ ~Shell!Opening(u)
      BY <1>3, <2>3, <3>2 DEF Onward, Shell!Occupied, Shell!Opening,
        Shell!Controllable, Sound, Placed, ShellTyped
    <3>5. Sound(t) /\ QuitFirst(u, t)
      BY <3>1, <3>2, <3>4, PlaybackSound
    <3> QED
      BY <3>3, <3>5 DEF QuitFirst
  <2> QED
    BY <2>1, <2>2, <2>3
<1>5. Sound(app') /\ Onward(t, app')
  BY <1>2, <1>4, TaskSound
<1>6. Leaving(t) => Leaving(app')
  BY <1>5, OnwardQuits
<1>7. Left(t) => app' = t
  BY <1>2, <1>4, TaskSound
<1> QED
  BY <1>3, <1>4, <1>5, <1>6, <1>7 DEF QuitFirst

\* A command is submitted: it negotiates with the session, or is carried out.
LEMMA NegotiatesSound ==
  ASSUME NEW s, NEW command \in MediaCommands, Sound(s), Shell!Controllable(s),
         s.workflow = Shell!Idle
  PROVE  LET n == [s EXCEPT !.workflow = Shell!Negotiating(command, 0)]
         IN Sound(n) /\ Onward(s, n)
<1> DEFINE n == [s EXCEPT !.workflow = Shell!Negotiating(command, 0)]
<1> USE DEF Sound, Placed, ShellTyped
<1>1. /\ Tracked \subseteq DOMAIN n
      /\ n.phase = s.phase /\ n.exit = s.exit /\ n.ids = s.ids
      /\ n.lease = s.lease /\ n.fallback = s.fallback /\ n.quits = s.quits
      /\ n.workflow = Shell!Negotiating(command, 0) /\ n.events = s.events
  BY DEF Tracked
<1> HIDE DEF n
<1>2. ShellTyped(n)
  BY <1>1 DEF WorkflowTyped, ExitTyped, Shell!Negotiating
<1>3. QuietOutside(n) /\ WorkflowPlaced(n) /\ LeasePlaced(n)
  BY <1>1 DEF QuietOutside, WorkflowPlaced, LeasePlaced, Shell!Occupied,
    Shell!Controllable, Shell!Negotiating
<1>4. RequestIsKnown(n) /\ EventsTell(n)
  BY <1>1 DEF RequestIsKnown, EventsTell, Shell!Negotiating, Shell!Idle,
    Shell!Matches
<1>5. Onward(s, n)
  BY <1>1 DEF Onward, Shell!Controllable
<1> QED
  BY <1>2, <1>3, <1>4, <1>5 DEF n

LEMMA SubmitSound ==
  ASSUME NEW s, NEW command \in MediaCommands, Sound(s)
  PROVE  \A t \in Shell!Submit(s, command) : Sound(t) /\ QuitFirst(s, t)
<1> USE DEF Sound, Placed, ShellTyped
<1>1. CASE Shell!Occupied(s) /\ Shell!Controllable(s) /\ s.workflow = Shell!Idle
  <2> DEFINE n == [s EXCEPT !.workflow = Shell!Negotiating(command, 0)]
  <2>1. Shell!Submit(s, command) = Shell!ResumeHandoff(n)
    BY <1>1 DEF Shell!Submit
  <2>2. Sound(n) /\ Onward(s, n)
    BY <1>1, NegotiatesSound
  <2> HIDE DEF n
  <2>3. \A t \in Shell!ResumeHandoff(n) : Sound(t) /\ Onward(s, t)
    BY <2>2, ResumesSound, OnwardAgain
  <2> QED
    BY <2>1, <2>3, OnwardQuits DEF QuitFirst
<1>2. CASE Shell!Occupied(s) /\ ~(Shell!Controllable(s) /\ s.workflow = Shell!Idle)
  BY <1>2 DEF Shell!Submit, QuitFirst
<1>3. CASE ~Shell!Occupied(s)
  <2>1. ~Leaving(s)
    BY <1>3 DEF Leaving, Shell!Occupied
  <2>2. s.workflow = Shell!Idle /\ ~s.fallback => Vacant(s)
    BY <1>3 DEF Vacant, Shell!Occupied, Shell!Controllable, QuietOutside
  <2> QED
    BY <1>3, <2>1, <2>2, DispatchesSound DEF Shell!Submit, QuitFirst
<1> QED
  BY <1>1, <1>2, <1>3

LEMMA InputSound ==
  ASSUME NEW s, Sound(s), Shell!Input(s), Onward(app, s)
  PROVE  Sound(app') /\ QuitFirst(app, app')
BY DrainResumeSound, OnwardAgain, OnwardQuits DEF Shell!Input, QuitFirst

\* The shell is asked to quit: the session is asked, or what waits is dropped.
LEMMA QuitSound ==
  ASSUME Sound(app), Shell!RequestQuit
  PROVE  Sound(app') /\ QuitFirst(app, app')
<1>1. CASE Shell!Opening(app)
  <2>1. app' = [app EXCEPT !.phase = "BootClosing", !.after = "quit"]
    BY <1>1 DEF Shell!RequestQuit
  <2> QED
    BY <1>1, <2>1, BootsSound DEF QuitFirst, Leaving, Shell!Opening
<1>2. CASE app.phase = "Closing"
  <2> DEFINE t == [app EXCEPT !.quits = TRUE]
  <2> USE DEF Sound, Placed, ShellTyped
  <2>1. app' = t
    BY <1>2 DEF Shell!RequestQuit, Shell!Opening
  <2>2. /\ Tracked \subseteq DOMAIN t /\ t.phase = "Closing"
        /\ t.exit = app.exit /\ t.events = app.events /\ t.ids = app.ids
        /\ t.workflow = app.workflow /\ t.lease = app.lease
        /\ t.fallback = app.fallback /\ t.quits
    BY <1>2 DEF Tracked
  <2> HIDE DEF t
  <2>3. ShellTyped(t) /\ QuietOutside(t)
    BY <1>2, <2>2 DEF WorkflowTyped, ExitTyped, QuietOutside,
      Shell!Controllable
  <2>4. WorkflowPlaced(t) /\ LeasePlaced(t)
    BY <1>2, <2>2 DEF WorkflowPlaced, LeasePlaced, Shell!Occupied
  <2>5. RequestIsKnown(t) /\ EventsTell(t)
    BY <1>2, <2>2 DEF RequestIsKnown, EventsTell, Shell!Controllable,
      Shell!Matches, QuietOutside, Shell!NoExit
  <2> QED
    BY <2>1, <2>2, <2>3, <2>4, <2>5 DEF QuitFirst, Leaving
<1>3. CASE Shell!Controllable(app)
  <2>1. app' = Shell!BeginExit(app, "quit")
    BY <1>3 DEF Shell!RequestQuit, Shell!Opening, Shell!Controllable
  <2>2. "quit" \in Intents \ {"external"}
    BY DEF Intents, Shell!Handoffs
  <2> QED
    BY <1>3, <2>1, <2>2, BeginsExit, OnwardQuits DEF QuitFirst
<1>4. CASE app.phase = "none"
  <2> DEFINE t == [Shell!Release(app) EXCEPT !.fallback = FALSE, !.workflow = Shell!Idle]
  <2>1. app' = t
    BY <1>4 DEF Shell!RequestQuit, Shell!Opening, Shell!Controllable
  <2>2. Vacant(t) /\ t.lease = "none"
    BY <1>4 DEF Vacant, Shell!Release, Tracked, Sound, Placed, ShellTyped,
      QuietOutside, Shell!Controllable
  <2> HIDE DEF t
  <2> QED
    BY <1>4, <2>1, <2>2, VacantIsSound DEF QuitFirst, Leaving
<1> QED
  BY <1>1, <1>2, <1>3, <1>4
     DEF Sound, Placed, ShellTyped, Shell!Opening, Shell!Controllable

\* The user answers whether to go on with the sound alone.
LEMMA FallbackSound ==
  ASSUME Sound(app), Shell!ResolveAudioFallback
  PROVE  Sound(app') /\ QuitFirst(app, app')
<1> DEFINE f == [app EXCEPT !.fallback = FALSE]
           s == Shell!Release(f)
<1> USE DEF Sound, Placed, ShellTyped
<1>1. app.phase = "none"
  BY DEF Shell!ResolveAudioFallback, LeasePlaced, Shell!Occupied
<1>2. /\ Tracked \subseteq DOMAIN s /\ s.phase = "none"
      /\ s.exit = app.exit /\ s.events = app.events /\ s.ids = app.ids
      /\ s.workflow = app.workflow /\ s.lease = "none" /\ ~s.fallback
  BY <1>1 DEF Shell!Release, Tracked
<1>3. app' = s \/ app' \in Shell!ActivateAudio(s)
  BY DEF Shell!ResolveAudioFallback
<1> HIDE DEF s
<1>4. ASSUME NEW r, Tracked \subseteq DOMAIN r, r.phase = "none",
             r.exit = app.exit, r.events = app.events, r.ids = app.ids,
             r.workflow = app.workflow, r.lease = "none", ~r.fallback
      PROVE  Sound(r)
  <2>1. ShellTyped(r) /\ QuietOutside(r)
    BY <1>1, <1>4 DEF WorkflowTyped, ExitTyped, QuietOutside,
      Shell!Controllable
  <2>2. WorkflowPlaced(r) /\ LeasePlaced(r)
    BY <1>1, <1>4 DEF WorkflowPlaced, LeasePlaced, Shell!Occupied
  <2>3. RequestIsKnown(r) /\ EventsTell(r)
    BY <1>1, <1>4 DEF RequestIsKnown, EventsTell, Shell!Controllable,
      Shell!Matches, QuietOutside, Shell!NoExit
  <2> QED
    BY <2>1, <2>2, <2>3
<1>5. Sound(s)
  BY <1>2, <1>4
<1>6. Sound(Shell!Release(s))
  <2>1. /\ Tracked \subseteq DOMAIN Shell!Release(s) /\ Shell!Release(s).lease = "none"
        /\ \A x \in Tracked \ {"lease"} : Shell!Release(s)[x] = s[x]
    BY <1>2 DEF Shell!Release, Tracked
  <2>2. Alike(s, Shell!Release(s))
    BY <1>2, <2>1 DEF Alike
  <2> QED
    BY <1>5, <2>2, AlikeIsSound
<1>7. Sound(app')
  BY <1>3, <1>5, <1>6, AudioIsSound
<1> QED
  BY <1>1, <1>7 DEF QuitFirst, Leaving

\* A system or shell control.
LEMMA ControlSound ==
  ASSUME Sound(app), Shell!Control
  PROVE  Sound(app') /\ QuitFirst(app, app')
<1>1. CASE Shell!Controllable(app)
  <2>1. ASSUME NEW s, NEW t \in Shell!DrainEvents(s), Sound(s), Onward(app, s),
               Alike(t, app')
        PROVE  Sound(app') /\ QuitFirst(app, app')
    <3>1. Sound(t) /\ Onward(s, t)
      BY <2>1, DrainsSound
    <3>2. Sound(app') /\ Onward(t, app')
      BY <2>1, <3>1, AlikeIsSound
    <3> QED
      BY <2>1, <3>1, <3>2, OnwardAgain, OnwardQuits DEF QuitFirst
  <2>2. {"stop", "transport"} \subseteq Intents \ {"external"}
    BY DEF Intents, Shell!Handoffs
  <2>3. \A intent \in {"stop", "transport"} :
          LET s == Shell!BeginExit(app, intent) IN Sound(s) /\ Onward(app, s)
    BY <1>1, <2>2, BeginsExit
  <2>4. Onward(app, app)
    BY DEF Onward
  <2>5. ASSUME NEW s, NEW t \in Shell!DrainEvents(s), Sound(s)
        PROVE  Alike(t, t) /\ Alike(t, [t EXCEPT !.control = FALSE])
    <3>1. Sound(t)
      BY <2>5, DrainsSound
    <3> QED
      BY <3>1 DEF Alike, Tracked, Sound, Placed, ShellTyped
  <2>6. CASE \E t \in Shell!DrainEvents(IF Shell!Free(app) THEN Shell!BeginExit(app, "stop")
                                  ELSE app) :
               app' = [t EXCEPT !.control = FALSE]
    <3> DEFINE s == IF Shell!Free(app) THEN Shell!BeginExit(app, "stop") ELSE app
    <3>1. PICK t \in Shell!DrainEvents(s) : app' = [t EXCEPT !.control = FALSE]
      BY <2>6
    <3>2. Sound(s) /\ Onward(app, s)
      BY <2>3, <2>4
    <3> HIDE DEF s
    <3> QED
      BY <2>1, <2>5, <3>1, <3>2
  <2>7. CASE \E t \in Shell!DrainEvents(Shell!BeginExit(app, "transport")) : app' = t
    BY <2>1, <2>3, <2>5, <2>7
  <2> QED
    BY <1>1, <2>6, <2>7 DEF Shell!Control
<1>2. CASE ~Shell!Controllable(app)
  <2>1. Alike(app, app')
    <3>1. \/ app' = [app EXCEPT !.audio = "none", !.control = FALSE]
          \/ app' = [app EXCEPT !.control = FALSE]
      BY <1>2 DEF Shell!Control
    <3> QED
      BY <3>1 DEF Alike, Tracked, Sound, Placed, ShellTyped
  <2> QED
    BY <2>1, AlikeIsSound, OnwardQuits DEF QuitFirst
<1> QED
  BY <1>1, <1>2

\* The inputs of the session, each with what the coordinator does after it.
LEMMA LeaveSound ==
  ASSUME Sound(app), Shell!Leave
  PROVE  Sound(app') /\ QuitFirst(app, app')
<1>1. PICK intent \in {"stop", "quit", "transport"} : Shell!Input(Shell!BeginExit(app, intent))
  BY DEF Shell!Leave
<1>2. intent \in Intents \ {"external"}
  BY DEF Intents, Shell!Handoffs
<1> QED
  BY <1>1, <1>2, BeginsExit, InputSound DEF Shell!Leave

LEMMA DropSound ==
  ASSUME Sound(app), Shell!DropFiles
  PROVE  Sound(app') /\ QuitFirst(app, app')
<1> DEFINE s == [app EXCEPT !.dropped = @ + 1]
           k == [s EXCEPT !.drops = @ + 1]
<1>1. Alike(app, s) /\ Alike(app, k)
  BY DEF Alike, Tracked, Sound, Placed, ShellTyped
<1>2. Shell!Input(IF Shell!NativeFileDropAccepted(s) THEN Shell!BeginExit(s, "openFiles") ELSE k)
  BY DEF Shell!DropFiles
<1> HIDE DEF s, k
<1>3. Sound(s) /\ Onward(app, s) /\ Shell!Controllable(s) /\ Sound(k) /\ Onward(app, k)
  BY <1>1, AlikeIsSound DEF Shell!DropFiles, Onward
<1>4. "openFiles" \in Intents \ {"external"}
  BY DEF Intents, Shell!Handoffs
<1>5. LET t == Shell!BeginExit(s, "openFiles") IN Sound(t) /\ Onward(app, t)
  BY <1>3, <1>4, BeginsExit, OnwardAgain
<1> QED
  BY <1>2, <1>3, <1>5, InputSound

LEMMA CancelSound ==
  ASSUME Sound(app), Shell!Cancel
  PROVE  Sound(app') /\ QuitFirst(app, app')
<1>1. PICK u \in Shell!DrainEvents(Shell!CancelPendingExit(app)) : app' \in Shell!ResumeHandoff(u)
  BY DEF Shell!Cancel, Shell!Input, Shell!DrainAndResume, Shell!Then
<1>2. Sound(u) /\ Onward(app, u)
  BY CancelsSound DEF Shell!Cancel
<1>3. Sound(app') /\ Onward(u, app')
  BY <1>1, <1>2, ResumesSound
<1> QED
  BY <1>2, <1>3, OnwardAgain, OnwardQuits DEF QuitFirst

LEMMA ExportSound ==
  ASSUME Sound(app), Shell!StartExport
  PROVE  Sound(app') /\ QuitFirst(app, app')
<1> DEFINE edits == Shell!TakeExportCompletion(app.edits)
           applied == [app EXCEPT !.edits = edits]
           running == [state |-> "running", revision |-> edits.revision]
           asked == Shell!ConfirmationVisible(app) /\ Shell!HasUnexportedChanges(app.edits)
           begun == [applied EXCEPT !.edits.job = running, !.armed = asked]
<1>1. Alike(app, applied) /\ Alike(app, begun)
  BY DEF Alike, Tracked, Sound, Placed, ShellTyped
<1>2. \/ Shell!Input(Shell!CompletePendingExit(applied))
      \/ Shell!Input(applied)
      \/ Shell!Input(begun)
  BY DEF Shell!StartExport
<1> HIDE DEF applied, begun
<1>3. /\ Sound(applied) /\ Onward(app, applied) /\ Shell!Controllable(applied)
      /\ Sound(begun) /\ Onward(app, begun)
  BY <1>1, AlikeIsSound DEF Shell!StartExport, Onward
<1>4. LET t == Shell!CompletePendingExit(applied) IN Sound(t) /\ Onward(app, t)
  BY <1>3, CompletesExit, OnwardAgain
<1> QED
  BY <1>2, <1>3, <1>4, InputSound

LEMMA PromptSound ==
  ASSUME Sound(app), Shell!AskOrAnswer \/ Shell!TaskFinished
  PROVE  Sound(app') /\ QuitFirst(app, app')
<1> DEFINE opened == [app EXCEPT !.prompt = TRUE]
           closed == [app EXCEPT !.prompt = FALSE]
           asked == [app EXCEPT !.task = TRUE]
           answered == [app EXCEPT !.task = FALSE]
<1>1. \A s \in {opened, closed, asked, answered} : Alike(app, s)
  BY DEF Alike, Tracked, Sound, Placed, ShellTyped
<1>2. \/ \E s \in {opened, closed, asked, Shell!ResumeDeferredDrop(answered)} : Shell!Input(s)
      \/ app' \in Shell!ResumeHandoff(Shell!ResumeDeferredDrop(answered))
  BY DEF Shell!AskOrAnswer, Shell!TaskFinished
<1> HIDE DEF opened, closed, asked, answered
<1>3. \A s \in {opened, closed, asked, answered} : Sound(s) /\ Onward(app, s)
  BY <1>1, AlikeIsSound
<1>4. LET s == Shell!ResumeDeferredDrop(answered) IN Sound(s) /\ Onward(app, s)
  BY <1>3, DropsSound, OnwardAgain
<1>5. CASE app' \in Shell!ResumeHandoff(Shell!ResumeDeferredDrop(answered))
  BY <1>4, <1>5, ResumesSound, OnwardAgain, OnwardQuits DEF QuitFirst
<1> QED
  BY <1>2, <1>3, <1>4, <1>5, InputSound

\* Every step of the shell.
LEMMA StepSound ==
  ASSUME Sound(app), Shell!Next
  PROVE  Sound(app') /\ QuitFirst(app, app')
<1>1. ASSUME Alike(app, app') PROVE Sound(app') /\ QuitFirst(app, app')
  BY <1>1, AlikeIsSound, OnwardQuits DEF QuitFirst
<1>2. CASE Shell!Poll
  BY <1>2, PollSound
<1>3. CASE Shell!Open
  BY <1>3, SubmitSound DEF Shell!Open, Shell!Commands, MediaCommands
<1>4. CASE Shell!Leave
  BY <1>4, LeaveSound
<1>5. CASE Shell!DropFiles
  BY <1>5, DropSound
<1>6. CASE Shell!Confirm
  BY <1>6, CompletesExit, InputSound DEF Shell!Confirm, Shell!Input
<1>7. CASE Shell!Cancel
  BY <1>7, CancelSound
<1>8. CASE Shell!Edit
  <2>1. PICK r : Shell!Input([app EXCEPT !.edits.revision = r])
    BY <1>8 DEF Shell!Edit
  <2>2. Alike(app, [app EXCEPT !.edits.revision = r])
    BY DEF Alike, Tracked, Sound, Placed, ShellTyped
  <2> QED
    BY <2>1, <2>2, AlikeIsSound, InputSound
<1>9. CASE Shell!StartExport
  BY <1>9, ExportSound
<1>10. CASE Shell!WaitForExport
  <2>1. Alike(app, [app EXCEPT !.armed = TRUE])
    BY DEF Alike, Tracked, Sound, Placed, ShellTyped
  <2> QED
    BY <1>10, <2>1, AlikeIsSound, InputSound DEF Shell!WaitForExport
<1>11. CASE Shell!AskOrAnswer \/ Shell!TaskFinished
  BY <1>11, PromptSound
<1>12. CASE Shell!CancelOpening
  BY <1>12, BootsSound DEF Shell!CancelOpening, Shell!Opening, QuitFirst,
    Leaving
<1>13. CASE Shell!RequestQuit
  BY <1>13, QuitSound
<1>14. CASE Shell!ResolveAudioFallback
  BY <1>14, FallbackSound
<1>15. CASE Shell!Control
  BY <1>15, ControlSound
<1>16. CASE Shell!SetExternalModal
  <2> DEFINE s == [app EXCEPT !.modal = ~@]
  <2>1. Alike(app, s)
    BY DEF Alike, Tracked, Sound, Placed, ShellTyped
  <2>2. app' = s \/ app' = Shell!ResumeDeferredDrop(s)
    BY <1>16 DEF Shell!SetExternalModal
  <2> HIDE DEF s
  <2> QED
    BY <2>1, <2>2, AlikeIsSound, DropsSound, OnwardAgain, OnwardQuits
       DEF QuitFirst
<1>17. CASE Shell!ExportEnds
  BY <1>1, <1>17
     DEF Shell!ExportEnds, Alike, Tracked, Sound, Placed, ShellTyped
<1>18. CASE Shell!LeaseBecomesReady
  <2> DEFINE t == [app EXCEPT !.lease = "ready"]
  <2> USE DEF Sound, Placed, ShellTyped
  <2>1. app' = t /\ ~Shell!Occupied(app)
    BY <1>18 DEF Shell!LeaseBecomesReady, LeasePlaced
  <2>2. /\ Tracked \subseteq DOMAIN t /\ t.phase = app.phase
        /\ t.exit = app.exit /\ t.events = app.events /\ t.ids = app.ids
        /\ t.workflow = app.workflow /\ t.fallback = app.fallback
        /\ t.lease = "ready"
    BY DEF Tracked
  <2> HIDE DEF t
  <2>3. ShellTyped(t) /\ QuietOutside(t)
    BY <2>2 DEF WorkflowTyped, ExitTyped, QuietOutside, Shell!Controllable
  <2>4. WorkflowPlaced(t) /\ LeasePlaced(t)
    BY <1>18, <2>1, <2>2 DEF WorkflowPlaced, LeasePlaced, Shell!Occupied,
      Shell!LeaseBecomesReady
  <2>5. RequestIsKnown(t) /\ EventsTell(t)
    BY <2>2 DEF RequestIsKnown, EventsTell, Shell!Controllable, Shell!Matches
  <2> QED
    BY <2>1, <2>3, <2>4, <2>5 DEF QuitFirst, Leaving, Shell!Occupied
<1>19. CASE Shell!StreamStarts
  BY <1>1, <1>19
     DEF Shell!StreamStarts, Alike, Tracked, Sound, Placed, ShellTyped
<1>20. CASE Shell!RenderFails
  BY <1>1, <1>20
     DEF Shell!RenderFails, Alike, Tracked, Sound, Placed, ShellTyped
<1> QED
  BY <1>2, <1>3, <1>4, <1>5, <1>6, <1>7, <1>8, <1>9, <1>10, <1>11, <1>12,
     <1>13, <1>14, <1>15, <1>16, <1>17, <1>18, <1>19, <1>20
     DEF Shell!Next

LEMMA BeginsSound ==
  ASSUME Shell!Init
  PROVE  Sound(app)
<1>1. Vacant(app) /\ app.lease = "none"
  BY DEF Shell!Init, Vacant, Tracked
<1> QED
  BY <1>1, VacantIsSound

\* What the runs check follows.
LEMMA SoundAgrees ==
  ASSUME Sound(app)
  PROVE  Shell!HandoffsAgree /\ Shell!LeaseCoversPlayback
<1>1. Shell!HandoffsAgree
  <2>1. /\ app.workflow.state # "HandoffFault"
        /\ app.workflow.state = "Deferred" =>
             app.phase \in {"none", "Stopping", "Closing"}
        /\ app.workflow.state = "Negotiating" => app.phase # "none"
    BY DEF Sound, Placed, ShellTyped, WorkflowTyped, WorkflowPlaced
  <2>2. app.events # <<>> \/ app.exit.phase = "AwaitingHandoffDecision" =>
          app.events = <<[kind |-> "request", intent |-> app.exit.intent,
                          id |-> app.exit.id]>>
    BY DEF Sound, EventsTell
  <2>3. Shell!Controllable(app) =>
          /\ app.workflow.state = "Negotiating" /\ ~Shell!Matches(app, 0) =>
               app.exit # Shell!NoExit /\ Shell!Matches(app, app.exit.id)
          /\ app.exit # Shell!NoExit /\ app.exit.intent = "external" =>
               Shell!Matches(app, app.exit.id)
    BY DEF Sound, RequestIsKnown, Shell!Matches
  <2> QED
    BY <2>1, <2>2, <2>3 DEF Shell!HandoffsAgree
<1>2. Shell!LeaseCoversPlayback
  BY DEF Shell!LeaseCoversPlayback, Sound, Placed, LeasePlaced
<1> QED
  BY <1>1, <1>2

-----------------------------------------------------------------------------
(* The edits of a session.  Besides the fields above, two more matter.      *)

Held(s) ==
  /\ {"edits", "failed"} \subseteq DOMAIN s
  /\ {"revision", "exported", "job"} \subseteq DOMAIN s.edits

\* There is nothing to lose, or the session goes on and did not ask to hand over.
Safe(s) ==
  \/ ~Shell!HasUnexportedChanges(s.edits)
  \/ s.phase = "Running" /\ s.exit.phase # "AwaitingHandoffDecision"

\* A handler that leaves the edits alone, and does not put them at risk.
Keeps(s, t) ==
  /\ DOMAIN t = DOMAIN s
  /\ t.edits = s.edits /\ t.failed = s.failed
  /\ Safe(s) => Safe(t)

\* A handler that leaves the edits alone or begins a document afresh.
Begins(s, t) ==
  /\ DOMAIN t = DOMAIN s
  /\ t.edits \in {s.edits, Shell!FreshEdits}

AtMostOneEvent(s) == s.events = <<>> \/ \E event : s.events = <<event>>

LEMMA KeepsAgain ==
  ASSUME NEW s, NEW t, NEW u, Keeps(s, t), Keeps(t, u)
  PROVE  Keeps(s, u)
BY DEF Keeps

LEMMA KeepsHeld ==
  ASSUME NEW s, NEW t, Held(s), Keeps(s, t) \/ Begins(s, t)
  PROVE  Held(t)
BY DEF Held, Keeps, Begins, Shell!FreshEdits

\* An export that ends makes no edit unexported.
LEMMA ExportsOnlyHelp ==
  ASSUME NEW edits, {"revision", "exported", "job"} \subseteq DOMAIN edits,
         ~Shell!HasUnexportedChanges(edits)
  PROVE  ~Shell!HasUnexportedChanges(Shell!TakeExportCompletion(edits))
BY DEF Shell!HasUnexportedChanges, Shell!TakeExportCompletion

LEMMA TakenIsHeld ==
  ASSUME NEW s, Held(s)
  PROVE  LET t == [s EXCEPT !.edits = Shell!TakeExportCompletion(@)]
         IN Held(t) /\ t.failed = s.failed
              /\ t.edits = Shell!TakeExportCompletion(s.edits)
BY DEF Held, Shell!TakeExportCompletion

\* An exit begins with the user's confirmation, or with nothing to lose.
LEMMA BeginKeeps ==
  ASSUME NEW s, NEW intent, Held(s), Tracked \subseteq DOMAIN s
  PROVE  Keeps(s, Shell!BeginExit(s, intent))
<1> DEFINE t == Shell!BeginExit(s, intent)
<1> USE DEF Held, Tracked
<1>1. DOMAIN t = DOMAIN s /\ t.edits = s.edits /\ t.failed = s.failed
  BY DEF Shell!BeginExit, Shell!RequestDecision, Shell!FinishLoopExit
<1>2. CASE s.exit # Shell!NoExit
  BY <1>2 DEF Shell!BeginExit, Keeps
<1>3. CASE s.exit = Shell!NoExit /\ Shell!NeedsExitConfirmation(s)
  <2>1. t.phase = s.phase /\ t.exit.phase = "AwaitingConfirmation"
    BY <1>3 DEF Shell!BeginExit
  <2> HIDE DEF t
  <2> QED
    BY <1>1, <2>1 DEF Keeps, Safe, t
<1>4. CASE ~Shell!NeedsExitConfirmation(s)
  BY <1>1, <1>4 DEF Keeps, Safe, Shell!NeedsExitConfirmation
<1> QED
  BY <1>2, <1>3, <1>4

\* The shell's answer ends a session only when the session asked.
LEMMA EventKeeps ==
  ASSUME NEW s, NEW event, Held(s), Tracked \subseteq DOMAIN s,
         NEW t \in Shell!HandleEvent(s, event)
  PROVE  Keeps(s, t)
<1> USE DEF Held, Tracked
<1>1. ASSUME NEW id, NEW accepted
      PROVE  LET r == Shell!ResolveHandoff(s, id, accepted)
             IN DOMAIN r = DOMAIN s /\ r.edits = s.edits /\ r.failed = s.failed
  BY DEF Shell!ResolveHandoff, Shell!FinishLoopExit
<1>2. ASSUME NEW id, NEW discard
      PROVE  Keeps(s, Shell!RecoverRejected(s, id, discard))
  BY DEF Shell!RecoverRejected, Keeps, Safe, Shell!NoExit
<1>3. ASSUME NEW id, NEW accepted, NEW workflow, Shell!Resolvable(s, id)
      PROVE  Keeps(s, [Shell!ResolveHandoff(s, id, accepted)
                         EXCEPT !.workflow = workflow])
  <2> DEFINE r == Shell!ResolveHandoff(s, id, accepted)
  <2>1. DOMAIN r = DOMAIN s /\ r.edits = s.edits /\ r.failed = s.failed
    BY <1>1
  <2> HIDE DEF r
  <2>2. ~(s.phase = "Running" /\ s.exit.phase # "AwaitingHandoffDecision")
    BY <1>3 DEF Shell!Resolvable
  <2>3. Keeps(s, [r EXCEPT !.workflow = workflow])
    BY <2>1, <2>2 DEF Keeps, Safe
  <2> QED
    BY <2>3 DEF r
<1>4. \A id : Keeps(s, Shell!DeclineRequest(s, id))
  BY <1>2, <1>3 DEF Shell!DeclineRequest
<1>5. \A id : Keeps(s, Shell!AcceptExternalRequest(s, id))
  BY <1>2, <1>3, <1>4 DEF Shell!AcceptExternalRequest
<1>6. \A id, command : Keeps(s, Shell!AcceptSessionRequest(s, command, id))
  BY <1>2, <1>3, <1>4 DEF Shell!AcceptSessionRequest
<1>7. Keeps(s, s) /\ Keeps(s, [s EXCEPT !.workflow = Shell!Idle])
  BY DEF Keeps, Safe
<1>8. \/ t \in {s, [s EXCEPT !.workflow = Shell!Idle]}
      \/ t = Shell!AcceptExternalRequest(s, event.id)
      \/ t = Shell!DeclineRequest(s, event.id)
      \/ \E command : t = Shell!AcceptSessionRequest(s, command, event.id)
  BY DEF Shell!HandleEvent
<1> QED
  BY <1>4, <1>5, <1>6, <1>7, <1>8

LEMMA DrainKeeps ==
  ASSUME NEW s, Held(s), Tracked \subseteq DOMAIN s, AtMostOneEvent(s),
         NEW t \in Shell!DrainEvents(s)
  PROVE  Keeps(s, t)
<1> DEFINE taken == [s EXCEPT !.events = <<>>]
<1>1. CASE ~Shell!Controllable(s)
  BY <1>1 DEF Shell!DrainEvents, Keeps
<1>2. Keeps(s, taken) /\ Held(taken) /\ Tracked \subseteq DOMAIN taken
  BY DEF Keeps, Safe, Held, Tracked
<1>3. CASE Shell!Controllable(s) /\ s.events = <<>>
  BY <1>2, <1>3, DrainsNone
<1>4. ASSUME NEW event, Shell!Controllable(s), s.events = <<event>>
      PROVE  Keeps(s, t)
  <2>1. t \in Shell!HandleEvent(taken, event)
    BY <1>4, DrainsOne
  <2> HIDE DEF taken
  <2> QED
    BY <1>2, <2>1, EventKeeps, KeepsAgain
<1> QED
  BY <1>1, <1>3, <1>4 DEF AtMostOneEvent

LEMMA ResumeKeeps ==
  ASSUME NEW s, Held(s), Sound(s), NEW t \in Shell!ResumeHandoff(s)
  PROVE  Keeps(s, t)
<1> DEFINE r == [s EXCEPT !.workflow = Shell!Idle]
           b == Shell!BeginExit(s, "external")
           x == [b EXCEPT !.workflow.id = s.ids]
<1>1. Tracked \subseteq DOMAIN s /\ AtMostOneEvent(s)
  BY DEF Sound, Placed, ShellTyped, EventsTell, AtMostOneEvent
<1>2. CASE t = s
  BY <1>2 DEF Keeps
<1>3. CASE t \in Shell!DrainEvents(r)
  <2>1. /\ Keeps(s, r) /\ Held(r) /\ Tracked \subseteq DOMAIN r
        /\ AtMostOneEvent(r)
    BY <1>1 DEF Keeps, Safe, Held, Tracked, AtMostOneEvent
  <2> HIDE DEF r
  <2> QED
    BY <1>3, <2>1, DrainKeeps, KeepsAgain
<1>4. CASE s.exit = Shell!NoExit /\ t \in Shell!DrainEvents(x)
  <2>1. ExitBegun(s, b, "external")
    BY <1>1, <1>4, ExitFields DEF Sound, EventsTell, Shell!NoExit
  <2>2. Keeps(s, b)
    BY <1>1, BeginKeeps
  <2> HIDE DEF b
  <2>3. Held(b) /\ Tracked \subseteq DOMAIN b /\ AtMostOneEvent(b)
    BY <2>1, <2>2, KeepsHeld DEF ExitBegun, Beside, AtMostOneEvent
  <2>4. /\ Keeps(b, x) /\ Held(x) /\ Tracked \subseteq DOMAIN x
        /\ AtMostOneEvent(x)
    BY <2>3 DEF Keeps, Safe, Held, Tracked, AtMostOneEvent
  <2> HIDE DEF x
  <2> QED
    BY <1>4, <2>2, <2>4, DrainKeeps, KeepsAgain
<1> QED
  BY <1>2, <1>3, <1>4 DEF Shell!ResumeHandoff

LEMMA DrainResumeKeeps ==
  ASSUME NEW s, Held(s), Sound(s), NEW t \in Shell!DrainAndResume(s)
  PROVE  Keeps(s, t)
<1>1. PICK u \in Shell!DrainEvents(s) : t \in Shell!ResumeHandoff(u)
  BY DEF Shell!DrainAndResume, Shell!Then
<1>2. Keeps(s, u)
  BY DrainKeeps DEF Sound, Placed, ShellTyped, EventsTell, AtMostOneEvent
<1>3. Held(u) /\ Sound(u)
  BY <1>2, KeepsHeld, DrainsSound
<1> QED
  BY <1>1, <1>2, <1>3, ResumeKeeps, KeepsAgain

LEMMA DropKeeps ==
  ASSUME NEW s, Held(s), Tracked \subseteq DOMAIN s
  PROVE  Keeps(s, Shell!ResumeDeferredDrop(s))
<1> DEFINE u == [s EXCEPT !.drops = @ - 1]
<1>1. Keeps(s, u) /\ Held(u) /\ Tracked \subseteq DOMAIN u /\ Keeps(s, s)
  BY DEF Keeps, Safe, Held, Tracked
<1>2. Shell!ResumeDeferredDrop(s) \in {s, Shell!BeginExit(u, "openFiles")}
  BY DEF Shell!ResumeDeferredDrop
<1> HIDE DEF u
<1> QED
  BY <1>1, <1>2, BeginKeeps, KeepsAgain

LEMMA TaskKeeps ==
  ASSUME NEW s, Held(s), Tracked \subseteq DOMAIN s, NEW t \in Shell!SynchronizeTask(s)
  PROVE  Keeps(s, t)
<1> DEFINE u == [s EXCEPT !.task = FALSE]
<1>1. Keeps(s, u) /\ Held(u) /\ Tracked \subseteq DOMAIN u /\ Keeps(s, s)
  BY DEF Keeps, Safe, Held, Tracked
<1>2. t \in {s, Shell!ResumeDeferredDrop(u)}
  BY DEF Shell!SynchronizeTask
<1> HIDE DEF u
<1> QED
  BY <1>1, <1>2, DropKeeps, KeepsAgain

\* An export that ends while the user waits for it ends the session only when
\* nothing is left to lose.
LEMMA PollExportSafe ==
  ASSUME NEW s, Held(s), Tracked \subseteq DOMAIN s
  PROVE  LET p == Shell!PollExport(s)
         IN  /\ DOMAIN p = DOMAIN s
             /\ p.edits = Shell!TakeExportCompletion(s.edits)
             /\ p.failed = s.failed
             /\ Safe(s) => Safe(p)
<1> DEFINE u == [s EXCEPT !.edits = Shell!TakeExportCompletion(@)]
           v == [u EXCEPT !.armed = FALSE]
           c == Shell!CompletePendingExit(v)
<1> USE DEF Held, Tracked
<1>1. /\ DOMAIN u = DOMAIN s /\ u.edits = Shell!TakeExportCompletion(s.edits)
      /\ u.failed = s.failed /\ u.phase = s.phase /\ u.exit = s.exit
  OBVIOUS
<1>2. \/ Shell!PollExport(s) = u \/ Shell!PollExport(s) = v
      \/ Shell!PollExport(s) = c /\ ~Shell!HasUnexportedChanges(u.edits)
  BY DEF Shell!PollExport
<1> HIDE DEF u
<1>3. /\ DOMAIN v = DOMAIN s /\ v.edits = Shell!TakeExportCompletion(s.edits)
      /\ v.failed = s.failed /\ v.phase = s.phase /\ v.exit = s.exit
  BY <1>1
<1> HIDE DEF v
<1>4. DOMAIN c = DOMAIN s /\ c.edits = v.edits /\ c.failed = s.failed
  BY <1>3 DEF Shell!CompletePendingExit, Shell!RequestDecision,
    Shell!FinishLoopExit
<1> HIDE DEF c
<1>5. ~Shell!HasUnexportedChanges(s.edits) =>
        ~Shell!HasUnexportedChanges(Shell!TakeExportCompletion(s.edits))
  BY ExportsOnlyHelp
<1> QED
  BY <1>1, <1>2, <1>3, <1>4, <1>5 DEF Safe

LEMMA BeginsAgain ==
  ASSUME NEW s, NEW t, NEW u, Begins(s, t), Begins(t, u)
  PROVE  Begins(s, u)
BY DEF Begins

LEMMA FreshBegins ==
  ASSUME NEW s, NEW phase, Held(s)
  PROVE  /\ Begins(s, Shell!FreshSession(s, phase))
         /\ Shell!FreshSession(s, phase).edits = Shell!FreshEdits
         /\ Begins(s, Shell!DestroySession(s))
         /\ Shell!DestroySession(s).edits = Shell!FreshEdits
<1> DEFINE f == Shell!FreshSession(s, "none")
<1>1. \A p : LET t == Shell!FreshSession(s, p)
             IN DOMAIN t = DOMAIN s /\ t.edits = Shell!FreshEdits
  BY DEF Shell!FreshSession, Held
<1>2. DOMAIN f = DOMAIN s /\ f.edits = Shell!FreshEdits
  BY <1>1
<1> HIDE DEF f
<1>3. DOMAIN Shell!DestroySession(s) = DOMAIN s /\ Shell!DestroySession(s).edits = Shell!FreshEdits
  BY <1>2 DEF Shell!DestroySession, Held, f
<1> QED
  BY <1>1, <1>3 DEF Begins

LEMMA ReleaseBegins ==
  ASSUME NEW s, Held(s)
  PROVE  Begins(s, Shell!Release(s)) /\ Begins(s, Shell!RestoreDisplacedAudio(s))
BY DEF Begins, Shell!Release, Shell!RestoreDisplacedAudio, Held

LEMMA OpenBegins ==
  ASSUME NEW s, Held(s), NEW outcome, NEW t \in Shell!FinishVideoOpen(s, outcome)
  PROVE  Begins(s, t)
<1> DEFINE d == Shell!DestroySession(s)
           f == [d EXCEPT !.fallback = TRUE]
           q == [Shell!Release(d) EXCEPT !.displaced = FALSE,
                                   !.workflow = Shell!Deferred("quit")]
<1>1. CASE outcome = "ready"
  BY <1>1 DEF Shell!FinishVideoOpen, Begins, Held
<1>2. CASE outcome # "ready"
  <2>1. t \in {Shell!RestoreDisplacedAudio(f), q, Shell!RestoreDisplacedAudio(Shell!Release(d))}
    BY <1>2 DEF Shell!FinishVideoOpen
  <2>2. Begins(s, d) /\ Held(d)
    BY FreshBegins, KeepsHeld
  <2> HIDE DEF d
  <2>3. Begins(d, f) /\ Held(f)
    BY <2>2 DEF Begins, Held
  <2>4. Begins(d, Shell!Release(d)) /\ Held(Shell!Release(d))
    BY <2>2, ReleaseBegins, KeepsHeld
  <2>5. Begins(Shell!Release(d), q)
    BY <2>4 DEF Begins, Held
  <2> HIDE DEF f, q
  <2> QED
    BY <2>1, <2>2, <2>3, <2>4, <2>5, ReleaseBegins, BeginsAgain
<1> QED
  BY <1>1, <1>2

LEMMA DispatchBegins ==
  ASSUME NEW s, Held(s), NEW command \in MediaCommands,
         NEW t \in Shell!Dispatch(s, command)
  PROVE  Begins(s, t)
<1>1. CASE command = "audio"
  <2> DEFINE r == Shell!Release(s)
  <2>1. Begins(s, r) /\ Held(r)
    BY ReleaseBegins, KeepsHeld
  <2>2. t \in {[r EXCEPT !.audio = "file", !.control = TRUE], r,
               [r EXCEPT !.audio = "none", !.control = FALSE]}
    BY <1>1 DEF Shell!Dispatch, Shell!ActivateAudio
  <2> HIDE DEF r
  <2>3. Begins(r, t)
    BY <2>1, <2>2 DEF Begins, Held
  <2> QED
    BY <2>1, <2>3, BeginsAgain
<1>2. CASE command \in {"browse", "quit"}
  BY <1>2, ReleaseBegins DEF Shell!Dispatch
<1>3. CASE command = "video"
  <2> DEFINE waits == [s EXCEPT !.lease = "held", !.workflow = Shell!Deferred(command)]
             ready == [s EXCEPT !.lease = "ready"]
             b == [ready EXCEPT !.displaced = ready.control
                                                /\ ready.audio = "file",
                                !.control = FALSE]
             o == [b EXCEPT !.started = @ + 1, !.phase = "Opening"]
  <2>1. \/ t \in {waits, o, Shell!RestoreDisplacedAudio(Shell!Release(b))}
        \/ \E outcome : t \in Shell!FinishVideoOpen(o, outcome)
    BY <1>3 DEF Shell!Dispatch, Shell!StartVideo, Shell!Then
  <2>2. Begins(s, waits) /\ Begins(s, ready) /\ Held(ready)
    BY DEF Begins, Held
  <2> HIDE DEF waits, ready
  <2>3. Begins(ready, b) /\ Held(b)
    BY <2>2 DEF Begins, Held
  <2> HIDE DEF b
  <2>4. Begins(b, o) /\ Held(o)
    BY <2>3 DEF Begins, Held
  <2> HIDE DEF o
  <2>5. /\ Begins(b, Shell!Release(b)) /\ Held(Shell!Release(b))
        /\ Begins(Shell!Release(b), Shell!RestoreDisplacedAudio(Shell!Release(b)))
    BY <2>3, ReleaseBegins, KeepsHeld
  <2>6. \A outcome : \A u \in Shell!FinishVideoOpen(o, outcome) : Begins(o, u)
    BY <2>4, OpenBegins
  <2> QED
    BY <2>1, <2>2, <2>3, <2>4, <2>5, <2>6, BeginsAgain
<1> QED
  BY <1>1, <1>2, <1>3 DEF MediaCommands

LEMMA DeferredBegins ==
  ASSUME NEW s, Held(s), Sound(s), NEW t \in Shell!ResumeDeferredCommand(s)
  PROVE  Begins(s, t)
<1> DEFINE v == [s EXCEPT !.workflow = Shell!Idle]
<1>1. \/ t = s
      \/ s.workflow.state = "Deferred" /\ t \in Shell!Dispatch(v, s.workflow.command)
  BY DEF Shell!ResumeDeferredCommand
<1>2. Begins(s, v) /\ Held(v) /\ Begins(s, s)
  BY DEF Begins, Held
<1>3. s.workflow.state = "Deferred" => s.workflow.command \in MediaCommands
  BY DEF Sound, Placed, ShellTyped, WorkflowTyped
<1> HIDE DEF v
<1> QED
  BY <1>1, <1>2, <1>3, DispatchBegins, BeginsAgain

\* A session that has ended leaves no document of its own.
LEMMA FinishBegins ==
  ASSUME NEW s, Held(s), Sound(s), NEW t \in Shell!FinishSession(s)
  PROVE  Begins(s, t) /\ t.edits = Shell!FreshEdits
<1> DEFINE c == [s EXCEPT !.control = FALSE]
           d == Shell!DestroySession(c)
           next == IF s.quits THEN Shell!Deferred("quit")
                   ELSE CASE d.workflow.state = "HandoffFault" -> Shell!Idle
                          [] d.workflow.state = "Negotiating" ->
                               Shell!Deferred(d.workflow.command)
                          [] OTHER -> d.workflow
           u == [d EXCEPT !.workflow = next]
           v == IF u.workflow.state = "Deferred" THEN u ELSE Shell!Release(u)
           i == [v EXCEPT !.workflow = Shell!Idle]
<1>1. \/ t = v
      \/ v.workflow.state = "Deferred" /\ t \in Shell!Dispatch(i, v.workflow.command)
  BY DEF Shell!FinishSession, Shell!ResumeDeferredCommand
<1>2. Begins(s, c) /\ Held(c) /\ c.workflow = s.workflow
         /\ Tracked \subseteq DOMAIN c
  BY DEF Begins, Held, Sound, Placed, ShellTyped, Tracked
<1> HIDE DEF c
<1>3. Begins(c, d) /\ Held(d) /\ d.edits = Shell!FreshEdits
  BY <1>2, FreshBegins, KeepsHeld
<1>4. d.workflow = s.workflow /\ Tracked \subseteq DOMAIN d
  BY <1>2, DestroyedFields
<1> HIDE DEF d
<1>5. next.state = "Deferred" => next.command \in MediaCommands
  BY <1>4 DEF Shell!Deferred, Shell!Idle, MediaCommands, Sound, Placed,
    ShellTyped, WorkflowTyped
<1> HIDE DEF next
<1>6. /\ Begins(d, u) /\ Held(u) /\ u.edits = Shell!FreshEdits
      /\ u.workflow = next
  BY <1>3, <1>4 DEF Begins, Held, Tracked
<1> HIDE DEF u
<1>7. /\ Begins(u, v) /\ Held(v) /\ v.edits = Shell!FreshEdits
      /\ v.workflow.state = "Deferred" => v = u
  <2>1. Begins(u, Shell!Release(u)) /\ Held(Shell!Release(u)) /\ Begins(u, u)
    BY <1>6, ReleaseBegins, KeepsHeld DEF Begins
  <2>2. "workflow" \in DOMAIN u => Shell!Release(u).workflow = u.workflow
    BY DEF Shell!Release
  <2>3. "workflow" \in DOMAIN u
    BY <1>4, <1>6 DEF Begins, Tracked
  <2> QED
    BY <1>6, <2>1, <2>2, <2>3 DEF Begins
<1> HIDE DEF v
<1>8. Begins(v, i) /\ Held(i) /\ i.edits = Shell!FreshEdits
  BY <1>7 DEF Begins, Held
<1> HIDE DEF i
<1>9. Begins(v, t) /\ t.edits = Shell!FreshEdits
  <2>1. CASE t = v
    BY <1>7, <2>1 DEF Begins
  <2>2. CASE /\ v.workflow.state = "Deferred"
             /\ t \in Shell!Dispatch(i, v.workflow.command)
    <3>1. Begins(i, t)
      BY <1>5, <1>6, <1>7, <1>8, <2>2, DispatchBegins
    <3> QED
      BY <1>8, <3>1, BeginsAgain DEF Begins
  <2> QED
    BY <1>1, <2>1, <2>2
<1> QED
  BY <1>2, <1>3, <1>6, <1>7, <1>9, BeginsAgain

\* What EditsAreKept says of a step.
KeepsEdits ==
  app.phase = "Running" /\ app'.phase # "Running"
    => \/ Shell!Confirm /\ ~Shell!ExportRunning(app.edits)
       \/ app.failed
       \/ app.exit.phase = "AwaitingHandoffDecision"
       \/ ~Shell!HasUnexportedChanges(
            IF app'.phase = "Stopping" THEN app'.edits
            ELSE Shell!TakeExportCompletion(app.edits))

\* A turn of the loop closes the session only with nothing to lose, or because
\* the picture failed.
LEMMA LoopKeeps ==
  ASSUME NEW s, Held(s), Sound(s), Shell!Occupied(s), ~Shell!Opening(s),
         NEW t \in Shell!PumpLoop(s)
  PROVE  /\ Held(t)
         /\ Safe(s) /\ ~s.failed /\ Shell!Controllable(s) =>
              \/ /\ t.edits = Shell!FreshEdits
                 /\ ~Shell!HasUnexportedChanges(Shell!TakeExportCompletion(s.edits))
              \/ /\ t.edits = Shell!TakeExportCompletion(s.edits)
                 /\ Safe(t) /\ Shell!Controllable(t)
<1>1. CASE s.phase # "Running"
  <2>1. t = Shell!FreshSession(s, "Closing")
    BY <1>1 DEF Shell!PumpLoop, Shell!BeginClosing
  <2>2. Held(t) /\ t.edits = Shell!FreshEdits
    BY <2>1, FreshBegins, KeepsHeld
  <2>3. Safe(s) => ~Shell!HasUnexportedChanges(Shell!TakeExportCompletion(s.edits))
    BY <1>1, ExportsOnlyHelp DEF Safe, Held
  <2> QED
    BY <2>2, <2>3
<1>2. CASE s.phase = "Running"
  <2> DEFINE p == Shell!PollExport(s)
             b == Shell!BeginExit(p, "stop")
  <2>1. PICK u \in {p, b} : t = IF u.phase = "Stopping" \/ u.failed
                                THEN Shell!BeginClosing(u) ELSE u
    BY <1>2 DEF Shell!PumpLoop, Shell!Then
  <2>2. /\ DOMAIN p = DOMAIN s /\ p.edits = Shell!TakeExportCompletion(s.edits)
        /\ p.failed = s.failed
        /\ Safe(s) => Safe(p)
    BY PollExportSafe DEF Sound, Placed, ShellTyped
  <2>3. Held(p)
    BY <2>2 DEF Held, Shell!TakeExportCompletion
  <2>4. Sound(p) /\ Shell!Controllable(p)
    BY <1>2, PollsExport DEF Shell!Controllable, Onward
  <2> HIDE DEF p
  <2>5. Keeps(p, p) /\ Keeps(p, b)
    BY <2>3, <2>4, BeginKeeps DEF Keeps, Sound, Placed, ShellTyped
  <2>6. Shell!Controllable(b)
    <3>1. "stop" \in Intents \ {"external"}
      BY DEF Intents, Shell!Handoffs
    <3> QED
      BY <2>4, <3>1, BeginsExit DEF Onward
  <2> HIDE DEF b
  <2>7. Keeps(p, u) /\ Shell!Controllable(u) /\ Held(u)
    BY <2>1, <2>3, <2>4, <2>5, <2>6, KeepsHeld
  <2>8. CASE u.phase = "Stopping" \/ u.failed
    <3>1. t = Shell!FreshSession(u, "Closing")
      BY <2>1, <2>8 DEF Shell!BeginClosing
    <3>2. Held(t) /\ t.edits = Shell!FreshEdits
      BY <2>7, <3>1, FreshBegins, KeepsHeld
    <3> QED
      BY <2>2, <2>7, <2>8, <3>2 DEF Keeps, Safe
  <2>9. CASE ~(u.phase = "Stopping" \/ u.failed)
    BY <2>1, <2>2, <2>7, <2>9 DEF Keeps
  <2> QED
    BY <2>8, <2>9
<1> QED
  BY <1>1, <1>2

LEMMA PlaybackKeeps ==
  ASSUME NEW s, Held(s), Sound(s), Shell!Occupied(s), ~Shell!Opening(s),
         NEW t \in Shell!PumpPlayback(s)
  PROVE  /\ Held(t)
         /\ Safe(s) /\ ~s.failed /\ Shell!Controllable(s) =>
              \/ /\ t.edits = Shell!FreshEdits
                 /\ ~Shell!HasUnexportedChanges(Shell!TakeExportCompletion(s.edits))
              \/ Safe(t) /\ Shell!Controllable(t)
<1>1. PICK u \in Shell!PumpLoop(s) :
        \/ u.phase = "Closing" /\ t \in Shell!FinishSession(u)
        \/ t \in Shell!DrainAndResume(u)
  BY DEF Shell!PumpPlayback, Shell!Then
<1>2. /\ Held(u)
      /\ Safe(s) /\ ~s.failed /\ Shell!Controllable(s) =>
           \/ /\ u.edits = Shell!FreshEdits
              /\ ~Shell!HasUnexportedChanges(Shell!TakeExportCompletion(s.edits))
           \/ /\ u.edits = Shell!TakeExportCompletion(s.edits)
              /\ Safe(u) /\ Shell!Controllable(u)
  BY LoopKeeps
<1>3. Sound(u)
  BY LoopSound
<1>4. CASE u.phase = "Closing" /\ t \in Shell!FinishSession(u)
  <2>1. Held(t) /\ t.edits = Shell!FreshEdits
    BY <1>2, <1>3, <1>4, FinishBegins, KeepsHeld
  <2> QED
    BY <1>2, <1>4, <2>1 DEF Shell!Controllable
<1>5. CASE t \in Shell!DrainAndResume(u)
  <2>1. Keeps(u, t) /\ Held(t) /\ Onward(u, t)
    BY <1>2, <1>3, <1>5, DrainResumeKeeps, DrainResumeSound, KeepsHeld
  <2> QED
    BY <1>2, <2>1 DEF Keeps, Onward
<1> QED
  BY <1>1, <1>4, <1>5

LEMMA PollKeeps ==
  ASSUME Held(app), Sound(app), Shell!Poll
  PROVE  Held(app') /\ KeepsEdits
<1> DEFINE First == IF Shell!Occupied(app) THEN {app} ELSE Shell!ResumeDeferredCommand(app)
           Pumped(s) == IF ~Shell!Occupied(s) THEN {s}
                        ELSE IF Shell!Opening(s) THEN Shell!PumpOpen(s)
                        ELSE Shell!Then(Shell!DrainAndResume(s), Shell!PumpPlayback)
           Risk == app.phase = "Running" /\ ~app.failed
                     /\ app.exit.phase # "AwaitingHandoffDecision"
           Clean == ~Shell!HasUnexportedChanges(Shell!TakeExportCompletion(app.edits))
<1>1. PICK s \in First : \E t \in Pumped(s) : app' \in Shell!SynchronizeTask(t)
  BY DEF Shell!Poll, Shell!Then
<1>2. /\ Held(s) /\ Sound(s)
      /\ app.phase = "Running" => s = app
  BY RunsDeferred, DeferredBegins, KeepsHeld DEF Shell!Occupied
<1> HIDE DEF First
<1>3. PICK t \in Pumped(s) : app' \in Shell!SynchronizeTask(t)
  BY <1>1
<1>4. /\ Held(t) /\ Sound(t)
      /\ Risk => \/ t.edits = Shell!FreshEdits /\ Clean
                 \/ Safe(t) /\ Shell!Controllable(t)
  <2>1. CASE ~Shell!Occupied(s)
    BY <1>2, <2>1 DEF Shell!Occupied
  <2>2. CASE Shell!Occupied(s) /\ Shell!Opening(s)
    <3> DEFINE boot(outcome) == [s EXCEPT !.phase = "BootClosing",
                                          !.after = outcome]
    <3>1. /\ Sound(t)
          /\ ~Risk
      BY <1>2, <2>2, OpeningSound DEF Shell!Opening
    <3>2. \/ t = s
          \/ \E outcome : t = boot(outcome)
          \/ \E outcome : \E u \in Shell!FinishVideoOpen(s, outcome) :
               t \in Shell!ResumeDeferredCommand(u)
      BY <2>2, OpeningLeaves
    <3>3. \A outcome : Held(boot(outcome))
      BY <1>2 DEF Held
    <3>4. \A outcome : \A u \in Shell!FinishVideoOpen(s, outcome) : Held(u) /\ Sound(u)
      BY <1>2, <2>2, OpenBegins, OpensSound, KeepsHeld
    <3> HIDE DEF boot
    <3>5. Held(t)
      BY <1>2, <3>2, <3>3, <3>4, DeferredBegins, KeepsHeld
    <3> QED
      BY <3>1, <3>5
  <2>3. CASE Shell!Occupied(s) /\ ~Shell!Opening(s)
    <3>1. PICK u \in Shell!DrainAndResume(s) : t \in Shell!PumpPlayback(u)
      BY <2>3 DEF Shell!Then
    <3>2. Sound(u) /\ Onward(s, u) /\ Keeps(s, u) /\ Held(u)
      BY <1>2, DrainResumeSound, DrainResumeKeeps, KeepsHeld
    <3>3. Shell!Occupied(u) /\ ~Shell!Opening(u)
      BY <1>2, <2>3, <3>2 DEF Onward, Shell!Occupied, Shell!Opening,
        Shell!Controllable, Sound, Placed, ShellTyped
    <3>4. Sound(t)
      BY <3>1, <3>2, <3>3, PlaybackSound
    <3>5. /\ Held(t)
          /\ Safe(u) /\ ~u.failed /\ Shell!Controllable(u) =>
               \/ /\ t.edits = Shell!FreshEdits
                  /\ ~Shell!HasUnexportedChanges(Shell!TakeExportCompletion(u.edits))
               \/ Safe(t) /\ Shell!Controllable(t)
      BY <3>1, <3>2, <3>3, PlaybackKeeps
    <3>6. Risk => Safe(u) /\ ~u.failed /\ Shell!Controllable(u) /\ u.edits = app.edits
      BY <1>2, <3>2 DEF Keeps, Safe, Onward, Shell!Controllable
    <3> QED
      BY <3>4, <3>5, <3>6
  <2> QED
    BY <2>1, <2>2, <2>3
<1>5. Keeps(t, app') /\ Onward(t, app') /\ Held(app')
  BY <1>3, <1>4, TaskKeeps, TaskSound, KeepsHeld DEF Sound, Placed, ShellTyped
<1>6. ASSUME Risk, app'.phase # "Running"
      PROVE  ~Shell!HasUnexportedChanges(
               IF app'.phase = "Stopping" THEN app'.edits
               ELSE Shell!TakeExportCompletion(app.edits))
  <2>1. CASE t.edits = Shell!FreshEdits /\ Clean
    <3>1. ~Shell!HasUnexportedChanges(app'.edits)
      BY <1>5, <2>1 DEF Keeps, Shell!FreshEdits, Shell!HasUnexportedChanges
    <3> QED
      BY <2>1, <3>1
  <2>2. CASE Safe(t) /\ Shell!Controllable(t)
    BY <1>5, <1>6, <2>2 DEF Keeps, Onward, Safe, Shell!Controllable
  <2> QED
    BY <1>4, <1>6, <2>1, <2>2
<1> QED
  BY <1>5, <1>6 DEF KeepsEdits

\* The session had not asked to hand over, and its edits are safe in s.
StillSafe(s) ==
  app.phase = "Running" /\ app.exit.phase # "AwaitingHandoffDecision" => Safe(s)

\* A session that went on, by a handler that kept its edits.
LEMMA HandlerKeeps ==
  ASSUME NEW s, Held(s), Keeps(s, app'), Onward(app, app'), StillSafe(s)
  PROVE  Held(app') /\ KeepsEdits
<1>1. Held(app')
  BY KeepsHeld
<1>2. StillSafe(app')
  BY DEF Keeps, StillSafe
<1> QED
  BY <1>1, <1>2 DEF KeepsEdits, StillSafe, Safe, Onward, Shell!Controllable

LEMMA InputKeeps ==
  ASSUME NEW s, Held(s), Sound(s), Shell!Input(s), Onward(app, s), StillSafe(s)
  PROVE  Held(app') /\ KeepsEdits
<1>1. Keeps(s, app') /\ Onward(s, app')
  BY DrainResumeKeeps, DrainResumeSound DEF Shell!Input
<1> QED
  BY <1>1, OnwardAgain, HandlerKeeps

\* A state that differs from this one in nothing that matters.
LEMMA SameIsSafe ==
  ASSUME NEW s, Held(app), Sound(app), Alike(app, s), Keeps(app, s)
  PROVE  Held(s) /\ Sound(s) /\ Onward(app, s) /\ StillSafe(s)
BY AlikeIsSound, KeepsHeld DEF Keeps, StillSafe, Safe

LEMMA ExitKeeps ==
  ASSUME Held(app), Sound(app), Shell!Leave \/ Shell!DropFiles \/ Shell!Cancel \/ Shell!Confirm
  PROVE  Held(app') /\ KeepsEdits
<1> USE DEF Held
<1>1. Tracked \subseteq DOMAIN app /\ StillSafe(app) /\ Onward(app, app)
  BY DEF Sound, Placed, ShellTyped, StillSafe, Safe, Onward
<1>2. ASSUME NEW s, NEW intent \in Intents \ {"external"}, Shell!Controllable(s),
             Held(s), Sound(s), Onward(app, s), StillSafe(s),
             Shell!Input(Shell!BeginExit(s, intent))
      PROVE  Held(app') /\ KeepsEdits
  <2> DEFINE t == Shell!BeginExit(s, intent)
  <2>1. Keeps(s, t) /\ Held(t)
    BY <1>2, BeginKeeps, KeepsHeld DEF Sound, Placed, ShellTyped
  <2>2. Sound(t) /\ Onward(app, t)
    BY <1>2, BeginsExit, OnwardAgain
  <2>3. StillSafe(t)
    BY <1>2, <2>1 DEF Keeps, StillSafe
  <2> QED
    BY <1>2, <2>1, <2>2, <2>3, InputKeeps
<1>3. {"stop", "quit", "transport", "openFiles"} \subseteq Intents \ {"external"}
  BY DEF Intents, Shell!Handoffs
<1>4. CASE Shell!Leave
  BY <1>1, <1>2, <1>3, <1>4 DEF Shell!Leave
<1>5. CASE Shell!DropFiles
  <2> DEFINE s == [app EXCEPT !.dropped = @ + 1]
             k == [s EXCEPT !.drops = @ + 1]
  <2>1. /\ Alike(app, s) /\ Keeps(app, s)
        /\ Alike(app, k) /\ Keeps(app, k)
    BY <1>1 DEF Alike, Tracked, Keeps, Safe
  <2>2. Shell!Input(IF Shell!NativeFileDropAccepted(s) THEN Shell!BeginExit(s, "openFiles") ELSE k)
    BY <1>5 DEF Shell!DropFiles
  <2> HIDE DEF s, k
  <2>3. Shell!Controllable(s)
    BY <1>5, <2>1 DEF Shell!DropFiles, Alike, Tracked, Shell!Controllable
  <2> QED
    BY <1>2, <1>3, <2>1, <2>2, <2>3, SameIsSafe, InputKeeps
<1>6. CASE Shell!Cancel
  <2> DEFINE c == Shell!CancelPendingExit(app)
             event == [kind |-> "cancel", id |-> app.exit.id]
  <2>1. PICK u \in Shell!DrainEvents(c) : app' \in Shell!ResumeHandoff(u)
    BY <1>6 DEF Shell!Cancel, Shell!Input, Shell!DrainAndResume, Shell!Then
  <2>2. Sound(u) /\ Onward(app, u)
    BY <1>6, CancelsSound DEF Shell!Cancel
  <2>3. app.events = <<>> /\ Append(app.events, event) = <<event>>
    BY <1>6 DEF Shell!Cancel, Sound, EventsTell, Shell!ConfirmationVisible
  <2>4. /\ Keeps(app, c) /\ Held(c) /\ Tracked \subseteq DOMAIN c
        /\ AtMostOneEvent(c)
    BY <1>1, <2>3 DEF Shell!CancelPendingExit, Keeps, Safe, Shell!NoExit,
      Tracked, AtMostOneEvent
  <2> HIDE DEF c
  <2>5. Keeps(app, u) /\ Held(u)
    BY <2>1, <2>4, DrainKeeps, KeepsAgain, KeepsHeld
  <2>6. Keeps(app, app') /\ Onward(app, app')
    BY <2>1, <2>2, <2>5, ResumeKeeps, ResumesSound, KeepsAgain, OnwardAgain
  <2> QED
    BY <1>1, <2>6, HandlerKeeps
<1>7. CASE Shell!Confirm
  <2> DEFINE c == Shell!CompletePendingExit(app)
  <2>1. Sound(c) /\ Onward(app, c) /\ app' \in Shell!DrainAndResume(c)
    BY <1>7, CompletesExit DEF Shell!Confirm
  <2>2. CASE Shell!ExportRunning(app.edits)
    BY <1>1, <2>1, <2>2, InputKeeps DEF Shell!CompletePendingExit, Shell!Input
  <2>3. CASE ~Shell!ExportRunning(app.edits)
    <3>1. Held(c)
      BY DEF Shell!CompletePendingExit, Shell!RequestDecision,
        Shell!FinishLoopExit
    <3> HIDE DEF c
    <3>2. Held(app')
      BY <2>1, <3>1, DrainResumeKeeps, KeepsHeld
    <3> QED
      BY <1>7, <2>3, <3>2 DEF KeepsEdits
  <2> QED
    BY <2>2, <2>3
<1> QED
  BY <1>4, <1>5, <1>6, <1>7

\* Editing and exporting.
LEMMA EditKeeps ==
  ASSUME Held(app), Sound(app), Shell!Edit \/ Shell!StartExport
  PROVE  Held(app') /\ KeepsEdits
<1>1. CASE Shell!Edit
  <2>1. PICK r : Shell!Input([app EXCEPT !.edits.revision = r])
    BY <1>1 DEF Shell!Edit
  <2> DEFINE s == [app EXCEPT !.edits.revision = r]
  <2>2. Alike(app, s) /\ Held(s) /\ StillSafe(s)
    BY DEF Alike, Tracked, Sound, Placed, ShellTyped, Held, StillSafe, Safe
  <2> HIDE DEF s
  <2> QED
    BY <2>1, <2>2, AlikeIsSound, InputKeeps DEF s
<1>2. CASE Shell!StartExport
  <2> DEFINE edits == Shell!TakeExportCompletion(app.edits)
             applied == [app EXCEPT !.edits = edits]
             running == [state |-> "running", revision |-> edits.revision]
             asked == Shell!ConfirmationVisible(app)
                        /\ Shell!HasUnexportedChanges(app.edits)
             begun == [applied EXCEPT !.edits.job = running, !.armed = asked]
             c == Shell!CompletePendingExit(applied)
  <2>1. /\ {"revision", "exported", "job"} \subseteq DOMAIN edits
        /\ edits.revision = 0 => ~Shell!HasUnexportedChanges(edits)
    BY DEF Held, Shell!TakeExportCompletion, Shell!HasUnexportedChanges
  <2>2. \/ ~Shell!HasUnexportedChanges(edits) /\ Shell!Input(c)
        \/ Shell!Input(applied)
        \/ Shell!Input(begun)
    BY <1>2, <2>1 DEF Shell!StartExport
  <2> HIDE DEF edits, asked
  <2>3. /\ Alike(app, applied) /\ Held(applied) /\ StillSafe(applied)
        /\ Alike(app, begun) /\ Held(begun) /\ StillSafe(begun)
        /\ applied.edits = edits
    BY <2>1 DEF Alike, Tracked, Sound, Placed, ShellTyped, Held, StillSafe,
      Safe
  <2> HIDE DEF applied, begun
  <2>4. /\ Sound(applied) /\ Onward(app, applied) /\ Shell!Controllable(applied)
        /\ Sound(begun) /\ Onward(app, begun)
    BY <1>2, <2>3, AlikeIsSound DEF Shell!StartExport, Onward
  <2>5. Sound(c) /\ Onward(app, c)
    BY <2>4, CompletesExit, OnwardAgain
  <2>6. Held(c) /\ c.edits = edits
    BY <2>3 DEF Shell!CompletePendingExit, Shell!RequestDecision,
      Shell!FinishLoopExit, Held
  <2> HIDE DEF c
  <2>7. ~Shell!HasUnexportedChanges(edits) => StillSafe(c)
    BY <2>6 DEF StillSafe, Safe
  <2> QED
    BY <2>2, <2>3, <2>4, <2>5, <2>6, <2>7, InputKeeps
<1> QED
  BY <1>1, <1>2

LEMMA PromptKeeps ==
  ASSUME Held(app), Sound(app),
         \/ Shell!WaitForExport \/ Shell!AskOrAnswer \/ Shell!TaskFinished \/ Shell!SetExternalModal
  PROVE  Held(app') /\ KeepsEdits
<1> DEFINE armed == [app EXCEPT !.armed = TRUE]
           opened == [app EXCEPT !.prompt = TRUE]
           closed == [app EXCEPT !.prompt = FALSE]
           asked == [app EXCEPT !.task = TRUE]
           answered == [app EXCEPT !.task = FALSE]
           modal == [app EXCEPT !.modal = ~@]
           Changed == {armed, opened, closed, asked, answered, modal}
           d == Shell!ResumeDeferredDrop(answered)
           m == Shell!ResumeDeferredDrop(modal)
<1>1. \A s \in Changed : Alike(app, s) /\ Keeps(app, s)
  BY DEF Alike, Tracked, Keeps, Safe, Sound, Placed, ShellTyped, Held
<1>2. \/ \E s \in {armed, opened, closed, asked, d} : Shell!Input(s)
      \/ app' \in Shell!ResumeHandoff(d)
      \/ app' \in {modal, m}
  BY DEF Shell!WaitForExport, Shell!AskOrAnswer, Shell!TaskFinished,
    Shell!SetExternalModal
<1> HIDE DEF armed, opened, closed, asked, answered, modal
<1>3. \A s \in Changed :
        Held(s) /\ Sound(s) /\ Onward(app, s) /\ StillSafe(s)
  BY <1>1, SameIsSafe
<1>4. ASSUME NEW s \in Changed
      PROVE  LET t == Shell!ResumeDeferredDrop(s)
             IN  /\ Held(t) /\ Sound(t) /\ Onward(app, t) /\ StillSafe(t)
                 /\ Keeps(s, t)
  <2> DEFINE t == Shell!ResumeDeferredDrop(s)
  <2>1. Keeps(s, t) /\ Held(t)
    BY <1>3, DropKeeps, KeepsHeld DEF Sound, Placed, ShellTyped
  <2>2. Sound(t) /\ Onward(app, t)
    BY <1>3, DropsSound, OnwardAgain
  <2>3. StillSafe(t)
    BY <1>3, <2>1 DEF StillSafe, Keeps
  <2> QED
    BY <2>1, <2>2, <2>3
<1>5. CASE \E s \in {armed, opened, closed, asked, d} : Shell!Input(s)
  BY <1>3, <1>4, <1>5, InputKeeps
<1>6. CASE app' \in Shell!ResumeHandoff(d)
  <2>1. Keeps(d, app') /\ Onward(d, app')
    BY <1>4, <1>6, ResumeKeeps, ResumesSound
  <2> QED
    BY <1>4, <2>1, OnwardAgain, HandlerKeeps
<1>7. CASE app' \in {modal, m}
  <2>1. Keeps(modal, app') /\ Onward(app, app')
    BY <1>3, <1>4, <1>7 DEF Keeps
  <2> QED
    BY <1>3, <2>1, HandlerKeeps
<1> QED
  BY <1>2, <1>5, <1>6, <1>7

\* Commands, controls and the request to quit.
LEMMA CommandKeeps ==
  ASSUME Held(app), Sound(app), Shell!Open \/ Shell!Control \/ Shell!RequestQuit
  PROVE  Held(app') /\ KeepsEdits
<1> USE DEF Held
<1>1. Tracked \subseteq DOMAIN app /\ StillSafe(app) /\ Onward(app, app)
  BY DEF Sound, Placed, ShellTyped, StillSafe, Safe, Onward
<1>2. CASE app.phase = "Running" /\ Shell!Open
  <2>1. PICK command \in Shell!Commands(app) : app' \in Shell!Submit(app, command)
    BY <1>2 DEF Shell!Open
  <2> DEFINE n == [app EXCEPT !.workflow = Shell!Negotiating(command, 0)]
  <2>2. \/ app' = app
        \/ app.workflow = Shell!Idle /\ app' \in Shell!ResumeHandoff(n)
    <3>1. Shell!Occupied(app)
      BY <1>2 DEF Shell!Occupied
    <3> QED
      BY <2>1, <3>1 DEF Shell!Submit
  <2>3. CASE app' = app
    BY <1>2, <2>3 DEF KeepsEdits
  <2>4. CASE app.workflow = Shell!Idle /\ app' \in Shell!ResumeHandoff(n)
    <3>1. Keeps(app, n) /\ Held(n)
      BY <1>1 DEF Keeps, Safe
    <3>2. Sound(n) /\ Onward(app, n)
      BY <1>2, <2>1, <2>4, NegotiatesSound
         DEF Shell!Commands, MediaCommands, Shell!Controllable
    <3> HIDE DEF n
    <3>3. Keeps(app, app') /\ Onward(app, app')
      BY <2>4, <3>1, <3>2, ResumeKeeps, ResumesSound, KeepsAgain, OnwardAgain
    <3> QED
      BY <1>1, <3>3, HandlerKeeps
  <2> QED
    BY <2>2, <2>3, <2>4
<1>3. CASE app.phase # "Running" /\ Shell!Open
  <2>1. PICK command \in Shell!Commands(app) : app' \in Shell!Submit(app, command)
    BY <1>3 DEF Shell!Open
  <2> DEFINE n == [app EXCEPT !.workflow = Shell!Negotiating(command, 0)]
  <2>2. command \in MediaCommands
    BY DEF Shell!Commands, MediaCommands
  <2>3. \/ app' = app
        \/ Shell!Controllable(app) /\ app.workflow = Shell!Idle /\ app' \in Shell!ResumeHandoff(n)
        \/ app' \in Shell!Dispatch(app, command)
    BY <2>1 DEF Shell!Submit
  <2>4. Shell!Controllable(app) /\ app.workflow = Shell!Idle => Sound(n) /\ Held(n)
    BY <2>2, NegotiatesSound
  <2> HIDE DEF n
  <2>5. Held(app')
    BY <2>2, <2>3, <2>4, ResumeKeeps, DispatchBegins, KeepsHeld
  <2> QED
    BY <1>3, <2>5 DEF KeepsEdits
<1>4. CASE Shell!Controllable(app) /\ Shell!Control
  <2> DEFINE s == IF Shell!Free(app) THEN Shell!BeginExit(app, "stop") ELSE app
             r == Shell!BeginExit(app, "transport")
  <2>1. PICK t \in Shell!DrainEvents(s) \cup Shell!DrainEvents(r) :
          app' = t \/ app' = [t EXCEPT !.control = FALSE]
    BY <1>4 DEF Shell!Control
  <2>2. {"stop", "transport"} \subseteq Intents \ {"external"}
    BY DEF Intents, Shell!Handoffs
  <2>3. /\ Sound(s) /\ Keeps(app, s) /\ Onward(app, s)
        /\ Sound(r) /\ Keeps(app, r) /\ Onward(app, r)
    BY <1>1, <1>4, <2>2, BeginsExit, BeginKeeps DEF Keeps
  <2> HIDE DEF s, r
  <2>4. Keeps(app, t) /\ Onward(app, t) /\ Sound(t) /\ Held(t)
    <3>1. ASSUME NEW x, Sound(x), Keeps(app, x), Onward(app, x),
                 t \in Shell!DrainEvents(x)
          PROVE  Keeps(app, t) /\ Onward(app, t) /\ Sound(t)
      <4>1. Held(x) /\ Tracked \subseteq DOMAIN x /\ AtMostOneEvent(x)
        BY <3>1, KeepsHeld DEF Sound, Placed, ShellTyped, EventsTell,
          AtMostOneEvent
      <4> QED
        BY <3>1, <4>1, DrainKeeps, DrainsSound, KeepsAgain, OnwardAgain
    <3> QED
      BY <2>1, <2>3, <3>1, KeepsHeld
  <2>5. Keeps(t, app') /\ Onward(t, app')
    BY <2>1, <2>4 DEF Keeps, Safe, Onward, Shell!Controllable, Sound, Placed,
      ShellTyped, Tracked
  <2> QED
    BY <1>1, <2>4, <2>5, KeepsAgain, OnwardAgain, HandlerKeeps
<1>5. CASE ~Shell!Controllable(app) /\ Shell!Control
  <2>1. \/ app' = [app EXCEPT !.audio = "none", !.control = FALSE]
        \/ app' = [app EXCEPT !.control = FALSE]
    BY <1>5 DEF Shell!Control
  <2> QED
    BY <1>5, <2>1 DEF KeepsEdits, Shell!Controllable
<1>6. CASE Shell!Controllable(app) /\ Shell!RequestQuit
  <2>1. app' = Shell!BeginExit(app, "quit")
    BY <1>6 DEF Shell!RequestQuit, Shell!Opening, Shell!Controllable
  <2>2. "quit" \in Intents \ {"external"}
    BY DEF Intents, Shell!Handoffs
  <2> QED
    BY <1>1, <1>6, <2>1, <2>2, BeginKeeps, BeginsExit, HandlerKeeps
<1>7. CASE ~Shell!Controllable(app) /\ Shell!RequestQuit
  <2> DEFINE r == Shell!Release(app)
  <2>1. Held(r)
    BY ReleaseBegins, KeepsHeld
  <2>2. \/ app' = [app EXCEPT !.phase = "BootClosing", !.after = "quit"]
        \/ app' = [app EXCEPT !.quits = TRUE]
        \/ app' = [r EXCEPT !.fallback = FALSE, !.workflow = Shell!Idle]
    BY <1>7 DEF Shell!RequestQuit
  <2> HIDE DEF r
  <2> QED
    BY <1>7, <2>1, <2>2 DEF KeepsEdits, Shell!Controllable
<1> QED
  BY <1>2, <1>3, <1>4, <1>5, <1>6, <1>7

\* Every step of the shell.
LEMMA StepKeepsEdits ==
  ASSUME Held(app), Sound(app), Shell!Next
  PROVE  Held(app') /\ KeepsEdits
<1>1. CASE Shell!Poll
  BY <1>1, PollKeeps
<1>2. CASE Shell!Leave \/ Shell!DropFiles \/ Shell!Cancel \/ Shell!Confirm
  BY <1>2, ExitKeeps
<1>3. CASE Shell!Edit \/ Shell!StartExport
  BY <1>3, EditKeeps
<1>4. CASE Shell!WaitForExport \/ Shell!AskOrAnswer \/ Shell!TaskFinished \/ Shell!SetExternalModal
  BY <1>4, PromptKeeps
<1>5. CASE Shell!Open \/ Shell!Control \/ Shell!RequestQuit
  BY <1>5, CommandKeeps
<1>6. CASE Shell!ResolveAudioFallback
  <2> DEFINE f == [app EXCEPT !.fallback = FALSE]
             s == Shell!Release(f)
  <2>1. app' = s \/ app' \in Shell!Dispatch(s, "audio")
    BY <1>6 DEF Shell!ResolveAudioFallback, Shell!Dispatch
  <2>2. Held(f)
    BY DEF Held
  <2> HIDE DEF f
  <2>3. Held(s)
    BY <2>2, ReleaseBegins, KeepsHeld
  <2> HIDE DEF s
  <2>4. Held(app')
    BY <2>1, <2>3, DispatchBegins, KeepsHeld DEF MediaCommands
  <2>5. app.phase # "Running"
    BY <1>6 DEF Shell!ResolveAudioFallback, Sound, Placed, LeasePlaced,
      Shell!Occupied
  <2> QED
    BY <2>4, <2>5 DEF KeepsEdits
<1>7. CASE Shell!CancelOpening
  BY <1>7 DEF Shell!CancelOpening, Shell!Opening, KeepsEdits, Held
<1>8. CASE Shell!ExportEnds \/ Shell!LeaseBecomesReady \/ Shell!StreamStarts \/ Shell!RenderFails
  <2>1. Held(app') /\ ("phase" \in DOMAIN app => app'.phase = app.phase)
    <3>1. CASE Shell!ExportEnds
      BY <3>1 DEF Shell!ExportEnds, Held
    <3>2. CASE Shell!LeaseBecomesReady \/ Shell!StreamStarts \/ Shell!RenderFails
      BY <3>2 DEF Shell!LeaseBecomesReady, Shell!StreamStarts,
        Shell!RenderFails, Held
    <3> QED
      BY <1>8, <3>1, <3>2
  <2>2. "phase" \in DOMAIN app
    BY DEF Sound, Placed, ShellTyped, Tracked
  <2> QED
    BY <2>1, <2>2 DEF KeepsEdits
<1> QED
  BY <1>1, <1>2, <1>3, <1>4, <1>5, <1>6, <1>7, <1>8 DEF Shell!Next

LEMMA BeginsHeld ==
  ASSUME Shell!Init
  PROVE  Held(app)
BY DEF Shell!Init, Held, Shell!FreshEdits

-----------------------------------------------------------------------------
(* What MCPlayback says of the shell follows. *)

SInv == Sound(app) /\ Held(app)

\* Whatever the user, the worker and background work do, the shell and its
\* session stay sound: the strengthening the properties below need.
THEOREM ShellInductive == MCSpec => []SInv
<1>1. MCInit => SInv
  BY BeginsSound, BeginsHeld DEF MCInit, SInv
<1>2. SInv /\ [MCNext]_<<end, allVars, app>> => SInv'
  <2> SUFFICES ASSUME SInv, [MCNext]_<<end, allVars, app>> PROVE SInv'
    OBVIOUS
  <2>1. CASE Shell!Next
    <3>1. Sound(app') /\ Held(app')
      BY <2>1, StepSound, StepKeepsEdits DEF SInv
    <3> QED
      BY <3>1 DEF SInv
  <2>2. CASE UNCHANGED app
    BY <2>2 DEF SInv
  <2> QED
    BY <2>1, <2>2 DEF MCNext
<1> QED
  BY <1>1, <1>2, PTL DEF MCSpec

\* The workflow and the session never disagree about the handoff under way,
\* whatever exits, cancels, drops and quits came before, and no answer of the
\* shell meets a session that does not wait for it.
THEOREM Handoff == MCSpec => []HandoffsAgree
<1>1. SInv => HandoffsAgree
  BY SoundAgrees DEF SInv, HandoffsAgree
<1> QED
  BY <1>1, ShellInductive, PTL

\* The lease is there for a playback, a command that waits or a question to
\* the user, and for nothing else, on every path by which a session ends or
\* fails to open.
THEOREM LeaseTheorem == MCSpec => []LeaseCoversPlayback
<1>1. SInv => LeaseCoversPlayback
  BY SoundAgrees DEF SInv, LeaseCoversPlayback
<1> QED
  BY <1>1, ShellInductive, PTL

\* A session that was left to quit is the last thing that happens: no media
\* change that waited for its end runs in place of the quit.
THEOREM QuitIsLast == MCSpec => QuitPreempts
<1>1. SInv /\ [MCNext]_<<end, allVars, app>> =>
        [app.quits /\ app.phase \in {"Stopping", "Closing"}
           /\ app'.phase \notin {"Stopping", "Closing"}
           => /\ ~Shell!Occupied(app') /\ app'.workflow = Shell!Idle
              /\ app'.lease = "none"]_app
  <2> SUFFICES ASSUME SInv, Shell!Next
               PROVE  app.quits /\ app.phase \in {"Stopping", "Closing"}
                        /\ app'.phase \notin {"Stopping", "Closing"}
                        => /\ ~Shell!Occupied(app') /\ app'.workflow = Shell!Idle
                           /\ app'.lease = "none"
    BY DEF MCNext
  <2>1. QuitFirst(app, app')
    BY StepSound DEF SInv
  <2> QED
    BY <2>1 DEF QuitFirst, Leaving, Left, Shell!Occupied
<1> QED
  BY <1>1, ShellInductive, PTL DEF MCSpec, QuitPreempts, Shell!QuitPreempts,
    Shell!vars

\* No edit that was not exported is lost by a way out of the session that the
\* user did not confirm.
THEOREM NothingIsLost == MCSpec => EditsAreKept
<1>1. SInv /\ [MCNext]_<<end, allVars, app>> => [KeepsEdits]_app
  <2> SUFFICES ASSUME SInv, Shell!Next PROVE KeepsEdits
    BY DEF MCNext
  <2> QED
    BY StepKeepsEdits DEF SInv
<1> QED
  BY <1>1, ShellInductive, PTL DEF MCSpec, EditsAreKept, Shell!EditsAreKept,
    Shell!vars, KeepsEdits
=============================================================================
