-------------------------- MODULE WorkerTaskProofs --------------------------
(***************************************************************************)
(* Proofs about WorkerTask: its invariants, and that it implements         *)
(* JobLifecycle, whatever the contracts of its tasks.                      *)
(***************************************************************************)
EXTENDS WorkerTask, TLAPS

\* The activity is there while the worker is at its run, and no longer.
WorkerAgrees ==
  /\ active <=> worker \notin {"none", "notify", "exited"}
  /\ worker = "working" => ~commitStarted
  /\ worker \in {"granted", "publishing"} => commitStarted

\* Of a run under way, the flags and the barrier tell one story.
FlagsAgree ==
  /\ active => (cancellable <=> ~cancelling /\ ~commitStarted)
  /\ active => (cancelling <=> cancelRequested)
  /\ ~active => ~cancellable /\ ~cancelling
  /\ cancelRequested => ~commitStarted

\* Only a run with a contract to publish passes the barrier.
ContractAgrees ==
  /\ active \/ completion # "None" => contract \in Contracts
  /\ commitStarted => contract = "RequiresPublishedOutput"
  /\ completion # "None" => ~active

\* What run() carries from step to step.  From the contract check on, it is
\* a success just when the output is in place or none was required.
ResultAgrees ==
  /\ published => commitStarted
  /\ worker \in {"working", "granted", "publishing"} => ~published
  /\ worker \in {"contract", "cancel_test", "store"} =>
       /\ result # "None"
       /\ result = "Cancelled" => cancelRequested
       /\ commitStarted => (published <=> result = "Succeeded")
  /\ worker \in {"cancel_test", "store"} =>
       /\ contract = "RequiresPublishedOutput" =>
            (published <=> result = "Succeeded")

\* Nobody joins a thread that is still the member's.
HandleAgrees ==
  /\ handle => owner \notin JoinPlaces
  /\ owner \in {"start_join", "take_join"} => ~active
  /\ owner = "take_join" => completion = "None"

SignalAgrees ==
  completion # "None" /\ owner \in {"idle", "start_join", "start"} =>
    signalled \/ worker = "notify"

IInv ==
  /\ TypeOK
  /\ WorkerAgrees
  /\ FlagsAgree
  /\ ContractAgrees
  /\ ResultAgrees
  /\ OutcomeMatchesOutput
  /\ CancelledWasAsked
  /\ HandleAgrees
  /\ ThreadIsOwned
  /\ SignalAgrees

\* IInv holds in every reachable state of the task.
THEOREM Inductive == Spec => []IInv
<1> USE DEF IInv, Contracts, Outcomes, WorkerPlaces, OwnerPlaces,
            JoinPlaces, Startable
<1>1. Init => IInv
  BY DEF Init, TypeOK, WorkerAgrees, FlagsAgree, ContractAgrees,
     ResultAgrees, OutcomeMatchesOutput, CancelledWasAsked, HandleAgrees,
     ThreadIsOwned, SignalAgrees
<1>2. IInv /\ [Next]_vars => IInv'
  <2> SUFFICES ASSUME IInv, [Next]_vars PROVE IInv'
    OBVIOUS
  <2> USE DEF TypeOK, WorkerAgrees, FlagsAgree, ContractAgrees,
              ResultAgrees, OutcomeMatchesOutput, CancelledWasAsked,
              HandleAgrees, ThreadIsOwned, SignalAgrees, activity
  <2>1. CASE JoinFinished
    BY <2>1, ZenonT(40) DEF JoinFinished
  <2>2. CASE RefuseStart
    BY <2>2 DEF RefuseStart
  <2>3. CASE StartWorker
    BY <2>3 DEF StartWorker
  <2>4. CASE StartFails
    BY <2>4 DEF StartFails
  <2>5. CASE Notify
    BY <2>5 DEF Notify
  <2>6. CASE RequestCancel
    BY <2>6 DEF RequestCancel, AcceptCancel
  <2>7. CASE ConsumeChanged
    BY <2>7, ZenonT(40) DEF ConsumeChanged
  <2>8. CASE TakeCompletion
    BY <2>8, ZenonT(40) DEF TakeCompletion
  <2>9. CASE BeginDestruction
    <3>1. CASE AcceptCancel /\ owner' = "close_notify"
      BY <2>9, <3>1 DEF BeginDestruction, AcceptCancel
    <3>2. CASE UNCHANGED <<activity, cancelRequested>> /\ owner' = "close"
      BY <2>9, <3>2 DEF BeginDestruction
    <3> QED
      BY <2>9, <3>1, <3>2 DEF BeginDestruction
  <2>10. CASE TakeHandle
    BY <2>10, ZenonT(40) DEF TakeHandle
  <2>11. CASE Join
    BY <2>11 DEF Join
  <2>12. CASE ReportProgress
    BY <2>12 DEF ReportProgress
  <2>13. CASE ReturnUnpublished
    BY <2>13 DEF ReturnUnpublished
  <2>14. CASE BeginCommit
    BY <2>14 DEF BeginCommit
  <2>15. CASE NotifyCommit
    BY <2>15 DEF NotifyCommit
  <2>16. CASE Publish
    BY <2>16 DEF Publish
  <2>17. CASE CheckContract
    BY <2>17 DEF CheckContract
  <2>18. CASE TestCancel
    BY <2>18 DEF TestCancel
  <2>19. CASE StoreCompletion
    BY <2>19 DEF StoreCompletion
  <2>20. CASE NotifyFinish
    BY <2>20 DEF NotifyFinish
  <2>21. CASE UNCHANGED vars
    BY <2>21 DEF vars
  <2> QED
    BY <2>1, <2>2, <2>3, <2>4, <2>5, <2>6, <2>7, <2>8, <2>9, <2>10, <2>11,
       <2>12, <2>13, <2>14, <2>15, <2>16, <2>17, <2>18, <2>19, <2>20, <2>21
       DEF Next, Owner, EndOfRun
<1> QED
  BY <1>1, <1>2, PTL DEF Spec

\* The owner never reaches std::terminate, and every variable keeps its type.
THEOREM TypeCorrect == Spec => []TypeOK
<1>1. IInv => TypeOK
  BY DEF IInv
<1> QED
  BY <1>1, Inductive, PTL

\* A run that had to publish is reported as succeeded when its output is in
\* place and in no other case, though run() reads the barrier and stores the
\* outcome under two different locks.
THEOREM OutcomeIsTrue == Spec => []OutcomeMatchesOutput
<1>1. IInv => OutcomeMatchesOutput
  BY DEF IInv
<1> QED
  BY <1>1, Inductive, PTL

\* Once requestCancel() returned true, beginCommit() is refused.
THEOREM CancelHolds == Spec => []AcceptedCancelHolds
<1>1. IInv => AcceptedCancelHolds
  BY DEF IInv, AcceptedCancelHolds, FlagsAgree, ResultAgrees
<1> QED
  BY <1>1, Inductive, PTL

\* Neither the operation nor run() reports a cancellation of its own making.
THEOREM CancelWasAsked == Spec => []CancelledWasAsked
<1>1. IInv => CancelledWasAsked
  BY DEF IInv
<1> QED
  BY <1>1, Inductive, PTL

\* Every thread is joined once, and tryStart() assigns only an empty handle.
THEOREM ThreadOwnership == Spec => []ThreadIsOwned
<1>1. IInv => ThreadIsOwned
  BY DEF IInv
<1> QED
  BY <1>1, Inductive, PTL

-----------------------------------------------------------------------------
(* Refinement *)

\* Each step of the two threads is a step of JobLifecycle or none of its
\* business; the outcome is decided where the completion is stored.
LEMMA StepSimulation ==
  IInv /\ [Next]_vars => [Lifecycle!Next]_(Lifecycle!vars)
<1> SUFFICES ASSUME IInv, [Next]_vars
             PROVE  Lifecycle!Next \/ UNCHANGED Lifecycle!vars
  OBVIOUS
<1> USE DEF IInv, TypeOK, Contracts, Outcomes, Lifecycle!vars,
        activity
<1>1. CASE StartWorker
  <2>1. Lifecycle!Start
    BY <1>1 DEF StartWorker, Startable, Lifecycle!Start, Lifecycle!Startable
  <2> QED
    BY <2>1 DEF Lifecycle!Next
<1>2. CASE StartFails
  <2>1. Lifecycle!StartFails
    BY <1>2 DEF StartFails, Startable, Lifecycle!StartFails,
                Lifecycle!Startable
  <2> QED
    BY <2>1 DEF Lifecycle!Next
<1>3. CASE RequestCancel
  <2>1. Lifecycle!AcceptCancel
    BY <1>3 DEF RequestCancel, AcceptCancel, FlagsAgree,
                Lifecycle!AcceptCancel
  <2> QED
    BY <2>1 DEF Lifecycle!Next
<1>4. CASE BeginDestruction
  <2>1. Lifecycle!AcceptCancel \/ UNCHANGED Lifecycle!vars
    BY <1>4 DEF BeginDestruction, AcceptCancel, FlagsAgree,
                Lifecycle!AcceptCancel
  <2> QED
    BY <2>1 DEF Lifecycle!Next
<1>5. CASE TakeCompletion
  <2>1. Lifecycle!Take \/ UNCHANGED Lifecycle!vars
    BY <1>5 DEF TakeCompletion, Lifecycle!Take
  <2> QED
    BY <2>1 DEF Lifecycle!Next
<1>6. CASE BeginCommit
  <2>1. Lifecycle!PassBarrier \/ UNCHANGED Lifecycle!vars
    BY <1>6 DEF BeginCommit, WorkerAgrees, Lifecycle!PassBarrier
  <2> QED
    BY <2>1 DEF Lifecycle!Next
<1>7. CASE Publish
  <2>1. active /\ commitStarted /\ ~cancelling /\ ~published
    BY <1>7 DEF Publish, WorkerAgrees, FlagsAgree, ResultAgrees
  <2>2. Lifecycle!Publish \/ UNCHANGED Lifecycle!vars
    BY <1>7, <2>1 DEF Publish, Lifecycle!Publish
  <2> QED
    BY <2>2 DEF Lifecycle!Next
<1>8. CASE StoreCompletion
  <2>1. /\ active /\ ~active'
        /\ completion' = result
        /\ result \in Outcomes
        /\ published' = published
    BY <1>8 DEF StoreCompletion, WorkerAgrees, ResultAgrees
  <2>2. /\ result = "Cancelled" => cancelling
        /\ cancelling => ~commitStarted
    BY <1>8, <2>1 DEF StoreCompletion, ResultAgrees, FlagsAgree
  <2>3. /\ commitStarted => (published <=> result = "Succeeded")
        /\ ~commitStarted /\ result = "Succeeded" =>
             contract = "NoPublishedOutput" /\ contract \in Contracts
    BY <1>8, <2>1 DEF StoreCompletion, ResultAgrees, ContractAgrees
  <2>4. Lifecycle!MayEnd(result)
    BY <2>1, <2>2, <2>3 DEF Lifecycle!MayEnd
  <2>5. Lifecycle!End
    BY <2>1, <2>4 DEF Lifecycle!End, Lifecycle!Outcomes
  <2> QED
    BY <2>5 DEF Lifecycle!Next
<1>9. CASE \/ JoinFinished \/ RefuseStart \/ Notify \/ ConsumeChanged
           \/ TakeHandle \/ Join \/ ReportProgress \/ ReturnUnpublished
           \/ NotifyCommit \/ CheckContract \/ TestCancel \/ NotifyFinish
           \/ UNCHANGED vars
  BY <1>9 DEF JoinFinished, RefuseStart, Notify, ConsumeChanged,
              TakeHandle, Join, ReportProgress, ReturnUnpublished,
              NotifyCommit, CheckContract, TestCancel, NotifyFinish, vars
<1> QED
  BY <1>1, <1>2, <1>3, <1>4, <1>5, <1>6, <1>7, <1>8, <1>9
     DEF Next, Owner, EndOfRun

\* The worker task is a background job too.
THEOREM Refinement == Spec => KeepsLifecycle
<1>1. Init => Lifecycle!Init
  BY DEF Init, Lifecycle!Init
<1> QED
  BY <1>1, Inductive, StepSimulation, PTL
     DEF KeepsLifecycle, Spec, Lifecycle!Spec
=============================================================================
