--------------------------- MODULE MCWorkersProofs ---------------------------
(***************************************************************************)
(* Proofs about the five pairs of an owner and its worker thread that      *)
(* MCWorkers puts side by side: the latest-request worker for any number   *)
(* of generations, the video editor's two jobs, the window for any number  *)
(* of transitions, and, with the proofs about the transcript job and the   *)
(* coordinator's task, what MCWorkers says of all of them together.        *)
(***************************************************************************)
EXTENDS MCWorkers, TLAPS

-----------------------------------------------------------------------------
(* The latest-request worker, for any number of generations.  The inductive *)
(* invariant adds to the checked invariants that a queued request is the    *)
(* newest one, that a running one is no newer than that, and that work      *)
(* which gave up stays cancelled.                                           *)

\* What is queued is the newest generation; a running one is not newer.
JobsAreOrdered ==
  /\ pending # 0 => pending = latest
  /\ job <= latest

\* Work that gave up is not the newest and stays cancelled until it commits.
AbandonedStaysCancelled ==
  \A g \in abandoned : /\ g <= latest
                       /\ g = latest => stopping

\* The destructor leaves nothing to publish or to deliver.
StoppingIsEmpty ==
  /\ stopping => completion = 0
  /\ stopping <=> owner \in {"notifyStop", "join", "destroyed"}

\* What was delivered is older than anything still to come, and a job runs
\* only while nothing waits to be polled: its submit() cleared the slot.
DeliveredIsOld ==
  /\ delivered <= latest
  /\ completion # 0 =>
       /\ delivered < completion
       /\ job = 0
       /\ pending = 0
  /\ pending # 0 => delivered < pending
  /\ job # 0 => delivered < job
  /\ job # 0 /\ pending # 0 => job < pending
  /\ (worker \in {"working", "worked", "commit"}) <=> (job # 0)

IInv ==
  /\ TypeOK
  /\ CompletionIsLatest
  /\ ReadyMeansCompletion
  /\ JobsAreOrdered
  /\ AbandonedStaysCancelled
  /\ StoppingIsEmpty
  /\ DeliveredIsOld

\* The strengthened invariant holds in every reachable state: the owner and
\* the worker of run(), submit(), cancel(), poll() and the destructor keep it.
THEOREM TypeAndFreshness == Spec => []IInv
<1> USE GenerationAssumption
    DEF TypeOK, CompletionIsLatest, ReadyMeansCompletion,
        JobsAreOrdered, AbandonedStaysCancelled,
        StoppingIsEmpty, DeliveredIsOld, Generations, CancellationRequested
<1>1. Init => IInv
  <2>1. Init => TypeOK
    <3>1. Init => {latest, pending, completion, job, delivered}
                    \subseteq 0..MaxGeneration
      BY DEF Init
    <3>2. Init => {ready, stopping} \subseteq BOOLEAN
      BY DEF Init
    <3> QED
      BY <3>1, <3>2 DEF Init
  <2>2. Init => /\ CompletionIsLatest /\ ReadyMeansCompletion
                /\ JobsAreOrdered /\ AbandonedStaysCancelled /\ StoppingIsEmpty
    BY DEF Init
  <2>3. Init => DeliveredIsOld
    BY DEF Init
  <2> QED
    BY <2>1, <2>2, <2>3 DEF IInv
<1>2. IInv /\ [Next]_vars => IInv'
  <2> SUFFICES ASSUME IInv, [Next]_vars PROVE IInv'
    OBVIOUS
  <2> USE DEF IInv
  <2>1. CASE Submit
    <3>1. TypeOK'
      <4>1. {latest', pending', completion', job', delivered'}
              \subseteq 0..MaxGeneration
        BY <2>1 DEF Submit
      <4>2. {ready', stopping'} \subseteq BOOLEAN
        BY <2>1 DEF Submit
      <4> QED
        BY <2>1, <4>1, <4>2 DEF Submit
    <3>2. CompletionIsLatest' /\ ReadyMeansCompletion' /\ StoppingIsEmpty'
      BY <2>1 DEF Submit
    <3>3. JobsAreOrdered' /\ AbandonedStaysCancelled'
      BY <2>1 DEF Submit
    <3>4. DeliveredIsOld'
      BY <2>1 DEF Submit
    <3> QED
      BY <3>1, <3>2, <3>3, <3>4
  <2>2. CASE Cancel
    <3>1. TypeOK'
      <4>1. {latest', pending', completion', job', delivered'}
              \subseteq 0..MaxGeneration
        BY <2>2 DEF Cancel
      <4>2. {ready', stopping'} \subseteq BOOLEAN
        BY <2>2 DEF Cancel
      <4> QED
        BY <2>2, <4>1, <4>2 DEF Cancel
    <3>2. CompletionIsLatest' /\ ReadyMeansCompletion' /\ StoppingIsEmpty'
      BY <2>2 DEF Cancel
    <3>3. JobsAreOrdered' /\ AbandonedStaysCancelled'
      BY <2>2 DEF Cancel
    <3>4. DeliveredIsOld'
      BY <2>2 DEF Cancel
    <3> QED
      BY <3>1, <3>2, <3>3, <3>4
  <2>3. CASE Poll
    <3>1. TypeOK'
      BY <2>3 DEF Poll
    <3>2. CompletionIsLatest' /\ ReadyMeansCompletion' /\ StoppingIsEmpty'
      BY <2>3 DEF Poll
    <3>3. JobsAreOrdered' /\ AbandonedStaysCancelled'
      BY <2>3 DEF Poll
    <3>4. DeliveredIsOld'
      BY <2>3 DEF Poll
    <3> QED
      BY <3>1, <3>2, <3>3, <3>4
  <2>4. CASE BeginDestruction
    BY <2>4 DEF BeginDestruction
  <2>5. CASE Notify
    BY <2>5 DEF Notify
  <2>6. CASE Join
    BY <2>6 DEF Join
  <2>7. CASE TakeNextJob
    BY <2>7 DEF TakeNextJob
  <2>8. CASE FinishWork
    BY <2>8 DEF FinishWork
  <2>9. CASE TestCancellation
    BY <2>9 DEF TestCancellation
  <2>10. CASE Commit
    <3>1. TypeOK'
      BY <2>10 DEF Commit
    <3>2. CompletionIsLatest' /\ ReadyMeansCompletion' /\ StoppingIsEmpty'
      BY <2>10 DEF Commit
    <3>3. JobsAreOrdered' /\ AbandonedStaysCancelled'
      BY <2>10 DEF Commit
    <3>4. DeliveredIsOld'
      BY <2>10 DEF Commit
    <3> QED
      BY <3>1, <3>2, <3>3, <3>4
  <2>11. CASE AbandonWork
    BY <2>11 DEF AbandonWork
  <2>12. CASE SpuriousWake
    BY <2>12 DEF SpuriousWake
  <2>13. CASE UNCHANGED vars
    BY <2>13 DEF vars
  <2> QED
    BY <2>1, <2>2, <2>3, <2>4, <2>5, <2>6, <2>7, <2>8, <2>9, <2>10, <2>11,
       <2>12, <2>13 DEF Next, OwnerNext, WorkerStep
<1> QED
  BY <1>1, <1>2, PTL DEF Spec

\* Whatever the interleaving of submit(), cancel() and the worker, a waiting
\* completion is the newest generation's and was not cut short, and the wait
\* handle agrees with the slot it waits in.
THEOREM FreshCompletion == Spec => []CompletionIsFresh
<1>1. IInv => CompletionIsFresh
  BY DEF IInv, CompletionIsFresh
<1> QED
  BY <1>1, TypeAndFreshness, PTL

\* poll() hands out each generation at most once, in order, and only the
\* newest one.
THEOREM DeliveryTheorem == Spec => DeliveryIsFreshAndOnce
<1>1. IInv /\ [Next]_vars =>
        (delivered' # delivered => delivered' = latest /\ delivered < delivered')
  <2> SUFFICES ASSUME IInv, [Next]_vars, delivered' # delivered
               PROVE  delivered' = latest /\ delivered < delivered'
    OBVIOUS
  <2>1. CASE Poll
    BY <2>1 DEF Poll, IInv, DeliveredIsOld, CompletionIsLatest
  <2>2. CASE ~Poll
    BY <2>2 DEF Next, OwnerNext, WorkerStep, vars, Submit, Cancel,
      BeginDestruction, Notify, Join, TakeNextJob, FinishWork,
      TestCancellation, Commit, AbandonWork, SpuriousWake
  <2> QED
    BY <2>1, <2>2
<1> QED
  BY <1>1, TypeAndFreshness, PTL DEF Spec, DeliveryIsFreshAndOnce

-----------------------------------------------------------------------------
(* The transcript job.  It has no parameters, so that the theorems cover    *)
(* every run of it, however many jobs are started.                          *)

JobJoinPlaces == {"start_join", "take_join", "close_join"}

\* Where the worker is tells what the state may be.
JobWorkerAgrees ==
  /\ jobWorker = "working" => jobState \in {"Running", "Cancelling"}
  /\ jobWorker \in {"granted", "publishing"} => jobState = "Publishing"
  /\ jobWorker = "finish" => Transcript!Running
  /\ jobWorker \in {"none", "notify", "exited"} => ~Transcript!Running

\* The flag is up exactly in the states that follow an accepted cancel.
JobFlagAgrees == jobCancelRequested <=> jobState \in {"Cancelling", "Cancelled"}

\* Only a run behind the barrier has published, and it says so.
JobOutputAgrees ==
  jobPublished <=> \/ jobState = "Succeeded"
                   \/ jobState = "Publishing" /\ jobWorker = "finish" /\ jobOk

\* A waiting completion is the terminal state of the last run.
JobCompletionAgrees == jobCompletion # "None" => jobCompletion = jobState

\* Nobody joins a thread that is still the member's.
JobHandleAgrees ==
  /\ jobHandle => jobOwner \notin JobJoinPlaces
  /\ jobOwner \in {"start_join", "take_join"} => ~Transcript!Running
  /\ jobOwner = "take_join" => jobCompletion = "None"

JobSignalAgrees ==
  jobCompletion # "None" /\ jobOwner \in {"idle", "start_join", "start"} =>
    jobSignalled \/ jobWorker = "notify"

JobIInv ==
  /\ Transcript!TypeOK
  /\ JobWorkerAgrees
  /\ JobFlagAgrees
  /\ JobOutputAgrees
  /\ JobCompletionAgrees
  /\ JobHandleAgrees
  /\ Transcript!ThreadIsOwned
  /\ JobSignalAgrees

\* JobIInv holds in every reachable state of the job.
THEOREM JobInductive == Transcript!Spec => []JobIInv
<1> USE DEF JobIInv, Transcript!ActiveStates, Transcript!Outcomes,
            Transcript!OwnerPlaces, JobJoinPlaces, Transcript!Running,
            Transcript!Startable, Transcript!Cancellable
<1>1. Transcript!Init => JobIInv
  BY DEF Transcript!Init, Transcript!TypeOK, JobWorkerAgrees, JobFlagAgrees,
    JobOutputAgrees, JobCompletionAgrees, JobHandleAgrees,
    Transcript!ThreadIsOwned, JobSignalAgrees
<1>2. JobIInv /\ [Transcript!Next]_(Transcript!vars) => JobIInv'
  <2> SUFFICES ASSUME JobIInv, [Transcript!Next]_(Transcript!vars) PROVE JobIInv'
    OBVIOUS
  <2> USE DEF Transcript!TypeOK, Transcript!ThreadIsOwned, JobWorkerAgrees,
              JobFlagAgrees, JobOutputAgrees, JobCompletionAgrees,
              JobHandleAgrees, JobSignalAgrees
  <2>1. CASE Transcript!JoinFinishedWorker
    BY <2>1 DEF Transcript!JoinFinishedWorker
  <2>2. CASE Transcript!RefuseStart
    BY <2>2 DEF Transcript!RefuseStart
  <2>3. CASE Transcript!StartWorker
    BY <2>3 DEF Transcript!StartWorker
  <2>4. CASE Transcript!StartFails
    BY <2>4 DEF Transcript!StartFails
  <2>5. CASE Transcript!Notify
    BY <2>5 DEF Transcript!Notify
  <2>6. CASE Transcript!RequestCancel
    BY <2>6 DEF Transcript!RequestCancel
  <2>7. CASE Transcript!ConsumeChanged
    BY <2>7 DEF Transcript!ConsumeChanged
  <2>8. CASE Transcript!TakeCompletion
    BY <2>8 DEF Transcript!TakeCompletion
  <2>9. CASE Transcript!BeginDestruction
    BY <2>9 DEF Transcript!BeginDestruction
  <2>10. CASE Transcript!TakeHandle
    BY <2>10 DEF Transcript!TakeHandle
  <2>11. CASE Transcript!Join
    BY <2>11 DEF Transcript!Join
  <2>12. CASE Transcript!ReportProgress
    BY <2>12 DEF Transcript!ReportProgress
  <2>13. CASE Transcript!ReturnUnpublished
    BY <2>13 DEF Transcript!ReturnUnpublished
  <2>14. CASE Transcript!BeginCommit
    BY <2>14 DEF Transcript!BeginCommit
  <2>15. CASE Transcript!NotifyCommit
    BY <2>15 DEF Transcript!NotifyCommit
  <2>16. CASE Transcript!Publish
    BY <2>16 DEF Transcript!Publish
  <2>17. CASE Transcript!Finish
    BY <2>17 DEF Transcript!Finish, Transcript!Outcome, Transcript!Succeeds
  <2>18. CASE Transcript!NotifyFinish
    BY <2>18 DEF Transcript!NotifyFinish
  <2>19. CASE UNCHANGED Transcript!vars
    BY <2>19 DEF Transcript!vars
  <2> QED
    BY <2>1, <2>2, <2>3, <2>4, <2>5, <2>6, <2>7, <2>8, <2>9, <2>10, <2>11,
       <2>12, <2>13, <2>14, <2>15, <2>16, <2>17, <2>18, <2>19
       DEF Transcript!Next, Transcript!Owner, Transcript!WorkerStep
<1> QED
  BY <1>1, <1>2, PTL DEF Transcript!Spec

\* The owner never reaches std::terminate, and every variable keeps its type.
THEOREM TranscriptTypes == Transcript!Spec => []Transcript!TypeOK
<1>1. JobIInv => Transcript!TypeOK
  BY DEF JobIInv
<1> QED
  BY <1>1, JobInductive, PTL

\* finish() reports success for the runs whose transcript is in place and for
\* no other.
THEOREM TranscriptOutcome ==
  Transcript!Spec => []Transcript!OutcomeMatchesOutput
<1>1. JobIInv => Transcript!OutcomeMatchesOutput
  BY DEF JobIInv, Transcript!TypeOK, Transcript!OutcomeMatchesOutput,
    JobWorkerAgrees, JobOutputAgrees, JobCompletionAgrees,
    Transcript!Outcomes, Transcript!ActiveStates, Transcript!Running
<1> QED
  BY <1>1, JobInductive, PTL

\* Once requestCancel() returned true, beginCommit() is refused and nothing
\* is published: the mutex decides the race, once.
THEOREM TranscriptCancelHolds ==
  Transcript!Spec => []Transcript!AcceptedCancelHolds
<1>1. JobIInv => Transcript!AcceptedCancelHolds
  BY DEF JobIInv, Transcript!AcceptedCancelHolds, JobFlagAgrees,
    JobOutputAgrees
<1> QED
  BY <1>1, JobInductive, PTL

\* Every thread is joined once, and tryStart() assigns only an empty handle.
THEOREM TranscriptThreads == Transcript!Spec => []Transcript!ThreadIsOwned
<1>1. JobIInv => Transcript!ThreadIsOwned
  BY DEF JobIInv
<1> QED
  BY <1>1, JobInductive, PTL

-----------------------------------------------------------------------------
(* Refinement *)

\* Each step of the two threads is a step of JobLifecycle or none of its
\* business; the outcome is decided where finish() holds the mutex.
LEMMA TranscriptSimulation ==
  JobIInv /\ [Transcript!Next]_(Transcript!vars) =>
    [Transcript!Lifecycle!Next]_(Transcript!Lifecycle!vars)
<1> SUFFICES ASSUME JobIInv, [Transcript!Next]_(Transcript!vars)
             PROVE  Transcript!Lifecycle!Next \/ UNCHANGED Transcript!Lifecycle!vars
  OBVIOUS
<1> USE DEF JobIInv, Transcript!TypeOK, Transcript!ActiveStates,
            Transcript!Outcomes, Transcript!Running, Transcript!Lifecycle!vars
<1>1. CASE Transcript!StartWorker
  <2>1. Transcript!Lifecycle!Start
    BY <1>1 DEF Transcript!StartWorker, Transcript!Startable,
      Transcript!Lifecycle!Start, Transcript!Lifecycle!Startable
  <2> QED
    BY <2>1 DEF Transcript!Lifecycle!Next
<1>2. CASE Transcript!StartFails
  <2>1. Transcript!Lifecycle!StartFails
    BY <1>2 DEF Transcript!StartFails, Transcript!Startable,
      Transcript!Lifecycle!StartFails, Transcript!Lifecycle!Startable
  <2> QED
    BY <2>1 DEF Transcript!Lifecycle!Next
<1>3. CASE Transcript!RequestCancel
  <2>1. Transcript!Lifecycle!AcceptCancel
    BY <1>3 DEF Transcript!RequestCancel, Transcript!Cancellable,
      Transcript!Lifecycle!AcceptCancel
  <2> QED
    BY <2>1 DEF Transcript!Lifecycle!Next
<1>4. CASE Transcript!BeginDestruction
  <2>1. Transcript!Lifecycle!AcceptCancel \/ UNCHANGED Transcript!Lifecycle!vars
    BY <1>4 DEF Transcript!BeginDestruction, Transcript!Cancellable,
      Transcript!Lifecycle!AcceptCancel
  <2> QED
    BY <2>1 DEF Transcript!Lifecycle!Next
<1>5. CASE Transcript!TakeCompletion
  <2>1. Transcript!Lifecycle!Take \/ UNCHANGED Transcript!Lifecycle!vars
    BY <1>5 DEF Transcript!TakeCompletion, Transcript!Lifecycle!Take
  <2> QED
    BY <2>1 DEF Transcript!Lifecycle!Next
<1>6. CASE Transcript!BeginCommit
  <2>1. Transcript!Lifecycle!PassBarrier \/ UNCHANGED Transcript!Lifecycle!vars
    BY <1>6 DEF Transcript!BeginCommit, Transcript!Lifecycle!PassBarrier
  <2> QED
    BY <2>1 DEF Transcript!Lifecycle!Next
<1>7. CASE Transcript!Publish
  <2>1. jobState = "Publishing" /\ jobPublished = FALSE
    BY <1>7 DEF Transcript!Publish, JobWorkerAgrees, JobOutputAgrees
  <2>2. Transcript!Lifecycle!Publish \/ UNCHANGED Transcript!Lifecycle!vars
    BY <1>7, <2>1 DEF Transcript!Publish, Transcript!Lifecycle!Publish
  <2> QED
    BY <2>2 DEF Transcript!Lifecycle!Next
<1>8. CASE Transcript!Finish
  <2>1. /\ Transcript!Running /\ jobPublished' = jobPublished
        /\ jobState' = Transcript!Outcome
        /\ jobCompletion' = Transcript!Outcome
    BY <1>8 DEF Transcript!Finish, JobWorkerAgrees
  <2>2. Transcript!Outcome \in Transcript!Outcomes
    BY DEF Transcript!Outcome
  <2>3. Transcript!Lifecycle!MayEnd(Transcript!Outcome)
    BY <1>8, <2>1 DEF Transcript!Finish, Transcript!Outcome,
      Transcript!Succeeds, JobFlagAgrees, JobOutputAgrees,
      Transcript!Lifecycle!MayEnd
  <2>4. Transcript!Lifecycle!End
    BY <2>1, <2>2, <2>3 DEF Transcript!Lifecycle!End,
      Transcript!Lifecycle!Outcomes
  <2> QED
    BY <2>4 DEF Transcript!Lifecycle!Next
<1>9. CASE \/ Transcript!JoinFinishedWorker \/ Transcript!RefuseStart
           \/ Transcript!Notify \/ Transcript!ConsumeChanged
           \/ Transcript!TakeHandle \/ Transcript!Join
           \/ Transcript!ReportProgress \/ Transcript!ReturnUnpublished
           \/ Transcript!NotifyCommit \/ Transcript!NotifyFinish \/ UNCHANGED Transcript!vars
  BY <1>9 DEF Transcript!JoinFinishedWorker, Transcript!RefuseStart,
    Transcript!Notify, Transcript!ConsumeChanged, Transcript!TakeHandle,
    Transcript!Join, Transcript!ReportProgress, Transcript!ReturnUnpublished,
    Transcript!NotifyCommit, Transcript!NotifyFinish, Transcript!vars
<1> QED
  BY <1>1, <1>2, <1>3, <1>4, <1>5, <1>6, <1>7, <1>8, <1>9
     DEF Transcript!Next, Transcript!Owner, Transcript!WorkerStep

\* The transcript job is a background job: started, cancelled, published and
\* taken in the order JobLifecycle allows.
THEOREM TranscriptRefinement == Transcript!Spec => Transcript!KeepsLifecycle
<1>1. Transcript!Init => Transcript!Lifecycle!Init
  BY DEF Transcript!Init, Transcript!Lifecycle!Init, Transcript!Running,
    Transcript!ActiveStates
<1> QED
  BY <1>1, JobInductive, TranscriptSimulation, PTL
     DEF Transcript!KeepsLifecycle, Transcript!Spec, Transcript!Lifecycle!Spec

\* In the composition, too, the transcript job is the one of its own module,
LEMMA TranscriptRuns == MCSpec => Transcript!Spec
<1>1. [MCNext]_allVars => [Transcript!Next]_(Transcript!vars)
  BY DEF MCNext, OthersRest, allVars, jobVars, Transcript!vars
<1> QED
  BY <1>1, PTL DEF MCSpec, MCInit, Transcript!Spec

\* and so is the coordinator's task.
LEMMA TaskRuns == MCSpec => Task!Spec
<1>1. [MCNext]_allVars => [Task!Next]_(Task!vars)
  BY DEF MCNext, OthersRest, allVars, taskVars, Task!vars
<1> QED
  BY <1>1, PTL DEF MCSpec, MCInit, Task!Spec

-----------------------------------------------------------------------------
(* The jobs of the video editor *)

EditsIInv == Edits!TypeOK /\ Edits!BusyMeansWorking

\* What a step of the session or of a worker thread may do to a job, in terms
\* of its phase and its completion alone.
EditsMoves(j) ==
  LET phase == Edits!Phase(j)
      outcome == editCompletion[j]
  IN  \/ UNCHANGED <<phase, outcome>>
      \/ /\ phase = "Idle" /\ phase' = "Running"
         /\ outcome = "None" /\ UNCHANGED outcome
      \/ /\ phase = "Idle" /\ UNCHANGED phase
         /\ outcome = "None" /\ outcome' = "Failed"
      \/ /\ phase = "Running" /\ phase' = "Cancelling"
         /\ UNCHANGED outcome
      \/ /\ phase = "Running" /\ phase' = "Idle"
         /\ outcome' \in {"Succeeded", "Failed"}
      \/ /\ phase = "Cancelling" /\ phase' = "Idle"
         /\ outcome' \in {"Succeeded", "Cancelled"}
      \/ /\ outcome # "None" /\ outcome' = "None"
         /\ UNCHANGED phase

\* Every step of the session and of the two threads keeps a job busy exactly
\* while its operation runs.
LEMMA EditsStep ==
  ASSUME EditsIInv, Edits!Next
  PROVE  EditsIInv' /\ \A j \in Edits!Jobs : EditsMoves(j)
<1> USE DEF EditsIInv, Edits!TypeOK, Edits!BusyMeansWorking, Edits!Busy,
  Edits!Phase, Edits!Outcomes, EditsMoves
<1>1. ASSUME NEW k \in Edits!Jobs, Edits!Start(k)
      PROVE  EditsIInv' /\ \A j \in Edits!Jobs : EditsMoves(j)
  BY <1>1 DEF Edits!Start, Edits!Startable
<1>2. ASSUME NEW k \in Edits!Jobs, Edits!StartFails(k)
      PROVE  EditsIInv' /\ \A j \in Edits!Jobs : EditsMoves(j)
  BY <1>2 DEF Edits!StartFails, Edits!Startable
<1>3. ASSUME NEW k \in Edits!Jobs, Edits!Cancel(k)
      PROVE  EditsIInv' /\ \A j \in Edits!Jobs : EditsMoves(j)
  BY <1>3 DEF Edits!Cancel
<1>4. ASSUME NEW k \in Edits!Jobs, Edits!End(k)
      PROVE  EditsIInv' /\ \A j \in Edits!Jobs : EditsMoves(j)
  <2>1. PICK succeeded \in BOOLEAN :
          /\ editState' = [editState EXCEPT ![k] = Edits!OutcomeOf(k, succeeded)]
          /\ editCompletion' =
               [editCompletion EXCEPT ![k] = Edits!OutcomeOf(k, succeeded)]
    BY <1>4 DEF Edits!End
  <2>2. Edits!OutcomeOf(k, succeeded) \in
          IF cancelled[k] THEN {"Succeeded", "Cancelled"}
                          ELSE {"Succeeded", "Failed"}
    BY DEF Edits!OutcomeOf
  <2> QED
    BY <1>4, <2>1, <2>2 DEF Edits!End
<1>5. ASSUME NEW k \in Edits!Jobs,
             \/ Edits!ReportProgress(k)
             \/ Edits!NotifyEnd(k)
             \/ Edits!Exit(k)
      PROVE  EditsIInv' /\ \A j \in Edits!Jobs : EditsMoves(j)
  BY <1>5, ZenonT(40) DEF Edits!ReportProgress, Edits!NotifyEnd, Edits!Exit
<1>6. CASE Edits!TakeExport \/ Edits!TakeReview \/ Edits!TakeBeforeExport
  <2>1. PICK k \in Edits!Jobs :
          /\ Edits!TakeFrom(k)
          /\ UNCHANGED <<editState, cancelled, editWake>>
          /\ editOwner' \in {"take_review", "turn"} \cup {editOwner}
    BY <1>6 DEF Edits!TakeExport, Edits!TakeReview, Edits!TakeBeforeExport,
      Edits!Jobs
  <2> QED
    BY <2>1 DEF Edits!TakeFrom, Edits!Finished
<1>7. CASE Edits!RequestStop
  BY <1>7 DEF Edits!RequestStop
<1>8. CASE Edits!FinishStop
  <2>1. \A j \in Edits!Jobs : ~Edits!Busy(j)
    BY <1>8 DEF Edits!FinishStop, Edits!Finished
  <2> QED
    BY <1>8, <2>1 DEF Edits!FinishStop
<1>9. CASE Edits!Sleep \/ Edits!Wake \/ Edits!OtherWake \/ Edits!ConsumeWake
  BY <1>9 DEF Edits!Sleep, Edits!Wake, Edits!OtherWake, Edits!ConsumeWake
<1> QED
  BY <1>1, <1>2, <1>3, <1>4, <1>5, <1>6, <1>7, <1>8, <1>9
     DEF Edits!Next, Edits!Owner, Edits!Worker

LEMMA EditsInductive == MCSpec => []EditsIInv
<1>1. MCInit => EditsIInv
  BY ZenonT(40) DEF MCInit, Edits!Init, EditsIInv, Edits!TypeOK, Edits!BusyMeansWorking,
    Edits!Busy, Edits!Outcomes
<1>2. EditsIInv /\ [MCNext]_allVars => EditsIInv'
  <2> SUFFICES ASSUME EditsIInv, [MCNext]_allVars PROVE EditsIInv'
    OBVIOUS
  <2>1. CASE Edits!Next
    BY <2>1, EditsStep
  <2>2. CASE UNCHANGED editVars
    BY <2>2 DEF editVars, EditsIInv, Edits!TypeOK, Edits!BusyMeansWorking,
      Edits!Busy
  <2> QED
    BY <2>1, <2>2 DEF MCNext, OthersRest, allVars
<1> QED
  BY <1>1, <1>2, PTL DEF MCSpec

LEMMA EditsRefine == MCSpec => Edits!KeepsLifecycle
<1> USE DEF Edits!Review!vars, Edits!Export!vars, Edits!Jobs
<1>1. MCInit => Edits!Review!Init /\ Edits!Export!Init
  BY DEF MCInit, Edits!Init, Edits!Review!Init, Edits!Export!Init,
    Edits!Phase, Edits!Busy
<1>2. EditsIInv /\ [MCNext]_allVars =>
        /\ [Edits!Review!Next]_(Edits!Review!vars)
        /\ [Edits!Export!Next]_(Edits!Export!vars)
  <2> SUFFICES ASSUME EditsIInv, [MCNext]_allVars
               PROVE  /\ [Edits!Review!Next]_(Edits!Review!vars)
                      /\ [Edits!Export!Next]_(Edits!Export!vars)
    OBVIOUS
  <2>1. CASE Edits!Next
    <3>1. EditsMoves("review") /\ EditsMoves("export")
      BY <2>1, EditsStep
    <3>2. [Edits!Review!Next]_(Edits!Review!vars)
      BY <3>1 DEF EditsMoves, Edits!Review!Next, Edits!Review!Start,
        Edits!Review!Startable, Edits!Review!StartFails,
        Edits!Review!AcceptCancel, Edits!Review!End, Edits!Review!MayEnd,
        Edits!Review!Outcomes, Edits!Review!Take
    <3>3. [Edits!Export!Next]_(Edits!Export!vars)
      BY <3>1 DEF EditsMoves, Edits!Export!Next, Edits!Export!Start,
        Edits!Export!Startable, Edits!Export!StartFails,
        Edits!Export!AcceptCancel, Edits!Export!End, Edits!Export!MayEnd,
        Edits!Export!Outcomes, Edits!Export!Take
    <3> QED
      BY <3>2, <3>3
  <2>2. CASE UNCHANGED editVars
    BY <2>2 DEF editVars, Edits!Phase, Edits!Busy
  <2> QED
    BY <2>1, <2>2 DEF MCNext, OthersRest, allVars
<1> QED
  BY <1>1, <1>2, EditsInductive, PTL
     DEF MCSpec, Edits!KeepsLifecycle, Edits!Review!Spec, Edits!Export!Spec

-----------------------------------------------------------------------------
(* The window of the session *)

RunningPlaces == {"top", "process", "task", "test", "wait"}
StopPlaces == {"stop_thread", "stop_queue", "close_thread", "close_queue"}
CallPlaces == {"waiting", "answered"}

WindowTypes ==
  /\ lifecycle \in {"Closed", "Opening", "Open", "Closing", "Failed"}
  /\ windowThread \in RunningPlaces \cup
       {"none", "dispatch", "open", "opened", "unopened", "close", "end",
        "ended", "exited"}

\* An open window runs its loop and takes calls, an opening one is about to; a
\* stop says Closing first.
OpenIsRunning ==
  /\ lifecycle = "Opening" =>
       /\ threadState = "Enabled"
       /\ windowThread = "open" => accepting
  /\ lifecycle = "Open" =>
       /\ windowThread \in RunningPlaces \cup {"opened"}
       /\ threadState = "Enabled"
       /\ accepting
  /\ session \in StopPlaces => lifecycle = "Closing"
  /\ threadState = "Stopping" => lifecycle = "Closing"

\* Where the window's thread is tells what the lifecycle may be.
LifecycleAgrees ==
  /\ lifecycle = "Opening" => windowThread \in {"dispatch", "open"}
  /\ lifecycle = "Closed" => windowThread = "none"
  /\ lifecycle = "Closing" => windowThread # "none"
  /\ lifecycle = "Failed" =>
       windowThread \in {"none", "unopened", "close", "end", "ended", "exited"}
  /\ windowThread = "opened" => lifecycle \in {"Open", "Closing"}
  /\ windowThread = "unopened" => lifecycle \in {"Failed", "Closing"}

\* The controller's requests are made of an open window, and while the session
\* waits for an answer nothing closes it.
RequestIsToOpen ==
  /\ session \in CallPlaces =>
       purpose \in {"call", "leave", "apply", "rollback", "capture"}
  /\ session \in {"rollback", "capture"} => purpose = "apply"
  /\ session \in CallPlaces \cup {"rollback", "capture"} /\ purpose # "call" =>
       lifecycle = "Open"

\* A failed window and a refused request are failures nobody was told of yet.
FailureIsBroken ==
  /\ lifecycle = "Failed" => broken
  /\ session \in CallPlaces /\ purpose \in {"apply", "rollback"}
       /\ item = "refused" => broken
  /\ failing => broken

\* There is an item only while the session is inside of invoke(), and it is
\* queued only in a queue that is open.
ItemAgrees ==
  /\ accepting =>
       windowThread \in RunningPlaces \cup {"open", "opened", "unopened",
                                            "close"}
  /\ item = "queued" => accepting
  /\ item = "running" <=> windowThread = "task"
  /\ session \notin CallPlaces => item = "none"
  /\ session = "waiting" => item # "none"
  /\ session = "answered" => item \in {"done", "refused"}

WindowIInv ==
  /\ WindowTypes
  /\ OpenIsRunning
  /\ LifecycleAgrees
  /\ RequestIsToOpen
  /\ FailureIsBroken
  /\ ItemAgrees

\* Every step of the session and of the window's thread keeps it.
LEMMA WindowStep ==
  ASSUME WindowIInv, Window!Next
  PROVE  WindowIInv'
<1> USE DEF WindowIInv, WindowTypes, OpenIsRunning, LifecycleAgrees,
  RequestIsToOpen, FailureIsBroken, ItemAgrees, RunningPlaces, StopPlaces,
  CallPlaces, Window!controller, Window!queue, Window!window
<1>1. CASE Window!ToTerminal
  BY <1>1 DEF Window!ToTerminal, Window!Unsettled, Window!Settle,
    Window!Invoke, Window!NeedsWindow
<1>2. CASE Window!OpenWindow
  BY <1>2 DEF Window!OpenWindow, Window!Unsettled, Window!StartWindow,
    Window!GiveUp, Window!ThreadIsOver
<1>3. CASE Window!AwaitWindow \/ Window!WindowFailed \/ Window!Settled
  BY <1>3 DEF Window!AwaitWindow, Window!WindowFailed, Window!Settled,
    Window!Unsettled, Window!GiveUp
<1>4. CASE Window!ApplyToWindow \/ Window!InvokeAgain \/ Window!Call
  BY <1>4 DEF Window!ApplyToWindow, Window!InvokeAgain, Window!Call,
    Window!Unsettled, Window!Invoke
<1>5. CASE Window!Proceed
  BY <1>5 DEF Window!Proceed, Window!Settle, Window!GiveUp
<1>6. CASE Window!Answer \/ Window!Synchronize \/ Window!BeginShutdown
  BY <1>6 DEF Window!Answer, Window!Synchronize, Window!BeginShutdown
<1>7. CASE Window!RequestStop
  BY <1>7 DEF Window!RequestStop
<1>8. CASE Window!StopThread \/ Window!StopQueue
  BY <1>8 DEF Window!StopThread, Window!StopQueue
<1>9. CASE Window!FinishStop \/ Window!FinishShutdown
  BY <1>9 DEF Window!FinishStop, Window!FinishShutdown, Window!Settle,
    Window!ThreadIsOver
<1>10. CASE Window!Transition \/ Window!Sleep \/ Window!Wake \/ Window!OtherWake
  BY <1>10 DEF Window!Transition, Window!Sleep, Window!Wake, Window!OtherWake
<1>11. CASE Window!OpenQueue
  BY <1>11 DEF Window!OpenQueue
<1>12. CASE Window!OpenNativeWindow
  BY <1>12 DEF Window!OpenNativeWindow, Window!TellOpened
<1>13. CASE Window!TellLifecycle \/ Window!LoopTop
  BY <1>13 DEF Window!TellLifecycle, Window!LoopTop
<1>14. CASE Window!ProcessPending
  BY <1>14 DEF Window!ProcessPending
<1>15. CASE Window!RunTask
  BY <1>15 DEF Window!RunTask
<1>16. CASE Window!TestOrWait \/ Window!WaitEnds \/ Window!FrameArrives
  BY <1>16 DEF Window!TestOrWait, Window!WaitEnds, Window!FrameArrives
<1>17. CASE Window!CloseQueue
  BY <1>17 DEF Window!CloseQueue
<1>18. CASE Window!EndThread \/ Window!Exit
  BY <1>18 DEF Window!EndThread, Window!Exit
<1> QED
  BY <1>1, <1>2, <1>3, <1>4, <1>5, <1>6, <1>7, <1>8, <1>9, <1>10, <1>11,
     <1>12, <1>13, <1>14, <1>15, <1>16, <1>17, <1>18
     DEF Window!Next, Window!Session, Window!Window, Window!Decide,
       Window!Stopping

LEMMA WindowInductive == MCSpec => []WindowIInv
<1>1. MCInit => WindowIInv
  BY DEF MCInit, Window!Init, WindowIInv, WindowTypes, OpenIsRunning,
    LifecycleAgrees, RequestIsToOpen, FailureIsBroken, ItemAgrees,
    RunningPlaces, StopPlaces, CallPlaces
<1>2. WindowIInv /\ [MCNext]_allVars => WindowIInv'
  <2> SUFFICES ASSUME WindowIInv, [MCNext]_allVars PROVE WindowIInv'
    OBVIOUS
  <2>1. CASE Window!Next
    BY <2>1, WindowStep
  <2>2. CASE UNCHANGED windowVars
    BY <2>2 DEF windowVars, WindowIInv, WindowTypes, OpenIsRunning,
      LifecycleAgrees, RequestIsToOpen, FailureIsBroken, ItemAgrees
  <2> QED
    BY <2>1, <2>2 DEF MCNext, OthersRest, allVars
<1> QED
  BY <1>1, <1>2, PTL DEF MCSpec

-----------------------------------------------------------------------------
(* All of them together *)

\* What is reported is what happened: the transcript's and the task's outcome
\* agrees with the disk, an edit job is busy exactly while its operation runs,
\* and a window closed on demand is never taken for one that failed, for any
\* number of transitions.
THEOREM ReportsAreTrue == MCSpec => []OutcomeMatchesOutput
<1>1. EditsIInv => Edits!BusyMeansWorking
  BY DEF EditsIInv
<1>2. WindowIInv => Window!FailureIsReal
  BY DEF WindowIInv, FailureIsBroken, Window!FailureIsReal
<1> QED
  BY <1>1, <1>2, TranscriptRuns, TaskRuns, EditsInductive, WindowInductive,
     TranscriptOutcome, Task!OutcomeIsTrue, PTL DEF OutcomeMatchesOutput

\* Every worker thread is joined once and no start meets a joinable handle;
\* the window's thread opens its dispatch queue closed and without an item,
\* although a stop may have been requested before it came to that.
THEOREM ThreadsAreOwned == MCSpec => []ThreadIsOwned
<1>1. WindowIInv => Window!QueueOpensEmpty
  BY DEF WindowIInv, ItemAgrees, RunningPlaces, Window!QueueOpensEmpty
<1> QED
  BY <1>1, TranscriptRuns, TaskRuns, WindowInductive, TranscriptThreads,
     Task!ThreadOwnership, PTL DEF ThreadIsOwned

\* The transcript job, the coordinator's task, the edit review and the export
\* implement the life cycle of a background job.
THEOREM Lifecycles == MCSpec => KeepsLifecycle
  BY TranscriptRuns, TaskRuns, EditsRefine, TranscriptRefinement,
     Task!Refinement, PTL DEF KeepsLifecycle
=============================================================================
