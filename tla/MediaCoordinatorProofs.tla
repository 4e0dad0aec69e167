----------------------- MODULE MediaCoordinatorProofs -----------------------
(***************************************************************************)
(* Proofs about MediaCoordinator, for every set of kinds and every number  *)
(* of tasks: requests are exclusive, a cancellation reaches its own task,  *)
(* and each worker is used within its life cycle.                          *)
(***************************************************************************)
EXTENDS MediaCoordinator, TLAPS

Collecting == place \in {"join", "refresh", "enqueue"}

\* The variables that the exclusion turns on keep their types.
CoreType ==
  /\ phase \in [Worker -> {"Idle", "Running", "Cancelling", "Publishing"}]
  /\ outcome \in [Worker -> {"None", "Succeeded", "Failed", "Cancelled"}]
  /\ published \in [Worker -> BOOLEAN]
  /\ task \in [Worker -> Nat]
  /\ nextTask \in Nat \ {0}
  /\ at \in 1 .. 4
  /\ wanted \in {"export", "setup", "subtitles", "separation"}
  /\ taken \in {"None", "Succeeded", "Failed", "Cancelled"}

\* A worker that has a completion is not at work, and one that is at work or
\* has a completion is of a task.
OwnedInv ==
  \A w \in Worker :
    /\ outcome[w] # "None" => phase[w] = "Idle"
    /\ phase[w] # "Idle" \/ outcome[w] # "None" => task[w] # 0

\* A worker keeps its task until its completion is collected, and no other has
\* one meanwhile.
OneInv ==
  \A v, w \in Worker :
    /\ task[w] # 0 =>
         \/ phase[w] # "Idle" \/ outcome[w] # "None"
         \/ Collecting /\ w = Workers[at]
    /\ task[v] # 0 /\ task[w] # 0 => v = w

\* A completion that is being collected was its worker's last act.
CollectInv ==
  /\ Collecting \/ place \in {"stop", "await"} => at <= 3
  /\ Collecting =>
       /\ task[Workers[at]] # 0
       /\ phase[Workers[at]] = "Idle" /\ outcome[Workers[at]] = "None"
  /\ place = "refresh" => Workers[at] = "task"

\* What the owner has seen of the workers in a request stays so: none starts by
\* itself.
SeenInv ==
  /\ place = "look" /\ call = "start" =>
       \A i \in 1 .. 3 : i < at => phase[Workers[i]] = "Idle"
  /\ (place = "collect" \/ Collecting) /\ call = "start" /\ again =>
       \A i \in 1 .. 3 :
         /\ phase[Workers[i]] = "Idle"
         /\ i < at => outcome[Workers[i]] = "None"
  /\ place = "start" =>
       call = "start" /\ \A w \in Worker : phase[w] = "Idle" /\ outcome[w] = "None"
  /\ place \in {"look", "cancel"} => call \in {"start", "cancel"}
  /\ place = "cancel" => call = "cancel" /\ at <= 3 /\ task[Workers[at]] = expected

\* A separation that was asked for has an operation to run.
OperationInv ==
  /\ binding = "Ready" => operation
  /\ call = "start" /\ place # "idle" /\ wanted = "separation" => operation
  /\ place # "refused"

IInv == CoreType /\ OwnedInv /\ OneInv /\ CollectInv /\ SeenInv /\ OperationInv

-----------------------------------------------------------------------------
\* The three workers, in their order.
LEMMA WorkersAre ==
  /\ Worker = {"task", "subtitles", "separation"}
  /\ Workers[1] = "task" /\ Workers[2] = "subtitles" /\ Workers[3] = "separation"
  /\ Len(Workers) = 3
  /\ \A i \in 1 .. 3 : Workers[i] \in Worker
  BY DEF Worker, Workers, Range

(***************************************************************************)
(* The invariant holds in every reachable state of the coordinator: what   *)
(* its workers are at, whose turn it is to be collected and who may own    *)
(* the GPU agree, whichever worker ends between two looks.                 *)
(***************************************************************************)
THEOREM Inductive == Spec => []IInv
<1> USE WorkersAre, ConstantsAssumption
    DEF ConstantsAssumption, jobs, ownership, separation, completions, request
<1>1. Init => IInv
  <2> SUFFICES ASSUME Init PROVE IInv
    OBVIOUS
  <2>1. CoreType
    BY DEF Init, Collecting, CoreType
  <2>2. OwnedInv
    BY DEF Init, Collecting, OwnedInv
  <2>3. OneInv
    BY DEF Init, Collecting, OneInv
  <2>4. CollectInv
    BY DEF Init, Collecting, CollectInv
  <2>5. SeenInv
    BY DEF Init, Collecting, SeenInv
  <2>6. OperationInv
    BY DEF Init, Collecting, OperationInv
  <2> QED
    BY <2>1, <2>2, <2>3, <2>4, <2>5, <2>6 DEF IInv
<1>2. IInv /\ [Next]_vars => IInv'
  <2> SUFFICES ASSUME IInv, [Next]_vars PROVE IInv'
    OBVIOUS
  <2> USE DEF IInv, Collecting
  <2>1. CASE TakeNext
    <3>1. CoreType'
      BY <2>1 DEF TakeNext, CoreType, CollectInv
    <3>2. OwnedInv'
      BY <2>1 DEF TakeNext, CoreType, OwnedInv, OneInv, CollectInv, SeenInv,
         OperationInv
    <3>3. OneInv'
      BY <2>1 DEF TakeNext, CoreType, OwnedInv, OneInv, CollectInv, SeenInv,
         OperationInv
    <3>4. CollectInv'
      BY <2>1 DEF TakeNext, CoreType, OwnedInv, OneInv, CollectInv, SeenInv,
         OperationInv
    <3>5. SeenInv'
      BY <2>1 DEF TakeNext, CoreType, OwnedInv, OneInv, CollectInv, SeenInv,
         OperationInv
    <3>6. OperationInv'
      BY <2>1 DEF TakeNext, CoreType, OwnedInv, OneInv, SeenInv, OperationInv
    <3> QED
      BY <3>1, <3>2, <3>3, <3>4, <3>5, <3>6
  <2>2. CASE JoinTaken
    <3>1. CoreType'
      BY <2>2 DEF JoinTaken, CoreType, CollectInv
    <3>2. OwnedInv'
      BY <2>2 DEF JoinTaken, CoreType, OwnedInv, OneInv, CollectInv, SeenInv,
         OperationInv
    <3>3. OneInv'
      BY <2>2 DEF JoinTaken, CoreType, OwnedInv, OneInv, CollectInv, SeenInv,
         OperationInv
    <3>4. CollectInv'
      BY <2>2 DEF JoinTaken, CoreType, OwnedInv, OneInv, CollectInv, SeenInv,
         OperationInv
    <3>5. SeenInv'
      BY <2>2 DEF JoinTaken, CoreType, OwnedInv, OneInv, CollectInv, SeenInv,
         OperationInv
    <3>6. OperationInv'
      BY <2>2 DEF JoinTaken, CoreType, OwnedInv, OneInv, SeenInv, OperationInv
    <3> QED
      BY <3>1, <3>2, <3>3, <3>4, <3>5, <3>6
  <2>3. CASE RefreshReady
    <3>1. CoreType'
      BY <2>3 DEF RefreshReady, CoreType, CollectInv
    <3>2. OwnedInv'
      BY <2>3 DEF RefreshReady, CoreType, OwnedInv, OneInv, CollectInv,
         SeenInv, OperationInv
    <3>3. OneInv'
      BY <2>3 DEF RefreshReady, CoreType, OwnedInv, OneInv, CollectInv,
         SeenInv, OperationInv
    <3>4. CollectInv'
      BY <2>3 DEF RefreshReady, CoreType, OwnedInv, OneInv, CollectInv,
         SeenInv, OperationInv
    <3>5. SeenInv'
      BY <2>3 DEF RefreshReady, CoreType, OwnedInv, OneInv, CollectInv,
         SeenInv, OperationInv
    <3>6. OperationInv'
      BY <2>3 DEF RefreshReady, CoreType, OwnedInv, OneInv, SeenInv,
         OperationInv
    <3> QED
      BY <3>1, <3>2, <3>3, <3>4, <3>5, <3>6
  <2>4. CASE RefreshFails
    <3>1. CoreType'
      BY <2>4 DEF RefreshFails, CoreType, CollectInv
    <3>2. OwnedInv'
      BY <2>4 DEF RefreshFails, CoreType, OwnedInv, OneInv, CollectInv,
         SeenInv, OperationInv
    <3>3. OneInv'
      BY <2>4 DEF RefreshFails, CoreType, OwnedInv, OneInv, CollectInv,
         SeenInv, OperationInv
    <3>4. CollectInv'
      BY <2>4 DEF RefreshFails, CoreType, OwnedInv, OneInv, CollectInv,
         SeenInv, OperationInv
    <3>5. SeenInv'
      BY <2>4 DEF RefreshFails, CoreType, OwnedInv, OneInv, CollectInv,
         SeenInv, OperationInv
    <3>6. OperationInv'
      BY <2>4 DEF RefreshFails, CoreType, OwnedInv, OneInv, SeenInv,
         OperationInv
    <3> QED
      BY <3>1, <3>2, <3>3, <3>4, <3>5, <3>6
  <2>5. CASE Enqueue
    <3>1. CoreType'
      BY <2>5 DEF Enqueue, CoreType, CollectInv
    <3>2. OwnedInv'
      BY <2>5 DEF Enqueue, CoreType, OwnedInv, OneInv, CollectInv, SeenInv,
         OperationInv
    <3>3. OneInv'
      BY <2>5 DEF Enqueue, CoreType, OwnedInv, OneInv, CollectInv, SeenInv,
         OperationInv
    <3>4. CollectInv'
      BY <2>5 DEF Enqueue, CoreType, OwnedInv, OneInv, CollectInv, SeenInv,
         OperationInv
    <3>5. SeenInv'
      BY <2>5 DEF Enqueue, CoreType, OwnedInv, OneInv, CollectInv, SeenInv,
         OperationInv
    <3>6. OperationInv'
      BY <2>5 DEF Enqueue, CoreType, OwnedInv, OneInv, SeenInv, OperationInv
    <3> QED
      BY <3>1, <3>2, <3>3, <3>4, <3>5, <3>6
  <2>6. CASE Deliver
    <3>1. CoreType'
      BY <2>6 DEF Deliver, Collected, CoreType, CollectInv
    <3>2. OwnedInv'
      BY <2>6 DEF Deliver, Collected, CoreType, OwnedInv, OneInv, CollectInv,
         SeenInv, OperationInv
    <3>3. OneInv'
      BY <2>6 DEF Deliver, Collected, CoreType, OwnedInv, OneInv, CollectInv,
         SeenInv, OperationInv
    <3>4. CollectInv'
      BY <2>6 DEF Deliver, Collected, CoreType, OwnedInv, OneInv, CollectInv,
         SeenInv, OperationInv
    <3>5. SeenInv'
      BY <2>6 DEF Deliver, Collected, CoreType, OwnedInv, OneInv, CollectInv,
         SeenInv, OperationInv
    <3>6. OperationInv'
      BY <2>6 DEF Deliver, Collected, CoreType, OwnedInv, OneInv, SeenInv,
         OperationInv
    <3> QED
      BY <3>1, <3>2, <3>3, <3>4, <3>5, <3>6
  <2>7. CASE AfterFirstCollection
    <3>1. CoreType'
      BY <2>7 DEF AfterFirstCollection, Collected, untouched, CoreType,
         CollectInv
    <3>2. OwnedInv'
      BY <2>7 DEF AfterFirstCollection, Collected, untouched, CoreType,
         OwnedInv, OneInv, CollectInv, SeenInv, OperationInv
    <3>3. OneInv'
      BY <2>7 DEF AfterFirstCollection, Collected, untouched, CoreType,
         OwnedInv, OneInv, CollectInv, SeenInv, OperationInv
    <3>4. CollectInv'
      BY <2>7 DEF AfterFirstCollection, Collected, untouched, CoreType,
         OwnedInv, OneInv, CollectInv, SeenInv, OperationInv
    <3>5. SeenInv'
      BY <2>7 DEF AfterFirstCollection, Collected, untouched, CoreType,
         OwnedInv, OneInv, CollectInv, SeenInv, OperationInv
    <3>6. OperationInv'
      BY <2>7 DEF AfterFirstCollection, Collected, untouched, CoreType,
         OwnedInv, OneInv, SeenInv, OperationInv
    <3> QED
      BY <3>1, <3>2, <3>3, <3>4, <3>5, <3>6
  <2>8. CASE Look
    <3>1. CoreType'
      BY <2>8 DEF Look, untouched, CoreType, CollectInv
    <3>2. OwnedInv'
      BY <2>8 DEF Look, untouched, CoreType, OwnedInv, OneInv, CollectInv,
         SeenInv, OperationInv
    <3>3. OneInv'
      BY <2>8 DEF Look, untouched, CoreType, OwnedInv, OneInv, CollectInv,
         SeenInv, OperationInv
    <3>4. CollectInv'
      BY <2>8 DEF Look, untouched, CoreType, OwnedInv, OneInv, CollectInv,
         SeenInv, OperationInv
    <3>5. SeenInv'
      BY <2>8 DEF Look, untouched, CoreType, OwnedInv, OneInv, CollectInv,
         SeenInv, OperationInv
    <3>6. OperationInv'
      BY <2>8 DEF Look, untouched, CoreType, OwnedInv, OneInv, SeenInv,
         OperationInv
    <3> QED
      BY <3>1, <3>2, <3>3, <3>4, <3>5, <3>6
  <2>9. CASE FoundNoActivity
    <3>1. CoreType'
      BY <2>9 DEF FoundNoActivity, CompletionPending, untouched, CoreType,
         CollectInv
    <3>2. OwnedInv'
      BY <2>9 DEF FoundNoActivity, CompletionPending, untouched, CoreType,
         OwnedInv, OneInv, CollectInv, SeenInv, OperationInv
    <3>3. OneInv'
      BY <2>9 DEF FoundNoActivity, CompletionPending, untouched, CoreType,
         OwnedInv, OneInv, CollectInv, SeenInv, OperationInv
    <3>4. CollectInv'
      BY <2>9 DEF FoundNoActivity, CompletionPending, untouched, CoreType,
         OwnedInv, OneInv, CollectInv, SeenInv, OperationInv
    <3>5. SeenInv'
      BY <2>9 DEF FoundNoActivity, CompletionPending, untouched, CoreType,
         OwnedInv, OneInv, CollectInv, SeenInv, OperationInv
    <3>6. OperationInv'
      BY <2>9 DEF FoundNoActivity, CompletionPending, untouched, CoreType,
         OwnedInv, OneInv, SeenInv, OperationInv
    <3> QED
      BY <3>1, <3>2, <3>3, <3>4, <3>5, <3>6
  <2>10. CASE AfterSecondCollection
    <3>1. CoreType'
      BY <2>10 DEF AfterSecondCollection, Collected, CompletionPending,
         untouched, CoreType, CollectInv
    <3>2. OwnedInv'
      BY <2>10 DEF AfterSecondCollection, Collected, CompletionPending,
         untouched, CoreType, OwnedInv, OneInv, CollectInv, SeenInv,
         OperationInv
    <3>3. OneInv'
      BY <2>10 DEF AfterSecondCollection, Collected, CompletionPending,
         untouched, CoreType, OwnedInv, OneInv, CollectInv, SeenInv,
         OperationInv
    <3>4. CollectInv'
      BY <2>10 DEF AfterSecondCollection, Collected, CompletionPending,
         untouched, CoreType, OwnedInv, OneInv, CollectInv, SeenInv,
         OperationInv
    <3>5. SeenInv'
      BY <2>10 DEF AfterSecondCollection, Collected, CompletionPending,
         untouched, CoreType, OwnedInv, OneInv, CollectInv, SeenInv,
         OperationInv
    <3>6. OperationInv'
      BY <2>10 DEF AfterSecondCollection, Collected, CompletionPending,
         untouched, CoreType, OwnedInv, OneInv, SeenInv, OperationInv
    <3> QED
      BY <3>1, <3>2, <3>3, <3>4, <3>5, <3>6
  <2>11. CASE CancelFound
    <3>1. CoreType'
      BY <2>11 DEF CancelFound, AskToCancel, CoreType, CollectInv
    <3>2. OwnedInv'
      BY <2>11 DEF CancelFound, AskToCancel, CoreType, OwnedInv, OneInv,
         CollectInv, SeenInv, OperationInv
    <3>3. OneInv'
      BY <2>11 DEF CancelFound, AskToCancel, CoreType, OwnedInv, OneInv,
         CollectInv, SeenInv, OperationInv
    <3>4. CollectInv'
      BY <2>11 DEF CancelFound, AskToCancel, CoreType, OwnedInv, OneInv,
         CollectInv, SeenInv, OperationInv
    <3>5. SeenInv'
      BY <2>11 DEF CancelFound, AskToCancel, CoreType, OwnedInv, OneInv,
         CollectInv, SeenInv, OperationInv
    <3>6. OperationInv'
      BY <2>11 DEF CancelFound, AskToCancel, CoreType, OwnedInv, OneInv,
         SeenInv, OperationInv
    <3> QED
      BY <3>1, <3>2, <3>3, <3>4, <3>5, <3>6
  <2>12. CASE RefuseForLease
    BY <2>12 DEF RefuseForLease, untouched, CoreType, OwnedInv, OneInv,
       CollectInv, SeenInv, OperationInv
  <2>13. CASE StartTask
    <3>1. CoreType'
      <4> DEFINE started == WorkerOf(wanted)
      <4>1. started \in Worker
        BY DEF WorkerOf, CoreType
      <4>2. /\ phase' = phase \/ phase' = [phase EXCEPT ![started] = "Running"]
            /\ outcome' = outcome \/ outcome' = [outcome EXCEPT ![started] = "Failed"]
            /\ published' = published \/ published' = [published EXCEPT ![started] = FALSE]
            /\ task' = task \/ task' = [task EXCEPT ![started] = nextTask]
            /\ nextTask' = nextTask + 1 /\ UNCHANGED <<at, wanted, taken>>
        BY <2>13 DEF StartTask
      <4> HIDE DEF started
      <4>3. phase' \in [Worker -> {"Idle", "Running", "Cancelling", "Publishing"}]
        BY <4>1, <4>2 DEF CoreType
      <4>4. outcome' \in [Worker -> {"None", "Succeeded", "Failed", "Cancelled"}]
        BY <4>1, <4>2 DEF CoreType
      <4>5. published' \in [Worker -> BOOLEAN]
        <5>1. CASE published' = published
          BY <5>1 DEF CoreType
        <5>2. CASE published' = [published EXCEPT ![started] = FALSE]
          BY <4>1, <5>2 DEF CoreType
        <5> QED
          BY <4>2, <5>1, <5>2
      <4>6. task' \in [Worker -> Nat] /\ nextTask' \in Nat \ {0}
        BY <4>1, <4>2 DEF CoreType
      <4> QED
        BY <4>2, <4>3, <4>4, <4>5, <4>6 DEF CoreType
    <3>2. OwnedInv'
      BY <2>13 DEF StartTask, WorkerOf, Job!Startable, CoreType, OwnedInv,
         OneInv, CollectInv, SeenInv, OperationInv
    <3>3. OneInv'
      BY <2>13 DEF StartTask, WorkerOf, Job!Startable, CoreType, OwnedInv,
         OneInv, CollectInv, SeenInv, OperationInv
    <3>4. CollectInv'
      BY <2>13 DEF StartTask, WorkerOf, Job!Startable, CoreType, OwnedInv,
         OneInv, CollectInv, SeenInv, OperationInv
    <3>5. SeenInv'
      BY <2>13 DEF StartTask, WorkerOf, Job!Startable, CoreType, OwnedInv,
         OneInv, CollectInv, SeenInv, OperationInv
    <3>6. OperationInv'
      BY <2>13 DEF StartTask, WorkerOf, Job!Startable, CoreType, OwnedInv,
         OneInv, SeenInv, OperationInv
    <3> QED
      BY <3>1, <3>2, <3>3, <3>4, <3>5, <3>6
  <2>14. CASE Stop
    <3>1. CoreType'
      BY <2>14 DEF Stop, AskToCancel, CoreType, CollectInv
    <3>2. OwnedInv'
      BY <2>14 DEF Stop, AskToCancel, CoreType, OwnedInv, OneInv, CollectInv,
         SeenInv, OperationInv
    <3>3. OneInv'
      BY <2>14 DEF Stop, AskToCancel, CoreType, OwnedInv, OneInv, CollectInv,
         SeenInv, OperationInv
    <3>4. CollectInv'
      BY <2>14 DEF Stop, AskToCancel, CoreType, OwnedInv, OneInv, CollectInv,
         SeenInv, OperationInv
    <3>5. SeenInv'
      BY <2>14 DEF Stop, AskToCancel, CoreType, OwnedInv, OneInv, CollectInv,
         SeenInv, OperationInv
    <3>6. OperationInv'
      BY <2>14 DEF Stop, AskToCancel, CoreType, OwnedInv, OneInv, SeenInv,
         OperationInv
    <3> QED
      BY <3>1, <3>2, <3>3, <3>4, <3>5, <3>6
  <2>15. CASE Await
    <3>1. CoreType'
      BY <2>15 DEF Await, CoreType, CollectInv
    <3>2. OwnedInv'
      BY <2>15 DEF Await, CoreType, OwnedInv, OneInv, CollectInv, SeenInv,
         OperationInv
    <3>3. OneInv'
      BY <2>15 DEF Await, CoreType, OwnedInv, OneInv, CollectInv, SeenInv,
         OperationInv
    <3>4. CollectInv'
      BY <2>15 DEF Await, CoreType, OwnedInv, OneInv, CollectInv, SeenInv,
         OperationInv
    <3>5. SeenInv'
      BY <2>15 DEF Await, CoreType, OwnedInv, OneInv, CollectInv, SeenInv,
         OperationInv
    <3>6. OperationInv'
      BY <2>15 DEF Await, CoreType, OwnedInv, OneInv, SeenInv, OperationInv
    <3> QED
      BY <3>1, <3>2, <3>3, <3>4, <3>5, <3>6
  <2>16. CASE BeginPoll
    BY <2>16 DEF BeginPoll, Enter, CoreType, OwnedInv, OneInv, CollectInv,
       SeenInv, OperationInv
  <2>17. ASSUME NEW k \in Kinds, BeginStart(k) PROVE IInv'
    <3>1. CoreType'
      BY <2>17 DEF BeginStart, Enter, CoreType, CollectInv
    <3>2. OwnedInv'
      BY <2>17 DEF BeginStart, Enter, CoreType, OwnedInv, OneInv, CollectInv,
         SeenInv, OperationInv
    <3>3. OneInv'
      BY <2>17 DEF BeginStart, Enter, CoreType, OwnedInv, OneInv, CollectInv,
         SeenInv, OperationInv
    <3>4. CollectInv'
      BY <2>17 DEF BeginStart, Enter, CoreType, OwnedInv, OneInv, CollectInv,
         SeenInv, OperationInv
    <3>5. SeenInv'
      BY <2>17 DEF BeginStart, Enter, CoreType, OwnedInv, OneInv, CollectInv,
         SeenInv, OperationInv
    <3>6. OperationInv'
      BY <2>17 DEF BeginStart, Enter, CoreType, OwnedInv, OneInv, SeenInv,
         OperationInv
    <3> QED
      BY <3>1, <3>2, <3>3, <3>4, <3>5, <3>6
  <2>18. ASSUME NEW id \in 1 .. MaxTasks, BeginCancel(id) PROVE IInv'
    <3>1. CoreType'
      BY <2>18 DEF BeginCancel, Enter, CoreType, CollectInv
    <3>2. OwnedInv'
      BY <2>18 DEF BeginCancel, Enter, CoreType, OwnedInv, OneInv, CollectInv,
         SeenInv, OperationInv
    <3>3. OneInv'
      BY <2>18 DEF BeginCancel, Enter, CoreType, OwnedInv, OneInv, CollectInv,
         SeenInv, OperationInv
    <3>4. CollectInv'
      BY <2>18 DEF BeginCancel, Enter, CoreType, OwnedInv, OneInv, CollectInv,
         SeenInv, OperationInv
    <3>5. SeenInv'
      BY <2>18 DEF BeginCancel, Enter, CoreType, OwnedInv, OneInv, CollectInv,
         SeenInv, OperationInv
    <3>6. OperationInv'
      BY <2>18 DEF BeginCancel, Enter, CoreType, OwnedInv, OneInv, SeenInv,
         OperationInv
    <3> QED
      BY <3>1, <3>2, <3>3, <3>4, <3>5, <3>6
  <2>19. CASE BeginShutdown
    BY <2>19 DEF BeginShutdown, Enter, CoreType, OwnedInv, OneInv, CollectInv,
       SeenInv, OperationInv
  <2>20. ASSUME NEW w \in Worker, CancelByKind(w) PROVE IInv'
    <3>1. CoreType'
      BY <2>20 DEF CancelByKind, AskToCancel, unowned, CoreType, CollectInv
    <3>2. OwnedInv'
      BY <2>20 DEF CancelByKind, AskToCancel, unowned, CoreType, OwnedInv,
         OneInv, CollectInv, SeenInv, OperationInv
    <3>3. OneInv'
      BY <2>20 DEF CancelByKind, AskToCancel, unowned, CoreType, OwnedInv,
         OneInv, CollectInv, SeenInv, OperationInv
    <3>4. CollectInv'
      BY <2>20 DEF CancelByKind, AskToCancel, unowned, CoreType, OwnedInv,
         OneInv, CollectInv, SeenInv, OperationInv
    <3>5. SeenInv'
      BY <2>20 DEF CancelByKind, AskToCancel, unowned, CoreType, OwnedInv,
         OneInv, CollectInv, SeenInv, OperationInv
    <3>6. OperationInv'
      BY <2>20 DEF CancelByKind, AskToCancel, unowned, CoreType, OwnedInv,
         OneInv, SeenInv, OperationInv
    <3> QED
      BY <3>1, <3>2, <3>3, <3>4, <3>5, <3>6
  <2>21. ASSUME NEW w \in Worker, PassBarrier(w) PROVE IInv'
    <3>1. CoreType'
      BY <2>21 DEF PassBarrier, unowned, CoreType, CollectInv
    <3>2. OwnedInv'
      BY <2>21 DEF PassBarrier, unowned, CoreType, OwnedInv, OneInv,
         CollectInv, SeenInv, OperationInv
    <3>3. OneInv'
      BY <2>21 DEF PassBarrier, unowned, CoreType, OwnedInv, OneInv,
         CollectInv, SeenInv, OperationInv
    <3>4. CollectInv'
      BY <2>21 DEF PassBarrier, unowned, CoreType, OwnedInv, OneInv,
         CollectInv, SeenInv, OperationInv
    <3>5. SeenInv'
      BY <2>21 DEF PassBarrier, unowned, CoreType, OwnedInv, OneInv,
         CollectInv, SeenInv, OperationInv
    <3>6. OperationInv'
      BY <2>21 DEF PassBarrier, unowned, CoreType, OwnedInv, OneInv, SeenInv,
         OperationInv
    <3> QED
      BY <3>1, <3>2, <3>3, <3>4, <3>5, <3>6
  <2>22. ASSUME NEW w \in Worker, Publish(w) PROVE IInv'
    <3>1. CoreType'
      BY <2>22 DEF Publish, unowned, CoreType, CollectInv
    <3>2. OwnedInv'
      BY <2>22 DEF Publish, unowned, CoreType, OwnedInv, OneInv, CollectInv,
         SeenInv, OperationInv
    <3>3. OneInv'
      BY <2>22 DEF Publish, unowned, CoreType, OwnedInv, OneInv, CollectInv,
         SeenInv, OperationInv
    <3>4. CollectInv'
      BY <2>22 DEF Publish, unowned, CoreType, OwnedInv, OneInv, CollectInv,
         SeenInv, OperationInv
    <3>5. SeenInv'
      BY <2>22 DEF Publish, unowned, CoreType, OwnedInv, OneInv, CollectInv,
         SeenInv, OperationInv
    <3>6. OperationInv'
      BY <2>22 DEF Publish, unowned, CoreType, OwnedInv, OneInv, SeenInv,
         OperationInv
    <3> QED
      BY <3>1, <3>2, <3>3, <3>4, <3>5, <3>6
  <2>23. ASSUME NEW w \in Worker, End(w) PROVE IInv'
    <3>1. CoreType'
      BY <2>23 DEF End, Job!MayEnd, unowned, CoreType, CollectInv
    <3>2. OwnedInv'
      BY <2>23 DEF End, Job!MayEnd, unowned, CoreType, OwnedInv, OneInv,
         CollectInv, SeenInv, OperationInv
    <3>3. OneInv'
      BY <2>23 DEF End, Job!MayEnd, unowned, CoreType, OwnedInv, OneInv,
         CollectInv, SeenInv, OperationInv
    <3>4. CollectInv'
      BY <2>23 DEF End, Job!MayEnd, unowned, CoreType, OwnedInv, OneInv,
         CollectInv, SeenInv, OperationInv
    <3>5. SeenInv'
      BY <2>23 DEF End, Job!MayEnd, unowned, CoreType, OwnedInv, OneInv,
         CollectInv, SeenInv, OperationInv
    <3>6. OperationInv'
      BY <2>23 DEF End, Job!MayEnd, unowned, CoreType, OwnedInv, OneInv,
         SeenInv, OperationInv
    <3> QED
      BY <3>1, <3>2, <3>3, <3>4, <3>5, <3>6
  <2>24. ASSUME NEW w \in Worker, Raise(w) PROVE IInv'
    BY <2>24 DEF Raise, unowned, CoreType, OwnedInv, OneInv, CollectInv,
       SeenInv, OperationInv
  <2>25. ASSUME NEW w \in Worker, ReportProgress(w) PROVE IInv'
    BY <2>25 DEF ReportProgress, unowned, CoreType, OwnedInv, OneInv,
       CollectInv, SeenInv, OperationInv
  <2>26. CASE UNCHANGED vars
    BY <2>26 DEF vars, CoreType, OwnedInv, OneInv, CollectInv, SeenInv,
       OperationInv
  <2> QED
    BY <2>1, <2>2, <2>3, <2>4, <2>5, <2>6, <2>7, <2>8, <2>9, <2>10, <2>11,
       <2>12, <2>13, <2>14, <2>15, <2>16, <2>17, <2>18, <2>19, <2>20, <2>21,
       <2>22, <2>23, <2>24, <2>25, <2>26 DEF Next, InCall
<1> QED
  BY <1>1, <1>2, PTL DEF Spec

(***************************************************************************)
(* Offline processing is mutually exclusive: no two workers are at work or *)
(* have a completion that nobody took, and a request that found no         *)
(* conflict (startConflict()) is accepted by its worker's tryStart().      *)
(***************************************************************************)
THEOREM Exclusion == Spec => []RequestsAreExclusive
<1>1. IInv => RequestsAreExclusive
  BY DEF IInv, OwnedInv, OneInv, OperationInv, RequestsAreExclusive, OneTaskAtATime,
     RequestIsAccepted
<1> QED
  BY <1>1, Inductive, PTL

(***************************************************************************)
(* requestTaskCancellation() with the id of a task, however old, cancels   *)
(* that task or none.                                                      *)
(***************************************************************************)
THEOREM CancelIsBound == Spec => CancelHitsItsTask
<1> DEFINE Hits(w) == place = "cancel" /\ phase'[w] # phase[w] /\ phase'[w] = "Cancelling" =>
                        task[w] = expected
<1>1. ASSUME IInv, [Next]_vars, NEW w \in Worker
      PROVE  Hits(w)
  <2> SUFFICES ASSUME place = "cancel", phase'[w] # phase[w], phase'[w] = "Cancelling"
               PROVE  task[w] = expected
    OBVIOUS
  <2> USE DEF IInv, CoreType, jobs, unowned, untouched
  <2>1. CASE CancelFound
    <3>1. w = Workers[at]
      BY <1>1, <2>1, WorkersAre DEF CancelFound, AskToCancel, SeenInv
    <3> QED
      BY <1>1, <3>1 DEF SeenInv
  <2>2. CASE \E v \in Worker : PassBarrier(v) \/ End(v)
    BY <1>1, <2>2, WorkersAre DEF PassBarrier, End
  <2>3. CASE UNCHANGED phase
    BY <2>3
  <2>4. CancelFound \/ (\E v \in Worker : PassBarrier(v) \/ End(v)) \/ UNCHANGED phase
    BY <1>1
       DEF Next, InCall, vars, TakeNext, JoinTaken, RefreshReady, RefreshFails,
           Enqueue, Deliver, Collected, AfterFirstCollection, Look, FoundNoActivity,
           AfterSecondCollection, RefuseForLease, StartTask, Stop, Await, BeginPoll,
           BeginStart, BeginCancel, BeginShutdown, Enter, CancelByKind, Publish,
           Raise, ReportProgress
  <2> QED
    BY <2>1, <2>2, <2>3, <2>4
<1>2. IInv /\ [Next]_vars => [\A w \in Worker : Hits(w)]_vars
  BY <1>1
<1> HIDE DEF Hits
<1>3. Spec => [][\A w \in Worker : Hits(w)]_vars
  BY <1>2, Inductive, PTL DEF Spec
<1> QED
  BY <1>3 DEF CancelHitsItsTask, Hits

(***************************************************************************)
(* The coordinator starts no worker that is not free, and replaces no      *)
(* separation job that is at work or has a completion.                     *)
(***************************************************************************)
THEOREM Lifecycles == Spec => KeepsLifecycles
<1> DEFINE Allowed(w) == Job(w)!Next \/ (Job(w)!Startable /\ Job(w)!Init')
           Keeps(w) == [Allowed(w)]_(Job(w)!vars)
<1>1. Init => \A w \in Worker : Job(w)!Init
  BY DEF Init, Job!Init
<1>2. ASSUME IInv, [Next]_vars, NEW w \in Worker
      PROVE  Keeps(w)
  <2> USE WorkersAre DEF IInv, CoreType, jobs, unowned, untouched, Job!vars
  <2>1. CASE TakeNext
    BY <1>2, <2>1 DEF TakeNext, Job!Next, Job!Take
  \* The separation job has no task while the setup's is collected.
  <2>2. CASE RefreshReady
    <3>1. \A v \in Worker : phase[v] = "Idle" /\ outcome[v] = "None"
      BY <1>2, <2>2 DEF RefreshReady, Collecting, OwnedInv, OneInv, CollectInv
    <3> QED
      BY <1>2, <2>2, <3>1 DEF RefreshReady, Job!Startable, Job!Init
  <2>3. ASSUME NEW v \in Worker, AskToCancel(v)
        PROVE  Keeps(w)
    BY <1>2, <2>3 DEF AskToCancel, Job!Next, Job!AcceptCancel
  <2>4. CASE StartTask
    BY <1>2, <2>4 DEF StartTask, WorkerOf, Job!Startable, Job!Next, Job!Start, Job!StartFails
  <2>5. ASSUME NEW v \in Worker, PassBarrier(v) \/ Publish(v)
        PROVE  Keeps(w)
    BY <1>2, <2>5 DEF PassBarrier, Publish, Job!Next, Job!PassBarrier, Job!Publish
  <2>6. ASSUME NEW v \in Worker, End(v)
        PROVE  Keeps(w)
    BY <1>2, <2>6 DEF End, Job!Next, Job!End, Job!Outcomes
  <2>7. CASE UNCHANGED jobs
    BY <2>7
  <2>8. \/ TakeNext \/ RefreshReady \/ StartTask \/ UNCHANGED jobs
        \/ \E v \in Worker : AskToCancel(v) \/ PassBarrier(v) \/ Publish(v) \/ End(v)
    <3>1. CASE CancelFound \/ Stop
      <4>1. Workers[at] \in Worker
        BY <1>2, <3>1 DEF CancelFound, Stop, SeenInv, CollectInv
      <4>2. AskToCancel(Workers[at])
        BY <3>1 DEF CancelFound, Stop
      <4> QED
        BY <4>1, <4>2
    <3> QED
      BY <1>2, <3>1
         DEF Next, InCall, vars, JoinTaken, RefreshFails, Enqueue, Deliver, Collected,
             AfterFirstCollection, Look, FoundNoActivity, AfterSecondCollection,
             RefuseForLease, Await, BeginPoll, BeginStart, BeginCancel, BeginShutdown,
             Enter, CancelByKind, Raise, ReportProgress
  <2> QED
    BY <2>1, <2>2, <2>3, <2>4, <2>5, <2>6, <2>7, <2>8
<1>3. IInv /\ [Next]_vars => [\A w \in Worker : Keeps(w)]_vars
  BY <1>2
<1> HIDE DEF Keeps
<1>4. Spec => [][\A w \in Worker : Keeps(w)]_vars
  BY <1>3, Inductive, PTL DEF Spec
<1>5. Spec => \A w \in Worker : Job(w)!Init
  BY <1>1 DEF Spec
<1> QED
  BY <1>4, <1>5 DEF KeepsLifecycles, Keeps

-----------------------------------------------------------------------------
(***************************************************************************)
(* Where the ids are: with a worker, queued or delivered, all of those     *)
(* given out and none twice.                                               *)
(***************************************************************************)
QueueType == queued \in Seq(Nat) /\ delivered \in Seq(Nat)

Apart ==
  /\ \A i, j \in DOMAIN queued : queued[i] = queued[j] => i = j
  /\ \A i, j \in DOMAIN delivered : delivered[i] = delivered[j] => i = j
  /\ \A i \in DOMAIN queued, j \in DOMAIN delivered : queued[i] # delivered[j]
  /\ \A w \in Worker : task[w] # 0 =>
       /\ \A i \in DOMAIN queued : queued[i] # task[w]
       /\ \A i \in DOMAIN delivered : delivered[i] # task[w]

Given ==
  /\ \A w \in Worker : task[w] < nextTask
  /\ \A i \in DOMAIN queued : queued[i] \in 1 .. nextTask - 1
  /\ \A i \in DOMAIN delivered : delivered[i] \in 1 .. nextTask - 1

Somewhere ==
  \A id \in 1 .. nextTask - 1 :
    \/ \E w \in Worker : task[w] = id
    \/ \E i \in DOMAIN queued : queued[i] = id
    \/ \E i \in DOMAIN delivered : delivered[i] = id

IdInv == QueueType /\ Apart /\ Given /\ Somewhere

\* A step that leaves the ids where they are.
LEMMA IdsStay ==
  ASSUME IdInv, UNCHANGED <<task, nextTask, queued, delivered>>
  PROVE  IdInv'
  BY DEF IdInv, QueueType, Apart, Given, Somewhere

\* The id of the collected completion goes from its worker to the queue.
LEMMA IdIsQueued ==
  ASSUME IInv, IdInv, Enqueue
  PROVE  IdInv'
<1> DEFINE w0 == Workers[at]
<1>1. /\ w0 \in Worker /\ task[w0] \in Nat \ {0}
      /\ task' = [task EXCEPT ![w0] = 0]
      /\ queued' = Append(queued, task[w0])
      /\ UNCHANGED <<nextTask, delivered>>
  BY WorkersAre DEF Enqueue, IInv, CoreType, CollectInv, Collecting
<1>2. /\ task \in [Worker -> Nat] /\ nextTask \in Nat
      /\ \A v \in Worker : task[v] # 0 => v = w0
  BY <1>1 DEF IInv, CoreType, OneInv
<1> HIDE DEF w0
<1> USE DEF IdInv
<1>3. /\ queued' \in Seq(Nat)
      /\ DOMAIN queued = 1 .. Len(queued) /\ Len(queued) \in Nat
      /\ DOMAIN queued' = 1 .. Len(queued) + 1
      /\ queued'[Len(queued) + 1] = task[w0]
      /\ \A i \in DOMAIN queued : queued'[i] = queued[i]
  BY <1>1 DEF QueueType
<1>4. \A i \in DOMAIN queued' : i \in DOMAIN queued \/ i = Len(queued) + 1
  BY <1>3
<1>5. \A v \in Worker : task'[v] = 0
  BY <1>1, <1>2
<1>6. QueueType'
  BY <1>1, <1>3 DEF QueueType
<1>7. Apart'
  BY <1>1, <1>3, <1>4, <1>5 DEF Apart
<1>8. Given'
  <2>1. task[w0] \in 1 .. nextTask - 1
    BY <1>1, <1>2 DEF Given
  <2>2. \A v \in Worker : 0 < nextTask
    BY <1>1, <1>2 DEF Given
  <2> QED
    BY <1>1, <1>3, <1>4, <1>5, <2>1, <2>2 DEF Given
<1>9. Somewhere'
  <2> SUFFICES ASSUME NEW id \in 1 .. nextTask - 1
               PROVE  \/ \E i \in DOMAIN queued' : queued'[i] = id
                      \/ \E i \in DOMAIN delivered : delivered[i] = id
    BY <1>1 DEF Somewhere
  <2>1. CASE \E v \in Worker : task[v] = id
    <3>1. task[w0] = id
      BY <1>2, <2>1
    <3> QED
      BY <1>3, <3>1
  <2>2. CASE \E i \in DOMAIN queued : queued[i] = id
    BY <1>3, <2>2
  <2> QED
    BY <2>1, <2>2 DEF Somewhere
<1> QED
  BY <1>6, <1>7, <1>8, <1>9

\* What was queued is delivered behind what was.
LEMMA IdsAreDelivered ==
  ASSUME IdInv, Deliver
  PROVE  IdInv'
<1> USE DEF IdInv
<1>1. /\ UNCHANGED <<task, nextTask>>
      /\ queued' = <<>>
      /\ delivered' = delivered \o queued
  BY DEF Deliver, ownership
<1>2. /\ delivered' \in Seq(Nat)
      /\ Len(delivered) \in Nat /\ Len(queued) \in Nat
      /\ DOMAIN delivered = 1 .. Len(delivered) /\ DOMAIN queued = 1 .. Len(queued)
      /\ DOMAIN delivered' = 1 .. Len(delivered) + Len(queued)
      /\ \A i \in DOMAIN delivered : delivered'[i] = delivered[i]
      /\ \A i \in DOMAIN queued : delivered'[Len(delivered) + i] = queued[i]
  BY <1>1 DEF QueueType
<1>3. ASSUME NEW i \in DOMAIN delivered'
      PROVE  \/ i \in DOMAIN delivered /\ delivered'[i] = delivered[i]
             \/ /\ i - Len(delivered) \in DOMAIN queued
                /\ delivered'[i] = queued[i - Len(delivered)]
                /\ i = Len(delivered) + (i - Len(delivered))
  <2>1. CASE i <= Len(delivered)
    BY <1>2, <2>1
  <2>2. CASE i > Len(delivered)
    <3>1. i - Len(delivered) \in 1 .. Len(queued)
      BY <1>2, <2>2
    <3> QED
      BY <1>2, <2>2, <3>1
  <2> QED
    BY <1>2, <2>1, <2>2
<1>4. DOMAIN queued' = {}
  BY <1>1
<1>5. QueueType'
  BY <1>1, <1>2 DEF QueueType
<1>6. Apart'
  <2>1. ASSUME NEW i \in DOMAIN delivered', NEW j \in DOMAIN delivered',
               delivered'[i] = delivered'[j]
        PROVE  i = j
    <3>1. i \in Int /\ j \in Int
      BY <1>2
    <3>2. CASE i \in DOMAIN delivered /\ j \in DOMAIN delivered
      BY <1>2, <2>1, <3>2 DEF Apart
    <3>3. CASE i \notin DOMAIN delivered /\ j \notin DOMAIN delivered
      <4>1. /\ i - Len(delivered) \in DOMAIN queued
            /\ j - Len(delivered) \in DOMAIN queued
            /\ queued[i - Len(delivered)] = queued[j - Len(delivered)]
        BY <1>3, <2>1, <3>3
      <4>2. i - Len(delivered) = j - Len(delivered)
        BY <4>1 DEF Apart
      <4> QED
        BY <1>2, <3>1, <4>2
    <3>4. CASE i \in DOMAIN delivered /\ j \notin DOMAIN delivered
      BY <1>3, <2>1, <3>4 DEF Apart
    <3>5. CASE i \notin DOMAIN delivered /\ j \in DOMAIN delivered
      BY <1>3, <2>1, <3>5 DEF Apart
    <3> QED
      BY <3>2, <3>3, <3>4, <3>5
  <2>2. ASSUME NEW w \in Worker, task[w] # 0, NEW i \in DOMAIN delivered'
        PROVE  delivered'[i] # task[w]
    BY <1>3, <2>2 DEF Apart
  <2> QED
    BY <1>1, <1>4, <2>1, <2>2 DEF Apart
<1>7. Given'
  BY <1>1, <1>3, <1>4 DEF Given
<1>8. Somewhere'
  <2> SUFFICES ASSUME NEW id \in 1 .. nextTask - 1, \A w \in Worker : task[w] # id
               PROVE  \E i \in DOMAIN delivered' : delivered'[i] = id
    BY <1>1 DEF Somewhere
  <2>1. CASE \E i \in DOMAIN queued : queued[i] = id
    <3>1. PICK i \in DOMAIN queued : queued[i] = id
      BY <2>1
    <3>2. Len(delivered) + i \in DOMAIN delivered'
      BY <1>2
    <3> QED
      BY <1>2, <3>1, <3>2
  <2>2. CASE \E i \in DOMAIN delivered : delivered[i] = id
    <3>1. PICK i \in DOMAIN delivered : delivered[i] = id
      BY <2>2
    <3>2. i \in DOMAIN delivered'
      BY <1>2
    <3> QED
      BY <1>2, <3>1, <3>2
  <2> QED
    BY <2>1, <2>2 DEF Somewhere
<1> QED
  BY <1>5, <1>6, <1>7, <1>8

\* A start gives a new id to a worker that had none; it is never refused.
LEMMA IdIsGiven ==
  ASSUME IInv, IdInv, StartTask
  PROVE  IdInv'
<1> DEFINE w0 == WorkerOf(wanted)
<1>1. w0 \in Worker
  BY WorkersAre DEF WorkerOf, IInv, CoreType
<1>2. /\ \A w \in Worker : phase[w] = "Idle" /\ outcome[w] = "None" /\ task[w] = 0
      /\ place = "start" /\ call = "start"
  BY DEF StartTask, IInv, SeenInv, OneInv, Collecting
<1>3. w0 = "separation" => operation
  <2>1. w0 = "separation" => wanted = "separation"
    BY DEF WorkerOf
  <2> QED
    BY <1>2, <2>1 DEF IInv, OperationInv
<1>4. Job(w0)!Startable
  BY <1>1, <1>2 DEF Job!Startable
<1>5. /\ task' = [task EXCEPT ![w0] = nextTask]
      /\ nextTask' = nextTask + 1
      /\ UNCHANGED <<queued, delivered>>
  BY <1>3, <1>4 DEF StartTask, completions
<1>6. task \in [Worker -> Nat] /\ nextTask \in Nat \ {0}
  BY DEF IInv, CoreType
<1> HIDE DEF w0
<1>7. task'[w0] = nextTask /\ \A v \in Worker : v # w0 => task'[v] = 0
  BY <1>1, <1>2, <1>5, <1>6
<1> USE DEF IdInv
<1>8. QueueType'
  BY <1>5 DEF QueueType
<1>9. Apart'
  BY <1>5, <1>6, <1>7 DEF Apart, Given
<1>10. Given'
  BY <1>5, <1>6, <1>7 DEF Given
<1>11. Somewhere'
  <2> SUFFICES ASSUME NEW id \in 1 .. nextTask
               PROVE  \/ \E w \in Worker : task'[w] = id
                      \/ \E i \in DOMAIN queued : queued[i] = id
                      \/ \E i \in DOMAIN delivered : delivered[i] = id
    BY <1>5, <1>6 DEF Somewhere
  <2>1. CASE id = nextTask
    BY <1>1, <1>7, <2>1
  <2>2. CASE id \in 1 .. nextTask - 1
    BY <1>2, <2>2 DEF Somewhere
  <2> QED
    BY <1>6, <2>1, <2>2
<1> QED
  BY <1>8, <1>9, <1>10, <1>11

(***************************************************************************)
(* Every task id that was given is a running task's, queued for delivery   *)
(* or delivered, and in one of these places only: enqueueCompletion() and  *)
(* poll() neither lose nor repeat the end of a task.                       *)
(***************************************************************************)
THEOREM IdsAreKept == Spec => []IdInv
<1>1. Init => IdInv
  BY WorkersAre DEF Init, IdInv, QueueType, Apart, Given, Somewhere
<1>2. IInv /\ IdInv /\ [Next]_vars => IdInv'
  <2> SUFFICES ASSUME IInv, IdInv, [Next]_vars PROVE IdInv'
    OBVIOUS
  <2>1. Enqueue \/ Deliver \/ StartTask \/ UNCHANGED <<task, nextTask, queued, delivered>>
    BY DEF Next, InCall, vars, unowned, untouched, ownership, completions, TakeNext,
           JoinTaken, RefreshReady, RefreshFails, AfterFirstCollection, Look,
           FoundNoActivity, AfterSecondCollection, CancelFound, RefuseForLease, Stop,
           Await, BeginPoll, BeginStart, BeginCancel, BeginShutdown, Enter,
           CancelByKind, PassBarrier, Publish, End, Raise, ReportProgress
  <2> QED
    BY <2>1, IdsStay, IdIsQueued, IdsAreDelivered, IdIsGiven
<1> QED
  BY <1>1, <1>2, Inductive, PTL DEF Spec

(***************************************************************************)
(* No task is lost and none is reported twice: each id that was given out  *)
(* is with one worker, or once among the completions that are queued or    *)
(* were delivered.                                                         *)
(***************************************************************************)
THEOREM TaskIsOnce == Spec => []EachTaskOnce
<1>1. IdInv => EachTaskOnce
  <2> SUFFICES ASSUME IdInv, NEW id \in 1 .. nextTask - 1
               PROVE  \/ /\ \E w \in Worker : task[w] = id
                         /\ id \notin Range(queued \o delivered)
                      \/ /\ \A w \in Worker : task[w] # id
                         /\ \E i \in DOMAIN (queued \o delivered) :
                              \A j \in DOMAIN (queued \o delivered) :
                                (queued \o delivered)[j] = id <=> j = i
    BY DEF EachTaskOnce
  <2> DEFINE all == queued \o delivered
             q == Len(queued)
             d == Len(delivered)
  <2>1. /\ q \in Nat /\ d \in Nat
        /\ DOMAIN queued = 1 .. q /\ DOMAIN delivered = 1 .. d
        /\ DOMAIN all = 1 .. q + d
        /\ \A i \in 1 .. q : all[i] = queued[i]
        /\ \A i \in 1 .. d : all[q + i] = delivered[i]
    BY DEF IdInv, QueueType
  <2> HIDE DEF all, q, d
  <2>2. ASSUME NEW j \in DOMAIN all
        PROVE  \/ j \in DOMAIN queued /\ all[j] = queued[j]
               \/ /\ j - q \in DOMAIN delivered /\ j = q + (j - q)
                  /\ all[j] = delivered[j - q]
    <3>1. CASE j <= q
      BY <2>1, <3>1
    <3>2. CASE j > q
      <4>1. j - q \in 1 .. d
        BY <2>1, <3>2
      <4> QED
        BY <2>1, <4>1
    <3> QED
      BY <2>1, <3>1, <3>2
  <2>3. CASE \E w \in Worker : task[w] = id
    <3>1. \A j \in DOMAIN all : all[j] # id
      BY <2>2, <2>3 DEF IdInv, Apart
    <3> QED
      BY <2>3, <3>1 DEF Range, all
  <2>4. CASE \E i \in DOMAIN queued : queued[i] = id
    <3>1. PICK i \in DOMAIN queued : queued[i] = id
      BY <2>4
    <3>2. i \in DOMAIN all /\ \A j \in DOMAIN all : all[j] = id <=> j = i
      BY <2>1, <2>2, <3>1 DEF IdInv, Apart
    <3>3. \A w \in Worker : task[w] # id
      BY <3>1 DEF IdInv, Apart
    <3> QED
      BY <3>2, <3>3 DEF all
  <2>5. CASE \E i \in DOMAIN delivered : delivered[i] = id
    <3>1. PICK i \in DOMAIN delivered : delivered[i] = id
      BY <2>5
    <3>2. q + i \in DOMAIN all /\ \A j \in DOMAIN all : all[j] = id <=> j = q + i
      <4>1. q + i \in DOMAIN all /\ all[q + i] = id
        BY <2>1, <3>1
      <4> QED
        BY <2>1, <2>2, <3>1, <4>1 DEF IdInv, Apart
    <3>3. \A w \in Worker : task[w] # id
      BY <3>1 DEF IdInv, Apart
    <3> QED
      BY <3>2, <3>3 DEF all
  <2> QED
    BY <2>3, <2>4, <2>5 DEF IdInv, Somewhere
<1> QED
  BY <1>1, IdsAreKept, PTL
=============================================================================
