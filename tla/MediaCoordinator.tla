-------------------------- MODULE MediaCoordinator --------------------------
(***************************************************************************)
(* app/media_processing_coordinator.cpp, Coordinator: one owner thread in  *)
(* front of three background workers, of which at most one is at work.     *)
(*                                                                         *)
(* A worker is what JobLifecycle promises of it; WorkerTask, GenerationJob *)
(* and SeparationJob show that they keep that promise.  The owner looks at *)
(* one worker after the other, each under that worker's own mutex, so a    *)
(* worker may end between any two looks: every look is a step.  Leases are *)
(* in InteractivePlayback; here a transcript may be refused for one.       *)
(*                                                                         *)
(* latestCompletion and PollResult::changed only feed the display and are  *)
(* left out, with the per-worker changed flags that poll() folds into it.  *)
(***************************************************************************)
EXTENDS Integers, Sequences, SequencesExt

CONSTANTS
  Kinds,      \* the kinds of task requested
  MaxTasks    \* bound on the number of tasks started

ConstantsAssumption ==
  /\ Kinds \subseteq {"export", "setup", "subtitles", "separation"}
  /\ MaxTasks \in Nat

ASSUME ConstantsAssumption

\* The order in which activity() and collectReadyCompletions() look.
Workers == <<"task", "subtitles", "separation">>

Worker == Range(Workers)

\* Melody analysis, loop split and the exports are alike, and one kind here.
WorkerOf(kind) == IF kind \in {"export", "setup"} THEN "task" ELSE kind

VARIABLES
  phase,      \* of each worker, as JobLifecycle has it
  outcome,    \* its completion that waits to be taken, or "None"
  published,  \* its run put its output in place
  raising,    \* the workers that ended and have yet to raise the wake event
  task,       \* the id of each worker's task, 0 when it has none
  kind,       \* the kind of the task worker's task
  binding,    \* availability of audioSeparationBinding
  operation,  \* the separation job has an operation to run
  wake,       \* wakeEvent
  queued,     \* queuedCompletions, by id
  delivered,  \* the ids poll() handed out, in order
  nextTask,   \* nextTaskId
  place,      \* where the owner is, "idle" between two calls
  call,       \* the call it is in: "poll", "start", "cancel" or "shutdown"
  at,         \* the worker it looks at, 1..3; 4 past the last
  again,      \* startConflict() is at its second collection
  wanted,     \* the kind a start asks for
  expected,   \* the id a cancellation is bound to
  taken       \* the outcome being collected

jobs == <<phase, outcome, published>>
ownership == <<task, kind, nextTask>>
separation == <<binding, operation>>
completions == <<queued, delivered>>
request == <<call, again, wanted, expected>>

vars == <<jobs, raising, ownership, separation, wake, completions, place, at,
          request, taken>>

Init ==
  /\ phase = [w \in Worker |-> "Idle"]
  /\ outcome = [w \in Worker |-> "None"]
  /\ published = [w \in Worker |-> FALSE]
  /\ raising = {}
  /\ task = [w \in Worker |-> 0]
  /\ kind = "export"
  /\ binding \in {"Ready", "SetupRequired"}
  /\ operation = (binding = "Ready")
  /\ wake = FALSE
  /\ queued = <<>>
  /\ delivered = <<>>
  /\ nextTask = 1
  /\ place = "idle"
  /\ call = "poll"
  /\ at = 1
  /\ again = FALSE
  /\ wanted = "export"
  /\ expected = 0
  /\ taken = "None"

\* What each worker promises; the task worker's promise is wider, and wider
\* again when it runs the setup (module WorkerTask).
Job(w) == INSTANCE JobLifecycle WITH
  CancelledRunMayEnd <-
    {"Cancelled"}
      \cup (IF w = "task" THEN {"Failed"} ELSE {})
      \cup (IF w = "task" /\ "setup" \in Kinds THEN {"Succeeded"} ELSE {}),
  BarrierRequired <- ~(w = "task" /\ "setup" \in Kinds),
  phase <- phase[w],
  outcome <- outcome[w],
  published <- published[w]

-----------------------------------------------------------------------------
(* The workers *)

unowned == <<ownership, separation, completions, place, at, request, taken>>

PassBarrier(w) ==
  /\ phase[w] = "Running"
  /\ ~(w = "task" /\ kind = "setup")
  /\ phase' = [phase EXCEPT ![w] = "Publishing"]
  /\ wake' = TRUE
  /\ UNCHANGED <<unowned, outcome, published, raising>>

Publish(w) ==
  /\ phase[w] = "Publishing"
  /\ published' = [published EXCEPT ![w] = TRUE]
  /\ UNCHANGED <<unowned, phase, outcome, raising, wake>>

\* The end of a run stores the outcome; the signal comes after the unlock.
\* Only the setup succeeds without the barrier.
End(w) ==
  \E o \in {"Succeeded", "Failed", "Cancelled"} :
    /\ Job(w)!MayEnd(o)
    /\ o = "Succeeded" /\ phase[w] # "Publishing" => kind = "setup"
    /\ phase' = [phase EXCEPT ![w] = "Idle"]
    /\ outcome' = [outcome EXCEPT ![w] = o]
    /\ raising' = raising \cup {w}
    /\ UNCHANGED <<unowned, published, wake>>

\* A slip of Raise: the owner is not woken for the end of a run.
RaiseNothing(w) ==
  /\ w \in raising
  /\ raising' = raising \ {w}
  /\ UNCHANGED <<unowned, jobs, wake>>

Raise(w) ==
  /\ w \in raising
  /\ raising' = raising \ {w}
  /\ wake' = TRUE
  /\ UNCHANGED <<unowned, jobs>>

\* A progress report raises the event at any time of a run.
ReportProgress(w) ==
  /\ phase[w] # "Idle"
  /\ wake' = TRUE
  /\ UNCHANGED <<unowned, jobs, raising>>

-----------------------------------------------------------------------------
(* The owner's calls *)

Enter(c, p) ==
  /\ place = "idle"
  /\ call' = c
  /\ place' = p
  /\ at' = 1

\* poll() consumes the event before it looks for what it announced.
BeginPoll ==
  /\ Enter("poll", "collect")
  /\ wake' = FALSE
  /\ UNCHANGED <<jobs, raising, ownership, separation, completions, again,
                 wanted, expected, taken>>

\* A request tests what the binding can do before anything else.
BeginStart(k) ==
  /\ nextTask <= MaxTasks
  /\ k = "setup" => binding = "SetupRequired"
  /\ k = "separation" => binding = "Ready"
  /\ Enter("start", "collect")
  /\ wanted' = k
  /\ again' = FALSE
  /\ UNCHANGED <<jobs, raising, ownership, separation, wake, completions,
                 expected, taken>>

\* cancelActive() and requestTaskCancellation(), with an id seen earlier.
BeginCancel(id) ==
  /\ id < nextTask
  /\ Enter("cancel", "look")
  /\ expected' = id
  /\ UNCHANGED <<jobs, raising, ownership, separation, wake, completions,
                 again, wanted, taken>>

\* A slip of AskToCancel: a run past its barrier can be cancelled too.
AskToCancelAlways(w) ==
  /\ phase' = [phase EXCEPT ![w] = IF @ # "Idle" THEN "Cancelling" ELSE @]
  /\ wake' = (wake \/ phase[w] # "Idle")
  /\ UNCHANGED <<outcome, published, raising>>

\* Job::requestCancel(), of a job that may be in any state by now.
AskToCancel(w) ==
  /\ phase' = [phase EXCEPT ![w] = IF @ = "Running" THEN "Cancelling" ELSE @]
  /\ wake' = (wake \/ phase[w] = "Running")
  /\ UNCHANGED <<outcome, published, raising>>

\* The four cancellations a surface may ask for without an id.
CancelByKind(w) ==
  /\ place = "idle"
  /\ phase[w] = "Running"
  /\ AskToCancel(w)
  /\ UNCHANGED unowned

BeginShutdown ==
  /\ Enter("shutdown", "stop")
  /\ UNCHANGED <<jobs, raising, ownership, separation, wake, completions,
                 again, wanted, expected, taken>>

-----------------------------------------------------------------------------
(* collectReadyCompletions() *)

\* takeCompletion() of the next worker, under its lock.
TakeNext ==
  /\ place = "collect"
  /\ at <= Len(Workers)
  /\ LET w == Workers[at] IN
       IF outcome[w] = "None"
         THEN at' = at + 1 /\ UNCHANGED <<place, taken, outcome>>
         ELSE /\ taken' = outcome[w]
              /\ outcome' = [outcome EXCEPT ![w] = "None"]
              /\ place' = "join"
              /\ UNCHANGED at
  /\ UNCHANGED <<phase, published, raising, ownership, separation, wake,
                 completions, request>>

\* takeCompletion() joins the worker's thread, which has raised the event by
\* the time it ends.
JoinTaken ==
  /\ place = "join"
  /\ Workers[at] \notin raising
  /\ place' = IF Workers[at] = "task" /\ kind = "setup" /\ taken = "Succeeded"
                THEN "refresh" ELSE "enqueue"
  /\ UNCHANGED <<jobs, raising, ownership, separation, wake, completions, at,
                 request, taken>>

\* A slip of RefreshReady: the binding alone is refreshed.
RefreshBindingOnly ==
  /\ place = "refresh"
  /\ binding' = "Ready"
  /\ place' = "enqueue"
  /\ UNCHANGED <<jobs, raising, ownership, operation, wake, completions, at,
                 request, taken>>

\* refreshAudioSeparationBinding(), ready: a new separation job replaces the
\* old one, whatever that one was at.
RefreshReady ==
  /\ place = "refresh"
  /\ binding' = "Ready"
  /\ operation' = TRUE
  /\ phase' = [phase EXCEPT !["separation"] = "Idle"]
  /\ outcome' = [outcome EXCEPT !["separation"] = "None"]
  /\ published' = [published EXCEPT !["separation"] = FALSE]
  /\ place' = "enqueue"
  /\ UNCHANGED <<raising, ownership, wake, completions, at, request, taken>>

\* The resolver answers otherwise, or throws and leaves the binding alone;
\* the old job stays.
RefreshFails ==
  /\ place = "refresh"
  /\ binding' \in {binding, "SetupRequired", "Unavailable"}
  /\ taken' = "Failed"
  /\ place' = "enqueue"
  /\ UNCHANGED <<jobs, raising, ownership, operation, wake, completions, at,
                 request>>

\* A slip of Enqueue: the id stays with the worker.
EnqueueKeepingId ==
  /\ place = "enqueue"
  /\ queued' = Append(queued, task[Workers[at]])
  /\ at' = at + 1
  /\ place' = "collect"
  /\ UNCHANGED <<jobs, raising, kind, nextTask, task, separation, wake,
                 delivered, request, taken>>

\* The completion gets its task's id, and the worker is free of it.
Enqueue ==
  /\ place = "enqueue"
  /\ queued' = Append(queued, task[Workers[at]])
  /\ task' = [task EXCEPT ![Workers[at]] = 0]
  /\ at' = at + 1
  /\ place' = "collect"
  /\ UNCHANGED <<jobs, raising, kind, nextTask, separation, wake, delivered,
                 request, taken>>

Collected == place = "collect" /\ at > Len(Workers)

\* A slip of Deliver: it hands out a copy.
DeliverCopy ==
  /\ Collected
  /\ call = "poll"
  /\ delivered' = delivered \o queued
  /\ place' = "idle"
  /\ UNCHANGED <<jobs, raising, ownership, separation, wake, queued, at,
                 request, taken>>

\* The end of poll(): all that was queued, by this call or by a start.
Deliver ==
  /\ Collected
  /\ call = "poll"
  /\ delivered' = delivered \o queued
  /\ queued' = <<>>
  /\ place' = "idle"
  /\ UNCHANGED <<jobs, raising, ownership, separation, wake, at, request,
                 taken>>

-----------------------------------------------------------------------------
(* startConflict(), activity() and the starts *)

untouched == <<jobs, raising, ownership, separation, wake, completions, call,
               wanted, expected, taken>>

CompletionPending ==
  \/ outcome["task"] # "None"
  \/ task["subtitles"] # 0
  \/ task["separation"] # 0

AfterFirstCollection ==
  /\ Collected
  /\ call = "start"
  /\ ~again
  /\ place' = "look"
  /\ at' = 1
  /\ UNCHANGED <<untouched, again>>

\* A slip of Look: the cancellation is not bound to an id.
LookForAnyTask ==
  /\ place = "look"
  /\ at <= Len(Workers)
  /\ IF phase[Workers[at]] = "Idle"
       THEN at' = at + 1 /\ UNCHANGED place
       ELSE /\ UNCHANGED at
            /\ place' = IF call = "cancel" THEN "cancel" ELSE "idle"
  /\ UNCHANGED <<untouched, again>>

\* activity(): the first worker at work.  A start finds it busy; cancelActive()
\* goes on only if its task is the expected one.
Look ==
  /\ place = "look"
  /\ at <= Len(Workers)
  /\ IF phase[Workers[at]] = "Idle"
       THEN at' = at + 1 /\ UNCHANGED place
       ELSE /\ UNCHANGED at
            /\ place' = IF call = "cancel" /\ task[Workers[at]] = expected
                          THEN "cancel" ELSE "idle"
  /\ UNCHANGED <<untouched, again>>

\* A slip of FoundNoActivity: what ended since the collection is overlooked.
FoundNoActivityOnce ==
  /\ place = "look"
  /\ at > Len(Workers)
  /\ at' = 1
  /\ place' = IF call = "cancel" THEN "idle" ELSE "start"
  /\ UNCHANGED <<untouched, again>>

\* No worker is at work, but one may have ended since the collection: once
\* more.
FoundNoActivity ==
  /\ place = "look"
  /\ at > Len(Workers)
  /\ at' = 1
  /\ place' = IF call = "cancel" THEN "idle"
              ELSE IF CompletionPending THEN "collect" ELSE "start"
  /\ again' = (call = "start" /\ CompletionPending)
  /\ UNCHANGED untouched

\* The second collection leaves nothing pending, or the request is refused.
AfterSecondCollection ==
  /\ Collected
  /\ call = "start"
  /\ again
  /\ place' = IF CompletionPending THEN "refused" ELSE "start"
  /\ UNCHANGED <<untouched, at, again>>

CancelFound ==
  /\ place = "cancel"
  /\ AskToCancel(Workers[at])
  /\ place' = "idle"
  /\ UNCHANGED <<ownership, separation, completions, at, request, taken>>

\* requestSubtitles() gives way to a lease of foreground playback.
RefuseForLease ==
  /\ place = "start"
  /\ wanted = "subtitles"
  /\ place' = "idle"
  /\ UNCHANGED <<untouched, at, again>>

\* tryStart() of a worker with no operation, or not free, would refuse.
StartTask ==
  /\ place = "start"
  /\ LET w == WorkerOf(wanted) IN
       IF Job(w)!Startable /\ (w = "separation" => operation)
         THEN /\ \/ phase' = [phase EXCEPT ![w] = "Running"] /\ UNCHANGED outcome
                 \/ outcome' = [outcome EXCEPT ![w] = "Failed"] /\ UNCHANGED phase
              /\ published' = [published EXCEPT ![w] = FALSE]
              /\ task' = [task EXCEPT ![w] = nextTask]
              /\ kind' = IF w = "task" THEN wanted ELSE kind
              /\ wake' = TRUE
              /\ place' = "idle"
         ELSE place' = "refused" /\ UNCHANGED <<jobs, task, kind, wake>>
  /\ nextTask' = nextTask + 1
  /\ UNCHANGED <<raising, separation, completions, at, request, taken>>

-----------------------------------------------------------------------------
(* shutdown() *)

\* A slip of Stop: the worker is waited for, and not told.
StopWaiting ==
  /\ place = "stop"
  /\ place' = "await"
  /\ UNCHANGED <<jobs, raising, wake, ownership, separation, completions, at,
                 request, taken>>

\* cancelAndJoin() of one worker after the other.
Stop ==
  /\ place = "stop"
  /\ AskToCancel(Workers[at])
  /\ place' = "await"
  /\ UNCHANGED <<ownership, separation, completions, at, request, taken>>

Await ==
  /\ place = "await"
  /\ phase[Workers[at]] = "Idle"
  /\ Workers[at] \notin raising
  /\ at' = at + 1
  /\ place' = IF at = Len(Workers) THEN "gone" ELSE "stop"
  /\ UNCHANGED <<jobs, raising, wake, ownership, separation, completions,
                 request, taken>>

-----------------------------------------------------------------------------
(* The coordinator *)

InCall ==
  \/ TakeNext
  \/ JoinTaken
  \/ RefreshReady
  \/ RefreshFails
  \/ Enqueue
  \/ Deliver
  \/ AfterFirstCollection
  \/ Look
  \/ FoundNoActivity
  \/ AfterSecondCollection
  \/ CancelFound
  \/ RefuseForLease
  \/ StartTask
  \/ Stop
  \/ Await

Next ==
  \/ InCall
  \/ BeginPoll
  \/ \E k \in Kinds : BeginStart(k)
  \/ \E id \in 1..MaxTasks : BeginCancel(id)
  \/ BeginShutdown
  \/ \E w \in Worker : \/ CancelByKind(w)
                       \/ PassBarrier(w)
                       \/ Publish(w)
                       \/ End(w)
                       \/ Raise(w)
                       \/ ReportProgress(w)

Spec == Init /\ [][Next]_vars

\* A call goes on, the owner polls again and again while the event is up, and
\* a worker that was told to stop or is past its barrier ends, as the three
\* workers' own modules show.
Fairness ==
  /\ WF_vars(InCall)
  /\ SF_vars(wake /\ BeginPoll)
  /\ \A w \in Worker : /\ WF_vars(phase[w] # "Running" /\ End(w))
                       /\ WF_vars(Raise(w))

FairSpec == Spec /\ Fairness

-----------------------------------------------------------------------------
(* Properties *)

\* Every variable keeps to its values.
TypeOK ==
  /\ phase \in [Worker -> {"Idle", "Running", "Cancelling", "Publishing"}]
  /\ outcome \in [Worker -> {"None", "Succeeded", "Failed", "Cancelled"}]
  /\ published \in [Worker -> BOOLEAN]
  /\ raising \subseteq Worker
  /\ task \in [Worker -> 0..MaxTasks]
  /\ kind \in {"export", "setup"}
  /\ binding \in {"Ready", "SetupRequired", "Unavailable"}
  /\ operation \in BOOLEAN
  /\ wake \in BOOLEAN
  /\ Range(queued) \subseteq 1..MaxTasks
  /\ Range(delivered) \subseteq 1..MaxTasks
  /\ nextTask \in 1..(MaxTasks + 1)
  /\ place \in {"idle", "collect", "join", "refresh", "enqueue", "look",
                "cancel", "start", "refused", "stop", "await", "gone"}
  /\ call \in {"poll", "start", "cancel", "shutdown"}
  /\ at \in 1..4
  /\ again \in BOOLEAN
  /\ wanted \in {"export", "setup", "subtitles", "separation"}
  /\ expected \in 0..MaxTasks
  /\ taken \in {"None", "Succeeded", "Failed", "Cancelled"}

\* A request that found no conflict is accepted by its worker, although the
\* workers went on since: the second collection leaves nothing to collect, and
\* a separation that was let through has an operation to run, also when a
\* setup's refresh changed the binding under the request.
RequestIsAccepted == place # "refused"

\* Offline processing is mutually exclusive, and a new task does not start
\* before the last one's completion was collected.
OneTaskAtATime ==
  \A v, w \in Worker :
    /\ phase[v] # "Idle" \/ outcome[v] # "None"
    /\ phase[w] # "Idle" \/ outcome[w] # "None"
    => v = w

\* Requests are exclusive: of two, one finds a conflict and neither is refused
\* after it was told there is none.
RequestsAreExclusive == OneTaskAtATime /\ RequestIsAccepted

\* Every task that was started is in one place and once there: with its
\* worker, among the queued completions, or delivered.
EachTaskOnce ==
  \A id \in 1..(nextTask - 1) :
    \/ /\ \E w \in Worker : task[w] = id
       /\ id \notin Range(queued \o delivered)
    \/ /\ \A w \in Worker : task[w] # id
       /\ \E i \in DOMAIN (queued \o delivered) :
            \A j \in DOMAIN (queued \o delivered) :
              (queued \o delivered)[j] = id <=> j = i

\* A cancellation bound to an id reaches the task with that id or none,
\* however long ago the id was seen.
CancelHitsItsTask ==
  [][\A w \in Worker :
       place = "cancel" /\ phase'[w] # phase[w] /\ phase'[w] = "Cancelling" =>
         task[w] = expected]_vars

\* The coordinator uses each worker within its life cycle: it starts none that
\* is not free, and replaces the separation job by a new one only while that
\* job has neither a run nor a completion.
KeepsLifecycles ==
  /\ \A w \in Worker : Job(w)!Init
  /\ [][\A w \in Worker :
          [Job(w)!Next \/ (Job(w)!Startable /\ Job(w)!Init')]_(Job(w)!vars)]_vars

\* A task that ended is delivered, unless the coordinator is shut down.
EndedIsDelivered ==
  \A id \in 1..MaxTasks :
    (\E w \in Worker : task[w] = id /\ phase[w] = "Idle") ~>
      id \in Range(delivered) \/ call = "shutdown"

\* shutdown() returns, whatever the workers were at.
ShutdownReturns == call = "shutdown" ~> place = "gone"
=============================================================================
