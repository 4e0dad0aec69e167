------------------------ MODULE LatestRequestWorker ------------------------
(***************************************************************************)
(* core/latest_request_worker.h: one worker thread that runs at most one   *)
(* request at a time and keeps only the newest queued request and the      *)
(* newest completion.  The owner numbers its requests (a counter it        *)
(* increments, as tui/ui/browsermeta.cpp does), submits or cancels, polls  *)
(* for a completion and finally destroys the object.                       *)
(*                                                                         *)
(* Every section under mutex_ is one step.  What the code does outside the *)
(* mutex is a step of its own: the notify_one after an unlock, the work    *)
(* itself, and the unlocked cancellation test that follows the work.       *)
(* Generation 0 stands for an empty optional.                              *)
(***************************************************************************)
EXTENDS Naturals

CONSTANT MaxGeneration    \* bound on the generations the owner hands out

ASSUME GenerationAssumption == MaxGeneration \in Nat \ {0}

VARIABLES
  latest,        \* latestGeneration_
  pending,       \* generation of pending_, 0 when empty
  completion,    \* generation of completion_, 0 when empty
  ready,         \* ready_ is signalled
  stopping,      \* stopping_
  owner,         \* the owner thread: "idle", or inside a call
  worker,        \* the worker thread's place in run()
  job,           \* the generation the worker is running, 0 for none
  abandoned,     \* the generations whose work saw its cancellation and gave up
  delivered      \* generation of the last completion poll() returned

vars == <<latest, pending, completion, ready, stopping,
          owner, worker, job, abandoned, delivered>>

Generations == 1..MaxGeneration

Init ==
  /\ latest = 0
  /\ pending = 0
  /\ completion = 0
  /\ ready = FALSE
  /\ stopping = FALSE
  /\ owner = "idle"
  /\ worker = "take"
  /\ job = 0
  /\ abandoned = {}
  /\ delivered = 0

-----------------------------------------------------------------------------
(* The owner thread *)

\* submit(): the newest request replaces the queued one and the result.
Submit ==
  /\ owner = "idle"
  /\ ~stopping
  /\ latest < MaxGeneration
  /\ latest' = latest + 1
  /\ pending' = latest + 1
  /\ completion' = 0
  /\ ready' = FALSE
  /\ owner' = "notify"
  /\ UNCHANGED <<stopping, worker, job, abandoned, delivered>>

\* Slips of Cancel: it forgets the signal, forgets the completion, or restarts
\* the count so that a running job's generation comes round again.
CancelKeepingSignal ==
  /\ owner = "idle"
  /\ ~stopping
  /\ latest < MaxGeneration
  /\ latest' = latest + 1
  /\ pending' = 0
  /\ completion' = 0
  /\ UNCHANGED <<ready, stopping, owner, worker, job, abandoned, delivered>>

CancelKeepingCompletion ==
  /\ owner = "idle"
  /\ ~stopping
  /\ latest < MaxGeneration
  /\ latest' = latest + 1
  /\ pending' = 0
  /\ UNCHANGED <<completion, ready, stopping, owner, worker, job, abandoned,
                 delivered>>

CancelRestartingCount ==
  /\ owner = "idle"
  /\ ~stopping
  /\ latest' = 0
  /\ pending' = 0
  /\ completion' = 0
  /\ ready' = FALSE
  /\ UNCHANGED <<stopping, owner, worker, job, abandoned, delivered>>

\* cancel(): a generation nothing was submitted under; nobody is notified.
Cancel ==
  /\ owner = "idle"
  /\ ~stopping
  /\ latest < MaxGeneration
  /\ latest' = latest + 1
  /\ pending' = 0
  /\ completion' = 0
  /\ ready' = FALSE
  /\ UNCHANGED <<stopping, owner, worker, job, abandoned, delivered>>

\* poll(): hands the completion out, or only clears the signal.
Poll ==
  /\ owner = "idle"
  /\ delivered' = IF completion = 0
                    THEN delivered ELSE completion
  /\ completion' = 0
  /\ ready' = FALSE
  /\ UNCHANGED <<latest, pending, stopping, owner, worker, job, abandoned>>

\* The destructor up to its unlock.
BeginDestruction ==
  /\ owner = "idle"
  /\ stopping' = TRUE
  /\ pending' = 0
  /\ completion' = 0
  /\ ready' = FALSE
  /\ owner' = "notifyStop"
  /\ UNCHANGED <<latest, worker, job, abandoned, delivered>>

\* A slip of Notify: the condition variable is never signalled.
NotifyNobody ==
  /\ owner \in {"notify", "notifyStop"}
  /\ owner' = IF owner = "notify" THEN "idle" ELSE "join"
  /\ UNCHANGED <<latest, pending, completion, ready, stopping, worker, job,
                 abandoned, delivered>>

\* pendingChanged_.notify_one(), after the unlock of submit or destructor.
Notify ==
  /\ owner \in {"notify", "notifyStop"}
  /\ owner' = IF owner = "notify" THEN "idle" ELSE "join"
  /\ worker' = IF worker = "parked" THEN "take" ELSE worker
  /\ UNCHANGED <<latest, pending, completion, ready, stopping, job,
                 abandoned, delivered>>

Join ==
  /\ owner = "join"
  /\ worker = "exited"
  /\ owner' = "destroyed"
  /\ UNCHANGED <<latest, pending, completion, ready, stopping, worker, job,
                 abandoned, delivered>>

OwnerNext == Submit \/ Cancel \/ Poll \/ BeginDestruction \/ Notify \/ Join

-----------------------------------------------------------------------------
(* The worker thread *)

\* Cancellation::requested(): two atomic loads, no lock.
CancellationRequested == stopping \/ latest # job

\* takeNextJob(): the predicate of the wait, evaluated under the mutex.
TakeNextJob ==
  /\ worker = "take"
  /\ \/ /\ stopping
        /\ worker' = "exited"
        /\ UNCHANGED <<pending, job>>
     \/ /\ ~stopping
        /\ pending # 0
        /\ worker' = "working"
        /\ job' = pending
        /\ pending' = 0
     \/ /\ ~stopping
        /\ pending = 0
        /\ worker' = "parked"
        /\ UNCHANGED <<pending, job>>
  /\ UNCHANGED <<latest, completion, ready, stopping, owner, abandoned,
                 delivered>>

\* A condition variable may wake without a notification.
SpuriousWake ==
  /\ worker = "parked"
  /\ worker' = "take"
  /\ UNCHANGED <<latest, pending, completion, ready, stopping, owner, job,
                 abandoned, delivered>>

\* work_ polls the cancellation it was given and gives up early.
AbandonWork ==
  /\ worker = "working"
  /\ CancellationRequested
  /\ abandoned' = abandoned \union {job}
  /\ worker' = "worked"
  /\ UNCHANGED <<latest, pending, completion, ready, stopping, owner, job,
                 delivered>>

\* work_ returns (or throws) without having looked at its cancellation.
FinishWork ==
  /\ worker = "working"
  /\ worker' = "worked"
  /\ UNCHANGED <<latest, pending, completion, ready, stopping, owner, job,
                 abandoned, delivered>>

\* The unlocked test right after the work.
TestCancellation ==
  /\ worker = "worked"
  /\ IF CancellationRequested
       THEN worker' = "take" /\ job' = 0
       ELSE worker' = "commit" /\ job' = job
  /\ UNCHANGED <<latest, pending, completion, ready, stopping, owner,
                 abandoned, delivered>>

\* A slip of Commit: it trusts the unlocked test.
CommitWithoutRetest ==
  /\ worker = "commit"
  /\ worker' = "take"
  /\ job' = 0
  /\ completion' = job
  /\ ready' = TRUE
  /\ UNCHANGED <<latest, pending, stopping, owner, abandoned, delivered>>

\* The locked test and the publication of the completion.
Commit ==
  /\ worker = "commit"
  /\ worker' = "take"
  /\ job' = 0
  /\ IF CancellationRequested
       THEN UNCHANGED <<completion, ready>>
       ELSE /\ completion' = job
            /\ ready' = TRUE
  /\ UNCHANGED <<latest, pending, stopping, owner, abandoned, delivered>>

WorkerStep ==
  TakeNextJob \/ FinishWork \/ TestCancellation \/ Commit

Next == OwnerNext \/ WorkerStep \/ AbandonWork \/ SpuriousWake

\* The worker thread runs and the work it is given ends; a call the owner is
\* inside of goes on.  Nothing makes the owner call anything.
Fairness ==
  /\ WF_vars(WorkerStep)
  /\ WF_vars(Notify)
  /\ WF_vars(Join)

Spec == Init /\ [][Next]_vars
FairSpec == Spec /\ Fairness

-----------------------------------------------------------------------------
(* Properties *)

\* Every variable keeps its type: the fields of the class and the two pcs.
TypeOK ==
  /\ latest \in 0..MaxGeneration
  /\ pending \in 0..MaxGeneration
  /\ completion \in 0..MaxGeneration
  /\ ready \in BOOLEAN
  /\ stopping \in BOOLEAN
  /\ owner \in {"idle", "notify", "notifyStop", "join", "destroyed"}
  /\ worker \in {"take", "parked", "working", "worked", "commit", "exited"}
  /\ job \in 0..MaxGeneration
  /\ abandoned \subseteq Generations
  /\ delivered \in 0..MaxGeneration

\* A completion waiting for poll() is always the one of the newest
\* generation, although the worker decided to publish it after an unlocked
\* test that a submit or a cancel can overtake; and it is whole: work that gave
\* up because it saw its cancellation is never published as a result.
CompletionIsLatest ==
  completion # 0 => completion = latest /\ completion \notin abandoned

\* The wait handle is signalled exactly while a completion is waiting: the
\* owner neither sleeps over one nor spins on an empty poll.
ReadyMeansCompletion == ready <=> completion # 0

\* What the owner is woken for is there, newest and whole.
CompletionIsFresh == CompletionIsLatest /\ ReadyMeansCompletion

\* poll() delivers generations in increasing order, each at most once, and
\* never one that a later submit or cancel has replaced.
DeliveryIsFreshAndOnce ==
  [][delivered' # delivered =>
       delivered' = latest /\ delivered < delivered']_vars

\* A submitted request is answered, unless a newer call or the destructor
\* replaces it: no notification is lost between the unlock and the wait.
RequestIsAnswered ==
  \A g \in Generations :
    (pending = g) ~> (completion = g \/ latest # g \/ stopping
                        \/ delivered = g)

=============================================================================
