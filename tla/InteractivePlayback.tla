------------------------ MODULE InteractivePlayback ------------------------
(***************************************************************************)
(* Who owns the GPU: the leases that foreground video playback takes from  *)
(* the media-processing coordinator (app/media_processing_coordinator.cpp),*)
(* the separation job that such a lease pauses (module SeparationJob,      *)
(* whose steps are the steps of this module), and the transcript job,      *)
(* which cannot be paused and is kept out instead.                         *)
(*                                                                         *)
(* Leases and requests are calls of one owner thread, so the mutex of the  *)
(* shared state is never contended, and what a call does to the job before *)
(* its first unlock is one step with it.  The transcript job is reduced to *)
(* whether it runs and whether its completion was collected; its inside is *)
(* module GenerationJob.                                                   *)
(***************************************************************************)
EXTENDS SeparationJob

CONSTANT Leases         \* the lease objects there are

VARIABLES
  leases,     \* the leases held: leaseCount is their number
  granted,    \* the held leases whose ready() told playback to go ahead
  subtitles   \* the transcript job: "idle", "running" or "ended"

foreground == <<leases, granted, subtitles>>
allVars == <<vars, foreground>>

LeaseInit ==
  /\ Init
  /\ leases = {}
  /\ granted = {}
  /\ subtitles = "idle"

-----------------------------------------------------------------------------
(* Leases *)

\* A slip of AcquireLease: work under way is left running.
AcquireLeaseOnly(l) ==
  /\ owner = "idle"
  /\ l \notin leases
  /\ leases' = leases \cup {l}
  /\ UNCHANGED <<vars, granted, subtitles>>

\* acquireInteractivePlayback(): the first lease pauses the separation.
AcquireLease(l) ==
  /\ owner = "idle"
  /\ l \notin leases
  /\ leases' = leases \cup {l}
  /\ \/ leases = {} /\ Pause
     \/ /\ ~(leases = {} /\ state = "Running" /\ scheduling = "Running")
        /\ UNCHANGED vars
  /\ UNCHANGED <<granted, subtitles>>

\* A slip of Ready: work that was asked to suspend counts as suspended.
ReadyOnceAsked ==
  \/ closing
  \/ /\ subtitles # "running"
     /\ ~Active \/ scheduling # "Running"

\* ready(), the answer: shutdown() has taken the jobs from the shared state,
\* or neither job is at work.
Ready ==
  \/ closing
  \/ /\ subtitles # "running"
     /\ ~Active \/ scheduling = "Suspended"

\* ready(), the call: playback starts once it is told so.  A lease that
\* outlives the coordinator may be asked as well.
AskReady(l) ==
  /\ owner \in {"idle", "gone"}
  /\ l \in leases
  /\ Ready
  /\ granted' = granted \cup {l}
  /\ UNCHANGED <<vars, leases, subtitles>>

\* A slip of ReleaseLease: whichever lease goes resumes the separation.
ReleaseLeaseResuming(l) ==
  /\ owner = "idle"
  /\ l \in leases
  /\ leases' = leases \ {l}
  /\ granted' = granted \ {l}
  /\ \/ Resume
     \/ /\ ~(state = "Running" /\ scheduling # "Running")
        /\ UNCHANGED vars
  /\ UNCHANGED subtitles

\* InteractivePlaybackLease::reset(): the last lease resumes the separation.
ReleaseLease(l) ==
  /\ owner = "idle"
  /\ l \in leases
  /\ leases' = leases \ {l}
  /\ granted' = granted \ {l}
  /\ \/ leases' = {} /\ Resume
     \/ /\ ~(leases' = {} /\ state = "Running" /\ scheduling # "Running")
        /\ UNCHANGED vars
  /\ UNCHANGED subtitles

\* A lease that outlives the coordinator only counts down.
ReleaseOrphan(l) ==
  /\ owner = "gone"
  /\ l \in leases
  /\ leases' = leases \ {l}
  /\ granted' = granted \ {l}
  /\ UNCHANGED <<vars, subtitles>>

-----------------------------------------------------------------------------
(* Requests *)

\* A slip of NoConflict: the transcript job is forgotten.
NoConflictOfItsOwn == ~Active /\ completion = "None"

\* startConflict(): no job is at work and every completion was collected,
\* which the call does first and here is a step of the owner before it.
NoConflict == subtitles = "idle" /\ ~Active /\ completion = "None"

\* A slip of RequestSubtitles: the leases are not asked.
RequestSubtitlesAnyway ==
  /\ owner = "idle"
  /\ NoConflict
  /\ subtitles' = "running"
  /\ UNCHANGED <<vars, leases, granted>>

\* requestSubtitles(): refused while a lease is held.
RequestSubtitles ==
  /\ owner = "idle"
  /\ NoConflict
  /\ leases = {}
  /\ subtitles' = "running"
  /\ UNCHANGED <<vars, leases, granted>>

EndSubtitles ==
  /\ subtitles = "running"
  /\ subtitles' = "ended"
  /\ UNCHANGED <<vars, leases, granted>>

\* collectReadyCompletions(), for the transcript job.
CollectSubtitles ==
  /\ owner = "idle"
  /\ subtitles = "ended"
  /\ subtitles' = "idle"
  /\ UNCHANGED <<vars, leases, granted>>

\* A slip of InitiallyPaused: a new run does not care about the leases.
InitiallyRunning == FALSE

\* What requestAudioSeparation() read before it calls tryStart().
InitiallyPaused == leases # {}

\* requestAudioSeparation(), up to the job's own tryStart().
RequestSeparation ==
  /\ NoConflict
  /\ JoinFinishedWorker

StartSeparation ==
  \/ RefuseStart
  \/ StartWorker(InitiallyPaused)
  \/ StartFails(InitiallyPaused)

\* shutdown() waits for the transcript job before it comes to the separation.
Shutdown ==
  /\ subtitles # "running"
  /\ BeginDestruction

\* The steps of SeparationJob that are not the coordinator's to choose.
JobStep ==
  \/ RequestSeparation
  \/ StartSeparation
  \/ RequestCancel
  \/ InterruptActiveOperation
  \/ NotifyAll
  \/ Notify
  \/ ConsumeChanged
  \/ TakeCompletion
  \/ Shutdown
  \/ TakeHandle
  \/ Join
  \/ WorkerStep
  \/ Wake
  \/ EndOperation
  \/ ReportProgress

LeaseNext ==
  \/ \E l \in Leases : \/ AcquireLease(l)
                       \/ AskReady(l)
                       \/ ReleaseLease(l)
                       \/ ReleaseOrphan(l)
  \/ RequestSubtitles
  \/ EndSubtitles
  \/ CollectSubtitles
  \/ JobStep /\ UNCHANGED foreground

\* The fairness of the separation job: a lease may be held for ever, and a
\* transcript may take its time.
LeaseSpec == LeaseInit /\ [][LeaseNext]_allVars /\ Fairness

-----------------------------------------------------------------------------
(* Properties *)

\* Every variable keeps to its values; only held leases are granted.
LeaseTypeOK ==
  /\ TypeOK
  /\ leases \subseteq Leases
  /\ granted \subseteq leases
  /\ subtitles \in {"idle", "running", "ended"}

\* From the moment ready() lets playback start until its lease is released,
\* no background work touches the GPU or keeps a model in its memory, however
\* other leases come and go and whatever is requested meanwhile.
PlaybackOwnsTheGpu ==
  granted # {} =>
    /\ worker # "operate"
    /\ held = "nothing"
    /\ subtitles # "running"

\* Between two calls, a separation under way is paused just while there is a
\* lease, whether it was started before the lease or under it.
PauseFollowsLeases ==
  owner = "idle" /\ state = "Running" =>
    (scheduling # "Running" <=> leases # {})

\* The two jobs that use the GPU never run together, whatever was requested.
OneJobAtATime == ~(subtitles = "running" /\ Active)

\* A held lease makes a separation under way end or park with nothing held.
LeaseQuietsTheGpu ==
  leases # {} /\ Active ~>
    \/ leases = {}
    \/ ~Active
    \/ worker = "parked" /\ held = "nothing"

\* When the last lease is gone the separation goes on, unless another comes.
ReleaseResumes ==
  leases = {} /\ worker = "parked" ~> worker # "parked" \/ leases # {}

\* A lease that finds the worker anywhere but still parked from the lease before
\* becomes ready, if it is not given back.
FirstPauseIsReady ==
  leases # {} /\ Active /\ worker # "parked" ~> Ready \/ leases = {}

\* A pause takes effect on the worker, and so does its end: under a lease the
\* separation parks with nothing held, and ready() says so unless the worker was
\* still parked from the lease before (see LeaseBecomesReady); after the last
\* lease it goes on.
PausesTakeEffect == LeaseQuietsTheGpu /\ FirstPauseIsReady /\ ReleaseResumes

\* What tools/media_processing_coordinator_tests.cpp:672 asks of a lease: it
\* becomes ready after the background work has suspended.
LeaseBecomesReady == leases # {} /\ Active ~> Ready \/ leases = {}
=============================================================================
