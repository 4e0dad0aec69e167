# Verification of Radioify

Radioify plays audio and video in a Windows terminal, and separates, transcribes,
splits and exports media in the background. This directory holds TLA+ models of the
parts of it whose correctness depends on the order in which threads do things, TLC
configurations that check them on small instances, and proofs that hold for every
value of their constants. `PROJECT.json` lists the components, the runs, the
definition-to-source map, the findings, the hazards and the theorems.

1. [The system](#1-the-system)
2. [The modules and the code](#2-the-modules-and-the-code)
3. [What the runs check](#3-what-the-runs-check)
4. [What is proved](#4-what-is-proved)
5. [What disagrees with the code's own words](#5-what-disagrees-with-the-codes-own-words)
6. [What is not modelled](#6-what-is-not-modelled)
7. [Plan](#7-plan)

To run a check: `tlc -config SeekPipeline.cfg SeekPipeline.tla`; to check a proof:
`tlapm SeekPipelineProofs.tla`.

## 1. The system

The application is a C++ program with one *owner thread* (the terminal loop: keys,
lists, playback session) and a number of threads that belong to single objects. Paths
are relative to the repository's root.

### Background work

| component | state it keeps | operations | what makes it correct |
|---|---|---|---|
| **LatestRequestWorker** (`core/latest_request_worker.h`), for browser metadata, browser contents and subtitle files | newest generation, one queued request, one completion, a wait handle, stop flag; one thread | submit, cancel, poll, destroy | what is polled is the newest request's result, at most once; the wait handle is up just while there is one; no request is forgotten |
| **GenerationJob** (`playback/video/transcript/generation_job.cpp`) | job state, cancel flag, completion, thread handle | tryStart, requestCancel, consumeChanged, takeCompletion, cancelAndJoin; the operation's progress and commit barrier | an accepted cancel excludes publication; the outcome agrees with the disk; a completion reaches the owner |
| **audio_separation::Job** (`audio/separation/job.cpp`, with `separator.cpp`, `compiled_model_cache.cpp`, `mask_model.cpp`) | the same, plus a scheduling state, a suspension flag, a condition variable and the interrupt of the GPU operation at work | the same, plus setPaused; the worker's checkpoints | additionally: suspended means nothing of the GPU is held; no interrupt and no wake-up is lost; a model that was yielded is reacquired before use |
| **WorkerTask** (inside `app/media_processing_coordinator.cpp`), for melody analysis, loop split, exports and provider setup | activity, flags, completion, thread handle, a contract (must publish or has nothing to publish) | tryStart, requestCancel, takeCompletion, cancelAndJoin | as GenerationJob, although the end of a run is three steps instead of one |
| **Interactive playback leases** (same file) | a count of leases, a pointer to the two GPU jobs | acquire, ready, release | playback gets the GPU only when nobody uses it, and background work goes on afterwards |
| **Coordinator** (same file) | the task id of each worker, the provider binding, queued completions, a wake event | tryStart…, cancelActive, poll, collectReadyCompletions, shutdown | one task at a time; an id means the same task for ever; every end is delivered |

The coordinator is driven by the owner thread alone, but looks at its workers one after
the other, each under that worker's own mutex, so a worker may end between two looks.
Workers call back only by signalling the wake event.

### Video playback

| component | state it keeps | operations | what makes it correct |
|---|---|---|---|
| **Player** (`playback/video/player.cpp`, 5000 lines) | queues, flags, the threads' handles | owner: seek, pause, step, close; threads: control, demux, video decode, audio decode, video output | a frame shown under a serial number is of that serial's place; seeks and closes get through whatever the threads wait for |
| **Serial controller** (`playback/video/control/serial.cpp`) | current serial, pending seek, seek in flight, pending presentation, presented position | beginTransition, claimPendingSeek, applySeekResult, notePresentedPosition | an overtaken seek's result does not count |
| **PacketQueue, FrameQueue** (`core/queues.cpp`) | bounded queues, a frame pool, an abort flag, the frame queue's serial | push, pop, acquire, release, flush, abort | bounds hold; no frame is lost; nobody waits for ever |
| **Player state machine** (`playback/video/state/machine.cpp`) | opening, seeking, playing, paused, ended, failed | one function of events and facts | what is reported agrees with what the threads do |
| **Frame steps** (`playback/video/frame_*.cpp`) | a cursor, a prefetching thread, a cache of sources | step forward, step backward | a step shows the neighbour of the frame shown |
| **Clocks** (`playback/video/timing/`) | audio-led or wall clock with a serial | update, reset, query | arithmetic; a stale serial is ignored |
| **Timeline preview** (`playback/video/timeline_preview*.cpp`) | newest request, cache, one thread | request, poll | the preview shown is of the place asked for |

A seek crosses five threads: the owner posts an event, the control thread begins a
*serial transition* (new serial, flags, flushes), the demuxer claims it, seeks the file,
flushes again and posts the result, the decoder meets a flush mark and adopts the serial,
and the output reads the serial, peeks, pops and notes the position. Control thread,
demuxer and decoder each flush the frame queue on their own account.

### Audio playback

| component | state it keeps | operations | what makes it correct |
|---|---|---|---|
| **Queued audio source** (`audio/queued_audio_source.cpp`) | two rings, a decoder thread, a filter thread, reset generations | start, stop, write, request and wait for a reset | a reset is applied once, between fade-out and fade-in |
| **Pipeline transition** (`audio/pipeline_transition.cpp`) | phase, request serial, commit serial, gain; all atomics | request, begin fade-out, begin and finish commit | a request during a commit is not lost |
| **Rings** (`audio/spsc_audio_ring.cpp`, `spsc_audio_timeline.cpp`) | read and write position | write, read, discard | never more frames than the capacity, no frame read while it is written |
| **Playback runtime** (`audio/audioplayback.cpp`, `audition_worker.cpp`) | device, decoder, loaded file, audition thread | load, seek, pause, audition | one source feeds the device at a time |
| **Signal processing** (`audio/audiofilter/`, `audio/radio_*.cpp`) | filter memories | process a block | numeric |

### Sessions, shell and files

| component | state it keeps | operations | what makes it correct |
|---|---|---|---|
| **Shell** (`tui/media_command_workflow.cpp`, `tui/media_coordinator.cpp`) | the command that waits or is negotiated, a queue of media | open, next, stop, quit, poll | a command that waits runs, once; a quit goes before it |
| **Playback session** (`playback/session/`: exit coordinator, shutdown sequence, loop, commands) | a pending exit, the participants of a stop | request, confirm, hand off, stop | a late answer to a hand-off is ignored; no edit is lost without a confirmation; all participants stop |
| **Playback activation** (`app/playback_activation_controller.cpp`, `video_session_host.cpp`, `playback_control_router.cpp`) | a video activation as a transaction, the audio it displaced, a playback lease, the owner of the system's controls | begin, commit, roll back, restore the audio | the lease covers exactly the playback |
| **Playback window** (`playback/session/presentation_controller.cpp`, `playback/framebuffer/`) | desired and applied presentation; a presenter with a thread and a dispatch queue | toggle, synchronize, invoke, stop | the window comes to be what was chosen last; no call waits for ever |
| **Video editor** (`playback/session/video_edit_workspace.cpp`, `playback/video/edit/`) | a document with its history, two marks, an export, a review, a projection on its way to the player | mark, remove, keep, smooth, undo, redo, discard, export | decisions are never lost or mixed up, what is removed is what the handles enclose, the player shows the document |
| **Scene analysis and edit review** (`playback/video/analysis/`) | job state, a thread that is polled for its end, a helper process, stored progress | start, cancel, stop, takeCompletion, load and store progress | a review that was paused goes on where it stopped; an end is noticed after the thread exited |
| **Cross-thread primitives** (`core/thread_dispatch_queue.cpp`, `wakeable_mailbox.h`, `taskgate.cpp`, `waitable_signal.cpp`) | a queue or tokens, and a signal | invoke, publish, drain, begin and end | every call is answered, no message without a wake-up |
| **File output** (`core/file_output.cpp`) | temporary siblings, backups | stage, publish, roll back | all outputs of a group or none |
| **Downloads and compiled models** (`core/model_download.cpp`, `audio/separation/compiled_model_*.cpp`) | files, manifests, a lock between processes | download, verify, compile, publish | a model that is used is whole |
| **User interface, rendering** (`tui/`, `ui/`, `playback/overlay/`, and `ascii/`, `framebuffer/`, `gpu/`, `subtitle/` under `playback/video/`) | lists, screens, textures | keys, drawing | no protocol between threads of its own |
| **Platform shell** (`app/application.cpp`, `core/windows_*`) | windows, icons, handles | messages | platform I/O |

### Where it is hard

* **Flags beside a mutex.** Cancel and suspension flags are atomics tested by work that
  holds no lock; the state they belong to changes under one. Every test can be overtaken.
* **Three-step sections.** Signals, `notify_all` and interrupts come after the unlock.
* **Threads as members.** A handle has to be joined before it is assigned again.
* **Serials instead of stopping.** Threads of the player are not stopped for a seek; each
  finds out by itself that its serial is old, with frames and packets still in its hands.
* **Two blocking queues in a row**, with an output that takes nothing while paused.
* **Looks at several workers one by one**, and answers made of these looks.
* **Leases counted across a pausable job**, a job that cannot be paused, and objects that
  are replaced under them.
* **Notifications without the mutex**, and condition variables that are shared by a
  callback which must not block.
* **Answers that come later** than the question: a hand-off decision, an export, a
  projection, while the user goes on.
* **Several files that have to change together**, on a file system that may refuse.

Each such place, with its line and the properties that watch it, is a hazard in
`PROJECT.json`.

## 2. The modules and the code

| module | what it is | the code it stands for |
|---|---|---|
| `JobLifecycle` | abstract: what any background job promises its owner | – |
| `LatestRequestWorker` | the worker and its owner | `core/latest_request_worker.h` |
| `GenerationJob` | the transcript job and its owner | `playback/video/transcript/generation_job.{h,cpp}` |
| `SeparationJob` | the pausable separation, its operation and its owner | `audio/separation/job.cpp`, the control flow of `separator.cpp`, `compiled_model_cache.cpp`, `mask_model.cpp`, `inference_session.cpp`, `execution_control.h` |
| `WorkerTask` | the coordinator's worker thread | `app/media_processing_coordinator.cpp:90-320` |
| `InteractivePlayback` | EXTENDS `SeparationJob`: leases, the paused job, the held-back transcripts | the lease parts of `media_processing_coordinator.cpp` |
| `MediaCoordinator` | the coordinator over three workers, each an instance of `JobLifecycle` | the rest of `media_processing_coordinator.cpp` |
| `VideoEditJobs` | the editor's review and export jobs, on the pumpable worker thread, and the session that polls them | `playback/video/analysis/scene_analysis_job.cpp`, `playback/video/edit/export.cpp`, `core/pumpable_worker_thread.cpp`, the poll of `playback/session/video_edit_workspace.cpp`, `playback/session/shutdown_sequence.cpp` |
| `WindowPresentation` | the session, its presenter's thread and the dispatch queue between them | `playback/session/presentation_controller.cpp`, `playback/framebuffer/window_presenter.cpp`, `presenter.cpp`, `core/thread_dispatch_queue.cpp` |
| `SeekPipeline` | a seek and a close across five threads of the video player | `playback/video/player.cpp`, `control/serial.cpp`, `core/queues.cpp` |
| `QueuedAudio` | a seek through source, filter thread and device callback | `audio/queued_audio_source.cpp`, `pipeline_transition.cpp`, `output_callback.cpp`, `spsc_audio_ring.cpp`, `audioplayback.cpp` |
| `PlaybackHandoff` | how the shell changes what is played, and how a session is left | `tui/media_command_workflow.cpp`, `tui/media_coordinator.cpp`, `app/playback_activation_controller.cpp`, `video_session_host.cpp`, `playback_control_router.cpp`, `playback/session/exit_coordinator.cpp`, `session.cpp`, `loop.cpp` |
| `EditDecisions` | abstract: what the editor promises of the user's decisions | – |
| `EditWorkspace` | the editor's document, marks, commands, exports and preview | `playback/session/video_edit_workspace.cpp`, `playback/video/edit/timeline.cpp`, `sequence.cpp`, `composition/render_plan.cpp`, parts of `player.cpp` |
| `FileOutputGroup` | the transaction that publishes a group of files | `core/file_output.cpp` |
| `MCWorkers`, `MCMediaCoordinator`, `MCPlayback`, `MCEditing`, `MCQueuedAudio`, `MCEditWorkspace` | the instances TLC checks; `MCWorkers` takes the worker task, and `MCEditing` the editor, from their modules of proofs, so that their theorems are at hand for the instances | – |
| `…Proofs` | EXTENDS its component and TLAPS; `MCWorkersProofs`, `MCPlaybackProofs` and `MCEditingProofs` extend the composition of several components and prove what each contributes | – |

How they compose:

```
                              JobLifecycle
      ┌──────────────┬─────────────┼──────────────┐      refined by (KeepsLifecycle)
GenerationJob   WorkerTask   VideoEditJobs   SeparationJob
      └──────┬───────┴────────────────────┬──────┘ │
             │ used as                    │        │ EXTENDS
       MediaCoordinator ──────────────────┘  InteractivePlayback

EditDecisions  ◄── refined by (KeepsDecisions) ──  EditWorkspace
```

`MediaCoordinator` does not look into a worker: it takes one step of `JobLifecycle` where
the code calls it, and the refinements justify that. `InteractivePlayback` takes the
opposite way, and has every step of `SeparationJob` as a step of its own, because a pause
is about the inside of that job. `PlaybackHandoff` knows of the lease only whether it is
ready, of an export only whether it runs and how it ended, and of the editor only the
revision; `InteractivePlayback`, `VideoEditJobs` and `EditWorkspace` have the inside.

### Conventions

* **One step per locked section.** A section under a mutex is one action; whatever the
  code does after the unlock (a signal, a `notify_all`, an interrupt, a join) is another,
  and so is every access to an atomic outside of a mutex.
* **Places.** A thread's program counter is a string variable (`worker`, `owner`,
  `demux`, …) whose values name the statement it is about to do. `"idle"` is the owner
  between two calls. An action's guard is its place and the code's condition.
* **Waits.** A condition variable is a guard. Where the loss of a notification is the
  question it is modelled: `notified` and spurious wake-ups in `SeparationJob`, the test
  and the sleep as two steps in `QueuedAudio`. In `SeekPipeline` the guard has only those
  terms that a notification follows.
* **Operations that are parameters** (generating, separating, transcoding) do whatever
  their signature allows: end early, ask for the barrier, publish, or report a success
  they never published.
* **Slips.** Beside some definitions stands a second one, commented *a slip of X*: X with
  one mistake in it. `PROJECT.json` lists under `mutants` which property fails when the
  slip takes X's place. No specification uses a slip.
* **Harnesses.** `MCWorkers`, `MCMediaCoordinator`, `MCPlayback` and `MCEditing` check
  several modules in one run. A variable (`which`, `side`, `end`) is chosen at the
  start, the module it names moves by its own `Next`, and the others rest in their
  initial state. The behaviours are those of the modules alone; nothing is composed by a
  harness.

### `LatestRequestWorker`

Generations are the numbers the owner counts up; 0 is an empty optional. `Submit` and
`Cancel` replace what is queued and what is done; `Notify` follows. The thread takes a
request (`TakeNextJob`), works, may give up at a cancellation it sees (`AbandonWork`),
tests its cancellation without the mutex (`TestCancellation`) and then publishes under
it (`Commit`), where the code tests once more.

### `GenerationJob`, `WorkerTask`, `SeparationJob`

The three share a shape: `JoinFinishedWorker`, `StartWorker` or `StartFails`,
`RequestCancel`, `ConsumeChanged` and `TakeCompletion`, `BeginDestruction` … `Join` for
the owner; working, the commit barrier (`BeginCommit`), `Publish`, `Finish` and
`NotifyFinish` for the thread. They differ where the code does:

* `WorkerTask` ends a run in three steps (barrier looked at under the lock, flag looked
  at without, completion stored under the lock), and its tasks have a contract: the
  provider setup has nothing to publish.
* `SeparationJob` has the checkpoints: every one tests the cancellation, then the pause,
  gives up what it holds *outside* the lock, and parks (`Check`, `Gate`, `Yield`,
  `Regate`, `Wake`). What follows a checkpoint is in `after`; what the worker holds of
  the GPU in `held` (a loaded model, the lock of the compilation, or nothing). A GPU
  operation registers its interrupt first (`RegisterInterrupt`), which looks at the pause
  and the cancellation once more; the owner's `InterruptActiveOperation` comes after its
  unlock.

`Lifecycle == INSTANCE JobLifecycle` maps each to the abstract job: its state to a phase,
its completion to the outcome, and the output on disk to `published`.

### `VideoEditJobs`

Two jobs share one wake event and one session. Their completion is handed out only when
the thread has *exited*, which is some time after it signalled its end (`NotifyEnd`, then
`Exit`): a session that consumed the signal in between finds nothing to take, and is
woken by the thread's handle, which `Activity` has among its wait handles. `RequestStop`
cancels both; `FinishStop` is polled until both threads are over.

### `WindowPresentation`

The controller compares `desired` with `applied` at every turn and takes one step towards
it, without blocking; only `Call` … `Answer` (an `invoke` on the window's thread) waits.
The window's thread opens its queue, opens the window, tells how that went, and loops
over pending calls, the test of its wake event and a wait, until it closes the queue.
A window may fail to open or to apply, at any turn, and so may a shutdown begin.

### `InteractivePlayback`

`leases` are the lease objects held and `granted` those whose `ready()` let playback
start. The first lease pauses the separation, the last one's release resumes it, a
separation requested under a lease starts paused, and a transcript is refused. The owner
is one thread, so the shared state's mutex is never contended, and what a call does up to
its first unlock is one step. A lease may outlive the coordinator (`ReleaseOrphan`).

### `MediaCoordinator`

A call is a loop over the workers; `call`, `at` and `again` say which call, which worker
and which of `startConflict()`'s two collections. Between any two looks a worker may
pass its barrier, publish, end, or raise the wake event (`End` and `Raise` are two steps).
The provider binding is refreshed when a finished setup is collected, which replaces the
separation job. `queued` and `delivered` are the ids of completions on their way to the
display.

### `SeekPipeline`

| thread | its steps |
|---|---|
| owner | `RequestSeek`, `RequestClose` |
| control | `TakeEvents`; for a seek `BeginTransition`, `Signal`, `ControlFlushesPackets`, `ControlFlushesFrames`, `Acknowledge`; `ApplySeekResult`; for a close `StopSignals`, `AbortPackets`, `AbortFrames`, `Join` |
| demuxer | `Claim`, `Uncancel`, `SeekFile`, `DemuxFlushesPackets`, `DemuxFlushesFrames`, `PostApplied`; `CheckPending`, `ClearCommand`; `Read`, `PushPacket`, `PushEof` |
| decoder | `TakePacket`, `TakeFlush`, `SendPacket`, `AdoptSerial`, `FlushAdopted`, `ReceiveFrame`, `AcquireFrame`, `DropDecoded`, `PushFrame` |
| output | `ReadSerial`, `PeekFrame`, `PopFrame`, `ReleaseFrame`, `NotePosition`, `CompletePresentation` |

A packet and a frame carry the serial they were read under and, as `source`, the serial
of the seek that had put the file where it was read: content is known by its place.
`SeekFile` may fail, also because `commandPending` interrupted it; the file is then taken
to be where it was, wherever the demuxer may have left it. Whether a frame is
shown, dropped or kept is a free choice, because the clocks are left out.

### `QueuedAudio`

A seek is a transition: *steady*, *fade-out*, *commit ready*, *committing*. The owner
requests it, the callback fades out, the source (for a stream the filter thread) begins
the commit, the filter thread empties both rings and finishes it. Three kinds of source
share the pipeline: a decoder thread that ends with its file, the M4A worker that stays,
and a stream that the video player's audio thread writes. A frame is known by the seek
after which it was decoded (`epoch`) and its place. Every access to an atomic a race could
turn on is a step: the compare of the serials and the swap of the phase are two, as are
the callback's load of the read position, its copy and its store.

### `PlaybackHandoff`

All of it runs on the shell's one thread, and what is hard is the length of its
sequences. The state is one record, `app`; a handler is an operator from a state to the
set of states it may leave, composed with `Then` in the order of the calls. The shell's
workflow is *idle*, *deferred* (a command that waits for the session's end, the lease or
the end of a prompt) or *negotiating* (a request of a session that has to be confirmed);
the session's exit coordinator has a phase and the id of its request. Edits, exports that
succeed or fail, prompts, dropped files, system controls, a stream that starts or fails
and a render that fails are inputs. A commit of a boundary inside a poll is an `Edit`.

### `EditWorkspace`

`document` is the list of kept ranges with the kinds of its cuts, `undo` and `redo` its
history, `inUs` and `outUs` the marks, in source time as in the code. `PresentationOf` and
`SourceAt` map between source and program. A command that changes the document posts a
projection (`Project`): new ranges as a sequence, new kinds of cuts as a composition, and
nothing when the player says it cannot render them (`CanBind`: a smooth cut needs so and
so many frames of the clips beside it). The control thread takes what was posted
(`Handle`), which has its own opinion of a composition. A unit of time is a frame of a
smooth cut's context; `MinBefore` < `MinAfter` < `MinBetween` are in the proportions of
`buildRenderPlan()`: one frame of context before, two behind, and overlaps that must not
meet.

`EditDecisions` sees of that a set of kept units with a set of smooth cuts, a line of
revisions with a place in it, and a set of exported revisions.

### `FileOutputGroup`

A group reserves a temporary for each file (`Reserve`), is written, and is published in
three loops: set aside what is there (`SetAside`), move in what is new (`Publish`), remove
the backups. Any call of the file system may fail, up to `MaxFaults` of them; another
program may create a file at any moment; and the process may die between any two calls
(the safety properties are invariants, so every state is a possible last one). Rollback
has its own two loops and its own failures.

## 3. What the runs check

States are the distinct states of a complete search.

| run | module and bounds | states | what it shows |
|---|---|---|---|
| `workers` | `MCWorkers`: 4 generations; the jobs without a bound; 3 transitions of the window | 34 007 | `CompletionIsFresh`: what waits for a poll is the newest request's and whole, and the wait handle is up just then. `DeliveryIsFreshAndOnce`. `KeepsLifecycle`: transcript, coordinator's task, review and export implement `JobLifecycle`. `OutcomeMatchesOutput`: a reported outcome agrees with the disk, and a window closed on demand is not taken for one that failed. `ThreadIsOwned`. `CompletionIsTaken`. `LastRequestSettles`: the newest request is answered, the window comes to be what was chosen last. `CallsAndStopsReturn`: an invoke returns also from a window that closes, and a stop ends |
| `media_coordinator` | `MCMediaCoordinator`: 4 kinds, 2 tasks; 2 leases | 171 286 | `EachTaskOnce`, `RequestsAreExclusive` (one task at a time, and a request that found no conflict is not refused), `CancelHitsItsTask`, `KeepsLifecycles` (it calls its workers only as they allow), `EndedIsDelivered`. `CallsTakeEffect`: a shutdown returns; under a lease a separation parks with nothing held, and the lease becomes ready if it did not find the worker still parked from the one before; after the last lease it goes on; its completion is taken and it can be destroyed |
| `seek_pipeline` | `SeekPipeline`, 2 seeks, file of 1 packet | 4.2 million | `ShownIsOfItsSeek`, `AppliedMeansPositioned`, `FramePoolIsWhole`: every interleaving of five threads with a second seek at any point of the first |
| `seek_settles` | `SeekPipeline`, 1 seek, a close at any moment, file of 4 packets, an output that takes no frame from the seek to the close | 855 545 | `SeekSettles`: a seek gets through to a demuxer blocked on a full queue, and a close, in the middle of a seek or without one, gets every thread out of whatever it waits for |
| `queued_audio` | `MCQueuedAudio`: 2 seeks of a file, 2 of a stream, 1 of an M4A file; rings of 1 | 694 975 | `ReaderIsHeldOff`: for a commit that stands, the rings are emptied only while no callback reads. `CommitIsOfItsStream`: a stream's commit that stands holds frames of its own serial alone. `ResetIsApplied`: a reset that the source of a file asks for is acted on although a notification may be lost |
| `playback` | `MCPlayback`: 2 sessions, 1 edited revision, 1 request and 1 drop per session; 2 leases | 622 953 | shell and sessions: `EditsAreKept`: no unexported edit is lost without a confirmation, but one made while the host decides on a hand-off (section 5) or under a picture that fails. `HandoffsAgree`: workflow and session agree on the request under negotiation. `LeaseCoversPlayback`. `QuitPreempts`. `RetainedCommandRuns`: a command that waits runs, unless its lease is not ready, for good or again and again. Leases: `PlaybackOwnsTheGpu`, `PauseFollowsLeases`, `SuspendedHoldsNothing`, `NoSignalIsLost`, `OperationHasItsResource`, `KeepsLifecycle` |
| `editing` | `MCEditing`: groups of 3 files, 2 failures; a source of 4 units | 380 107 | files: `OldIsKept`, `AllOrNothing`, `NothingIsLeft`, `ForeignIsKept`. Editor: `KeepsDecisions` (implements `EditDecisions`), `EditsWhatIsSelected`, `HandlesDoNotCross`, `PlayerFollows` |
| `lease_becomes_ready` | `InteractivePlayback`, 1 lease | – | *violated*, see section 5 |
| `settled_position` | `SeekPipeline`, 1 seek, file of 2 packets | – | *violated* |
| `seek_is_settled` | `MCQueuedAudio`, 1 seek of a file | – | *violated* |
| `edits_need_confirmation` | `PlaybackHandoff`, 1 session | – | *violated* |
| `edit_is_shown` | `MCEditWorkspace`, 4 revisions | – | *violated* |

Deadlock is not reported, because each of these systems may stop: a worker that was
destroyed, a coordinator that was shut down, a player whose file is over, a group that was
published, an editor at the bound of its history.

### Why the bounds are enough

* **Four generations**: one at work, one queued, one that replaces both, one after them.
  The proofs of section 4 have no bound.
* **No bound** on the jobs: their owner may start, pause, resume and cancel for ever; the
  state space is finite as it stands.
* **Three transitions** of the window: open it, leave it while it opens or closes, and
  ask for it again before the thread of the first is over.
* **Two leases**: one can outlive the other, and the release of one that is not the last
  differs from that of the last. The proof is for any number.
* **Two tasks** of any kinds: a stale id, a completion that meets the next request, any
  kind after any other, a redundant setup that makes the binding worse.
* **Two seeks**: a second seek may overtake the first at every place of every thread, also
  between its result and the handling of its result. With one packet per place, each
  place has content that can be told from the others'; queues of one frame and of one
  packet make a queue full as soon as there is anything in it.
* **Four packets** where waiting is the question: one in the codec, one in the decoder's
  hands or the frame queue, one in the packet queue, and one the demuxer is blocked on.
  Shorter files never fill both queues. `SeekSettles.cfg` has the action constraint
  `PausedWhileSeeking`: from the first seek to the close the output takes no frame, as a
  paused player's does not, so that the queues stay full. The close may come at every
  moment: before the request of a seek is handled, between any two of its steps, when it
  is settled, or without one, while the player plays. What is cut is a seek that finds the
  output in the middle of a presentation, and an output that goes on taking frames while
  the player seeks: it makes room for the others. The step of no other thread is cut, and
  after the close none at all. (Without the constraint there are 5,785,853
  states, too many for a check of liveness that is run every day.)
* **Rings of one frame** are full, empty and raced over as soon as there is a frame. Once
  only, because they are too large for every day: a stream with two frames in rings of two
  (1.0 million states), all kinds with two in two (2.2 million, invariants), all kinds
  with two seeks (2.2 million, liveness).
* **Two sessions**: one that ends while a command waits for it, and the next one, which
  the command or the queue started. With two requests for a session the search has
  932 414 states and finds nothing either.
* **Three files**: one in place, one under way, one to come; with every mix of
  *create new* and *replace*, present or absent. **Two failures**: one that starts a
  rollback and one inside it.
* **A source of four units** has room for two cuts, and for a clip that is long enough for
  a smooth cut before a trim and too short behind it. The four instances of `MCEditing`
  each have what one side of the editor needs: *marks* every position of the playhead and
  the handles, with frames of two units so that one can be cut in half; *exports* two
  exported revisions; *preview* histories of three with two suggestions; *ahead* a queue
  of two projections. Once only: marks with frames of one unit (146 090 states), and
  *preview* with a queue of two (319 719).

### Fairness

Liveness is stated under the fairness the scheduling gives, and no more.

* A thread that can take a step takes it at last (weak fairness of its steps), and a call
  that the owner has entered goes on. Nothing obliges the owner to start, cancel, seek,
  close or release anything.
* The operations of the jobs may run as long as they like. Weak fairness is assumed only
  of their end *after the cancel flag went up or the interrupt reached them*
  (`CancelledRunEnds`, `InterruptedOperationEnds`, `CancelledEnds`), as their checkpoints
  in the source justify; a separation's own steps between two GPU operations go on.
* The owner's loop polls on every turn, with commands of its own in between; a signal
  that stays up is consumed: strong fairness of `ConsumeChanged` and of a poll.
* A parked worker wakes when it was notified. It may also wake by accident, but nothing
  relies on that. In `QueuedAudio` a filter thread that missed a notification sleeps until
  the next one; the device's callback comes again, unless the device is paused.
* In `SeekPipeline` each of the four threads has weak fairness of its own.
* In `PlaybackHandoff` the shell's loop polls, and a session that was stopped closes; this
  is asked only while a command waits, which is all that `RetainedCommandRuns` needs. The
  user need not do anything, and nothing says that a lease becomes ready: it may not (see
  section 5), and a command that was deferred for the GPU then waits.

## 4. What is proved

The theorems hold for every value of the constants. They rest on the assumptions declared
in the modules and evaluated in every run: `GenerationAssumption` (the bound of the
generations is a positive number), `ContractsAssumption` (the contracts are the two there
are), `ConstantsAssumption` of `MediaCoordinator` (the kinds are among the four, the bound
of the tasks is a number), `ConstantsAssumption` of `SeekPipeline` (the number of seeks and
the length of the file are numbers, the depth of the codec and the limits of the queues
positive), `QueuedAudioAssumption` (the kinds are among the three, lengths
and capacities are positive), `FileOutputAssumption` (the number of files and of failures
is a number). The leases are any set, and `PlaybackHandoff` needs no assumption on its
constants. What the theorems of `EditWorkspaceProofs` ask of the constants,
`EditAssumption` (the length of the source and a frame are positive numbers, positions are
integers, the clips an analysis suggests lie in the source and are not empty), is a
hypothesis of each theorem; `MCEditingProofs!ConstantsAreAllowed` shows it for the four
instances that `MCEditing` makes.

| theorem | statement |
|---|---|
| `SeekPipelineProofs!ShownIsRight`, `PositionedWhenApplied`, `PoolIsWhole`, `NoSlotInTwoHands` | `ShownIsOfItsSeek`, `AppliedMeansPositioned`, `FramePoolIsWhole`, and no slot of the frame pool is in two places, for any number of seeks, length of the file, depth of the codec and limits of the queues |
| `MCWorkersProofs!FreshCompletion`, `DeliveryTheorem` | `CompletionIsFresh`, `DeliveryIsFreshAndOnce`, for any number of requests |
| `MCWorkersProofs!ReportsAreTrue`, `ThreadsAreOwned`, `Lifecycles` | `OutcomeMatchesOutput` and `ThreadIsOwned` of transcript, task, review, export and window together, and `KeepsLifecycle` of the four jobs |
| `MCWorkersProofs!TranscriptOutcome`, `TranscriptCancelHolds`, `TranscriptThreads`, `TranscriptRefinement` | of the transcript job: outcome and output agree; an accepted cancel excludes the barrier and publication; no handle is lost or overwritten; `JobLifecycle` is implemented |
| `MCPlaybackProofs!YieldedGpu`, `SignalsArrive`, `ModelIsAtHand`, `OutcomeIsTrue`, `CancelHolds`, `Refinement` | `SuspendedHoldsNothing`, `NoSignalIsLost`, `OperationHasItsResource`, and the refinement |
| `WorkerTaskProofs!OutcomeIsTrue`, `CancelHolds`, `CancelWasAsked`, `ThreadOwnership`, `Refinement` | the same for the worker task, for any set of contracts; *cancelled* is reported only to a user who asked |
| `MCPlaybackProofs!GpuIsGranted`, `PauseTheorem`, `MutualExclusion` | `PlaybackOwnsTheGpu`, `PauseFollowsLeases`, and separation and transcript never run together, for any set of leases |
| `MCPlaybackProofs!Handoff`, `LeaseTheorem`, `QuitIsLast`, `NothingIsLost` | `HandoffsAgree`, `LeaseCoversPlayback`, `QuitPreempts`, `EditsAreKept` (with its two exceptions, see section 3), for any number of sessions, requests, drops and edited states |
| `MediaCoordinatorProofs!Exclusion`, `CancelIsBound`, `Lifecycles`, `TaskIsOnce` | `RequestsAreExclusive`, `CancelHitsItsTask`, `KeepsLifecycles`, `EachTaskOnce`, for any number of tasks |
| `QueuedAudioProofs!EmptiesBehindTheReader`, `CommitIsFresh` | `ReaderIsHeldOff`, `CommitIsOfItsStream`, for any number of seeks, length and capacity |
| `MCEditingProofs!OldKept`, `PublishedWhole`, `NothingLeft`, `ForeignKept` | `OldIsKept`, `AllOrNothing`, `NothingIsLeft`, `ForeignIsKept`, for any number of files and failures |
| `EditWorkspaceProofs!HandlesStayApart`, `PlayerCatchesUp`, `SelectionTheorem` | of one workspace: the marks do not cross, `HandlesDoNotCross`; a player that has handled its queue plays the document unless the workspace withheld a projection, `PlayerFollows`; what is removed or kept is what the handles enclose, `EditsWhatIsSelected`; for any length of the source and of a frame, any positions, suggestions and bounds |
| `EditWorkspaceProofs!Refinement`, `DiscardsAreAsked` | `EditDecisions` is implemented, `KeepsDecisions`, and nothing comes between the question whether to discard and its answer; as generally |
| `MCEditingProofs!HandlesStayApart`, `PlayerCatchesUp`, `SelectionTheorem`, `Refinement` | the same four properties of the four workspaces that a run checks side by side |

Every module of proofs has a `TypeCorrect`, or proves its types as the first conjunct of
the invariant. Of the shell's record the proofs type the fields they use (`ShellTyped`,
`Held`) and leave the others free.

### The argument

Each module has an inductive invariant `IInv`, a conjunction of named parts. None of the
safety properties is inductive by itself: they speak of what the owner sees, and a step
keeps them only because of where the threads are.

* **SeekPipeline.** What makes a shown frame right is that no content outlives the flush
  that separates its serial from the next. `Of(source, serial)` says that a content read
  for a serial is where the newest seek up to that serial went; it holds of whatever is
  queued, in the codec, in a hand or on its way to the screen (`ContentInv`), and stays
  true because the seeks that found their place after `demuxSerial` are newer than it.
  `DemuxInv` and `AppliedInv` tie the demuxer's serial, the claimed one and the current
  one together: a result is believed only when it is of the newest serial, and then the
  demuxer stands there. `GenerationInv` and `BatchInv` say that the seeks yet to be
  handled are in order and ahead of the serial, so that each raises it by one. `PoolInv`
  counts: until an abort, the slots that are free, queued, being filled and popped are as
  many as there are slots, and together all of them, so no slot is in two hands.
* **LatestRequestWorker.** What waits is the newest, because the last test is under the
  mutex. That it is *newer than what was delivered* needs `JobsAreOrdered` (a queued
  request is the newest, a running one no newer) and `DeliveredIsOld` (nothing runs
  beside a waiting completion: the submit that queued it cleared the slot). That it is
  whole needs `AbandonedStaysCancelled`: work gives up only for a cancellation, and a
  generation that was overtaken is never the newest again.
* **The jobs.** `WorkerAgrees` ties the worker's place to the state under the mutex,
  `FlagAgrees` says the flag is up exactly in the states after an accepted cancel, and
  `OutputAgrees` that only a run behind the barrier has published. Barrier and cancel
  then exclude one another by the guard of each. `HandleAgrees` with `ThreadIsOwned` says
  a thread is the member's or a joining call's.
* **The editor's jobs and the window** (`EditsIInv`, `WindowIInv`). A job that is at work
  has neither completion nor an answer yet; a window is in the state its session chose
  unless it failed or an item of the dispatch queue is still on its way, and who waits for
  an item is told by the item.
* **SeparationJob** adds `HeldAgrees` (what the worker may hold at each checkpoint; behind
  a yield it is nothing), `SuspendedIsParked` (a run that says so is parked, or has not
  passed its first checkpoint), and `RequestInterrupts` and `ParkedIsWoken`, each with the
  owner's places between unlock and call as the second way in which it can hold: this is
  why the order of the unlocked look and the locked store does not matter.
* **Refinement.** With `IInv` every step is one of `JobLifecycle` or leaves its three
  variables alone: one case per action. The worker task's `Cancelled` run may also end as
  failed, when the cancellation came after the unlocked look, or as succeeded, when it
  had nothing to publish; that is what the constant `CancelledRunMayEnd` is for.
* **InteractivePlayback.** `IInv` is kept by every step of the job. `LInv` adds that a
  separation under way is paused or not as the leases say, with the owner's places inside
  `setPaused`, and that a granted lease finds the job suspended or over. With
  `SuspendedIsParked` and `HeldAgrees` follows that nothing is held; a start under a lease
  begins suspended, which is why the first checkpoint is in `SuspendedIsParked`.
* **PlaybackHandoff.** A handler is an operator from a state to the set of states it may
  leave, and a step composes several of them, so the proof goes by handler: each has a
  lemma of the form *from a sound state, every state it may leave is sound*. `Sound` is
  three things: where the session is tells what workflow and lease may be (`Placed`); a
  workflow that negotiates and a session that was asked from outside know the same request
  (`RequestIsKnown`); and an event waits exactly while the session waits for the shell's
  decision (`EventsTell`). In the middle of draining the third is false, which is what
  `Asked` and `CalledOff` are for. `Onward` and `QuitFirst` ride along: nothing undoes a
  stop or a quit. For the edits, `Keeps` says that a handler leaves them alone and turns
  no safe state into an unsafe one, where `Safe` is that there is nothing unexported or
  the session goes on and did not ask to hand over, and `Begins` that a handler starts a
  document afresh. Only a step that was safe to take can then lose a session's edits.
* **MediaCoordinator.** `OwnedInv` says who has a task's id while it is on its way,
  `OneInv` that one worker at most is busy or has a completion, `CollectInv` and `SeenInv`
  what a loop over the workers has already found out and can still rely on (a worker that
  was seen idle stays so, because only the owner starts one), `OperationInv` what an
  operation may do beside a cancellation. `IdInv` then says that an id is in one place.
* **QueuedAudio.** `HeldOff`: while a commit is under way the callback is outside of its
  read, by the phase it tested. `ResetHolds` and `CopyHolds`: what the filter thread has
  in its hands over a reset. `Fresh`: behind the commit of a stream nothing old is in
  either ring or in a hand.
* **FileOutputGroup.** `PlaceInv` ties the thread's place to the loop it is in, `BeforeInv`
  and `FlagInv` the flags of a file to what is on the disk, `PublishInv`, `KeptInv`,
  `RollbackInv` and `CleanInv` say of the files before and behind the loop's index what
  publication, rollback and discard have made of them.
* **EditWorkspace.** Sums and folds are recursive functions; what they are for every
  input is shown by `Induction` over a set of numbers, which the library's theorem on
  well-founded relations gives without an operator as parameter. From it come the facts
  about programs: `PresentationOf` grows, advances with the source inside of a clip and
  stands still between two (`PresentationGrows`, `WithinClip`, `BetweenClips`), and
  `SourceAt` finds the place again (`SourceIsFound`). So every way to put a mark leaves
  the two `Apart`, and edits that move ranges take the marks away (`HandlesDoNotCross`).
  * A document is *kept ranges in order* with a gap between any two (`Kept`, `Parted`), as
    `replaceRanges()` leaves them (`MergedIsKept`), and nothing but its units and smooth
    cuts tells it from another (`SameUnits`, `RevisionsDiffer`). A removal subtracts
    units and a trim intersects them (`WithoutIsKept`, `TrimmedIsKept`). As the
    presentation counts units, what is left of the program is the content before and
    behind the handles, or between them (`RemovedContent`, `TrimmedContent`).
  * `PreviewInv` is why the player catches up: unless something was refused, the document
    is the last that was projected, and each projection in the queue is taken or comes
    before a sequence. Appending, coalescing and handling keep that.
  * `Refinement` maps the two stacks and the document to one line: an undo moves the end
    of one stack to the other and leaves the line as it is (`LineMoves`), a commit cuts
    it off (`SaidNext`). What a commit puts there is one of `EditDecisions`' next
    revisions, because clips that are parted have their cuts exactly where a kept unit is
    followed by a gap (`CutsAre`), so that matching both ends of a cut, as the code does,
    is the intersection with the cuts there are (`ReplacedSays`). `DiscardInv` says that no
    command gets between the question and the answer.
  * In `MCEditing` the four instances differ in their bounds only, and none of this
    depends on them: each instance's step is a step of the one whose formula the property
    is (`MarksDecisions`, `ExportsDecisions`, `PreviewDecisions`).

### What is only model-checked

All liveness: it rests on fairness, which is out of the prover's reach
(`CompletionIsTaken`, `LastRequestSettles`, `CallsAndStopsReturn`, `EndedIsDelivered`,
`CallsTakeEffect`, `SeekSettles`, `ResetIsApplied`, `RetainedCommandRuns`). Every safety
property of the passing runs is stated by a theorem.

## 5. What disagrees with the code's own words

* **A lease that is never ready** (`lease_becomes_ready`). `waitUntilRunnable()`
  (`audio/separation/job.cpp:61`) says *suspended* once, before it waits. If playback ends
  and the next one begins before the parked worker has woken, the state is *suspending*
  again, the worker's predicate is still false and nobody sets it to *suspended*:
  `ready()` refuses for as long as the lease is held, although the worker holds nothing.
  `tools/media_processing_coordinator_tests.cpp:672` expects a lease to become ready
  after background work has suspended. A command that the shell deferred for the GPU holds
  its lease meanwhile and does not run until it or the separation is cancelled; hence
  `RetainedCommandRuns` allows a command to wait under a lease that is not ready, and for
  nothing else.
* **A position of the wrong seek** (`settled_position`). The output peeks at the front
  frame (`player.cpp:4489`), pops under a second lock (4624) and presents the popped frame
  with the time of the peeked one (4627). A flush and a push in between make them two
  frames. The popped one has the new serial, so the position is accepted, and the player
  counts as settled for the editor, whose comment at `playback/session/loop.cpp:606`
  promises never to take a frame of the wrong seek. The next presented frame corrects it.
  The assertions at `player.cpp:2296` fail the same way.
* **A seek that nobody carries out** (`seek_is_settled`). The decoder thread of a file
  leaves its loop at the end of the file (`audio/queued_audio_source.cpp:841`) while the
  rings still play. A seek asked for then fades the output out, and nobody begins the
  commit. The manual lists seeking without a condition.
* **An edit that is lost while its exit is decided** (`edits_need_confirmation`). Whether
  there is anything to confirm is asked when the exit begins; an edit made while the shell
  has yet to answer the request is not asked about (`playback/session/loop.cpp:620`,
  against `playback/video/edit/command.h:46`).
* **An edit that is not played** (`edit_is_shown`). A trim keeps a smooth cut whose ends
  stay, also beside a clip that became too short for it; its projection is refused, and
  the user is told. Making the cut hard again is projected as a composition alone, which
  the player accepts and its control thread rejects without a word, because it still has
  the clips from before the trim (`player.cpp:2889`). `README.md:362` promises committed
  edits as the program playback at once.

Smaller remarks, found while modelling and without a run:

* *Video player.* The comment at `player.cpp:3507` (*should not happen … unless aborted*)
  leaves out the cancellation, at which `pushPacket` gives up too. The branch at 3338 that
  follows a foreign serial is never taken, because every change of the serial leaves a
  seek pending, which is claimed before. A seek between the end of initialisation (3180)
  and the output's first look at the serial leaves the frame cursor at serial 1, and the
  next note of a frame runs into its assertion. A stale store of `decodeEnded` (3719)
  behind the demuxer's (3390) may report *ended* at the start of a seek. A claim of a frame
  step with an old serial clears the steps of the new one. `sliceAudio` returns the first
  clip's part only of an audio block that spans a cut with a gap shorter than the block.
* *Audio, streams.* A reset of a stream may be given up. The callback swaps the phase to
  *commit ready* and stores the serial of the commit after
  (`audio/pipeline_transition.cpp:65-71`). A filter thread that looks in between begins
  the commit, takes it for superseded and returns with the phase at *committing*
  (`audio/queued_audio_source.cpp:139-151`). Nothing leads out of that: the video is
  silent until the next seek, although `docs/radio1938-realism-audit.md:824` says that a
  seek resets both rings. Tried once, with the property that a stream's reset is applied or
  playback is paused: a single reset violates it. With the two stores made one step a
  single reset is applied in every behaviour; of two, the second may still be lost: it
  makes the phase *commit ready* between the two swaps of `FinishCommit`, which takes it
  for its own. No run asks this every day: `ResetIsApplied` is about files, and
  `CommitIsOfItsStream` about commits that stand.
* *Audio, files.* For file sources a commit can hold old frames: the callback stores
  `commitSerial` behind the swap of the phase (`pipeline_transition.cpp:66-71`); hence
  `CommitIsOfItsStream` is about streams. The second swap of `FinishCommit` may drop a
  newer request of a file, too, a reset's store of `pendingSeekFrames` (83-84) a newer
  target, and `seekRequested.store(false)` (`audioplayback.cpp:62`) a newer seek. The end
  of a file may be published over a last chunk that came between two looks
  (`queued_audio_source.cpp:261`, 267). The assertion at 567 can fail.
* *Editor.* An In at the very end leaves a selection that no Out can give a length.
  `README.md:347` says that T keeps the unmarked side; the code, and its tests, want both
  marks. A smooth cut kept beside a clip that is too short makes an export fail, too.
* *Sessions.* *Stop* from the system's controls retires the control session although the
  video may only ask for a confirmation (`app/playback_control_router.cpp:34`). The
  *cancel* of the view that opens a video is refused by the router (29), so that
  `playback/session/session.cpp:519` is never reached. A quit while a session with
  unexported edits is being stopped becomes a confirmation and is forgotten. A video
  without sound leaves file audio playing without controls when it ends.
* *Window.* A window toggled back on while it closes is opened anew, but not at the place
  that was captured (`presentation_controller.cpp:148-156`). The branch at
  `window_presenter.cpp:154-158` is never needed.
* *Files.* A rollback puts a backup back over whatever is there, so a foreign file created
  between `Unpublish` and `PutBack` is lost. A process that dies in the middle of a
  publication leaves backups that nobody recovers.

## 6. What is not modelled

* **Inside the modelled components.** Texts, progress values, diagnostics and logs.
  Of the coordinator `latestCompletion`, `PollResult::changed` and the workers' changed
  flags, which only the display reads (`tui/ui/media_task_controller.cpp`). Of the player:
  opening, sound, frame steps, resizing, errors of a read that is repeated, the state
  machine with `decodeEnded` and `demuxEnded`, what stays on the screen between two
  presentations, and the clocks. The three stores of `requestClose()` are one step. A
  transcript inside `InteractivePlayback` is running or not; its inside is
  `GenerationJob`. Of the audio pipeline: start and stop, the radio filter's change, the
  drain, the clock and the samples. Of the session: keys, overlays, commands queued during
  a dispatch. Of the editor: the panel of the review and its prompt, the frame an Out is
  drawn on, which cut a click selects (any may be), a document opened for another
  duration, and the mapping of frames and audio blocks. Of the window: frames, focus,
  placement and the fullscreen variants. Of the files: the POSIX branch of `movePath()`,
  a check and a rename that another program may come between.
* **The player's state machine and frame steps.** The state is written by three threads
  through facts of all of them (`decodeEnded`, `demuxEnded`, the first frame, the clocks),
  so that it cannot be told without most of `player.cpp`; over `SeekPipeline`, which has
  4.2 million states without it, it is out of TLC's reach.
* **Memory order.** Atomics are sequentially consistent in the models, also those the
  code reads or writes relaxed. The latter are single flags whose late arrival is already
  among the interleavings, because every test and every store is a step of its own.
* **Whole components.** Signal processing, decoding, analysis and rendering compute
  numbers or pixels and have no states a property could tell apart. Windows, icons, file
  associations, shaders and drivers are platform I/O; menus and lists are one thread over
  the services above; downloads and the compiled model cache are I/O around a file lock.
  Together they are much the greater part of the source, which is why the share of lines
  that the definitions stand for is small: what is modelled is the part whose correctness
  depends on order.

## 7. Plan

Done: the workers and jobs with their life cycle, the coordinator and its leases, the
seek path of the player, the audio pipeline's seek, the editor's jobs and document, the
window, the hand-off between shell and session, and groups of files; proofs of the safety
of all of them, and of their refinements.

Next, the most important first:

1. **The player's state machine** over an abstraction of the seek's path that
   `SeekPipeline` is shown to implement.
2. **Frame steps** over that: the cursor, the prefetching thread and their own seeks.
3. **Start and stop of an audio pipeline**, with the audition worker that may end itself.
4. **The compiled model cache** of two processes, with a crash between files and manifest.
