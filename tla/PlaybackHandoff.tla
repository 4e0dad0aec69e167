--------------------------- MODULE PlaybackHandoff ---------------------------
(***************************************************************************)
(* How the shell changes what is played: the command workflow              *)
(* (src/tui/media_command_workflow.cpp) and its coordinator                *)
(* (src/tui/media_coordinator.cpp), the activation controller, the control *)
(* router and the session host (src/app/), and in a video session the exit *)
(* coordinator and the loop that asks it (src/playback/session/).          *)
(*                                                                         *)
(* All of it runs on the shell's thread: an action is a whole input, poll  *)
(* or call, and what is hard is their long sequences.  A handler is an     *)
(* operator from the state to the set of the states it may leave, composed *)
(* with Then in the order of the code's calls.                             *)
(***************************************************************************)
EXTENDS Naturals, Sequences, FiniteSets, SequencesExt

CONSTANTS
  Revisions,     \* the edited states a document can be in; 0 is the unedited one
  MaxSessions,   \* bound: video sessions started
  MaxRequests,   \* bound: handoff requests of a session
  MaxDrops       \* bound: file drops of a session

VARIABLE app     \* the shell and the video session it has

vars == app

-----------------------------------------------------------------------------
(* State *)

Handoffs == {"transport", "openFiles", "external"}
Idle == [state |-> "Idle"]
Deferred(command) == [state |-> "Deferred", command |-> command]
Negotiating(command, id) ==
  [state |-> "Negotiating", command |-> command, id |-> id]
NoExit == [phase |-> "none", id |-> 0]
NoJob == [state |-> "none"]

\* A document as a session opens it.
FreshEdits == [revision |-> 0, exported |-> {}, job |-> NoJob]

Init ==
  app = [phase |-> "none", after |-> "none", quits |-> FALSE,
         failed |-> FALSE, exit |-> NoExit, ids |-> 1, events |-> <<>>,
         edits |-> FreshEdits, armed |-> FALSE, prompt |-> FALSE,
         task |-> FALSE, modal |-> FALSE, drops |-> 0, dropped |-> 0,
         workflow |-> Idle, lease |-> "none", displaced |-> FALSE,
         fallback |-> FALSE, control |-> FALSE, audio |-> "none",
         started |-> 0]

\* What a session keeps for itself, as the next one finds it.
FreshSession(s, phase) ==
  [s EXCEPT !.phase = phase, !.after = "none", !.failed = FALSE,
            !.exit = NoExit, !.ids = 1, !.events = <<>>,
            !.edits = FreshEdits, !.armed = FALSE, !.prompt = FALSE,
            !.task = FALSE, !.modal = FALSE, !.drops = 0, !.dropped = 0]

\* Every outcome of one handler, then every outcome of the next.
Then(states, Handler(_)) == UNION {Handler(s) : s \in states}

\* The host has a session: it opens, or is active.
Opening(s) == s.phase \in {"Opening", "BootClosing"}
Occupied(s) == s.phase # "none"

\* The session's loop takes calls (canControl).
Controllable(s) == s.phase \in {"Running", "Stopping"}

HasUnexportedChanges(edits) ==
  edits.revision # 0 /\ edits.revision \notin edits.exported

ExportRunning(edits) == edits.job.state = "running"

NeedsExitConfirmation(s) ==
  HasUnexportedChanges(s.edits) \/ ExportRunning(s.edits)

ConfirmationVisible(s) == s.exit.phase = "AwaitingConfirmation"

\* A playback-owned prompt has the input (capturesBrowserInput).
CapturesInput(s) ==
  \/ ~Controllable(s)
  \/ s.task \/ s.prompt \/ ConfirmationVisible(s)

-----------------------------------------------------------------------------
(* Leaving a session: the exit coordinator and the loop *)

FinishLoopExit(s, intent) ==
  [s EXCEPT !.phase = "Stopping", !.exit = NoExit,
            !.quits = @ \/ intent = "quit"]

\* Ask the host whether the session may hand over.
RequestDecision(s, intent, id) ==
  [s EXCEPT !.exit = [phase |-> "AwaitingHandoffDecision", id |-> id,
                      intent |-> intent],
            !.events = Append(@, [kind |-> "request", intent |-> intent,
                                  id |-> id])]

\* The user, the host or a drop wants to leave; with unexported edits, or an
\* export under way, the user must confirm it.
BeginExit(s, intent) ==
  LET id == IF intent \in Handoffs THEN s.ids ELSE 0
      asking == NeedsExitConfirmation(s)
      t == [s EXCEPT !.task = FALSE,
                     !.ids = IF intent \in Handoffs THEN @ + 1 ELSE @]
  IN IF s.exit # NoExit THEN s
     ELSE IF asking
     THEN [t EXCEPT !.prompt = FALSE, !.armed = FALSE,
                    !.exit = [phase |-> "AwaitingConfirmation", id |-> id,
                              intent |-> intent]]
     ELSE IF intent \in Handoffs THEN RequestDecision(t, intent, id)
     ELSE FinishLoopExit(t, intent)

CompletePendingExit(s) ==
  IF ~ConfirmationVisible(s) \/ ExportRunning(s.edits) THEN s
  ELSE LET t == [s EXCEPT !.armed = FALSE]
       IN IF s.exit.intent \in Handoffs
          THEN RequestDecision(t, s.exit.intent, s.exit.id)
          ELSE FinishLoopExit(t, s.exit.intent)

\* A slip of CancelPendingExit: the host does not hear of it.
CancelSilently(s) == [s EXCEPT !.exit = NoExit, !.armed = FALSE]

CancelPendingExit(s) ==
  [s EXCEPT !.exit = NoExit, !.armed = FALSE,
            !.events = IF s.exit.id = 0 THEN @
                       ELSE Append(@, [kind |-> "cancel", id |-> s.exit.id])]

Resolvable(s, id) ==
  /\ Controllable(s)
  /\ s.exit.phase = "AwaitingHandoffDecision" /\ s.exit.id = id

\* The host's decision.
ResolveHandoff(s, id, accepted) ==
  LET t == [s EXCEPT !.exit = NoExit, !.armed = FALSE]
  IN IF accepted THEN FinishLoopExit(t, s.exit.intent) ELSE t

NativeFileDropAccepted(s) ==
  ~s.modal /\ ~CapturesInput(s) /\ s.exit = NoExit

\* Files dropped on the video while a prompt or another exit was open.
ResumeDeferredDrop(s) ==
  IF s.drops > 0 /\ NativeFileDropAccepted(s)
  THEN BeginExit([s EXCEPT !.drops = @ - 1], "openFiles")
  ELSE s

\* What the export left is applied to the document.
TakeExportCompletion(edits) ==
  IF edits.job.state \notin {"succeeded", "failed"} THEN edits
  ELSE [edits EXCEPT
          !.job = NoJob,
          !.exported = IF edits.job.state = "succeeded"
                       THEN @ \cup {edits.job.revision} ELSE @]

\* A slip of PollExport: a failed export counts as one that ended.
LeaveAfterFailure(s) ==
  LET t == [s EXCEPT !.edits = TakeExportCompletion(@)]
  IN IF t.edits = s.edits \/ ~(ConfirmationVisible(s) /\ s.armed) THEN t
     ELSE CompletePendingExit([t EXCEPT !.armed = FALSE])

\* An export that ends well while the user waits for it leaves the session.
PollExport(s) ==
  LET t == [s EXCEPT !.edits = TakeExportCompletion(@)]
  IN IF t.edits = s.edits \/ ~(ConfirmationVisible(s) /\ s.armed) THEN t
     ELSE IF s.edits.job.state = "succeeded"
             /\ ~HasUnexportedChanges(t.edits)
     THEN CompletePendingExit([t EXCEPT !.armed = FALSE])
     ELSE [t EXCEPT !.armed = FALSE]

-----------------------------------------------------------------------------
(* Activation: the lease, the control session, the audio it displaces *)

Release(s) == [s EXCEPT !.lease = "none"]

\* An activation that fails gives control back to the audio it displaced.
RestoreDisplacedAudio(s) ==
  [s EXCEPT !.displaced = FALSE,
            !.control = @ \/ (s.displaced /\ s.audio = "file")]

\* The session is destroyed, and its audio stream with it.
DestroySession(s) ==
  [FreshSession(s, "none")
     EXCEPT !.quits = FALSE,
            !.audio = IF @ = "stream" THEN "none" ELSE @]

ActivateAudio(s) ==
  LET t == Release(s)
  IN {[t EXCEPT !.audio = "file", !.control = TRUE],
      t, [t EXCEPT !.audio = "none", !.control = FALSE]}

\* A slip of FinishVideoOpen: a failed opening keeps the lease.
FinishVideoOpenHolding(s, outcome) ==
  IF outcome = "ready"
  THEN {[s EXCEPT !.phase = "Running", !.control = TRUE, !.displaced = FALSE,
                  !.audio = a] : a \in {s.audio, "stream"}}
  ELSE LET t == DestroySession(s)
       IN IF outcome = "fallback"
          THEN {RestoreDisplacedAudio([t EXCEPT !.fallback = TRUE])}
          ELSE IF outcome = "quit"
          THEN {[Release(t) EXCEPT !.displaced = FALSE,
                                   !.workflow = Deferred("quit")]}
          ELSE {RestoreDisplacedAudio(t)}

FinishVideoOpen(s, outcome) ==
  IF outcome = "ready"
  THEN {[s EXCEPT !.phase = "Running", !.control = TRUE, !.displaced = FALSE,
                  !.audio = a] : a \in {s.audio, "stream"}}
  ELSE LET t == DestroySession(s)
       IN IF outcome = "fallback"
          THEN {RestoreDisplacedAudio([t EXCEPT !.fallback = TRUE])}
          ELSE IF outcome = "quit"
          THEN {[Release(t) EXCEPT !.displaced = FALSE,
                                   !.workflow = Deferred("quit")]}
          ELSE {RestoreDisplacedAudio(Release(t))}

\* A video that has its lease: its session opens, at once or over several polls.
StartVideo(s) ==
  LET t == [s EXCEPT !.displaced = s.control /\ s.audio = "file",
                     !.control = FALSE]
      opened == [t EXCEPT !.started = @ + 1, !.phase = "Opening"]
  IN {RestoreDisplacedAudio(Release(t)), opened}
       \cup Then({"ready", "failure", "fallback"},
                 LAMBDA outcome : FinishVideoOpen(opened, outcome))

\* A command is carried out; a video whose lease is not ready waits for it.
Dispatch(s, command) ==
  CASE command = "audio" -> ActivateAudio(s)
    [] command \in {"browse", "quit"} -> {Release(s)}
    [] command = "video" ->
         (IF s.lease # "ready"
          THEN {[s EXCEPT !.lease = "held", !.workflow = Deferred(command)]}
          ELSE {})
           \cup (IF s.lease # "held"
                 THEN StartVideo([s EXCEPT !.lease = "ready"])
                 ELSE {})

ResumeDeferredCommand(s) ==
  IF s.workflow.state = "Deferred" /\ ~Occupied(s) /\ ~s.fallback
  THEN Dispatch([s EXCEPT !.workflow = Idle], s.workflow.command)
  ELSE {s}

-----------------------------------------------------------------------------
(* The workflow and the session negotiate *)

Matches(s, id) ==
  s.workflow.state = "Negotiating" /\ s.workflow.id = id

\* The session did not take the host's answer.
RecoverRejected(s, id, discard) ==
  IF Controllable(s) /\ s.exit.id = id
  THEN [s EXCEPT !.exit = NoExit, !.armed = FALSE,
                 !.workflow = IF discard THEN Idle ELSE @]
  ELSE [s EXCEPT !.workflow = [state |-> "HandoffFault", id |-> id]]

DeclineRequest(s, id) ==
  IF ~Resolvable(s, id) THEN RecoverRejected(s, id, Matches(s, id))
  ELSE [ResolveHandoff(s, id, FALSE)
          EXCEPT !.workflow = IF Matches(s, id) THEN Idle ELSE @]

\* The command the shell asked for runs when the session has ended.
AcceptExternalRequest(s, id) ==
  IF ~Matches(s, id) THEN DeclineRequest(s, id)
  ELSE IF ~Resolvable(s, id) THEN RecoverRejected(s, id, TRUE)
  ELSE [ResolveHandoff(s, id, TRUE)
          EXCEPT !.workflow = Deferred(s.workflow.command)]

\* The command the session asked for: its next item, or files dropped on it.
AcceptSessionRequest(s, command, id) ==
  IF s.workflow # Idle THEN DeclineRequest(s, id)
  ELSE IF ~Resolvable(s, id) THEN RecoverRejected(s, id, FALSE)
  ELSE [ResolveHandoff(s, id, TRUE) EXCEPT !.workflow = Deferred(command)]

\* What there is to open; MaxSessions bounds the videos.
Commands(s) ==
  {"audio", "browse"} \cup (IF s.started < MaxSessions THEN {"video"} ELSE {})

\* A request may come to nothing: no next item, or files nobody can open.
HandleEvent(s, event) ==
  CASE event.kind = "cancel" ->
         {IF Matches(s, event.id) THEN [s EXCEPT !.workflow = Idle] ELSE s}
    [] event.kind = "request" /\ event.intent = "external" ->
         {AcceptExternalRequest(s, event.id)}
    [] OTHER ->
         {DeclineRequest(s, event.id)}
           \cup {AcceptSessionRequest(s, command, event.id) :
                   command \in Commands(s)
                     \ (IF event.intent = "transport" THEN {"browse"} ELSE {})}

\* A session that is closing or still opening gives no events.
DrainEvents(s) ==
  IF ~Controllable(s) THEN {s}
  ELSE FoldLeft(LAMBDA states, event :
                  Then(states, LAMBDA t : HandleEvent(t, event)),
                {[s EXCEPT !.events = <<>>]}, s.events)

\* A command without a request asks for one once no prompt is in the way.
ResumeHandoff(s) ==
  IF ~Matches(s, 0) \/ CapturesInput(s) THEN {s}
  ELSE IF s.exit # NoExit THEN DrainEvents([s EXCEPT !.workflow = Idle])
  ELSE DrainEvents([BeginExit(s, "external")
                      EXCEPT !.workflow.id = s.ids])

DrainAndResume(s) == Then(DrainEvents(s), ResumeHandoff)

Submit(s, command) ==
  IF Occupied(s)
  THEN IF Controllable(s) /\ s.workflow = Idle
       THEN ResumeHandoff([s EXCEPT !.workflow = Negotiating(command, 0)])
       ELSE {s}
  ELSE IF s.fallback \/ s.workflow # Idle THEN {s}
  ELSE Dispatch(s, command)

-----------------------------------------------------------------------------
(* A poll *)

\* A slip of FinishSession: a media change that waited goes before the quit.
FinishSessionYielding(s) ==
  LET t == DestroySession([s EXCEPT !.control = FALSE])
      u == [t EXCEPT !.workflow =
              CASE @.state = "Negotiating" -> Deferred(@.command)
                [] @.state # "Deferred" /\ s.quits -> Deferred("quit")
                [] @.state = "HandoffFault" -> Idle
                [] OTHER -> @]
  IN ResumeDeferredCommand(
       IF u.workflow.state = "Deferred" THEN u ELSE Release(u))

\* The session has ended: a quit runs before any other command, and a handoff
\* it left open has nothing more to wait for.
FinishSession(s) ==
  LET t == DestroySession([s EXCEPT !.control = FALSE])
      u == [t EXCEPT !.workflow =
              IF s.quits THEN Deferred("quit")
              ELSE CASE @.state = "HandoffFault" -> Idle
                     [] @.state = "Negotiating" -> Deferred(@.command)
                     [] OTHER -> @]
  IN ResumeDeferredCommand(
       IF u.workflow.state = "Deferred" THEN u ELSE Release(u))

\* A session that closes takes no more calls; only how it was left matters.
BeginClosing(s) == FreshSession(s, "Closing")

\* One turn of the session's loop: the export, a closed window, the end.
PumpLoop(s) ==
  IF s.phase # "Running" THEN {BeginClosing(s)}
  ELSE Then({PollExport(s)},
            LAMBDA t :
              Then({t, BeginExit(t, "stop")},
                   LAMBDA u :
                     {IF u.phase = "Stopping" \/ u.failed
                      THEN BeginClosing(u) ELSE u}))

PumpPlayback(s) ==
  Then(PumpLoop(s),
       LAMBDA t :
         (IF t.phase = "Closing" THEN FinishSession(t) ELSE {})
           \cup DrainAndResume(t))

PumpOpen(s) ==
  IF s.phase = "BootClosing"
  THEN {s} \cup Then(FinishVideoOpen(s, s.after), ResumeDeferredCommand)
  ELSE {s} \cup {[s EXCEPT !.phase = "BootClosing", !.after = outcome] :
                   outcome \in {"failure", "fallback"}}
           \cup Then({"ready", "failure", "fallback"},
                     LAMBDA outcome :
                       Then(FinishVideoOpen(s, outcome),
                            ResumeDeferredCommand))

\* The background task a prompt is about may have ended.
SynchronizeTask(s) ==
  IF Controllable(s) /\ s.task
  THEN {s, ResumeDeferredDrop([s EXCEPT !.task = FALSE])} ELSE {s}

\* A slip of Poll: only the end of a session lets a command run.
PollSessionsOnly ==
  \E t \in Then(
       IF ~Occupied(app) THEN {app}
       ELSE IF Opening(app) THEN PumpOpen(app)
       ELSE Then(DrainAndResume(app), PumpPlayback),
       SynchronizeTask) :
     app' = t

Poll ==
  \E t \in Then(
       Then(IF Occupied(app) THEN {app} ELSE ResumeDeferredCommand(app),
            LAMBDA s : IF ~Occupied(s) THEN {s}
                       ELSE IF Opening(s) THEN PumpOpen(s)
                       ELSE Then(DrainAndResume(s), PumpPlayback)),
       SynchronizeTask) :
     app' = t

-----------------------------------------------------------------------------
(* What the user and the shell do *)

Free(s) == ~s.prompt /\ ~s.task /\ ~ConfirmationVisible(s)

\* An input of the session, and what the coordinator does after every one.
Input(s) == \E t \in DrainAndResume(s) : app' = t

Open ==
  /\ Controllable(app) => app.ids <= MaxRequests
  /\ \E command \in Commands(app) : \E t \in Submit(app, command) : app' = t

Leave ==
  /\ Controllable(app)
  /\ \E intent \in {"stop", "quit", "transport"} :
       /\ intent = "quit" \/ Free(app)
       /\ intent = "transport" => app.ids <= MaxRequests
       /\ Input(BeginExit(app, intent))

DropFiles ==
  /\ Controllable(app) /\ app.dropped < MaxDrops
  /\ LET s == [app EXCEPT !.dropped = @ + 1]
     IN Input(IF NativeFileDropAccepted(s) THEN BeginExit(s, "openFiles")
              ELSE [s EXCEPT !.drops = @ + 1])

Confirm ==
  /\ Controllable(app) /\ ConfirmationVisible(app)
  /\ \E t \in DrainAndResume(CompletePendingExit(app)) : app' = t

Cancel ==
  /\ Controllable(app) /\ ConfirmationVisible(app)
  /\ Input(CancelPendingExit(app))

Edit ==
  /\ Controllable(app) /\ Free(app)
  /\ \E r \in Revisions \cup {0} : Input([app EXCEPT !.edits.revision = r])

StartExport ==
  /\ Controllable(app) /\ (Free(app) \/ ConfirmationVisible(app))
  /\ ~ExportRunning(app.edits)
  /\ LET edits == TakeExportCompletion(app.edits)
         applied == [app EXCEPT !.edits = edits]
         running == [state |-> "running", revision |-> edits.revision]
         asked == ConfirmationVisible(app) /\ HasUnexportedChanges(app.edits)
     IN IF \/ edits.revision = 0
           \/ HasUnexportedChanges(app.edits) /\ ~HasUnexportedChanges(edits)
        THEN Input(IF asked THEN CompletePendingExit(applied) ELSE applied)
        ELSE \/ Input(applied)
             \/ Input([applied EXCEPT !.edits.job = running,
                                      !.armed = asked])

WaitForExport ==
  /\ Controllable(app) /\ ConfirmationVisible(app)
  /\ ExportRunning(app.edits)
  /\ HasUnexportedChanges(app.edits)
       => app.edits.job.revision = app.edits.revision
  /\ Input([app EXCEPT !.armed = TRUE])

\* A prompt of the editor, or about a background task, opens or is answered.
AskOrAnswer ==
  /\ Controllable(app)
  /\ \/ Free(app) /\ Input([app EXCEPT !.prompt = TRUE])
     \/ app.prompt /\ Input([app EXCEPT !.prompt = FALSE])
     \/ Free(app) /\ Input([app EXCEPT !.task = TRUE])
     \/ app.task /\ Input(ResumeDeferredDrop([app EXCEPT !.task = FALSE]))

\* A background task ends while the session asks about it.
TaskFinished ==
  /\ Controllable(app) /\ app.task
  /\ \E t \in ResumeHandoff(ResumeDeferredDrop([app EXCEPT !.task = FALSE])) :
       app' = t

\* While it opens, the session only listens to cancel and quit.
CancelOpening ==
  /\ Opening(app)
  /\ \E wish \in {"cancel", "quit"} :
       /\ app.phase = "Opening" \/ wish = "quit"
       /\ app' = [app EXCEPT !.phase = "BootClosing", !.after = wish]

\* The shell is asked to quit.
RequestQuit ==
  /\ app' = IF Opening(app)
            THEN [app EXCEPT !.phase = "BootClosing", !.after = "quit"]
            ELSE IF app.phase = "Closing" THEN [app EXCEPT !.quits = TRUE]
            ELSE IF Controllable(app) THEN BeginExit(app, "quit")
            ELSE [Release(app) EXCEPT !.fallback = FALSE, !.workflow = Idle]

ResolveAudioFallback ==
  /\ app.fallback
  /\ LET s == Release([app EXCEPT !.fallback = FALSE])
     IN \E t \in {s} \cup ActivateAudio(s) : app' = t

\* A system or shell control: Stop, or the next item of what plays.
Control ==
  /\ app.control
  /\ IF Controllable(app)
     THEN \/ \E t \in DrainEvents(IF Free(app) THEN BeginExit(app, "stop")
                                  ELSE app) :
               app' = [t EXCEPT !.control = FALSE]
          \/ /\ Free(app) /\ app.ids <= MaxRequests
             /\ \E t \in DrainEvents(BeginExit(app, "transport")) : app' = t
     ELSE \/ app.audio = "file" /\ ~Occupied(app)
             /\ app' = [app EXCEPT !.audio = "none", !.control = FALSE]
          \/ app.phase = "Closing" /\ app' = [app EXCEPT !.control = FALSE]

\* The shell opens or closes a dialog of its own.
SetExternalModal ==
  /\ Controllable(app)
  /\ app' = LET s == [app EXCEPT !.modal = ~@]
            IN IF s.modal THEN s ELSE ResumeDeferredDrop(s)

-----------------------------------------------------------------------------
(* What happens by itself *)

\* The worker's export ends.
ExportEnds ==
  /\ Controllable(app) /\ ExportRunning(app.edits)
  /\ \E end \in {"succeeded", "failed"} :
       app' = [app EXCEPT !.edits.job.state = end]

\* Background work makes room for the player; nothing says that it ever does.
LeaseBecomesReady ==
  /\ app.lease = "held"
  /\ app' = [app EXCEPT !.lease = "ready"]

\* The video's sound replaces what played; a video without sound has none.
StreamStarts ==
  /\ Occupied(app) /\ app.phase # "Closing" /\ app.audio # "stream"
  /\ app' = [app EXCEPT !.audio = "stream"]

RenderFails ==
  /\ app.phase = "Running" /\ ~app.failed
  /\ app' = [app EXCEPT !.failed = TRUE]

Next ==
  \/ Poll \/ Open \/ Leave \/ DropFiles \/ Confirm \/ Cancel \/ Edit
  \/ StartExport \/ WaitForExport \/ AskOrAnswer \/ TaskFinished
  \/ CancelOpening \/ RequestQuit \/ ResolveAudioFallback \/ Control
  \/ SetExternalModal
  \/ ExportEnds \/ LeaseBecomesReady \/ StreamStarts \/ RenderFails

Spec == Init /\ [][Next]_vars

\* The shell polls for ever: while a command waits, a session that stopped closes, in
\* the end it has closed, and the command runs once the GPU is free.  The user need
\* not do anything, and nor need the background work: see LeaseBecomesReady of
\* InteractivePlayback.
CommandWaits == app.workflow.state = "Deferred"
StoppedSessionCloses ==
  CommandWaits /\ app.phase = "Stopping" /\ app' = BeginClosing(app)
PollGoesOn ==
  /\ CommandWaits
  /\ app.phase \in {"none", "Closing"}
  /\ Poll
  /\ <<app.phase, app.workflow>>' # <<app.phase, app.workflow>>

Fairness ==
  /\ WF_vars(StoppedSessionCloses)
  /\ WF_vars(PollGoesOn)

FairSpec == Spec /\ Fairness

-----------------------------------------------------------------------------
(* Properties *)

\* Edits nobody exported are lost only when the user has just confirmed it, or
\* the picture fails, whatever exits, exports, drops and prompts came before.
\* (The edits made after the session had asked to hand over are not looked at:
\* no prompt holds them back.  A session that stops keeps its document.)
EditsAreKept ==
  [][app.phase = "Running" /\ app'.phase # "Running"
       => \/ Confirm /\ ~ExportRunning(app.edits)
          \/ app.failed
          \/ app.exit.phase = "AwaitingHandoffDecision"
          \/ ~HasUnexportedChanges(
               IF app'.phase = "Stopping" THEN app'.edits
               ELSE TakeExportCompletion(app.edits))]_vars

\* The workflow and the session agree on the handoff under way: a decision the
\* session waits for is on its way to the shell, the shell's command waits for
\* the request it made, and an accepted command for a session that ends.
HandoffsAgree ==
  /\ app.workflow.state # "HandoffFault"
  /\ app.workflow.state = "Deferred" =>
       app.phase \in {"none", "Stopping", "Closing"}
  /\ app.workflow.state = "Negotiating" => app.phase # "none"
  /\ Controllable(app) =>
       /\ app.events # <<>> \/ app.exit.phase = "AwaitingHandoffDecision" =>
            app.events = <<[kind |-> "request", intent |-> app.exit.intent,
                            id |-> app.exit.id]>>
       /\ app.workflow.state = "Negotiating" /\ ~Matches(app, 0) =>
            app.exit # NoExit /\ Matches(app, app.exit.id)
       /\ app.exit # NoExit /\ app.exit.intent = "external" =>
            Matches(app, app.exit.id)

\* A video session has the GPU to itself, and background work stays interrupted
\* for nothing but a session, a command that waits and a question to the user.
LeaseCoversPlayback ==
  /\ Occupied(app) => app.lease = "ready"
  /\ app.lease # "none" =>
       Occupied(app) \/ app.fallback \/ app.workflow.state = "Deferred"

\* "An older media change must never replace the committed quit": a session that
\* was left to quit is the last thing that happens.
QuitPreempts ==
  [][app.quits /\ app.phase \in {"Stopping", "Closing"}
       /\ app'.phase \notin {"Stopping", "Closing"}
       => ~Occupied(app') /\ app'.workflow = Idle /\ app'.lease = "none"]_vars

\* A command that waits for a session to end, or for the GPU, runs, unless its lease
\* is not ready, for good or again and again: nothing else holds it back for ever.
RetainedCommandRuns == CommandWaits ~> ~CommandWaits \/ app.lease = "held"

\* "Only the playback-exit flow decides how an unexported document ... must be
\* resolved": the user confirms the loss of every edit.
EditsNeedConfirmation ==
  [][app.phase = "Running" /\ app'.phase = "Stopping"
       => Confirm \/ ~HasUnexportedChanges(app'.edits)]_vars
=============================================================================
