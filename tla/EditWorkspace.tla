---------------------------- MODULE EditWorkspace ----------------------------
(***************************************************************************)
(* The video editor: its document of kept ranges and cuts with the history *)
(* (playback/video/edit/timeline.cpp), the two marks of the selection, the *)
(* commands of the workspace (playback/session/video_edit_workspace.cpp),  *)
(* the program mapping between source and presentation time                *)
(* (playback/video/sequence.cpp), and the control thread of the player     *)
(* that plays what the workspace projects to it                            *)
(* (playback/video/player.cpp).                                            *)
(*                                                                         *)
(* Commands are calls of the session's one thread; the player's queue is   *)
(* what makes the preview follow later.  A smooth cut is taken from the    *)
(* cut that was clicked or from the nearest to the playhead, and any cut   *)
(* may be that one.  The frame an Out mark is drawn on, the edit review    *)
(* and its panel, and the cancelling of an export, which is a flag of the  *)
(* job (module VideoEditJobs), are left out; the player is open and runs.  *)
(***************************************************************************)
EXTENDS Integers, Sequences, SequencesExt, FiniteSetsExt

CONSTANTS
  Duration,      \* of the source, in the model's units of time
  Frame,         \* the duration of a frame, the least a selection holds
  Positions,     \* on the program timeline, of the playhead and of a handle
  Suggestions,   \* the ranges that the edit review offers
  MinBefore,     \* what a smooth cut needs of the clip before it,
  MinAfter,      \* of the clip after it,
  MinBetween,    \* and of a clip between two of them
  MaxHistory,    \* bound on the revisions that can be undone
  MaxExports,    \* bound on the revisions that were exported
  MaxQueue       \* bound on the projections the player has yet to handle

VARIABLES
  document,   \* timeline_: the kept ranges, and which cuts are smooth
  undo,       \* undo_, the revisions before it
  redo,       \* redo_, the revisions that were undone
  exported,   \* exportedRevisions_
  inUs,       \* the marks of the selection, in source time
  outUs,
  active,     \* the editor is open
  prompt,     \* the question the user has to answer first
  job,        \* the export: how far it is, and the revision it was given
  program,    \* the sequence the player's control thread has bound
  queue,      \* the projections posted to it
  accepted,   \* whether the workspace took the last projection as accepted
  outdated    \* a projection was refused since the last sequence posted

documentVars == <<document, undo, redo>>
markVars == <<inUs, outUs>>
playerVars == <<program, queue, accepted, outdated>>
vars == <<document, undo, redo, exported, inUs, outUs, active, prompt, job,
          program, queue, accepted, outdated>>

None == -1     \* an optional that is empty

-----------------------------------------------------------------------------
(* Ranges: playback/video/edit/timeline.cpp *)

Clip(from, to) == [start |-> from, end |-> to]
Length(clip) == clip.end - clip.start

\* Timeline::reset(): the source as a whole, which is an unmodified document.
Whole == [ranges |-> <<Clip(0, Duration)>>, smooth |-> <<>>]

\* What is left of a range, if anything is.
Piece(from, to) == IF from < to THEN <<Clip(from, to)>> ELSE <<>>

\* trimTo(): every range is cut to what is to be kept.
TrimmedTo(ranges, keep) ==
  FlattenSeq([i \in DOMAIN ranges |->
    Piece(Max({ranges[i].start, keep.start}), Min({ranges[i].end, keep.end}))])

\* rippleDelete(): of every range, what lies before and behind the removed.
Around(clip, remove) ==
  IF remove.end <= clip.start \/ remove.start >= clip.end
  THEN <<clip>>
  ELSE Piece(clip.start, Min({remove.start, clip.end}))
         \o Piece(Max({remove.end, clip.start}), clip.end)

\* A slip of Without: a range that reaches over both ends loses its rest.
WithoutRest(ranges, remove) ==
  FlattenSeq([i \in DOMAIN ranges |->
    LET parts == Around(ranges[i], remove)
    IN  IF parts = <<>> THEN <<>> ELSE <<Head(parts)>>])

Without(ranges, remove) ==
  FlattenSeq([i \in DOMAIN ranges |-> Around(ranges[i], remove)])

\* replaceRanges(), its first half: ranges that touch become one.
Merged(ranges) ==
  FoldLeft(LAMBDA done, clip :
             IF done # <<>> /\ clip.start <= Last(done).end
             THEN Append(Front(done),
                         Clip(Last(done).start, Max({Last(done).end, clip.end})))
             ELSE Append(done, clip),
           <<>>, ranges)

\* A slip of Replaced: smooth cuts keep their number and not their ends.
ReplacedByNumber(before, ranges) ==
  LET next == Merged(ranges)
  IN  [ranges |-> next,
       smooth |-> [i \in 1..(Len(next) - 1) |->
                     i \in DOMAIN before.smooth /\ before.smooth[i]]]

\* replaceRanges(): a cut whose two ends are still ends keeps its kind.
Replaced(before, ranges) ==
  LET next == Merged(ranges)
  IN  [ranges |-> next,
       smooth |-> [i \in 1..(Len(next) - 1) |->
                     \E j \in DOMAIN before.smooth :
                       /\ before.smooth[j]
                       /\ before.ranges[j].end = next[i].end
                       /\ before.ranges[j + 1].start = next[i + 1].start]]

-----------------------------------------------------------------------------
(* The program: playback/video/sequence.cpp *)

\* What a clip contributes to the program before source time s.
Before(clip, s) == Max({0, Min({s, clip.end}) - clip.start})

\* pointForSource(), its presentation time: what is kept before s, and so the
\* same whichever way a removed s is biased.
PresentationOf(ranges, s) ==
  LET sum[i \in 0..Len(ranges)] ==
        IF i = 0 THEN 0 ELSE sum[i - 1] + Before(ranges[i], s)
  IN  sum[Len(ranges)]

ProgramLength(ranges) == PresentationOf(ranges, Duration)

\* pointAt(), its source time: in the clip that is on at p, or its very end.
SourceAt(ranges, p) ==
  IF p >= ProgramLength(ranges) THEN Last(ranges).end
  ELSE LET StartOf(clip) == PresentationOf(ranges, clip.start)
           on == CHOOSE i \in DOMAIN ranges :
                   /\ StartOf(ranges[i]) <= p
                   /\ p < StartOf(ranges[i]) + Length(ranges[i])
       IN  ranges[on].start + p - StartOf(ranges[on])

-----------------------------------------------------------------------------
(* Marks: Selection of playback/video/edit/timeline.cpp *)

\* A slip of MarkedIn: an In behind the Out stays where it was put.
MarkedInAnywhere(s) == s

\* markIn(): no later than a frame before the Out there is.
MarkedIn(s) ==
  IF outUs = None THEN s
  ELSE LET end == PresentationOf(document.ranges, outUs)
           latest == end - Min({Frame, end})
       IN  SourceAt(document.ranges,
                    Min({PresentationOf(document.ranges, s), latest}))

\* The exclusive Out that ends a program position: just behind the content
\* before it, on the near side of a cut.
OutAt(p) ==
  IF p <= 0 THEN SourceAt(document.ranges, 0)
  ELSE Min({Duration, SourceAt(document.ranges, p - 1) + 1})

\* The first position that leaves a frame behind an In.
EarliestOut(in) ==
  LET start == PresentationOf(document.ranges, in)
  IN  start + Min({Frame, ProgramLength(document.ranges) - start})

\* markOut(): no earlier than a frame behind the In there is.
MarkedOut(in, s) ==
  IF in = None \/ EarliestOut(in) <= PresentationOf(document.ranges, s) THEN s
  ELSE OutAt(EarliestOut(in))

\* moveBoundary(): the same limits for a handle that is dragged to p.
MovedIn(p) ==
  LET end == PresentationOf(document.ranges, outUs)
  IN  IF outUs = None THEN p ELSE Min({p, end - Min({Frame, end})})

MovedOut(p) == IF inUs = None THEN p ELSE Max({p, EarliestOut(inUs)})

HasRange == inUs # None /\ outUs # None /\ inUs < outUs
Selected == Clip(inUs, outUs)

-----------------------------------------------------------------------------
(* The player's side of a projection: playback/video/player.cpp *)

\* canBindComposition(): every smooth cut has room in the clips around it.
CanBind(decisions) ==
  \A i \in DOMAIN decisions.smooth : decisions.smooth[i] =>
    /\ Length(decisions.ranges[i]) >= MinBefore
    /\ Length(decisions.ranges[i + 1]) >= MinAfter
    /\ i > 1 /\ decisions.smooth[i - 1] =>
         Length(decisions.ranges[i]) >= MinBetween

\* A slip of Coalesces: whatever is posted replaces what waits.
CoalescesAnything(type) == TRUE

\* shouldCoalesceQueuedEvent(): only with its like.
Coalesces(type) == Last(queue).type = type

\* postSequence(): behind what waits, or in the place of the last, unless
\* some other event came between the two.
Post(type, decisions) ==
  LET event == [type |-> type, to |-> decisions]
  IN  \/ /\ Len(queue) < MaxQueue
         /\ queue' = Append(queue, event)
      \/ /\ queue # <<>> /\ Coalesces(type)
         /\ queue' = Append(Front(queue), event)

SameClips(a, b) == a.ranges = b.ranges

\* controlMain(): a sequence is bound as it comes; a new composition only of
\* the clips that are bound already, and of no clips at all when the whole
\* source plays.
Handle ==
  /\ queue # <<>>
  /\ LET event == Head(queue)
         rejected == /\ event.type = "UpdateComposition"
                     /\ program = Whole \/ ~SameClips(program, event.to)
     IN  program' = IF rejected THEN program ELSE event.to
  /\ queue' = Tail(queue)
  /\ UNCHANGED <<documentVars, exported, markVars, active, prompt, job,
                 accepted, outdated>>

-----------------------------------------------------------------------------
(* Commands: VideoEditWorkspace::execute() *)

Open ==
  /\ ~active
  /\ prompt = "None"
  /\ active' = TRUE
  /\ inUs' = None
  /\ outUs' = None
  /\ UNCHANGED <<documentVars, exported, prompt, job, playerVars>>

Command == active /\ prompt = "None"

\* finishEditing(): the decisions stay, the marks go.
FinishEditing ==
  /\ active' = FALSE
  /\ prompt' = "None"
  /\ inUs' = None
  /\ outUs' = None
  /\ UNCHANGED <<documentVars, exported, job, playerVars>>

Finish == Command /\ FinishEditing

RequestClose ==
  /\ Command
  /\ prompt' = "LeaveEditMode"
  /\ UNCHANGED <<documentVars, exported, markVars, active, job, playerVars>>

ConfirmLeave == prompt = "LeaveEditMode" /\ FinishEditing

\* A slip of RequestDiscard: an export that runs is not looked for.
RequestDiscardAnyway ==
  /\ prompt = "None"
  /\ document # Whole
  /\ prompt' = "DiscardEdits"
  /\ UNCHANGED <<documentVars, exported, markVars, active, job, playerVars>>

RequestDiscard ==
  /\ prompt = "None"
  /\ job.phase # "running"
  /\ document # Whole
  /\ prompt' = "DiscardEdits"
  /\ UNCHANGED <<documentVars, exported, markVars, active, job, playerVars>>

CancelPrompt ==
  /\ prompt # "None"
  /\ prompt' = "None"
  /\ UNCHANGED <<documentVars, exported, markVars, active, job, playerVars>>

\* The playhead's place in the source, of the program that plays.
PlayheadSource ==
  {SourceAt(program.ranges, p) :
     p \in Positions \cap (0..ProgramLength(program.ranges))}

Mark(in, out) ==
  /\ inUs' = in
  /\ outUs' = out
  /\ UNCHANGED <<documentVars, exported, active, prompt, job, playerVars>>

MarkIn == Command /\ \E s \in PlayheadSource : Mark(MarkedIn(s), outUs)

MarkOut ==
  /\ Command
  /\ \E s \in PlayheadSource : Mark(inUs, MarkedOut(inUs, Min({s + Frame, Duration})))

ClearIn == Command /\ inUs # None /\ Mark(None, outUs)
ClearOut == Command /\ outUs # None /\ Mark(inUs, None)
ClearInAndOut == Command /\ (inUs # None \/ outUs # None) /\ Mark(None, None)

\* selectSceneSuggestionRange(): both marks anew.
SelectSuggestion ==
  /\ Command
  /\ \E suggested \in Suggestions :
       Mark(suggested.start, MarkedOut(suggested.start, suggested.end))

\* A handle that is dragged knows nothing of a prompt.
MoveBoundary ==
  /\ active
  /\ \E p \in Positions \cap (0..ProgramLength(document.ranges)) :
       \/ Mark(MarkedIn(SourceAt(document.ranges, MovedIn(p))), outUs)
       \/ Mark(inUs, OutAt(MovedOut(p)))

\* execute(), behind a change of the document: new ranges lose the marks and
\* are posted as a sequence, new kinds of cuts as a composition; a composition
\* the player cannot render is refused and only said to be unavailable.
Project(next) ==
  LET newRanges == next.ranges # document.ranges
      type == IF newRanges THEN "SetSequence" ELSE "UpdateComposition"
  IN  /\ IF newRanges THEN inUs' = None /\ outUs' = None
                      ELSE UNCHANGED markVars
      /\ accepted' = CanBind(next)
      /\ outdated' = (~CanBind(next) \/ (outdated /\ ~newRanges))
      /\ IF CanBind(next) THEN Post(type, next) ELSE UNCHANGED queue
      /\ UNCHANGED program

\* Document::commit(): what was undone is gone.
Commit(next) ==
  /\ next # document
  /\ Len(undo) < MaxHistory
  /\ undo' = Append(undo, document)
  /\ redo' = <<>>
  /\ document' = next
  /\ Project(next)
  /\ UNCHANGED <<exported, active, prompt, job>>

\* canTrimTo() and canRippleDelete(): something goes and something stays.
Replace(ranges) ==
  /\ ranges \notin {<<>>, document.ranges}
  /\ Commit(Replaced(document, ranges))

RippleDelete ==
  Command /\ HasRange /\ Replace(Without(document.ranges, Selected))

Trim == Command /\ HasRange /\ Replace(TrimmedTo(document.ranges, Selected))

\* A cut is only made smooth where the player can render it.
ToggleSmoothCut ==
  /\ Command
  /\ \E i \in DOMAIN document.smooth :
       LET next == [document EXCEPT !.smooth[i] = ~@]
       IN  /\ document.smooth[i] \/ CanBind(next)
           /\ Commit(next)

Reset == Command /\ Commit(Whole)

\* A slip of Undo: the revision that is left cannot be had again.
UndoForGood ==
  /\ Command
  /\ undo # <<>>
  /\ document' = Last(undo)
  /\ undo' = Front(undo)
  /\ Project(Last(undo))
  /\ UNCHANGED <<redo, exported, active, prompt, job>>

Undo ==
  /\ Command
  /\ undo # <<>>
  /\ redo' = Append(redo, document)
  /\ document' = Last(undo)
  /\ undo' = Front(undo)
  /\ Project(Last(undo))
  /\ UNCHANGED <<exported, active, prompt, job>>

Redo ==
  /\ Command
  /\ redo # <<>>
  /\ undo' = Append(undo, document)
  /\ document' = Last(redo)
  /\ redo' = Front(redo)
  /\ Project(Last(redo))
  /\ UNCHANGED <<exported, active, prompt, job>>

\* discardAllChanges(): the history goes with the edits.
ConfirmDiscard ==
  /\ prompt = "DiscardEdits"
  /\ prompt' = "None"
  /\ document' = Whole
  /\ undo' = <<>>
  /\ redo' = <<>>
  /\ Project(Whole)
  /\ UNCHANGED <<exported, active, job>>

-----------------------------------------------------------------------------
(* The export *)

NoJob == [phase |-> "none", of |-> Whole]

\* A slip of Applied: what is on the screen counts as exported.
AppliedToCurrent ==
  IF job.phase = "succeeded" THEN exported \cup {document} ELSE exported

\* takeExportCompletion(): a success marks the revision the job was given.
Applied ==
  IF job.phase = "succeeded" THEN exported \cup {job.of} ELSE exported

\* poll(), for the export.
PollExport ==
  /\ job.phase \in {"succeeded", "failed"}
  /\ exported' = Applied
  /\ job' = NoJob
  /\ UNCHANGED <<documentVars, markVars, active, prompt, playerVars>>

\* hasUnexportedChanges()
Unexported == document # Whole /\ document \notin exported

\* startExport(): a completion that waits is applied first, and is enough
\* when it is the current revision's.
StartExport ==
  /\ prompt = "None"
  /\ job.phase # "running"
  /\ document # Whole
  /\ ~(job.phase = "succeeded" /\ Unexported /\ job.of = document)
  /\ Cardinality(Applied) < MaxExports
  /\ exported' = Applied
  /\ job' = [phase |-> "running", of |-> document]
  /\ UNCHANGED <<documentVars, markVars, active, prompt, playerVars>>

\* The job's thread is done, whether it was cancelled or not.
EndExport ==
  /\ job.phase = "running"
  /\ job' \in {[job EXCEPT !.phase = "succeeded"], [job EXCEPT !.phase = "failed"]}
  /\ UNCHANGED <<documentVars, exported, markVars, active, prompt, playerVars>>

-----------------------------------------------------------------------------

Init ==
  /\ document = Whole
  /\ undo = <<>>
  /\ redo = <<>>
  /\ exported = {}
  /\ inUs = None
  /\ outUs = None
  /\ active = FALSE
  /\ prompt = "None"
  /\ job = NoJob
  /\ program = Whole
  /\ queue = <<>>
  /\ accepted = TRUE
  /\ outdated = FALSE

Next ==
  \/ Open
  \/ Finish
  \/ RequestClose
  \/ ConfirmLeave
  \/ RequestDiscard
  \/ CancelPrompt
  \/ MarkIn
  \/ MarkOut
  \/ ClearIn
  \/ ClearOut
  \/ ClearInAndOut
  \/ SelectSuggestion
  \/ MoveBoundary
  \/ RippleDelete
  \/ Trim
  \/ ToggleSmoothCut
  \/ Reset
  \/ Undo
  \/ Redo
  \/ ConfirmDiscard
  \/ PollExport
  \/ StartExport
  \/ EndExport
  \/ Handle

Spec == Init /\ [][Next]_vars

-----------------------------------------------------------------------------
(* Properties *)

\* The document is what EditDecisions says of it: a set of kept units and of
\* smooth cuts, one line of revisions, and exports known by what they were
\* given, with no edit discarded under a running export.
Abstract(decisions) ==
  LET ranges == decisions.ranges
  IN  [kept |-> UNION {ranges[i].start..(ranges[i].end - 1) : i \in DOMAIN ranges},
       smooth |-> {<<ranges[i].end - 1, ranges[i + 1].start>> :
                     i \in {j \in DOMAIN decisions.smooth : decisions.smooth[j]}}]

History == undo \o <<document>> \o Reverse(redo)

Decisions == INSTANCE EditDecisions WITH
  revisions <- [i \in DOMAIN History |-> Abstract(History[i])],
  at <- Len(undo) + 1,
  exported <- {Abstract(decisions) : decisions \in exported},
  job <- IF job.phase = "none" THEN [kept |-> {}, smooth |-> {}]
         ELSE Abstract(job.of),
  writing <- job.phase = "running"

KeepsDecisions == Decisions!Spec

\* README.md: handles clamp instead of crossing.  Two marks, however they came
\* about, leave a frame between them as far as the program has one there, and
\* a closed editor has none.
HandlesDoNotCross ==
  LET start == PresentationOf(document.ranges, inUs)
      end == PresentationOf(document.ranges, outUs)
  IN  /\ inUs # None /\ outUs # None =>
           /\ start <= end
           /\ \/ end - start >= Frame
              \/ end < Frame
              \/ start > ProgramLength(document.ranges) - Frame
      /\ ~active => inUs = None /\ outUs = None

\* The program, content by content.
Content(ranges) ==
  [p \in 1..ProgramLength(ranges) |-> SourceAt(ranges, p - 1)]

\* What is removed or kept is what the two handles enclose on the program
\* timeline, although the marks are kept in source time and may lie in media
\* that was removed long before.
SelectionIsEdited ==
  LET start == PresentationOf(document.ranges, inUs)
      end == PresentationOf(document.ranges, outUs)
      shown == Content(document.ranges)
      next == Content(document'.ranges)
  IN  /\ RippleDelete =>
           next = SubSeq(shown, 1, start) \o SubSeq(shown, end + 1, Len(shown))
      /\ Trim => next = SubSeq(shown, start + 1, end)

EditsWhatIsSelected == [][SelectionIsEdited]_vars

\* Once the player has handled what was posted, it plays the document, unless
\* a projection was refused since its last sequence.
PlayerFollows == queue = <<>> /\ ~outdated => program = document

\* README.md: committed edits become the program playback immediately.  As
\* far as the workspace is concerned they do, when it did not have to say that
\* the preview is unavailable.
CommittedEditIsPlayed == queue = <<>> /\ accepted => program = document

=============================================================================
