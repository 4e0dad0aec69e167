----------------------------- MODULE MCEditing -----------------------------
(***************************************************************************)
(* What becomes of the user's edits and files, for TLC: the transactional  *)
(* output of a group of files, and the video editor four times, each with *)
(* the bounds that one side of it needs.  They share nothing here: "which" *)
(* is chosen at the start and the others never move.  The instances are of *)
(* EditWorkspaceProofs, which is EditWorkspace with its theorems.          *)
(***************************************************************************)
EXTENDS FileOutputGroup

VARIABLES
  which,
  document, undo, redo, exported, inUs, outUs, active, prompt, job, program,
  queue, accepted, outdated

Suggested(from, to) == [start |-> from, end |-> to]

\* The marks: every position of the timeline, and frames of two units.
Marks == INSTANCE EditWorkspaceProofs WITH
  Duration <- 4, Frame <- 2, MinBefore <- 1, MinAfter <- 2, MinBetween <- 3,
  Positions <- 0..4, Suggestions <- {},
  MaxHistory <- 2, MaxExports <- 0, MaxQueue <- 1

\* The exports: one range to remove or to keep, and two exported revisions.
Exports == INSTANCE EditWorkspaceProofs WITH
  Duration <- 4, Frame <- 1, MinBefore <- 1, MinAfter <- 2, MinBetween <- 3,
  Positions <- {}, Suggestions <- {Suggested(1, 2)},
  MaxHistory <- 2, MaxExports <- 2, MaxQueue <- 1

\* The preview: longer histories, and smooth cuts that do not fit any more.
Preview == INSTANCE EditWorkspaceProofs WITH
  Duration <- 4, Frame <- 1, MinBefore <- 1, MinAfter <- 2, MinBetween <- 3,
  Positions <- {}, Suggestions <- {Suggested(1, 2), Suggested(0, 3)},
  MaxHistory <- 3, MaxExports <- 0, MaxQueue <- 1

\* Projections that queue up.  No bound of the others is wider, so that each
\* of their commands is one of these.
Ahead == INSTANCE EditWorkspaceProofs WITH
  Duration <- 4, Frame <- 1, MinBefore <- 1, MinAfter <- 2, MinBetween <- 3,
  Positions <- {}, Suggestions <- {Suggested(1, 2)},
  MaxHistory <- 3, MaxExports <- 0, MaxQueue <- 2

-----------------------------------------------------------------------------

editVars == <<document, undo, redo, exported, inUs, outUs, active, prompt,
              job, program, queue, accepted, outdated>>

MCInit ==
  /\ which \in {"output", "marks", "exports", "preview", "ahead"}
  /\ Init
  /\ Ahead!Init
  /\ which # "output" =>
       mode = [e \in Entry |-> "CreateNew"] /\ had = [e \in Entry |-> FALSE]

OthersRest ==
  /\ UNCHANGED which
  /\ which = "output" => UNCHANGED editVars
  /\ which # "output" => UNCHANGED vars

MCNext ==
  \/ which = "output" /\ Next /\ OthersRest
  \/ which = "marks" /\ Marks!Next /\ OthersRest
  \/ which = "exports" /\ Exports!Next /\ OthersRest
  \/ which = "preview" /\ Preview!Next /\ OthersRest
  \/ which = "ahead" /\ Ahead!Next /\ OthersRest

MCSpec == MCInit /\ [][MCNext]_<<which, vars, editVars>>

-----------------------------------------------------------------------------
(* Properties: the editor's, whichever side of it moves *)

\* The history, the discards and the exports are those of EditDecisions.
KeepsDecisions == Ahead!KeepsDecisions

\* What is removed or kept is what the handles enclose on the timeline.
EditsWhatIsSelected == Ahead!EditsWhatIsSelected

\* The handles never cross and keep a frame between them where there is one.
HandlesDoNotCross ==
  /\ which = "marks" => Marks!HandlesDoNotCross
  /\ which # "marks" => Ahead!HandlesDoNotCross

\* The player comes to play the document unless a projection was refused.
PlayerFollows == Ahead!PlayerFollows

=============================================================================
