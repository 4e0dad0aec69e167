---------------------------- MODULE EditDecisions ----------------------------
(***************************************************************************)
(* What the video editor promises of the user's decisions: which units of  *)
(* the source are kept and which cuts are smooth, a line of revisions that *)
(* can be walked back and forth, and the revisions that are known to be    *)
(* exported.  How ranges, stacks and the preview are kept is not its       *)
(* business; module EditWorkspace is.                                      *)
(***************************************************************************)
EXTENDS Naturals, Sequences

CONSTANT Duration     \* the units of the source are 0 .. Duration-1

VARIABLES
  revisions,   \* every revision that undo or redo leads to, in order
  at,          \* which of them is the current one
  exported,    \* the revisions known to be on disk
  job,         \* the revision the last export was started with
  writing      \* whether that export runs

vars == <<revisions, at, exported, job, writing>>

Units == 0..(Duration - 1)
Whole == [kept |-> Units, smooth |-> {}]

\* Nothing was exported yet, or what was has been accounted for.
NoJob == [kept |-> {}, smooth |-> {}]

\* The cuts of a program: a kept unit, and the next one behind a gap.
Cuts(kept) ==
  {cut \in kept \X kept :
     LET between == (cut[1] + 1)..(cut[2] - 1)
     IN  between # {} /\ between \cap kept = {}}

Current == revisions[at]

Init ==
  /\ revisions = <<Whole>>
  /\ at = 1
  /\ exported = {}
  /\ job = NoJob
  /\ writing = FALSE

\* A smooth cut stays smooth for as long as both its ends stay ends.
Keeping(kept) == [kept |-> kept, smooth |-> Current.smooth \cap Cuts(kept)]

\* Keep a section only, or remove it, but never everything.
Sections == {from..to : from, to \in Units} \ {{}}
Shorter ==
  {Keeping(kept) : kept \in
     ({Current.kept \cap section : section \in Sections} \cup
      {Current.kept \ section : section \in Sections}) \ {{}}}

\* Make a smooth cut hard or a hard one smooth.
Toggled ==
  {[Current EXCEPT !.smooth = (@ \ {cut}) \cup ({cut} \ @)] :
     cut \in Cuts(Current.kept)}

\* A new revision, as short as that or the source as a whole, takes the place
\* of every one that was undone.
Decide ==
  /\ at' = at + 1
  /\ \E next \in (Shorter \cup Toggled \cup {Whole}) \ {Current} :
       revisions' = Append(SubSeq(revisions, 1, at), next)
  /\ UNCHANGED <<exported, job, writing>>

Undo ==
  /\ at > 1
  /\ at' = at - 1
  /\ UNCHANGED <<revisions, exported, job, writing>>

Redo ==
  /\ at' = at + 1
  /\ at < Len(revisions)
  /\ UNCHANGED <<revisions, exported, job, writing>>

\* All edits are given up for good, but never under a running export.
Discard ==
  /\ ~writing
  /\ at' = 1
  /\ Current # Whole
  /\ revisions' = <<Whole>>
  /\ UNCHANGED <<exported, job, writing>>

\* An export that ended is accounted for: as a success, or as nothing.
Account == exported' \in {exported, exported \cup ({job} \ {NoJob})}

StartExport ==
  /\ ~writing
  /\ writing' = TRUE
  /\ Current # Whole
  /\ Account
  /\ job' = Current
  /\ UNCHANGED <<revisions, at>>

EndExport ==
  /\ writing
  /\ writing' = FALSE
  /\ UNCHANGED <<revisions, at, exported, job>>

ApplyExport ==
  /\ ~writing
  /\ Account
  /\ job' = NoJob
  /\ UNCHANGED <<revisions, at, writing>>

Next ==
  \/ Decide
  \/ Undo
  \/ Redo
  \/ Discard
  \/ StartExport
  \/ EndExport
  \/ ApplyExport

Spec == Init /\ [][Next]_vars

=============================================================================
