-------------------------- MODULE MCEditWorkspace --------------------------
(***************************************************************************)
(* An instance of EditWorkspace for TLC: two ranges to remove or to keep,  *)
(* of which the second leaves too little beside the cut of the first, and  *)
(* no playhead.                                                            *)
(***************************************************************************)
EXTENDS EditWorkspace

TwoSuggestions == {Clip(1, 2), Clip(0, 3)}
NoPositions == {}
=============================================================================
