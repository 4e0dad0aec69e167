----------------------------- MODULE MCPlayback -----------------------------
(***************************************************************************)
(* Interactive playback for TLC, from its two ends: the sessions of the    *)
(* shell, for which a lease is ready or is not, and the leases with the    *)
(* separation job that has to make room.  Which end a behaviour shows is   *)
(* chosen at the start and the other one never moves.                      *)
(***************************************************************************)
EXTENDS InteractivePlayback

CONSTANTS Revisions, MaxSessions, MaxRequests, MaxDrops

VARIABLES end, app

Shell == INSTANCE PlaybackHandoff

-----------------------------------------------------------------------------

MCInit ==
  /\ end \in {"sessions", "leases"}
  /\ LeaseInit
  /\ Shell!Init

MCNext ==
  \/ end = "leases" /\ LeaseNext /\ UNCHANGED <<end, app>>
  \/ end = "sessions" /\ Shell!Next /\ UNCHANGED <<end, allVars>>

\* What the leases owe in the end is checked in MCMediaCoordinator.  That a lease
\* becomes ready is not assumed.
MCSpec ==
  /\ MCInit /\ [][MCNext]_<<end, allVars, app>>
  /\ WF_app(end = "sessions" /\ Shell!StoppedSessionCloses)
  /\ WF_app(end = "sessions" /\ Shell!PollGoesOn)

-----------------------------------------------------------------------------
(* Properties: those of the shell and its sessions *)

\* No unexported edit is lost that the user was not asked about, unless it was
\* made after the session had asked to hand over, or the picture fails.
EditsAreKept == Shell!EditsAreKept

\* The shell's workflow and the session agree on the handoff under way.
HandoffsAgree == Shell!HandoffsAgree

\* The lease is there for a playback, and for nothing else.
LeaseCoversPlayback == Shell!LeaseCoversPlayback

\* A session that was left to quit is the last thing that happens.
QuitPreempts == Shell!QuitPreempts

\* A command that waits for a session to end, or for the GPU, runs, unless its lease
\* is not ready, for good or again and again: nothing else holds it back for ever.
RetainedCommandRuns == Shell!RetainedCommandRuns
=============================================================================
