-------------------------- MODULE FileOutputGroup --------------------------
(***************************************************************************)
(* core/file_output.cpp, TransactionGroup: a set of files is produced      *)
(* beside its destinations and then put in place together.  A destination  *)
(* that may be replaced is first set aside as a backup; when a step of the *)
(* publication fails, rollback() takes back what was published and puts    *)
(* the backups back, and the destructor, by way of discard(), tries once   *)
(* more and removes what is left.                                          *)
(*                                                                         *)
(* Every call of the file system is a step and may fail, and the process   *)
(* may die between any two; another program may create a file where there  *)
(* is none.  MoveFileExW() refuses an existing destination in one step:    *)
(* this is the Windows build, the only one the project ships.              *)
(*                                                                         *)
(* A file is known by whose content it has.  Left out: the names of        *)
(* temporaries, the checks of the paths, the error texts, and a producer's *)
(* half-written temporary, which nothing publishes.                        *)
(***************************************************************************)
EXTENDS Integers

CONSTANTS
  N,            \* destinations of the group
  MaxFaults     \* bound on the calls of the file system that fail

FileOutputAssumption == N \in Nat \ {0} /\ MaxFaults \in Nat

ASSUME FileOutputAssumption

VARIABLES
  \* what the group is asked for
  mode,           \* of each destination, its PublishMode
  had,            \* whether there was a file before
  \* the disk
  dest,           \* of each destination, the file there, or "absent"
  temporary,      \* its temporary
  backup,         \* its backup
  \* the group: Entry, entries_ and published_
  hasTemporary,   \* entry.temporary names a file
  hasBackup,      \* entry.backup does
  backupActive,
  stagedPublished,
  size,           \* entries_.size()
  published,
  \* the thread
  step, at,       \* the call it is to make, for the entry `at'
  restored,       \* rollback() has restored all so far
  caller,         \* of rollback(): "publish" or "discard"
  result,         \* of publish()
  faults

request == <<mode, had>>
disk == <<dest, temporary, backup>>
flags == <<hasTemporary, hasBackup, backupActive, stagedPublished>>
vars == <<request, disk, flags, size, published, step, at, restored, caller,
          result, faults>>

Entry == 1 .. N

File == {"absent", "reserved", "old", "foreign", "new"}

Steps == {"reserve", "produce", "inspect", "reserveBackup", "setAside", "unreserve",
          "publish", "removeBackup", "unpublish", "putBack", "returned",
          "removeTemporary", "removeIdleBackup", "done", "dead"}

Init ==
  /\ mode \in [Entry -> {"CreateNew", "ReplaceExisting"}]
  /\ had \in [Entry -> BOOLEAN]
  /\ dest = [e \in Entry |-> IF had[e] THEN "old" ELSE "absent"]
  /\ temporary = [e \in Entry |-> "absent"]
  /\ backup = [e \in Entry |-> "absent"]
  /\ hasTemporary = [e \in Entry |-> FALSE]
  /\ hasBackup = [e \in Entry |-> FALSE]
  /\ backupActive = [e \in Entry |-> FALSE]
  /\ stagedPublished = [e \in Entry |-> FALSE]
  /\ size = 0 /\ published = FALSE
  /\ step = "reserve" /\ at = 1
  /\ restored = TRUE /\ caller = "publish" /\ result = "none" /\ faults = 0

-----------------------------------------------------------------------------
(* Steps of the thread.                                                    *)

Goes(place) == step' = place /\ UNCHANGED at

(***************************************************************************)
(* The next entry, or, past the last of them, the next part.               *)
(***************************************************************************)
NextEntry(place, after) ==
  IF at < size THEN step' = place /\ at' = at + 1
               ELSE step' = after /\ at' = 1

\* rollback() and what follows it, entered from the last entry.
RollsBack == step' = "unpublish" /\ at' = size /\ restored' = TRUE

Discards == caller' = "discard" /\ RollsBack

Fault == faults < MaxFaults /\ faults' = faults + 1

(***************************************************************************)
(* TransactionGroup::begin(): a destination of its own for each file, and  *)
(* a temporary beside it.                                                  *)
(***************************************************************************)
Reserve ==
  /\ step = "reserve"
  /\ mode[at] = "CreateNew" => dest[at] = "absent"
  /\ size' = at
  /\ temporary' = [temporary EXCEPT ![at] = "reserved"]
  /\ hasTemporary' = [hasTemporary EXCEPT ![at] = TRUE]
  /\ IF at < N THEN step' = "reserve" /\ at' = at + 1
               ELSE step' = "produce" /\ at' = 1
  /\ UNCHANGED <<request, dest, backup, hasBackup, backupActive, stagedPublished,
                 published, restored, caller, result, faults>>

RefuseToBegin ==
  /\ step = "reserve"
  /\ \/ mode[at] = "CreateNew" /\ dest[at] # "absent" /\ UNCHANGED faults
     \/ Fault
  /\ Discards
  /\ UNCHANGED <<request, disk, flags, size, published, result>>

Produce ==
  /\ step = "produce"
  /\ temporary' = [e \in Entry |-> "new"]
  /\ Goes("inspect")
  /\ UNCHANGED <<request, dest, backup, flags, size, published, restored, caller,
                 result, faults>>

(***************************************************************************)
(* A producer that fails or is cancelled drops the group.                  *)
(***************************************************************************)
Abandon ==
  /\ step = "produce"
  /\ Discards
  /\ UNCHANGED <<request, disk, flags, size, published, result, faults>>

-----------------------------------------------------------------------------
(* publish(), its first loop.                                              *)

Inspect ==
  /\ step = "inspect"
  /\ IF mode[at] = "ReplaceExisting" /\ dest[at] # "absent"
       THEN Goes("reserveBackup")
       ELSE NextEntry("inspect", "publish")
  /\ UNCHANGED <<request, disk, flags, size, published, restored, caller, result,
                 faults>>

ReserveBackup ==
  /\ step = "reserveBackup"
  /\ backup' = [backup EXCEPT ![at] = "reserved"]
  /\ hasBackup' = [hasBackup EXCEPT ![at] = TRUE]
  /\ Goes("setAside")
  /\ UNCHANGED <<request, dest, temporary, hasTemporary, backupActive,
                 stagedPublished, size, published, restored, caller, result, faults>>

SetAside ==
  /\ step = "setAside"
  /\ backup' = [backup EXCEPT ![at] = dest[at]]
  /\ dest' = [dest EXCEPT ![at] = "absent"]
  /\ backupActive' = [backupActive EXCEPT ![at] = TRUE]
  /\ NextEntry("inspect", "publish")
  /\ UNCHANGED <<request, temporary, hasTemporary, hasBackup, stagedPublished, size,
                 published, restored, caller, result, faults>>

FailToSetAside ==
  /\ step = "setAside" /\ Fault
  /\ Goes("unreserve")
  /\ UNCHANGED <<request, disk, flags, size, published, restored, caller, result>>

(***************************************************************************)
(* The reserved backup goes, or stays if it cannot be removed.             *)
(***************************************************************************)
Unreserve ==
  /\ step = "unreserve"
  /\ \/ backup' = [backup EXCEPT ![at] = "absent"] /\ UNCHANGED faults
     \/ Fault /\ UNCHANGED backup
  /\ hasBackup' = [hasBackup EXCEPT ![at] = FALSE]
  /\ RollsBack
  /\ UNCHANGED <<request, dest, temporary, hasTemporary, backupActive,
                 stagedPublished, size, published, caller, result>>

-----------------------------------------------------------------------------
(* publish(), its second loop and, once all is in place, its third.        *)

\* A slip: the move replaces whatever there is.
PublishOver ==
  /\ step = "publish"
  /\ dest' = [dest EXCEPT ![at] = "new"]
  /\ temporary' = [temporary EXCEPT ![at] = "absent"]
  /\ hasTemporary' = [hasTemporary EXCEPT ![at] = FALSE]
  /\ stagedPublished' = [stagedPublished EXCEPT ![at] = TRUE]
  /\ NextEntry("publish", "removeBackup")
  /\ UNCHANGED <<request, backup, hasBackup, backupActive, size, published, restored,
                 caller, result, faults>>

Publish ==
  /\ step = "publish" /\ dest[at] = "absent"
  /\ dest' = [dest EXCEPT ![at] = "new"]
  /\ temporary' = [temporary EXCEPT ![at] = "absent"]
  /\ hasTemporary' = [hasTemporary EXCEPT ![at] = FALSE]
  /\ stagedPublished' = [stagedPublished EXCEPT ![at] = TRUE]
  /\ NextEntry("publish", "removeBackup")
  /\ UNCHANGED <<request, backup, hasBackup, backupActive, size, published, restored,
                 caller, result, faults>>

FailToPublish ==
  /\ \/ step \in {"inspect", "reserveBackup"} /\ Fault
     \/ step = "publish" /\ Fault
     \/ step = "publish" /\ dest[at] # "absent" /\ UNCHANGED faults
  /\ RollsBack
  /\ UNCHANGED <<request, disk, flags, size, published, caller, result>>

RemoveBackup ==
  /\ step = "removeBackup"
  /\ \/ ~backupActive[at] /\ UNCHANGED <<backup, faults>>
     \/ /\ backupActive[at]
        /\ \/ backup' = [backup EXCEPT ![at] = "absent"] /\ UNCHANGED faults
           \/ Fault /\ UNCHANGED backup
  /\ hasBackup' = [hasBackup EXCEPT ![at] = @ /\ ~backupActive[at]]
  /\ backupActive' = [backupActive EXCEPT ![at] = FALSE]
  /\ stagedPublished' = [stagedPublished EXCEPT ![at] = FALSE]
  /\ NextEntry("removeBackup", "returned")
  /\ IF at = size THEN published' = TRUE /\ result' = "ok"
                  ELSE UNCHANGED <<published, result>>
  /\ UNCHANGED <<request, dest, temporary, hasTemporary, size, restored, caller>>

-----------------------------------------------------------------------------
(* rollback(), from the last entry to the first.                           *)

\* A slip: what cannot be removed is forgotten.
UnpublishOnce ==
  /\ step = "unpublish" /\ at > 0
  /\ \/ dest' = [dest EXCEPT ![at] = IF stagedPublished[at] THEN "absent" ELSE @]
        /\ UNCHANGED faults
     \/ Fault /\ UNCHANGED dest
  /\ stagedPublished' = [stagedPublished EXCEPT ![at] = FALSE]
  /\ Goes("putBack")
  /\ UNCHANGED <<request, temporary, backup, hasTemporary, hasBackup, backupActive,
                 size, published, restored, caller, result>>

Unpublish ==
  /\ step = "unpublish" /\ at > 0
  /\ \/ /\ ~stagedPublished[at]
        /\ UNCHANGED <<dest, stagedPublished, restored, faults>>
     \/ /\ stagedPublished[at]
        /\ dest' = [dest EXCEPT ![at] = "absent"]
        /\ stagedPublished' = [stagedPublished EXCEPT ![at] = FALSE]
        /\ UNCHANGED <<restored, faults>>
     \/ /\ stagedPublished[at] /\ Fault
        /\ restored' = FALSE
        /\ UNCHANGED <<dest, stagedPublished>>
  /\ Goes("putBack")
  /\ UNCHANGED <<request, temporary, backup, hasTemporary, hasBackup, backupActive,
                 size, published, caller, result>>

\* A slip: a backup that cannot be put back is no longer one.
PutBackOnce ==
  /\ step = "putBack"
  /\ \/ backupActive[at] /\ dest' = [dest EXCEPT ![at] = backup[at]]
        /\ backup' = [backup EXCEPT ![at] = "absent"] /\ UNCHANGED <<restored, faults>>
     \/ ~backupActive[at] /\ UNCHANGED <<dest, backup, restored, faults>>
     \/ backupActive[at] /\ Fault /\ restored' = FALSE /\ UNCHANGED <<dest, backup>>
  /\ backupActive' = [backupActive EXCEPT ![at] = FALSE]
  /\ step' = "unpublish" /\ at' = at - 1
  /\ UNCHANGED <<request, temporary, hasTemporary, hasBackup, stagedPublished, size,
                 published, caller, result>>

PutBack ==
  /\ step = "putBack"
  /\ \/ /\ ~backupActive[at]
        /\ UNCHANGED <<dest, backup, hasBackup, backupActive, stagedPublished, restored,
                       faults>>
     \/ /\ backupActive[at]
        /\ dest' = [dest EXCEPT ![at] = backup[at]]
        /\ backup' = [backup EXCEPT ![at] = "absent"]
        /\ hasBackup' = [hasBackup EXCEPT ![at] = FALSE]
        /\ backupActive' = [backupActive EXCEPT ![at] = FALSE]
        /\ stagedPublished' = [stagedPublished EXCEPT ![at] = FALSE]
        /\ UNCHANGED <<restored, faults>>
     \/ /\ backupActive[at] /\ Fault
        /\ restored' = FALSE
        /\ UNCHANGED <<dest, backup, hasBackup, backupActive, stagedPublished>>
  /\ step' = "unpublish" /\ at' = at - 1
  /\ UNCHANGED <<request, temporary, hasTemporary, size, published, caller, result>>

EndRollback ==
  /\ step = "unpublish" /\ at = 0
  /\ IF caller = "publish"
       THEN step' = "returned" /\ at' = 1 /\ result' = "failed"
       ELSE /\ step' = IF size = 0 THEN "done" ELSE "removeTemporary"
            /\ at' = 1 /\ UNCHANGED result
  /\ UNCHANGED <<request, disk, flags, size, published, restored, caller, faults>>

-----------------------------------------------------------------------------
(* discard(), from the destructor, after the rollback it begins with.      *)

Destroy ==
  /\ step = "returned"
  /\ IF published THEN Goes("done") /\ UNCHANGED <<restored, caller>> ELSE Discards
  /\ UNCHANGED <<request, disk, flags, size, published, result, faults>>

\* A slip: only the temporaries of a failed publication are removed.
RemoveTemporaryOfFailed ==
  /\ step = "removeTemporary"
  /\ IF hasTemporary[at] /\ result = "failed"
       THEN temporary' = [temporary EXCEPT ![at] = "absent"]
       ELSE UNCHANGED temporary
  /\ hasTemporary' = [hasTemporary EXCEPT ![at] = FALSE]
  /\ Goes("removeIdleBackup")
  /\ UNCHANGED <<request, dest, backup, hasBackup, backupActive, stagedPublished,
                 size, published, restored, caller, result, faults>>

RemoveTemporary ==
  /\ step = "removeTemporary"
  /\ \/ /\ hasTemporary[at]
        /\ temporary' = [temporary EXCEPT ![at] = "absent"]
        /\ UNCHANGED faults
     \/ hasTemporary[at] /\ Fault /\ UNCHANGED temporary
     \/ ~hasTemporary[at] /\ UNCHANGED <<temporary, faults>>
  /\ hasTemporary' = [hasTemporary EXCEPT ![at] = FALSE]
  /\ Goes("removeIdleBackup")
  /\ UNCHANGED <<request, dest, backup, hasBackup, backupActive, stagedPublished,
                 size, published, restored, caller, result>>

RemoveIdleBackup ==
  /\ step = "removeIdleBackup"
  /\ \/ /\ hasBackup[at] /\ ~backupActive[at]
        /\ backup' = [backup EXCEPT ![at] = "absent"]
        /\ hasBackup' = [hasBackup EXCEPT ![at] = FALSE]
        /\ UNCHANGED faults
     \/ /\ hasBackup[at] /\ ~backupActive[at] /\ Fault
        /\ hasBackup' = [hasBackup EXCEPT ![at] = FALSE]
        /\ UNCHANGED backup
     \/ ~(hasBackup[at] /\ ~backupActive[at]) /\ UNCHANGED <<backup, hasBackup, faults>>
  /\ NextEntry("removeTemporary", "done")
  /\ UNCHANGED <<request, dest, temporary, hasTemporary, backupActive,
                 stagedPublished, size, published, restored, caller, result>>

-----------------------------------------------------------------------------
(* The process dies; another program creates a file.                       *)

Crash ==
  /\ step \notin {"done", "dead"}
  /\ step' = "dead"
  /\ UNCHANGED <<request, disk, flags, size, published, at, restored, caller, result,
                 faults>>

CreateForeign(e) ==
  /\ dest[e] = "absent"
  /\ dest' = [dest EXCEPT ![e] = "foreign"]
  /\ UNCHANGED <<request, temporary, backup, flags, size, published, step, at,
                 restored, caller, result, faults>>

Next ==
  \/ Reserve \/ RefuseToBegin \/ Produce \/ Abandon
  \/ Inspect \/ ReserveBackup \/ SetAside \/ FailToSetAside \/ Unreserve
  \/ Publish \/ FailToPublish \/ RemoveBackup
  \/ Unpublish \/ PutBack \/ EndRollback
  \/ Destroy \/ RemoveTemporary \/ RemoveIdleBackup
  \/ Crash \/ \E e \in Entry : CreateForeign(e)

Spec == Init /\ [][Next]_vars

-----------------------------------------------------------------------------
(* Properties.                                                             *)

TypeOK ==
  /\ mode \in [Entry -> {"CreateNew", "ReplaceExisting"}]
  /\ had \in [Entry -> BOOLEAN]
  /\ dest \in [Entry -> {"absent", "old", "foreign", "new"}]
  /\ temporary \in [Entry -> {"absent", "reserved", "new"}]
  /\ backup \in [Entry -> {"absent", "reserved", "old", "foreign"}]
  /\ hasTemporary \in [Entry -> BOOLEAN]
  /\ hasBackup \in [Entry -> BOOLEAN]
  /\ backupActive \in [Entry -> BOOLEAN]
  /\ stagedPublished \in [Entry -> BOOLEAN]
  /\ size \in 0 .. N /\ published \in BOOLEAN
  /\ step \in Steps /\ at \in 0 .. N
  /\ restored \in BOOLEAN /\ caller \in {"publish", "discard"}
  /\ result \in {"none", "ok", "failed"} /\ faults \in 0 .. MaxFaults

(***************************************************************************)
(* Whatever fails and wherever the process dies, a file that was there     *)
(* before is on the disk, at its place or as a backup, until every file of *)
(* the group is in place (publish() removes the backups in a loop of its   *)
(* own, after the last move; rollback() and discard() keep a backup they   *)
(* could not move).                                                        *)
(***************************************************************************)
OldIsKept ==
  \A e \in Entry :
    had[e] => \/ "old" \in {dest[e], backup[e]}
              \/ \A d \in Entry : dest[d] = "new"

(***************************************************************************)
(* When publish() returns TRUE every file of the group is in place.  When  *)
(* the group is gone otherwise, and its last rollback met no failure, none *)
(* is, and each file that was replaced is back.                            *)
(***************************************************************************)
AllOrNothing ==
  /\ step = "returned" /\ result = "ok" => \A e \in Entry : dest[e] = "new"
  /\ step = "done" /\ result # "ok" /\ restored =>
       \A e \in Entry : dest[e] # "new" /\ (had[e] => dest[e] = "old")

(***************************************************************************)
(* A file that another program created, after begin() looked, where a new  *)
(* one is to go is neither replaced nor removed: not by publish(), and not *)
(* by the rollback after it.                                               *)
(***************************************************************************)
ForeignIsKept ==
  [][\A e \in Entry :
       mode[e] = "CreateNew" /\ dest[e] = "foreign" => dest'[e] = "foreign"]_vars

(***************************************************************************)
(* A group that met no failure of the file system, and was not cut short,  *)
(* leaves no temporary and no backup behind, whether it was published,     *)
(* refused for a file that was in the way, or dropped by its owner.        *)
(***************************************************************************)
NothingIsLeft ==
  step = "done" /\ faults = 0 =>
    \A e \in Entry : temporary[e] = "absent" /\ backup[e] = "absent"
=============================================================================
