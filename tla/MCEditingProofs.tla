-------------------------- MODULE MCEditingProofs --------------------------
(***************************************************************************)
(* Proofs about what MCEditing puts side by side: the promises of the      *)
(* transactional output of files, for every number of files and of failing *)
(* calls, and, from the lemmas of EditWorkspaceProofs, all that is checked *)
(* of the editor in each of its four instances.                            *)
(***************************************************************************)
EXTENDS MCEditing, TLAPS

-----------------------------------------------------------------------------
(* The output of a group of files                                           *)

FirstLoop == {"inspect", "reserveBackup", "setAside", "unreserve"}
Forward == {"produce", "publish", "removeBackup"} \cup FirstLoop

AllNew == \A d \in Entry : dest[d] = "new"

\* Where the thread is among the entries, and which it has not reached yet.
PlaceInv ==
  /\ step = "reserve" => at = size + 1 /\ at \in Entry
  /\ step \in Forward => size = N /\ at \in Entry
  /\ step = "produce" => at = 1
  /\ step \in {"putBack", "removeTemporary", "removeIdleBackup"} =>
       at \in 1 .. size
  /\ step = "unpublish" => at <= size
  /\ \A e \in Entry : e > size =>
       /\ ~backupActive[e] /\ ~stagedPublished[e]
       /\ temporary[e] = "absent" /\ backup[e] = "absent"

\* Before the second loop nothing is published, and no entry from the current
\* one on is set aside.
BeforeInv ==
  /\ step \in {"reserve", "produce"} \cup FirstLoop =>
       \A e \in Entry : ~stagedPublished[e] /\ (e >= at => ~backupActive[e])
  /\ step \in {"reserve", "produce"} =>
       \A e \in Entry : ~hasBackup[e] /\ ~backupActive[e]
  /\ step \in {"reserveBackup", "setAside"} =>
       mode[at] = "ReplaceExisting" /\ dest[at] \in {"old", "foreign"}
  /\ step = "setAside" => hasBackup[at]

\* What the two flags of an entry say of its files.
FlagInv ==
  \A e \in Entry :
    /\ backupActive[e] =>
         mode[e] = "ReplaceExisting" /\ backup[e] \in {"old", "foreign"}
    /\ stagedPublished[e] => dest[e] = "new"
    /\ dest[e] = "new" =>
         stagedPublished[e] \/ step \in {"removeBackup", "dead"} \/ published

PublishInv ==
  /\ step = "publish" => \A d \in Entry : d < at => dest[d] = "new"
  /\ step = "removeBackup" \/ published => AllNew
  /\ published => step \in {"returned", "done", "dead"}
  /\ published <=> result = "ok"

\* Where a file that was there before is.
KeptInv ==
  \A e \in Entry : had[e] =>
    \/ dest[e] = "old" /\ ~backupActive[e] /\ ~stagedPublished[e]
    \/ backup[e] = "old" /\ backupActive[e]
    \/ AllNew /\ (step \in {"removeBackup", "dead"} \/ published)

\* A rollback without a failure leaves nothing published or set aside behind.
RollbackInv ==
  restored /\ ~published =>
    /\ step \in {"unpublish", "putBack"} =>
         \A e \in Entry : e > at => ~stagedPublished[e] /\ ~backupActive[e]
    /\ step = "putBack" => ~stagedPublished[at]
    /\ step \in {"removeTemporary", "removeIdleBackup", "done"} =>
         \A e \in Entry : ~stagedPublished[e] /\ ~backupActive[e]

Clean(e) == temporary[e] = "absent" /\ backup[e] = "absent"

\* What a group that met no failure has of temporaries and backups.
CleanInv ==
  faults = 0 =>
    /\ restored
    /\ \A e \in Entry :
         /\ hasTemporary[e] <=> temporary[e] # "absent"
         /\ hasBackup[e] <=> backup[e] # "absent"
         /\ step \in Forward /\ hasBackup[e] =>
              \/ backupActive[e]
              \/ step = "setAside" /\ e = at
    /\ step = "reserve" => \A e \in Entry : e < at => hasTemporary[e]
    /\ step = "produce" => \A e \in Entry : hasTemporary[e]
    /\ step # "unreserve"
    /\ step = "publish" =>
         \A e \in Entry : e < at => temporary[e] = "absent"
    /\ step = "removeBackup" =>
         \A e \in Entry : temporary[e] = "absent" /\ (e < at => Clean(e))
    /\ step \in {"removeTemporary", "removeIdleBackup"} =>
         \A e \in Entry : e < at => Clean(e)
    /\ step = "removeIdleBackup" => temporary[at] = "absent"
    /\ published \/ step = "done" => \A e \in Entry : Clean(e)

IInv ==
  /\ TypeOK
  /\ PlaceInv
  /\ BeforeInv
  /\ FlagInv
  /\ PublishInv
  /\ KeptInv
  /\ RollbackInv
  /\ CleanInv

(***************************************************************************)
(* The inductive invariant of the group: IInv holds in every state that    *)
(* any sequence of failures, of other programs' files and a death of the   *)
(* process can lead to.                                                    *)
(***************************************************************************)
THEOREM Inductive == Spec => []IInv
<1> USE FileOutputAssumption
    DEF FileOutputAssumption, Entry, Steps, FirstLoop, Forward, Fault, Goes,
        NextEntry, RollsBack, Discards, AllNew, Clean, request, disk, flags
<1>1. Init => IInv
  <2> SUFFICES ASSUME Init PROVE IInv
    OBVIOUS
  <2>1. TypeOK
    <3>1. dest \in [Entry -> {"absent", "old", "foreign", "new"}]
      BY DEF Init
    <3>2. /\ temporary \in [Entry -> {"absent", "reserved", "new"}]
          /\ backup \in [Entry -> {"absent", "reserved", "old", "foreign"}]
      BY DEF Init
    <3>3. /\ hasTemporary \in [Entry -> BOOLEAN]
          /\ hasBackup \in [Entry -> BOOLEAN]
          /\ backupActive \in [Entry -> BOOLEAN]
          /\ stagedPublished \in [Entry -> BOOLEAN]
      BY DEF Init
    <3>4. size \in 0 .. N /\ step \in Steps /\ at \in 0 .. N /\ faults \in 0 .. MaxFaults
      BY DEF Init
    <3> QED
      BY <3>1, <3>2, <3>3, <3>4 DEF Init, TypeOK
  <2>2. PlaceInv
    BY DEF Init, PlaceInv
  <2>3. BeforeInv
    BY DEF Init, BeforeInv
  <2>4. FlagInv
    BY DEF Init, FlagInv
  <2>5. PublishInv
    BY DEF Init, PublishInv
  <2>6. KeptInv
    BY DEF Init, KeptInv
  <2>7. RollbackInv
    BY DEF Init, RollbackInv
  <2>8. CleanInv
    BY DEF Init, CleanInv
  <2> QED
    BY <2>1, <2>2, <2>3, <2>4, <2>5, <2>6, <2>7, <2>8 DEF IInv
<1>2. IInv /\ [Next]_vars => IInv'
  <2> SUFFICES ASSUME IInv, [Next]_vars PROVE IInv'
    OBVIOUS
  <2> USE DEF IInv
  <2>1. CASE Reserve
    <3>1. TypeOK'
      BY <2>1 DEF Reserve, TypeOK, PlaceInv, BeforeInv, FlagInv
    <3>2. PlaceInv'
      BY <2>1 DEF Reserve, TypeOK, PlaceInv
    <3>3. BeforeInv'
      BY <2>1 DEF Reserve, TypeOK, PlaceInv, BeforeInv, FlagInv, PublishInv
    <3>4. FlagInv'
      BY <2>1 DEF Reserve, TypeOK, PlaceInv, BeforeInv, FlagInv, PublishInv
    <3>5. PublishInv'
      BY <2>1 DEF Reserve, TypeOK, PlaceInv, PublishInv
    <3>6. KeptInv'
      BY <2>1 DEF Reserve, TypeOK, PlaceInv, BeforeInv, FlagInv, PublishInv,
         KeptInv
    <3>7. RollbackInv'
      BY <2>1 DEF Reserve, TypeOK, PlaceInv, BeforeInv, PublishInv,
         RollbackInv
    <3>8. CleanInv'
      BY <2>1 DEF Reserve, TypeOK, PlaceInv, BeforeInv, PublishInv,
         RollbackInv, CleanInv
    <3> QED
      BY <3>1, <3>2, <3>3, <3>4, <3>5, <3>6, <3>7, <3>8
  <2>2. CASE RefuseToBegin
    BY <2>2 DEF RefuseToBegin, TypeOK, PlaceInv, BeforeInv, FlagInv,
       PublishInv, KeptInv, RollbackInv, CleanInv
  <2>3. CASE Produce
    <3>1. TypeOK'
      BY <2>3 DEF Produce, TypeOK, PlaceInv, BeforeInv, FlagInv
    <3>2. PlaceInv'
      BY <2>3 DEF Produce, TypeOK, PlaceInv
    <3>3. BeforeInv'
      BY <2>3 DEF Produce, TypeOK, PlaceInv, BeforeInv, FlagInv, PublishInv
    <3>4. FlagInv'
      BY <2>3 DEF Produce, TypeOK, PlaceInv, BeforeInv, FlagInv, PublishInv
    <3>5. PublishInv'
      BY <2>3 DEF Produce, TypeOK, PlaceInv, PublishInv
    <3>6. KeptInv'
      BY <2>3 DEF Produce, TypeOK, PlaceInv, BeforeInv, FlagInv, PublishInv,
         KeptInv
    <3>7. RollbackInv'
      BY <2>3 DEF Produce, TypeOK, PlaceInv, BeforeInv, PublishInv,
         RollbackInv
    <3>8. CleanInv'
      BY <2>3 DEF Produce, TypeOK, PlaceInv, BeforeInv, PublishInv,
         RollbackInv, CleanInv
    <3> QED
      BY <3>1, <3>2, <3>3, <3>4, <3>5, <3>6, <3>7, <3>8
  <2>4. CASE Abandon
    BY <2>4 DEF Abandon, TypeOK, PlaceInv, BeforeInv, FlagInv, PublishInv,
       KeptInv, RollbackInv, CleanInv
  <2>5. CASE Inspect
    BY <2>5 DEF Inspect, TypeOK, PlaceInv, BeforeInv, FlagInv, PublishInv,
       KeptInv, RollbackInv, CleanInv
  <2>6. CASE ReserveBackup
    <3>1. TypeOK'
      BY <2>6 DEF ReserveBackup, TypeOK, PlaceInv, BeforeInv, FlagInv
    <3>2. PlaceInv'
      BY <2>6 DEF ReserveBackup, TypeOK, PlaceInv
    <3>3. BeforeInv'
      BY <2>6 DEF ReserveBackup, TypeOK, PlaceInv, BeforeInv, FlagInv,
         PublishInv
    <3>4. FlagInv'
      BY <2>6 DEF ReserveBackup, TypeOK, PlaceInv, BeforeInv, FlagInv,
         PublishInv
    <3>5. PublishInv'
      BY <2>6 DEF ReserveBackup, TypeOK, PlaceInv, PublishInv
    <3>6. KeptInv'
      BY <2>6 DEF ReserveBackup, TypeOK, PlaceInv, BeforeInv, FlagInv,
         PublishInv, KeptInv
    <3>7. RollbackInv'
      BY <2>6 DEF ReserveBackup, TypeOK, PlaceInv, BeforeInv, PublishInv,
         RollbackInv
    <3>8. CleanInv'
      BY <2>6 DEF ReserveBackup, TypeOK, PlaceInv, BeforeInv, PublishInv,
         RollbackInv, CleanInv
    <3> QED
      BY <3>1, <3>2, <3>3, <3>4, <3>5, <3>6, <3>7, <3>8
  <2>7. CASE SetAside
    <3>1. TypeOK'
      BY <2>7 DEF SetAside, TypeOK, PlaceInv, BeforeInv, FlagInv
    <3>2. PlaceInv'
      BY <2>7 DEF SetAside, TypeOK, PlaceInv
    <3>3. BeforeInv'
      BY <2>7 DEF SetAside, TypeOK, PlaceInv, BeforeInv, FlagInv, PublishInv
    <3>4. FlagInv'
      BY <2>7 DEF SetAside, TypeOK, PlaceInv, BeforeInv, FlagInv, PublishInv
    <3>5. PublishInv'
      BY <2>7 DEF SetAside, TypeOK, PlaceInv, PublishInv
    <3>6. KeptInv'
      BY <2>7 DEF SetAside, TypeOK, PlaceInv, BeforeInv, FlagInv, PublishInv,
         KeptInv
    <3>7. RollbackInv'
      BY <2>7 DEF SetAside, TypeOK, PlaceInv, BeforeInv, PublishInv,
         RollbackInv
    <3>8. CleanInv'
      BY <2>7 DEF SetAside, TypeOK, PlaceInv, BeforeInv, PublishInv,
         RollbackInv, CleanInv
    <3> QED
      BY <3>1, <3>2, <3>3, <3>4, <3>5, <3>6, <3>7, <3>8
  <2>8. CASE FailToSetAside
    BY <2>8 DEF FailToSetAside, TypeOK, PlaceInv, BeforeInv, FlagInv,
       PublishInv, KeptInv, RollbackInv, CleanInv
  <2>9. CASE Unreserve
    <3>1. TypeOK'
      BY <2>9 DEF Unreserve, TypeOK, PlaceInv, BeforeInv, FlagInv
    <3>2. PlaceInv'
      BY <2>9 DEF Unreserve, TypeOK, PlaceInv
    <3>3. BeforeInv'
      BY <2>9 DEF Unreserve, TypeOK, PlaceInv, BeforeInv, FlagInv, PublishInv
    <3>4. FlagInv'
      BY <2>9 DEF Unreserve, TypeOK, PlaceInv, BeforeInv, FlagInv, PublishInv
    <3>5. PublishInv'
      BY <2>9 DEF Unreserve, TypeOK, PlaceInv, PublishInv
    <3>6. KeptInv'
      BY <2>9 DEF Unreserve, TypeOK, PlaceInv, BeforeInv, FlagInv, PublishInv,
         KeptInv
    <3>7. RollbackInv'
      BY <2>9 DEF Unreserve, TypeOK, PlaceInv, BeforeInv, PublishInv,
         RollbackInv
    <3>8. CleanInv'
      BY <2>9 DEF Unreserve, TypeOK, PlaceInv, BeforeInv, PublishInv,
         RollbackInv, CleanInv
    <3> QED
      BY <3>1, <3>2, <3>3, <3>4, <3>5, <3>6, <3>7, <3>8
  <2>10. CASE Publish
    <3>1. TypeOK'
      BY <2>10 DEF Publish, TypeOK, PlaceInv, BeforeInv, FlagInv
    <3>2. PlaceInv'
      BY <2>10 DEF Publish, TypeOK, PlaceInv
    <3>3. BeforeInv'
      BY <2>10 DEF Publish, TypeOK, PlaceInv, BeforeInv, FlagInv, PublishInv
    <3>4. FlagInv'
      BY <2>10 DEF Publish, TypeOK, PlaceInv, BeforeInv, FlagInv, PublishInv
    <3>5. PublishInv'
      BY <2>10 DEF Publish, TypeOK, PlaceInv, PublishInv
    <3>6. KeptInv'
      BY <2>10 DEF Publish, TypeOK, PlaceInv, BeforeInv, FlagInv, PublishInv,
         KeptInv
    <3>7. RollbackInv'
      BY <2>10 DEF Publish, TypeOK, PlaceInv, BeforeInv, PublishInv,
         RollbackInv
    <3>8. CleanInv'
      BY <2>10 DEF Publish, TypeOK, PlaceInv, BeforeInv, PublishInv,
         RollbackInv, CleanInv
    <3> QED
      BY <3>1, <3>2, <3>3, <3>4, <3>5, <3>6, <3>7, <3>8
  <2>11. CASE FailToPublish
    BY <2>11 DEF FailToPublish, TypeOK, PlaceInv, BeforeInv, FlagInv,
       PublishInv, KeptInv, RollbackInv, CleanInv
  <2>12. CASE RemoveBackup
    <3>9. hasBackup' \in [Entry -> BOOLEAN]
      BY <2>12 DEF RemoveBackup, TypeOK
    <3>10. faults' \in 0 .. MaxFaults
      BY <2>12 DEF RemoveBackup, TypeOK
    <3>11. backup' \in [Entry -> {"absent", "reserved", "old", "foreign"}]
      BY <2>12 DEF RemoveBackup, TypeOK
    <3>12. step' \in Steps /\ at' \in 0 .. N
      BY <2>12 DEF RemoveBackup, TypeOK, PlaceInv
    <3>1. TypeOK'
      BY <2>12, <3>9, <3>10, <3>11, <3>12 DEF RemoveBackup, TypeOK
    <3>2. PlaceInv'
      BY <2>12 DEF RemoveBackup, TypeOK, PlaceInv
    <3>3. BeforeInv'
      BY <2>12 DEF RemoveBackup, TypeOK, PlaceInv, BeforeInv, FlagInv,
         PublishInv
    <3>4. FlagInv'
      BY <2>12 DEF RemoveBackup, TypeOK, PlaceInv, BeforeInv, FlagInv,
         PublishInv
    <3>5. PublishInv'
      BY <2>12 DEF RemoveBackup, TypeOK, PlaceInv, PublishInv
    <3>6. KeptInv'
      BY <2>12 DEF RemoveBackup, TypeOK, PlaceInv, BeforeInv, FlagInv,
         PublishInv, KeptInv
    <3>7. RollbackInv'
      BY <2>12 DEF RemoveBackup, TypeOK, PlaceInv, BeforeInv, PublishInv,
         RollbackInv
    <3>8. CleanInv'
      BY <2>12 DEF RemoveBackup, TypeOK, PlaceInv, BeforeInv, PublishInv,
         RollbackInv, CleanInv
    <3> QED
      BY <3>1, <3>2, <3>3, <3>4, <3>5, <3>6, <3>7, <3>8
  <2>13. CASE Unpublish
    <3>1. TypeOK'
      <4>0. faults' \in 0 .. MaxFaults /\ step' \in Steps /\ at' \in 0 .. N
        BY <2>13 DEF Unpublish, TypeOK, PlaceInv
      <4>1. CASE ~stagedPublished[at] /\ UNCHANGED <<dest, stagedPublished, restored, faults>>
        BY <2>13, <4>1, <4>0 DEF Unpublish, TypeOK, FlagInv
      <4>2. CASE /\ stagedPublished[at]
                 /\ dest' = [dest EXCEPT ![at] = "absent"]
                 /\ stagedPublished' = [stagedPublished EXCEPT ![at] = FALSE]
                 /\ UNCHANGED <<restored, faults>>
        BY <2>13, <4>2, <4>0 DEF Unpublish, TypeOK, FlagInv
      <4>3. CASE /\ stagedPublished[at] /\ Fault
                 /\ restored' = FALSE
                 /\ UNCHANGED <<dest, stagedPublished>>
        BY <2>13, <4>3, <4>0 DEF Unpublish, TypeOK, FlagInv
      <4> QED
        BY <2>13, <4>1, <4>2, <4>3 DEF Unpublish
    <3>2. PlaceInv'
      BY <2>13 DEF Unpublish, TypeOK, PlaceInv
    <3>3. BeforeInv'
      BY <2>13 DEF Unpublish, TypeOK, PlaceInv, BeforeInv, FlagInv, PublishInv
    <3>4. FlagInv'
      BY <2>13 DEF Unpublish, TypeOK, PlaceInv, BeforeInv, FlagInv, PublishInv
    <3>5. PublishInv'
      BY <2>13 DEF Unpublish, TypeOK, PlaceInv, PublishInv
    <3>6. KeptInv'
      BY <2>13 DEF Unpublish, TypeOK, PlaceInv, BeforeInv, FlagInv,
         PublishInv, KeptInv
    <3>7. RollbackInv'
      <4>1. CASE ~stagedPublished[at] /\ UNCHANGED <<dest, stagedPublished, restored, faults>>
        BY <2>13, <4>1 DEF Unpublish, TypeOK, PlaceInv, BeforeInv, PublishInv,
           RollbackInv
      <4>2. CASE /\ stagedPublished[at]
                 /\ dest' = [dest EXCEPT ![at] = "absent"]
                 /\ stagedPublished' = [stagedPublished EXCEPT ![at] = FALSE]
                 /\ UNCHANGED <<restored, faults>>
        BY <2>13, <4>2 DEF Unpublish, TypeOK, PlaceInv, BeforeInv, PublishInv,
           RollbackInv
      <4>3. CASE /\ stagedPublished[at] /\ Fault
                 /\ restored' = FALSE
                 /\ UNCHANGED <<dest, stagedPublished>>
        BY <2>13, <4>3 DEF Unpublish, TypeOK, PlaceInv, BeforeInv, PublishInv,
           RollbackInv
      <4> QED
        BY <2>13, <4>1, <4>2, <4>3 DEF Unpublish
    <3>8. CleanInv'
      BY <2>13 DEF Unpublish, TypeOK, PlaceInv, BeforeInv, PublishInv,
         RollbackInv, CleanInv
    <3> QED
      BY <3>1, <3>2, <3>3, <3>4, <3>5, <3>6, <3>7, <3>8
  <2>14. CASE PutBack
    <3>1. TypeOK'
      <4>0. faults' \in 0 .. MaxFaults /\ step' \in Steps /\ at' \in 0 .. N
        BY <2>14 DEF PutBack, TypeOK, PlaceInv
      <4>1. CASE /\ ~backupActive[at]
                 /\ UNCHANGED <<dest, backup, hasBackup, backupActive, stagedPublished,
                                restored, faults>>
        BY <2>14, <4>1, <4>0 DEF PutBack, TypeOK, FlagInv
      <4>2. CASE /\ backupActive[at]
                 /\ dest' = [dest EXCEPT ![at] = backup[at]]
                 /\ backup' = [backup EXCEPT ![at] = "absent"]
                 /\ hasBackup' = [hasBackup EXCEPT ![at] = FALSE]
                 /\ backupActive' = [backupActive EXCEPT ![at] = FALSE]
                 /\ stagedPublished' = [stagedPublished EXCEPT ![at] = FALSE]
                 /\ UNCHANGED <<restored, faults>>
        BY <2>14, <4>2, <4>0 DEF PutBack, TypeOK, FlagInv
      <4>3. CASE /\ backupActive[at] /\ Fault
                 /\ restored' = FALSE
                 /\ UNCHANGED <<dest, backup, hasBackup, backupActive, stagedPublished>>
        BY <2>14, <4>3, <4>0 DEF PutBack, TypeOK, FlagInv
      <4> QED
        BY <2>14, <4>1, <4>2, <4>3 DEF PutBack
    <3>2. PlaceInv'
      BY <2>14 DEF PutBack, TypeOK, PlaceInv
    <3>3. BeforeInv'
      BY <2>14 DEF PutBack, TypeOK, PlaceInv, BeforeInv, FlagInv, PublishInv
    <3>4. FlagInv'
      BY <2>14 DEF PutBack, TypeOK, PlaceInv, BeforeInv, FlagInv, PublishInv
    <3>5. PublishInv'
      BY <2>14 DEF PutBack, TypeOK, PlaceInv, PublishInv
    <3>6. KeptInv'
      BY <2>14 DEF PutBack, TypeOK, PlaceInv, BeforeInv, FlagInv, PublishInv,
         KeptInv
    <3>7. RollbackInv'
      <4>0. step' = "unpublish" /\ at' = at - 1 /\ at \in 1 .. N /\ at \in Int
        BY <2>14 DEF PutBack, TypeOK, PlaceInv
      <4>1. CASE /\ ~backupActive[at]
                 /\ UNCHANGED <<dest, backup, hasBackup, backupActive, stagedPublished,
                                restored, faults>>
        BY <2>14, <4>1, <4>0 DEF PutBack, TypeOK, PublishInv, RollbackInv
      <4>2. CASE /\ backupActive[at]
                 /\ dest' = [dest EXCEPT ![at] = backup[at]]
                 /\ backup' = [backup EXCEPT ![at] = "absent"]
                 /\ hasBackup' = [hasBackup EXCEPT ![at] = FALSE]
                 /\ backupActive' = [backupActive EXCEPT ![at] = FALSE]
                 /\ stagedPublished' = [stagedPublished EXCEPT ![at] = FALSE]
                 /\ UNCHANGED <<restored, faults>>
        BY <2>14, <4>2, <4>0 DEF PutBack, TypeOK, PublishInv, RollbackInv
      <4>3. CASE /\ backupActive[at] /\ Fault
                 /\ restored' = FALSE
                 /\ UNCHANGED <<dest, backup, hasBackup, backupActive, stagedPublished>>
        BY <2>14, <4>3, <4>0 DEF PutBack, TypeOK, PublishInv, RollbackInv
      <4> QED
        BY <2>14, <4>1, <4>2, <4>3 DEF PutBack
    <3>8. CleanInv'
      <4>1. CASE /\ ~backupActive[at]
                 /\ UNCHANGED <<dest, backup, hasBackup, backupActive, stagedPublished,
                                restored, faults>>
        BY <2>14, <4>1 DEF PutBack, TypeOK, PlaceInv, BeforeInv, PublishInv,
           RollbackInv, CleanInv
      <4>2. CASE /\ backupActive[at]
                 /\ dest' = [dest EXCEPT ![at] = backup[at]]
                 /\ backup' = [backup EXCEPT ![at] = "absent"]
                 /\ hasBackup' = [hasBackup EXCEPT ![at] = FALSE]
                 /\ backupActive' = [backupActive EXCEPT ![at] = FALSE]
                 /\ stagedPublished' = [stagedPublished EXCEPT ![at] = FALSE]
                 /\ UNCHANGED <<restored, faults>>
        BY <2>14, <4>2 DEF PutBack, TypeOK, PlaceInv, BeforeInv, PublishInv,
           RollbackInv, CleanInv
      <4>3. CASE /\ backupActive[at] /\ Fault
                 /\ restored' = FALSE
                 /\ UNCHANGED <<dest, backup, hasBackup, backupActive, stagedPublished>>
        BY <2>14, <4>3 DEF PutBack, TypeOK, PlaceInv, BeforeInv, PublishInv,
           RollbackInv, CleanInv
      <4> QED
        BY <2>14, <4>1, <4>2, <4>3 DEF PutBack
    <3> QED
      BY <3>1, <3>2, <3>3, <3>4, <3>5, <3>6, <3>7, <3>8
  <2>15. CASE EndRollback
    BY <2>15 DEF EndRollback, TypeOK, PlaceInv, BeforeInv, FlagInv,
       PublishInv, KeptInv, RollbackInv, CleanInv
  <2>16. CASE Destroy
    <3>1. TypeOK'
      BY <2>16 DEF Destroy, TypeOK, PlaceInv, BeforeInv, FlagInv
    <3>2. PlaceInv'
      BY <2>16 DEF Destroy, TypeOK, PlaceInv
    <3>3. BeforeInv'
      BY <2>16 DEF Destroy, TypeOK, PlaceInv, BeforeInv, FlagInv, PublishInv
    <3>4. FlagInv'
      BY <2>16 DEF Destroy, TypeOK, PlaceInv, BeforeInv, FlagInv, PublishInv
    <3>5. PublishInv'
      BY <2>16 DEF Destroy, TypeOK, PlaceInv, PublishInv
    <3>6. KeptInv'
      BY <2>16 DEF Destroy, TypeOK, PlaceInv, BeforeInv, FlagInv, PublishInv,
         KeptInv
    <3>7. RollbackInv'
      BY <2>16 DEF Destroy, TypeOK, PlaceInv, BeforeInv, PublishInv,
         RollbackInv
    <3>8. CleanInv'
      BY <2>16 DEF Destroy, TypeOK, PlaceInv, BeforeInv, PublishInv,
         RollbackInv, CleanInv
    <3> QED
      BY <3>1, <3>2, <3>3, <3>4, <3>5, <3>6, <3>7, <3>8
  <2>17. CASE RemoveTemporary
    <3>1. TypeOK'
      BY <2>17 DEF RemoveTemporary, TypeOK, PlaceInv, BeforeInv, FlagInv
    <3>2. PlaceInv'
      BY <2>17 DEF RemoveTemporary, TypeOK, PlaceInv
    <3>3. BeforeInv'
      BY <2>17 DEF RemoveTemporary, TypeOK, PlaceInv, BeforeInv, FlagInv,
         PublishInv
    <3>4. FlagInv'
      BY <2>17 DEF RemoveTemporary, TypeOK, PlaceInv, BeforeInv, FlagInv,
         PublishInv
    <3>5. PublishInv'
      BY <2>17 DEF RemoveTemporary, TypeOK, PlaceInv, PublishInv
    <3>6. KeptInv'
      BY <2>17 DEF RemoveTemporary, TypeOK, PlaceInv, BeforeInv, FlagInv,
         PublishInv, KeptInv
    <3>7. RollbackInv'
      BY <2>17 DEF RemoveTemporary, TypeOK, PlaceInv, BeforeInv, PublishInv,
         RollbackInv
    <3>8. CleanInv'
      BY <2>17 DEF RemoveTemporary, TypeOK, PlaceInv, BeforeInv, PublishInv,
         RollbackInv, CleanInv
    <3> QED
      BY <3>1, <3>2, <3>3, <3>4, <3>5, <3>6, <3>7, <3>8
  <2>18. CASE RemoveIdleBackup
    <3>1. TypeOK'
      <4>1. CASE /\ hasBackup[at] /\ ~backupActive[at]
                 /\ backup' = [backup EXCEPT ![at] = "absent"]
                 /\ hasBackup' = [hasBackup EXCEPT ![at] = FALSE]
                 /\ UNCHANGED faults
        BY <2>18, <4>1 DEF RemoveIdleBackup, TypeOK, PlaceInv, BeforeInv,
           FlagInv
      <4>2. CASE /\ hasBackup[at] /\ ~backupActive[at] /\ Fault
                 /\ hasBackup' = [hasBackup EXCEPT ![at] = FALSE]
                 /\ UNCHANGED backup
        BY <2>18, <4>2 DEF RemoveIdleBackup, TypeOK, PlaceInv, BeforeInv,
           FlagInv
      <4>3. CASE /\ ~(hasBackup[at] /\ ~backupActive[at])
                 /\ UNCHANGED <<backup, hasBackup, faults>>
        BY <2>18, <4>3 DEF RemoveIdleBackup, TypeOK, PlaceInv, BeforeInv,
           FlagInv
      <4> QED
        BY <2>18, <4>1, <4>2, <4>3 DEF RemoveIdleBackup
    <3>2. PlaceInv'
      BY <2>18 DEF RemoveIdleBackup, TypeOK, PlaceInv
    <3>3. BeforeInv'
      BY <2>18 DEF RemoveIdleBackup, TypeOK, PlaceInv, BeforeInv, FlagInv,
         PublishInv
    <3>4. FlagInv'
      BY <2>18 DEF RemoveIdleBackup, TypeOK, PlaceInv, BeforeInv, FlagInv,
         PublishInv
    <3>5. PublishInv'
      BY <2>18 DEF RemoveIdleBackup, TypeOK, PlaceInv, PublishInv
    <3>6. KeptInv'
      BY <2>18 DEF RemoveIdleBackup, TypeOK, PlaceInv, BeforeInv, FlagInv,
         PublishInv, KeptInv
    <3>7. RollbackInv'
      BY <2>18 DEF RemoveIdleBackup, TypeOK, PlaceInv, BeforeInv, PublishInv,
         RollbackInv
    <3>8. CleanInv'
      <4>1. CASE /\ hasBackup[at] /\ ~backupActive[at]
                 /\ backup' = [backup EXCEPT ![at] = "absent"]
                 /\ hasBackup' = [hasBackup EXCEPT ![at] = FALSE]
                 /\ UNCHANGED faults
        BY <2>18, <4>1 DEF RemoveIdleBackup, TypeOK, PlaceInv, BeforeInv,
           PublishInv, RollbackInv, CleanInv
      <4>2. CASE /\ hasBackup[at] /\ ~backupActive[at] /\ Fault
                 /\ hasBackup' = [hasBackup EXCEPT ![at] = FALSE]
                 /\ UNCHANGED backup
        BY <2>18, <4>2 DEF RemoveIdleBackup, TypeOK, PlaceInv, BeforeInv,
           PublishInv, RollbackInv, CleanInv
      <4>3. CASE /\ ~(hasBackup[at] /\ ~backupActive[at])
                 /\ UNCHANGED <<backup, hasBackup, faults>>
        BY <2>18, <4>3 DEF RemoveIdleBackup, TypeOK, PlaceInv, BeforeInv,
           PublishInv, RollbackInv, CleanInv
      <4> QED
        BY <2>18, <4>1, <4>2, <4>3 DEF RemoveIdleBackup
    <3> QED
      BY <3>1, <3>2, <3>3, <3>4, <3>5, <3>6, <3>7, <3>8
  <2>19. CASE Crash
    BY <2>19 DEF Crash, TypeOK, PlaceInv, BeforeInv, FlagInv, PublishInv,
       KeptInv, RollbackInv, CleanInv
  <2>20. ASSUME NEW f \in Entry, CreateForeign(f) PROVE IInv'
    <3>1. TypeOK'
      BY <2>20 DEF CreateForeign, TypeOK, PlaceInv, BeforeInv, FlagInv
    <3>2. PlaceInv'
      BY <2>20 DEF CreateForeign, TypeOK, PlaceInv
    <3>3. BeforeInv'
      BY <2>20 DEF CreateForeign, TypeOK, PlaceInv, BeforeInv, FlagInv,
         PublishInv
    <3>4. FlagInv'
      BY <2>20 DEF CreateForeign, TypeOK, PlaceInv, BeforeInv, FlagInv,
         PublishInv
    <3>5. PublishInv'
      BY <2>20 DEF CreateForeign, TypeOK, PlaceInv, PublishInv
    <3>6. KeptInv'
      BY <2>20 DEF CreateForeign, TypeOK, PlaceInv, BeforeInv, FlagInv,
         PublishInv, KeptInv
    <3>7. RollbackInv'
      BY <2>20 DEF CreateForeign, TypeOK, PlaceInv, BeforeInv, PublishInv,
         RollbackInv
    <3>8. CleanInv'
      BY <2>20 DEF CreateForeign, TypeOK, PlaceInv, BeforeInv, PublishInv,
         RollbackInv, CleanInv
    <3> QED
      BY <3>1, <3>2, <3>3, <3>4, <3>5, <3>6, <3>7, <3>8
  <2>21. CASE UNCHANGED vars
    BY <2>21 DEF vars, TypeOK, PlaceInv, BeforeInv, FlagInv, PublishInv,
       KeptInv, RollbackInv, CleanInv
  <2> QED
    BY <2>1, <2>2, <2>3, <2>4, <2>5, <2>6, <2>7, <2>8, <2>9, <2>10, <2>11,
       <2>12, <2>13, <2>14, <2>15, <2>16, <2>17, <2>18, <2>19, <2>20, <2>21
       DEF Next
<1> QED
  BY <1>1, <1>2, PTL DEF Spec

(***************************************************************************)
(* The variables keep their types: in particular no entry's backup is ever *)
(* a file that the group itself made.                                      *)
(***************************************************************************)
THEOREM TypeCorrect == Spec => []TypeOK
  BY Inductive, PTL DEF IInv

(***************************************************************************)
(* A file that was there before is at its place or in its backup until     *)
(* every file of the group is in place, wherever the process dies          *)
(* (TransactionGroup::publish(), rollback() and discard()).                *)
(***************************************************************************)
THEOREM OldKept == Spec => []OldIsKept
<1>1. IInv => OldIsKept
  BY DEF IInv, KeptInv, AllNew, OldIsKept
<1> QED
  BY <1>1, Inductive, PTL

(***************************************************************************)
(* publish() returns TRUE only with every file in place; a group that ends *)
(* otherwise, with no failure in its last rollback, has put none in place  *)
(* and every file it replaced back.                                        *)
(***************************************************************************)
THEOREM PublishedWhole == Spec => []AllOrNothing
<1>1. IInv => AllOrNothing
  <2> SUFFICES ASSUME IInv PROVE AllOrNothing
    OBVIOUS
  <2>1. step = "returned" /\ result = "ok" => \A e \in Entry : dest[e] = "new"
    BY DEF IInv, PublishInv, AllNew
  <2>2. ASSUME step = "done", result # "ok", restored, NEW e \in Entry
        PROVE  dest[e] # "new" /\ (had[e] => dest[e] = "old")
    <3>1. ~published /\ ~stagedPublished[e] /\ ~backupActive[e]
      BY <2>2 DEF IInv, PublishInv, RollbackInv
    <3> QED
      BY <2>2, <3>1 DEF IInv, FlagInv, KeptInv
  <2> QED
    BY <2>1, <2>2 DEF AllOrNothing
<1> QED
  BY <1>1, Inductive, PTL

(***************************************************************************)
(* A group that met no failure leaves no temporary and no backup behind    *)
(* when it is gone (TransactionGroup::discard()).                          *)
(***************************************************************************)
THEOREM NothingLeft == Spec => []NothingIsLeft
<1>1. IInv => NothingIsLeft
  BY DEF IInv, CleanInv, Clean, NothingIsLeft
<1> QED
  BY <1>1, Inductive, PTL

(***************************************************************************)
(* What another program puts where a new file is to go is neither replaced *)
(* by publish() nor removed by rollback().                                 *)
(***************************************************************************)
THEOREM ForeignKept == Spec => ForeignIsKept
<1> DEFINE Kept(e) == mode[e] = "CreateNew" /\ dest[e] = "foreign" => dest'[e] = "foreign"
<1>1. ASSUME IInv, [Next]_vars, NEW e \in Entry
      PROVE  Kept(e)
  <2> SUFFICES ASSUME mode[e] = "CreateNew", dest[e] = "foreign"
               PROVE  dest'[e] = "foreign"
    OBVIOUS
  <2> USE DEF IInv, TypeOK
  <2>1. CASE UNCHANGED dest
    BY <2>1
  <2>2. CASE SetAside
    BY <1>1, <2>2 DEF SetAside, BeforeInv
  <2>3. CASE Publish
    BY <1>1, <2>3 DEF Publish
  <2>4. CASE Unpublish
    BY <1>1, <2>4 DEF Unpublish, FlagInv, disk
  <2>5. CASE PutBack
    BY <1>1, <2>5 DEF PutBack, FlagInv
  <2>6. ASSUME NEW f \in Entry, CreateForeign(f)
        PROVE  dest'[e] = "foreign"
    BY <1>1, <2>6 DEF CreateForeign
  <2>7. [Next]_vars =>
          \/ UNCHANGED dest \/ SetAside \/ Publish \/ Unpublish \/ PutBack
          \/ \E f \in Entry : CreateForeign(f)
    BY DEF Next, vars, disk, Reserve, RefuseToBegin, Produce, Abandon, Inspect,
       ReserveBackup, FailToSetAside, Unreserve, FailToPublish, RemoveBackup,
       EndRollback, Destroy, RemoveTemporary, RemoveIdleBackup, Crash
  <2> QED
    BY <1>1, <2>1, <2>2, <2>3, <2>4, <2>5, <2>6, <2>7
<1>2. IInv /\ [Next]_vars => [\A e \in Entry : Kept(e)]_vars
  BY <1>1
<1> HIDE DEF Kept
<1>3. Spec => [][\A e \in Entry : Kept(e)]_vars
  BY <1>2, Inductive, PTL DEF Spec
<1> QED
  BY <1>3 DEF ForeignIsKept, Kept

\* The files of the composition are those of one group.
LEMMA OutputRuns == MCSpec => Spec
<1>1. [MCNext]_<<which, vars, editVars>> => [Next]_vars
  BY DEF MCNext, OthersRest
<1> QED
  BY <1>1, PTL DEF MCSpec, MCInit, Spec

-----------------------------------------------------------------------------
(* The video editor                                                         *)

\* Each instance has constants that the theorems about the editor allow.
LEMMA ConstantsAreAllowed ==
  /\ Marks!EditAssumption /\ Exports!EditAssumption
  /\ Preview!EditAssumption /\ Ahead!EditAssumption
  BY DEF Marks!EditAssumption, Marks!Clips, Exports!EditAssumption,
     Exports!Clips, Preview!EditAssumption, Preview!Clips,
     Ahead!EditAssumption, Ahead!Clips, Suggested

\* The editor that moves keeps the invariant of its own bounds; beside the
\* files it is the one of the queue, at rest.
EditorsIInv ==
  /\ which \in {"output", "marks", "exports", "preview", "ahead"}
  /\ which = "marks" => Marks!IInv
  /\ which = "exports" => Exports!IInv
  /\ which = "preview" => Preview!IInv
  /\ which \in {"output", "ahead"} => Ahead!IInv

\* All of them begin with the same document.
LEMMA EditorsBegin == MCInit => EditorsIInv
<1> SUFFICES ASSUME MCInit PROVE EditorsIInv
  OBVIOUS
<1>1. Ahead!Init /\ which \in {"output", "marks", "exports", "preview", "ahead"}
  BY DEF MCInit
<1>2. Marks!Init /\ Exports!Init /\ Preview!Init
  BY <1>1 DEF Ahead!Init, Ahead!Whole, Ahead!NoJob, Ahead!Clip, Ahead!None,
     Marks!Init, Marks!Whole, Marks!NoJob, Marks!Clip, Marks!None,
     Exports!Init, Exports!Whole, Exports!NoJob, Exports!Clip, Exports!None,
     Preview!Init, Preview!Whole, Preview!NoJob, Preview!Clip, Preview!None
<1> QED
  BY <1>1, <1>2, ConstantsAreAllowed, Marks!InitHolds, Exports!InitHolds,
     Preview!InitHolds, Ahead!InitHolds DEF EditorsIInv

LEMMA EditorsStep ==
  EditorsIInv /\ [MCNext]_<<which, vars, editVars>> => EditorsIInv'
<1> SUFFICES ASSUME EditorsIInv, [MCNext]_<<which, vars, editVars>>
             PROVE  EditorsIInv'
  OBVIOUS
<1>1. /\ which' = which
      /\ which \in {"output", "marks", "exports", "preview", "ahead"}
      /\ which = "marks" => [Marks!Next]_(Marks!vars)
      /\ which = "exports" => [Exports!Next]_(Exports!vars)
      /\ which = "preview" => [Preview!Next]_(Preview!vars)
      /\ which \in {"output", "ahead"} => [Ahead!Next]_(Ahead!vars)
  BY DEF EditorsIInv, MCNext, OthersRest, editVars, Marks!vars, Exports!vars,
     Preview!vars, Ahead!vars
<1>2. /\ Marks!IInv /\ [Marks!Next]_(Marks!vars) => Marks!IInv'
      /\ Exports!IInv /\ [Exports!Next]_(Exports!vars) => Exports!IInv'
      /\ Preview!IInv /\ [Preview!Next]_(Preview!vars) => Preview!IInv'
      /\ Ahead!IInv /\ [Ahead!Next]_(Ahead!vars) => Ahead!IInv'
  BY ConstantsAreAllowed, Marks!StepKeeps, Exports!StepKeeps,
     Preview!StepKeeps, Ahead!StepKeeps
<1> QED
  BY <1>1, <1>2 DEF EditorsIInv

LEMMA EditorsInductive == MCSpec => []EditorsIInv
  BY EditorsBegin, EditorsStep, PTL DEF MCSpec

\* The handles never cross and keep a frame between them where there is one,
\* with frames of one unit and of two.
THEOREM HandlesStayApart == MCSpec => []HandlesDoNotCross
<1>1. EditorsIInv => HandlesDoNotCross
  <2>1. Marks!IInv => Marks!HandlesDoNotCross
    BY DEF Marks!IInv
  <2>2. Ahead!IInv => Ahead!HandlesDoNotCross
    BY DEF Ahead!IInv
  <2>3. Exports!IInv => Ahead!HandlesDoNotCross
    BY DEF Exports!IInv, Exports!HandlesDoNotCross, Exports!PresentationOf,
       Exports!ProgramLength, Exports!Before, Exports!Max, Exports!Min,
       Exports!None, Ahead!HandlesDoNotCross, Ahead!PresentationOf,
       Ahead!ProgramLength, Ahead!Before, Ahead!Max, Ahead!Min, Ahead!None
  <2>4. Preview!IInv => Ahead!HandlesDoNotCross
    BY DEF Preview!IInv, Preview!HandlesDoNotCross, Preview!PresentationOf,
       Preview!ProgramLength, Preview!Before, Preview!Max, Preview!Min,
       Preview!None, Ahead!HandlesDoNotCross, Ahead!PresentationOf,
       Ahead!ProgramLength, Ahead!Before, Ahead!Max, Ahead!Min, Ahead!None
  <2> QED
    BY <2>1, <2>2, <2>3, <2>4 DEF EditorsIInv, HandlesDoNotCross
<1> QED
  BY <1>1, EditorsInductive, PTL

\* The player that has handled its queue plays the document, unless the
\* workspace withheld a projection, in each of the instances.
THEOREM PlayerCatchesUp == MCSpec => []PlayerFollows
<1>1. EditorsIInv => PlayerFollows
  BY DEF EditorsIInv, PlayerFollows, Ahead!PlayerFollows,
     Marks!IInv, Marks!PreviewInv, Marks!Follows,
     Exports!IInv, Exports!PreviewInv, Exports!Follows,
     Preview!IInv, Preview!PreviewInv, Preview!Follows,
     Ahead!IInv, Ahead!PreviewInv, Ahead!Follows
<1> QED
  BY <1>1, EditorsInductive, PTL

\* All four edit documents and marks of the same source.
LEMMA EditorsAreTyped ==
  ASSUME EditorsIInv
  PROVE  /\ document \in Ahead!Revisions
         /\ inUs \in Ahead!MarkPlaces /\ outUs \in Ahead!MarkPlaces
<1>1. /\ Marks!Revisions = Ahead!Revisions
      /\ Exports!Revisions = Ahead!Revisions
      /\ Preview!Revisions = Ahead!Revisions
  BY DEF Marks!Revisions, Marks!Kept, Marks!Within, Marks!Clips, Marks!Parted,
     Exports!Revisions, Exports!Kept, Exports!Within, Exports!Clips,
     Exports!Parted, Preview!Revisions, Preview!Kept, Preview!Within,
     Preview!Clips, Preview!Parted, Ahead!Revisions, Ahead!Kept, Ahead!Within,
     Ahead!Clips, Ahead!Parted
<1>2. /\ Marks!MarkPlaces = Ahead!MarkPlaces
      /\ Exports!MarkPlaces = Ahead!MarkPlaces
      /\ Preview!MarkPlaces = Ahead!MarkPlaces
  BY DEF Marks!MarkPlaces, Marks!None, Exports!MarkPlaces, Exports!None,
     Preview!MarkPlaces, Preview!None, Ahead!MarkPlaces, Ahead!None
<1> QED
  BY <1>1, <1>2 DEF EditorsIInv, Marks!IInv, Marks!TypeOK, Exports!IInv,
     Exports!TypeOK, Preview!IInv, Preview!TypeOK, Ahead!IInv, Ahead!TypeOK

\* What is removed or kept is what the handles enclose on the timeline, in each
\* of the instances.
THEOREM SelectionTheorem == MCSpec => EditsWhatIsSelected
<1>1. EditorsIInv => [Ahead!SelectionIsEdited]_(Ahead!vars)
  BY EditorsAreTyped, ConstantsAreAllowed, Ahead!SelectionIsTheEdit
<1> QED
  BY <1>1, EditorsInductive, PTL
     DEF EditsWhatIsSelected, Ahead!EditsWhatIsSelected
\* The line of revisions, the exports and the discards, of every instance, are
\* what they are for the one of the queue.
LEMMA MarksDecisions ==
  [Marks!Decisions!Next]_(Marks!Decisions!vars) =>
    [Ahead!Decisions!Next]_(Ahead!Decisions!vars)
<1>1. Marks!Decisions!Decide => Ahead!Decisions!Decide
  <2>1. Marks!Decisions!Current = Ahead!Decisions!Current
    BY Zenon DEF Marks!Decisions!Current, Marks!History, Marks!Reverse, Marks!Abstract,
       Ahead!Decisions!Current, Ahead!History, Ahead!Reverse, Ahead!Abstract
  <2>2. Marks!Decisions!Whole = Ahead!Decisions!Whole
    BY Zenon DEF Marks!Decisions!Whole, Marks!Decisions!Units, Ahead!Decisions!Whole,
       Ahead!Decisions!Units
  <2>3. Marks!Decisions!Shorter = Ahead!Decisions!Shorter
    <3>1. Marks!Decisions!Sections = Ahead!Decisions!Sections
      BY DEF Marks!Decisions!Sections, Marks!Decisions!Units,
       Ahead!Decisions!Sections, Ahead!Decisions!Units
    <3>2. \A kept : Marks!Decisions!Keeping(kept) = Ahead!Decisions!Keeping(kept)
      <4>1. \A kept : Marks!Decisions!Cuts(kept) = Ahead!Decisions!Cuts(kept)
        BY Zenon DEF Marks!Decisions!Cuts, Ahead!Decisions!Cuts
      <4> QED
        BY <2>1, <4>1, Zenon DEF Marks!Decisions!Keeping, Ahead!Decisions!Keeping
    <3> QED
      BY <2>1, <3>1, <3>2
         DEF Marks!Decisions!Shorter, Ahead!Decisions!Shorter
  <2>4. Marks!Decisions!Toggled = Ahead!Decisions!Toggled
    BY Zenon DEF Marks!Decisions!Toggled, Marks!Decisions!Cuts, Marks!Decisions!Current,
       Marks!History, Marks!Reverse, Marks!Abstract, Ahead!Decisions!Toggled,
       Ahead!Decisions!Cuts, Ahead!Decisions!Current, Ahead!History,
       Ahead!Reverse, Ahead!Abstract
  <2> QED
    BY <2>1, <2>2, <2>3, <2>4, Zenon
       DEF Marks!Decisions!Decide, Marks!History, Marks!Reverse, Marks!Abstract,
       Ahead!Decisions!Decide, Ahead!History, Ahead!Reverse, Ahead!Abstract
<1>2. Marks!Decisions!Undo => Ahead!Decisions!Undo
  BY Zenon DEF Marks!Decisions!Undo, Marks!History, Marks!Reverse, Marks!Abstract,
     Ahead!Decisions!Undo, Ahead!History, Ahead!Reverse, Ahead!Abstract
<1>3. Marks!Decisions!Redo => Ahead!Decisions!Redo
  BY Zenon DEF Marks!Decisions!Redo, Marks!History, Marks!Reverse, Marks!Abstract,
     Ahead!Decisions!Redo, Ahead!History, Ahead!Reverse, Ahead!Abstract
<1>4. Marks!Decisions!Discard => Ahead!Decisions!Discard
  BY Zenon DEF Marks!Decisions!Discard, Marks!Decisions!Current, Marks!Decisions!Units,
     Marks!Decisions!Whole, Marks!History, Marks!Reverse, Marks!Abstract,
     Ahead!Decisions!Discard, Ahead!Decisions!Current, Ahead!Decisions!Units,
     Ahead!Decisions!Whole, Ahead!History, Ahead!Reverse, Ahead!Abstract
<1>5. Marks!Decisions!StartExport => Ahead!Decisions!StartExport
  BY Zenon DEF Marks!Decisions!StartExport, Marks!Decisions!Account,
     Marks!Decisions!NoJob, Marks!Decisions!Current, Marks!Decisions!Units,
     Marks!Decisions!Whole, Marks!History, Marks!Reverse, Marks!Abstract,
     Ahead!Decisions!StartExport, Ahead!Decisions!Account,
     Ahead!Decisions!NoJob, Ahead!Decisions!Current, Ahead!Decisions!Units,
     Ahead!Decisions!Whole, Ahead!History, Ahead!Reverse, Ahead!Abstract
<1>6. Marks!Decisions!EndExport => Ahead!Decisions!EndExport
  BY Zenon DEF Marks!Decisions!EndExport, Marks!History, Marks!Reverse, Marks!Abstract,
     Ahead!Decisions!EndExport, Ahead!History, Ahead!Reverse, Ahead!Abstract
<1>7. Marks!Decisions!ApplyExport => Ahead!Decisions!ApplyExport
  BY Zenon DEF Marks!Decisions!ApplyExport, Marks!Decisions!Account,
     Marks!Decisions!NoJob, Marks!History, Marks!Reverse, Marks!Abstract,
     Ahead!Decisions!ApplyExport, Ahead!Decisions!Account,
     Ahead!Decisions!NoJob, Ahead!History, Ahead!Reverse, Ahead!Abstract
<1>8. UNCHANGED Marks!Decisions!vars => UNCHANGED Ahead!Decisions!vars
  BY Zenon DEF Marks!Decisions!vars, Marks!History, Marks!Reverse, Marks!Abstract,
     Ahead!Decisions!vars, Ahead!History, Ahead!Reverse, Ahead!Abstract
<1> QED
  BY <1>1, <1>2, <1>3, <1>4, <1>5, <1>6, <1>7, <1>8
     DEF Marks!Decisions!Next, Ahead!Decisions!Next

LEMMA ExportsDecisions ==
  [Exports!Decisions!Next]_(Exports!Decisions!vars) =>
    [Ahead!Decisions!Next]_(Ahead!Decisions!vars)
<1>1. Exports!Decisions!Decide => Ahead!Decisions!Decide
  <2>1. Exports!Decisions!Current = Ahead!Decisions!Current
    BY Zenon DEF Exports!Decisions!Current, Exports!History, Exports!Reverse,
       Exports!Abstract, Ahead!Decisions!Current, Ahead!History,
       Ahead!Reverse, Ahead!Abstract
  <2>2. Exports!Decisions!Whole = Ahead!Decisions!Whole
    BY Zenon DEF Exports!Decisions!Whole, Exports!Decisions!Units,
       Ahead!Decisions!Whole, Ahead!Decisions!Units
  <2>3. Exports!Decisions!Shorter = Ahead!Decisions!Shorter
    <3>1. Exports!Decisions!Sections = Ahead!Decisions!Sections
      BY DEF Exports!Decisions!Sections, Exports!Decisions!Units,
       Ahead!Decisions!Sections, Ahead!Decisions!Units
    <3>2. \A kept : Exports!Decisions!Keeping(kept) = Ahead!Decisions!Keeping(kept)
      <4>1. \A kept : Exports!Decisions!Cuts(kept) = Ahead!Decisions!Cuts(kept)
        BY Zenon DEF Exports!Decisions!Cuts, Ahead!Decisions!Cuts
      <4> QED
        BY <2>1, <4>1, Zenon DEF Exports!Decisions!Keeping, Ahead!Decisions!Keeping
    <3> QED
      BY <2>1, <3>1, <3>2
         DEF Exports!Decisions!Shorter, Ahead!Decisions!Shorter
  <2>4. Exports!Decisions!Toggled = Ahead!Decisions!Toggled
    BY Zenon DEF Exports!Decisions!Toggled, Exports!Decisions!Cuts,
       Exports!Decisions!Current, Exports!History, Exports!Reverse,
       Exports!Abstract, Ahead!Decisions!Toggled, Ahead!Decisions!Cuts,
       Ahead!Decisions!Current, Ahead!History, Ahead!Reverse, Ahead!Abstract
  <2> QED
    BY <2>1, <2>2, <2>3, <2>4, Zenon
       DEF Exports!Decisions!Decide, Exports!History, Exports!Reverse,
       Exports!Abstract, Ahead!Decisions!Decide, Ahead!History, Ahead!Reverse,
       Ahead!Abstract
<1>2. Exports!Decisions!Undo => Ahead!Decisions!Undo
  BY Zenon DEF Exports!Decisions!Undo, Exports!History, Exports!Reverse,
     Exports!Abstract, Ahead!Decisions!Undo, Ahead!History, Ahead!Reverse,
     Ahead!Abstract
<1>3. Exports!Decisions!Redo => Ahead!Decisions!Redo
  BY Zenon DEF Exports!Decisions!Redo, Exports!History, Exports!Reverse,
     Exports!Abstract, Ahead!Decisions!Redo, Ahead!History, Ahead!Reverse,
     Ahead!Abstract
<1>4. Exports!Decisions!Discard => Ahead!Decisions!Discard
  BY Zenon DEF Exports!Decisions!Discard, Exports!Decisions!Current,
     Exports!Decisions!Units, Exports!Decisions!Whole, Exports!History,
     Exports!Reverse, Exports!Abstract, Ahead!Decisions!Discard,
     Ahead!Decisions!Current, Ahead!Decisions!Units, Ahead!Decisions!Whole,
     Ahead!History, Ahead!Reverse, Ahead!Abstract
<1>5. Exports!Decisions!StartExport => Ahead!Decisions!StartExport
  BY Zenon DEF Exports!Decisions!StartExport, Exports!Decisions!Account,
     Exports!Decisions!NoJob, Exports!Decisions!Current,
     Exports!Decisions!Units, Exports!Decisions!Whole, Exports!History,
     Exports!Reverse, Exports!Abstract, Ahead!Decisions!StartExport,
     Ahead!Decisions!Account, Ahead!Decisions!NoJob, Ahead!Decisions!Current,
     Ahead!Decisions!Units, Ahead!Decisions!Whole, Ahead!History,
     Ahead!Reverse, Ahead!Abstract
<1>6. Exports!Decisions!EndExport => Ahead!Decisions!EndExport
  BY Zenon DEF Exports!Decisions!EndExport, Exports!History, Exports!Reverse,
     Exports!Abstract, Ahead!Decisions!EndExport, Ahead!History,
     Ahead!Reverse, Ahead!Abstract
<1>7. Exports!Decisions!ApplyExport => Ahead!Decisions!ApplyExport
  BY Zenon DEF Exports!Decisions!ApplyExport, Exports!Decisions!Account,
     Exports!Decisions!NoJob, Exports!History, Exports!Reverse,
     Exports!Abstract, Ahead!Decisions!ApplyExport, Ahead!Decisions!Account,
     Ahead!Decisions!NoJob, Ahead!History, Ahead!Reverse, Ahead!Abstract
<1>8. UNCHANGED Exports!Decisions!vars => UNCHANGED Ahead!Decisions!vars
  BY Zenon DEF Exports!Decisions!vars, Exports!History, Exports!Reverse,
     Exports!Abstract, Ahead!Decisions!vars, Ahead!History, Ahead!Reverse,
     Ahead!Abstract
<1> QED
  BY <1>1, <1>2, <1>3, <1>4, <1>5, <1>6, <1>7, <1>8
     DEF Exports!Decisions!Next, Ahead!Decisions!Next

LEMMA PreviewDecisions ==
  [Preview!Decisions!Next]_(Preview!Decisions!vars) =>
    [Ahead!Decisions!Next]_(Ahead!Decisions!vars)
<1>1. Preview!Decisions!Decide => Ahead!Decisions!Decide
  <2>1. Preview!Decisions!Current = Ahead!Decisions!Current
    BY Zenon DEF Preview!Decisions!Current, Preview!History, Preview!Reverse,
       Preview!Abstract, Ahead!Decisions!Current, Ahead!History,
       Ahead!Reverse, Ahead!Abstract
  <2>2. Preview!Decisions!Whole = Ahead!Decisions!Whole
    BY Zenon DEF Preview!Decisions!Whole, Preview!Decisions!Units,
       Ahead!Decisions!Whole, Ahead!Decisions!Units
  <2>3. Preview!Decisions!Shorter = Ahead!Decisions!Shorter
    <3>1. Preview!Decisions!Sections = Ahead!Decisions!Sections
      BY DEF Preview!Decisions!Sections, Preview!Decisions!Units,
       Ahead!Decisions!Sections, Ahead!Decisions!Units
    <3>2. \A kept : Preview!Decisions!Keeping(kept) = Ahead!Decisions!Keeping(kept)
      <4>1. \A kept : Preview!Decisions!Cuts(kept) = Ahead!Decisions!Cuts(kept)
        BY Zenon DEF Preview!Decisions!Cuts, Ahead!Decisions!Cuts
      <4> QED
        BY <2>1, <4>1, Zenon DEF Preview!Decisions!Keeping, Ahead!Decisions!Keeping
    <3> QED
      BY <2>1, <3>1, <3>2
         DEF Preview!Decisions!Shorter, Ahead!Decisions!Shorter
  <2>4. Preview!Decisions!Toggled = Ahead!Decisions!Toggled
    BY Zenon DEF Preview!Decisions!Toggled, Preview!Decisions!Cuts,
       Preview!Decisions!Current, Preview!History, Preview!Reverse,
       Preview!Abstract, Ahead!Decisions!Toggled, Ahead!Decisions!Cuts,
       Ahead!Decisions!Current, Ahead!History, Ahead!Reverse, Ahead!Abstract
  <2> QED
    BY <2>1, <2>2, <2>3, <2>4, Zenon
       DEF Preview!Decisions!Decide, Preview!History, Preview!Reverse,
       Preview!Abstract, Ahead!Decisions!Decide, Ahead!History, Ahead!Reverse,
       Ahead!Abstract
<1>2. Preview!Decisions!Undo => Ahead!Decisions!Undo
  BY Zenon DEF Preview!Decisions!Undo, Preview!History, Preview!Reverse,
     Preview!Abstract, Ahead!Decisions!Undo, Ahead!History, Ahead!Reverse,
     Ahead!Abstract
<1>3. Preview!Decisions!Redo => Ahead!Decisions!Redo
  BY Zenon DEF Preview!Decisions!Redo, Preview!History, Preview!Reverse,
     Preview!Abstract, Ahead!Decisions!Redo, Ahead!History, Ahead!Reverse,
     Ahead!Abstract
<1>4. Preview!Decisions!Discard => Ahead!Decisions!Discard
  BY Zenon DEF Preview!Decisions!Discard, Preview!Decisions!Current,
     Preview!Decisions!Units, Preview!Decisions!Whole, Preview!History,
     Preview!Reverse, Preview!Abstract, Ahead!Decisions!Discard,
     Ahead!Decisions!Current, Ahead!Decisions!Units, Ahead!Decisions!Whole,
     Ahead!History, Ahead!Reverse, Ahead!Abstract
<1>5. Preview!Decisions!StartExport => Ahead!Decisions!StartExport
  BY Zenon DEF Preview!Decisions!StartExport, Preview!Decisions!Account,
     Preview!Decisions!NoJob, Preview!Decisions!Current,
     Preview!Decisions!Units, Preview!Decisions!Whole, Preview!History,
     Preview!Reverse, Preview!Abstract, Ahead!Decisions!StartExport,
     Ahead!Decisions!Account, Ahead!Decisions!NoJob, Ahead!Decisions!Current,
     Ahead!Decisions!Units, Ahead!Decisions!Whole, Ahead!History,
     Ahead!Reverse, Ahead!Abstract
<1>6. Preview!Decisions!EndExport => Ahead!Decisions!EndExport
  BY Zenon DEF Preview!Decisions!EndExport, Preview!History, Preview!Reverse,
     Preview!Abstract, Ahead!Decisions!EndExport, Ahead!History,
     Ahead!Reverse, Ahead!Abstract
<1>7. Preview!Decisions!ApplyExport => Ahead!Decisions!ApplyExport
  BY Zenon DEF Preview!Decisions!ApplyExport, Preview!Decisions!Account,
     Preview!Decisions!NoJob, Preview!History, Preview!Reverse,
     Preview!Abstract, Ahead!Decisions!ApplyExport, Ahead!Decisions!Account,
     Ahead!Decisions!NoJob, Ahead!History, Ahead!Reverse, Ahead!Abstract
<1>8. UNCHANGED Preview!Decisions!vars => UNCHANGED Ahead!Decisions!vars
  BY Zenon DEF Preview!Decisions!vars, Preview!History, Preview!Reverse,
     Preview!Abstract, Ahead!Decisions!vars, Ahead!History, Ahead!Reverse,
     Ahead!Abstract
<1> QED
  BY <1>1, <1>2, <1>3, <1>4, <1>5, <1>6, <1>7, <1>8
     DEF Preview!Decisions!Next, Ahead!Decisions!Next

\* The question and the export it waits for are the same, too.
EditorsDiscardInv == Ahead!DiscardInv

LEMMA EditorsDiscardStep ==
  ASSUME EditorsIInv, EditorsDiscardInv, [MCNext]_<<which, vars, editVars>>
  PROVE  EditorsDiscardInv' /\ [Ahead!Decisions!Next]_(Ahead!Decisions!vars)
<1>1. \/ Marks!IInv /\ [Marks!Next]_(Marks!vars)
      \/ Exports!IInv /\ [Exports!Next]_(Exports!vars)
      \/ Preview!IInv /\ [Preview!Next]_(Preview!vars)
      \/ Ahead!IInv /\ [Ahead!Next]_(Ahead!vars)
  BY DEF EditorsIInv, MCNext, OthersRest, editVars, Marks!vars, Exports!vars,
     Preview!vars, Ahead!vars
<1>2. /\ Marks!DiscardInv <=> Ahead!DiscardInv
      /\ Exports!DiscardInv <=> Ahead!DiscardInv
      /\ Preview!DiscardInv <=> Ahead!DiscardInv
  BY DEF Marks!DiscardInv, Marks!Whole, Marks!Clip, Exports!DiscardInv,
     Exports!Whole, Exports!Clip, Preview!DiscardInv, Preview!Whole,
     Preview!Clip, Ahead!DiscardInv, Ahead!Whole, Ahead!Clip
<1>3. /\ Marks!DiscardInv' <=> Ahead!DiscardInv'
      /\ Exports!DiscardInv' <=> Ahead!DiscardInv'
      /\ Preview!DiscardInv' <=> Ahead!DiscardInv'
  BY DEF Marks!DiscardInv, Marks!Whole, Marks!Clip, Exports!DiscardInv,
     Exports!Whole, Exports!Clip, Preview!DiscardInv, Preview!Whole,
     Preview!Clip, Ahead!DiscardInv, Ahead!Whole, Ahead!Clip
<1>4. Ahead!DiscardInv
  BY DEF EditorsDiscardInv
<1>5. ASSUME Marks!IInv, [Marks!Next]_(Marks!vars)
      PROVE  Ahead!DiscardInv' /\ [Ahead!Decisions!Next]_(Ahead!Decisions!vars)
  <2>1. Marks!TypeOK /\ Marks!DiscardInv
    BY <1>2, <1>4, <1>5 DEF Marks!IInv
  <2>2. Marks!DiscardInv' /\ [Marks!Decisions!Next]_(Marks!Decisions!vars)
    BY <1>5, <2>1, ConstantsAreAllowed, Marks!DiscardStep, Marks!DecisionsStep
  <2> QED
    BY MarksDecisions, <1>3, <2>2
<1>6. ASSUME Exports!IInv, [Exports!Next]_(Exports!vars)
      PROVE  Ahead!DiscardInv' /\ [Ahead!Decisions!Next]_(Ahead!Decisions!vars)
  <2>1. Exports!TypeOK /\ Exports!DiscardInv
    BY <1>2, <1>4, <1>6 DEF Exports!IInv
  <2>2. Exports!DiscardInv' /\ [Exports!Decisions!Next]_(Exports!Decisions!vars)
    BY <1>6, <2>1, ConstantsAreAllowed, Exports!DiscardStep, Exports!DecisionsStep
  <2> QED
    BY ExportsDecisions, <1>3, <2>2
<1>7. ASSUME Preview!IInv, [Preview!Next]_(Preview!vars)
      PROVE  Ahead!DiscardInv' /\ [Ahead!Decisions!Next]_(Ahead!Decisions!vars)
  <2>1. Preview!TypeOK /\ Preview!DiscardInv
    BY <1>2, <1>4, <1>7 DEF Preview!IInv
  <2>2. Preview!DiscardInv' /\ [Preview!Decisions!Next]_(Preview!Decisions!vars)
    BY <1>7, <2>1, ConstantsAreAllowed, Preview!DiscardStep, Preview!DecisionsStep
  <2> QED
    BY PreviewDecisions, <1>3, <2>2
<1>8. ASSUME Ahead!IInv, [Ahead!Next]_(Ahead!vars)
      PROVE  Ahead!DiscardInv' /\ [Ahead!Decisions!Next]_(Ahead!Decisions!vars)
  <2>1. Ahead!TypeOK /\ Ahead!DiscardInv
    BY <1>2, <1>4, <1>8 DEF Ahead!IInv
  <2>2. Ahead!DiscardInv' /\ [Ahead!Decisions!Next]_(Ahead!Decisions!vars)
    BY <1>8, <2>1, ConstantsAreAllowed, Ahead!DiscardStep, Ahead!DecisionsStep
  <2> QED
    BY <1>3, <2>2
<1> QED
  BY <1>1, <1>5, <1>6, <1>7, <1>8 DEF EditorsDiscardInv

\* The document of ranges, its two stacks and its exports implement what
\* EditDecisions promises, in each of the instances.
THEOREM Refinement == MCSpec => KeepsDecisions
<1>1. MCInit => EditorsDiscardInv /\ Ahead!Decisions!Init
  BY ConstantsAreAllowed, Ahead!DecisionsBegin
     DEF MCInit, EditorsDiscardInv, Ahead!DiscardInv, Ahead!Init
<1>2. EditorsIInv /\ EditorsDiscardInv /\ [MCNext]_<<which, vars, editVars>> =>
        EditorsDiscardInv' /\ [Ahead!Decisions!Next]_(Ahead!Decisions!vars)
  BY EditorsDiscardStep
<1> QED
  BY <1>1, <1>2, EditorsInductive, PTL
     DEF MCSpec, KeepsDecisions, Ahead!KeepsDecisions, Ahead!Decisions!Spec

=============================================================================
