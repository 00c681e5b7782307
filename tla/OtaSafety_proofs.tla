-------------------------- MODULE OtaSafety_proofs --------------------------
(***************************************************************************)
(* In a careful environment (OtaInvariant says which those are) an update  *)
(* is atomic: the inductive invariant Inv, the safety properties it        *)
(* implies, and the refinement of AtomicUpdate.                            *)
(***************************************************************************)
EXTENDS OtaAppliance_proofs

\* Names that every step below would expand.
USE DEF Procs, Installer, Health, appliance, disk, locals, Goto, Exit, Advance,
        At, Item, Version, FromFirst, Judged, AfterDirectory, AfterFile

\* The same facts after the step.
LEMMA NextTypeFacts ==
  ASSUME TypeInv'
  PROVE  /\ ProcessTypeOK'
         /\ root' \in [Items -> Content] /\ backup' \in [Items -> Content]
         /\ \A r : root' = Uniform(r) <=> \A i \in Items : root'[i] = r
  BY DEF TypeInv, TypeOK, ApplianceTypeOK, Uniform

\* How the items below the loop variable grow by one.
LEMMA NextItem ==
  /\ \A i, k \in Items : i < k + 1 => i < k \/ i = k
  /\ \A i, k \in Items : i > k + 1 => i > k /\ i # k
  /\ \A k \in Items : k + 1 > k /\ k + 1 # k
  /\ \A i, k \in Items : i < k => i # k
  /\ \A i \in Items : i < NumItems + 1
  BY ApplianceAssumption, ItemFacts DEF Items, NumItems

\* The loop over the directories starts: nothing is new yet.
LEMMA StopServicesProgress ==
  ASSUME TypeInv, Inv, StopServices, UNCHANGED good
  PROVE  InstallProgress'
<1>1. /\ pc[Installer] = "stop" /\ pc'[Installer] = "outdir"
      /\ idx'[Installer] = 1 
      /\ UNCHANGED <<root, backup, marker, ver>>
  BY TypeFacts DEF StopServices, ProcessTypeOK
<1>2. /\ marker.version = ver[Installer]
      /\ \A i \in Items : root[i] = good
      /\ \A d \in Dirs : backup[d] = None
  BY <1>1, TypeFacts DEF Inv, InstallProgress, BackupProgress, ApplyPcs, InPc
<1>3. \A i \in Items : ~(i < 1)
  BY ItemFacts DEF Items
<1>4. QED
  BY <1>1, <1>2, <1>3, ItemFacts DEF InstallProgress, ApplyPcs, AfterPcs, InPc

\* A directory moves out; those after it are untouched.
LEMMA MoveDirectoryOutProgress ==
  ASSUME TypeInv, Inv, MoveDirectoryOut, UNCHANGED good
  PROVE  InstallProgress'
<1> DEFINE k == idx[Installer]
<1>1. /\ pc[Installer] = "outdir" /\ pc'[Installer] = "indir"
      /\ k \in Dirs
      /\ UNCHANGED <<idx, marker, ver>>
      /\ root'[k] = None
      /\ \A i \in Items \ {k} : root'[i] = root[i] /\ backup'[i] = backup[i]
  BY TypeFacts, ItemFacts DEF MoveDirectoryOut, ProcessTypeOK, IndexOK
<1>2. /\ marker.version = ver[Installer]
      /\ \A i \in Items : i < k => root[i] = ver[Installer]
      /\ \A d \in Dirs : d > k => root[d] = good /\ backup[d] = None
  BY <1>1 DEF Inv, InstallProgress, ApplyPcs, InPc
<1>3. QED
  BY <1>1, <1>2, ItemFacts DEF InstallProgress, ApplyPcs, AfterPcs, InPc

\* A directory moves in: one more item is new.
LEMMA MoveDirectoryInProgress ==
  ASSUME TypeInv, Inv, MoveDirectoryIn, UNCHANGED good
  PROVE  InstallProgress'
<1> DEFINE k == idx[Installer]
<1>1. /\ pc[Installer] = "indir" 
      /\ pc'[Installer] = IF k = NumDirs THEN "open" ELSE "outdir"
      /\ k \in Dirs
      /\ idx'[Installer] = k + 1
      /\ UNCHANGED <<backup, marker, ver>>
      /\ root'[k] = ver[Installer]
      /\ \A i \in Items \ {k} : root'[i] = root[i]
  BY TypeFacts, ItemFacts DEF MoveDirectoryIn, ProcessTypeOK, IndexOK
<1>2. /\ marker.version = ver[Installer]
      /\ \A i \in Items : i < k => root[i] = ver[Installer]
      /\ \A d \in Dirs : d > k => root[d] = good /\ backup[d] = None
  BY <1>1 DEF Inv, InstallProgress, ApplyPcs, InPc
<1>3. /\ \A i \in Items : i < k + 1 => root'[i] = ver[Installer]
      /\ \A d \in Dirs : d > k + 1 => root'[d] = good /\ backup'[d] = None
      /\ k # NumDirs => root'[k + 1] = good /\ backup'[k + 1] = None
  <2>1. \A i \in Items : i < k + 1 => root'[i] = ver[Installer]
    BY <1>1, <1>2, ItemFacts, NextItem
  <2>2. \A d \in Dirs : d > k + 1 => root'[d] = good /\ backup'[d] = None
    <3>1. \A d \in Dirs : d > k + 1 => d \in Items \ {k} /\ d > k
      BY <1>1, ItemFacts, NextItem
    <3>2. QED
      BY <1>1, <1>2, <3>1
  <2>3. k # NumDirs => root'[k + 1] = good /\ backup'[k + 1] = None
    <3>1. k # NumDirs => k + 1 \in Dirs /\ k + 1 \in Items \ {k} /\ k + 1 > k
      BY <1>1, ItemFacts, LoopFacts, NextItem
    <3>2. QED
      BY <1>1, <1>2, <3>1
  <2>4. QED
    BY <2>1, <2>2, <2>3
<1>4. QED
  BY <1>1, <1>2, <1>3, ItemFacts DEF InstallProgress, ApplyPcs, AfterPcs, InPc

\* A file is written: one more item is new, the last makes all new.
LEMMA WriteNewFileProgress ==
  ASSUME TypeInv, TypeInv', Inv, WriteNewFile, UNCHANGED good
  PROVE  InstallProgress'
<1> DEFINE k == idx[Installer]
<1>1. /\ pc[Installer] = "write" 
      /\ pc'[Installer] = IF k = NumItems THEN "move" ELSE "open"
      /\ k \in Files
      /\ idx'[Installer] = k + 1
      /\ UNCHANGED <<backup, marker, ver>>
      /\ root'[k] = ver[Installer]
      /\ \A i \in Items \ {k} : root'[i] = root[i]
  BY TypeFacts, ItemFacts DEF WriteNewFile, ProcessTypeOK, IndexOK
<1>2. /\ marker.version = ver[Installer]
      /\ \A i \in Items : i < k => root[i] = ver[Installer]
  BY <1>1 DEF Inv, InstallProgress, ApplyPcs, InPc
<1>3. \A i \in Items : i < k + 1 => root'[i] = ver[Installer]
  BY <1>1, <1>2, ItemFacts, NextItem
<1>4. k = NumItems => root' = Uniform(ver[Installer])
  <2>1. k = NumItems => \A i \in Items : root'[i] = ver[Installer]
    BY <1>3, ItemFacts DEF Items
  <2>2. QED
    BY <2>1 DEF TypeInv, TypeOK, ApplianceTypeOK, Uniform
<1>5. QED
  BY <1>1, <1>2, <1>3, <1>4, ItemFacts
  DEF InstallProgress, ApplyPcs, AfterPcs, InPc

\* A file is copied: one more item of the accepted release is safe.
LEMMA BackUpFileProgress ==
  ASSUME TypeInv, Inv, BackUpFile, UNCHANGED good
  PROVE  BackupProgress'
<1> DEFINE k == idx[Installer]
<1>1. /\ pc[Installer] = "backup" 
      /\ pc'[Installer] = IF k = NumItems THEN "meta" ELSE "backup"
      /\ k \in Files
      /\ idx'[Installer] = k + 1
      /\ UNCHANGED <<meta, ver>>
  BY TypeFacts, ItemFacts DEF BackUpFile, ProcessTypeOK, IndexOK
<1>2. root[k] = good
  BY <1>1, TypeFacts, ItemFacts DEF Inv, Exclusion, Settled, PreparePcs
<1>3. /\ backup' = [backup EXCEPT ![k] = good]
      /\ previous'[Installer] = previous[Installer] \union {k}
  BY <1>1, <1>2, TypeFacts, ReleaseFacts DEF BackUpFile, ProcessTypeOK
<1>4. /\ \A d \in Dirs : backup[d] = None
      /\ \A f \in Files :
           f < k => f \in previous[Installer] /\ backup[f] = good
      /\ ver[Installer] \in Releases
  BY <1>1 DEF Inv, BackupProgress, InPc
<1>5. /\ \A d \in Dirs : backup'[d] = None
      /\ \A f \in Files :
           f < k + 1 => f \in previous'[Installer] /\ backup'[f] = good
  <2>1. \A d \in Dirs : backup'[d] = None
    BY <1>1, <1>3, <1>4, TypeFacts, ItemFacts
  <2>2. \A f \in Files :
          f < k + 1 => f \in previous'[Installer] /\ backup'[f] = good
    BY <1>1, <1>3, <1>4, TypeFacts, ItemFacts, NextItem
  <2>3. QED
    BY <2>1, <2>2
<1>6. k = NumItems =>
        \A f \in Files : f \in previous'[Installer] /\ backup'[f] = good
  BY <1>5, ItemFacts, NextItem
<1>7. QED
  BY <1>1, <1>4, <1>5, <1>6 DEF BackupProgress, InPc, ApplyPcs, AfterPcs

\* A rollback starts: nothing is restored yet.
LEMMA LoadMetadataProgress ==
  ASSUME TypeInv, Inv, NEW p \in Procs, LoadMetadata(p), UNCHANGED good
  PROVE  RestoreProgress'
<1>1. /\ pc[p] = "load" /\ pc'[p] \in {"rdir", "norollback"}
      /\ pc'[p] = "rdir" => idx'[p] = 1 /\ previous'[p] = meta.previous
      /\ UNCHANGED <<root, backup, meta>>
      /\ \A q \in Procs \ {p} :
           pc'[q] = pc[q] /\ idx'[q] = idx[q] /\ previous'[q] = previous[q]
  BY TypeFacts DEF LoadMetadata, ProcessTypeOK
<1>2. Files \subseteq meta.previous
  BY <1>1, TypeFacts DEF Inv, Exclusion, RestorePcs, RollbackComplete
<1>3. \A i \in Items : ~(i < 1)
  BY ItemFacts DEF Items
<1>4. RestoreProgress
  BY DEF Inv
<1>5. QED
  BY <1>1, <1>2, <1>3, <1>4 DEF RestoreProgress

\* A directory with no copy in the rollback is still the accepted one.
LEMMA ChooseDirectoryProgress ==
  ASSUME TypeInv, Inv, NEW p \in Procs, ChooseDirectory(p), UNCHANGED good
  PROVE  RestoreProgress'
<1> DEFINE k == idx[p]
<1>1. /\ pc[p] = "rdir" 
      /\ k \in Dirs
      /\ UNCHANGED <<root, backup, previous>>
      /\ \A q \in Procs \ {p} : pc'[q] = pc[q] /\ idx'[q] = idx[q]
  BY TypeFacts DEF ChooseDirectory, ProcessTypeOK, IndexOK
<1>2. \/ pc'[p] \in {"rdir", "rfile"} /\ idx'[p] = k + 1 /\ backup[k] = None
      \/ pc'[p] = "rmdir" /\ idx'[p] = k /\ backup[k] # None
  BY <1>1, TypeFacts DEF ChooseDirectory, ProcessTypeOK, IndexOK
<1>3. UnderTrial /\ RestoreProgress /\ RollbackComplete
  BY <1>1, TypeFacts DEF Inv, Exclusion, RestorePcs
<1>4. \/ backup[k] = good
      \/ backup[k] = None /\ root[k] = good
  BY <1>1, <1>3 DEF RollbackComplete
<1>5. /\ Files \subseteq previous[p]
      /\ \A i \in Items : i < k => root[i] = good
  BY <1>1, <1>3 DEF RestoreProgress
<1>6. /\ Files \subseteq previous'[p]
      /\ \A i \in Items : i < idx'[p] => root'[i] = good
      /\ pc'[p] = "rmdir" => backup'[idx'[p]] = good
  <2>1. CASE /\ idx'[p] = k + 1
             /\ backup[k] = None
             /\ pc'[p] \in {"rdir", "rfile"}
    <3>1. root[k] = good
      BY <1>4, <2>1, TypeFacts, ReleaseFacts
    <3>2. \A i \in Items : i < k + 1 => root[i] = good
      BY <1>1, <1>5, <3>1, ItemFacts, NextItem
    <3>3. QED
      BY <1>1, <1>5, <2>1, <3>2
  <2>2. CASE idx'[p] = k /\ backup[k] # None
    BY <1>1, <1>4, <1>5, <2>2
  <2>3. QED
    BY <1>2, <2>1, <2>2
<1>7. QED
  BY <1>1, <1>2, <1>3, <1>6 DEF RestoreProgress

\* A new directory goes away; those restored stay.
LEMMA RemoveDirectoryProgress ==
  ASSUME TypeInv, Inv, NEW p \in Procs, RemoveDirectory(p), UNCHANGED good
  PROVE  RestoreProgress'
<1> DEFINE k == idx[p]
<1>1. /\ pc[p] = "rmdir" /\ k \in Dirs
      /\ UNCHANGED <<pc, idx, backup, previous>>
      /\ \A i \in Items \ {k} : root'[i] = root[i]
  BY TypeFacts DEF RemoveDirectory, ProcessTypeOK, IndexOK
<1>2. /\ RestoreProgress
      /\ \A q \in Procs \ {p} : pc[q] \notin RestorePcs
  BY <1>1, TypeFacts DEF Inv, Exclusion, RestorePcs
<1>3. \A i \in Items : i < k => root'[i] = good
  BY <1>1, <1>2, ItemFacts, NextItem DEF RestoreProgress
<1>4. QED
  BY <1>1, <1>2, <1>3 DEF RestoreProgress, RestorePcs

\* A directory comes back: one more item is restored.
LEMMA PutDirectoryProgress ==
  ASSUME TypeInv, Inv, NEW p \in Procs, PutDirectory(p), UNCHANGED good
  PROVE  RestoreProgress'
<1> DEFINE k == idx[p]
<1>1. /\ pc[p] = "rmdir" /\ pc'[p] \in {"rdir", "rfile"}
      /\ k \in Dirs
      /\ idx'[p] = k + 1
      /\ root' = [root EXCEPT ![k] = backup[k]]
      /\ UNCHANGED previous
      /\ \A q \in Procs \ {p} : pc'[q] = pc[q]
  BY TypeFacts DEF PutDirectory, ProcessTypeOK, IndexOK
<1>2. /\ backup[k] = good
      /\ Files \subseteq previous[p]
      /\ \A i \in Items : i < k => root[i] = good
  BY <1>1 DEF Inv, RestoreProgress
<1>3. \A i \in Items : i < k + 1 => root'[i] = good
  BY <1>1, <1>2, TypeFacts, ItemFacts, NextItem
<1>4. \A q \in Procs \ {p} : pc'[q] \notin RestorePcs
  BY <1>1, TypeFacts DEF Inv, Exclusion, RestorePcs
<1>5. QED
  BY <1>1, <1>2, <1>3, <1>4 DEF RestoreProgress, RestorePcs

\* A file is torn while it is restored; those before it stay.
LEMMA OpenFileProgress ==
  ASSUME TypeInv, Inv, NEW p \in Procs, OpenFile(p), UNCHANGED good
  PROVE  RestoreProgress'
<1> DEFINE k == idx[p]
<1>1. /\ pc[p] = "rfile"
      /\ k \in Files
      /\ UNCHANGED <<backup, previous>>
      /\ \A q \in Procs \ {p} : pc'[q] = pc[q]
  BY TypeFacts DEF OpenFile, ProcessTypeOK, IndexOK
<1>2. /\ UnderTrial /\ RollbackComplete
      /\ \A q \in Procs \ {p} : pc[q] \notin RestorePcs
  BY <1>1, TypeFacts DEF Inv, Exclusion, RestorePcs
<1>3. /\ backup[k] = good
      /\ Files \subseteq previous[p]
      /\ \A i \in Items : i < k => root[i] = good
  BY <1>1, <1>2 DEF Inv, RollbackComplete, RestoreProgress
<1>4. /\ pc'[p] = "wfile" /\ idx'[p] = k
      /\ \A i \in Items \ {k} : root'[i] = root[i]
  <2>1. k \in previous[p] /\ backup[k] # None /\ k \in Items
    BY <1>1, <1>3, TypeFacts, ItemFacts, ReleaseFacts
  <2>2. root' = [root EXCEPT ![k] = Torn] /\ pc' = [pc EXCEPT ![p] = "wfile"]
        /\ idx' = idx
    BY <2>1 DEF OpenFile
  <2>3. QED
    BY <2>1, <2>2, TypeFacts DEF ProcessTypeOK
<1>5. \A i \in Items : i < k => root'[i] = good
  <2> SUFFICES ASSUME NEW i \in Items, i < k PROVE root'[i] = good
    OBVIOUS
  <2>1. i # k
    BY <1>1, ItemFacts, NextItem
  <2>2. QED
    BY <1>3, <1>4, <2>1
<1>6. QED
  BY <1>1, <1>2, <1>3, <1>4, <1>5 DEF RestoreProgress, RestorePcs

\* A file comes back: one more item is restored, the last makes all so.
LEMMA WriteFileProgress ==
  ASSUME TypeInv, TypeInv', Inv, NEW p \in Procs, WriteFile(p), UNCHANGED good
  PROVE  RestoreProgress'
<1> DEFINE k == idx[p]
<1>1. /\ pc[p] = "wfile"
      /\ pc'[p] = IF k = NumItems THEN "runmark" ELSE "rfile"
      /\ k \in Files
      /\ idx'[p] = k + 1
      /\ root' = [root EXCEPT ![k] = backup[k]]
      /\ UNCHANGED previous
      /\ \A q \in Procs \ {p} : pc'[q] = pc[q]
  BY TypeFacts DEF WriteFile, ProcessTypeOK, IndexOK
<1>2. /\ UnderTrial /\ RollbackComplete
      /\ \A q \in Procs \ {p} : pc[q] \notin RestorePcs
  BY <1>1, TypeFacts DEF Inv, Exclusion, RestorePcs
<1>3. /\ backup[k] = good
      /\ Files \subseteq previous[p]
      /\ \A i \in Items : i < k => root[i] = good
  BY <1>1, <1>2 DEF Inv, RollbackComplete, RestoreProgress
<1>4. \A i \in Items : i < k + 1 => root'[i] = good
  BY <1>1, <1>3, TypeFacts, ItemFacts, NextItem
<1>5. k = NumItems => root' = Uniform(good)
  <2>1. k = NumItems => \A i \in Items : root'[i] = good
    BY <1>4, NextItem
  <2>2. QED
    BY <2>1 DEF TypeInv, TypeOK, ApplianceTypeOK, Uniform
<1>6. QED
  BY <1>1, <1>2, <1>3, <1>4, <1>5 DEF RestoreProgress, RestorePcs

\* restore_backup, in either process.
LEMMA RestoreInv ==
  ASSUME Careful, TypeInv, TypeInv', Inv,
         NEW p \in Procs, RestoreStep(p), UNCHANGED good
  PROVE  Inv'
<1> USE TypeFacts, NextTypeFacts, ItemFacts, LoopFacts, ReleaseFacts
    DEF Careful, Inv, Exclusion, Settled, RollbackComplete, BackupProgress,
        InstallProgress, RestoreProgress, JudgedWhole, InPc, HcPc, UnderTrial,
        NoMarker, NoMeta, Empty, MaybeRelease, ProcessTypeOK, IndexOK, JudgeOK,
        CopyVanished, PreparePcs, TryPcs, ApplyPcs, AfterPcs, RestorePcs,
        ReturnPcs, CheckPcs
<1>1. CASE LoadMetadata(p)
  <2>1. RestoreProgress'
    BY <1>1, LoadMetadataProgress
  <2>2. /\ Exclusion' /\ Settled' /\ RollbackComplete'
        /\ BackupProgress' /\ InstallProgress' /\ JudgedWhole'
    BY <1>1 DEF LoadMetadata
  <2>3. QED
    BY <2>1, <2>2 DEF Inv
<1>2. CASE ChooseDirectory(p)
  <2>1. RestoreProgress'
    BY <1>2, ChooseDirectoryProgress
  <2>2. /\ Exclusion' /\ Settled' /\ RollbackComplete'
        /\ BackupProgress' /\ InstallProgress' /\ JudgedWhole'
    BY <1>2 DEF ChooseDirectory
  <2>3. QED
    BY <2>1, <2>2 DEF Inv
<1>3. CASE RemoveDirectory(p)
  <2>1. RestoreProgress'
    BY <1>3, RemoveDirectoryProgress
  <2>2. /\ Exclusion' /\ Settled' /\ RollbackComplete'
        /\ BackupProgress' /\ InstallProgress' /\ JudgedWhole'
    BY <1>3 DEF RemoveDirectory
  <2>3. QED
    BY <2>1, <2>2 DEF Inv
<1>4. CASE PutDirectory(p)
  <2>1. RestoreProgress'
    BY <1>4, PutDirectoryProgress
  <2>2. /\ Exclusion' /\ Settled' /\ RollbackComplete'
        /\ BackupProgress' /\ InstallProgress' /\ JudgedWhole'
    BY <1>4 DEF PutDirectory
  <2>3. QED
    BY <2>1, <2>2 DEF Inv
<1>5. CASE OpenFile(p)
  <2>1. RestoreProgress'
    BY <1>5, OpenFileProgress
  <2>2. /\ Exclusion' /\ Settled' /\ RollbackComplete'
        /\ BackupProgress' /\ InstallProgress' /\ JudgedWhole'
    BY <1>5 DEF OpenFile
  <2>3. QED
    BY <2>1, <2>2 DEF Inv
<1>6. CASE WriteFile(p)
  <2>1. RestoreProgress'
    BY <1>6, WriteFileProgress
  <2>2. /\ Exclusion' /\ Settled' /\ RollbackComplete'
        /\ BackupProgress' /\ InstallProgress' /\ JudgedWhole'
    BY <1>6 DEF WriteFile
  <2>3. QED
    BY <2>1, <2>2 DEF Inv
<1>7. CASE UnlinkMarker(p)
  BY <1>7 DEF UnlinkMarker
<1>8. QED
  BY <1>1, <1>2, <1>3, <1>4, <1>5, <1>6, <1>7 DEF RestoreStep

\* The installer outside restore_backup, and its exceptions.
LEMMA InstallerInv ==
  ASSUME Careful, TypeInv, TypeInv', Inv,
         UNCHANGED good,
         \/ StartInstaller \/ RejectBundle \/ VerifyBundle
         \/ ClearSomeRollback \/ ClearRollback \/ BackUpFile
         \/ WriteMetadata \/ (WriteMarker /\ pc[Health] # "boot") \/ StopServices
         \/ MoveDirectoryOut \/ MoveDirectoryIn \/ OpenNewFile
         \/ WriteNewFile \/ MoveBundle \/ MarkPendingHealth
         \/ EnableUnits \/ StartServicesAndRaise \/ FailInstallation
         \/ AbortPreparation
         \/ (CopyVanished(Installer) /\ FailInstallerRestore)
  PROVE  Inv'
<1> USE TypeFacts, NextTypeFacts, ItemFacts, LoopFacts, ReleaseFacts
    DEF Careful, Inv, Exclusion, Settled, RollbackComplete, BackupProgress,
        InstallProgress, RestoreProgress, JudgedWhole, InPc, HcPc, UnderTrial,
        NoMarker, NoMeta, Empty, MaybeRelease, ProcessTypeOK, IndexOK, JudgeOK,
        CopyVanished, PreparePcs, TryPcs, ApplyPcs, AfterPcs, RestorePcs,
        ReturnPcs, CheckPcs
<1>1. CASE StartInstaller
  <2>1. Exclusion'
    BY <1>1 DEF Exclusion, StartInstaller, JudgedWhole, HealthPcs, InstallerPcs
  <2>2. /\ Settled' /\ RollbackComplete' /\ BackupProgress'
        /\ InstallProgress' /\ RestoreProgress' /\ JudgedWhole'
    BY <1>1 DEF StartInstaller
  <2>3. QED
    BY <2>1, <2>2 DEF Inv
<1>2. CASE RejectBundle
  BY <1>2 DEF RejectBundle
<1>3. CASE VerifyBundle
  BY <1>3 DEF VerifyBundle
<1>4. CASE ClearSomeRollback
  BY <1>4 DEF ClearSomeRollback, RemoveSomeRollback
<1>5. CASE ClearRollback
  BY <1>5 DEF ClearRollback, RemoveAllRollback
<1>6. CASE BackUpFile
  <2>1. BackupProgress'
    BY <1>6, BackUpFileProgress
  <2>2. /\ Exclusion' /\ Settled' /\ RollbackComplete'
        /\ InstallProgress' /\ RestoreProgress' /\ JudgedWhole'
    BY <1>6 DEF BackUpFile
  <2>3. QED
    BY <2>1, <2>2 DEF Inv
<1>7. CASE WriteMetadata
  BY <1>7 DEF WriteMetadata
<1>8. CASE WriteMarker /\ pc[Health] # "boot"
  BY <1>8 DEF WriteMarker
<1>9. CASE StopServices
  <2>1. InstallProgress'
    BY <1>9, StopServicesProgress
  <2>2. /\ Exclusion' /\ Settled' /\ RollbackComplete'
        /\ BackupProgress' /\ RestoreProgress' /\ JudgedWhole'
    BY <1>9 DEF StopServices
  <2>3. QED
    BY <2>1, <2>2 DEF Inv
<1>10. CASE MoveDirectoryOut
  <2>1. InstallProgress'
    BY <1>10, MoveDirectoryOutProgress
  <2>2. /\ Exclusion' /\ Settled' /\ RollbackComplete'
        /\ BackupProgress' /\ RestoreProgress' /\ JudgedWhole'
    BY <1>10 DEF MoveDirectoryOut
  <2>3. QED
    BY <2>1, <2>2 DEF Inv
<1>11. CASE MoveDirectoryIn
  <2>1. InstallProgress'
    BY <1>11, MoveDirectoryInProgress
  <2>2. /\ Exclusion' /\ Settled' /\ RollbackComplete'
        /\ BackupProgress' /\ RestoreProgress' /\ JudgedWhole'
    BY <1>11 DEF MoveDirectoryIn
  <2>3. QED
    BY <2>1, <2>2 DEF Inv
<1>12. CASE OpenNewFile
  BY <1>12 DEF OpenNewFile
<1>13. CASE WriteNewFile
  <2>1. InstallProgress'
    BY <1>13, WriteNewFileProgress
  <2>2. /\ Exclusion' /\ Settled' /\ RollbackComplete'
        /\ BackupProgress' /\ RestoreProgress' /\ JudgedWhole'
    BY <1>13 DEF WriteNewFile
  <2>3. QED
    BY <2>1, <2>2 DEF Inv
<1>14. CASE MoveBundle
  <2>1. Exclusion' /\ Settled' /\ RollbackComplete' /\ BackupProgress'
    BY <1>14 DEF MoveBundle
  <2>2. InstallProgress' /\ RestoreProgress' /\ JudgedWhole'
    BY <1>14 DEF MoveBundle
  <2>3. QED
    BY <2>1, <2>2 DEF Inv
<1>15. CASE MarkPendingHealth
  BY <1>15 DEF MarkPendingHealth
<1>16. CASE EnableUnits
  <2>1. Exclusion' /\ Settled' /\ RollbackComplete' /\ BackupProgress'
    BY <1>16 DEF EnableUnits
  <2>2. InstallProgress' /\ RestoreProgress' /\ JudgedWhole'
    BY <1>16 DEF EnableUnits
  <2>3. QED
    BY <2>1, <2>2 DEF Inv
<1>17. CASE StartServicesAndRaise
  BY <1>17 DEF StartServicesAndRaise
<1>18. CASE FailInstallation
  BY <1>18 DEF FailInstallation
<1>19. CASE AbortPreparation
  BY <1>19 DEF AbortPreparation
<1>20. CASE CopyVanished(Installer) /\ FailInstallerRestore
  BY <1>20 DEF FailInstallerRestore
<1>21. QED
  BY <1>1, <1>2, <1>3, <1>4, <1>5, <1>6, <1>7, <1>8, <1>9, <1>10, <1>11,
     <1>12, <1>13, <1>14, <1>15, <1>16, <1>17, <1>18, <1>19, <1>20

\* The health check outside restore_backup, and its end.
LEMMA HealthInv ==
  ASSUME Careful, TypeInv, TypeInv', Inv,
         UNCHANGED good,
         \/ NothingPending \/ StartHealthCheck \/ ProbeFails
         \/ Accept \/ DiscardSomeRollback \/ DiscardRollback
         \/ ReportFailure \/ StartServices
         \/ (StopHealthCheck /\ (~Tolerant \/ CopyVanished(Health)))
  PROVE  Inv'
<1> USE TypeFacts, NextTypeFacts, ItemFacts, LoopFacts, ReleaseFacts
    DEF Careful, Inv, Exclusion, Settled, RollbackComplete, BackupProgress,
        InstallProgress, RestoreProgress, JudgedWhole, InPc, HcPc, UnderTrial,
        NoMarker, NoMeta, Empty, MaybeRelease, ProcessTypeOK, IndexOK, JudgeOK,
        CopyVanished, PreparePcs, TryPcs, ApplyPcs, AfterPcs, RestorePcs,
        ReturnPcs, CheckPcs
<1>1. CASE NothingPending
  BY <1>1 DEF NothingPending
<1>2. CASE StartHealthCheck
  <2>1. Exclusion'
    BY <1>2
    DEF Exclusion, StartHealthCheck, JudgedWhole, HealthPcs, InstallerPcs
  <2>2. /\ Settled' /\ RollbackComplete' /\ BackupProgress'
        /\ InstallProgress' /\ RestoreProgress' /\ JudgedWhole'
    BY <1>2 DEF StartHealthCheck
  <2>3. QED
    BY <2>1, <2>2 DEF Inv
<1>3. CASE ProbeFails
  BY <1>3 DEF ProbeFails
<1>4. CASE Accept
  <2>1. Exclusion' /\ Settled' /\ RollbackComplete' /\ BackupProgress'
    BY <1>4 DEF Accept, CanBeHealthy, Tolerant
  <2>2. InstallProgress' /\ RestoreProgress' /\ JudgedWhole'
    BY <1>4 DEF Accept, CanBeHealthy, Tolerant
  <2>3. QED
    BY <2>1, <2>2 DEF Inv
<1>5. CASE DiscardSomeRollback
  BY <1>5 DEF DiscardSomeRollback, RemoveSomeRollback
<1>6. CASE DiscardRollback
  BY <1>6 DEF DiscardRollback, RemoveAllRollback
<1>7. CASE ReportFailure
  BY <1>7 DEF ReportFailure
<1>8. CASE StartServices
  BY <1>8 DEF StartServices
<1>9. CASE StopHealthCheck /\ (~Tolerant \/ CopyVanished(Health))
  BY <1>9 DEF StopHealthCheck
<1>10. QED
  BY <1>1, <1>2, <1>3, <1>4, <1>5, <1>6, <1>7, <1>8, <1>9

\* The step that accepts a release.
LEMMA UnmarkInv ==
  ASSUME Careful, TypeInv, TypeInv', Inv,
         Unmark, good' = ver[Health]
  PROVE  Inv'
<1> USE TypeFacts, NextTypeFacts, ItemFacts, LoopFacts, ReleaseFacts
    DEF Careful, Inv, Exclusion, Settled, RollbackComplete, BackupProgress,
        InstallProgress, RestoreProgress, JudgedWhole, InPc, HcPc, UnderTrial,
        NoMarker, NoMeta, Empty, MaybeRelease, ProcessTypeOK, IndexOK, JudgeOK,
        CopyVanished, PreparePcs, TryPcs, ApplyPcs, AfterPcs, RestorePcs,
        ReturnPcs, CheckPcs
<1>1. CASE Unmark
  BY <1>1 DEF Unmark
<1>2. QED
  BY <1>1

-----------------------------------------------------------------------------
(* The invariant.                                                          *)

\* A card fresh from the factory.
LEMMA InitInv == Init => Inv
<1> SUFFICES ASSUME Init PROVE Inv
  OBVIOUS
<1>1. /\ pc[Installer] = "idle" /\ pc[Health] = "boot"
      /\ root = Uniform(good) /\ ~UnderTrial
  BY DEF Init, ApplianceInit, FirstPc, UnderTrial, NoMarker
<1>2. QED
  BY <1>1
  DEF Inv, Exclusion, Settled, RollbackComplete, BackupProgress, InstallProgress,
      RestoreProgress, JudgedWhole, InPc, HcPc, PreparePcs, TryPcs, ApplyPcs,
      AfterPcs, RestorePcs, ReturnPcs, CheckPcs

\* A boot keeps the invariant unless it interrupts an installation, or a
\* rollback in an environment that tolerates mixtures.
LEMMA BootInv ==
  ASSUME Careful, TypeInv, TypeInv', Inv,
         Boot, ~HalfApplied, Tolerant => ~HalfRestored
  PROVE  Inv'
<1>1. /\ pc'[Installer] = "idle" /\ pc'[Health] = "boot"
      /\ UNCHANGED <<root, backup, meta, marker, pending, good>>
      /\ UnderTrial' <=> UnderTrial
  BY DEF Boot, FirstPc, UnderTrial
<1>2. UnderTrial => pending = None
  BY DEF HalfApplied
<1>3. Tolerant /\ UnderTrial => root = Uniform(marker.version)
  <2> SUFFICES ASSUME Tolerant, UnderTrial PROVE root = Uniform(marker.version)
    OBVIOUS
  <2>1. pc[Installer] \notin RestorePcs /\ pc[Health] \notin RestorePcs
    BY DEF HalfRestored
  <2>2. CASE pc[Installer] = "idle"
    <3>1. pc[Health] \in {"boot", "done", "check", "unmark"}
      BY <2>1, <2>2, TypeFacts
      DEF ProcessTypeOK, HealthPcs, CheckPcs, ReturnPcs, Inv, Exclusion
    <3>2. QED
      BY <2>2, <3>1 DEF Inv, JudgedWhole
  <2>3. CASE pc[Installer] # "idle"
    <3>1. pc[Installer] \in AfterPcs
      BY <1>2, <2>1, <2>3, TypeFacts
      DEF ProcessTypeOK, InstallerPcs, PreparePcs, TryPcs, ApplyPcs, AfterPcs,
          ReturnPcs, Inv, Exclusion
    <3>2. QED
      BY <3>1 DEF Inv, InstallProgress
  <2>4. QED
    BY <2>2, <2>3
<1>4. QED
  BY <1>1, <1>2, <1>3
  DEF Inv, Exclusion, Settled, RollbackComplete, BackupProgress, InstallProgress,
      RestoreProgress, JudgedWhole, InPc, HcPc, PreparePcs, TryPcs, ApplyPcs,
      AfterPcs, RestorePcs, ReturnPcs, CheckPcs

\* A bundle arrives when no trial is on.
LEMMA DeliverInv ==
  ASSUME Careful, TypeInv, Inv, NEW r \in Releases, DeliverBundle(r)
  PROVE  Inv'
<1>1. /\ ~UnderTrial /\ pc[Health] = "done"
      /\ UNCHANGED <<root, backup, meta, marker, pc, idx, previous, ver, good>>
      /\ pending = None /\ pending' # None
  BY ReleaseFacts DEF DeliverBundle, Careful
<1>2. QED
  BY <1>1
  DEF Inv, Exclusion, Settled, RollbackComplete, BackupProgress, InstallProgress,
      RestoreProgress, JudgedWhole, InPc, HcPc, UnderTrial, PreparePcs, TryPcs,
      ApplyPcs, AfterPcs, RestorePcs, ReturnPcs, CheckPcs

\* The invariant is inductive.
LEMMA StepInv ==
  ASSUME Careful, TypeInv, Inv, [Next]_vars
  PROVE  Inv'
<1>0. TypeInv'
  BY StepTypes
<1>1. CASE \E r \in Releases : DeliverBundle(r)
  BY <1>1, DeliverInv
<1>2. CASE \E p \in Procs : Restore(p)
  BY <1>0, <1>2, RestoreInv DEF Restore
<1>3. CASE Install
  <2>1. good' = good
    BY <1>3 DEF Install
  <2>2. CASE WriteMarker /\ ("boot" \in Overlaps \/ pc[Health] # "boot")
    BY <1>0, <2>1, <2>2, InstallerInv DEF Careful
  <2>3. CASE InstallerStep
    BY <1>0, <2>1, <2>3, InstallerInv DEF InstallerStep
  <2>4. QED
    BY <1>3, <2>2, <2>3 DEF Install
<1>4. CASE CheckHealth
  <2>1. CASE pc[Health] = "unmark"
    <3>1. Unmark /\ good' = ver[Health]
      BY <1>4, <2>1
      DEF CheckHealth, HealthStep, NothingPending, StartHealthCheck, ProbeFails,
          Accept, DiscardSomeRollback, DiscardRollback, ReportFailure,
          StartServices, CopyVanished, ReturnPcs
    <3>2. QED
      BY <1>0, <3>1, UnmarkInv
  <2>2. CASE pc[Health] # "unmark"
    BY <1>0, <1>4, <2>2, HealthInv DEF CheckHealth, HealthStep, Unmark
  <2>3. QED
    BY <2>1, <2>2
<1>5. CASE Reboot
  <2>1. ~HalfApplied /\ ~HalfRestored
    BY <1>5
    DEF Reboot, HalfApplied, HalfRestored, Inv, Exclusion, AfterPcs, RestorePcs
  <2>2. QED
    BY <1>0, <1>5, <2>1, BootInv DEF Reboot
<1>6. CASE PowerLoss
  <2>1. ~HalfApplied /\ (Tolerant => ~HalfRestored)
    BY <1>6 DEF PowerLoss, Window, Careful
  <2>2. QED
    BY <1>0, <1>6, <2>1, BootInv DEF PowerLoss
<1>7. CASE Raise
  <2>1. good' = good
    BY <1>7 DEF Raise
  <2>2. CASE AbortPreparation \/ FailInstallation
    BY <1>0, <2>1, <2>2, InstallerInv
  <2>3. CASE "health" \in RaiseIn /\ StopHealthCheck
    BY <1>0, <2>1, <2>3, HealthInv DEF Careful
  <2>4. QED
    BY <1>7, <2>2, <2>3 DEF Raise, Careful
<1>8. CASE UNCHANGED vars
  BY <1>8
  DEF vars, Inv, Exclusion, Settled, RollbackComplete, BackupProgress,
      InstallProgress, RestoreProgress, JudgedWhole, InPc, HcPc, UnderTrial
<1>9. QED
  BY <1>1, <1>2, <1>3, <1>4, <1>5, <1>6, <1>7, <1>8 DEF Next

-----------------------------------------------------------------------------
(* What the invariant implies.                                             *)

\* The accepted release can always be restored.
LEMMA RecoveredGood ==
  ASSUME TypeInv, Inv
  PROVE  CommittedImage
<1>1. CASE ~UnderTrial
  BY <1>1 DEF CommittedImage, Committed, Inv, Settled
<1>2. CASE UnderTrial
  <2>1. \A i \in Items : Recovered[i] = good
    <3> SUFFICES ASSUME NEW i \in Items PROVE Recovered[i] = good
      OBVIOUS
    <3>1. i \in Dirs \/ i \in Files
      BY ItemFacts
    <3>2. good # None
      BY TypeFacts, ReleaseFacts
    <3>3. CASE i \in Dirs
      BY <1>2, <3>2, <3>3 DEF Inv, RollbackComplete, Recovered
    <3>4. CASE i \in Files
      <4>1. i \notin Dirs
        BY <3>4, ItemFacts
      <4>2. QED
        BY <1>2, <3>2, <3>4, <4>1 DEF Inv, RollbackComplete, Recovered
    <3>5. QED
      BY <3>1, <3>3, <3>4
  <2>2. Recovered = Uniform(good)
    BY <2>1 DEF Recovered, Uniform
  <2>3. QED
    BY <1>2, <2>2 DEF CommittedImage, Committed
<1>3. QED
  BY <1>1, <1>2

\* The other safety properties.
LEMMA InvImplies ==
  ASSUME TypeInv, Inv
  PROVE  PreviousKept /\ RollbackExact /\ AcceptedComplete /\ NeverTogether
<1>1. PreviousKept
  <2>1. CASE UnderTrial
    <3>1. \A i \in Items : i \in Dirs \/ i \in Files
      BY ItemFacts
    <3>2. QED
      BY <2>1, <3>1 DEF PreviousKept, Inv, RollbackComplete
  <2>2. CASE ~UnderTrial
    BY <2>2, TypeFacts DEF PreviousKept, Inv, Settled
  <2>3. QED
    BY <2>1, <2>2
<1>2. RollbackExact
  BY DEF RollbackExact, Inv, Exclusion, Settled
<1>3. AcceptedComplete
  BY DEF AcceptedComplete, Inv, JudgedWhole, HcPc
<1>4. NeverTogether
  BY DEF NeverTogether, Inv, Exclusion, CheckPcs, RestorePcs, ReturnPcs, TryPcs,
         ApplyPcs, AfterPcs
<1>5. QED
  BY <1>1, <1>2, <1>3, <1>4

\* In a careful environment the inductive invariant always holds.
THEOREM InvariantHolds ==
  ASSUME Careful
  PROVE  Spec => [](TypeInv /\ Inv)
<1>1. Init => TypeInv /\ Inv
  BY InitTypes, InitInv
<1>2. TypeInv /\ Inv /\ [Next]_vars => TypeInv' /\ Inv'
  BY StepTypes, StepInv
<1>3. QED
  BY <1>1, <1>2, PTL DEF Spec

\* At every step of apply_pending and restore_backup the appliance is bound
\* to one whole release, the one accepted last.
THEOREM ImageCommitted ==
  ASSUME Careful
  PROVE  Spec => []CommittedImage
<1>1. TypeInv /\ Inv => CommittedImage
  BY RecoveredGood
<1>2. QED
  BY <1>1, InvariantHolds, PTL

\* Every item of the release accepted last is on the root filesystem or in
\* the rollback.
THEOREM PreviousIsKept ==
  ASSUME Careful
  PROVE  Spec => []PreviousKept
<1>1. TypeInv /\ Inv => PreviousKept
  BY InvImplies
<1>2. QED
  BY <1>1, InvariantHolds, PTL

\* A rollback the health check reports has put the exact previous release
\* back.
THEOREM RollbackIsExact ==
  ASSUME Careful
  PROVE  Spec => []RollbackExact
<1>1. TypeInv /\ Inv => RollbackExact
  BY InvImplies
<1>2. QED
  BY <1>1, InvariantHolds, PTL

\* A release the health check accepts is there as a whole.
THEOREM AcceptedIsComplete ==
  ASSUME Careful
  PROVE  Spec => []AcceptedComplete
<1>1. TypeInv /\ Inv => AcceptedComplete
  BY InvImplies
<1>2. QED
  BY <1>1, InvariantHolds, PTL

\* The health check and the installer are never both past the marker.
THEOREM MutualExclusion ==
  ASSUME Careful
  PROVE  Spec => []NeverTogether
<1>1. TypeInv /\ Inv => NeverTogether
  BY InvImplies
<1>2. QED
  BY <1>1, InvariantHolds, PTL

-----------------------------------------------------------------------------
(* The refinement of AtomicUpdate.                                         *)

\* What a step does to the marker and to the release accepted last.
LEMMA TrialSteps ==
  ASSUME Careful, TypeInv, Inv, [Next]_vars
  PROVE  \/ marker'.version = marker.version /\ good' = good
         \/ /\ marker.version = None
            /\ marker'.version \in Releases
            /\ good' = good
         \/ /\ marker.version # None
            /\ marker'.version = None
            /\ good' \in {good, marker.version}
<1>1. CASE UNCHANGED <<marker, good>>
  BY <1>1
<1>2. CASE WriteMarker /\ good' = good
  BY <1>2, TypeFacts
  DEF WriteMarker, Inv, Exclusion, BackupProgress, PreparePcs, UnderTrial
<1>3. CASE MarkPendingHealth /\ good' = good
  BY <1>3 DEF MarkPendingHealth, Inv, InstallProgress, AfterPcs
<1>4. CASE Unmark /\ good' = ver[Health]
  BY <1>4 DEF Unmark, NoMarker, Inv, Exclusion, JudgedWhole, UnderTrial
<1>5. ASSUME NEW p \in Procs, UnlinkMarker(p), good' = good
      PROVE  marker.version # None /\ marker'.version = None
  BY <1>5 DEF UnlinkMarker, NoMarker, Inv, Exclusion, RestorePcs, UnderTrial
<1>6. CASE \E r \in Releases : DeliverBundle(r)
  BY <1>1, <1>6 DEF DeliverBundle
<1>7. CASE \E p \in Procs : Restore(p)
  BY <1>1, <1>5, <1>7
  DEF Restore, RestoreStep, LoadMetadata, ChooseDirectory, RemoveDirectory,
      PutDirectory, OpenFile, WriteFile
<1>8. CASE Install
  BY <1>1, <1>2, <1>3, <1>8
  DEF Install, InstallerStep, StartInstaller, RejectBundle, VerifyBundle,
      ClearSomeRollback, ClearRollback, RemoveSomeRollback, RemoveAllRollback,
      BackUpFile, WriteMetadata, StopServices, MoveDirectoryOut,
      MoveDirectoryIn, OpenNewFile, WriteNewFile, MoveBundle, EnableUnits,
      StartServicesAndRaise, FailInstallation, FailInstallerRestore
<1>9. CASE CheckHealth
  <2>1. CASE Unmark
    BY <1>4, <1>9, <2>1 DEF CheckHealth, Unmark
  <2>2. CASE ~Unmark
    BY <1>1, <1>9, <2>2
    DEF CheckHealth, HealthStep, NothingPending, StartHealthCheck, ProbeFails,
        Accept, DiscardSomeRollback, DiscardRollback, RemoveSomeRollback,
        RemoveAllRollback, ReportFailure, ReturnPcs, StartServices,
        StopHealthCheck, CopyVanished
  <2>3. QED
    BY <2>1, <2>2
<1>10. CASE Reboot \/ PowerLoss
  BY <1>1, <1>10 DEF Reboot, PowerLoss, Boot
<1>11. CASE Raise
  BY <1>1, <1>11
  DEF Raise, AbortPreparation, FailInstallation, FailInstallerRestore,
      StopHealthCheck
<1>12. CASE UNCHANGED vars
  BY <1>1, <1>12 DEF vars
<1>13. QED
  BY <1>6, <1>7, <1>8, <1>9, <1>10, <1>11, <1>12 DEF Next

\* The files implement AtomicUpdate: a trial starts, is accepted whole, or is
\* rolled back, and nothing else changes the committed image.
THEOREM Refinement ==
  ASSUME Careful
  PROVE  Spec => Implements
<1>1. Init => Atomic!Init
  BY InitTypes, InitInv
  DEF Init, ApplianceInit, Atomic!Init, Atomic!Whole, Committed, UnderTrial,
      NoMarker, Uniform
<1>2. TypeInv /\ Inv /\ [Next]_vars => TypeInv' /\ Inv'
  BY StepTypes, StepInv
<1>3. TypeInv /\ Inv => CommittedImage
  BY RecoveredGood
<1>4. ASSUME TypeInv, Inv, [Next]_vars, CommittedImage, CommittedImage'
      PROVE  [Atomic!Next]_<<Committed, marker.version>>
  <2>1. Committed = Atomic!Whole(good) /\ Committed' = Atomic!Whole(good')
    BY <1>4 DEF CommittedImage, Uniform, Atomic!Whole
  <2>2. QED
    BY <1>4, <2>1, TrialSteps
    DEF Atomic!Next, Atomic!Start, Atomic!Accept, Atomic!RollBack
<1>5. QED
  BY <1>1, <1>2, <1>3, <1>4, InitTypes, InitInv, PTL
  DEF Spec, Atomic!Spec, Implements
=============================================================================
