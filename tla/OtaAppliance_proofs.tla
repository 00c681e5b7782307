-------------------------- MODULE OtaAppliance_proofs --------------------------
(***************************************************************************)
(* Theorems about OtaAppliance for any set of releases and any number of   *)
(* managed directories and files.                                          *)
(***************************************************************************)
EXTENDS OtaInvariant, TLAPS

-----------------------------------------------------------------------------
(* Facts about the constants.                                              *)

\* Directories come first, then files; both lists have a first and a last.
LEMMA ItemFacts ==
  /\ Dirs \subseteq Items /\ Files \subseteq Items /\ Items \subseteq Nat
  /\ \A i \in Items : i \in Dirs <=> i <= NumDirs
  /\ \A i \in Items : i \in Files <=> NumDirs < i
  /\ NumDirs \in Dirs /\ NumItems \in Files /\ NumDirs + 1 \in Files
  /\ 1 \in Dirs /\ 1 \in Items
  /\ VersionFile \in Files
  /\ NumItems \in Nat /\ NumDirs \in Nat
  BY ApplianceAssumption DEF Dirs, Files, Items, NumItems

\* The loops over the items: directories first, then files, then past the end.
LEMMA LoopFacts ==
  /\ \A d \in Dirs : d # NumDirs => d + 1 \in Dirs
  /\ \A d \in Dirs : d = NumDirs => d + 1 \in Files
  /\ \A f \in Files : f # NumItems => f + 1 \in Files
  /\ \A i \in Items : i \in Indices /\ i + 1 \in Indices
  /\ 1 \in Indices /\ NumDirs + 1 \in Indices
  BY ApplianceAssumption DEF Dirs, Files, Items, NumItems, Indices

\* Releases are neither None nor Torn, and the factory's one installs.
LEMMA ReleaseFacts ==
  /\ None \notin Releases /\ Torn \notin Releases /\ None # Torn
  /\ Factory \in Releases /\ Factory \in Installable
  /\ Installable \subseteq Releases
  BY ApplianceAssumption

-----------------------------------------------------------------------------
(* Type correctness.                                                       *)

\* Names that every step below would expand.
USE DEF Procs, Installer, Health, appliance, disk, locals, Goto, Exit, Advance,
        At, Item, Version, FromFirst, Judged, AfterDirectory, AfterFile

\* A card fresh from the factory.
LEMMA InitTypes == Init => TypeInv
<1> USE ItemFacts, ReleaseFacts, HealthAssumption, EnvironmentAssumption
<1> SUFFICES ASSUME Init PROVE TypeInv
  OBVIOUS
<1>1. TypeOK
  <2>1. ApplianceTypeOK
    BY DEF Init, ApplianceInit, ApplianceTypeOK, Uniform, Empty, NoMeta,
           NoMarker, NoReport, Content, MaybeRelease
  <2>2. QED
    BY <2>1 DEF Init, TypeOK, ProcessTypeOK, FirstPc, InstallerPcs,
           HealthPcs, MaybeRelease, Items, Indices
<1>2. IndexOK /\ JudgeOK
  BY DEF Init, IndexOK, JudgeOK, FirstPc
<1>3. QED
  BY <1>1, <1>2 DEF TypeInv


\* The steps of the loops over the managed items.
LEMMA ChooseDirectoryTypes ==
  ASSUME TypeInv, NEW p \in Procs, ChooseDirectory(p),
         UNCHANGED <<attempt, good>>, faults' \in 0 .. MaxFaults
  PROVE  TypeInv'
<1>0. /\ ApplianceTypeOK /\ ProcessTypeOK /\ IndexOK /\ JudgeOK
      /\ attempt \in 0 .. Attempts /\ good \in Releases
      /\ faults \in 0 .. MaxFaults
  BY DEF TypeInv, TypeOK
<1>1. ApplianceTypeOK'
  BY <1>0, ItemFacts, ReleaseFacts
  DEF ApplianceTypeOK, ProcessTypeOK, IndexOK, Content, MaybeRelease, NoMarker,
      ChooseDirectory
<1>2. ProcessTypeOK'
  <2>1. idx' \in [Procs -> Indices]
    BY <1>0, ItemFacts, LoopFacts DEF ProcessTypeOK, IndexOK, ChooseDirectory
  <2>2. /\ pc' \in [Procs -> InstallerPcs \union HealthPcs]
        /\ pc'[Installer] \in InstallerPcs
        /\ pc'[Health] \in HealthPcs
    BY <1>0
    DEF ProcessTypeOK, InstallerPcs, HealthPcs, PreparePcs, TryPcs, RestorePcs,
        ReturnPcs, CheckPcs, ChooseDirectory
  <2>3. /\ previous' \in [Procs -> SUBSET Files]
        /\ ver' \in [Procs -> MaybeRelease]
    BY <1>0, ItemFacts DEF ProcessTypeOK, IndexOK, ChooseDirectory
  <2>4. QED
    BY <2>1, <2>2, <2>3 DEF ProcessTypeOK
<1>3. IndexOK'
  BY <1>0, ItemFacts, LoopFacts DEF ProcessTypeOK, IndexOK, ChooseDirectory
<1>4. JudgeOK'
  BY <1>0, HealthAssumption DEF ProcessTypeOK, JudgeOK, ChooseDirectory
<1>5. QED
  BY <1>0, <1>1, <1>2, <1>3, <1>4 DEF TypeInv, TypeOK

LEMMA RemoveDirectoryTypes ==
  ASSUME TypeInv, NEW p \in Procs, RemoveDirectory(p),
         UNCHANGED <<attempt, good>>, faults' \in 0 .. MaxFaults
  PROVE  TypeInv'
<1>0. /\ ApplianceTypeOK /\ ProcessTypeOK /\ IndexOK /\ JudgeOK
      /\ attempt \in 0 .. Attempts /\ good \in Releases
      /\ faults \in 0 .. MaxFaults
  BY DEF TypeInv, TypeOK
<1>1. ApplianceTypeOK'
  <2>1. root' \in [Items -> Content]
    BY <1>0, Zenon DEF ApplianceTypeOK, Content, RemoveDirectory
  <2>2. QED
    BY <1>0, <2>1 DEF ApplianceTypeOK, RemoveDirectory
<1>2. ProcessTypeOK'
  BY <1>0, ItemFacts, LoopFacts
  DEF ApplianceTypeOK, ProcessTypeOK, IndexOK, MaybeRelease, InstallerPcs,
      HealthPcs, PreparePcs, TryPcs, RestorePcs, ReturnPcs, CheckPcs,
      RemoveDirectory
<1>3. IndexOK'
  BY <1>0, ItemFacts, LoopFacts DEF ProcessTypeOK, IndexOK, RemoveDirectory
<1>4. JudgeOK'
  BY <1>0, HealthAssumption DEF ProcessTypeOK, JudgeOK, RemoveDirectory
<1>5. QED
  BY <1>0, <1>1, <1>2, <1>3, <1>4 DEF TypeInv, TypeOK

LEMMA PutDirectoryTypes ==
  ASSUME TypeInv, NEW p \in Procs, PutDirectory(p),
         UNCHANGED <<attempt, good>>, faults' \in 0 .. MaxFaults
  PROVE  TypeInv'
<1>0. /\ ApplianceTypeOK /\ ProcessTypeOK /\ IndexOK /\ JudgeOK
      /\ attempt \in 0 .. Attempts /\ good \in Releases
      /\ faults \in 0 .. MaxFaults
  BY DEF TypeInv, TypeOK
<1>1. ApplianceTypeOK'
  BY <1>0, ItemFacts, ReleaseFacts
  DEF ApplianceTypeOK, ProcessTypeOK, IndexOK, Content, MaybeRelease, NoMarker,
      PutDirectory
<1>2. ProcessTypeOK'
  BY <1>0, ItemFacts, LoopFacts
  DEF ApplianceTypeOK, ProcessTypeOK, IndexOK, MaybeRelease, InstallerPcs,
      HealthPcs, PreparePcs, TryPcs, RestorePcs, ReturnPcs, CheckPcs,
      PutDirectory
<1>3. IndexOK'
  BY <1>0, ItemFacts, LoopFacts DEF ProcessTypeOK, IndexOK, PutDirectory
<1>4. JudgeOK'
  BY <1>0, HealthAssumption DEF ProcessTypeOK, JudgeOK, PutDirectory
<1>5. QED
  BY <1>0, <1>1, <1>2, <1>3, <1>4 DEF TypeInv, TypeOK

LEMMA OpenFileTypes ==
  ASSUME TypeInv, NEW p \in Procs, OpenFile(p),
         UNCHANGED <<attempt, good>>, faults' \in 0 .. MaxFaults
  PROVE  TypeInv'
<1>0. /\ ApplianceTypeOK /\ ProcessTypeOK /\ IndexOK /\ JudgeOK
      /\ attempt \in 0 .. Attempts /\ good \in Releases
      /\ faults \in 0 .. MaxFaults
  BY DEF TypeInv, TypeOK
<1>1. ApplianceTypeOK'
  BY <1>0, ItemFacts, ReleaseFacts
  DEF ApplianceTypeOK, ProcessTypeOK, IndexOK, Content, MaybeRelease, NoMarker,
      OpenFile
<1>2. ProcessTypeOK'
  <2>1. idx' \in [Procs -> Indices]
    BY <1>0, ItemFacts, LoopFacts DEF ProcessTypeOK, IndexOK, OpenFile
  <2>2. /\ pc' \in [Procs -> InstallerPcs \union HealthPcs]
        /\ pc'[Installer] \in InstallerPcs
        /\ pc'[Health] \in HealthPcs
    BY <1>0
    DEF ProcessTypeOK, InstallerPcs, HealthPcs, PreparePcs, TryPcs, RestorePcs,
        ReturnPcs, CheckPcs, OpenFile
  <2>3. /\ previous' \in [Procs -> SUBSET Files]
        /\ ver' \in [Procs -> MaybeRelease]
    BY <1>0, ItemFacts DEF ProcessTypeOK, IndexOK, OpenFile
  <2>4. QED
    BY <2>1, <2>2, <2>3 DEF ProcessTypeOK
<1>3. IndexOK'
  BY <1>0, ItemFacts, LoopFacts DEF ProcessTypeOK, IndexOK, OpenFile
<1>4. JudgeOK'
  BY <1>0, HealthAssumption DEF ProcessTypeOK, JudgeOK, OpenFile
<1>5. QED
  BY <1>0, <1>1, <1>2, <1>3, <1>4 DEF TypeInv, TypeOK

LEMMA WriteFileTypes ==
  ASSUME TypeInv, NEW p \in Procs, WriteFile(p),
         UNCHANGED <<attempt, good>>, faults' \in 0 .. MaxFaults
  PROVE  TypeInv'
<1>0. /\ ApplianceTypeOK /\ ProcessTypeOK /\ IndexOK /\ JudgeOK
      /\ attempt \in 0 .. Attempts /\ good \in Releases
      /\ faults \in 0 .. MaxFaults
  BY DEF TypeInv, TypeOK
<1>1. ApplianceTypeOK'
  BY <1>0, ItemFacts, ReleaseFacts
  DEF ApplianceTypeOK, ProcessTypeOK, IndexOK, Content, MaybeRelease, NoMarker,
      WriteFile
<1>2. ProcessTypeOK'
  BY <1>0, ItemFacts, LoopFacts
  DEF ApplianceTypeOK, ProcessTypeOK, IndexOK, MaybeRelease, InstallerPcs,
      HealthPcs, PreparePcs, TryPcs, RestorePcs, ReturnPcs, CheckPcs,
      WriteFile
<1>3. IndexOK'
  BY <1>0, ItemFacts, LoopFacts DEF ProcessTypeOK, IndexOK, WriteFile
<1>4. JudgeOK'
  BY <1>0, HealthAssumption DEF ProcessTypeOK, JudgeOK, WriteFile
<1>5. QED
  BY <1>0, <1>1, <1>2, <1>3, <1>4 DEF TypeInv, TypeOK

LEMMA StopServicesTypes ==
  ASSUME TypeInv, StopServices,
         UNCHANGED <<attempt, good>>, faults' \in 0 .. MaxFaults
  PROVE  TypeInv'
<1>0. /\ ApplianceTypeOK /\ ProcessTypeOK /\ IndexOK /\ JudgeOK
      /\ attempt \in 0 .. Attempts /\ good \in Releases
      /\ faults \in 0 .. MaxFaults
  BY DEF TypeInv, TypeOK
<1>1. ApplianceTypeOK'
  BY <1>0, ItemFacts, ReleaseFacts
  DEF ApplianceTypeOK, ProcessTypeOK, IndexOK, Content, MaybeRelease, NoMarker,
      StopServices
<1>2. ProcessTypeOK'
  BY <1>0, ItemFacts, LoopFacts
  DEF ApplianceTypeOK, ProcessTypeOK, IndexOK, MaybeRelease, InstallerPcs,
      HealthPcs, PreparePcs, TryPcs, RestorePcs, ReturnPcs, CheckPcs,
      StopServices
<1>3. IndexOK'
  BY <1>0, ItemFacts, LoopFacts DEF ProcessTypeOK, IndexOK, StopServices
<1>4. JudgeOK'
  BY <1>0, HealthAssumption DEF ProcessTypeOK, JudgeOK, StopServices
<1>5. QED
  BY <1>0, <1>1, <1>2, <1>3, <1>4 DEF TypeInv, TypeOK

LEMMA BackUpFileTypes ==
  ASSUME TypeInv, BackUpFile,
         UNCHANGED <<attempt, good>>, faults' \in 0 .. MaxFaults
  PROVE  TypeInv'
<1>0. /\ ApplianceTypeOK /\ ProcessTypeOK /\ IndexOK /\ JudgeOK
      /\ attempt \in 0 .. Attempts /\ good \in Releases
      /\ faults \in 0 .. MaxFaults
  BY DEF TypeInv, TypeOK
<1>1. ApplianceTypeOK'
  BY <1>0, ItemFacts, ReleaseFacts
  DEF ApplianceTypeOK, ProcessTypeOK, IndexOK, Content, MaybeRelease, NoMarker,
      BackUpFile
<1>2. ProcessTypeOK'
  <2>1. idx' \in [Procs -> Indices]
    BY <1>0, ItemFacts, LoopFacts DEF ProcessTypeOK, IndexOK, BackUpFile
  <2>2. /\ pc' \in [Procs -> InstallerPcs \union HealthPcs]
        /\ pc'[Installer] \in InstallerPcs
        /\ pc'[Health] \in HealthPcs
    BY <1>0
    DEF ProcessTypeOK, InstallerPcs, HealthPcs, PreparePcs, TryPcs, RestorePcs,
        ReturnPcs, CheckPcs, BackUpFile
  <2>3. /\ previous' \in [Procs -> SUBSET Files]
        /\ ver' \in [Procs -> MaybeRelease]
    BY <1>0, ItemFacts DEF ProcessTypeOK, IndexOK, BackUpFile
  <2>4. QED
    BY <2>1, <2>2, <2>3 DEF ProcessTypeOK
<1>3. IndexOK'
  BY <1>0, ItemFacts, LoopFacts DEF ProcessTypeOK, IndexOK, BackUpFile
<1>4. JudgeOK'
  BY <1>0, HealthAssumption DEF ProcessTypeOK, JudgeOK, BackUpFile
<1>5. QED
  BY <1>0, <1>1, <1>2, <1>3, <1>4 DEF TypeInv, TypeOK

LEMMA MoveDirectoryInTypes ==
  ASSUME TypeInv, MoveDirectoryIn,
         UNCHANGED <<attempt, good>>, faults' \in 0 .. MaxFaults
  PROVE  TypeInv'
<1>0. /\ ApplianceTypeOK /\ ProcessTypeOK /\ IndexOK /\ JudgeOK
      /\ attempt \in 0 .. Attempts /\ good \in Releases
      /\ faults \in 0 .. MaxFaults
  BY DEF TypeInv, TypeOK
<1>1. ApplianceTypeOK'
  BY <1>0, ItemFacts, ReleaseFacts
  DEF ApplianceTypeOK, ProcessTypeOK, IndexOK, Content, MaybeRelease, NoMarker,
      MoveDirectoryIn
<1>2. ProcessTypeOK'
  BY <1>0, ItemFacts, LoopFacts
  DEF ApplianceTypeOK, ProcessTypeOK, IndexOK, MaybeRelease, InstallerPcs,
      HealthPcs, PreparePcs, TryPcs, RestorePcs, ReturnPcs, CheckPcs,
      MoveDirectoryIn
<1>3. IndexOK'
  BY <1>0, ItemFacts, LoopFacts DEF ProcessTypeOK, IndexOK, MoveDirectoryIn
<1>4. JudgeOK'
  BY <1>0, HealthAssumption DEF ProcessTypeOK, JudgeOK, MoveDirectoryIn
<1>5. QED
  BY <1>0, <1>1, <1>2, <1>3, <1>4 DEF TypeInv, TypeOK

LEMMA OpenNewFileTypes ==
  ASSUME TypeInv, OpenNewFile,
         UNCHANGED <<attempt, good>>, faults' \in 0 .. MaxFaults
  PROVE  TypeInv'
<1>0. /\ ApplianceTypeOK /\ ProcessTypeOK /\ IndexOK /\ JudgeOK
      /\ attempt \in 0 .. Attempts /\ good \in Releases
      /\ faults \in 0 .. MaxFaults
  BY DEF TypeInv, TypeOK
<1>1. ApplianceTypeOK'
  BY <1>0, ItemFacts, ReleaseFacts
  DEF ApplianceTypeOK, ProcessTypeOK, IndexOK, Content, MaybeRelease, NoMarker,
      OpenNewFile
<1>2. ProcessTypeOK'
  BY <1>0, ItemFacts, LoopFacts
  DEF ApplianceTypeOK, ProcessTypeOK, IndexOK, MaybeRelease, InstallerPcs,
      HealthPcs, PreparePcs, TryPcs, RestorePcs, ReturnPcs, CheckPcs,
      OpenNewFile
<1>3. IndexOK'
  BY <1>0, ItemFacts, LoopFacts DEF ProcessTypeOK, IndexOK, OpenNewFile
<1>4. JudgeOK'
  BY <1>0, HealthAssumption DEF ProcessTypeOK, JudgeOK, OpenNewFile
<1>5. QED
  BY <1>0, <1>1, <1>2, <1>3, <1>4 DEF TypeInv, TypeOK

LEMMA WriteNewFileTypes ==
  ASSUME TypeInv, WriteNewFile,
         UNCHANGED <<attempt, good>>, faults' \in 0 .. MaxFaults
  PROVE  TypeInv'
<1>0. /\ ApplianceTypeOK /\ ProcessTypeOK /\ IndexOK /\ JudgeOK
      /\ attempt \in 0 .. Attempts /\ good \in Releases
      /\ faults \in 0 .. MaxFaults
  BY DEF TypeInv, TypeOK
<1>1. ApplianceTypeOK'
  BY <1>0, ItemFacts, ReleaseFacts
  DEF ApplianceTypeOK, ProcessTypeOK, IndexOK, Content, MaybeRelease, NoMarker,
      WriteNewFile
<1>2. ProcessTypeOK'
  BY <1>0, ItemFacts, LoopFacts
  DEF ApplianceTypeOK, ProcessTypeOK, IndexOK, MaybeRelease, InstallerPcs,
      HealthPcs, PreparePcs, TryPcs, RestorePcs, ReturnPcs, CheckPcs,
      WriteNewFile
<1>3. IndexOK'
  BY <1>0, ItemFacts, LoopFacts DEF ProcessTypeOK, IndexOK, WriteNewFile
<1>4. JudgeOK'
  BY <1>0, HealthAssumption DEF ProcessTypeOK, JudgeOK, WriteNewFile
<1>5. QED
  BY <1>0, <1>1, <1>2, <1>3, <1>4 DEF TypeInv, TypeOK

\* The steps of restore_backup, in either process.
LEMMA RestoreTypes ==
  ASSUME TypeInv,
         NEW p \in Procs, RestoreStep(p), UNCHANGED <<attempt, good, faults>>
  PROVE  TypeInv'
<1>0. /\ ApplianceTypeOK /\ ProcessTypeOK /\ IndexOK /\ JudgeOK
      /\ attempt \in 0 .. Attempts /\ good \in Releases
      /\ faults \in 0 .. MaxFaults
  BY DEF TypeInv, TypeOK
<1> USE <1>0, ItemFacts, LoopFacts, ReleaseFacts, HealthAssumption
    DEF TypeInv, TypeOK, ApplianceTypeOK, ProcessTypeOK, IndexOK, JudgeOK,
        Content, MaybeRelease, NoMeta, NoMarker, Empty, UnderTrial,
        InstallerPcs, HealthPcs, PreparePcs, TryPcs, RestorePcs, ReturnPcs,
        CheckPcs
<1>1. CASE LoadMetadata(p)
  BY <1>1 DEF LoadMetadata
<1>2. CASE ChooseDirectory(p)
  BY <1>2, ChooseDirectoryTypes
<1>3. CASE RemoveDirectory(p)
  BY <1>3, RemoveDirectoryTypes
<1>4. CASE PutDirectory(p)
  BY <1>4, PutDirectoryTypes
<1>5. CASE OpenFile(p)
  BY <1>5, OpenFileTypes
<1>6. CASE WriteFile(p)
  BY <1>6, WriteFileTypes
<1>7. CASE UnlinkMarker(p)
  BY <1>7 DEF UnlinkMarker
<1>8. QED
  BY <1>1, <1>2, <1>3, <1>4, <1>5, <1>6, <1>7 DEF RestoreStep

\* The steps of the installer outside restore_backup, and its exceptions.
LEMMA InstallerTypes ==
  ASSUME TypeInv,
         UNCHANGED <<attempt, good>>, faults' \in 0 .. MaxFaults,
         \/ StartInstaller \/ RejectBundle \/ VerifyBundle
         \/ ClearSomeRollback \/ ClearRollback \/ BackUpFile
         \/ WriteMetadata \/ WriteMarker \/ StopServices
         \/ MoveDirectoryOut \/ MoveDirectoryIn \/ OpenNewFile
         \/ WriteNewFile \/ MoveBundle \/ MarkPendingHealth
         \/ EnableUnits \/ StartServicesAndRaise \/ FailInstallation
         \/ FailInstallerRestore \/ AbortPreparation
  PROVE  TypeInv'
<1>0. /\ ApplianceTypeOK /\ ProcessTypeOK /\ IndexOK /\ JudgeOK
      /\ attempt \in 0 .. Attempts /\ good \in Releases
      /\ faults \in 0 .. MaxFaults
  BY DEF TypeInv, TypeOK
<1> USE <1>0, ItemFacts, LoopFacts, ReleaseFacts, HealthAssumption
    DEF TypeInv, TypeOK, ApplianceTypeOK, ProcessTypeOK, IndexOK, JudgeOK,
        Content, MaybeRelease, NoMeta, NoMarker, Empty, UnderTrial,
        InstallerPcs, HealthPcs, PreparePcs, TryPcs, RestorePcs, ReturnPcs,
        CheckPcs
<1>1. CASE StartInstaller
  BY <1>1 DEF StartInstaller
<1>2. CASE RejectBundle
  BY <1>2 DEF RejectBundle
<1>3. CASE VerifyBundle
  BY <1>3 DEF VerifyBundle
<1>4. CASE ClearSomeRollback
  BY <1>4 DEF ClearSomeRollback, RemoveSomeRollback
<1>5. CASE ClearRollback
  BY <1>5 DEF ClearRollback, RemoveAllRollback
<1>6. CASE BackUpFile
  BY <1>6, BackUpFileTypes
<1>7. CASE WriteMetadata
  BY <1>7 DEF WriteMetadata
<1>8. CASE WriteMarker
  BY <1>8 DEF WriteMarker
<1>9. CASE StopServices
  BY <1>9, StopServicesTypes
<1>10. CASE MoveDirectoryOut
  BY <1>10 DEF MoveDirectoryOut
<1>11. CASE MoveDirectoryIn
  BY <1>11, MoveDirectoryInTypes
<1>12. CASE OpenNewFile
  BY <1>12, OpenNewFileTypes
<1>13. CASE WriteNewFile
  BY <1>13, WriteNewFileTypes
<1>14. CASE MoveBundle
  BY <1>14 DEF MoveBundle
<1>15. CASE MarkPendingHealth
  BY <1>15 DEF MarkPendingHealth
<1>16. CASE EnableUnits
  BY <1>16 DEF EnableUnits
<1>17. CASE StartServicesAndRaise
  BY <1>17 DEF StartServicesAndRaise
<1>18. CASE FailInstallation
  BY <1>18 DEF FailInstallation
<1>19. CASE FailInstallerRestore
  BY <1>19 DEF FailInstallerRestore
<1>20. CASE AbortPreparation
  BY <1>20 DEF AbortPreparation
<1>21. QED
  BY <1>1, <1>2, <1>3, <1>4, <1>5, <1>6, <1>7, <1>8, <1>9, <1>10, <1>11,
     <1>12, <1>13, <1>14, <1>15, <1>16, <1>17, <1>18, <1>19, <1>20

\* The steps of the health check outside restore_backup, and its end.
LEMMA HealthTypes ==
  ASSUME TypeInv,
         good' \in Releases, faults' \in 0 .. MaxFaults,
         \/ NothingPending \/ StartHealthCheck \/ ProbeFails
         \/ Accept \/ Unmark \/ DiscardSomeRollback
         \/ DiscardRollback \/ ReportFailure \/ StartServices
         \/ StopHealthCheck
  PROVE  TypeInv'
<1>0. /\ ApplianceTypeOK /\ ProcessTypeOK /\ IndexOK /\ JudgeOK
      /\ attempt \in 0 .. Attempts /\ good \in Releases
      /\ faults \in 0 .. MaxFaults
  BY DEF TypeInv, TypeOK
<1> USE <1>0, ItemFacts, LoopFacts, ReleaseFacts, HealthAssumption
    DEF TypeInv, TypeOK, ApplianceTypeOK, ProcessTypeOK, IndexOK, JudgeOK,
        Content, MaybeRelease, NoMeta, NoMarker, Empty, UnderTrial,
        InstallerPcs, HealthPcs, PreparePcs, TryPcs, RestorePcs, ReturnPcs,
        CheckPcs
<1>1. CASE NothingPending
  BY <1>1 DEF NothingPending
<1>2. CASE StartHealthCheck
  BY <1>2 DEF StartHealthCheck
<1>3. CASE ProbeFails
  BY <1>3 DEF ProbeFails
<1>4. CASE Accept
  BY <1>4 DEF Accept
<1>5. CASE Unmark
  BY <1>5 DEF Unmark
<1>6. CASE DiscardSomeRollback
  BY <1>6 DEF DiscardSomeRollback, RemoveSomeRollback
<1>7. CASE DiscardRollback
  BY <1>7 DEF DiscardRollback, RemoveAllRollback
<1>8. CASE ReportFailure
  BY <1>8 DEF ReportFailure
<1>9. CASE StartServices
  BY <1>9 DEF StartServices
<1>10. CASE StopHealthCheck
  BY <1>10 DEF StopHealthCheck
<1>11. QED
  BY <1>1, <1>2, <1>3, <1>4, <1>5, <1>6, <1>7, <1>8, <1>9, <1>10

\* A boot starts both processes from the beginning.
LEMMA BootTypes ==
  ASSUME TypeInv, Boot, faults' \in 0 .. MaxFaults
  PROVE  TypeInv'
<1>0. /\ ApplianceTypeOK /\ ProcessTypeOK
      /\ attempt \in 0 .. Attempts /\ good \in Releases
  BY DEF TypeInv, TypeOK
<1>1. ApplianceTypeOK' /\ attempt' \in 0 .. Attempts /\ good' \in Releases
  BY <1>0, HealthAssumption DEF Boot, ApplianceTypeOK
<1>2. ProcessTypeOK'
  BY LoopFacts
  DEF Boot, FirstPc, ProcessTypeOK, MaybeRelease, InstallerPcs, HealthPcs
<1>3. IndexOK' /\ JudgeOK'
  BY DEF Boot, FirstPc, IndexOK, JudgeOK
<1>4. QED
  BY <1>1, <1>2, <1>3 DEF TypeInv, TypeOK

\* A delivered bundle is a release.
LEMMA DeliverTypes ==
  ASSUME TypeInv, NEW r \in Releases, DeliverBundle(r)
  PROVE  TypeInv'
  BY DEF TypeInv, TypeOK, DeliverBundle, ApplianceTypeOK, ProcessTypeOK,
         IndexOK, JudgeOK, MaybeRelease

\* Every step keeps the types.
LEMMA StepTypes ==
  ASSUME TypeInv, [Next]_vars
  PROVE  TypeInv'
<1>0. /\ good \in Releases /\ faults \in 0 .. MaxFaults
      /\ ProcessTypeOK /\ JudgeOK
  BY DEF TypeInv, TypeOK
<1>f. Fault => faults' \in 0 .. MaxFaults
  BY <1>0, EnvironmentAssumption DEF Fault
<1>1. CASE \E r \in Releases : DeliverBundle(r)
  BY <1>1, DeliverTypes
<1>2. CASE \E p \in Procs : Restore(p)
  BY <1>2, RestoreTypes DEF Restore
<1>3. CASE Install
  <2>1. /\ UNCHANGED <<attempt, good>>
        /\ faults' \in 0 .. MaxFaults
    BY <1>0, <1>3 DEF Install
  <2>2. CASE WriteMarker
    BY <2>1, <2>2, InstallerTypes
  <2>3. CASE InstallerStep
    BY <2>1, <2>3, InstallerTypes DEF InstallerStep
  <2>4. QED
    BY <1>3, <2>2, <2>3 DEF Install
<1>4. CASE CheckHealth
  <2>1. good' \in Releases /\ faults' \in 0 .. MaxFaults
    BY <1>0, <1>4 DEF CheckHealth, JudgeOK
  <2>2. QED
    BY <1>4, <2>1, HealthTypes DEF CheckHealth, HealthStep
<1>5. CASE Reboot
  BY <1>0, <1>5, BootTypes DEF Reboot
<1>6. CASE PowerLoss
  BY <1>6, <1>f, BootTypes DEF PowerLoss
<1>7. CASE Raise
  <2>1. good' \in Releases /\ faults' \in 0 .. MaxFaults
    BY <1>0, <1>7, <1>f DEF Raise
  <2>2. CASE StopHealthCheck
    BY <2>1, <2>2, HealthTypes
  <2>3. CASE /\ AbortPreparation \/ FailInstallation \/ FailInstallerRestore
             /\ UNCHANGED attempt
    BY <1>7, <2>1, <2>3, InstallerTypes DEF Raise
  <2>4. QED
    BY <1>7, <2>2, <2>3 DEF Raise
<1>8. CASE UNCHANGED vars
  BY <1>8 DEF vars, TypeInv, TypeOK, ApplianceTypeOK, ProcessTypeOK, IndexOK,
          JudgeOK
<1>9. QED
  BY <1>1, <1>2, <1>3, <1>4, <1>5, <1>6, <1>7, <1>8 DEF Next

\* Whatever fails and whatever overlaps, every variable keeps its type and
\* every loop of apply_pending and restore_backup stays on its own part of
\* the managed items.
THEOREM TypeCorrect == Spec => [](TypeOK /\ IndexOK)
<1>1. Init => TypeInv
  BY InitTypes
<1>2. TypeInv /\ [Next]_vars => TypeInv'
  BY StepTypes
<1>3. TypeInv => TypeOK /\ IndexOK
  BY DEF TypeInv
<1>4. QED
  BY <1>1, <1>2, <1>3, PTL DEF Spec

-----------------------------------------------------------------------------
(* What the installer works with.                                          *)

\* Type correctness, in the form in which the proofs below cite it.
LEMMA TypeFacts ==
  ASSUME TypeInv
  PROVE  /\ ProcessTypeOK /\ IndexOK /\ JudgeOK
         /\ root \in [Items -> Content] /\ backup \in [Items -> Content]
         /\ meta \in [version : MaybeRelease, previous : SUBSET Files]
         /\ marker.version \in MaybeRelease
         /\ good \in Releases
         /\ \A r : root = Uniform(r) <=> \A i \in Items : root[i] = r
  BY DEF TypeInv, TypeOK, ApplianceTypeOK, Uniform

\* Content reaches the disk from the payload that verify_bundle passed, or
\* from another place on the disk.
LEMMA VerifiedStep ==
  ASSUME TypeInv, Verified, [Next]_vars
  PROVE  Verified'
<1> DEFINE Known == Installable \union {None, Torn}
<1>0. /\ ProcessTypeOK /\ IndexOK
      /\ root \in [Items -> Content] /\ backup \in [Items -> Content]
      /\ \A i \in Items : root[i] \in Known /\ backup[i] \in Known
      /\ ver[Installer] \in Installable \union {None}
  BY TypeFacts DEF Verified, OnlyVerified
<1>1. CASE /\ UNCHANGED <<root, backup>>
           /\ ver'[Installer] \in {ver[Installer], None}
  BY <1>0, <1>1 DEF Verified, OnlyVerified
<1>2. CASE RemoveSomeRollback /\ ver' = ver
  BY <1>0, <1>2 DEF RemoveSomeRollback, Verified, OnlyVerified
<1>3. CASE RemoveAllRollback /\ ver'[Installer] \in {ver[Installer], None}
  BY <1>0, <1>3 DEF RemoveAllRollback, Empty, Verified, OnlyVerified
<1>4. CASE \E r \in Releases : DeliverBundle(r)
  BY <1>1, <1>4 DEF DeliverBundle
<1>5. ASSUME NEW p \in Procs, RestoreStep(p)
      PROVE  Verified'
  <2> USE <1>0, ItemFacts DEF ProcessTypeOK, IndexOK, Verified, OnlyVerified
  <2>1. CASE LoadMetadata(p) \/ ChooseDirectory(p) \/ UnlinkMarker(p)
    BY <2>1, <1>1 DEF LoadMetadata, ChooseDirectory, UnlinkMarker
  <2>2. CASE RemoveDirectory(p)
    BY <2>2 DEF RemoveDirectory
  <2>3. CASE PutDirectory(p)
    BY <2>3 DEF PutDirectory
  <2>4. CASE OpenFile(p)
    BY <2>4 DEF OpenFile
  <2>5. CASE WriteFile(p)
    BY <2>5 DEF WriteFile
  <2>6. QED
    BY <1>5, <2>1, <2>2, <2>3, <2>4, <2>5 DEF RestoreStep
<1>6. CASE Install
  <2> USE <1>0, ItemFacts, ReleaseFacts
      DEF ProcessTypeOK, IndexOK, Verified, OnlyVerified
  <2>1. CASE \/ StartInstaller \/ RejectBundle \/ WriteMetadata \/ WriteMarker
             \/ StopServices \/ MoveBundle \/ MarkPendingHealth \/ EnableUnits
             \/ StartServicesAndRaise \/ FailInstallation
             \/ FailInstallerRestore
    BY <1>1, <2>1
    DEF StartInstaller, RejectBundle, WriteMetadata, WriteMarker, StopServices,
        MoveBundle, MarkPendingHealth, EnableUnits, StartServicesAndRaise,
        FailInstallation, FailInstallerRestore
  <2>2. CASE VerifyBundle
    BY <2>2 DEF VerifyBundle
  <2>3. CASE ClearSomeRollback \/ ClearRollback
    BY <1>2, <1>3, <2>3 DEF ClearSomeRollback, ClearRollback
  <2>4. CASE BackUpFile
    BY <2>4 DEF BackUpFile
  <2>5. CASE MoveDirectoryOut
    BY <2>5 DEF MoveDirectoryOut
  <2>6. CASE MoveDirectoryIn
    BY <2>6 DEF MoveDirectoryIn
  <2>7. CASE OpenNewFile
    BY <2>7 DEF OpenNewFile
  <2>8. CASE WriteNewFile
    BY <2>8 DEF WriteNewFile
  <2>9. QED
    BY <1>6, <2>1, <2>2, <2>3, <2>4, <2>5, <2>6, <2>7, <2>8
    DEF Install, InstallerStep
<1>7. CASE CheckHealth
  <2>1. CASE DiscardSomeRollback \/ DiscardRollback
    BY <1>0, <1>2, <1>3, <2>1
    DEF DiscardSomeRollback, DiscardRollback, ProcessTypeOK
  <2>2. CASE ~(DiscardSomeRollback \/ DiscardRollback)
    BY <1>0, <1>1, <1>7, <2>2
    DEF CheckHealth, HealthStep, NothingPending, StartHealthCheck, ProbeFails,
        Accept, Unmark, ReportFailure, StartServices, StopHealthCheck,
        ProcessTypeOK
  <2>3. QED
    BY <2>1, <2>2
<1>8. CASE Reboot \/ PowerLoss
  BY <1>1, <1>8 DEF Reboot, PowerLoss, Boot
<1>9. CASE Raise
  BY <1>0, <1>1, <1>9
  DEF Raise, AbortPreparation, FailInstallation, FailInstallerRestore,
      StopHealthCheck, ProcessTypeOK
<1>10. CASE UNCHANGED vars
  BY <1>1, <1>10 DEF vars
<1>11. QED
  BY <1>4, <1>5, <1>6, <1>7, <1>8, <1>9, <1>10 DEF Next, Restore

\* Whatever fails and whatever overlaps, nothing gets into the appliance or
\* its rollback that verify_bundle has not passed.
THEOREM NothingUnverified == Spec => []OnlyVerified
<1>1. Init => TypeInv /\ Verified
  <2>1. Init => Verified
    BY ReleaseFacts
    DEF Init, ApplianceInit, Verified, OnlyVerified, Uniform, Empty
  <2>2. QED
    BY <2>1, InitTypes
<1>2. TypeInv /\ Verified /\ [Next]_vars => TypeInv' /\ Verified'
  BY StepTypes, VerifiedStep
<1>3. Verified => OnlyVerified
  BY DEF Verified
<1>4. QED
  BY <1>1, <1>2, <1>3, PTL DEF Spec
=============================================================================
