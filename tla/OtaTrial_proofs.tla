--------------------------- MODULE OtaTrial_proofs ---------------------------
(***************************************************************************)
(* How a trial ends, in a careful environment: that the result on the disk *)
(* is true, and that every step of a trial brings its verdict nearer.      *)
(***************************************************************************)
EXTENDS OtaProgress, OtaSafety_proofs

\* Names that every step below would expand.
USE DEF Procs, Installer, Health, appliance, disk, locals, Goto, Exit, Advance,
        At, Item, Version, FromFirst, Judged, AfterDirectory, AfterFile

-----------------------------------------------------------------------------
(* The result on the disk.                                                 *)

\* The installer, and what follows it.
LEMMA InstallReported ==
  ASSUME TypeInv, Inv, Reported, Install
  PROVE  Reported'
<1>1. CASE WriteMarker
  BY <1>1, TypeFacts
  DEF Install, WriteMarker, Reported, Inv, Exclusion, PreparePcs, UnderTrial,
      HcPc, InPc, ProcessTypeOK
<1>2. CASE MarkPendingHealth
  BY <1>2, TypeFacts
  DEF Install, MarkPendingHealth, Reported, HcPc, InPc, ProcessTypeOK
<1>3. CASE StartInstaller
  BY <1>3, TypeFacts
  DEF Install, StartInstaller, Reported, Inv, Exclusion, UnderTrial, HcPc, InPc,
      ProcessTypeOK
<1>4. CASE ~WriteMarker /\ ~MarkPendingHealth /\ ~StartInstaller
  <2>1. UNCHANGED <<report, marker, good>>
    BY <1>4
    DEF Install, InstallerStep, RejectBundle, VerifyBundle, ClearSomeRollback,
        ClearRollback, RemoveSomeRollback, RemoveAllRollback, BackUpFile,
        WriteMetadata, StopServices, MoveDirectoryOut, MoveDirectoryIn,
        OpenNewFile, WriteNewFile, MoveBundle, EnableUnits,
        StartServicesAndRaise, FailInstallation, FailInstallerRestore
  <2>2. /\ pc'[Health] = pc[Health] /\ ver'[Health] = ver[Health]
        /\ pc[Installer] # "idle"
    BY <1>4, TypeFacts
    DEF Install, InstallerStep, RejectBundle, VerifyBundle, ClearSomeRollback,
        ClearRollback, RemoveSomeRollback, RemoveAllRollback, BackUpFile,
        WriteMetadata, StopServices, MoveDirectoryOut, MoveDirectoryIn,
        OpenNewFile, WriteNewFile, MoveBundle, EnableUnits,
        StartServicesAndRaise, FailInstallation, FailInstallerRestore,
        InstallationBlocked, CopyVanished, ReturnPcs, TryPcs, RestorePcs,
        ProcessTypeOK
  <2>3. QED
    BY <2>1, <2>2 DEF Reported, HcPc, InPc, UnderTrial
<1>5. QED
  BY <1>1, <1>2, <1>3, <1>4

\* A rollback takes a report of success back by ending the check.
LEMMA RestoreReported ==
  ASSUME TypeInv, Inv, Reported, NEW p \in Procs, Restore(p)
  PROVE  Reported'
<1>1. UNCHANGED <<report, good, ver>> /\ pc[p] \in RestorePcs
      /\ \A q \in Procs : q # p => pc'[q] = pc[q]
      /\ pc'[p] \notin {"unmark", "idle"}
  BY TypeFacts
  DEF Restore, RestoreStep, LoadMetadata, ChooseDirectory, RemoveDirectory,
      PutDirectory, OpenFile, WriteFile, UnlinkMarker, RestorePcs, ProcessTypeOK
<1>2. pc[Health] # "restored" /\ (p = Health => InPc("idle"))
  BY <1>1, TypeFacts DEF Inv, Exclusion, RestorePcs, InPc
<1>3. CASE UnlinkMarker(p)
  BY <1>1, <1>2, <1>3, TypeFacts
  DEF UnlinkMarker, Reported, RestorePcs, InPc, HcPc, ProcessTypeOK
<1>4. CASE ~UnlinkMarker(p)
  <2>1. marker' = marker
    BY <1>4
    DEF Restore, RestoreStep, LoadMetadata, ChooseDirectory, RemoveDirectory,
        PutDirectory, OpenFile, WriteFile
  <2>2. QED
    BY <1>1, <1>2, <2>1 DEF Reported, RestorePcs, InPc, HcPc, UnderTrial
<1>5. QED
  BY <1>3, <1>4

\* The check: it reports before it removes the marker, and reports a rollback
\* after.
LEMMA CheckReported ==
  ASSUME TypeInv, Inv, Reported, CheckHealth
  PROVE  Reported'
<1>1. CASE Accept
  BY <1>1, TypeFacts
  DEF CheckHealth, Accept, Reported, Inv, Exclusion, JudgedWhole, UnderTrial,
      HcPc, InPc, ProcessTypeOK
<1>2. CASE Unmark
  BY <1>2, TypeFacts
  DEF CheckHealth, Unmark, Reported, HcPc, InPc, ProcessTypeOK
<1>3. CASE ReportFailure
  BY <1>3, TypeFacts
  DEF CheckHealth, ReportFailure, ReturnPcs, Reported, HcPc, InPc, ProcessTypeOK
<1>4. CASE ~Accept /\ ~Unmark /\ ~ReportFailure
  <2>1. /\ UNCHANGED <<report, marker>>
        /\ pc'[Installer] = pc[Installer]
        /\ pc[Health] \notin {"unmark", "restored"}
        /\ pc'[Health] # "unmark"
    BY <1>4, TypeFacts
    DEF CheckHealth, HealthStep, NothingPending, StartHealthCheck, ProbeFails,
        DiscardSomeRollback, DiscardRollback, RemoveSomeRollback,
        RemoveAllRollback, StartServices, StopHealthCheck, CopyVanished,
        ProcessTypeOK
  <2>2. good' = good
    BY <2>1 DEF CheckHealth
  <2>3. QED
    BY <2>1, <2>2 DEF Reported, HcPc, InPc, UnderTrial
<1>5. QED
  BY <1>1, <1>2, <1>3, <1>4

\* A boot, unless it comes between a rollback and its result.
LEMMA BootReported ==
  ASSUME TypeInv, Inv, Reported, Boot, ~HcPc("restored")
  PROVE  Reported'
<1>1. /\ pc'[Installer] = "idle" /\ pc'[Health] = "boot"
      /\ UNCHANGED <<report, marker, good>>
  BY DEF Boot, FirstPc
<1>2. QED
  BY <1>1 DEF Reported, HcPc, InPc, UnderTrial

\* What is reported as accepted is so, or is on trial, or was just taken back.
LEMMA StepReported ==
  ASSUME Careful, Prompt, TypeInv, Inv, Reported, [Next]_vars
  PROVE  Reported'
<1>1. CASE \E r \in Releases : DeliverBundle(r)
  BY <1>1 DEF DeliverBundle, Reported, HcPc, InPc, UnderTrial
<1>2. CASE \E p \in Procs : Restore(p)
  BY <1>2, RestoreReported
<1>3. CASE Install
  BY <1>3, InstallReported
<1>4. CASE CheckHealth
  BY <1>4, CheckReported
<1>5. CASE Reboot
  <2>1. ~HcPc("restored")
    BY <1>5 DEF Reboot, Inv, Exclusion, HcPc
  <2>2. QED
    BY <1>5, <2>1, BootReported DEF Reboot
<1>6. CASE PowerLoss
  <2>1. HcPc("restored") => Window = "verdict"
    BY DEF Inv, Exclusion, HcPc, Window, HalfApplied, HalfRestored, Unreported,
           RestorePcs
  <2>2. ~HcPc("restored")
    BY <1>6, <2>1 DEF PowerLoss, Prompt
  <2>3. QED
    BY <1>6, <2>2, BootReported DEF PowerLoss
<1>7. CASE Raise
  <2>1. /\ UNCHANGED <<report, marker, good>>
        /\ pc'[Health] = pc[Health] /\ ver'[Health] = ver[Health]
        /\ pc[Installer] # "idle"
    BY <1>7, TypeFacts
    DEF Raise, Prompt, AbortPreparation, FailInstallation, FailInstallerRestore,
        PreparePcs, TryPcs, RestorePcs, ProcessTypeOK
  <2>2. QED
    BY <2>1 DEF Reported, HcPc, InPc, UnderTrial
<1>8. CASE UNCHANGED vars
  BY <1>8 DEF vars, Reported, HcPc, InPc, UnderTrial
<1>9. QED
  BY <1>1, <1>2, <1>3, <1>4, <1>5, <1>6, <1>7, <1>8 DEF Next

\* Where a rollback is always followed by its result, the result written last
\* is true once no trial is open: a release it calls accepted is there, whole,
\* even if an earlier check of it was cut short (update_health.py:71-102).
THEOREM ReportIsTrue ==
  ASSUME Careful, Prompt
  PROVE  Spec => []ReportTrue
<1>1. Init => Reported
  BY DEF Init, ApplianceInit, NoReport, FirstPc, Reported, HcPc
<1>2. TypeInv /\ Inv /\ Reported /\ [Next]_vars => Reported'
  BY StepReported
<1>3. TypeInv /\ Inv /\ Reported => ReportTrue
  BY DEF Inv, Settled, Reported, ReportTrue, HcPc
<1>4. QED
  BY <1>1, <1>2, <1>3, InvariantHolds, PTL DEF Spec

-----------------------------------------------------------------------------
(* The way to the verdict.                                                 *)

\* The stages in numbers.
LEMMA Stages ==
  /\ \A l \in RestorePcs : InstallerStage(l) = 20 + HealthStage(l)
  /\ HealthStage("load") = 4
  /\ \A l \in {"rdir", "rmdir"} : HealthStage(l) = 3
  /\ \A l \in {"rfile", "wfile"} : HealthStage(l) = 2
  /\ HealthStage("runmark") = 1 /\ HealthStage("unmark") = 1
  /\ HealthStage("check") = 10 /\ HealthStage("boot") = 11
  /\ HealthStage("done") = 0
  /\ InstallerStage("stop") = 37
  /\ \A l \in {"outdir", "indir"} : InstallerStage(l) = 36
  /\ \A l \in {"open", "write"} : InstallerStage(l) = 35
  /\ InstallerStage("move") = 34 /\ InstallerStage("ready") = 33
  /\ InstallerStage("enable") = 32 /\ InstallerStage("reboot") = 12
  BY DEF HealthStage, InstallerStage, RestorePcs, RestoreStage

\* The process that works on a trial, and its numbers.
LEMMA InstallerRank ==
  ASSUME ~InPc("idle")
  PROVE  /\ Worker = Installer /\ Stage = InstallerStage(pc[Installer])
         /\ pc[Installer] # "check" => Left = NumItems + 1 - idx[Installer]
  BY DEF InPc, Worker, Stage, Left

LEMMA HealthRank ==
  ASSUME InPc("idle")
  PROVE  /\ Worker = Health /\ Stage = HealthStage(pc[Health])
         /\ pc[Health] # "check" => Left = NumItems + 1 - idx[Health]
         /\ pc[Health] = "check" => Left = Attempts - attempt
  BY DEF InPc, Worker, Stage, Left

\* A lower stage is nearer, and so is the next item.
LEMMA LowerStage ==
  ASSUME Stage' < Stage
  PROVE  Falls(TrialRank', TrialRank)
  BY DEF Falls, TrialRank

LEMMA NextOfStage ==
  ASSUME Stage' = Stage, Left' < Left
  PROVE  Falls(TrialRank', TrialRank)
  BY DEF Falls, TrialRank

LEMMA NextChange ==
  ASSUME Stage' = Stage, Left' = Left, Changes' < Changes
  PROVE  Falls(TrialRank', TrialRank)
  BY DEF Falls, TrialRank

\* The steps of a rollback.
LEMMA RestoreNears ==
  ASSUME TypeInv, TypeInv', Inv, NEW p \in Procs, Restore(p), UnderTrial'
  PROVE  Falls(TrialRank', TrialRank)
<1> DEFINE s(l) == IF p = Installer THEN 20 + HealthStage(l) ELSE HealthStage(l)
<1>1. /\ pc[p] \in RestorePcs
      /\ \A q \in Procs : q # p => pc'[q] = pc[q]
      /\ p = Health => pc[Installer] = "idle"
  BY TypeFacts
  DEF Restore, RestoreStep, LoadMetadata, ChooseDirectory, RemoveDirectory,
      PutDirectory, OpenFile, WriteFile, UnlinkMarker, RestorePcs, ProcessTypeOK,
      Inv, Exclusion
<1>2. ~UnlinkMarker(p)
  BY DEF UnlinkMarker, NoMarker, UnderTrial
<1>3. pc'[p] \in RestorePcs
  BY <1>1, <1>2, TypeFacts
  DEF Restore, RestoreStep, LoadMetadata, ChooseDirectory, RemoveDirectory,
      PutDirectory, OpenFile, WriteFile, RestorePcs, ProcessTypeOK, Inv,
      Exclusion, RollbackComplete
<1>4. /\ Worker = p /\ Worker' = p
      /\ Stage = s(pc[p]) /\ Stage' = s(pc'[p])
      /\ Left = NumItems + 1 - idx[p] /\ Left' = NumItems + 1 - idx'[p]
  <2>1. CASE p = Installer
    <3>1. ~InPc("idle") /\ ~InPc("idle")'
          /\ pc[p] # "check" /\ pc'[p] # "check"
      BY <1>1, <1>3, <2>1 DEF InPc, RestorePcs
    <3>2. /\ Worker' = Installer /\ Stage' = InstallerStage(pc'[Installer])
          /\ Left' = NumItems + 1 - idx'[Installer]
      BY <2>1, <3>1 DEF InPc, Worker, Stage, Left
    <3>3. QED
      BY <1>1, <1>3, <2>1, <3>1, <3>2, InstallerRank, Stages
  <2>2. CASE p = Health
    <3>1. InPc("idle") /\ InPc("idle")'
          /\ pc[p] # "check" /\ pc'[p] # "check"
      BY <1>1, <1>3, <2>2 DEF InPc, RestorePcs
    <3>2. /\ Worker' = Health /\ Stage' = HealthStage(pc'[Health])
          /\ Left' = NumItems + 1 - idx'[Health]
      BY <2>2, <3>1 DEF InPc, Worker, Stage, Left
    <3>3. QED
      BY <2>2, <3>1, <3>2, HealthRank
  <2>3. QED
    BY <2>1, <2>2
<1>5. idx[p] \in Nat /\ idx'[p] \in Nat /\ NumItems \in Nat
  BY TypeFacts, NextTypeFacts, ItemFacts DEF ProcessTypeOK, Indices
<1>6. s(pc'[p]) < s(pc[p]) => Falls(TrialRank', TrialRank)
  BY <1>4, LowerStage
<1>7. ASSUME s(pc'[p]) = s(pc[p]), idx'[p] = idx[p] + 1
      PROVE  Falls(TrialRank', TrialRank)
  BY <1>4, <1>5, <1>7, NextOfStage
<1>8. ASSUME s(pc'[p]) = s(pc[p]), idx'[p] = idx[p], Changes' < Changes
      PROVE  Falls(TrialRank', TrialRank)
  BY <1>4, <1>8, NextChange
<1>9. /\ s("rdir") = s("rmdir") /\ s("rfile") = s("wfile")
      /\ s("rdir") < s("load") /\ s("rfile") < s("rdir")
      /\ s("runmark") < s("rfile")
  BY Stages
<1>10. /\ pc[p] = "rdir" => Changes = 3
       /\ pc[p] = "rfile" => Changes = 1
       /\ pc'[p] = "wfile" => Changes' = 0
       /\ pc[p] = "rmdir" =>
            Changes = IF root[idx[p]] = None THEN 0
                      ELSE IF root[idx[p]] = Torn THEN 1 ELSE 2
       /\ pc'[p] = "rmdir" =>
            Changes' = IF root'[idx'[p]] = None THEN 0
                       ELSE IF root'[idx'[p]] = Torn THEN 1 ELSE 2
  BY <1>4 DEF Changes
<1> HIDE DEF s
<1>11. CASE LoadMetadata(p)
  BY <1>3, <1>6, <1>9, <1>11, TypeFacts DEF LoadMetadata, RestorePcs, ProcessTypeOK
<1>12. CASE ChooseDirectory(p)
  BY <1>6, <1>7, <1>8, <1>9, <1>10, <1>12, TypeFacts
  DEF ChooseDirectory, ProcessTypeOK
<1>13. CASE RemoveDirectory(p)
  <2>1. /\ pc[p] = "rmdir" /\ pc' = pc /\ idx' = idx
        /\ root[idx[p]] # None /\ idx[p] \in Items
        /\ \E c \in {Torn, None} \ {root[idx[p]]} : root'[idx[p]] = c
    BY <1>13, TypeFacts, ItemFacts DEF RemoveDirectory, IndexOK
  <2>2. QED
    BY <1>8, <1>10, <2>1, ReleaseFacts
<1>14. CASE PutDirectory(p)
  BY <1>6, <1>7, <1>9, <1>14, TypeFacts DEF PutDirectory, ProcessTypeOK
<1>15. CASE OpenFile(p)
  BY <1>6, <1>7, <1>8, <1>9, <1>10, <1>15, TypeFacts DEF OpenFile, ProcessTypeOK
<1>16. CASE WriteFile(p)
  BY <1>6, <1>7, <1>9, <1>16, TypeFacts DEF WriteFile, ProcessTypeOK
<1>17. QED
  BY <1>2, <1>11, <1>12, <1>13, <1>14, <1>15, <1>16 DEF Restore, RestoreStep

\* The steps of an installation.
LEMMA InstallNears ==
  ASSUME TypeInv, TypeInv', Inv, Install, UnderTrial, UnderTrial'
  PROVE  Falls(TrialRank', TrialRank)
<1>1. /\ pc[Installer] \in ApplyPcs \union {"ready", "enable"} \union RestorePcs
      /\ pc'[Installer] = "idle" => pc[Health] = "done" /\ pc'[Health] = "done"
  BY TypeFacts
  DEF Install, InstallerStep, StartInstaller, RejectBundle, VerifyBundle,
      ClearSomeRollback, ClearRollback, RemoveSomeRollback, RemoveAllRollback,
      BackUpFile, WriteMetadata, WriteMarker, StopServices, MoveDirectoryOut,
      MoveDirectoryIn, OpenNewFile, WriteNewFile, MoveBundle, MarkPendingHealth,
      EnableUnits, StartServicesAndRaise, FailInstallation, FailInstallerRestore,
      InstallationBlocked, CopyVanished, ApplyPcs, AfterPcs, RestorePcs,
      PreparePcs, ReturnPcs, ProcessTypeOK, Inv, Exclusion
<1>2. /\ ~InPc("idle") /\ Worker = Installer
      /\ Stage = InstallerStage(pc[Installer])
      /\ Left = NumItems + 1 - idx[Installer]
  BY <1>1, InstallerRank DEF ApplyPcs, RestorePcs, InPc
<1>3. ASSUME pc'[Installer] # "idle", pc'[Installer] # "check"
      PROVE  /\ Worker' = Installer /\ Stage' = InstallerStage(pc'[Installer])
             /\ Left' = NumItems + 1 - idx'[Installer]
  BY <1>3 DEF InPc, Worker, Stage, Left
<1>4. idx[Installer] \in Nat /\ idx'[Installer] \in Nat /\ NumItems \in Nat
  BY TypeFacts, NextTypeFacts, ItemFacts DEF ProcessTypeOK, Indices
<1>5. ASSUME pc'[Installer] \notin {"idle", "check"},
             InstallerStage(pc'[Installer]) < InstallerStage(pc[Installer])
      PROVE  Falls(TrialRank', TrialRank)
  BY <1>2, <1>3, <1>5, LowerStage
<1>6. ASSUME pc'[Installer] \notin {"idle", "check"},
             InstallerStage(pc'[Installer]) = InstallerStage(pc[Installer]),
             idx'[Installer] = idx[Installer] + 1
      PROVE  Falls(TrialRank', TrialRank)
  BY <1>2, <1>3, <1>4, <1>6, NextOfStage
<1>7. ASSUME pc'[Installer] \notin {"idle", "check"},
             InstallerStage(pc'[Installer]) = InstallerStage(pc[Installer]),
             idx'[Installer] = idx[Installer], Changes' < Changes
      PROVE  Falls(TrialRank', TrialRank)
  BY <1>2, <1>3, <1>7, NextChange
<1>8. CASE StopServices
  BY <1>5, <1>8, Stages, TypeFacts DEF StopServices, ProcessTypeOK
<1>9. CASE MoveDirectoryOut
  <2>1. pc[Installer] = "outdir" /\ pc'[Installer] = "indir" /\ idx' = idx
    BY <1>9, TypeFacts DEF MoveDirectoryOut, ProcessTypeOK
  <2>2. Changes = 1 /\ Changes' = 0
    BY <1>2, <1>3, <2>1 DEF Changes
  <2>3. QED
    BY <1>7, <2>1, <2>2, Stages
<1>10. CASE MoveDirectoryIn
  BY <1>5, <1>6, <1>10, Stages, TypeFacts DEF MoveDirectoryIn, ProcessTypeOK
<1>11. CASE OpenNewFile
  <2>1. pc[Installer] = "open" /\ pc'[Installer] = "write" /\ idx' = idx
    BY <1>11, TypeFacts DEF OpenNewFile, ProcessTypeOK
  <2>2. Changes = 1 /\ Changes' = 0
    BY <1>2, <1>3, <2>1 DEF Changes
  <2>3. QED
    BY <1>7, <2>1, <2>2, Stages
<1>12. CASE WriteNewFile
  BY <1>5, <1>6, <1>12, Stages, TypeFacts DEF WriteNewFile, ProcessTypeOK
<1>13. CASE MoveBundle
  BY <1>5, <1>13, Stages, TypeFacts DEF MoveBundle, ProcessTypeOK
<1>14. CASE MarkPendingHealth
  BY <1>5, <1>14, Stages, TypeFacts DEF MarkPendingHealth, ProcessTypeOK
<1>15. CASE EnableUnits
  BY <1>5, <1>15, Stages, TypeFacts DEF EnableUnits, ProcessTypeOK
<1>16. CASE FailInstallation
  <2>1. pc[Installer] \in ApplyPcs \union {"ready", "enable"}
        /\ pc'[Installer] = "load"
    BY <1>1, <1>16, TypeFacts
    DEF FailInstallation, TryPcs, ApplyPcs, RestorePcs, ProcessTypeOK
  <2>2. InstallerStage("load") = 24
    BY Stages DEF RestorePcs
  <2>3. QED
    BY <1>5, <2>1, <2>2, Stages DEF ApplyPcs
<1>17. CASE CopyVanished(Installer) /\ FailInstallerRestore
  <2>1. backup[idx[Installer]] = good /\ backup[idx[Installer]] = None
    BY <1>17 DEF CopyVanished, Inv, RestoreProgress
  <2>2. QED
    BY <2>1, TypeFacts, ReleaseFacts
<1>18. QED
  BY <1>1, <1>8, <1>9, <1>10, <1>11, <1>12, <1>13, <1>14, <1>15, <1>16, <1>17
  DEF Install, InstallerStep, StartInstaller, RejectBundle, VerifyBundle,
      ClearSomeRollback, ClearRollback, BackUpFile, WriteMetadata, WriteMarker,
      StartServicesAndRaise, ApplyPcs, RestorePcs, ReturnPcs

\* The steps of the check, outside the rollback.
LEMMA CheckNears ==
  ASSUME TypeInv, TypeInv', Inv, CheckHealth, UnderTrial, UnderTrial'
  PROVE  Falls(TrialRank', TrialRank)
<1>1. StartHealthCheck \/ ProbeFails \/ Accept
  BY ReleaseFacts, TypeFacts
  DEF CheckHealth, HealthStep, NothingPending, Unmark, DiscardSomeRollback,
      DiscardRollback, ReportFailure, StartServices, CopyVanished, NoMarker,
      UnderTrial, ReturnPcs, Inv, Exclusion, RestoreProgress
<1>2. /\ InPc("idle") /\ InPc("idle")'
      /\ pc'[Health] \in {"check", "load", "unmark"}
      /\ pc[Health] \in {"boot", "check"}
  BY <1>1, TypeFacts
  DEF StartHealthCheck, ProbeFails, Accept, InPc, ProcessTypeOK, Inv, Exclusion,
      ApplyPcs, AfterPcs, RestorePcs, ReturnPcs, PreparePcs, InstallerPcs, TryPcs,
      UnderTrial
<1>3. /\ Worker = Health /\ Worker' = Health
      /\ Stage = HealthStage(pc[Health]) /\ Stage' = HealthStage(pc'[Health])
      /\ pc[Health] = "check" => Left = Attempts - attempt
      /\ pc'[Health] = "check" => Left' = Attempts - attempt'
  BY <1>2 DEF InPc, Worker, Stage, Left
<1>4. CASE StartHealthCheck
  BY <1>3, <1>4, Stages, LowerStage, TypeFacts DEF StartHealthCheck, ProcessTypeOK
<1>5. CASE Accept
  BY <1>3, <1>5, Stages, LowerStage, TypeFacts DEF Accept, ProcessTypeOK
<1>6. CASE ProbeFails
  <2>1. /\ pc[Health] = "check" /\ attempt' = attempt + 1
        /\ attempt \in Nat /\ Attempts \in Nat
        /\ pc'[Health] \in {"check", "load"}
    BY <1>6, TypeFacts, HealthAssumption
    DEF ProbeFails, ProcessTypeOK, TypeInv, TypeOK
  <2>2. CASE pc'[Health] = "check"
    BY <1>3, <2>1, <2>2, NextOfStage
  <2>3. CASE pc'[Health] = "load"
    BY <1>3, <2>1, <2>3, Stages, LowerStage
  <2>4. QED
    BY <2>1, <2>2, <2>3
<1>7. QED
  BY <1>1, <1>4, <1>5, <1>6

\* The reboot after an installation.
LEMMA RebootNears ==
  ASSUME TypeInv, Inv, Reboot, UnderTrial
  PROVE  Falls(TrialRank', TrialRank)
<1>1. /\ pc[Installer] = "reboot"
      /\ pc'[Installer] = "idle" /\ pc'[Health] = "boot"
  BY DEF Reboot, Boot, FirstPc, Inv, Exclusion
<1>2. Stage = 12 /\ Stage' = 11
  BY <1>1, Stages DEF Stage, InPc
<1>3. QED
  BY <1>2, LowerStage

\* As long as a trial is open and nothing fails, every step brings its verdict
\* nearer, for any number of items, probes and releases (apply_pending,
\* run_health_check).
THEOREM TrialsNearVerdict ==
  ASSUME Careful
  PROVE  Spec => TrialNearsVerdict
<1>1. ASSUME TypeInv, Inv, [Next]_vars, vars' # vars,
             UnderTrial, UnderTrial', faults' = faults
      PROVE  Falls(TrialRank', TrialRank)
  <2>1. TypeInv' /\ faults \in Nat
    BY <1>1, StepTypes DEF TypeInv, TypeOK
  <2>2. CASE \E r \in Releases : DeliverBundle(r)
    BY <1>1, <2>2 DEF DeliverBundle, Careful
  <2>3. CASE \E p \in Procs : Restore(p)
    BY <1>1, <2>1, <2>3, RestoreNears
  <2>4. CASE Install
    BY <1>1, <2>1, <2>4, InstallNears
  <2>5. CASE CheckHealth
    BY <1>1, <2>1, <2>5, CheckNears
  <2>6. CASE Reboot
    BY <1>1, <2>6, RebootNears
  <2>7. CASE PowerLoss \/ Raise
    BY <1>1, <2>1, <2>7 DEF PowerLoss, Raise, Fault
  <2>8. QED
    BY <1>1, <2>2, <2>3, <2>4, <2>5, <2>6, <2>7 DEF Next
<1>2. ASSUME TypeInv, Inv, [Next]_vars
      PROVE  [UnderTrial /\ UnderTrial' /\ faults' = faults =>
                Falls(TrialRank', TrialRank)]_vars
  BY <1>1, <1>2
<1>3. QED
  BY <1>2, InvariantHolds, PTL DEF Spec, TrialNearsVerdict
=============================================================================
