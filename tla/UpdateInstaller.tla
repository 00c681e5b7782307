--------------------------- MODULE UpdateInstaller ---------------------------
(***************************************************************************)
(* apply_pending of update_installer.py, run by tater-sat1-update.service  *)
(* whenever the path unit sees a pending bundle.  The service has one      *)
(* instance, and the flock of lines 407-408 serialises it with a hand-run  *)
(* installer, so one process stands for both.                              *)
(*                                                                         *)
(* Between the verification and the end of the `with lock` block the       *)
(* installer goes through two parts: the preparation, whose exceptions     *)
(* leave the appliance as it is, and the `try` block, whose exceptions run *)
(* restore_backup.                                                         *)
(***************************************************************************)
EXTENDS RestoreBackup

Installer == "installer"

PreparePcs == {"verify", "clear", "backup", "meta", "mark"}
TryPcs     == {"stop", "outdir", "indir", "open", "write", "move", "ready",
               "enable"}
InstallerPcs ==
  {"idle", "reboot"} \union PreparePcs \union TryPcs \union RestorePcs
  \union ReturnPcs

At(label) == pc[Installer] = label
Item      == idx[Installer]
Version   == ver[Installer]

FromFirst(i) == idx' = [idx EXCEPT ![Installer] = i]

-----------------------------------------------------------------------------
(* Preparation.                                                            *)

\* Mutant: a bundle of the version that is installed is passed over.
StartInstallerForNews ==
  /\ At("idle")
  /\ pending # None
  /\ root[VersionFile] # pending
  /\ Goto(Installer, "verify")
  /\ UNCHANGED <<appliance, idx, previous, ver>>

\* The path unit starts the service; the bundle is there and the lock free.
StartInstaller ==
  /\ At("idle")
  /\ pending # None
  /\ Goto(Installer, "verify")
  /\ UNCHANGED <<appliance, idx, previous, ver>>

\* A bundle that does not verify is left where it is.
RejectBundle ==
  /\ At("verify")
  /\ pending \notin Installable
  /\ Exit(Installer, "idle")
  /\ UNCHANGED appliance

\* Mutant: the signature and the payload are not looked at.
TakeBundle ==
  /\ At("verify")
  /\ ver' = [ver EXCEPT ![Installer] = pending]
  /\ Goto(Installer, "clear")
  /\ UNCHANGED <<appliance, idx, previous>>

VerifyBundle ==
  /\ At("verify")
  /\ pending \in Installable
  /\ ver' = [ver EXCEPT ![Installer] = pending]
  /\ Goto(Installer, "clear")
  /\ UNCHANGED <<appliance, idx, previous>>

ClearSomeRollback ==
  /\ At("clear")
  /\ RemoveSomeRollback
  /\ UNCHANGED locals

ClearRollback ==
  /\ At("clear")
  /\ RemoveAllRollback
  /\ FromFirst(NumDirs + 1)
  /\ Goto(Installer, "backup")
  /\ UNCHANGED <<previous, ver>>

BackUpFile ==
  /\ At("backup")
  /\ IF root[Item] # None
       THEN /\ backup' = [backup EXCEPT ![Item] = root[Item]]
            /\ previous' = [previous EXCEPT ![Installer] = @ \union {Item}]
       ELSE UNCHANGED <<backup, previous>>
  /\ Advance(Installer)
  /\ Goto(Installer, IF Item = NumItems THEN "meta" ELSE "backup")
  /\ UNCHANGED <<root, meta, marker, pending, report, svc, ver>>

WriteMetadata ==
  /\ At("meta")
  /\ meta' = [version |-> Version, previous |-> previous[Installer]]
  /\ Goto(Installer, "mark")
  /\ UNCHANGED <<root, backup, marker, pending, report, svc,
                 idx, previous, ver>>

WriteMarker ==
  /\ At("mark")
  /\ marker' = [version |-> Version, phase |-> "applying"]
  /\ Goto(Installer, "stop")
  /\ UNCHANGED <<root, backup, meta, pending, report, svc,
                 idx, previous, ver>>

-----------------------------------------------------------------------------
(* The try block.                                                          *)

StopServices ==
  /\ At("stop")
  /\ svc' = FALSE
  /\ FromFirst(1)
  /\ Goto(Installer, "outdir")
  /\ UNCHANGED <<disk, previous, ver>>

\* Mutant: the current directory is deleted instead of moved.
DropDirectory ==
  /\ At("outdir")
  /\ root' = [root EXCEPT ![Item] = None]
  /\ Goto(Installer, "indir")
  /\ UNCHANGED <<backup, meta, marker, pending, report, svc,
                 idx, previous, ver>>

\* os.replace(current, backup), when there is a current directory.
MoveDirectoryOut ==
  /\ At("outdir")
  /\ IF root[Item] = None
       THEN UNCHANGED <<root, backup>>
       ELSE /\ backup[Item] = None
            /\ backup' = [backup EXCEPT ![Item] = root[Item]]
            /\ root' = [root EXCEPT ![Item] = None]
  /\ Goto(Installer, "indir")
  /\ UNCHANGED <<meta, marker, pending, report, svc, idx, previous, ver>>

\* os.replace(replacement, current)
MoveDirectoryIn ==
  /\ At("indir")
  /\ root[Item] = None
  /\ root' = [root EXCEPT ![Item] = Version]
  /\ Advance(Installer)
  /\ Goto(Installer, IF Item = NumDirs THEN "open" ELSE "outdir")
  /\ UNCHANGED <<backup, meta, marker, pending, report, svc, previous, ver>>

OpenNewFile ==
  /\ At("open")
  /\ root' = [root EXCEPT ![Item] = Torn]
  /\ Goto(Installer, "write")
  /\ UNCHANGED <<backup, meta, marker, pending, report, svc,
                 idx, previous, ver>>

\* Mutants: the loop over the files ends one file late, or one early.
WriteOneFileMore ==
  /\ At("write")
  /\ root' = [root EXCEPT ![Item] = Version]
  /\ Advance(Installer)
  /\ Goto(Installer, IF Item > NumItems THEN "move" ELSE "open")
  /\ UNCHANGED <<backup, meta, marker, pending, report, svc, previous, ver>>

WriteOneFileLess ==
  /\ At("write")
  /\ root' = [root EXCEPT ![Item] = Version]
  /\ Advance(Installer)
  /\ Goto(Installer, IF Item >= NumItems - 1 THEN "move" ELSE "open")
  /\ UNCHANGED <<backup, meta, marker, pending, report, svc, previous, ver>>

WriteNewFile ==
  /\ At("write")
  /\ root' = [root EXCEPT ![Item] = Version]
  /\ Advance(Installer)
  /\ Goto(Installer, IF Item = NumItems THEN "move" ELSE "open")
  /\ UNCHANGED <<backup, meta, marker, pending, report, svc, previous, ver>>

\* Mutant: the bundle is copied, and stays in the path unit's sight.
CopyBundle ==
  /\ At("move")
  /\ pending # None
  /\ Goto(Installer, "ready")
  /\ UNCHANGED <<appliance, idx, previous, ver>>

\* The bundle goes into the rollback directory, and out of reach of the
\* path unit.
MoveBundle ==
  /\ At("move")
  /\ pending # None
  /\ pending' = None
  /\ Goto(Installer, "ready")
  /\ UNCHANGED <<root, backup, meta, marker, report, svc,
                 idx, previous, ver>>

MarkPendingHealth ==
  /\ At("ready")
  /\ marker' = [version |-> Version, phase |-> "pending_health"]
  /\ Goto(Installer, "enable")
  /\ UNCHANGED <<root, backup, meta, pending, report, svc,
                 idx, previous, ver>>

\* Mutant: no reboot follows the installation.
EnableUnitsOnly ==
  /\ At("enable")
  /\ Exit(Installer, "idle")
  /\ UNCHANGED appliance

\* daemon-reload, enable, sync; the lock is released and a reboot asked for.
EnableUnits ==
  /\ At("enable")
  /\ Goto(Installer, "reboot")
  /\ UNCHANGED <<appliance, idx, previous, ver>>

-----------------------------------------------------------------------------
(* Exceptions.                                                             *)

\* Disk full, I/O error: before the try block nothing is undone.
AbortPreparation ==
  /\ pc[Installer] \in PreparePcs
  /\ Exit(Installer, "idle")
  /\ UNCHANGED appliance

\* Mutant: a failed installation drops its marker and restores nothing.
ForgetInstallation ==
  /\ pc[Installer] \in TryPcs
  /\ Goto(Installer, "runmark")
  /\ UNCHANGED <<appliance, idx, previous, ver>>

\* except Exception: restore_backup(layout)
FailInstallation ==
  /\ pc[Installer] \in TryPcs
  /\ Goto(Installer, "load")
  /\ UNCHANGED <<appliance, idx, previous, ver>>

\* A rename finds its target occupied, a move its bundle gone.
InstallationBlocked ==
  \/ At("outdir") /\ root[Item] # None /\ backup[Item] # None
  \/ At("indir") /\ root[Item] # None
  \/ At("move") /\ pending = None

\* After restore_backup, with or without a rollback: start, then raise.
StartServicesAndRaise ==
  /\ pc[Installer] \in ReturnPcs
  /\ svc' = TRUE
  /\ Exit(Installer, "idle")
  /\ UNCHANGED disk

\* restore_backup raises in the except clause: the services stay stopped.
FailInstallerRestore ==
  /\ pc[Installer] \in RestorePcs
  /\ Exit(Installer, "idle")
  /\ UNCHANGED appliance

\* Everything but restore_backup and the marker, which OtaAppliance adds.
InstallerStep ==
  \/ StartInstaller \/ RejectBundle \/ VerifyBundle
  \/ ClearSomeRollback \/ ClearRollback
  \/ BackUpFile \/ WriteMetadata
  \/ StopServices \/ MoveDirectoryOut \/ MoveDirectoryIn
  \/ OpenNewFile \/ WriteNewFile
  \/ MoveBundle \/ MarkPendingHealth \/ EnableUnits
  \/ StartServicesAndRaise
  \/ (InstallationBlocked /\ FailInstallation)
  \/ (CopyVanished(Installer) /\ FailInstallerRestore)
=============================================================================
