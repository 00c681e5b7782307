----------------------------- MODULE OtaInvariant -----------------------------
(***************************************************************************)
(* The inductive invariants behind the safety properties of OtaAppliance.  *)
(* None of the properties is inductive by itself: that a rollback ends in  *)
(* the release accepted last depends on which process is where (Exclusion),*)
(* on what the rollback directory holds during a trial (RollbackComplete)  *)
(* and on how far each loop over the managed items has come (the others).  *)
(***************************************************************************)
EXTENDS OtaAppliance

InPc(label) == pc[Installer] = label
HcPc(label) == pc[Health] = label

-----------------------------------------------------------------------------
(* Types, with the ranges of the loop variables.                           *)

IndexOK ==
  /\ pc[Installer] \in {"outdir", "indir"} => idx[Installer] \in Dirs
  /\ pc[Installer] \in {"backup", "open", "write"} => idx[Installer] \in Files
  /\ \A p \in Procs :
       /\ pc[p] \in {"rdir", "rmdir"} => idx[p] \in Dirs
       /\ pc[p] \in {"rfile", "wfile"} => idx[p] \in Files

JudgeOK ==
  /\ pc[Health] \in {"check", "unmark"} => ver[Health] \in Releases
  /\ pc[Health] = "check" => attempt < Attempts

TypeInv == TypeOK /\ IndexOK /\ JudgeOK

\* What the installer works with has passed verify_bundle.
Verified ==
  /\ OnlyVerified
  /\ ver[Installer] \in Installable \union {None}

-----------------------------------------------------------------------------
(* The environments in which an update is atomic: power does not fail      *)
(* between the marker and the move of the bundle, restore_backup does not  *)
(* raise in the installer, bundles do not overlap with a trial, and, if a  *)
(* rollback can be interrupted, no mixture of releases passes the check.   *)

Careful ==
  /\ Overlaps = {}
  /\ "apply" \notin CrashIn
  /\ "restore" \notin RaiseIn
  /\ Tolerant => "restore" \notin CrashIn /\ "health" \notin RaiseIn

ApplyPcs == {"stop", "outdir", "indir", "open", "write", "move"}
AfterPcs == {"ready", "enable", "reboot"}

\* Who works when, and what the marker and the pending bundle say of it.
Exclusion ==
  /\ pc[Installer] \in PreparePcs =>
       ~UnderTrial /\ pending # None /\ pc[Health] \in {"boot", "done"}
  /\ pc[Installer] \in ApplyPcs =>
       UnderTrial /\ pending # None /\ pc[Health] = "done"
  /\ pc[Installer] \in AfterPcs =>
       UnderTrial /\ pending = None /\ pc[Health] = "done"
  /\ pc[Installer] \in RestorePcs => UnderTrial /\ pc[Health] = "done"
  /\ pc[Installer] \in ReturnPcs =>
       pc[Installer] = "restored" /\ ~UnderTrial /\ pc[Health] = "done"
  /\ pc[Health] \in {"check", "unmark"} \union RestorePcs =>
       UnderTrial /\ pending = None /\ pc[Installer] = "idle"
  /\ pc[Health] \in {"discard", "restored", "start", "reboot"} =>
       ~UnderTrial /\ pending = None /\ pc[Installer] = "idle"
  /\ pc[Health] \notin {"norollback", "startonly"}
  /\ pc[Installer] = "idle" /\ UnderTrial => pending = None

\* Without a trial the appliance is one whole release.
Settled == ~UnderTrial => root = Uniform(good)

\* During a trial every item of the release accepted last can be restored.
RollbackComplete ==
  UnderTrial =>
    /\ meta.version # None
    /\ \A f \in Files : f \in meta.previous /\ backup[f] = good
    /\ \A d \in Dirs : \/ backup[d] = good
                       \/ backup[d] = None /\ root[d] = good

\* The copies made so far, and the metadata that will list them.
BackupProgress ==
  /\ pc[Installer] \in {"clear", "backup", "meta", "mark"} \union ApplyPcs
                       \union AfterPcs =>
       ver[Installer] \in Releases
  /\ pc[Installer] \in {"backup", "meta", "mark", "stop"} =>
       \A d \in Dirs : backup[d] = None
  /\ InPc("backup") =>
       \A f \in Files : f < idx[Installer] =>
         f \in previous[Installer] /\ backup[f] = good
  /\ InPc("meta") =>
       \A f \in Files : f \in previous[Installer] /\ backup[f] = good
  /\ InPc("mark") =>
       /\ meta.version # None
       /\ \A f \in Files : f \in meta.previous /\ backup[f] = good

\* The items below the loop variable are new, those above untouched.
InstallProgress ==
  /\ pc[Installer] \in ApplyPcs \union AfterPcs =>
       marker.version = ver[Installer]
  /\ InPc("stop") => root = Uniform(good)
  /\ pc[Installer] \in {"outdir", "indir", "open", "write"} =>
       \A i \in Items : i < idx[Installer] => root[i] = ver[Installer]
  /\ pc[Installer] \in {"outdir", "indir"} =>
       \A d \in Dirs : d > idx[Installer] =>
         root[d] = good /\ backup[d] = None
  /\ InPc("outdir") =>
       root[idx[Installer]] = good /\ backup[idx[Installer]] = None
  /\ InPc("indir") => root[idx[Installer]] = None
  /\ pc[Installer] \in {"move"} \union AfterPcs => root = Uniform(ver[Installer])

\* The items below the loop variable are the old ones again.
RestoreProgress ==
  \A p \in Procs :
    /\ pc[p] \in {"rdir", "rmdir", "rfile", "wfile"} =>
         /\ Files \subseteq previous[p]
         /\ \A i \in Items : i < idx[p] => root[i] = good
    /\ pc[p] = "rmdir" => backup[idx[p]] = good
    /\ pc[p] = "runmark" => root = Uniform(good)

\* What the health check looks at is all of the release on trial, unless an
\* earlier rollback was cut short (and then no mixture passes the check).
JudgedWhole ==
  /\ pc[Health] \in {"check", "unmark"} => ver[Health] = marker.version
  /\ HcPc("unmark") => root = Uniform(ver[Health])
  /\ /\ Tolerant
     /\ UnderTrial
     /\ pc[Installer] = "idle"
     /\ pc[Health] \in {"boot", "done", "check", "unmark"}
     => root = Uniform(marker.version)

Inv ==
  /\ Exclusion
  /\ Settled
  /\ RollbackComplete
  /\ BackupProgress
  /\ InstallProgress
  /\ RestoreProgress
  /\ JudgedWhole

-----------------------------------------------------------------------------
(* The result on the disk.                                                 *)

\* A rollback is followed by its result: the check is not stopped, and power
\* does not fail, in between.
Prompt == "verdict" \notin CrashIn /\ "health" \notin RaiseIn

\* A release reported as accepted is the one accepted last, or the one on
\* trial, whose check was cut short, or has just been taken back.
Reported ==
  /\ HcPc("unmark") => report = [version |-> Judged, status |-> "accepted"]
  /\ report.status = "accepted" =>
       \/ report.version = good
       \/ UnderTrial /\ InPc("idle") /\ report.version = marker.version
       \/ HcPc("restored")
=============================================================================
