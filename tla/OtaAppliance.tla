----------------------------- MODULE OtaAppliance -----------------------------
(***************************************************************************)
(* The update machinery of one appliance: the installer and the boot       *)
(* health check on their shared disk, the controller that delivers         *)
(* bundles, reboots, power losses and failing system calls.                *)
(*                                                                         *)
(* The constants below say which of these the environment does, so that a  *)
(* configuration asks one question at a time.                              *)
(***************************************************************************)
EXTENDS UpdateInstaller, UpdateHealth

CONSTANTS
  CrashIn,   \* where power may fail: "apply", "restore", "verdict", "elsewhere"
  RaiseIn,   \* what may raise: "prepare", "apply", "restore", "health"
  Overlaps,  \* "push": a bundle may arrive before the last one is judged;
             \* "boot": the installer may mark an update before the boot
             \* health check has looked for a marker
  MaxFaults  \* bound on power losses and exceptions together

ASSUME EnvironmentAssumption ==
  /\ CrashIn \subseteq {"apply", "restore", "verdict", "elsewhere"}
  /\ RaiseIn \subseteq {"prepare", "apply", "restore", "health"}
  /\ Overlaps \subseteq {"push", "boot"}
  /\ MaxFaults \in Nat

VARIABLES
  good,   \* history: the release accepted last
  faults  \* how many faults have happened

vars == <<appliance, locals, attempt, good, faults>>

\* The loop variable may be one past the last item.
Indices == 1 .. NumItems + 1

ProcessTypeOK ==
  /\ pc \in [Procs -> InstallerPcs \union HealthPcs]
  /\ pc[Installer] \in InstallerPcs
  /\ pc[Health] \in HealthPcs
  /\ idx \in [Procs -> Indices]
  /\ previous \in [Procs -> SUBSET Files]
  /\ ver \in [Procs -> MaybeRelease]

TypeOK ==
  /\ ApplianceTypeOK
  /\ ProcessTypeOK
  /\ attempt \in 0 .. Attempts
  /\ good \in Releases
  /\ faults \in 0 .. MaxFaults

FirstPc == [p \in Procs |-> IF p = Installer THEN "idle" ELSE "boot"]

Init ==
  /\ ApplianceInit
  /\ pc = FirstPc
  /\ idx = [p \in Procs |-> 1]
  /\ previous = [p \in Procs |-> {}]
  /\ ver = [p \in Procs |-> None]
  /\ attempt = 0
  /\ good = Factory
  /\ faults = 0

-----------------------------------------------------------------------------
(* The controller, as the rest of the machinery sees it: _run of ota.py    *)
(* refuses while a bundle is pending, and renames a complete download.     *)

DeliverBundle(r) ==
  /\ svc
  /\ pending = None
  /\ "push" \in Overlaps \/ (pc[Health] = "done" /\ ~UnderTrial)
  /\ pending' = r
  /\ UNCHANGED <<root, backup, meta, marker, report, svc,
                 locals, attempt, good, faults>>

-----------------------------------------------------------------------------
(* Processes.                                                              *)

Restore(p) ==
  /\ RestoreStep(p)
  /\ UNCHANGED <<attempt, good, faults>>

Install ==
  /\ \/ InstallerStep
     \/ WriteMarker /\ ("boot" \in Overlaps \/ pc[Health] # "boot")
  /\ UNCHANGED <<attempt, good, faults>>

CheckHealth ==
  /\ HealthStep
  /\ good' = IF pc[Health] = "unmark" THEN Judged ELSE good
  /\ UNCHANGED faults

-----------------------------------------------------------------------------
(* Restarts: every process dies, the disk stays, systemd starts again.     *)

Boot ==
  /\ pc' = FirstPc
  /\ idx' = [p \in Procs |-> 1]
  /\ previous' = [p \in Procs |-> {}]
  /\ ver' = [p \in Procs |-> None]
  /\ attempt' = 0
  /\ svc' = TRUE
  /\ UNCHANGED <<disk, good>>

\* The reboot that the installer or the health check has asked for.
Reboot ==
  /\ \E p \in Procs : pc[p] = "reboot"
  /\ Boot
  /\ UNCHANGED faults

Fault ==
  /\ faults < MaxFaults
  /\ faults' = faults + 1

\* An update is marked and its bundle not yet out of the way: half applied,
\* or being restored by the installer.  A rollback is under way.  A rollback
\* is done, its marker gone, and the verdict not yet on the disk.
HalfApplied == UnderTrial /\ pending # None
HalfRestored == UnderTrial /\ \E p \in Procs : pc[p] \in RestorePcs
Unreported   == pc[Health] = "restored"

Window ==
  CASE HalfApplied -> "apply"
    [] ~HalfApplied /\ HalfRestored -> "restore"
    [] ~HalfApplied /\ ~HalfRestored /\ Unreported -> "verdict"
    [] OTHER -> "elsewhere"

PowerLoss ==
  /\ Window \in CrashIn
  /\ Fault
  /\ Boot

Raise ==
  /\ Fault
  /\ UNCHANGED good
  /\ \/ "prepare" \in RaiseIn /\ AbortPreparation /\ UNCHANGED attempt
     \/ "apply" \in RaiseIn /\ FailInstallation /\ UNCHANGED attempt
     \/ "restore" \in RaiseIn /\ FailInstallerRestore /\ UNCHANGED attempt
     \/ "health" \in RaiseIn /\ StopHealthCheck

Next ==
  \/ \E r \in Releases : DeliverBundle(r)
  \/ \E p \in Procs : Restore(p)
  \/ Install
  \/ CheckHealth
  \/ Reboot
  \/ PowerLoss
  \/ Raise

Spec == Init /\ [][Next]_vars

\* The two services run until they end, and a requested reboot happens;
\* nobody has to publish a release.
FairSpec ==
  /\ Spec
  /\ \A p \in Procs : WF_vars(Restore(p))
  /\ WF_vars(Install)
  /\ WF_vars(CheckHealth)
  /\ WF_vars(Reboot)

-----------------------------------------------------------------------------
(* Safety.                                                                 *)

\* At every step of an installation and of a rollback, with no update on
\* trial or with one, the image the appliance is bound to is one whole
\* release, the one accepted last (apply_pending, restore_backup).
CommittedImage == Committed = Uniform(good)

\* The previous release is kept until the next one is accepted: each of its
\* items is on the root filesystem or in the rollback (OTA.md:33).
PreviousKept == \A i \in Items : good \in {root[i], backup[i]}

\* When the health check reports a rollback, the root filesystem holds
\* exactly the release accepted before (OTA.md:11-12).
RollbackExact ==
  pc[Health] \in {"restored", "start"} => root = Uniform(good)

\* When the health check reports success, every managed item comes from the
\* release it judged, and not only the version file it looked at.
AcceptedComplete ==
  pc[Health] = "unmark" => root = Uniform(Judged)

\* If the result written last says that a release was accepted, then, once no
\* trial is open, the root filesystem holds that release and no other: a check
\* that power loss cuts short between its result and the removal of the marker
\* may still end in a rollback, which then has to say so
\* (update_health.py:71-102).
ReportTrue ==
  report.status = "accepted" /\ ~UnderTrial /\ pc[Health] # "restored" =>
    root = Uniform(report.version)

\* The health check takes no lock, and yet never works while the installer
\* is between its marker and its reboot.
NeverTogether ==
  ~ /\ pc[Health] \in CheckPcs \union RestorePcs \union ReturnPcs
    /\ pc[Installer] \in TryPcs \union RestorePcs \union ReturnPcs

\* Whatever fails, only content of bundles that verify_bundle has passed
\* gets into the appliance or its rollback.
OnlyVerified ==
  \A i \in Items :
    {root[i], backup[i]} \subseteq Installable \union {None, Torn}

-----------------------------------------------------------------------------
(* The abstract specification and liveness.                                *)

Atomic ==
  INSTANCE AtomicUpdate WITH image <- Committed, trial <- marker.version

\* The files implement AtomicUpdate: a release goes on trial, is committed
\* whole or given up, and no step in between changes the committed image.
Implements == Atomic!Spec

\* A trial ends: the new release is accepted or the old one restored.
TrialEnds == UnderTrial ~> ~UnderTrial

\* The durable result tells of every trial the health check has begun: the
\* release was accepted and runs, or it was rolled back (OTA.md:44-46).
VerdictTold ==
  \A r \in Releases :
    pc[Health] = "boot" /\ marker.version = r ~>
      /\ ~UnderTrial
      /\ report.version = r
      /\ good = r \/ report.status = "rolled_back"

\* A delivered bundle does not stay pending, where it would make the
\* controller refuse every later release.
PendingConsumed == pending # None ~> pending = None
=============================================================================
