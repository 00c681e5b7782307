----------------------------- MODULE UpdateHealth -----------------------------
(***************************************************************************)
(* run_health_check of update_health.py, run once per boot by              *)
(* tater-sat1-update-health.service.  It takes no lock and reads of the    *)
(* marker the version alone: it accepts the release on trial or restores   *)
(* the rollback.                                                           *)
(***************************************************************************)
EXTENDS RestoreBackup

CONSTANTS
  Attempts,  \* how often the health is probed before the release is refused
  Tolerated  \* what services can come up on, besides one whole release:
             \* "mixture": whole items of two releases,
             \* "torn": items half written or half removed as well

ASSUME HealthAssumption ==
  /\ Attempts \in Nat \ {0}
  /\ Tolerated \subseteq {"mixture", "torn"}

Tolerant == Tolerated # {}

VARIABLE attempt  \* the probes that have failed

Health == "health"

CheckPcs == {"check", "unmark", "discard"}
HealthPcs ==
  {"boot", "start", "startonly", "reboot", "done"}
  \union CheckPcs \union RestorePcs \union ReturnPcs

Judged == ver[Health]

\* appliance_healthy can return True: the version file holds the expected
\* version and every service is active.  It says nothing of the other items,
\* on which it depends whether a service can be active; one whose program
\* directory is gone cannot.
CanBeHealthy ==
  /\ root[VersionFile] = Judged
  /\ svc
  /\ \A d \in Dirs : root[d] # None
  /\ \/ root = Uniform(Judged)
     \/ "mixture" \in Tolerated /\ \A i \in Items : root[i] # Torn
     \/ "torn" \in Tolerated

\* ConditionPathExists of the unit, and the same test in the code.
NothingPending ==
  /\ pc[Health] = "boot"
  /\ ~UnderTrial
  /\ Goto(Health, "done")
  /\ UNCHANGED <<appliance, idx, previous, ver, attempt>>

StartHealthCheck ==
  /\ pc[Health] = "boot"
  /\ UnderTrial
  /\ ver' = [ver EXCEPT ![Health] = marker.version]
  /\ attempt' = 0
  /\ Goto(Health, "check")
  /\ UNCHANGED <<appliance, idx, previous>>

\* Mutant: the probes are not counted.
ProbeAgain ==
  /\ pc[Health] = "check"
  /\ UNCHANGED <<appliance, locals, attempt>>

\* A failing probe, the last of which leads to restore_backup.
ProbeFails ==
  /\ pc[Health] = "check"
  /\ attempt' = attempt + 1
  /\ Goto(Health, IF attempt + 1 < Attempts THEN "check" ELSE "load")
  /\ UNCHANGED <<appliance, idx, previous, ver>>

\* A passing probe; the verdict is written before anything is removed.
Accept ==
  /\ pc[Health] = "check"
  /\ CanBeHealthy
  /\ report' = [version |-> Judged, status |-> "accepted"]
  /\ Goto(Health, "unmark")
  /\ UNCHANGED <<root, backup, meta, marker, pending, svc,
                 idx, previous, ver, attempt>>

Unmark ==
  /\ pc[Health] = "unmark"
  /\ marker' = NoMarker
  /\ Goto(Health, "discard")
  /\ UNCHANGED <<root, backup, meta, pending, report, svc,
                 idx, previous, ver, attempt>>

DiscardSomeRollback ==
  /\ pc[Health] = "discard"
  /\ RemoveSomeRollback
  /\ UNCHANGED <<locals, attempt>>

DiscardRollback ==
  /\ pc[Health] = "discard"
  /\ RemoveAllRollback
  /\ Exit(Health, "done")
  /\ attempt' = 0

\* Mutant: only a rollback that did not happen is reported.
ReportUnavailableOnly ==
  /\ pc[Health] \in ReturnPcs
  /\ report' = IF pc[Health] = "restored" THEN report
               ELSE [version |-> Judged, status |-> "rollback_unavailable"]
  /\ Goto(Health, IF pc[Health] = "restored" THEN "start" ELSE "startonly")
  /\ UNCHANGED <<root, backup, meta, marker, pending, svc,
                 idx, previous, ver, attempt>>

ReportFailure ==
  /\ pc[Health] \in ReturnPcs
  /\ report' = [version |-> Judged,
                status |-> IF pc[Health] = "restored" THEN "rolled_back"
                           ELSE "rollback_unavailable"]
  /\ Goto(Health, IF pc[Health] = "restored" THEN "start" ELSE "startonly")
  /\ UNCHANGED <<root, backup, meta, marker, pending, svc,
                 idx, previous, ver, attempt>>

\* The services start again; only a restored appliance reboots.
StartServices ==
  /\ pc[Health] \in {"start", "startonly"}
  /\ svc' = TRUE
  /\ Exit(Health, IF pc[Health] = "start" THEN "reboot" ELSE "done")
  /\ attempt' = 0
  /\ UNCHANGED disk

\* An exception, or systemd's TimeoutStartSec: the check ends where it is.
StopHealthCheck ==
  /\ pc[Health] \notin {"boot", "done", "reboot"}
  /\ Exit(Health, "done")
  /\ attempt' = 0
  /\ UNCHANGED appliance

\* Everything but restore_backup, which OtaAppliance adds.
HealthStep ==
  \/ NothingPending \/ StartHealthCheck
  \/ ProbeFails \/ Accept
  \/ Unmark
  \/ DiscardSomeRollback \/ DiscardRollback
  \/ ReportFailure \/ StartServices
  \/ (CopyVanished(Health) /\ StopHealthCheck)
=============================================================================
