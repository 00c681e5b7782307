----------------------------- MODULE OtaProgress -----------------------------
(***************************************************************************)
(* How far a trial of OtaAppliance is from its verdict: the safety half of *)
(* TrialEnds.  A trial goes through stages, loops over the items in some   *)
(* of them, and takes a few filesystem changes for an item.  The three     *)
(* numbers of TrialRank count what is left of each.                        *)
(***************************************************************************)
EXTENDS OtaInvariant, Lexicographic

RestoreStage == [load |-> 4, rdir |-> 3, rmdir |-> 3, rfile |-> 2, wfile |-> 2,
                 runmark |-> 1]

\* One more try of the installation is the farthest from the verdict.
InstallerStage(label) ==
  CASE label \in RestorePcs         -> 20 + RestoreStage[label]
    [] label = "stop"               -> 37
    [] label \in {"outdir", "indir"} -> 36
    [] label \in {"open", "write"}  -> 35
    [] label = "move"               -> 34
    [] label = "ready"              -> 33
    [] label = "enable"             -> 32
    [] label = "reboot"             -> 12
    [] OTHER                        -> 40

HealthStage(label) ==
  CASE label \in RestorePcs -> RestoreStage[label]
    [] label = "boot"       -> 11
    [] label = "check"      -> 10
    [] label = "unmark"     -> 1
    [] OTHER                -> 0

Worker == IF InPc("idle") THEN Health ELSE Installer

Stage == IF InPc("idle") THEN HealthStage(pc[Health])
                         ELSE InstallerStage(pc[Installer])

\* Probes or items, the one at hand included.
Left == IF pc[Worker] = "check" THEN Attempts - attempt
                                ELSE NumItems + 1 - idx[Worker]

\* What is left to do to the item at hand; a removed directory may have been
\* half removed.
Changes ==
  CASE pc[Worker] = "rdir" -> 3
    [] pc[Worker] = "rmdir" -> IF root[idx[Worker]] = None THEN 0
                               ELSE IF root[idx[Worker]] = Torn THEN 1 ELSE 2
    [] pc[Worker] \in {"outdir", "open", "rfile"} -> 1
    [] OTHER -> 0

TrialRank == <<Stage, Left, Changes>>

\* As long as a trial is open and nothing fails, each step of either process
\* and each reboot brings the verdict nearer: the appliance does not reboot
\* into the same installation again, and no probe or item is done twice
\* (apply_pending, run_health_check).
TrialNearsVerdict ==
  [][UnderTrial /\ UnderTrial' /\ faults' = faults =>
       Falls(TrialRank', TrialRank)]_vars
=============================================================================
