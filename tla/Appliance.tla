------------------------------ MODULE Appliance ------------------------------
(***************************************************************************)
(* The part of a SAT1 appliance that an over-the-air update touches: the   *)
(* managed directories and files of the root filesystem, the rollback      *)
(* directory, the health marker, the pending bundle and the last verdict   *)
(* (all of which survive a power loss), and whether the voice services are *)
(* running (which does not).  `Layout` in update_installer.py names these  *)
(* paths; the installer and the boot health check share them.              *)
(***************************************************************************)
EXTENDS Integers, FiniteSets

CONSTANTS
  Releases,     \* release versions; a version identifies its payload
  Installable,  \* the releases whose bundle passes verify_bundle
  Factory,      \* the release flashed on the card
  NumDirs,      \* how many directories are managed
  NumFiles,     \* how many files are managed
  VersionFile,  \* the managed file that holds the appliance version
  None,         \* no file, no bundle, no version
  Torn          \* a file or directory that is only partly there

ASSUME ApplianceAssumption ==
  /\ Installable \subseteq Releases
  /\ Factory \in Installable
  /\ NumDirs \in Nat \ {0}
  /\ NumFiles \in Nat \ {0}
  /\ VersionFile \in NumDirs + 1 .. NumDirs + NumFiles
  /\ None \notin Releases
  /\ Torn \notin Releases
  /\ None # Torn

(***************************************************************************)
(* Items are numbered in the order in which the code visits them:          *)
(* managed_directories first, then managed_files.                          *)
(***************************************************************************)
NumItems == NumDirs + NumFiles
Items    == 1 .. NumItems
Dirs     == 1 .. NumDirs
Files    == NumDirs + 1 .. NumItems

Content      == Releases \union {None, Torn}
MaybeRelease == Releases \union {None}

\* The whole appliance taken from the payload of release r.
Uniform(r) == [i \in Items |-> r]
Empty      == [i \in Items |-> None]

\* The metadata.json of the rollback directory; version None: no such file.
NoMeta  == [version |-> None, previous |-> {}]
\* The health marker; nothing on the device reads its phase.
NoMarker == [version |-> None, phase |-> "none"]
NoReport == [version |-> None, status |-> "none"]

VARIABLES
  root,     \* what each managed item of the root filesystem holds
  backup,   \* what the rollback directory holds for each item
  meta,     \* the rollback metadata
  marker,   \* health-pending.json
  pending,  \* the release in pending.sat1-ota
  report,   \* the verdict written last (last-success or last-failure.json)
  svc       \* the voice services are running

disk      == <<root, backup, meta, marker, pending, report>>
rollback  == <<backup, meta>>
appliance == <<disk, svc>>

ApplianceTypeOK ==
  /\ root \in [Items -> Content]
  /\ backup \in [Items -> Content]
  /\ meta \in [version : MaybeRelease, previous : SUBSET Files]
  /\ marker \in [version : MaybeRelease,
                 phase : {"none", "applying", "pending_health"}]
  /\ pending \in MaybeRelease
  /\ report \in [version : MaybeRelease,
                 status : {"none", "accepted", "rolled_back",
                           "rollback_unavailable"}]
  /\ svc \in BOOLEAN

ApplianceInit ==
  /\ root = Uniform(Factory)
  /\ backup = Empty
  /\ meta = NoMeta
  /\ marker = NoMarker
  /\ pending = None
  /\ report = NoReport
  /\ svc = TRUE

UnderTrial == marker.version # None

(***************************************************************************)
(* What restore_backup would leave on the root filesystem if it ran now    *)
(* and nothing disturbed it.                                               *)
(***************************************************************************)
Recovered ==
  [i \in Items |->
     CASE i \in Dirs /\ backup[i] # None -> backup[i]
       [] i \in Dirs /\ backup[i] = None -> root[i]
       [] i \in Files /\ i \in meta.previous /\ backup[i] # None -> backup[i]
       [] i \in Files /\ ~(i \in meta.previous /\ backup[i] # None) -> None]

\* What the appliance is bound to: its image or, during a trial, its rollback.
Committed == IF UnderTrial THEN Recovered ELSE root

(***************************************************************************)
(* Deleting the rollback directory entry by entry: shutil.rmtree is not    *)
(* atomic, and a step here removes any part of what is left, of a copied   *)
(* directory too.                                                          *)
(***************************************************************************)
RemoveSomeRollback ==
  \E gone \in SUBSET Items, torn \in SUBSET Dirs, m \in {NoMeta, meta} :
    /\ \A d \in torn : backup[d] # None
    /\ backup' = [i \in Items |-> CASE i \in gone -> None
                                   [] i \in torn \ gone -> Torn
                                   [] OTHER -> backup[i]]
    /\ meta' = m
    /\ <<backup, meta>>' # <<backup, meta>>
    /\ UNCHANGED <<root, marker, pending, report, svc>>

RemoveAllRollback ==
  /\ backup' = Empty
  /\ meta' = NoMeta
  /\ UNCHANGED <<root, marker, pending, report, svc>>
=============================================================================
