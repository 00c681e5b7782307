---------------------------- MODULE RestoreBackup ----------------------------
(***************************************************************************)
(* restore_backup of update_installer.py, the code that puts the previous  *)
(* release back.  Two processes run it: the installer, when an             *)
(* installation raises, and the boot health check, when the new release    *)
(* does not pass.  Every step below is one filesystem change, so that a    *)
(* power loss and the other process can come between any two.              *)
(***************************************************************************)
EXTENDS Appliance

VARIABLES
  pc,        \* where each process is
  idx,       \* the item its loop is at
  previous,  \* its list of previous_files
  ver        \* the version it installs or judges

locals == <<pc, idx, previous, ver>>

Procs == {"installer", "health"}

RestorePcs == {"load", "rdir", "rmdir", "rfile", "wfile", "runmark"}
\* restore_backup has returned True, or False for want of metadata.
ReturnPcs == {"restored", "norollback"}

Goto(p, to) == pc' = [pc EXCEPT ![p] = to]
Advance(p)  == idx' = [idx EXCEPT ![p] = @ + 1]

\* A process ends: its locals are gone.
Exit(p, to) ==
  /\ Goto(p, to)
  /\ idx' = [idx EXCEPT ![p] = 1]
  /\ previous' = [previous EXCEPT ![p] = {}]
  /\ ver' = [ver EXCEPT ![p] = None]

AfterDirectory(p) == IF idx[p] = NumDirs THEN "rfile" ELSE "rdir"
AfterFile(p)      == IF idx[p] = NumItems THEN "runmark" ELSE "rfile"

\* Mutant: the list of previous files is not read.
LoadMetadataWithoutFiles(p) ==
  /\ pc[p] = "load"
  /\ meta.version # None
  /\ Goto(p, "rdir")
  /\ idx' = [idx EXCEPT ![p] = 1]
  /\ UNCHANGED <<appliance, previous, ver>>

\* Mutant: the marker goes first, not last.
LoadMetadataAndUnmark(p) ==
  /\ pc[p] = "load"
  /\ meta.version # None
  /\ Goto(p, "rdir")
  /\ idx' = [idx EXCEPT ![p] = 1]
  /\ previous' = [previous EXCEPT ![p] = meta.previous]
  /\ marker' = NoMarker
  /\ UNCHANGED <<root, backup, meta, pending, report, svc, ver>>

LoadMetadata(p) ==
  /\ pc[p] = "load"
  /\ IF meta.version = None
       THEN /\ Goto(p, "norollback")
            /\ UNCHANGED <<idx, previous>>
       ELSE /\ Goto(p, "rdir")
            /\ idx' = [idx EXCEPT ![p] = 1]
            /\ previous' = [previous EXCEPT ![p] = meta.previous]
  /\ UNCHANGED <<appliance, ver>>

\* Mutant: a directory that is in place is taken for the previous one.
ChooseMissingDirectory(p) ==
  /\ pc[p] = "rdir"
  /\ IF backup[idx[p]] = None \/ root[idx[p]] \notin {None, Torn}
       THEN Goto(p, AfterDirectory(p)) /\ Advance(p)
       ELSE Goto(p, "rmdir") /\ UNCHANGED idx
  /\ UNCHANGED <<appliance, previous, ver>>

\* backup.exists(): a directory with no copy in the rollback is left alone.
ChooseDirectory(p) ==
  /\ pc[p] = "rdir"
  /\ IF backup[idx[p]] = None
       THEN Goto(p, AfterDirectory(p)) /\ Advance(p)
       ELSE Goto(p, "rmdir") /\ UNCHANGED idx
  /\ UNCHANGED <<appliance, previous, ver>>

\* _remove_path of the installed directory, which may stop half way.
RemoveDirectory(p) ==
  /\ pc[p] = "rmdir"
  /\ root[idx[p]] # None
  /\ \E c \in {Torn, None} \ {root[idx[p]]} :
       root' = [root EXCEPT ![idx[p]] = c]
  /\ UNCHANGED <<backup, meta, marker, pending, report, svc, locals>>

\* os.replace(backup, destination): the copy moves out of the rollback.
PutDirectory(p) ==
  /\ pc[p] = "rmdir"
  /\ root[idx[p]] = None
  /\ backup[idx[p]] # None
  /\ root' = [root EXCEPT ![idx[p]] = backup[idx[p]]]
  /\ backup' = [backup EXCEPT ![idx[p]] = None]
  /\ Goto(p, AfterDirectory(p))
  /\ Advance(p)
  /\ UNCHANGED <<meta, marker, pending, report, svc, previous, ver>>

\* copy2 truncates its destination before it fills it; a file the previous
\* release did not have is removed.
OpenFile(p) ==
  /\ pc[p] = "rfile"
  /\ IF idx[p] \in previous[p] /\ backup[idx[p]] # None
       THEN /\ root' = [root EXCEPT ![idx[p]] = Torn]
            /\ Goto(p, "wfile")
            /\ UNCHANGED idx
       ELSE /\ root' = [root EXCEPT ![idx[p]] = None]
            /\ Goto(p, AfterFile(p))
            /\ Advance(p)
  /\ UNCHANGED <<backup, meta, marker, pending, report, svc, previous, ver>>

WriteFile(p) ==
  /\ pc[p] = "wfile"
  /\ root' = [root EXCEPT ![idx[p]] = backup[idx[p]]]
  /\ Goto(p, AfterFile(p))
  /\ Advance(p)
  /\ UNCHANGED <<backup, meta, marker, pending, report, svc, previous, ver>>

UnlinkMarker(p) ==
  /\ pc[p] = "runmark"
  /\ marker' = NoMarker
  /\ Goto(p, "restored")
  /\ UNCHANGED <<root, backup, meta, pending, report, svc,
                 idx, previous, ver>>

\* os.replace finds that the other process has taken the copy away.
CopyVanished(p) ==
  /\ pc[p] = "rmdir"
  /\ root[idx[p]] = None
  /\ backup[idx[p]] = None

RestoreStep(p) ==
  \/ LoadMetadata(p)
  \/ ChooseDirectory(p)
  \/ RemoveDirectory(p)
  \/ PutDirectory(p)
  \/ OpenFile(p)
  \/ WriteFile(p)
  \/ UnlinkMarker(p)
=============================================================================
