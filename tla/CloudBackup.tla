----------------------------- MODULE CloudBackup -----------------------------
(***************************************************************************)
(* scripts/memorybridge_cloud_backup.py: a daily root job that has Qdrant  *)
(* make a snapshot of a source collection, copies it to cloud storage,     *)
(* verifies the copy, writes its sidecar, points latest.json to it and     *)
(* only then deletes the snapshot from Qdrant.  A file lock keeps a second *)
(* run out.  The cloud drive may store something else than it was sent.    *)
(***************************************************************************)
EXTENDS QdrantSnapshots

CONSTANT RemoteKeep  \* REMOTE_KEEP = max(1, ...)

ASSUME BackupAssumption == RemoteKeep \in Nat \ {0}

VARIABLES
    remote,    \* remote[n]: the copy of snapshot n
    sidecars,  \* snapshots whose .sha256 is in the cloud
    pointer,   \* the snapshot of latest.json, 0 without one
    bpc,       \* where the run is
    bnum,      \* the snapshot it made
    bdoomed    \* remote snapshots it has still to remove

cloud == <<remote, sidecars, pointer>>
backup == <<cloud, bpc, bnum, bdoomed>>

InitBackup ==
    /\ remote = [n \in 1..MaxSnapshots |-> "absent"]
    /\ sidecars = {} /\ pointer = 0
    /\ bpc = "idle" /\ bnum = 0 /\ bdoomed = {}

Copies == {n \in 1..MaxSnapshots : remote[n] # "absent"}

\* The run goes on at l; the locals of one that ends are gone.
BackupGoto(l) == bpc' = l /\ bnum' = IF l = "idle" THEN 0 ELSE bnum

-----------------------------------------------------------------------------
(* backup_collection *)

StartBackup ==
    /\ bpc = "idle"
    /\ CreateSnapshot
    /\ bnum' = Len(taken) + 1
    /\ bpc' = "download"
    /\ UNCHANGED <<live, faults, cloud, bdoomed>>

\* Mutant: the snapshot is deleted once it was downloaded.
DownloadToStage_Deletes ==
    /\ bpc = "download"
    /\ snaps' = snaps \ {bnum}
    /\ BackupGoto(IF bnum \in snaps THEN "upload" ELSE "idle")
    /\ UNCHANGED <<live, taken, faults, cloud, bdoomed>>

\* The download is refused when an archiver has pruned the snapshot.
DownloadToStage ==
    /\ bpc = "download"
    /\ BackupGoto(IF bnum \in snaps THEN "upload" ELSE "idle")
    /\ UNCHANGED <<live, taken, snaps, faults, cloud, bdoomed>>

\* The copy is uploaded as .part and moved to its name.
UploadCopy ==
    /\ bpc = "upload"
    /\ \/ remote' = [remote EXCEPT ![bnum] = "whole"] /\ UNCHANGED faults
       \/ remote' = [remote EXCEPT ![bnum] = "torn"] /\ Faulty
    /\ BackupGoto("verify")
    /\ UNCHANGED <<live, taken, snaps, sidecars, pointer, bdoomed>>

\* Mutant: the exit status of the upload is trusted.
VerifyCopy_Trusts ==
    /\ bpc = "verify"
    /\ BackupGoto("sidecar")
    /\ UNCHANGED <<live, taken, snaps, faults, cloud, bdoomed>>

\* sha256sum is run on the copy.
VerifyCopy ==
    /\ bpc = "verify"
    /\ BackupGoto(IF remote[bnum] = "whole" THEN "sidecar" ELSE "idle")
    /\ UNCHANGED <<live, taken, snaps, faults, cloud, bdoomed>>

WriteSidecar ==
    /\ bpc = "sidecar"
    /\ sidecars' = sidecars \cup {bnum}
    /\ BackupGoto("pointer")
    /\ UNCHANGED <<live, taken, snaps, faults, remote, pointer, bdoomed>>

WritePointer ==
    /\ bpc = "pointer"
    /\ pointer' = bnum
    /\ BackupGoto("delete")
    /\ UNCHANGED <<live, taken, snaps, faults, remote, sidecars, bdoomed>>

\* Deleting a snapshot that is gone is an error: the run fails.
DeleteSnapshot ==
    /\ bpc = "delete"
    /\ snaps' = snaps \ {bnum}
    /\ BackupGoto(IF bnum \in snaps THEN "list" ELSE "idle")
    /\ UNCHANGED <<live, taken, faults, cloud, bdoomed>>

-----------------------------------------------------------------------------
(* prune_remote_snapshots: the copies' mtimes have the order of the runs *)

Outdated == Copies \ Newest(Copies, RemoteKeep)

ListCopies ==
    /\ bpc = "list"
    /\ bdoomed' = Outdated
    /\ BackupGoto("prune")
    /\ UNCHANGED <<live, taken, snaps, faults, cloud>>

\* A copy is removed, latest first; when that fails, it is left with its sidecar.
RemoveCopy(n) ==
    /\ bpc = "prune"
    /\ IsLatest(n, bdoomed)
    /\ \/ /\ remote' = [remote EXCEPT ![n] = "absent"]
          /\ BackupGoto("rm sidecar")
          /\ UNCHANGED <<faults, bdoomed>>
       \/ /\ Faulty
          /\ bdoomed' = bdoomed \ {n}
          /\ UNCHANGED <<remote, bpc, bnum>>
    /\ UNCHANGED <<live, taken, snaps, sidecars, pointer>>

\* Mutant: retention leaves the sidecars.
RemoveSidecar_Kept(n) ==
    /\ bpc = "rm sidecar"
    /\ IsLatest(n, bdoomed)
    /\ bdoomed' = bdoomed \ {n}
    /\ BackupGoto("prune")
    /\ UNCHANGED <<live, taken, snaps, faults, cloud>>

\* Its sidecar follows, or stays behind for ever.
RemoveSidecar(n) ==
    /\ bpc = "rm sidecar"
    /\ IsLatest(n, bdoomed)
    /\ \/ sidecars' = sidecars \ {n} /\ UNCHANGED faults
       \/ UNCHANGED sidecars /\ Faulty
    /\ bdoomed' = bdoomed \ {n}
    /\ BackupGoto("prune")
    /\ UNCHANGED <<live, taken, snaps, remote, pointer>>

EndBackup ==
    /\ bpc = "prune" /\ bdoomed = {}
    /\ BackupGoto("idle")
    /\ UNCHANGED <<live, taken, snaps, faults, cloud, bdoomed>>

\* A call raises or times out, or the process is killed; the snapshot stays.
BackupFails ==
    /\ bpc # "idle"
    /\ Faulty
    /\ BackupGoto("idle") /\ bdoomed' = {}
    /\ UNCHANGED <<live, taken, snaps, cloud>>

BackupNext ==
    \/ StartBackup \/ DownloadToStage \/ UploadCopy \/ VerifyCopy \/ WriteSidecar
    \/ WritePointer \/ DeleteSnapshot \/ ListCopies \/ EndBackup
    \/ BackupFails
    \/ \E n \in bdoomed : RemoveCopy(n) \/ RemoveSidecar(n)

-----------------------------------------------------------------------------
BackupTypeOK ==
    /\ remote \in [1..MaxSnapshots -> {"absent", "whole", "torn"}]
    /\ sidecars \subseteq Numbers
    /\ pointer \in Numbers \cup {0}
    /\ bpc \in {"idle", "download", "upload", "verify", "sidecar", "pointer", "delete",
                "list", "prune", "rm sidecar"}
    /\ bnum \in Numbers \cup {0}
    /\ bdoomed \subseteq Numbers

\* A copy a restore can rely on.
Proven(n) == remote[n] = "whole" /\ n \in sidecars

\* latest.json, once there, always names a copy that was verified and has its
\* sidecar, through failed runs, torn uploads and retention
\* (memorybridge_cloud_backup.py:316-350, 246-279).
PointerProven == pointer # 0 => Proven(pointer)
=============================================================================
