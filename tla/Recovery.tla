------------------------------ MODULE Recovery ------------------------------
(***************************************************************************)
(* The two ways MemoryBridge keeps a source collection recoverable, at     *)
(* work on one Qdrant: the archiver with restore_latest, which prunes      *)
(* whatever snapshots Qdrant holds, and the cloud backup, whose snapshot   *)
(* may be among them; and the server that writes the collection.           *)
(***************************************************************************)
EXTENDS Archive, CloudBackup

vars == <<qdrant, archive, backup>>

Init == InitSnapshots /\ InitArchive /\ InitBackup

ServerNext == (EnsureCollection \/ \E i \in Ids : Put(i)) /\ UNCHANGED <<archive, backup>>

\* All of them lose power; Qdrant and the cloud have their own durability.
PowerLoss ==
    /\ Faulty
    /\ LosePower
    /\ BackupGoto("idle") /\ bdoomed' = {}
    /\ UNCHANGED <<live, taken, snaps, cloud>>

Next ==
    \/ ServerNext
    \/ ArchiveNext /\ UNCHANGED backup
    \/ BackupNext /\ UNCHANGED archive
    \/ PowerLoss

Spec == Init /\ [][Next]_vars

-----------------------------------------------------------------------------
(* Properties *)

\* Every variable holds what the code may put there.
TypeOK == SnapshotsTypeOK /\ ArchiveTypeOK /\ BackupTypeOK

\* ARCHITECTURE.md:26: snapshots are recoverable.  Once an archive was reported
\* as verified, restore_latest finds it or a later one, whole, in every state
\* after it: during prunes, after kills, after a power loss.  Two archivers at
\* once are excepted: mtimes then do not follow the snapshots, and one prunes
\* what the other has not flushed.
LatestRecoverable ==
    ~overlapped /\ reported # {} =>
        \E n \in Manifests : /\ Later(n) = {} /\ Verified(n)
                             /\ \A m \in reported : m <= n

\* snapshot.py:163-166: the snapshot and the portable export of an archive
\* describe the same point in time, whatever the server writes meanwhile.
OnePointInTime == \A n \in Manifests : portable[n] = taken[n]

\* A restore that reports success has brought back what the archive had, and
\* nothing else: a put in between makes it raise (snapshot.py:287-294).
RestoredIsArchived ==
    [][rpc # "restored" /\ rpc' = "restored" => live' = taken[rnum']]_vars

\* memorybridge_cloud_backup.py:6-8: a snapshot leaves Qdrant after its copy,
\* checksum, sidecar and pointer are there, or because the archiver prunes.
CopiedBeforeDeleted ==
    [][\A n \in snaps \ snaps' :
           (Proven(n) /\ pointer = n) \/ \E a \in Archivers : pc[a] = "prune"]_vars
=============================================================================
