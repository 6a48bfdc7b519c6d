------------------------------- MODULE Archive -------------------------------
(***************************************************************************)
(* SnapshotManager (memorybridge/snapshot.py): create_archive downloads a  *)
(* Qdrant snapshot, proves that it restores, exports it, publishes a       *)
(* manifest and prunes; restore_latest brings the latest archive back.     *)
(*                                                                         *)
(* The worker, and an operator's snapshot-create, archive while the server *)
(* writes; an operator restores.  Calls fail, processes are killed, power  *)
(* is lost: of the changes to the archive's directory since its last fsync *)
(* any may survive, and a file whose bytes were not flushed may be torn.   *)
(***************************************************************************)
EXTENDS QdrantSnapshots

CONSTANTS
    Archivers,  \* processes that run create_archive
    Retention   \* keep = max(1, snapshot_retention)

ASSUME ArchiveAssumption == Retention \in Nat \ {0}

VARIABLES
    dir,         \* entries of the archive's directory
    disk,        \* those that a power loss leaves
    torn,        \* entries whose bytes were lost
    portable,    \* portable[n]: records of n's export, fingerprinted in its manifest
    order,       \* manifests in the order of their mtimes
    pc,          \* where an archiver is
    num,         \* num[a]: the snapshot it archives
    doomed,      \* doomed[a]: manifests its prune has still to remove
    reported,    \* archives reported as verified
    overlapped,  \* whether two create_archive ever ran at once
    rpc,         \* where the restore is
    rnum,        \* the archive it restores
    forced       \* --force

files == <<dir, disk, torn>>
archiving == <<pc, num, doomed, reported, overlapped>>
restoring == <<rpc, rnum, forced>>
archive == <<files, portable, order, archiving, restoring>>
qdrant == <<live, taken, snaps, faults>>

Entries == {"snapshot", "export", "manifest"} \X (Nat \ {0})
Intact(n) == {<<k, n>> : k \in {"snapshot", "export"}} \subseteq dir \ torn
Manifests == {n \in Numbers : <<"manifest", n>> \in dir}

\* Archiver a goes on at l; the locals of a call that ends are gone.
Goto(a, l) ==
    /\ pc' = [pc EXCEPT ![a] = l]
    /\ num' = IF l = "idle" THEN [num EXCEPT ![a] = 0] ELSE num

InitArchive ==
    /\ dir = {} /\ disk = {} /\ torn = {}
    /\ portable = [n \in 1..MaxSnapshots |-> None] /\ order = <<>>
    /\ pc = [a \in Archivers |-> "idle"]
    /\ num = [a \in Archivers |-> 0]
    /\ doomed = [a \in Archivers |-> {}]
    /\ reported = {} /\ overlapped = FALSE
    /\ rpc = "idle" /\ rnum = 0 /\ forced = FALSE

-----------------------------------------------------------------------------
(* create_archive *)

\* The collection exists: Qdrant makes a snapshot of it.
StartArchive(a) ==
    /\ pc[a] = "idle"
    /\ CreateSnapshot
    /\ num' = [num EXCEPT ![a] = Len(taken) + 1]
    /\ overlapped' = (overlapped \/ \E b \in Archivers \ {a} : pc[b] # "idle")
    /\ pc' = [pc EXCEPT ![a] = "download"]
    /\ UNCHANGED <<live, faults, files, portable, order, doomed, reported, restoring>>

\* Archiver a, at label l, names file k of its archive, whole but not yet there
\* for good.
Place(a, k) == dir' = dir \cup {<<k, num[a]>>} /\ UNCHANGED <<disk, torn>>

\* The download is flushed before it is renamed.  It is refused when another
\* archiver has pruned the snapshot.
Download(a) ==
    /\ pc[a] = "download"
    /\ IF num[a] \in snaps
       THEN Place(a, "snapshot") /\ Goto(a, "sync snapshot")
       ELSE UNCHANGED files /\ Goto(a, "idle")
    /\ UNCHANGED <<qdrant, portable, order, doomed, reported, overlapped, restoring>>

After == [l \in {"sync snapshot", "sync export", "sync manifest"} |->
            CASE l = "sync snapshot" -> "drill"
              [] l = "sync export" -> "stamp"
              [] l = "sync manifest" -> "verify"]

\* fsync of the file just renamed and of the directory.
Sync(a) ==
    /\ pc[a] \in DOMAIN After
    /\ disk' = dir
    /\ Goto(a, After[pc[a]])
    /\ UNCHANGED <<qdrant, dir, torn, portable, order, doomed, reported, overlapped, restoring>>

\* Mutant: the export reads the live collection.
Drill_Live(a) ==
    /\ pc[a] = "drill"
    /\ live # None
    /\ portable' = [portable EXCEPT ![num[a]] = live]
    /\ Place(a, "export")
    /\ Goto(a, "sync export")
    /\ UNCHANGED <<qdrant, order, doomed, reported, overlapped, restoring>>

\* The file is restored into a collection of its own, fingerprinted, exported.
Drill(a) ==
    /\ pc[a] = "drill"
    /\ portable' = [portable EXCEPT ![num[a]] = taken[num[a]]]
    /\ Place(a, "export")
    /\ Goto(a, "sync export")
    /\ UNCHANGED <<qdrant, order, doomed, reported, overlapped, restoring>>

\* The manifest is written under a temporary name and flushed: its mtime.
Stamp(a) ==
    /\ pc[a] = "stamp"
    /\ order' = Append(order, num[a])
    /\ Goto(a, "publish")
    /\ UNCHANGED <<qdrant, files, portable, doomed, reported, overlapped, restoring>>

\* Mutant: the new manifest's name is not flushed before others are pruned.
Publish_NotSynced(a) ==
    /\ pc[a] = "publish"
    /\ Place(a, "manifest")
    /\ Goto(a, "verify")
    /\ UNCHANGED <<qdrant, portable, order, doomed, reported, overlapped, restoring>>

Publish(a) ==
    /\ pc[a] = "publish"
    /\ Place(a, "manifest")
    /\ Goto(a, "sync manifest")
    /\ UNCHANGED <<qdrant, portable, order, doomed, reported, overlapped, restoring>>

\* verify_manifest: the manifest can be read, and both files have its hashes.
Verified(n) == <<"manifest", n>> \in dir \ torn /\ Intact(n)

VerifyArchive(a) ==
    /\ pc[a] = "verify"
    /\ Goto(a, IF Verified(num[a]) THEN "list" ELSE "idle")
    /\ UNCHANGED <<qdrant, files, portable, order, doomed, reported, overlapped, restoring>>

-----------------------------------------------------------------------------
(* _prune *)

Mtime(n) == CHOOSE i \in 1..Len(order) : order[i] = n
Later(n) == {m \in Manifests : Mtime(m) > Mtime(n)}

\* manifests[keep:], latest first.
Beyond == {n \in Manifests : Cardinality(Later(n)) >= Retention}

List(a) ==
    /\ pc[a] = "list"
    /\ doomed' = [doomed EXCEPT ![a] = Beyond]
    /\ Goto(a, "prune")
    /\ UNCHANGED <<qdrant, files, portable, order, reported, overlapped, restoring>>

\* Another prune unlinks a manifest between glob and stat: the sort raises.
ListRaises(a) ==
    /\ pc[a] = "list"
    /\ \E b \in Archivers \ {a} : pc[b] = "prune" /\ doomed[b] # {}
    /\ Goto(a, "idle")
    /\ UNCHANGED <<qdrant, files, portable, order, doomed, reported, overlapped, restoring>>

\* The archives go one by one, latest first: snapshot, export, manifest.
Doomed(a, n) == n \in doomed[a] /\ \A m \in doomed[a] : Mtime(m) <= Mtime(n)

Removed(n) ==
    IF <<"snapshot", n>> \in dir THEN "snapshot"
    ELSE IF <<"export", n>> \in dir THEN "export" ELSE "manifest"

Unlink(a, n) ==
    /\ pc[a] = "prune"
    /\ Doomed(a, n)
    /\ <<"manifest", n>> \in dir \ torn
    /\ dir' = dir \ {<<Removed(n), n>>}
    /\ IF Removed(n) = "manifest" THEN Goto(a, "sync prune") ELSE UNCHANGED <<pc, num>>
    /\ UNCHANGED <<qdrant, disk, torn, portable, order, doomed, reported, overlapped, restoring>>

\* The directory is flushed after each archive.
SyncPrune(a) ==
    /\ pc[a] = "sync prune"
    /\ disk' = dir
    /\ Goto(a, "prune")
    /\ UNCHANGED <<qdrant, dir, torn, portable, order, doomed, reported, overlapped, restoring>>

\* A manifest that is gone or cannot be read is left alone; so is the rest of
\* an archive after an unlink that fails.
Skip(a, n) ==
    /\ pc[a] = "prune"
    /\ Doomed(a, n)
    /\ \/ <<"manifest", n>> \notin dir \ torn /\ UNCHANGED faults
       \/ Faulty
    /\ doomed' = [doomed EXCEPT ![a] = @ \ {n}]
    /\ UNCHANGED <<live, taken, snaps, files, portable, order, pc, num, reported, overlapped, restoring>>

\* Qdrant's snapshots beyond keep are deleted, whoever made them, until a call
\* fails; then create_archive returns.
PruneQdrant(a) ==
    /\ pc[a] = "prune" /\ doomed[a] = {}
    /\ \E S \in SUBSET (snaps \ Newest(snaps, Retention)) :
           snaps' = snaps \ S /\ (S # snaps \ Newest(snaps, Retention) => Faulty)
                              /\ (S = snaps \ Newest(snaps, Retention) => UNCHANGED faults)
    /\ reported' = reported \cup {num[a]}
    /\ Goto(a, "idle")
    /\ UNCHANGED <<live, taken, files, portable, order, doomed, overlapped, restoring>>

\* A call or a check raises, or the process is killed: systemd starts it again.
ArchiveFails(a) ==
    /\ pc[a] # "idle"
    /\ Faulty
    /\ Goto(a, "idle")
    /\ doomed' = [doomed EXCEPT ![a] = {}]
    /\ UNCHANGED <<live, taken, snaps, files, portable, order, reported, overlapped, restoring>>

-----------------------------------------------------------------------------
(* restore_latest *)

\* latest_manifest: the manifest with the latest mtime.
StartRestore ==
    /\ rpc \in {"idle", "restored"}
    /\ \E n \in Manifests : Later(n) = {} /\ rnum' = n
    /\ forced' \in BOOLEAN
    /\ rpc' = "verify"
    /\ UNCHANGED <<qdrant, files, portable, order, archiving>>

\* An operator's call that ends keeps nothing.
RestoreGoto(l) ==
    /\ rpc' = l
    /\ rnum' = IF l = "idle" THEN 0 ELSE rnum
    /\ forced' = (forced /\ l # "idle")

VerifyBefore ==
    /\ rpc = "verify"
    /\ RestoreGoto(IF Verified(rnum) THEN "exists" ELSE "idle")
    /\ UNCHANGED <<qdrant, files, portable, order, archiving>>

\* A collection that exists is refused, unless --force is given.
CheckExists ==
    /\ rpc = "exists"
    /\ RestoreGoto(IF live = None THEN "upload" ELSE IF forced THEN "delete" ELSE "idle")
    /\ UNCHANGED <<qdrant, files, portable, order, archiving>>

DeleteCollection ==
    /\ rpc = "delete"
    /\ live' = None
    /\ RestoreGoto("upload")
    /\ UNCHANGED <<taken, snaps, faults, files, portable, order, archiving>>

\* The snapshot replaces whatever the collection holds by now; the upload
\* raises when the file was pruned since.
Upload ==
    /\ rpc = "upload"
    /\ IF <<"snapshot", rnum>> \in dir \ torn
       THEN live' = taken[rnum] /\ RestoreGoto("check")
       ELSE UNCHANGED live /\ RestoreGoto("idle")
    /\ UNCHANGED <<taken, snaps, faults, files, portable, order, archiving>>

\* Mutant: fewer records are a mismatch, more are not.
CheckRestored_Missing ==
    /\ rpc = "check"
    /\ RestoreGoto(IF live # None /\ portable[rnum] \subseteq live THEN "restored" ELSE "idle")
    /\ UNCHANGED <<qdrant, files, portable, order, archiving>>

\* The collection's fingerprint is compared with the manifest's.
CheckRestored ==
    /\ rpc = "check"
    /\ RestoreGoto(IF live = portable[rnum] THEN "restored" ELSE "idle")
    /\ UNCHANGED <<qdrant, files, portable, order, archiving>>

RestoreFails ==
    /\ rpc \notin {"idle", "restored"}
    /\ Faulty
    /\ RestoreGoto("idle")
    /\ UNCHANGED <<live, taken, snaps, files, portable, order, archiving>>

-----------------------------------------------------------------------------
\* Files that were renamed before their bytes were flushed: exports.
Unflushed == {<<"export", num[a]>> : a \in {b \in Archivers : pc[b] = "sync export"}}

\* Power is lost: D is what the directory holds afterwards.
LosePower ==
    /\ \E D \in SUBSET (dir \cup disk), T \in SUBSET Unflushed :
        /\ dir \cap disk \subseteq D
        /\ dir' = D /\ disk' = D
        /\ torn' = torn \cup T
    /\ pc' = [a \in Archivers |-> "idle"]
    /\ num' = [a \in Archivers |-> 0]
    /\ doomed' = [a \in Archivers |-> {}]
    /\ RestoreGoto("idle")
    /\ UNCHANGED <<portable, order, reported, overlapped>>

Archiving(a) ==
    \/ StartArchive(a) \/ Download(a) \/ Sync(a) \/ Drill(a) \/ Stamp(a) \/ Publish(a)
    \/ VerifyArchive(a) \/ List(a) \/ ListRaises(a)
    \/ \E n \in doomed[a] : Unlink(a, n) \/ Skip(a, n)
    \/ SyncPrune(a) \/ PruneQdrant(a) \/ ArchiveFails(a)

Restoring ==
    \/ StartRestore \/ VerifyBefore \/ CheckExists \/ DeleteCollection \/ Upload
    \/ CheckRestored \/ RestoreFails

ArchiveNext == (\E a \in Archivers : Archiving(a)) \/ Restoring

Labels == {"idle", "download", "drill", "stamp", "publish", "verify", "list", "prune",
           "sync prune"} \cup DOMAIN After

ArchiveTypeOK ==
    /\ dir \cup disk \cup torn \subseteq Entries
    /\ portable \in [1..MaxSnapshots -> Contents \cup {None}]
    /\ order \in Seq(Numbers)
    /\ pc \in [Archivers -> Labels]
    /\ num \in [Archivers -> Numbers \cup {0}]
    /\ doomed \in [Archivers -> SUBSET Numbers]
    /\ reported \subseteq Numbers /\ overlapped \in BOOLEAN
    /\ rpc \in {"idle", "verify", "exists", "delete", "upload", "check", "restored"}
    /\ rnum \in Numbers \cup {0} /\ forced \in BOOLEAN
=============================================================================
