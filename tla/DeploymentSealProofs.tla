------------------------- MODULE DeploymentSealProofs -------------------------
(***************************************************************************)
(* TLAPS proofs about DeploymentSeal, for any number of seals, snapshots,  *)
(* backups, failures and rotten copies: what SEALED says of the archive,   *)
(* of the restored collection and of what is left behind.                  *)
(***************************************************************************)
EXTENDS DeploymentSeal, FiniteSetTheorems, TLAPS

Stages == {"new", "pointer", "list", "list sidecars", "latest", "items", "probe",
           "exists", "upload", "read", "clean", "confirm", "SEALED", "NOT_SEALED"}

-----------------------------------------------------------------------------
(* The directory of the cloud backup *)

\* The run's snapshot has no copy before its upload, and copies are of snapshots.
Fresh ==
    /\ Len(taken) <= MaxSnapshots
    /\ Copies \subseteq Numbers
    /\ bpc # "idle" => bnum \in Numbers
    /\ bpc \in {"download", "upload"} => remote[bnum] = "absent"

Upstream == SnapshotsTypeOK /\ BackupTypeOK /\ Fresh

\* Snapshots whose copy, once it is gone, does not come (again).
Fixed == {n \in Numbers : bpc \in {"download", "upload"} => bnum # n}

\* What a step does not do to old snapshots and their copies.
Older ==
    /\ Numbers \subseteq Numbers'
    /\ \A n \in Numbers : taken'[n] = taken[n]
    /\ Fixed \subseteq Fixed'
    /\ \A n \in Fixed : remote[n] # "whole" => remote'[n] \in {remote[n], "absent"}

LEMMA UpstreamInit == InitSnapshots /\ InitBackup => Upstream
BY SnapshotsAssumption
   DEF InitSnapshots, InitBackup, Upstream, SnapshotsTypeOK, BackupTypeOK, Fresh, Copies,
       Contents, Numbers

LEMMA Bounds ==
    ASSUME Upstream
    PROVE  Len(taken) \in Nat /\ MaxSnapshots \in Nat /\ Numbers \subseteq 1..MaxSnapshots
<1>1. Len(taken) \in Nat /\ MaxSnapshots \in Nat
  BY SnapshotsAssumption DEF Upstream, SnapshotsTypeOK
<1>2. QED
  BY <1>1 DEF Upstream, Fresh, Numbers

\* A snapshot is appended; the numbers before it keep theirs.
LEMMA SnapshotTaken ==
    ASSUME Upstream, CreateSnapshot
    PROVE  /\ taken' \in Seq(Contents)
           /\ Len(taken') = Len(taken) + 1 /\ Len(taken') <= MaxSnapshots
           /\ \A n \in Numbers : taken'[n] = taken[n]
<1>1. live \in Contents /\ taken \in Seq(Contents) /\ Len(taken) \in Nat /\ MaxSnapshots \in Nat
  BY Bounds DEF Upstream, SnapshotsTypeOK, CreateSnapshot
<1>2. taken' = Append(taken, live) /\ Len(taken) < MaxSnapshots
  BY DEF CreateSnapshot
<1>3. taken' \in Seq(Contents) /\ Len(taken') = Len(taken) + 1
  BY <1>1, <1>2
<1>4. ASSUME NEW n \in Numbers PROVE taken'[n] = taken[n]
  <2>1. n \in 1..Len(taken)
    BY DEF Numbers
  <2>2. QED
    BY <1>1, <1>2, <2>1
<1>5. Len(taken') <= MaxSnapshots
  BY <1>1, <1>2, <1>3
<1>6. QED
  BY <1>3, <1>4, <1>5

LEMMA BackupKeeps == ASSUME Upstream, BackupNext PROVE Upstream' /\ Older
<1>0. Len(taken) \in Nat /\ MaxSnapshots \in Nat /\ Numbers \subseteq 1..MaxSnapshots /\ faults \in Nat
  BY Bounds DEF Upstream, SnapshotsTypeOK
<1>f. Faulty => faults' \in Nat
  BY <1>0 DEF Faulty
<1>1. CASE StartBackup
  <2>1. /\ taken' \in Seq(Contents) /\ Len(taken') = Len(taken) + 1 /\ Len(taken') <= MaxSnapshots
        /\ \A n \in Numbers : taken'[n] = taken[n]
    BY <1>1, SnapshotTaken DEF StartBackup
  <2>2. Numbers' = Numbers \cup {Len(taken) + 1} /\ Len(taken) + 1 \notin Numbers
    BY <1>0, <2>1 DEF Numbers
  <2>3. UNCHANGED <<live, faults, remote, sidecars, pointer, bdoomed>>
    BY <1>1 DEF StartBackup, cloud
  <2>4. bnum' = Len(taken) + 1 /\ bpc' = "download" /\ snaps' = snaps \cup {Len(taken) + 1}
        /\ bpc = "idle"
    BY <1>1 DEF StartBackup, CreateSnapshot
  <2>5. SnapshotsTypeOK'
    BY <2>1, <2>2, <2>3, <2>4 DEF Upstream, SnapshotsTypeOK, Contents
  <2>6. BackupTypeOK'
    BY <2>2, <2>3, <2>4 DEF Upstream, BackupTypeOK
  <2>7. remote[bnum'] = "absent"
    <3>1. bnum' \in 1..MaxSnapshots /\ bnum' \notin Copies
      BY <1>0, <2>1, <2>2, <2>4 DEF Upstream, Fresh
    <3>2. QED
      BY <3>1 DEF Copies
  <2>8. Fresh'
    BY <2>1, <2>2, <2>3, <2>4, <2>7 DEF Upstream, Fresh, Copies
  <2>9. Older
    BY <2>1, <2>2, <2>3, <2>4 DEF Older, Fixed
  <2>10. QED
    BY <2>5, <2>6, <2>8, <2>9 DEF Upstream
<1>2. ASSUME UNCHANGED <<live, taken>>, faults' \in Nat, snaps' \subseteq snaps,
             BackupTypeOK', Fresh', bpc' \in {"download", "upload"} => bpc # "idle" /\ bnum' = bnum /\ bpc \in {"download", "upload"},
             \A n \in Fixed : remote[n] # "whole" => remote'[n] \in {remote[n], "absent"}
      PROVE  Upstream' /\ Older
  <2>1. Numbers' = Numbers
    BY <1>2 DEF Numbers
  <2>2. SnapshotsTypeOK'
    BY <1>2, <2>1 DEF Upstream, SnapshotsTypeOK, Contents
  <2>3. Older
    BY <1>2, <2>1 DEF Older, Fixed
  <2>4. QED
    BY <1>2, <2>2, <2>3 DEF Upstream
<1>n. bnum \in Numbers \cup {0} /\ (bpc # "idle" => bnum \in Numbers)
  BY DEF Upstream, BackupTypeOK, Fresh
<1>3. CASE DownloadToStage
  BY <1>0, <1>2, <1>3, <1>n DEF DownloadToStage, BackupGoto, cloud, Upstream, BackupTypeOK, Fresh, Copies, Numbers
<1>4. CASE UploadCopy
  <2>1. remote' \in [1..MaxSnapshots -> {"absent", "whole", "torn"}]
    BY <1>4 DEF UploadCopy, Upstream, BackupTypeOK
  <2>2. /\ UNCHANGED <<live, taken, snaps, sidecars, pointer, bdoomed, bnum>>
        /\ bpc = "upload" /\ bpc' = "verify" /\ faults' \in Nat
    BY <1>0, <1>4 DEF UploadCopy, BackupGoto, Faulty
  <2>3. \A n \in 1..MaxSnapshots : n # bnum => remote'[n] = remote[n]
    BY <1>4 DEF UploadCopy, Upstream, BackupTypeOK
  <2>4. BackupTypeOK'
    BY <2>1, <2>2 DEF Upstream, BackupTypeOK, Numbers
  <2>5. Fresh'
    BY <1>n, <2>2, <2>3 DEF Upstream, Fresh, Copies, Numbers
  <2>6. QED
    BY <1>0, <1>2, <2>2, <2>3, <2>4, <2>5 DEF Fixed
<1>5. CASE VerifyCopy
  BY <1>0, <1>2, <1>5, <1>n DEF VerifyCopy, BackupGoto, cloud, Upstream, BackupTypeOK, Fresh, Copies, Numbers
<1>6. CASE WriteSidecar
  BY <1>0, <1>2, <1>6, <1>n DEF WriteSidecar, BackupGoto, Upstream, BackupTypeOK, Fresh, Copies, Numbers
<1>7. CASE WritePointer
  BY <1>0, <1>2, <1>7, <1>n DEF WritePointer, BackupGoto, Upstream, BackupTypeOK, Fresh, Copies, Numbers
<1>8. CASE DeleteSnapshot
  BY <1>0, <1>2, <1>8, <1>n DEF DeleteSnapshot, BackupGoto, cloud, Upstream, BackupTypeOK, Fresh, Copies, Numbers
<1>9. CASE ListCopies
  <2>1. Outdated \subseteq Numbers
    BY DEF Outdated, Upstream, Fresh
  <2>2. QED
    BY <1>0, <1>2, <1>9, <1>n, <2>1 DEF ListCopies, BackupGoto, cloud, Upstream, BackupTypeOK, Fresh, Copies, Numbers
<1>10. CASE EndBackup
  BY <1>0, <1>2, <1>10, <1>n DEF EndBackup, BackupGoto, cloud, Upstream, BackupTypeOK, Fresh, Copies, Numbers
<1>11. CASE BackupFails
  <2>1. /\ UNCHANGED <<live, taken, snaps, remote, sidecars, pointer>>
        /\ bpc' = "idle" /\ bnum' = 0 /\ bdoomed' = {} /\ faults' \in Nat
    BY <1>f, <1>11 DEF BackupFails, BackupGoto, cloud
  <2>2. BackupTypeOK' /\ Fresh'
    BY <2>1 DEF Upstream, BackupTypeOK, Fresh, Copies, Numbers
  <2>3. QED
    BY <1>2, <2>1, <2>2
<1>12. ASSUME NEW n \in bdoomed, RemoveCopy(n) PROVE Upstream' /\ Older
  <2>1. /\ UNCHANGED <<live, taken, snaps, sidecars, pointer, bnum>>
        /\ bpc = "prune" /\ bpc' \in {"prune", "rm sidecar"} /\ faults' \in Nat
        /\ bdoomed' \subseteq bdoomed
    BY <1>0, <1>f, <1>12 DEF RemoveCopy, BackupGoto
  <2>2. /\ remote' \in [1..MaxSnapshots -> {"absent", "whole", "torn"}]
        /\ \A i \in 1..MaxSnapshots : remote'[i] \in {remote[i], "absent"}
    BY <1>12 DEF RemoveCopy, Upstream, BackupTypeOK
  <2>3. BackupTypeOK'
    BY <2>1, <2>2 DEF Upstream, BackupTypeOK, Numbers
  <2>4. Fresh'
    BY <2>1, <2>2 DEF Upstream, Fresh, Copies, Numbers
  <2>5. QED
    BY <1>0, <1>2, <2>1, <2>2, <2>3, <2>4 DEF Fixed
<1>13. ASSUME NEW n \in bdoomed, RemoveSidecar(n) PROVE Upstream' /\ Older
  <2>1. /\ UNCHANGED <<live, taken, snaps, remote, pointer, bnum>>
        /\ bpc = "rm sidecar" /\ bpc' = "prune" /\ faults' \in Nat
        /\ bdoomed' \subseteq bdoomed /\ sidecars' \subseteq sidecars
    BY <1>0, <1>f, <1>13 DEF RemoveSidecar, BackupGoto
  <2>2. BackupTypeOK' /\ Fresh'
    BY <2>1 DEF Upstream, BackupTypeOK, Fresh, Copies, Numbers
  <2>3. QED
    BY <1>2, <2>1, <2>2
<1>14. QED
  BY <1>1, <1>3, <1>4, <1>5, <1>6, <1>7, <1>8, <1>9, <1>10, <1>11, <1>12, <1>13 DEF BackupNext

-----------------------------------------------------------------------------
(* The seals *)

SealTypes ==
    /\ drills \in [Targets -> Contents \cup {None, Foreign}]
    /\ \A p \in Seals : drills[p] \in Contents \cup {None}
    /\ late \subseteq Targets \X Contents
    /\ spc \in [Seals -> Stages]
    /\ mode \in [Seals -> Modes] /\ full \in [Seals -> BOOLEAN]
    /\ latest \in [Seals -> Numbers \cup {0}]
    /\ listed \in [Seals -> SUBSET Numbers] /\ beside \in [Seals -> SUBSET Numbers]
    /\ left \in [Seals -> SUBSET Numbers]
    /\ ok \in [Seals -> BOOLEAN] /\ digest \in [Seals -> {"absent", "whole", "torn"}]
    /\ probed \in [Seals -> BOOLEAN]
    /\ target \in [Seals -> Targets] /\ \A p \in Seals : target[p] \in {p, Named}
    /\ restored \in [Seals -> Contents \cup {None}]
    /\ torn \in [Seals -> SUBSET Numbers] /\ crossed \in [Seals -> BOOLEAN]

\* A copy that was torn at the start is gone, or still to be looked at, or was
\* found, or is not hashed with --latest-only.
Looked(p) ==
    /\ torn[p] \subseteq Fixed /\ \A n \in torn[p] : remote[n] # "whole"
    /\ spc[p] \notin {"new", "pointer", "list", "NOT_SEALED"} =>
          \A n \in torn[p] : \/ remote[n] = "absent" \/ ~ok[p] \/ n \in left[p]
                             \/ ~full[p] /\ n # latest[p]
    /\ spc[p] \notin {"list sidecars", "latest", "items", "NOT_SEALED"} => left[p] = {}
    /\ spc[p] = "SEALED" => ok[p]

\* Without an error so far, the latest copy was hashed and was whole.
Hashed(p) ==
    /\ spc[p] \in {"list", "list sidecars", "latest"} => latest[p] \in Numbers
    /\ spc[p] \in {"new", "pointer", "list", "list sidecars", "latest"} => digest[p] = "absent"
    /\ digest[p] # "absent" => latest[p] \in Numbers
    /\ spc[p] \notin {"new", "pointer", "list", "list sidecars", "latest", "NOT_SEALED"} =>
          (ok[p] => digest[p] = "whole")
    /\ spc[p] \in {"upload", "read"} => digest[p] # "absent"

Ended == {"clean", "confirm", "SEALED", "NOT_SEALED"}

\* What was restored is what was uploaded, and no late upload follows it.
Restores(p) ==
    /\ spc[p] \notin Ended => restored[p] = None
    /\ restored[p] # None => digest[p] # "absent"
    /\ spc[p] \notin Ended \/ restored[p] # None => \A u \in late : u[1] # p
    /\ target[p] = p /\ ok[p] /\ spc[p] = "read" => drills[p] = taken[latest[p]]
    /\ target[p] = p /\ ok[p] /\ restored[p] # None => restored[p] = taken[latest[p]]
    /\ spc[p] = "SEALED" /\ mode[p] = "deployment" =>
          restored[p] # None /\ (target[p] = p => drills[p] = None)

\* Who writes the named collection has found that it did not exist.
Spared ==
    /\ \A p \in Seals : target[p] = Named /\ spc[p] \in {"upload", "read", "clean"} =>
          drills[Named] # Foreign
    /\ \A u \in late : u[1] = Named => drills[Named] # Foreign

IInv == /\ Upstream /\ SealTypes /\ Spared
        /\ \A p \in Seals : Looked(p) /\ Hashed(p) /\ Restores(p)

LEMMA IInvInit == Init => IInv
<1> SUFFICES ASSUME Init PROVE IInv
  OBVIOUS
<1>1. Upstream
  BY UpstreamInit DEF Init
<1>2. SealTypes
  BY SealAssumption DEF Init, SealTypes, Targets, Modes, Stages
<1>3. Spared
  BY DEF Init, Spared
<1>4. \A p \in Seals : Looked(p) /\ Hashed(p) /\ Restores(p)
  BY DEF Init, Looked, Hashed, Restores, Ended
<1>5. QED
  BY <1>1, <1>2, <1>3, <1>4 DEF IInv

\* The backup, the server and the cloud leave the seals what they know.
LEMMA Alone ==
    ASSUME IInv, Upstream', Older, crossed' \in [Seals -> BOOLEAN],
           UNCHANGED <<drill, spc, verdict, archive, probed, target, restored>>
    PROVE  IInv'
<1>1. UNCHANGED <<drills, late, spc, mode, full, torn, latest, listed, beside, left, ok,
                  digest, probed, target, restored>>
  BY DEF drill, verdict, archive
<1>2. Numbers \subseteq Numbers'
  BY DEF Older
<1>3. SealTypes'
  <2>1. /\ latest \in [Seals -> Numbers' \cup {0}]
        /\ listed \in [Seals -> SUBSET Numbers'] /\ beside \in [Seals -> SUBSET Numbers']
        /\ left \in [Seals -> SUBSET Numbers'] /\ torn \in [Seals -> SUBSET Numbers']
    BY <1>2 DEF IInv, SealTypes
  <2>2. QED
    BY <1>1, <2>1 DEF IInv, SealTypes, Contents
<1>4. Spared'
  BY <1>1 DEF IInv, Spared
<1>5. ASSUME NEW p \in Seals PROVE (Looked(p) /\ Hashed(p) /\ Restores(p))'
  <2>1. Looked(p) /\ Hashed(p) /\ Restores(p)
    BY DEF IInv
  <2>2. \A n \in torn[p] : n \in Fixed' /\ remote'[n] \in {remote[n], "absent"}
    BY <2>1 DEF Looked, Older
  <2>3. Looked(p)'
    BY <1>1, <2>1, <2>2 DEF Looked
  <2>4. Hashed(p)'
    BY <1>1, <1>2, <2>1 DEF Hashed
  <2>5. \A n \in Numbers : taken'[n] = taken[n]
    BY DEF Older
  <2>6. digest[p] # "absent" => taken'[latest[p]] = taken[latest[p]]
    BY <2>1, <2>5 DEF Hashed
  <2>7. Restores(p)'
    BY <1>1, <2>1, <2>6 DEF Restores, Hashed
  <2>8. QED
    BY <2>3, <2>4, <2>7
<1>6. QED
  BY <1>3, <1>4, <1>5 DEF IInv

\* Seal p leaves the others, their collections and late uploads alone.
Only(p) ==
    \A q \in Seals \ {p} :
        /\ spc'[q] = spc[q] /\ mode'[q] = mode[q] /\ full'[q] = full[q]
        /\ latest'[q] = latest[q] /\ left'[q] = left[q] /\ ok'[q] = ok[q]
        /\ digest'[q] = digest[q] /\ target'[q] = target[q]
        /\ restored'[q] = restored[q] /\ torn'[q] = torn[q]
        /\ drills'[q] = drills[q]
        /\ \A u \in late' : u[1] = q => u \in late

LEMMA Others ==
    ASSUME IInv, UNCHANGED upstream, faults' \in Nat, NEW p \in Seals, Only(p),
           SealTypes', Spared', Looked(p)', Hashed(p)', Restores(p)'
    PROVE  IInv'
<1>1. UNCHANGED <<live, taken, snaps, remote, sidecars, pointer, bpc, bnum, bdoomed>>
  BY DEF upstream, backup, cloud
<1>2. Upstream'
  BY <1>1 DEF IInv, Upstream, SnapshotsTypeOK, BackupTypeOK, Fresh, Copies, Contents, Numbers
<1>3. Fixed' = Fixed /\ Numbers' = Numbers
  BY <1>1 DEF Fixed, Numbers
<1>4. ASSUME NEW q \in Seals, q # p PROVE (Looked(q) /\ Hashed(q) /\ Restores(q))'
  <2>1. Looked(q) /\ Hashed(q) /\ Restores(q)
    BY DEF IInv
  <2>2. /\ spc'[q] = spc[q] /\ mode'[q] = mode[q] /\ full'[q] = full[q]
        /\ latest'[q] = latest[q] /\ left'[q] = left[q] /\ ok'[q] = ok[q]
        /\ digest'[q] = digest[q] /\ target'[q] = target[q]
        /\ restored'[q] = restored[q] /\ torn'[q] = torn[q]
        /\ drills'[q] = drills[q]
        /\ \A u \in late' : u[1] = q => u \in late
    BY <1>4 DEF Only
  <2>3. Looked(q)'
    BY <1>1, <1>3, <2>1, <2>2 DEF Looked
  <2>4. Hashed(q)'
    BY <1>3, <2>1, <2>2 DEF Hashed
  <2>5. Restores(q)'
    BY <1>1, <2>1, <2>2 DEF Restores
  <2>6. QED
    BY <2>3, <2>4, <2>5
<1>5. QED
  BY <1>2, <1>4 DEF IInv

-----------------------------------------------------------------------------
(* The steps *)

LEMMA FaultsNat == ASSUME IInv PROVE faults \in Nat /\ (Faulty => faults' \in Nat)
<1>1. faults \in Nat
  BY DEF IInv, Upstream, SnapshotsTypeOK
<1>2. QED
  BY <1>1 DEF Faulty

\* A seal leaves the backup's directory as it is, and a copy that is there is of
\* a snapshot whose copy does not come again.
LEMMA Frame ==
    ASSUME IInv, UNCHANGED upstream, NEW p \in Seals
    PROVE  /\ UNCHANGED <<live, taken, snaps, remote, sidecars, pointer, bpc, bnum, bdoomed>>
           /\ Fixed' = Fixed /\ Numbers' = Numbers /\ Copies' = Copies
           /\ Copies \subseteq Fixed /\ Copies \subseteq Numbers
           /\ Looked(p) /\ Hashed(p) /\ Restores(p) /\ SealTypes /\ Spared
<1>1. UNCHANGED <<live, taken, snaps, remote, sidecars, pointer, bpc, bnum, bdoomed>>
  BY DEF upstream, backup, cloud
<1>2. Fixed' = Fixed /\ Numbers' = Numbers /\ Copies' = Copies
  BY <1>1 DEF Fixed, Numbers, Copies
<1>3. Copies \subseteq Numbers
  BY DEF IInv, Upstream, Fresh
<1>4. Copies \subseteq Fixed
  BY <1>3 DEF IInv, Upstream, Fresh, Fixed, Copies
<1>5. QED
  BY <1>1, <1>2, <1>3, <1>4 DEF IInv

LEMMA StartSealKeeps == ASSUME IInv, NEW p \in Seals, StartSeal(p) PROVE IInv'
<1>1. UNCHANGED upstream /\ faults' \in Nat
  BY FaultsNat DEF StartSeal
<1>2. /\ UNCHANGED <<live, taken, snaps, remote, sidecars, pointer, bpc, bnum, bdoomed>>
      /\ Fixed' = Fixed /\ Numbers' = Numbers /\ Copies' = Copies
      /\ Copies \subseteq Fixed /\ Copies \subseteq Numbers
      /\ Looked(p) /\ Hashed(p) /\ Restores(p) /\ SealTypes /\ Spared
  BY <1>1, Frame
<1>3. SealTypes'
  <2>1. {n \in Copies : remote[n] = "torn"} \in SUBSET Numbers
    BY <1>2
  <2>2. torn' \in [Seals -> SUBSET Numbers] /\ crossed' \in [Seals -> BOOLEAN]
    BY <1>2, <2>1 DEF StartSeal, SealTypes
  <2>3. /\ mode' \in [Seals -> Modes] /\ full' \in [Seals -> BOOLEAN]
        /\ target' \in [Seals -> Targets] /\ \A q \in Seals : target'[q] \in {q, Named}
    <3>1. PICK m \in Modes, g \in BOOLEAN, t \in {p, Named} :
              /\ mode' = [mode EXCEPT ![p] = m] /\ full' = [full EXCEPT ![p] = g]
              /\ target' = [target EXCEPT ![p] = t]
      BY DEF StartSeal
    <3>2. t \in Targets
      BY DEF Targets
    <3>3. QED
      BY <1>2, <3>1, <3>2 DEF SealTypes
  <2>4. spc' \in [Seals -> Stages]
    BY <1>2 DEF StartSeal, SealTypes, SealGoto, Stages
  <2>5. UNCHANGED <<drills, late, latest, listed, beside, left, ok, digest, probed, restored>>
    BY DEF StartSeal, drill, archive
  <2>6. QED
    BY <1>2, <2>2, <2>3, <2>4, <2>5 DEF SealTypes, Contents
<1>4. Only(p)
  BY <1>2 DEF StartSeal, Only, SealTypes, SealGoto, drill, archive
<1>5. Looked(p)'
  BY <1>2 DEF StartSeal, Looked, SealTypes, SealGoto, drill, archive, Copies
<1>6. Hashed(p)'
  BY <1>2 DEF StartSeal, Hashed, SealTypes, SealGoto, drill, archive
<1>7. Restores(p)'
  BY <1>2 DEF StartSeal, Restores, Ended, Hashed, SealTypes, SealGoto, drill, archive
<1>8. Spared'
  BY <1>2 DEF StartSeal, Spared, SealTypes, SealGoto, drill, archive
<1>9. QED
  BY <1>1, <1>3, <1>4, <1>5, <1>6, <1>7, <1>8, Others

LEMMA ReadPointerKeeps == ASSUME IInv, NEW p \in Seals, ReadPointer(p) PROVE IInv'
<1>1. UNCHANGED upstream /\ faults' \in Nat
  BY FaultsNat DEF ReadPointer
<1>2. /\ UNCHANGED <<live, taken, snaps, remote, sidecars, pointer, bpc, bnum, bdoomed>>
      /\ Fixed' = Fixed /\ Numbers' = Numbers /\ Copies' = Copies
      /\ Copies \subseteq Fixed /\ Copies \subseteq Numbers
      /\ Looked(p) /\ Hashed(p) /\ Restores(p) /\ SealTypes /\ Spared
  BY <1>1, Frame
<1>a. pointer \in Numbers \cup {0}
  BY DEF IInv, Upstream, BackupTypeOK
<1>b. /\ UNCHANGED <<drills, late, mode, full, torn, listed, beside, left, digest, probed, target,
                    restored, crossed>>
      /\ latest' = [latest EXCEPT ![p] = pointer]
      /\ ok' = [ok EXCEPT ![p] = @ /\ pointer # 0]
      /\ spc[p] = "pointer"
  BY DEF ReadPointer, Check, drill, verdict
<1>c. /\ spc' \in [Seals -> Stages]
      /\ \A q \in Seals \ {p} : spc'[q] = spc[q]
      /\ spc'[p] \in {"list", "probe", "SEALED", "NOT_SEALED"}
      /\ spc'[p] = "list" <=> pointer # 0
      /\ spc'[p] = "SEALED" => ok'[p] /\ mode[p] = "archive only"
  BY <1>2 DEF ReadPointer, SealGoto, EndArchive, SealTypes, Stages
<1>d. ok'[p] => pointer # 0
  BY <1>2, <1>b DEF SealTypes
<1>3. SealTypes'
  BY <1>2, <1>a, <1>b, <1>c DEF SealTypes, Contents
<1>4. Only(p)
  BY <1>2 DEF ReadPointer, Only, SealTypes, Check, SealGoto, EndArchive, drill, verdict
<1>5. Looked(p)'
  BY <1>2 DEF ReadPointer, Looked, SealTypes, Check, SealGoto, EndArchive, drill, verdict, Copies
<1>6. Hashed(p)'
  BY <1>2, <1>a, <1>b, <1>c, <1>d DEF Hashed, SealTypes
<1>7. Restores(p)'
  BY <1>2 DEF ReadPointer, Restores, Ended, Hashed, SealTypes, Check, SealGoto, EndArchive, drill, verdict
<1>8. Spared'
  BY <1>2, <1>b, <1>c DEF Spared
<1>9. QED
  BY <1>1, <1>3, <1>4, <1>5, <1>6, <1>7, <1>8, Others

LEMMA ListSnapshotsKeeps == ASSUME IInv, NEW p \in Seals, ListSnapshots(p) PROVE IInv'
<1>1. UNCHANGED upstream /\ faults' \in Nat
  BY FaultsNat DEF ListSnapshots
<1>2. /\ UNCHANGED <<live, taken, snaps, remote, sidecars, pointer, bpc, bnum, bdoomed>>
      /\ Fixed' = Fixed /\ Numbers' = Numbers /\ Copies' = Copies
      /\ Copies \subseteq Fixed /\ Copies \subseteq Numbers
      /\ Looked(p) /\ Hashed(p) /\ Restores(p) /\ SealTypes /\ Spared
  BY <1>1, Frame
<1>a. \A n \in torn[p] : remote[n] = "absent" \/ n \in Copies
  <2>1. torn[p] \subseteq 1..MaxSnapshots
    BY <1>2, Bounds DEF IInv, SealTypes
  <2>2. QED
    BY <2>1 DEF Copies
<1>b. /\ UNCHANGED <<mode, full, torn, latest>>
      /\ spc' = [spc EXCEPT ![p] = "list sidecars"] /\ left' = [left EXCEPT ![p] = Copies]
  BY DEF ListSnapshots, SealGoto, verdict
<1>3. SealTypes'
  BY <1>2 DEF ListSnapshots, SealTypes, Stages, Modes, Targets, Contents, Check, SealGoto, drill, verdict
<1>4. Only(p)
  BY <1>2 DEF ListSnapshots, Only, SealTypes, Check, SealGoto, drill, verdict
<1>5. Looked(p)'
  BY <1>2, <1>a, <1>b DEF Looked, SealTypes
<1>6. Hashed(p)'
  BY <1>2 DEF ListSnapshots, Hashed, SealTypes, Check, SealGoto, drill, verdict
<1>7. Restores(p)'
  BY <1>2 DEF ListSnapshots, Restores, Ended, Hashed, SealTypes, Check, SealGoto, drill, verdict
<1>8. Spared'
  BY <1>2 DEF ListSnapshots, Spared, SealTypes, SealGoto, drill, verdict
<1>9. QED
  BY <1>1, <1>3, <1>4, <1>5, <1>6, <1>7, <1>8, Others

LEMMA ListSidecarsKeeps == ASSUME IInv, NEW p \in Seals, ListSidecars(p) PROVE IInv'
<1>1. UNCHANGED upstream /\ faults' \in Nat
  BY FaultsNat DEF ListSidecars
<1>2. /\ UNCHANGED <<live, taken, snaps, remote, sidecars, pointer, bpc, bnum, bdoomed>>
      /\ Fixed' = Fixed /\ Numbers' = Numbers /\ Copies' = Copies
      /\ Copies \subseteq Fixed /\ Copies \subseteq Numbers
      /\ Looked(p) /\ Hashed(p) /\ Restores(p) /\ SealTypes /\ Spared
  BY <1>1, Frame
<1>a. sidecars \subseteq Numbers
  BY DEF IInv, Upstream, BackupTypeOK
<1>3. SealTypes'
  <2>1. beside' \in [Seals -> SUBSET Numbers]
    BY <1>2, <1>a DEF ListSidecars, SealTypes
  <2>2. spc' \in [Seals -> Stages]
    BY <1>2 DEF ListSidecars, SealTypes, SealGoto, Stages
  <2>3. QED
    BY <1>2, <2>1, <2>2 DEF ListSidecars, SealTypes, drill, verdict, Contents
<1>4. Only(p)
  BY <1>2 DEF ListSidecars, Only, SealTypes, SealGoto, drill, verdict
<1>5. Looked(p)'
  BY <1>2 DEF ListSidecars, Looked, SealTypes, SealGoto, drill, verdict, Copies
<1>6. Hashed(p)'
  BY <1>2 DEF ListSidecars, Hashed, SealTypes, SealGoto, drill, verdict
<1>7. Restores(p)'
  BY <1>2 DEF ListSidecars, Restores, Ended, Hashed, SealTypes, SealGoto, drill, verdict
<1>8. Spared'
  BY <1>2 DEF ListSidecars, Spared, SealTypes, SealGoto, drill, verdict
<1>9. QED
  BY <1>1, <1>3, <1>4, <1>5, <1>6, <1>7, <1>8, Others

LEMMA CheckLatestKeeps == ASSUME IInv, NEW p \in Seals, CheckLatest(p) PROVE IInv'
<1>1. UNCHANGED upstream /\ faults' \in Nat
  BY FaultsNat DEF CheckLatest
<1>2. /\ UNCHANGED <<live, taken, snaps, remote, sidecars, pointer, bpc, bnum, bdoomed>>
      /\ Fixed' = Fixed /\ Numbers' = Numbers /\ Copies' = Copies
      /\ Copies \subseteq Fixed /\ Copies \subseteq Numbers
      /\ Looked(p) /\ Hashed(p) /\ Restores(p) /\ SealTypes /\ Spared
  BY <1>1, Frame
<1>a. spc[p] = "latest" /\ latest[p] \in Numbers
  BY <1>2 DEF CheckLatest, Hashed
<1>b. remote[latest[p]] \in {"absent", "whole", "torn"}
  <2>1. latest[p] \in 1..MaxSnapshots
    BY <1>a, Bounds DEF IInv
  <2>2. QED
    BY <2>1 DEF IInv, Upstream, BackupTypeOK
<1>c. /\ UNCHANGED <<drills, late, mode, full, torn, latest, listed, beside, left, probed, target,
                    restored, crossed>>
      /\ digest' = [digest EXCEPT ![p] = remote[latest[p]]]
      /\ ok' = [ok EXCEPT ![p] = @ /\ Proven(latest[p])]
      /\ spc' = [spc EXCEPT ![p] = "items"]
  BY DEF CheckLatest, Check, SealGoto, drill, verdict
<1>d. ok'[p] => digest'[p] = "whole"
  BY <1>2, <1>c DEF SealTypes, Proven
<1>3. SealTypes'
  <2>1. ok' \in [Seals -> BOOLEAN]
    BY <1>2, <1>c DEF SealTypes, Proven
  <2>2. digest' \in [Seals -> {"absent", "whole", "torn"}] /\ spc' \in [Seals -> Stages]
    BY <1>2, <1>b, <1>c DEF SealTypes, Stages
  <2>3. QED
    BY <1>2, <1>c, <2>1, <2>2 DEF SealTypes, Contents
<1>4. Only(p)
  BY <1>2 DEF CheckLatest, Only, SealTypes, Check, SealGoto, drill, verdict
<1>5. Looked(p)'
  BY <1>2 DEF CheckLatest, Looked, SealTypes, Check, SealGoto, drill, verdict, Copies
<1>6. Hashed(p)'
  BY <1>2, <1>a, <1>c, <1>d DEF Hashed, SealTypes
<1>7. Restores(p)'
  BY <1>2 DEF CheckLatest, Restores, Ended, Hashed, SealTypes, Check, SealGoto, drill, verdict
<1>8. Spared'
  BY <1>2 DEF CheckLatest, Spared, SealTypes, SealGoto, drill, verdict
<1>9. QED
  BY <1>1, <1>3, <1>4, <1>5, <1>6, <1>7, <1>8, Others

LEMMA CheckRestKeeps == ASSUME IInv, NEW p \in Seals, CheckRest(p) PROVE IInv'
<1>1. UNCHANGED upstream /\ faults' \in Nat
  BY FaultsNat DEF CheckRest
<1>2. /\ UNCHANGED <<live, taken, snaps, remote, sidecars, pointer, bpc, bnum, bdoomed>>
      /\ Fixed' = Fixed /\ Numbers' = Numbers /\ Copies' = Copies
      /\ Copies \subseteq Fixed /\ Copies \subseteq Numbers
      /\ Looked(p) /\ Hashed(p) /\ Restores(p) /\ SealTypes /\ Spared
  BY <1>1, Frame
<1>3. SealTypes'
  <2>1. spc' \in [Seals -> Stages] /\ crossed' \in [Seals -> BOOLEAN]
    BY <1>2 DEF CheckRest, SealTypes, Stages, SealGoto, EndArchive, Crossed
  <2>2. ok' \in [Seals -> BOOLEAN]
    BY <1>2 DEF CheckRest, SealTypes, Check
  <2>3. listed' \in [Seals -> SUBSET Numbers] /\ beside' \in [Seals -> SUBSET Numbers]
    BY <1>2 DEF CheckRest, SealTypes
  <2>4. UNCHANGED <<drills, late, mode, full, torn, latest, left, digest, probed, target, restored>>
    BY DEF CheckRest, drill, verdict
  <2>5. QED
    BY <1>2, <2>1, <2>2, <2>3, <2>4 DEF SealTypes, Contents
<1>4. Only(p)
  BY <1>2 DEF CheckRest, Only, SealTypes, Check, SealGoto, EndArchive, drill, verdict
<1>5. Looked(p)'
  BY <1>2 DEF CheckRest, Looked, SealTypes, Check, SealGoto, EndArchive, drill, verdict, Copies
<1>6. Hashed(p)'
  BY <1>2 DEF CheckRest, Hashed, SealTypes, Check, SealGoto, EndArchive, drill, verdict
<1>7. Restores(p)'
  BY <1>2 DEF CheckRest, Restores, Ended, Hashed, SealTypes, Check, SealGoto, EndArchive, drill, verdict
<1>8. Spared'
  BY <1>2 DEF CheckRest, Spared, SealTypes, SealGoto, EndArchive, drill, verdict
<1>9. QED
  BY <1>1, <1>3, <1>4, <1>5, <1>6, <1>7, <1>8, Others

LEMMA ProbeKeeps == ASSUME IInv, NEW p \in Seals, Probe(p) PROVE IInv'
<1>1. UNCHANGED upstream /\ faults' \in Nat
  BY FaultsNat DEF Probe
<1>2. /\ UNCHANGED <<live, taken, snaps, remote, sidecars, pointer, bpc, bnum, bdoomed>>
      /\ Fixed' = Fixed /\ Numbers' = Numbers /\ Copies' = Copies
      /\ Copies \subseteq Fixed /\ Copies \subseteq Numbers
      /\ Looked(p) /\ Hashed(p) /\ Restores(p) /\ SealTypes /\ Spared
  BY <1>1, Frame
<1>3. SealTypes'
  BY <1>2 DEF Probe, SealTypes, Stages, Modes, Targets, Contents, SealGoto, Crossed, drill, verdict, archive
<1>4. Only(p)
  BY <1>2 DEF Probe, Only, SealTypes, SealGoto, drill, verdict, archive
<1>5. Looked(p)'
  BY <1>2 DEF Probe, Looked, SealTypes, SealGoto, drill, verdict, archive, Copies
<1>6. Hashed(p)'
  BY <1>2 DEF Probe, Hashed, SealTypes, SealGoto, drill, verdict, archive
<1>7. Restores(p)'
  BY <1>2 DEF Probe, Restores, Ended, Hashed, SealTypes, SealGoto, drill, verdict, archive
<1>8. Spared'
  BY <1>2 DEF Probe, Spared, SealTypes, SealGoto, drill, verdict, archive
<1>9. QED
  BY <1>1, <1>3, <1>4, <1>5, <1>6, <1>7, <1>8, Others

LEMMA CheckTargetKeeps == ASSUME IInv, NEW p \in Seals, CheckTarget(p) PROVE IInv'
<1>1. UNCHANGED upstream /\ faults' \in Nat
  BY FaultsNat DEF CheckTarget
<1>2. /\ UNCHANGED <<live, taken, snaps, remote, sidecars, pointer, bpc, bnum, bdoomed>>
      /\ Fixed' = Fixed /\ Numbers' = Numbers /\ Copies' = Copies
      /\ Copies \subseteq Fixed /\ Copies \subseteq Numbers
      /\ Looked(p) /\ Hashed(p) /\ Restores(p) /\ SealTypes /\ Spared
  BY <1>1, Frame
<1>a. /\ UNCHANGED <<drills, late, target>>
      /\ \A q \in Seals \ {p} : spc'[q] = spc[q]
      /\ spc'[p] \in {"upload", "NOT_SEALED"}
      /\ spc'[p] = "upload" => drills[target[p]] = None
  BY <1>2 DEF CheckTarget, SealGoto, SealTypes, drill
<1>3. SealTypes'
  BY <1>2 DEF CheckTarget, SealTypes, Stages, Modes, Targets, Contents, SealGoto, drill, verdict, archive
<1>4. Only(p)
  BY <1>2 DEF CheckTarget, Only, SealTypes, SealGoto, drill, verdict, archive
<1>5. Looked(p)'
  BY <1>2 DEF CheckTarget, Looked, SealTypes, SealGoto, drill, verdict, archive, Copies
<1>6. Hashed(p)'
  BY <1>2 DEF CheckTarget, Hashed, SealTypes, SealGoto, drill, verdict, archive
<1>7. Restores(p)'
  BY <1>2 DEF CheckTarget, Restores, Ended, Hashed, SealTypes, SealGoto, drill, verdict, archive
<1>8. Spared'
  BY <1>2, <1>a, SealAssumption DEF Spared
<1>9. QED
  BY <1>1, <1>3, <1>4, <1>5, <1>6, <1>7, <1>8, Others

LEMMA UploadDrillKeeps == ASSUME IInv, NEW p \in Seals, UploadDrill(p) PROVE IInv'
<1>1. UNCHANGED upstream /\ faults' \in Nat
  BY FaultsNat DEF UploadDrill
<1>2. /\ UNCHANGED <<live, taken, snaps, remote, sidecars, pointer, bpc, bnum, bdoomed>>
      /\ Fixed' = Fixed /\ Numbers' = Numbers /\ Copies' = Copies
      /\ Copies \subseteq Fixed /\ Copies \subseteq Numbers
      /\ Looked(p) /\ Hashed(p) /\ Restores(p) /\ SealTypes /\ Spared
  BY <1>1, Frame
<1>a. Content(latest[p]) \in Contents /\ (digest[p] = "whole" /\ remote[latest[p]] = digest[p] =>
          Content(latest[p]) = taken[latest[p]])
  <2>1. spc[p] = "upload" /\ latest[p] \in Numbers /\ taken \in Seq(Contents)
    BY <1>2 DEF UploadDrill, Hashed, IInv, Upstream, SnapshotsTypeOK
  <2>2. taken[latest[p]] \in Contents
    BY <2>1 DEF Numbers
  <2>3. QED
    BY <2>2 DEF Content, Contents
<1>b. /\ UNCHANGED <<mode, full, torn, latest, listed, beside, left, ok, digest, probed, target, restored>>
      /\ spc' \in [Seals -> Stages] /\ spc[p] = "upload" /\ spc'[p] \in {"read", "clean"}
      /\ \A q \in Seals \ {p} : spc'[q] = spc[q]
      /\ crossed' \in [Seals -> BOOLEAN]
  BY <1>2 DEF UploadDrill, SealGoto, SealTypes, Stages, Crossed, verdict, archive
<1>c. /\ target[p] \in {p, Named} /\ target[p] \in Targets
      /\ \A q \in Seals \ {p} : q # target[p]
  BY <1>2, SealAssumption DEF SealTypes
<1>d. \/ /\ remote[latest[p]] = digest[p] /\ late' = late
         /\ drills' = [drills EXCEPT ![target[p]] = Content(latest[p])]
      \/ spc'[p] = "clean" /\ drills' = drills /\ late' = late
      \/ /\ spc'[p] = "clean" /\ drills' = drills
         /\ late' = late \cup {<<target[p], Content(latest[p])>>}
  BY <1>2 DEF UploadDrill, SealGoto, SealTypes, drill
<1>e. spc'[p] = "read" => remote[latest[p]] = digest[p] /\ drills'[target[p]] = Content(latest[p])
                         /\ late' = late
  BY <1>2, <1>c DEF UploadDrill, SealGoto, SealTypes, drill
<1>f. /\ drills' \in [Targets -> Contents \cup {None, Foreign}] /\ late' \subseteq Targets \X Contents
      /\ \A q \in Seals \ {p} : drills'[q] = drills[q]
      /\ drills'[p] \in Contents \cup {None}
      /\ \A u \in late' : u \in late \/ u[1] = target[p]
      /\ drills'[Named] = drills[Named] \/ drills'[Named] \in Contents
  BY <1>2, <1>a, <1>c, <1>d DEF SealTypes, Targets
<1>3. SealTypes'
  BY <1>2, <1>b, <1>f DEF SealTypes, Contents
<1>4. Only(p)
  BY <1>b, <1>c, <1>f DEF Only
<1>5. Looked(p)'
  BY <1>2 DEF UploadDrill, Looked, SealTypes, SealGoto, drill, verdict, archive, Copies
<1>6. Hashed(p)'
  BY <1>2 DEF UploadDrill, Hashed, SealTypes, SealGoto, drill, verdict, archive
<1>7. Restores(p)'
  <2>1. restored[p] = None /\ \A u \in late : u[1] # p
    BY <1>2, <1>b DEF Restores, Ended
  <2>2. target[p] = p /\ ok[p] /\ spc'[p] = "read" => drills'[p] = taken[latest[p]]
    BY <1>2, <1>a, <1>b, <1>e DEF Hashed
  <2>3. QED
    BY <1>2, <1>b, <1>e, <2>1, <2>2 DEF Restores, Ended
<1>8. Spared'
  <2>1. Foreign \notin Contents
    BY SealAssumption DEF Contents
  <2>2. drills'[Named] = Foreign => drills[Named] = Foreign
    BY <1>f, <2>1
  <2>3. target[p] = Named => drills[Named] # Foreign
    BY <1>2, <1>b DEF Spared
  <2>4. QED
    BY <1>2, <1>b, <1>f, <2>2, <2>3 DEF Spared
<1>9. QED
  BY <1>1, <1>3, <1>4, <1>5, <1>6, <1>7, <1>8, Others

LEMMA ReadDrillKeeps == ASSUME IInv, NEW p \in Seals, ReadDrill(p) PROVE IInv'
<1>1. UNCHANGED upstream /\ faults' \in Nat
  BY FaultsNat DEF ReadDrill
<1>2. /\ UNCHANGED <<live, taken, snaps, remote, sidecars, pointer, bpc, bnum, bdoomed>>
      /\ Fixed' = Fixed /\ Numbers' = Numbers /\ Copies' = Copies
      /\ Copies \subseteq Fixed /\ Copies \subseteq Numbers
      /\ Looked(p) /\ Hashed(p) /\ Restores(p) /\ SealTypes /\ Spared
  BY <1>1, Frame
<1>a. drills[target[p]] \in Contents \cup {None}
  <2>1. target[p] \in Targets /\ target[p] \in {p, Named} /\ spc[p] = "read"
    BY <1>2 DEF ReadDrill, SealTypes
  <2>2. CASE target[p] = Named
    BY <1>2, <2>1, <2>2 DEF Spared, SealTypes
  <2>3. CASE target[p] = p
    BY <1>2, <2>1, <2>3 DEF SealTypes
  <2>4. QED
    BY <2>1, <2>2, <2>3
<1>3. SealTypes'
  BY <1>2, <1>a DEF ReadDrill, SealTypes, Stages, Modes, Targets, Contents, SealGoto, Crossed, drill, verdict, archive
<1>4. Only(p)
  BY <1>2 DEF ReadDrill, Only, SealTypes, SealGoto, drill, verdict, archive
<1>5. Looked(p)'
  BY <1>2 DEF ReadDrill, Looked, SealTypes, SealGoto, drill, verdict, archive, Copies
<1>6. Hashed(p)'
  BY <1>2 DEF ReadDrill, Hashed, SealTypes, SealGoto, drill, verdict, archive
<1>7. Restores(p)'
  BY <1>2 DEF ReadDrill, Restores, Ended, Hashed, SealTypes, SealGoto, drill, verdict, archive
<1>8. Spared'
  BY <1>2 DEF ReadDrill, Spared, SealTypes, SealGoto, drill, verdict, archive
<1>9. QED
  BY <1>1, <1>3, <1>4, <1>5, <1>6, <1>7, <1>8, Others

LEMMA DeleteDrillKeeps == ASSUME IInv, NEW p \in Seals, DeleteDrill(p) PROVE IInv'
<1>1. UNCHANGED upstream /\ faults' \in Nat
  BY FaultsNat DEF DeleteDrill
<1>2. /\ UNCHANGED <<live, taken, snaps, remote, sidecars, pointer, bpc, bnum, bdoomed>>
      /\ Fixed' = Fixed /\ Numbers' = Numbers /\ Copies' = Copies
      /\ Copies \subseteq Fixed /\ Copies \subseteq Numbers
      /\ Looked(p) /\ Hashed(p) /\ Restores(p) /\ SealTypes /\ Spared
  BY <1>1, Frame
<1>a. /\ UNCHANGED <<late, mode, full, torn, latest, listed, beside, left, ok, digest, probed, target,
                    restored>>
      /\ spc' \in [Seals -> Stages] /\ spc[p] = "clean" /\ spc'[p] \in {"confirm", "NOT_SEALED"}
      /\ \A q \in Seals \ {p} : spc'[q] = spc[q]
      /\ crossed' \in [Seals -> BOOLEAN]
  BY <1>2 DEF DeleteDrill, SealGoto, SealTypes, Stages, Crossed, verdict, archive
<1>b. target[p] \in {p, Named} /\ \A q \in Seals \ {p} : q # target[p]
  BY <1>2, SealAssumption DEF SealTypes
<1>c. drills' = drills \/ drills' = [drills EXCEPT ![target[p]] = None]
  BY DEF DeleteDrill
<1>d. /\ drills' \in [Targets -> Contents \cup {None, Foreign}]
      /\ \A q \in Seals \ {p} : drills'[q] = drills[q]
      /\ drills'[p] \in Contents \cup {None}
      /\ drills'[Named] \in {drills[Named], None}
  BY <1>2, <1>b, <1>c DEF SealTypes, Targets
<1>3. SealTypes'
  BY <1>2, <1>a, <1>d DEF SealTypes, Contents
<1>4. Only(p)
  BY <1>a, <1>b, <1>d DEF Only
<1>5. Looked(p)'
  BY <1>2 DEF DeleteDrill, Looked, SealTypes, SealGoto, verdict, archive, Copies
<1>6. Hashed(p)'
  BY <1>2 DEF DeleteDrill, Hashed, SealTypes, SealGoto, verdict, archive
<1>7. Restores(p)'
  BY <1>2 DEF DeleteDrill, Restores, Ended, Hashed, SealTypes, SealGoto, verdict, archive
<1>8. Spared'
  BY <1>2, <1>a, <1>d, SealAssumption DEF Spared
<1>9. QED
  BY <1>1, <1>3, <1>4, <1>5, <1>6, <1>7, <1>8, Others

LEMMA ConfirmKeeps == ASSUME IInv, NEW p \in Seals, Confirm(p) PROVE IInv'
<1>1. UNCHANGED upstream /\ faults' \in Nat
  BY FaultsNat DEF Confirm
<1>2. /\ UNCHANGED <<live, taken, snaps, remote, sidecars, pointer, bpc, bnum, bdoomed>>
      /\ Fixed' = Fixed /\ Numbers' = Numbers /\ Copies' = Copies
      /\ Copies \subseteq Fixed /\ Copies \subseteq Numbers
      /\ Looked(p) /\ Hashed(p) /\ Restores(p) /\ SealTypes /\ Spared
  BY <1>1, Frame
<1>3. SealTypes'
  <2>1. spc' \in [Seals -> Stages] /\ crossed' \in [Seals -> BOOLEAN]
    BY <1>2 DEF Confirm, SealTypes, Stages, SealGoto, Crossed
  <2>2. UNCHANGED <<drills, late, mode, full, torn, latest, listed, beside, left, ok, digest,
                    probed, target, restored>>
    BY DEF Confirm, drill, verdict, archive
  <2>3. QED
    BY <1>2, <2>1, <2>2 DEF SealTypes, Contents
<1>4. Only(p)
  BY <1>2 DEF Confirm, Only, SealTypes, SealGoto, drill, verdict, archive
<1>5. Looked(p)'
  BY <1>2 DEF Confirm, Looked, SealTypes, SealGoto, drill, verdict, archive, Copies
<1>6. Hashed(p)'
  BY <1>2 DEF Confirm, Hashed, SealTypes, SealGoto, drill, verdict, archive
<1>7. Restores(p)'
  BY <1>2 DEF Confirm, Restores, Ended, Hashed, SealTypes, SealGoto, drill, verdict, archive
<1>8. Spared'
  BY <1>2 DEF Confirm, Spared, SealTypes, SealGoto, drill, verdict, archive
<1>9. QED
  BY <1>1, <1>3, <1>4, <1>5, <1>6, <1>7, <1>8, Others

LEMMA KillSealKeeps == ASSUME IInv, NEW p \in Seals, KillSeal(p) PROVE IInv'
<1>1. UNCHANGED upstream /\ faults' \in Nat
  BY FaultsNat DEF KillSeal
<1>2. /\ UNCHANGED <<live, taken, snaps, remote, sidecars, pointer, bpc, bnum, bdoomed>>
      /\ Fixed' = Fixed /\ Numbers' = Numbers /\ Copies' = Copies
      /\ Copies \subseteq Fixed /\ Copies \subseteq Numbers
      /\ Looked(p) /\ Hashed(p) /\ Restores(p) /\ SealTypes /\ Spared
  BY <1>1, Frame
<1>3. SealTypes'
  BY <1>2 DEF KillSeal, SealTypes, Stages, Modes, Targets, Contents, SealGoto, Crossed, drill, verdict, archive
<1>4. Only(p)
  BY <1>2 DEF KillSeal, Only, SealTypes, SealGoto, drill, verdict, archive
<1>5. Looked(p)'
  BY <1>2 DEF KillSeal, Looked, SealTypes, SealGoto, drill, verdict, archive, Copies
<1>6. Hashed(p)'
  BY <1>2 DEF KillSeal, Hashed, SealTypes, SealGoto, drill, verdict, archive
<1>7. Restores(p)'
  BY <1>2 DEF KillSeal, Restores, Ended, Hashed, SealTypes, SealGoto, drill, verdict, archive
<1>8. Spared'
  BY <1>2 DEF KillSeal, Spared, SealTypes, SealGoto, drill, verdict, archive
<1>9. QED
  BY <1>1, <1>3, <1>4, <1>5, <1>6, <1>7, <1>8, Others

LEMMA CheckItemKeeps == ASSUME IInv, NEW p \in Seals, NEW n \in left[p], CheckItem(p, n) PROVE IInv'
<1>1. UNCHANGED upstream /\ faults' \in Nat
  BY FaultsNat DEF CheckItem
<1>2. /\ UNCHANGED <<live, taken, snaps, remote, sidecars, pointer, bpc, bnum, bdoomed>>
      /\ Fixed' = Fixed /\ Numbers' = Numbers /\ Copies' = Copies
      /\ Copies \subseteq Fixed /\ Copies \subseteq Numbers
      /\ Looked(p) /\ Hashed(p) /\ Restores(p) /\ SealTypes /\ Spared
  BY <1>1, Frame
<1>3. SealTypes'
  BY <1>2 DEF CheckItem, SealTypes, Check, drill, verdict, Contents
<1>4. Only(p)
  BY <1>2 DEF CheckItem, Only, SealTypes, Check, drill, verdict
<1>5. Looked(p)'
  BY <1>2 DEF CheckItem, Looked, SealTypes, Check, verdict
<1>6. Hashed(p)'
  BY <1>2 DEF CheckItem, Hashed, SealTypes, Check
<1>7. Restores(p)'
  BY <1>2 DEF CheckItem, Restores, Ended, SealTypes, Check, drill, verdict
<1>8. Spared'
  BY <1>2 DEF CheckItem, Spared, drill
<1>9. QED
  BY <1>1, <1>3, <1>4, <1>5, <1>6, <1>7, <1>8, Others

LEMMA LandLateKeeps == ASSUME IInv, LandLate PROVE IInv'
<1>1. PICK u \in late : drills' = [drills EXCEPT ![u[1]] = u[2]] /\ late' = late \ {u}
  BY DEF LandLate
<1>2. /\ UNCHANGED <<upstream, faults, spc, verdict, archive, probed, target, restored, crossed>>
      /\ UNCHANGED <<mode, full, torn, latest, listed, beside, left, ok, digest>>
      /\ UNCHANGED <<live, taken, snaps, remote, sidecars, pointer, bpc, bnum, bdoomed>>
  BY DEF LandLate, verdict, archive, upstream, backup, cloud
<1>3. u[1] \in Targets /\ u[2] \in Contents /\ Foreign \notin Contents /\ Spared /\ SealTypes
  BY SealAssumption DEF IInv, SealTypes, Contents
<1>4. SealTypes'
  BY <1>1, <1>2, <1>3 DEF SealTypes, Numbers, Contents
<1>5. Spared'
  BY <1>1, <1>2, <1>3 DEF Spared, SealTypes
<1>6. Upstream'
  BY <1>2 DEF IInv, Upstream, SnapshotsTypeOK, BackupTypeOK, Fresh, Copies, Contents, Numbers
<1>7. ASSUME NEW p \in Seals PROVE (Looked(p) /\ Hashed(p) /\ Restores(p))'
  <2>1. Looked(p) /\ Hashed(p) /\ Restores(p)
    BY DEF IInv
  <2>2. spc[p] \notin Ended \/ restored[p] # None => drills'[p] = drills[p]
    BY <1>1, <1>3, <2>1 DEF Restores, SealTypes, Targets
  <2>3. Looked(p)' /\ Hashed(p)'
    BY <1>2, <2>1 DEF Looked, Hashed, Fixed, Numbers
  <2>4. Restores(p)'
    BY <1>1, <1>2, <2>1, <2>2 DEF Restores, Ended
  <2>5. QED
    BY <2>3, <2>4
<1>8. QED
  BY <1>4, <1>5, <1>6, <1>7 DEF IInv

LEMMA BackupRunsKeeps == ASSUME IInv, BackupRuns PROVE IInv'
<1>1. Upstream' /\ Older
  BY BackupKeeps DEF IInv, BackupRuns
<1>2. crossed' \in [Seals -> BOOLEAN]
  BY DEF IInv, SealTypes, BackupRuns, Crossed
<1>3. QED
  BY <1>1, <1>2, Alone DEF BackupRuns

LEMMA ServerWritesKeeps == ASSUME IInv, ServerWrites PROVE IInv'
<1>1. PICK i \in Ids : Put(i) /\ UNCHANGED <<backup, seal>>
  BY DEF ServerWrites
<1>2. /\ UNCHANGED <<taken, snaps, faults, remote, sidecars, pointer, bpc, bnum, bdoomed>>
      /\ live' \in Contents \cup {None}
  BY <1>1 DEF Put, backup, cloud, IInv, Upstream, SnapshotsTypeOK, Contents
<1>3. Upstream' /\ Older
  BY <1>2 DEF IInv, Upstream, SnapshotsTypeOK, BackupTypeOK, Fresh, Copies, Contents, Numbers,
     Older, Fixed
<1>4. /\ UNCHANGED <<drill, spc, verdict, archive, probed, target, restored>>
      /\ crossed' \in [Seals -> BOOLEAN]
  BY <1>1 DEF seal, IInv, SealTypes
<1>5. QED
  BY <1>3, <1>4, Alone

LEMMA RotKeeps == ASSUME IInv, NEW n \in Numbers, Rot(n) PROVE IInv'
<1>1. /\ UNCHANGED <<live, taken, snaps, sidecars, pointer, bpc, bnum, bdoomed>>
      /\ UNCHANGED <<drill, spc, verdict, archive, probed, target, restored>>
      /\ remote[n] = "whole" /\ remote' = [remote EXCEPT ![n] = "torn"]
      /\ faults' \in Nat /\ crossed' \in [Seals -> BOOLEAN]
  BY FaultsNat DEF Rot, Crossed, IInv, SealTypes, drill, verdict, archive
<1>2. /\ remote' \in [1..MaxSnapshots -> {"absent", "whole", "torn"}]
      /\ \A i \in 1..MaxSnapshots : remote[i] # "whole" => remote'[i] = remote[i]
      /\ \A i \in 1..MaxSnapshots : remote[i] = "absent" <=> remote'[i] = "absent"
  BY <1>1 DEF IInv, Upstream, BackupTypeOK
<1>3. Numbers \subseteq 1..MaxSnapshots /\ Numbers' = Numbers /\ Fixed' = Fixed /\ Copies' = Copies
  BY <1>1, <1>2, Bounds DEF IInv, Numbers, Fixed, Copies
<1>4. Older
  BY <1>1, <1>2, <1>3 DEF Older, Fixed
<1>5. Upstream'
  BY <1>1, <1>2, <1>3 DEF IInv, Upstream, SnapshotsTypeOK, BackupTypeOK, Fresh, Contents
<1>6. QED
  BY <1>1, <1>4, <1>5, Alone

LEMMA IInvNext == IInv /\ [Next]_vars => IInv'
<1> SUFFICES ASSUME IInv, [Next]_vars PROVE IInv'
  OBVIOUS
<1>1. CASE UNCHANGED vars
  <2>1. Upstream' /\ Older
    BY <1>1 DEF vars, upstream, backup, cloud, IInv, Upstream, SnapshotsTypeOK, BackupTypeOK,
       Fresh, Copies, Contents, Numbers, Older, Fixed
  <2>2. crossed' \in [Seals -> BOOLEAN]
    BY <1>1 DEF vars, seal, IInv, SealTypes
  <2>3. UNCHANGED <<drill, spc, verdict, archive, probed, target, restored>>
    BY <1>1 DEF vars, seal
  <2>4. QED
    BY <2>1, <2>2, <2>3, Alone
<1>2. CASE BackupRuns
  BY <1>2, BackupRunsKeeps
<1>3. CASE ServerWrites
  BY <1>3, ServerWritesKeeps
<1>4. CASE LandLate
  BY <1>4, LandLateKeeps
<1>5. ASSUME NEW n \in Numbers, Rot(n) PROVE IInv'
  BY <1>5, RotKeeps
<1>6. ASSUME NEW p \in Seals, SealStep(p) PROVE IInv'
  <2>1. CASE StartSeal(p)
    BY <2>1, StartSealKeeps
  <2>2. CASE ReadPointer(p)
    BY <2>2, ReadPointerKeeps
  <2>3. CASE ListSnapshots(p)
    BY <2>3, ListSnapshotsKeeps
  <2>4. CASE ListSidecars(p)
    BY <2>4, ListSidecarsKeeps
  <2>5. CASE CheckLatest(p)
    BY <2>5, CheckLatestKeeps
  <2>6. CASE CheckRest(p)
    BY <2>6, CheckRestKeeps
  <2>7. CASE Probe(p)
    BY <2>7, ProbeKeeps
  <2>8. CASE CheckTarget(p)
    BY <2>8, CheckTargetKeeps
  <2>9. CASE UploadDrill(p)
    BY <2>9, UploadDrillKeeps
  <2>10. CASE ReadDrill(p)
    BY <2>10, ReadDrillKeeps
  <2>11. CASE DeleteDrill(p)
    BY <2>11, DeleteDrillKeeps
  <2>12. CASE Confirm(p)
    BY <2>12, ConfirmKeeps
  <2>13. CASE KillSeal(p)
    BY <2>13, KillSealKeeps
  <2>14. ASSUME NEW n \in left[p], CheckItem(p, n) PROVE IInv'
    BY <2>14, CheckItemKeeps
  <2>15. QED
    BY <1>6, <2>1, <2>2, <2>3, <2>4, <2>5, <2>6, <2>7, <2>8, <2>9, <2>10, <2>11, <2>12, <2>13,
       <2>14 DEF SealStep
<1>7. QED
  BY <1>1, <1>2, <1>3, <1>4, <1>5, <1>6 DEF Next

-----------------------------------------------------------------------------
(* Seals that nothing crosses *)

Uploaded == {"verify", "sidecar"}
Published == {"delete", "list", "prune", "rm sidecar"}

\* What runs leave in the directory as long as no call has failed: every copy is
\* whole and has its sidecar, but the one that the run is writing and the one that
\* it is removing, and latest.json names a copy that retention spares.
Calm ==
    /\ late = {}
    /\ \A n \in Copies : remote[n] = "whole"
    /\ pointer \in Copies \cup {0}
    /\ bpc \notin Uploaded \cup {"rm sidecar"} => sidecars = Copies
    /\ bpc \in Uploaded => bnum \in Copies /\ Copies = sidecars \cup {bnum}
    /\ bpc = "rm sidecar" =>
          \E n \in bdoomed : IsLatest(n, bdoomed) /\ n \notin Copies /\ sidecars = Copies \cup {n}
    /\ bpc \in {"prune", "rm sidecar"} => bdoomed \subseteq sidecars \ {bnum}
    /\ bpc \notin {"prune", "rm sidecar"} => bdoomed = {}
    /\ bpc # "idle" => bnum = Len(taken)
    /\ bpc \notin {"idle", "list", "prune", "rm sidecar"} => bnum \in snaps
    /\ bpc = "pointer" => bnum \in Copies
    /\ bpc \in Published => pointer = bnum

Looking == {"pointer", "list", "list sidecars", "latest", "items"}
Drilling == {"exists", "upload", "read", "clean", "confirm"}

\* What a seal that nothing has crossed knows: the directory is still as it saw
\* it, so there is no error but a missing latest.json, and its own collection is
\* there from its upload to its cleanup only.
Quiet(p) ==
    /\ Running(p) => bpc = "idle"
    /\ spc[p] \in {"new", "pointer"} \/ latest[p] # 0 => ok[p]
    /\ spc[p] \in Looking \ {"pointer"} => latest[p] # 0
    /\ Running(p) /\ spc[p] # "pointer" => latest[p] = pointer
    /\ spc[p] \in {"list sidecars", "latest", "items"} => listed[p] = Copies
    /\ spc[p] \in {"latest", "items"} => beside[p] = sidecars
    /\ Running(p) => left[p] \subseteq Copies
    /\ mode[p] = "archive only" => spc[p] # "probe" /\ spc[p] \notin Drilling
    /\ mode[p] = "no drill" => spc[p] \notin Drilling
    /\ spc[p] \in Drilling => probed[p] \/ mode[p] = "no probes"
    /\ spc[p] \in {"new", "probe", "exists", "upload"} \cup Looking => drills[p] = None
    /\ spc[p] = "confirm" /\ target[p] = p => drills[p] = None
    /\ spc[p] = "read" /\ target[p] = p => drills[p] # None
    /\ spc[p] \in {"clean", "confirm"} /\ target[p] = p /\ latest[p] # 0 => restored[p] # None
    /\ mode[p] \in {"archive only", "no drill"} => target[p] = p
    /\ spc[p] = "NOT_SEALED" =>
          \/ latest[p] = 0 \/ mode[p] \in {"no drill", "no probes"}
          \/ mode[p] = "deployment" /\ target[p] = Named

QInv ==
    /\ faults = 0 => Calm
    /\ \A p \in Seals :
        /\ spc[p] = "new" => ~crossed[p]
        /\ faults = 0 /\ ~crossed[p] => Quiet(p)

LEMMA QInvInit == Init => QInv
<1> SUFFICES ASSUME Init PROVE QInv
  OBVIOUS
<1>1. Copies = {} /\ Named \notin Seals
  BY SealAssumption DEF Init, InitBackup, Copies
<1>2. Calm
  BY <1>1 DEF Init, InitBackup, Calm, Uploaded, Published
<1>3. ASSUME NEW p \in Seals PROVE ~crossed[p] /\ Quiet(p)
  <2>1. drills[p] = None
    BY <1>1 DEF Init, Targets
  <2>2. /\ spc[p] = "new" /\ latest[p] = 0 /\ ok[p] = TRUE /\ mode[p] = "archive only"
        /\ target[p] = p /\ crossed[p] = FALSE
    BY DEF Init
  <2>3. QED
    BY <2>1, <2>2 DEF Quiet, Running, Looking, Drilling
<1>4. QED
  BY <1>2, <1>3 DEF QInv

\* The largest element of a set is among its newest.
LEMMA LargestStays ==
    ASSUME NEW S \in SUBSET Nat, NEW n \in S, \A m \in S : m <= n, NEW k \in Nat \ {0}
    PROVE  n \in Newest(S, k)
<1>1. ASSUME NEW m \in S PROVE ~(m > n)
  <2>1. m \in Nat /\ n \in Nat /\ m <= n
    OBVIOUS
  <2>2. QED
    BY <2>1
<1>2. {m \in S : m > n} = {}
  BY <1>1
<1>3. Cardinality({m \in S : m > n}) = 0
  BY <1>2, FS_EmptySet
<1>4. QED
  BY <1>3 DEF Newest

\* No failure leaves the directory in disorder.
LEMMA BackupCalm ==
    ASSUME Upstream, Upstream', Calm, BackupNext, ~Faulty, UNCHANGED late
    PROVE  Calm'
<1>0. /\ Len(taken) \in Nat /\ MaxSnapshots \in Nat /\ Numbers \subseteq 1..MaxSnapshots
      /\ Copies \subseteq Numbers /\ remote \in [1..MaxSnapshots -> {"absent", "whole", "torn"}]
      /\ bpc # "idle" => bnum \in Numbers /\ bnum \in 1..MaxSnapshots
  BY Bounds DEF Upstream, BackupTypeOK, Fresh
<1>1. CASE StartBackup
  <2>1. /\ Len(taken') = Len(taken) + 1
        /\ UNCHANGED <<remote, sidecars, pointer, bdoomed>>
        /\ bpc = "idle" /\ bpc' = "download" /\ bnum' = Len(taken) + 1 /\ bnum' \in snaps'
    BY <1>1, SnapshotTaken DEF StartBackup, CreateSnapshot, cloud
  <2>2. Copies' = Copies
    BY <2>1 DEF Copies
  <2>3. QED
    BY <2>1, <2>2 DEF Calm, Uploaded, Published
<1>2. CASE DownloadToStage
  <2>1. /\ UNCHANGED <<taken, snaps, remote, sidecars, pointer, bdoomed>> /\ bpc = "download"
        /\ bnum \in snaps
    BY <1>2 DEF DownloadToStage, cloud, Calm
  <2>2. bpc' = "upload" /\ bnum' = bnum /\ Copies' = Copies
    BY <1>2, <2>1 DEF DownloadToStage, BackupGoto, Copies
  <2>3. QED
    BY <2>1, <2>2 DEF Calm, Uploaded, Published
<1>3. CASE UploadCopy
  <2>1. /\ UNCHANGED <<taken, snaps, sidecars, pointer, bdoomed>> /\ bpc = "upload"
        /\ bpc' = "verify" /\ bnum' = bnum /\ remote' = [remote EXCEPT ![bnum] = "whole"]
    BY <1>3 DEF UploadCopy, BackupGoto
  <2>2. Copies' = Copies \cup {bnum}
    BY <1>0, <2>1 DEF Copies
  <2>3. \A n \in Copies' : remote'[n] = "whole"
    BY <1>0, <2>1, <2>2 DEF Calm, Copies
  <2>4. QED
    BY <2>1, <2>2, <2>3 DEF Calm, Uploaded, Published
<1>4. CASE VerifyCopy
  <2>1. /\ UNCHANGED <<taken, snaps, remote, sidecars, pointer, bdoomed>> /\ bpc = "verify"
        /\ remote[bnum] = "whole"
    BY <1>4 DEF VerifyCopy, cloud, Calm, Uploaded
  <2>2. bpc' = "sidecar" /\ bnum' = bnum /\ Copies' = Copies
    BY <1>4, <2>1 DEF VerifyCopy, BackupGoto, Copies
  <2>3. QED
    BY <2>1, <2>2 DEF Calm, Uploaded, Published
<1>5. CASE WriteSidecar
  <2>1. /\ UNCHANGED <<taken, snaps, remote, pointer, bdoomed>> /\ bpc = "sidecar"
        /\ bpc' = "pointer" /\ bnum' = bnum /\ Copies' = Copies
        /\ sidecars' = sidecars \cup {bnum}
    BY <1>5 DEF WriteSidecar, BackupGoto, Copies
  <2>2. QED
    BY <2>1 DEF Calm, Uploaded, Published
<1>6. CASE WritePointer
  <2>1. /\ UNCHANGED <<taken, snaps, remote, sidecars, bdoomed>> /\ bpc = "pointer"
        /\ bpc' = "delete" /\ bnum' = bnum /\ Copies' = Copies /\ pointer' = bnum
    BY <1>6 DEF WritePointer, BackupGoto, Copies
  <2>2. QED
    BY <2>1 DEF Calm, Uploaded, Published
<1>7. CASE DeleteSnapshot
  <2>1. /\ UNCHANGED <<taken, remote, sidecars, pointer, bdoomed>> /\ bpc = "delete"
        /\ bnum \in snaps
    BY <1>7 DEF DeleteSnapshot, cloud, Calm
  <2>2. bpc' = "list" /\ bnum' = bnum /\ Copies' = Copies
    BY <1>7, <2>1 DEF DeleteSnapshot, BackupGoto, Copies
  <2>3. QED
    BY <2>1, <2>2 DEF Calm, Uploaded, Published
<1>8. CASE ListCopies
  <2>1. /\ UNCHANGED <<taken, snaps, remote, sidecars, pointer>> /\ bpc = "list"
        /\ bpc' = "prune" /\ bnum' = bnum /\ Copies' = Copies /\ bdoomed' = Outdated
    BY <1>8 DEF ListCopies, BackupGoto, Copies, cloud
  <2>2. bnum = Len(taken) /\ bnum \in Copies /\ pointer = bnum /\ sidecars = Copies
    BY <1>0, <2>1 DEF Calm, Uploaded, Published, Numbers
  <2>3. Copies \in SUBSET Nat /\ \A m \in Copies : m <= bnum
    BY <1>0, <2>2 DEF Numbers
  <2>4. bnum \in Newest(Copies, RemoteKeep)
    BY <2>2, <2>3, LargestStays, BackupAssumption
  <2>5. Outdated \subseteq sidecars \ {bnum}
    BY <2>2, <2>4 DEF Outdated
  <2>6. QED
    BY <2>1, <2>2, <2>5 DEF Calm, Uploaded, Published
<1>9. CASE EndBackup
  <2>1. /\ UNCHANGED <<taken, snaps, remote, sidecars, pointer, bdoomed>> /\ bpc = "prune"
        /\ bdoomed = {} /\ bpc' = "idle" /\ Copies' = Copies
    BY <1>9 DEF EndBackup, BackupGoto, Copies, cloud
  <2>2. QED
    BY <2>1 DEF Calm, Uploaded, Published
<1>10. CASE BackupFails
  BY <1>10 DEF BackupFails
<1>11. ASSUME NEW n \in bdoomed, RemoveCopy(n) PROVE Calm'
  <2>1. /\ UNCHANGED <<taken, snaps, sidecars, pointer, bdoomed>> /\ bpc = "prune"
        /\ bpc' = "rm sidecar" /\ bnum' = bnum /\ IsLatest(n, bdoomed)
        /\ remote' = [remote EXCEPT ![n] = "absent"]
    BY <1>11 DEF RemoveCopy, BackupGoto
  <2>2. bdoomed \subseteq sidecars \ {bnum} /\ sidecars = Copies /\ pointer = bnum
    BY <2>1 DEF Calm, Uploaded, Published
  <2>3. Copies' = Copies \ {n} /\ n \in Copies
    BY <1>0, <1>11, <2>1, <2>2 DEF Copies
  <2>4. \A m \in Copies' : remote'[m] = "whole"
    BY <1>0, <2>1, <2>3 DEF Calm, Copies
  <2>5. IsLatest(n, bdoomed')
    BY <2>1
  <2>6. n \in bdoomed' /\ n \notin Copies' /\ sidecars' = Copies' \cup {n}
    BY <1>11, <2>1, <2>2, <2>3
  <2>7. QED
    BY <2>1, <2>2, <2>3, <2>4, <2>5, <2>6 DEF Calm, Uploaded, Published
<1>12. ASSUME NEW n \in bdoomed, RemoveSidecar(n) PROVE Calm'
  <2>1. /\ UNCHANGED <<taken, snaps, remote, pointer>> /\ bpc = "rm sidecar"
        /\ bpc' = "prune" /\ bnum' = bnum /\ IsLatest(n, bdoomed) /\ Copies' = Copies
        /\ sidecars' = sidecars \ {n} /\ bdoomed' = bdoomed \ {n}
    BY <1>12 DEF RemoveSidecar, BackupGoto, Copies
  <2>2. PICK m \in bdoomed : IsLatest(m, bdoomed) /\ m \notin Copies /\ sidecars = Copies \cup {m}
    BY <2>1 DEF Calm
  <2>3. m = n
    <3>1. m \in 1..Len(taken) /\ n \in 1..Len(taken)
      BY <1>12, <2>2 DEF Upstream, BackupTypeOK, Numbers
    <3>2. m <= n /\ n <= m
      BY <1>12, <2>1, <2>2 DEF IsLatest
    <3>3. QED
      BY <1>0, <3>1, <3>2
  <2>4. sidecars' = Copies'
    BY <2>1, <2>2, <2>3
  <2>5. QED
    BY <2>1, <2>4 DEF Calm, Uploaded, Published
<1>13. QED
  BY <1>1, <1>2, <1>3, <1>4, <1>5, <1>6, <1>7, <1>8, <1>9, <1>10, <1>11, <1>12 DEF BackupNext

\* Without a failure, what a seal does leaves it quiet.
LEMMA SealQuiet ==
    ASSUME IInv, Calm, ~Faulty, NEW p \in Seals, Quiet(p), SealStep(p), ~crossed'[p]
    PROVE  Quiet(p)'
<1>1. UNCHANGED upstream
  BY DEF SealStep, StartSeal, ReadPointer, ListSnapshots, ListSidecars, CheckLatest, CheckItem,
     CheckRest, Probe, CheckTarget, UploadDrill, ReadDrill, DeleteDrill, Confirm, KillSeal
<1>2. /\ UNCHANGED <<live, taken, snaps, remote, sidecars, pointer, bpc, bnum, bdoomed>>
      /\ Copies' = Copies /\ SealTypes /\ Looked(p) /\ Hashed(p) /\ Restores(p) /\ Spared
  BY <1>1, Frame
<1>3. /\ mode[p] \in Modes /\ target[p] \in {p, Named} /\ p # Named /\ target[p] \in Targets
      /\ p \in Targets /\ ok[p] \in BOOLEAN /\ digest[p] \in {"absent", "whole", "torn"}
      /\ drills \in [Targets -> Contents \cup {None, Foreign}]
  BY <1>2, SealAssumption DEF SealTypes, Targets
<1>4. Running(p) => sidecars = Copies /\ pointer \in Copies \cup {0}
                    /\ \A n \in Copies : remote[n] = "whole"
  BY DEF Calm, Quiet, Uploaded
<1>5. 0 \notin Copies
  BY DEF Copies
<1>6. CASE StartSeal(p)
  <2>1. PICK m \in Modes, t \in {p, Named} :
           /\ m \in {"archive only", "no drill"} => t = p
           /\ mode' = [mode EXCEPT ![p] = m] /\ target' = [target EXCEPT ![p] = t]
    BY <1>6 DEF StartSeal
  <2>2. mode'[p] = m /\ target'[p] = t
    BY <1>2, <2>1 DEF SealTypes
  <2>3. spc[p] = "new" /\ spc'[p] = "pointer" /\ bpc = "idle"
    BY <1>2, <1>6 DEF StartSeal, SealGoto, SealTypes
  <2>4. UNCHANGED <<drills, latest, listed, beside, left, ok, digest, probed, restored>>
    BY <1>6 DEF StartSeal, drill, archive
  <2>5. left[p] = {}
    BY <1>2, <2>3 DEF Looked
  <2>6. QED
    BY <1>2, <2>1, <2>2, <2>3, <2>4, <2>5 DEF Quiet, Running, Looking, Drilling
<1>7. CASE ReadPointer(p)
  <2>1. /\ UNCHANGED <<drills, mode, listed, beside, left, digest, probed, target, restored>>
        /\ spc[p] = "pointer" /\ latest'[p] = pointer /\ ok'[p] = (ok[p] /\ pointer # 0)
    BY <1>2, <1>7 DEF ReadPointer, Check, SealTypes, drill, verdict
  <2>2. spc'[p] = IF pointer # 0 THEN "list" ELSE IF mode[p] # "archive only" THEN "probe"
                  ELSE IF ok'[p] THEN "SEALED" ELSE "NOT_SEALED"
    BY <1>2, <1>7 DEF ReadPointer, EndArchive, SealGoto, SealTypes
  <2>3. QED
    BY <1>2, <1>3, <2>1, <2>2 DEF Quiet, Running, Looking, Drilling
<1>8. CASE ListSnapshots(p)
  <2>1. /\ UNCHANGED <<drills, mode, latest, beside, digest, probed, target, restored>>
        /\ spc[p] = "list" /\ spc'[p] = "list sidecars"
        /\ listed'[p] = Copies /\ left'[p] = Copies /\ ok'[p] = (ok[p] /\ Copies # {})
    BY <1>2, <1>8 DEF ListSnapshots, Check, SealGoto, SealTypes, drill, verdict
  <2>2. latest[p] = pointer /\ latest[p] # 0 /\ Running(p)
    BY <2>1 DEF Quiet, Running, Looking
  <2>3. Copies # {}
    BY <1>4, <2>2
  <2>4. QED
    BY <1>2, <1>3, <2>1, <2>2, <2>3 DEF Quiet, Running, Looking, Drilling
<1>9. CASE ListSidecars(p)
  <2>1. /\ UNCHANGED <<drills, mode, latest, listed, left, ok, digest, probed, target, restored>>
        /\ spc[p] = "list sidecars" /\ spc'[p] = "latest" /\ beside'[p] = sidecars
    BY <1>2, <1>9 DEF ListSidecars, SealGoto, SealTypes, drill, verdict
  <2>2. QED
    BY <1>2, <1>3, <2>1 DEF Quiet, Running, Looking, Drilling
<1>10. CASE CheckLatest(p)
  <2>1. /\ UNCHANGED <<drills, mode, latest, listed, beside, left, probed, target, restored>>
        /\ spc[p] = "latest" /\ spc'[p] = "items" /\ ok'[p] = (ok[p] /\ Proven(latest[p]))
    BY <1>2, <1>10 DEF CheckLatest, Check, SealGoto, SealTypes, drill, verdict
  <2>2. Proven(latest[p])
    <3>1. latest[p] = pointer /\ latest[p] # 0 /\ Running(p)
      BY <2>1 DEF Quiet, Running, Looking
    <3>2. QED
      BY <1>4, <3>1 DEF Proven
  <2>3. QED
    BY <1>2, <1>3, <2>1, <2>2 DEF Quiet, Running, Looking, Drilling
<1>11. ASSUME NEW n \in left[p], CheckItem(p, n) PROVE Quiet(p)'
  <2>1. /\ UNCHANGED <<drills, spc, mode, latest, listed, beside, probed, target, restored>>
        /\ spc[p] = "items" /\ left'[p] = left[p] \ {n}
        /\ ok'[p] = (ok[p] /\ remote[n] # "absent" /\ n \in sidecars
                     /\ (full[p] \/ n = latest[p] => remote[n] = "whole"))
    BY <1>2, <1>11 DEF CheckItem, Check, SealTypes, drill, verdict
  <2>2. remote[n] = "whole" /\ n \in sidecars
    BY <1>4, <1>11, <2>1 DEF Quiet, Running
  <2>3. QED
    BY <1>2, <1>3, <2>1, <2>2 DEF Quiet, Running, Looking, Drilling
<1>12. CASE CheckRest(p)
  <2>1. /\ UNCHANGED <<drills, mode, latest, left, probed, target, restored>> /\ spc[p] = "items"
        /\ ok'[p] = (ok[p] /\ beside[p] = listed[p] /\ beside[p] \subseteq sidecars
                     /\ listed[p] \subseteq Copies)
    BY <1>2, <1>12 DEF CheckRest, Check, SealTypes, drill, verdict
  <2>2. ok'[p] = TRUE
    BY <1>3, <1>4, <2>1 DEF Quiet, Running, Looking
  <2>3. spc'[p] = IF mode[p] # "archive only" THEN "probe"
                  ELSE IF ok'[p] THEN "SEALED" ELSE "NOT_SEALED"
    BY <1>2, <1>12 DEF CheckRest, EndArchive, SealGoto, SealTypes
  <2>4. QED
    BY <1>2, <1>3, <2>1, <2>2, <2>3 DEF Quiet, Running, Looking, Drilling
<1>13. CASE Probe(p)
  <2>1. /\ UNCHANGED <<drills, mode, latest, listed, beside, left, ok, digest, target, restored>>
        /\ spc[p] = "probe" /\ probed'[p] = (mode[p] # "no probes")
        /\ spc'[p] = IF mode[p] = "no drill" THEN "NOT_SEALED" ELSE "exists"
    BY <1>2, <1>13 DEF Probe, SealGoto, SealTypes, drill, verdict, archive
  <2>2. QED
    BY <1>2, <1>3, <2>1 DEF Quiet, Running, Looking, Drilling
<1>14. CASE CheckTarget(p)
  <2>1. /\ UNCHANGED <<drills, mode, latest, listed, beside, left, ok, digest, probed, target,
                       restored>>
        /\ spc[p] = "exists"
        /\ spc'[p] = IF \/ digest[p] = "absent" \/ remote[latest[p]] = "absent"
                        \/ drills[target[p]] # None
                     THEN "NOT_SEALED" ELSE "upload"
    BY <1>2, <1>14 DEF CheckTarget, SealGoto, SealTypes, drill, verdict, archive
  <2>2. latest[p] # 0 => digest[p] = "whole" /\ remote[latest[p]] = "whole"
    BY <1>2, <1>4, <2>1 DEF Quiet, Running, Hashed
  <2>3. /\ mode[p] \in {"no probes", "deployment"} /\ drills[p] = None /\ left[p] \subseteq Copies
        /\ bpc = "idle" /\ latest[p] = pointer /\ (latest[p] # 0 => ok[p])
        /\ probed[p] \/ mode[p] = "no probes"
    BY <1>3, <2>1 DEF Quiet, Running, Looking, Drilling, Modes
  <2>4. QED
    BY <1>2, <1>3, <2>1, <2>2, <2>3 DEF Quiet, Running, Looking, Drilling
<1>15. CASE UploadDrill(p)
  <2>1. /\ UNCHANGED <<mode, latest, listed, beside, left, ok, digest, probed, target, restored>>
        /\ spc[p] = "upload" /\ spc'[p] \in {"read", "clean"}
    BY <1>2, <1>15 DEF UploadDrill, SealGoto, SealTypes, verdict, archive
  <2>2. latest[p] # 0 => digest[p] = "whole" /\ remote[latest[p]] = "whole"
    BY <1>2, <1>4, <2>1 DEF Quiet, Running, Hashed
  <2>3. latest[p] # 0 => spc'[p] = "read"
    BY <1>2, <1>15, <2>2 DEF UploadDrill, SealGoto, SealTypes
  <2>4. spc'[p] = "read" /\ target[p] = p => drills'[p] # None
    <3>1. SUFFICES ASSUME spc'[p] = "read", target[p] = p PROVE drills'[p] # None
      OBVIOUS
    <3>2. drills' = [drills EXCEPT ![p] = Content(latest[p])]
      BY <1>2, <1>15, <3>1 DEF UploadDrill, SealGoto, SealTypes
    <3>3. digest[p] # "absent" => latest[p] \in Numbers
      BY <1>2 DEF Hashed
    <3>4. digest[p] # "absent"
      BY <1>2, <2>1 DEF Hashed
    <3>5. taken[latest[p]] \in Contents /\ {} \in Contents
      <4>1. taken \in Seq(Contents) /\ latest[p] \in 1..Len(taken)
        BY <3>3, <3>4 DEF IInv, Upstream, SnapshotsTypeOK, Numbers
      <4>2. taken[latest[p]] \in Contents
        BY <4>1
      <4>3. {} \in Contents
        BY DEF Contents
      <4>4. QED
        BY <4>2, <4>3
    <3>6. None \notin Contents
      BY SnapshotsAssumption DEF Contents
    <3>7. QED
      BY <1>3, <3>2, <3>5, <3>6 DEF Content
  <2>5. /\ mode[p] \notin {"archive only", "no drill"} /\ bpc = "idle" /\ latest[p] = pointer
        /\ latest[p] # 0 => ok[p]
        /\ probed[p] \/ mode[p] = "no probes"
        /\ left[p] \subseteq Copies
    BY <1>3, <2>1 DEF Quiet, Running, Looking, Drilling
  <2>6. QED
    BY <1>2, <2>1, <2>3, <2>4, <2>5 DEF Quiet, Running, Looking, Drilling
<1>16. CASE ReadDrill(p)
  <2>1. /\ UNCHANGED <<drills, mode, latest, listed, beside, left, ok, digest, probed, target>>
        /\ spc[p] = "read" /\ spc'[p] = "clean"
        /\ drills[target[p]] # None => restored'[p] = drills[target[p]]
    BY <1>2, <1>16 DEF ReadDrill, SealGoto, SealTypes, drill, verdict, archive
  <2>2. QED
    BY <1>2, <1>3, <2>1 DEF Quiet, Running, Looking, Drilling
<1>17. CASE DeleteDrill(p)
  <2>1. /\ UNCHANGED <<mode, latest, listed, beside, left, ok, digest, probed, target, restored>>
        /\ spc[p] = "clean" /\ spc'[p] = "confirm"
        /\ drills' = [drills EXCEPT ![target[p]] = None]
    BY <1>2, <1>17 DEF DeleteDrill, SealGoto, SealTypes, verdict, archive
  <2>2. target[p] = p => drills'[p] = None
    BY <1>3, <2>1
  <2>3. QED
    BY <1>2, <1>3, <2>1, <2>2 DEF Quiet, Running, Looking, Drilling
<1>18. CASE Confirm(p)
  <2>1. /\ UNCHANGED <<drills, mode, latest, listed, beside, left, ok, digest, probed, target,
                       restored>>
        /\ spc[p] = "confirm"
        /\ spc'[p] = IF ok[p] /\ probed[p] /\ restored[p] # None /\ drills[target[p]] = None
                     THEN "SEALED" ELSE "NOT_SEALED"
    BY <1>2, <1>18 DEF Confirm, SealGoto, SealTypes, drill, verdict, archive
  <2>2. QED
    BY <1>2, <1>3, <2>1 DEF Quiet, Running, Looking, Drilling, Modes
<1>19. CASE KillSeal(p)
  BY <1>19 DEF KillSeal
<1>20. QED
  BY <1>6, <1>7, <1>8, <1>9, <1>10, <1>11, <1>12, <1>13, <1>14, <1>15, <1>16, <1>17, <1>18, <1>19
     DEF SealStep

\* What seal q knows, and its collection, are as they were.
Kept(q) ==
    /\ spc'[q] = spc[q] /\ mode'[q] = mode[q] /\ latest'[q] = latest[q]
    /\ listed'[q] = listed[q] /\ beside'[q] = beside[q] /\ left'[q] = left[q]
    /\ ok'[q] = ok[q] /\ probed'[q] = probed[q] /\ target'[q] = target[q]
    /\ restored'[q] = restored[q] /\ drills'[q] = drills[q]

LEMMA QuietKept ==
    ASSUME UNCHANGED <<remote, sidecars, pointer, bpc>>, NEW q \in Seals, Kept(q), Quiet(q)
    PROVE  Quiet(q)'
<1>1. Copies' = Copies
  BY DEF Copies
<1>2. Running(q)' <=> Running(q)
  BY DEF Running, Kept
<1>3. /\ spc'[q] = spc[q] /\ mode'[q] = mode[q] /\ latest'[q] = latest[q]
      /\ listed'[q] = listed[q] /\ beside'[q] = beside[q] /\ left'[q] = left[q]
      /\ ok'[q] = ok[q] /\ probed'[q] = probed[q] /\ target'[q] = target[q]
      /\ restored'[q] = restored[q] /\ drills'[q] = drills[q]
  BY DEF Kept
<1>4. (ok[q] <=> ok'[q]) /\ (probed[q] <=> probed'[q])
  BY <1>3
<1>5. QED
  BY <1>1, <1>2, <1>3, <1>4, ZenonT(60) DEF Quiet, Looking, Drilling

LEMMA CalmKept ==
    ASSUME Calm, UNCHANGED <<taken, snaps, remote, sidecars, pointer, bpc, bnum, bdoomed>>,
           late' \subseteq late
    PROVE  Calm'
<1>1. Copies' = Copies
  BY DEF Copies
<1>2. QED
  BY <1>1 DEF Calm, IsLatest

\* A seal's step leaves the others and the directory alone.
LEMMA SealApart ==
    ASSUME IInv, NEW p \in Seals, SealStep(p)
    PROVE  /\ UNCHANGED <<taken, snaps, remote, sidecars, pointer, bpc, bnum, bdoomed>>
           /\ \A q \in Seals \ {p} : Kept(q)
           /\ spc'[p] # "new"
           /\ ~Faulty => UNCHANGED <<faults, late>>
           /\ Faulty \/ StartSeal(p) \/ crossed'[p] = crossed[p]
           /\ \A q \in Seals \ {p} : crossed'[q] = crossed[q] \/ (Faulty /\ Crossed)
<1>1. UNCHANGED upstream
  BY DEF SealStep, StartSeal, ReadPointer, ListSnapshots, ListSidecars, CheckLatest, CheckItem,
     CheckRest, Probe, CheckTarget, UploadDrill, ReadDrill, DeleteDrill, Confirm, KillSeal
<1>2. SealTypes /\ target[p] \in {p, Named} /\ \A q \in Seals : q # Named
  BY SealAssumption DEF IInv, SealTypes
<1>3. /\ ~Faulty => UNCHANGED <<faults, late>>
      /\ \/ UNCHANGED crossed \/ (Faulty /\ Crossed)
         \/ StartSeal(p) /\ crossed' = [crossed EXCEPT ![p] = bpc # "idle"]
  BY DEF SealStep, StartSeal, ReadPointer, ListSnapshots, ListSidecars, CheckLatest, CheckItem,
     CheckRest, Probe, CheckTarget, UploadDrill, ReadDrill, DeleteDrill, Confirm, KillSeal, drill
<1>4. ASSUME NEW q \in Seals, q # p PROVE Kept(q)
  <2>0. q # target[p] /\ q \in Targets
    BY <1>2, <1>4 DEF Targets
  <2>1. drills' = drills \/ \E v : drills' = [drills EXCEPT ![target[p]] = v]
    BY DEF SealStep, StartSeal, ReadPointer, ListSnapshots, ListSidecars, CheckLatest, CheckItem,
       CheckRest, Probe, CheckTarget, UploadDrill, ReadDrill, DeleteDrill, Confirm, KillSeal, drill
  <2>2. drills'[q] = drills[q]
    BY <1>2, <2>0, <2>1 DEF SealTypes
  <2>3. CASE StartSeal(p)
    BY <1>2, <1>4, <2>2, <2>3 DEF StartSeal, Kept, SealGoto, SealTypes, archive
  <2>4. CASE ReadPointer(p)
    BY <1>2, <1>4, <2>2, <2>4 DEF ReadPointer, EndArchive, Check, Kept, SealGoto, SealTypes, verdict
  <2>5. CASE ListSnapshots(p)
    BY <1>2, <1>4, <2>2, <2>5 DEF ListSnapshots, Check, Kept, SealGoto, SealTypes, verdict
  <2>6. CASE ListSidecars(p)
    BY <1>2, <1>4, <2>2, <2>6 DEF ListSidecars, Kept, SealGoto, SealTypes, verdict
  <2>7. CASE CheckLatest(p)
    BY <1>2, <1>4, <2>2, <2>7 DEF CheckLatest, Check, Kept, SealGoto, SealTypes, verdict
  <2>8. CASE \E n \in left[p] : CheckItem(p, n)
    BY <1>2, <1>4, <2>2, <2>8 DEF CheckItem, Check, Kept, SealTypes, verdict
  <2>9. CASE CheckRest(p)
    BY <1>2, <1>4, <2>2, <2>9 DEF CheckRest, EndArchive, Check, Kept, SealGoto, SealTypes, verdict
  <2>10. CASE Probe(p)
    BY <1>2, <1>4, <2>2, <2>10 DEF Probe, Kept, SealGoto, SealTypes, verdict, archive
  <2>11. CASE CheckTarget(p)
    BY <1>2, <1>4, <2>2, <2>11 DEF CheckTarget, Kept, SealGoto, SealTypes, verdict, archive
  <2>12. CASE UploadDrill(p)
    BY <1>2, <1>4, <2>2, <2>12 DEF UploadDrill, Kept, SealGoto, SealTypes, verdict, archive
  <2>13. CASE ReadDrill(p)
    BY <1>2, <1>4, <2>2, <2>13 DEF ReadDrill, Kept, SealGoto, SealTypes, verdict, archive
  <2>14. CASE DeleteDrill(p)
    BY <1>2, <1>4, <2>2, <2>14 DEF DeleteDrill, Kept, SealGoto, SealTypes, verdict, archive
  <2>15. CASE Confirm(p)
    BY <1>2, <1>4, <2>2, <2>15 DEF Confirm, Kept, SealGoto, SealTypes, verdict, archive
  <2>16. CASE KillSeal(p)
    BY <1>2, <1>4, <2>2, <2>16 DEF KillSeal, Kept, SealGoto, SealTypes, verdict, archive
  <2>17. QED
    BY <2>3, <2>4, <2>5, <2>6, <2>7, <2>8, <2>9, <2>10, <2>11, <2>12, <2>13, <2>14, <2>15,
       <2>16 DEF SealStep
<1>5. spc'[p] # "new"
  BY <1>2 DEF SealStep, StartSeal, ReadPointer, ListSnapshots, ListSidecars, CheckLatest, CheckItem,
     CheckRest, Probe, CheckTarget, UploadDrill, ReadDrill, DeleteDrill, Confirm, KillSeal,
     EndArchive, SealGoto, SealTypes
<1>6. CASE UNCHANGED crossed
  BY <1>1, <1>3, <1>4, <1>5, <1>6 DEF upstream, backup, cloud
<1>7. CASE Faulty /\ Crossed
  BY <1>1, <1>3, <1>4, <1>5, <1>7 DEF upstream, backup, cloud
<1>8. CASE StartSeal(p) /\ crossed' = [crossed EXCEPT ![p] = bpc # "idle"]
  BY <1>1, <1>2, <1>3, <1>4, <1>5, <1>8 DEF upstream, backup, cloud, SealTypes
<1>9. QED
  BY <1>3, <1>6, <1>7, <1>8

\* A seal that is not running does not care about the directory.
LEMMA QuietApart ==
    ASSUME NEW q \in Seals, Kept(q), Quiet(q), ~Running(q)
    PROVE  Quiet(q)'
BY DEF Quiet, Running, Kept, Looking, Drilling

LEMMA QInvStep == IInv /\ QInv /\ [Next]_vars => QInv'
<1> SUFFICES ASSUME IInv, QInv, [Next]_vars PROVE QInv'
  OBVIOUS
<1>0. IInv' /\ crossed \in [Seals -> BOOLEAN] /\ faults \in Nat /\ Upstream /\ Upstream'
  BY IInvNext DEF IInv, SealTypes, Upstream, SnapshotsTypeOK
<1>1. Faulty => faults' # 0
  BY <1>0 DEF Faulty
<1>2. ASSUME UNCHANGED <<taken, snaps, backup, faults, seal>> PROVE QInv'
  <2>1. /\ UNCHANGED <<remote, sidecars, pointer, bpc, bnum, bdoomed, drills, late>>
        /\ UNCHANGED <<spc, mode, latest, listed, beside, left, ok, probed, target, restored,
                       crossed>>
    BY <1>2 DEF backup, cloud, seal, drill, verdict, archive
  <2>2. faults' = 0 => Calm'
    BY <1>2, <2>1, CalmKept DEF QInv
  <2>3. ASSUME NEW q \in Seals PROVE Kept(q)
    BY <2>1 DEF Kept
  <2>4. QED
    BY <1>2, <2>1, <2>2, <2>3, QuietKept DEF QInv
<1>3. CASE UNCHANGED vars
  BY <1>2, <1>3 DEF vars, upstream
<1>4. CASE ServerWrites
  BY <1>2, <1>4 DEF ServerWrites, Put
<1>5. CASE BackupRuns
  <2>1. /\ UNCHANGED <<drills, late, spc, mode, latest, listed, beside, left, ok, probed, target,
                       restored>>
        /\ BackupNext /\ Crossed
    BY <1>5 DEF BackupRuns, drill, verdict, archive
  <2>2. faults' = faults \/ Faulty
    BY <2>1 DEF BackupNext, StartBackup, DownloadToStage, UploadCopy, VerifyCopy, WriteSidecar,
       WritePointer, DeleteSnapshot, ListCopies, EndBackup, BackupFails, RemoveCopy, RemoveSidecar
  <2>3. faults' = 0 => faults = 0 /\ ~Faulty
    BY <1>1, <2>2
  <2>4. faults' = 0 => Calm'
    BY <1>0, <2>1, <2>3, BackupCalm DEF QInv
  <2>5. ASSUME NEW q \in Seals PROVE Kept(q) /\ crossed'[q] = (crossed[q] \/ Running(q))
    BY <2>1 DEF Kept, Crossed
  <2>6. ASSUME NEW q \in Seals, spc'[q] = "new" PROVE ~crossed'[q]
    BY <2>1, <2>5, <2>6 DEF QInv, Running
  <2>7. ASSUME NEW q \in Seals, faults' = 0, ~crossed'[q] PROVE Quiet(q)'
    BY <2>3, <2>5, <2>7, QuietApart DEF QInv
  <2>8. QED
    BY <2>4, <2>6, <2>7 DEF QInv
<1>6. CASE LandLate
  <2>1. late # {} /\ UNCHANGED <<faults, spc, crossed>>
    BY <1>6 DEF LandLate
  <2>2. faults' # 0
    BY <2>1 DEF QInv, Calm
  <2>3. QED
    BY <2>1, <2>2 DEF QInv
<1>7. ASSUME NEW n \in Numbers, Rot(n) PROVE QInv'
  <2>1. spc' = spc /\ Crossed /\ faults' # 0
    BY <1>1, <1>7 DEF Rot
  <2>2. ASSUME NEW q \in Seals, spc'[q] = "new" PROVE ~crossed'[q]
    BY <2>1, <2>2 DEF QInv, Crossed, Running
  <2>3. QED
    BY <2>1, <2>2 DEF QInv
<1>8. ASSUME NEW p \in Seals, SealStep(p) PROVE QInv'
  <2>1. /\ UNCHANGED <<taken, snaps, remote, sidecars, pointer, bpc, bnum, bdoomed>>
        /\ \A q \in Seals \ {p} : Kept(q)
        /\ spc'[p] # "new"
        /\ ~Faulty => UNCHANGED <<faults, late>>
        /\ Faulty \/ StartSeal(p) \/ crossed'[p] = crossed[p]
        /\ \A q \in Seals \ {p} : crossed'[q] = crossed[q] \/ (Faulty /\ Crossed)
    BY <1>8, SealApart
  <2>2. ASSUME NEW q \in Seals, spc'[q] = "new" PROVE ~crossed'[q]
    <3>1. q # p /\ Kept(q) /\ spc[q] = "new" /\ ~crossed[q]
      BY <2>1, <2>2 DEF Kept, QInv
    <3>2. QED
      BY <2>1, <3>1 DEF Crossed, Running
  <2>3. faults' = 0 => faults = 0 /\ ~Faulty
    BY <1>1, <2>1
  <2>4. faults' = 0 => Calm'
    BY <2>1, <2>3, CalmKept DEF QInv
  <2>5. ASSUME NEW q \in Seals, faults' = 0, ~crossed'[q] PROVE Quiet(q)'
    <3>1. CASE q = p
      <4>1. ~crossed[p]
        BY <2>1, <2>3, <2>5, <3>1 DEF StartSeal, QInv
      <4>2. Calm /\ Quiet(p)
        BY <2>3, <2>5, <4>1 DEF QInv
      <4>3. QED
        BY <1>8, <2>3, <2>5, <3>1, <4>2, SealQuiet
    <3>2. CASE q # p
      <4>1. Kept(q) /\ crossed'[q] = crossed[q]
        BY <2>1, <2>3, <2>5, <3>2
      <4>2. Quiet(q)
        BY <2>3, <2>5, <4>1 DEF QInv
      <4>3. QED
        BY <2>1, <4>1, <4>2, QuietKept
    <3>3. QED
      BY <3>1, <3>2
  <2>6. QED
    BY <2>2, <2>4, <2>5 DEF QInv
<1>9. QED
  BY <1>3, <1>4, <1>5, <1>6, <1>7, <1>8 DEF Next

-----------------------------------------------------------------------------
(* The theorems *)

\* The invariant holds in every state, whatever the backup, the server, the
\* cloud and other seals do.
THEOREM SealInductive == Spec => []IInv
<1>1. Init => IInv
  BY IInvInit
<1>2. IInv /\ [Next]_vars => IInv'
  BY IInvNext
<1>3. QED
  BY <1>1, <1>2, PTL DEF Spec

\* Type correctness.
THEOREM SealTypesHold == Spec => []TypeOK
<1>1. IInv => TypeOK
  BY DEF IInv, Upstream, SealTypes, TypeOK, Hashed, Stages
<1>2. QED
  BY <1>1, SealInductive, PTL

\* No SEALED over a copy that was torn when the seal began and is still there
\* when it ends, unless --latest-only left it out (deployment.py:281-374).
THEOREM NoTornSealed == Spec => []SealSeesTorn
<1>1. IInv => SealSeesTorn
  <2>1. SUFFICES ASSUME IInv, NEW p \in Seals, Sealed(p), NEW n \in torn[p]
                 PROVE  remote[n] = "absent" \/ (~full[p] /\ n # latest[p])
    BY DEF SealSeesTorn
  <2>2. Looked(p) /\ spc[p] = "SEALED"
    BY <2>1 DEF IInv, Sealed
  <2>3. QED
    BY <2>2 DEF Looked
<1>2. QED
  BY <1>1, SealInductive, PTL

\* A SEALED deployment with a collection of its own restored what the snapshot
\* of latest.json was taken of (deployment.py:481-576).
THEOREM RestoredIsTaken == Spec => []SealedIsRestored
<1>1. IInv => SealedIsRestored
  <2>1. SUFFICES ASSUME IInv, NEW p \in Seals, Deployed(p), target[p] # Named
                 PROVE  restored[p] = taken[latest[p]]
    BY DEF SealedIsRestored
  <2>2. Looked(p) /\ Restores(p) /\ spc[p] = "SEALED" /\ mode[p] = "deployment" /\ target[p] = p
    BY <2>1 DEF IInv, SealTypes, Deployed, Sealed
  <2>3. QED
    BY <2>2 DEF Looked, Restores
<1>2. QED
  BY <1>1, SealInductive, PTL

\* After a SEALED deployment its drill collection is gone, and no upload is on
\* its way that would bring it back (deployment.py:499-510).
THEOREM NothingLeft == Spec => []NothingLeftBehind
<1>1. IInv => NothingLeftBehind
  <2>1. SUFFICES ASSUME IInv, NEW p \in Seals, Deployed(p), target[p] # Named
                 PROVE  drills[p] = None
    BY DEF NothingLeftBehind
  <2>2. Restores(p) /\ spc[p] = "SEALED" /\ mode[p] = "deployment" /\ target[p] = p
    BY <2>1 DEF IInv, SealTypes, Deployed, Sealed
  <2>3. QED
    BY <2>2 DEF Restores
<1>2. QED
  BY <1>1, SealInductive, PTL

\* No step of a drill touches a collection of the given name that was there
\* before (deployment.py:474-480).
THEOREM ForeignStays == Spec => ForeignSpared
<1>1. IInv /\ [Next]_vars => [drills[Named] = Foreign => drills'[Named] = Foreign]_vars
  <2>1. SUFFICES ASSUME IInv, Next, drills[Named] = Foreign PROVE drills'[Named] = Foreign
    OBVIOUS
  <2>2. SealTypes /\ Spared /\ Named \in Targets /\ Named \notin Seals
    BY <2>1, SealAssumption DEF IInv, Targets
  <2>3. CASE UNCHANGED drills
    BY <2>1, <2>3
  <2>4. CASE LandLate
    <3>1. PICK u \in late : drills' = [drills EXCEPT ![u[1]] = u[2]]
      BY <2>4 DEF LandLate
    <3>2. u[1] # Named
      BY <2>1, <2>2, <3>1 DEF Spared
    <3>3. QED
      BY <2>1, <2>2, <3>1, <3>2 DEF SealTypes
  <2>5. ASSUME NEW p \in Seals, UploadDrill(p) \/ DeleteDrill(p) PROVE drills'[Named] = Foreign
    <3>1. target[p] # Named
      BY <2>1, <2>2, <2>5 DEF Spared, UploadDrill, DeleteDrill
    <3>2. drills' = drills \/ \E v : drills' = [drills EXCEPT ![target[p]] = v]
      BY <2>5 DEF UploadDrill, DeleteDrill, drill
    <3>3. QED
      BY <2>1, <2>2, <3>1, <3>2 DEF SealTypes
  <2>6. UNCHANGED drills \/ LandLate \/ \E p \in Seals : UploadDrill(p) \/ DeleteDrill(p)
    <3>1. ASSUME NEW p \in Seals, SealStep(p), ~UploadDrill(p), ~DeleteDrill(p)
          PROVE  UNCHANGED drills
      BY <3>1 DEF SealStep, StartSeal, ReadPointer, ListSnapshots, ListSidecars, CheckLatest,
         CheckItem, CheckRest, Probe, CheckTarget, ReadDrill, Confirm, KillSeal, drill
    <3>2. BackupRuns \/ ServerWrites \/ (\E n \in Numbers : Rot(n)) => UNCHANGED drills
      BY DEF BackupRuns, ServerWrites, Rot, drill, seal
    <3>3. QED
      BY <2>1, <3>1, <3>2 DEF Next
  <2>7. QED
    BY <2>3, <2>4, <2>5, <2>6
<1>2. QED
  BY <1>1, SealInductive, PTL DEF Spec, ForeignSpared

\* A seal of a directory in which no run has failed, and that no backup, error or
\* rotten copy crosses, says SEALED: what retention and earlier runs leave behind
\* never fails it (deployment.py:281-374, 517-576; memorybridge_cloud_backup.py:246-351).
THEOREM QuietSealsPass == Spec => []QuietSealPasses
<1>1. Init => QInv
  BY QInvInit
<1>2. IInv /\ QInv /\ [Next]_vars => QInv'
  BY QInvStep
<1>3. QInv => QuietSealPasses
  BY DEF QInv, Quiet, QuietSealPasses
<1>4. QED
  BY <1>1, <1>2, <1>3, SealInductive, PTL DEF Spec

=============================================================================
