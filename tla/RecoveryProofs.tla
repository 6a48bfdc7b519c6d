--------------------------- MODULE RecoveryProofs ---------------------------
(***************************************************************************)
(* TLAPS proofs about Recovery, for every number of archivers, snapshots,  *)
(* failures and power losses, and every retention.                         *)
(***************************************************************************)
EXTENDS Recovery, FiniteSetTheorems, WellFoundedInduction, TLAPS

\* Numbers are given out once and stay within the bound.
Counted ==
    /\ live \in Contents \cup {None}
    /\ taken \in Seq(Contents)
    /\ Len(taken) <= MaxSnapshots

LEMMA CountedInit == Init => Counted
BY SnapshotsAssumption DEF Init, InitSnapshots, Counted, Contents

\* Only the creation of a snapshot changes what was taken, and only at its end.
LEMMA SnapshotTaken ==
    ASSUME Counted, CreateSnapshot, live' = live
    PROVE  /\ Counted'
           /\ Len(taken') = Len(taken) + 1
           /\ \A n \in Numbers : taken'[n] = taken[n]
<1>1. live \in Contents
  BY DEF Counted, CreateSnapshot
<1>2. taken' = Append(taken, live) /\ Len(taken) \in Nat /\ Len(taken) < MaxSnapshots
  BY DEF Counted, CreateSnapshot
<1>3. taken' \in Seq(Contents) /\ Len(taken') = Len(taken) + 1
  BY <1>1, <1>2 DEF Counted
<1>4. ASSUME NEW n \in Numbers PROVE taken'[n] = taken[n]
  <2>1. taken \in Seq(Contents) /\ n \in 1..Len(taken)
    BY DEF Counted, Numbers
  <2>2. QED
    BY <1>1, <1>2, <2>1
<1>5. MaxSnapshots \in Nat
  BY SnapshotsAssumption
<1>6. Len(taken') <= MaxSnapshots
  BY <1>2, <1>3, <1>5
<1>7. Counted'
  BY <1>3, <1>6 DEF Counted
<1>8. QED
  BY <1>3, <1>4, <1>7

LEMMA Bounds ==
    ASSUME Counted
    PROVE  Len(taken) \in Nat /\ MaxSnapshots \in Nat /\ Numbers \subseteq 1..MaxSnapshots
<1>1. Len(taken) \in Nat /\ MaxSnapshots \in Nat
  BY SnapshotsAssumption DEF Counted
<1>2. QED
  BY <1>1 DEF Counted, Numbers

LEMMA CountedKept ==
    ASSUME Counted, UNCHANGED taken, live' \in Contents \cup {None}
    PROVE  Counted'
BY DEF Counted

-----------------------------------------------------------------------------
(* The cloud *)

Remaining == {"delete", "list", "prune", "rm sidecar"}

\* The run's own copy is the latest there is; it does not overwrite one, and
\* once latest.json names it, retention cannot reach it.
Run ==
    /\ remote \in [1..MaxSnapshots -> {"absent", "whole", "torn"}]
    /\ pointer \in 0..MaxSnapshots
    /\ \A n \in Copies : n <= Len(taken)
    /\ bpc # "idle" => bnum \in Numbers /\ \A n \in Copies : n <= bnum
    /\ bpc \in {"download", "upload"} => remote[bnum] = "absent"
    /\ bpc \in {"sidecar", "pointer"} => remote[bnum] = "whole"
    /\ bpc = "pointer" => bnum \in sidecars
    /\ bpc \in Remaining => pointer = bnum
    /\ bpc \in {"prune", "rm sidecar"} => pointer \notin bdoomed

CloudInv == Counted /\ Run /\ PointerProven

\* The largest element of a set is among its newest.
LEMMA LargestIsNewest ==
    ASSUME NEW S \in SUBSET Nat, NEW n \in S, \A m \in S : m <= n, NEW k \in Nat \ {0}
    PROVE  n \in Newest(S, k)
<1>1. ASSUME NEW m \in S PROVE ~(m > n)
  <2>1. m \in Nat /\ n \in Nat /\ m <= n
    OBVIOUS
  <2>2. QED
    BY <2>1
<1> {m \in S : m > n} = {}
  BY <1>1
<1>2. Cardinality({m \in S : m > n}) = 0
  BY FS_EmptySet
<1>3. QED
  BY <1>2 DEF Newest

LEMMA CloudInit == Init => CloudInv
<1> SUFFICES ASSUME Init PROVE CloudInv
  OBVIOUS
<1>1. Counted
  BY CountedInit
<1>2. Run /\ PointerProven
  BY SnapshotsAssumption DEF Init, InitBackup, InitSnapshots, Run, Copies, Remaining,
     PointerProven
<1>3. QED
  BY <1>1, <1>2 DEF CloudInv

\* Steps of the others do not touch the cloud or the run.
LEMMA CloudAlone ==
    ASSUME CloudInv, UNCHANGED backup, Counted', Len(taken) <= Len(taken')
    PROVE  CloudInv'
<1>1. UNCHANGED <<remote, sidecars, pointer, bpc, bnum, bdoomed>>
  BY DEF backup, cloud
<1>2. Numbers \subseteq Numbers' /\ \A n \in Nat : n <= Len(taken) => n <= Len(taken')
  <2>1. Len(taken) \in Nat /\ Len(taken') \in Nat
    BY DEF CloudInv, Counted
  <2>2. QED
    BY <2>1 DEF Numbers
<1>3. Copies' = Copies /\ Copies \subseteq Nat
  BY <1>1 DEF Copies
<1>4. Run'
  BY <1>1, <1>2, <1>3 DEF CloudInv, Run
<1>5. PointerProven'
  BY <1>1 DEF CloudInv, PointerProven, Proven
<1>6. QED
  BY <1>4, <1>5 DEF CloudInv

\* A run that ends leaves the cloud as it is.
LEMMA CloudRunEnds ==
    ASSUME CloudInv, UNCHANGED cloud, Counted', taken' = taken, bpc' = "idle"
    PROVE  CloudInv'
BY DEF CloudInv, Counted, Run, PointerProven, Proven, Copies, Numbers, cloud, Remaining

LEMMA CloudStep == ASSUME CloudInv, BackupNext PROVE CloudInv'
<1> USE DEF CloudInv
<1>0. Len(taken) \in Nat /\ MaxSnapshots \in Nat /\ Numbers \subseteq 1..MaxSnapshots
  BY Bounds
<1>p. pointer \in 0..MaxSnapshots /\ \A n \in Copies : n \in 1..MaxSnapshots /\ n <= Len(taken)
  BY DEF Run, Copies
<1>1. CASE StartBackup
  <2>1. /\ Counted' /\ Len(taken') = Len(taken) + 1
    BY <1>1, SnapshotTaken DEF StartBackup
  <2>2. Len(taken) \in Nat /\ Len(taken') <= MaxSnapshots
    BY <2>1 DEF Counted
  <2>3. UNCHANGED cloud /\ bnum' = Len(taken) + 1 /\ bpc' = "download"
    BY <1>1 DEF StartBackup
  <2>4. /\ bnum' \in Numbers' /\ bnum' \in 1..MaxSnapshots
        /\ Copies' = Copies
        /\ \A n \in Copies : n <= Len(taken') /\ n <= bnum' /\ n # bnum'
    <3>1. \A n \in Copies : n \in Nat /\ n <= Len(taken)
      BY <1>0, <1>p
    <3>2. Copies' = Copies
      BY <2>3 DEF Copies, cloud
    <3>3. QED
      BY <1>0, <2>1, <2>2, <2>3, <3>1, <3>2 DEF Numbers
  <2>5. remote'[bnum'] = "absent"
    BY <2>3, <2>4 DEF Copies, cloud
  <2>7. Run'
    BY <2>3, <2>4, <2>5 DEF Run, cloud, Remaining
  <2>6. PointerProven'
    BY <2>3 DEF PointerProven, Proven, cloud
  <2>8. QED
    BY <2>1, <2>6, <2>7
<1>2. CASE DownloadToStage
  <2>1. Counted'
    BY <1>2, CountedKept DEF DownloadToStage, Counted
  <2>2. CASE bnum \in snaps
    BY <1>2, <2>1, <2>2 DEF DownloadToStage, BackupGoto, Run, PointerProven, Proven, Copies,
       Numbers, cloud, Remaining
  <2>3. CASE bnum \notin snaps
    BY <1>2, <2>1, <2>3, CloudRunEnds DEF DownloadToStage, BackupGoto
  <2>4. QED
    BY <2>2, <2>3
<1>3. CASE UploadCopy
  <2>1. Counted'
    BY <1>3, CountedKept DEF UploadCopy, Counted
  <2>2. /\ bnum \in Numbers /\ bnum \in 1..MaxSnapshots /\ remote[bnum] = "absent"
        /\ \A n \in Copies : n <= bnum
    BY <1>3, <1>0 DEF UploadCopy, Run
  <2>3. PICK s \in {"whole", "torn"} : remote' = [remote EXCEPT ![bnum] = s]
    BY <1>3 DEF UploadCopy
  <2>4. Copies' = Copies \cup {bnum}
    BY <2>2, <2>3 DEF Copies, Run
  <2>5. Run'
    BY <1>3, <1>0, <2>2, <2>3, <2>4 DEF UploadCopy, BackupGoto, Run, Numbers, Remaining
  <2>6. pointer # 0 => pointer # bnum
    BY <2>2 DEF PointerProven, Proven
  <2>7. PointerProven'
    BY <1>3, <2>3, <2>6 DEF UploadCopy, Run, PointerProven, Proven
  <2>8. QED
    BY <2>1, <2>5, <2>7
<1>4. CASE VerifyCopy
  <2>1. Counted'
    BY <1>4, CountedKept DEF VerifyCopy, Counted
  <2>2. CASE remote[bnum] = "whole"
    BY <1>4, <2>1, <2>2 DEF VerifyCopy, BackupGoto, Run, PointerProven, Proven, Copies,
       Numbers, cloud, Remaining
  <2>3. CASE remote[bnum] # "whole"
    BY <1>4, <2>1, <2>3, CloudRunEnds DEF VerifyCopy, BackupGoto
  <2>4. QED
    BY <2>2, <2>3
<1>5. CASE WriteSidecar
  <2>1. Counted'
    BY <1>5, CountedKept DEF WriteSidecar, Counted
  <2>2. QED
    BY <1>5, <2>1 DEF WriteSidecar, BackupGoto, Run, PointerProven, Proven, Copies, Numbers,
       Remaining
<1>6. CASE WritePointer
  <2>1. Counted'
    BY <1>6, CountedKept DEF WritePointer, Counted
  <2>2. bnum \in 1..MaxSnapshots
    BY <1>6, <1>0 DEF WritePointer, Run
  <2>3. QED
    BY <1>6, <2>1, <2>2 DEF WritePointer, BackupGoto, Run, PointerProven, Proven, Copies,
       Numbers, Remaining
<1>7. CASE DeleteSnapshot
  <2>1. Counted'
    BY <1>7, CountedKept DEF DeleteSnapshot, Counted
  <2>2. CASE bnum \in snaps
    BY <1>7, <2>1, <2>2 DEF DeleteSnapshot, BackupGoto, Run, PointerProven, Proven, Copies,
       Numbers, cloud, Remaining
  <2>3. CASE bnum \notin snaps
    BY <1>7, <2>1, <2>3, CloudRunEnds DEF DeleteSnapshot, BackupGoto
  <2>4. QED
    BY <2>2, <2>3
<1>8. CASE ListCopies
  <2>1. Counted'
    BY <1>8, CountedKept DEF ListCopies, Counted
  <2>2. pointer = bnum /\ bnum \in Numbers /\ \A n \in Copies : n <= bnum
    BY <1>8 DEF ListCopies, Run, Remaining
  <2>3. pointer \in Copies
    BY <1>0, <2>2 DEF Copies, PointerProven, Proven, Numbers
  <2>4. pointer \in Newest(Copies, RemoteKeep)
    <3>1. Copies \in SUBSET Nat
      BY DEF Copies
    <3>2. QED
      BY <2>2, <2>3, <3>1, LargestIsNewest, BackupAssumption
  <2>5. pointer \notin bdoomed'
    BY <1>8, <2>4 DEF ListCopies, Outdated
  <2>6. QED
    BY <1>8, <2>1, <2>5 DEF ListCopies, BackupGoto, Run, PointerProven, Proven, Copies,
       Numbers, cloud, Remaining
<1>9. CASE EndBackup
  BY <1>9, CountedKept, CloudRunEnds DEF EndBackup, BackupGoto, Counted
<1>10. CASE BackupFails
  BY <1>10, CountedKept, CloudRunEnds DEF BackupFails, BackupGoto, Counted
<1>11. ASSUME NEW n \in bdoomed, RemoveCopy(n) PROVE CloudInv'
  <2>1. Counted'
    BY <1>11, CountedKept DEF RemoveCopy, Counted
  <2>2. n # pointer /\ pointer' = pointer /\ sidecars' = sidecars /\ taken' = taken
    BY <1>11 DEF RemoveCopy, Run
  <2>3. CASE remote' = [remote EXCEPT ![n] = "absent"] /\ BackupGoto("rm sidecar")
             /\ bdoomed' = bdoomed
    <3>1. Copies' \subseteq Copies /\ remote' \in [1..MaxSnapshots -> {"absent", "whole", "torn"}]
      BY <2>3 DEF Copies, Run
    <3>2. Run'
      BY <1>11, <2>2, <2>3, <3>1 DEF RemoveCopy, BackupGoto, Run, Numbers, Remaining
    <3>3. pointer \in 1..MaxSnapshots => remote'[pointer] = remote[pointer]
      BY <2>2, <2>3 DEF Run
    <3>4. pointer # 0 => pointer \in 1..MaxSnapshots
      BY <1>0, <1>p
    <3>5. PointerProven'
      BY <2>2, <3>3, <3>4 DEF PointerProven, Proven
    <3>6. QED
      BY <2>1, <3>2, <3>5
  <2>4. CASE bdoomed' = bdoomed \ {n} /\ UNCHANGED <<remote, bpc, bnum>>
    BY <2>1, <2>2, <2>4 DEF Run, PointerProven, Proven, Copies, Numbers, Remaining
  <2>5. QED
    BY <1>11, <2>3, <2>4 DEF RemoveCopy
<1>12. ASSUME NEW n \in bdoomed, RemoveSidecar(n) PROVE CloudInv'
  <2>1. Counted'
    BY <1>12, CountedKept DEF RemoveSidecar, Counted
  <2>2. n # pointer
    BY <1>12 DEF RemoveSidecar, Run
  <2>3. QED
    BY <1>12, <2>1, <2>2 DEF RemoveSidecar, BackupGoto, Run, PointerProven, Proven, Copies,
       Numbers, Remaining
<1>13. QED
  BY <1>1, <1>2, <1>3, <1>4, <1>5, <1>6, <1>7, <1>8, <1>9, <1>10, <1>11, <1>12 DEF BackupNext

-----------------------------------------------------------------------------
(* The archive *)

Exported == {"sync export", "stamp", "publish"}
Restores == {"verify", "exists", "delete", "upload", "check"}

\* The export of snapshot n has the records of snapshot n.
Same(n) == n \in Numbers /\ portable[n] = taken[n]

\* Whatever can lead to a manifest or comes from one describes one moment:
\* exports on their way, manifests that a power loss may bring back, restores.
Moments ==
    /\ portable \in [1..MaxSnapshots -> Contents \cup {None}]
    /\ pc \in [Archivers -> Labels] /\ num \in [Archivers -> Nat]
    /\ \A a \in Archivers : pc[a] # "idle" => num[a] \in Numbers
    /\ \A a \in Archivers : pc[a] \in Exported => Same(num[a])
    /\ \A n : <<"manifest", n>> \in dir \cup disk => Same(n)
    /\ rpc \in Restores => Same(rnum)

ArchiveInv == Counted /\ Moments

LEMMA ArchiveInit == Init => ArchiveInv
<1> SUFFICES ASSUME Init PROVE ArchiveInv
  OBVIOUS
<1>1. Counted
  BY CountedInit
<1>2. Moments
  BY DEF Init, InitArchive, Moments, Labels, Exported, Restores
<1>3. QED
  BY <1>1, <1>2 DEF ArchiveInv

\* A snapshot made by anyone leaves what is archived alone.
LEMMA SameKept ==
    ASSUME Counted, CreateSnapshot, live' = live, portable' = portable
    PROVE  (\A n : Same(n) => Same(n)') /\ Numbers \subseteq Numbers'
<1>1. Len(taken') = Len(taken) + 1 /\ \A n \in Numbers : taken'[n] = taken[n]
  BY SnapshotTaken
<1>2. Numbers \subseteq Numbers'
  BY <1>1, Bounds DEF Numbers
<1>3. QED
  BY <1>1, <1>2 DEF Same

\* Steps of the others.
LEMMA ArchiveAlone ==
    ASSUME ArchiveInv, UNCHANGED archive, Counted',
           Numbers \subseteq Numbers', \A n : Same(n) => Same(n)'
    PROVE  ArchiveInv'
<1>1. UNCHANGED <<dir, disk, portable, pc, num, rpc, rnum>>
  BY DEF archive, files, archiving, restoring
<1>2. QED
  BY <1>1 DEF ArchiveInv, Moments

\* A step of an archiver to l, with its snapshot's moment as it was.
LEMMA ArchiverGoes ==
    ASSUME ArchiveInv, NEW a \in Archivers, NEW l \in Labels,
           pc' = [pc EXCEPT ![a] = l],
           num' = [num EXCEPT ![a] = IF l = "idle" THEN 0 ELSE num[a]],
           pc[a] # "idle", l \in Exported => Same(num[a])',
           portable' \in [1..MaxSnapshots -> Contents \cup {None}],
           \A n : Same(n) => Same(n)',
           \A n : <<"manifest", n>> \in dir' \cup disk' => Same(n)',
           live' \in Contents \cup {None}, taken' = taken, rpc' = rpc, rnum' = rnum
    PROVE  ArchiveInv'
<1>1. Counted'
  BY CountedKept DEF ArchiveInv
<1>2. pc' \in [Archivers -> Labels] /\ num' \in [Archivers -> Nat]
  BY DEF ArchiveInv, Moments
<1>3. \A b \in Archivers : pc'[b] # "idle" => num'[b] = num[b] /\ num[b] \in Numbers
  BY DEF ArchiveInv, Moments
<1>4. \A b \in Archivers : pc'[b] # "idle" => num'[b] \in Numbers'
  BY <1>3 DEF Numbers
<1>5. ASSUME NEW b \in Archivers, pc'[b] \in Exported PROVE Same(num[b])' /\ num'[b] = num[b]
  <2>1. num'[b] = num[b]
    BY <1>3, <1>5 DEF Exported
  <2>2. CASE b = a
    BY <1>5, <2>1, <2>2 DEF ArchiveInv, Moments
  <2>3. CASE b # a
    BY <1>5, <2>1, <2>3 DEF ArchiveInv, Moments
  <2>4. QED
    BY <2>1, <2>2, <2>3
<1>6. rpc' \in Restores => Same(rnum)'
  BY DEF ArchiveInv, Moments
<1>7. Moments'
  BY <1>2, <1>4, <1>5, <1>6 DEF Moments
<1>8. QED
  BY <1>1, <1>7 DEF ArchiveInv
LEMMA GotoForm ==
    ASSUME ArchiveInv, NEW a \in Archivers, NEW l, Goto(a, l)
    PROVE  /\ pc' = [pc EXCEPT ![a] = l]
           /\ num' = [num EXCEPT ![a] = IF l = "idle" THEN 0 ELSE num[a]]
BY DEF ArchiveInv, Moments, Goto

\* A step of an archiver that changes none of the moments, nor the directory
\* but by removing names from it or flushing it.
LEMMA ArchiverMoves ==
    ASSUME ArchiveInv, NEW a \in Archivers, NEW l \in Labels, Goto(a, l), pc[a] # "idle",
           l \in Exported => pc[a] \in Exported,
           dir' \cup disk' \subseteq dir \cup disk,
           live' = live, taken' = taken, portable' = portable, rpc' = rpc, rnum' = rnum
    PROVE  ArchiveInv'
<1>1. \A n : Same(n) => Same(n)'
  BY DEF Same, Numbers
<1>2. \A n : <<"manifest", n>> \in dir' \cup disk' => Same(n)'
  BY <1>1 DEF ArchiveInv, Moments
<1>3. l \in Exported => Same(num[a])'
  <2>1. ASSUME l \in Exported PROVE num'[a] = num[a] /\ Same(num[a])
    BY <2>1, GotoForm DEF ArchiveInv, Moments, Exported
  <2>2. QED
    BY <2>1 DEF Same, Numbers
<1>4. portable' \in [1..MaxSnapshots -> Contents \cup {None}] /\ live' \in Contents \cup {None}
  BY DEF ArchiveInv, Moments, Counted
<1>5. QED
  BY <1>1, <1>2, <1>3, <1>4, GotoForm, ArchiverGoes

LEMMA ArchiverStep ==
    ASSUME ArchiveInv, NEW a \in Archivers, Archiving(a)
    PROVE  ArchiveInv'
<1> USE DEF Labels, Exported, After
<1>1. CASE StartArchive(a)
  <2>1. UNCHANGED <<dir, disk, portable, rpc, rnum>> /\ CreateSnapshot /\ live' = live
    BY <1>1 DEF StartArchive, files, restoring
  <2>2. /\ Counted' /\ Numbers \subseteq Numbers' /\ \A n : Same(n) => Same(n)'
        /\ Len(taken) + 1 \in Numbers' /\ Len(taken) + 1 \in Nat
    BY <2>1, SameKept, SnapshotTaken, Bounds DEF ArchiveInv, Numbers
  <2>3. pc' = [pc EXCEPT ![a] = "download"] /\ num' = [num EXCEPT ![a] = Len(taken) + 1]
    BY <1>1 DEF StartArchive
  <2>4. pc' \in [Archivers -> Labels] /\ num' \in [Archivers -> Nat]
    BY <2>2, <2>3 DEF ArchiveInv, Moments
  <2>5. \A b \in Archivers : pc'[b] # "idle" => num'[b] \in Numbers'
    BY <2>2, <2>3 DEF ArchiveInv, Moments
  <2>6. \A b \in Archivers : pc'[b] \in Exported => pc[b] \in Exported /\ num'[b] = num[b]
    BY <2>3 DEF ArchiveInv, Moments
  <2>7. \A b \in Archivers : pc'[b] \in Exported => Same(num[b])'
    BY <2>2, <2>6 DEF ArchiveInv, Moments, Same
  <2>8. Moments'
    BY <2>1, <2>2, <2>4, <2>5, <2>7 DEF ArchiveInv, Moments
  <2>9. QED
    BY <2>2, <2>8 DEF ArchiveInv
<1>2. CASE Download(a)
  <2>1. CASE num[a] \in snaps
    <3>1. /\ pc[a] # "idle" /\ Goto(a, "sync snapshot")
          /\ UNCHANGED <<live, taken, portable, rpc, rnum, disk>>
          /\ dir' = dir \cup {<<"snapshot", num[a]>>}
      BY <1>2, <2>1 DEF Download, Place, qdrant, restoring
    <3>2. \A n : Same(n) => Same(n)'
      BY <3>1 DEF Same, Numbers
    <3>3. \A n : <<"manifest", n>> \in dir' \cup disk' => Same(n)'
      BY <3>1, <3>2 DEF ArchiveInv, Moments
    <3>4. portable' \in [1..MaxSnapshots -> Contents \cup {None}] /\ live' \in Contents \cup {None}
      BY <3>1 DEF ArchiveInv, Moments, Counted
    <3>5. QED
      BY <3>1, <3>2, <3>3, <3>4, GotoForm, ArchiverGoes
  <2>2. CASE num[a] \notin snaps
    BY <1>2, <2>2, ArchiverMoves DEF Download, files, qdrant, restoring
  <2>3. QED
    BY <2>1, <2>2
<1>3. CASE Sync(a)
  <2>1. /\ pc[a] \in DOMAIN After /\ pc[a] # "idle" /\ Goto(a, After[pc[a]])
        /\ UNCHANGED <<live, taken, portable, rpc, rnum, dir>> /\ disk' = dir
    BY <1>3 DEF Sync, qdrant, restoring
  <2>2. After[pc[a]] \in Labels /\ (After[pc[a]] \in Exported => pc[a] \in Exported)
    BY <2>1
  <2>3. QED
    BY <2>1, <2>2, ArchiverMoves
<1>4. CASE Drill(a)
  <2>1. /\ pc[a] # "idle" /\ Goto(a, "sync export") /\ num[a] \in Numbers /\ num' = num
        /\ UNCHANGED <<live, taken, rpc, rnum, disk>>
        /\ dir' = dir \cup {<<"export", num[a]>>}
        /\ portable' = [portable EXCEPT ![num[a]] = taken[num[a]]]
    BY <1>4 DEF Drill, Place, Goto, qdrant, restoring, ArchiveInv, Moments
  <2>2. num[a] \in 1..MaxSnapshots /\ taken[num[a]] \in Contents
    <3>1. num[a] \in 1..Len(taken) /\ taken \in Seq(Contents)
      BY <2>1 DEF Numbers, ArchiveInv, Counted
    <3>2. taken[num[a]] \in Contents
      BY <3>1
    <3>3. Numbers \subseteq 1..MaxSnapshots
      BY Bounds DEF ArchiveInv
    <3>4. QED
      BY <2>1, <3>2, <3>3
  <2>3. portable' \in [1..MaxSnapshots -> Contents \cup {None}]
    BY <2>1, <2>2 DEF ArchiveInv, Moments
  <2>4. \A n \in 1..MaxSnapshots : portable'[n] = IF n = num[a] THEN taken[n] ELSE portable[n]
    BY <2>1 DEF ArchiveInv, Moments
  <2>5. \A n : Same(n) => Same(n)'
    BY <2>1, <2>4, Bounds DEF ArchiveInv, Same, Numbers
  <2>6. Same(num[a])'
    BY <2>1, <2>2, <2>4 DEF Same, Numbers
  <2>7. \A n : <<"manifest", n>> \in dir' \cup disk' => Same(n)'
    BY <2>1, <2>5 DEF ArchiveInv, Moments
  <2>8. live' \in Contents \cup {None}
    BY <2>1 DEF ArchiveInv, Counted
  <2>9. QED
    BY <2>1, <2>3, <2>5, <2>6, <2>7, <2>8, GotoForm, ArchiverGoes
<1>5. CASE Stamp(a)
  BY <1>5, ArchiverMoves DEF Stamp, files, qdrant, restoring
<1>6. CASE Publish(a)
  <2>1. /\ pc[a] = "publish" /\ Goto(a, "sync manifest")
        /\ UNCHANGED <<live, taken, portable, rpc, rnum, disk>>
        /\ dir' = dir \cup {<<"manifest", num[a]>>}
    BY <1>6 DEF Publish, Place, qdrant, restoring
  <2>2. \A n : Same(n) => Same(n)'
    BY <2>1 DEF Same, Numbers
  <2>3. Same(num[a])
    BY <2>1 DEF ArchiveInv, Moments
  <2>4. \A n : <<"manifest", n>> \in dir' \cup disk' => Same(n)'
    BY <2>1, <2>2, <2>3 DEF ArchiveInv, Moments
  <2>5. portable' \in [1..MaxSnapshots -> Contents \cup {None}] /\ live' \in Contents \cup {None}
    BY <2>1 DEF ArchiveInv, Moments, Counted
  <2>6. QED
    BY <2>1, <2>2, <2>4, <2>5, GotoForm, ArchiverGoes
<1>7. CASE VerifyArchive(a)
  <2>1. \E l \in {"list", "idle"} : Goto(a, l)
    BY <1>7 DEF VerifyArchive
  <2>2. QED
    BY <1>7, <2>1, ArchiverMoves DEF VerifyArchive, files, qdrant, restoring
<1>8. CASE List(a)
  BY <1>8, ArchiverMoves DEF List, files, qdrant, restoring
<1>9. CASE ListRaises(a)
  BY <1>9, ArchiverMoves DEF ListRaises, files, qdrant, restoring
<1>10. ASSUME NEW n \in doomed[a], Unlink(a, n) PROVE ArchiveInv'
  <2>1. /\ pc[a] = "prune" /\ dir' \subseteq dir
        /\ UNCHANGED <<live, taken, portable, rpc, rnum, disk>>
    BY <1>10 DEF Unlink, qdrant, restoring
  <2>2. CASE Goto(a, "sync prune")
    BY <2>1, <2>2, ArchiverMoves
  <2>3. CASE UNCHANGED <<pc, num>>
    BY <2>1, <2>3 DEF ArchiveInv, Moments, Counted, Same, Numbers
  <2>4. QED
    BY <1>10, <2>2, <2>3 DEF Unlink
<1>11. ASSUME NEW n \in doomed[a], Skip(a, n) PROVE ArchiveInv'
  BY <1>11 DEF Skip, files, restoring, ArchiveInv, Moments, Counted, Same, Numbers
<1>12. CASE SyncPrune(a)
  BY <1>12, ArchiverMoves DEF SyncPrune, qdrant, restoring
<1>13. CASE PruneQdrant(a)
  BY <1>13, ArchiverMoves DEF PruneQdrant, files, restoring
<1>14. CASE ArchiveFails(a)
  BY <1>14, ArchiverMoves DEF ArchiveFails, files, restoring
<1>15. QED
  BY <1>1, <1>2, <1>3, <1>4, <1>5, <1>6, <1>7, <1>8, <1>9, <1>10, <1>11, <1>12, <1>13, <1>14
  DEF Archiving

\* A step of the restore to l.
LEMMA RestoreGoes ==
    ASSUME ArchiveInv, NEW l, RestoreGoto(l), l \in Restores => rpc \in Restores,
           UNCHANGED <<taken, files, portable, archiving>>, live' \in Contents \cup {None}
    PROVE  ArchiveInv'
<1>1. Counted'
  BY CountedKept DEF ArchiveInv
<1>2. \A n : Same(n) => Same(n)'
  BY DEF Same, Numbers
<1>3. UNCHANGED <<dir, disk, pc, num, portable, Numbers>>
  BY DEF files, archiving, Numbers
<1>4. rpc' \in Restores => Same(rnum)'
  <2>1. ASSUME rpc' \in Restores PROVE rnum' = rnum /\ Same(rnum)
    BY <2>1 DEF RestoreGoto, Restores, ArchiveInv, Moments
  <2>2. QED
    BY <1>2, <2>1
<1>5. Moments'
  BY <1>2, <1>3, <1>4 DEF ArchiveInv, Moments
<1>6. QED
  BY <1>1, <1>5 DEF ArchiveInv

LEMMA RestoreStep == ASSUME ArchiveInv, Restoring PROVE ArchiveInv'
<1> USE DEF Restores
<1>0. live \in Contents \cup {None}
  BY DEF ArchiveInv, Counted
<1>1. CASE StartRestore
  <2>1. UNCHANGED <<live, taken, dir, disk, pc, num, portable>>
    BY <1>1 DEF StartRestore, qdrant, files, archiving
  <2>2. PICK n \in Manifests : rnum' = n
    BY <1>1 DEF StartRestore
  <2>3. Same(n)
    BY <2>2 DEF Manifests, ArchiveInv, Moments
  <2>4. \A m : Same(m) => Same(m)'
    BY <2>1 DEF Same, Numbers
  <2>5. Same(rnum)'
    BY <2>2, <2>3, <2>1 DEF Same, Numbers
  <2>6. Moments'
    BY <2>1, <2>4, <2>5 DEF ArchiveInv, Moments, Same, Numbers
  <2>7. Counted'
    BY <2>1 DEF ArchiveInv, Counted
  <2>8. QED
    BY <2>6, <2>7 DEF ArchiveInv
<1>2. CASE VerifyBefore
  <2>1. \E l : RestoreGoto(l)
    BY <1>2 DEF VerifyBefore
  <2>2. QED
    BY <1>0, <1>2, <2>1, RestoreGoes DEF VerifyBefore, qdrant
<1>3. CASE CheckExists
  <2>1. \E l : RestoreGoto(l)
    BY <1>3 DEF CheckExists
  <2>2. QED
    BY <1>0, <1>3, <2>1, RestoreGoes DEF CheckExists, qdrant
<1>4. CASE DeleteCollection
  BY <1>4, RestoreGoes DEF DeleteCollection
<1>5. CASE Upload
  <2>1. CASE <<"snapshot", rnum>> \in dir \ torn
    <3>1. rnum \in 1..Len(taken) /\ taken \in Seq(Contents)
      BY <1>5 DEF Upload, ArchiveInv, Counted, Moments, Same, Numbers
    <3>2. taken[rnum] \in Contents
      BY <3>1
    <3>3. RestoreGoto("check") /\ live' = taken[rnum]
      BY <1>5, <2>1 DEF Upload
    <3>4. QED
      BY <1>5, <3>2, <3>3, RestoreGoes DEF Upload
  <2>2. CASE <<"snapshot", rnum>> \notin dir \ torn
    BY <1>0, <1>5, <2>2, RestoreGoes DEF Upload
  <2>3. QED
    BY <2>1, <2>2
<1>6. CASE CheckRestored
  <2>1. \E l : RestoreGoto(l)
    BY <1>6 DEF CheckRestored
  <2>2. QED
    BY <1>0, <1>6, <2>1, RestoreGoes DEF CheckRestored, qdrant
<1>7. CASE RestoreFails
  BY <1>0, <1>7, RestoreGoes DEF RestoreFails
<1>8. QED
  BY <1>1, <1>2, <1>3, <1>4, <1>5, <1>6, <1>7 DEF Restoring

LEMMA PowerLossStep == ASSUME ArchiveInv, PowerLoss PROVE ArchiveInv'
<1>1. UNCHANGED <<live, taken, portable>> /\ rpc' = "idle"
  BY DEF PowerLoss, LosePower, RestoreGoto
<1>2. pc' = [a \in Archivers |-> "idle"] /\ num' = [a \in Archivers |-> 0]
  BY DEF PowerLoss, LosePower
<1>3. dir' \cup disk' \subseteq dir \cup disk
  BY DEF PowerLoss, LosePower
<1>4. Counted'
  BY <1>1 DEF ArchiveInv, Counted
<1>5. \A n : Same(n) => Same(n)'
  BY <1>1 DEF Same, Numbers
<1>6. Moments'
  BY <1>1, <1>2, <1>3, <1>5 DEF ArchiveInv, Moments, Labels, Exported, Restores
<1>7. QED
  BY <1>4, <1>6 DEF ArchiveInv

-----------------------------------------------------------------------------
(* The specification *)

IInv == CloudInv /\ ArchiveInv

\* The server and the backup, as seen by the archive.
LEMMA OthersStep ==
    ASSUME ArchiveInv, ServerNext \/ (BackupNext /\ UNCHANGED archive)
    PROVE  ArchiveInv' /\ Len(taken) <= Len(taken')
<1>1. UNCHANGED archive /\ portable' = portable
  BY DEF ServerNext, archive
<1>2. CASE CreateSnapshot /\ live' = live
  <2>1. Counted' /\ Numbers \subseteq Numbers' /\ \A n : Same(n) => Same(n)'
    BY <1>1, <1>2, SameKept, SnapshotTaken DEF ArchiveInv
  <2>2. Len(taken') = Len(taken) + 1 /\ Len(taken) \in Nat
    BY <1>2, SnapshotTaken, Bounds DEF ArchiveInv
  <2>3. QED
    BY <1>1, <2>1, <2>2, ArchiveAlone
<1>3. CASE UNCHANGED taken /\ live' \in Contents \cup {None}
  <2>1. Counted' /\ Numbers' = Numbers /\ \A n : Same(n) => Same(n)'
    BY <1>1, <1>3, CountedKept DEF ArchiveInv, Numbers, Same
  <2>2. Len(taken') = Len(taken) /\ Len(taken) \in Nat
    BY <1>3, Bounds DEF ArchiveInv
  <2>3. QED
    BY <1>1, <2>1, <2>2, ArchiveAlone
<1>4. live \in Contents \cup {None}
  BY DEF ArchiveInv, Counted
<1>5. CASE EnsureCollection
  BY <1>3, <1>5 DEF EnsureCollection, Contents
<1>6. ASSUME NEW i \in Ids, Put(i) PROVE UNCHANGED taken /\ live' \in Contents \cup {None}
  BY <1>4, <1>6 DEF Put, Contents
<1>7. CASE BackupNext
  <2>1. (CreateSnapshot /\ live' = live) \/ (UNCHANGED taken /\ live' = live)
    BY <1>7 DEF BackupNext, StartBackup, DownloadToStage, UploadCopy, VerifyCopy, WriteSidecar,
       WritePointer, DeleteSnapshot, ListCopies, EndBackup, RemoveCopy, RemoveSidecar, BackupFails
  <2>2. QED
    BY <1>2, <1>3, <1>4, <2>1
<1>8. QED
  BY <1>3, <1>5, <1>6, <1>7 DEF ServerNext

\* The archiver and the restore, as seen by the cloud.
LEMMA ArchiveGrows ==
    ASSUME Counted, ArchiveNext
    PROVE  Len(taken) <= Len(taken')
<1>1. Len(taken) \in Nat
  BY Bounds
<1>2. ASSUME NEW a \in Archivers, Archiving(a) PROVE Len(taken) <= Len(taken')
  <2>1. (CreateSnapshot /\ live' = live) \/ UNCHANGED taken
    BY <1>2 DEF Archiving, StartArchive, Download, Sync, Drill, Stamp, Publish, VerifyArchive,
       List, ListRaises, Unlink, Skip, SyncPrune, PruneQdrant, ArchiveFails, qdrant
  <2>2. QED
    BY <1>1, <2>1, SnapshotTaken
<1>3. CASE Restoring
  <2>1. UNCHANGED taken
    BY <1>3 DEF Restoring, StartRestore, VerifyBefore, CheckExists, DeleteCollection, Upload,
       CheckRestored, RestoreFails, qdrant
  <2>2. QED
    BY <1>1, <2>1
<1>4. QED
  BY <1>2, <1>3 DEF ArchiveNext

LEMMA IInvStep == ASSUME IInv, [Next]_vars PROVE IInv'
<1> USE DEF IInv
<1>1. CASE ServerNext
  <2>1. ArchiveInv' /\ Len(taken) <= Len(taken')
    BY <1>1, OthersStep
  <2>2. CloudInv'
    BY <1>1, <2>1, CloudAlone DEF ServerNext, ArchiveInv
  <2>3. QED
    BY <2>1, <2>2
<1>2. CASE ArchiveNext /\ UNCHANGED backup
  <2>1. ArchiveInv'
    BY <1>2, ArchiverStep, RestoreStep DEF ArchiveNext
  <2>2. CloudInv'
    BY <1>2, <2>1, ArchiveGrows, CloudAlone DEF ArchiveInv
  <2>3. QED
    BY <2>1, <2>2
<1>3. CASE BackupNext /\ UNCHANGED archive
  BY <1>3, OthersStep, CloudStep
<1>4. CASE PowerLoss
  <2>1. ArchiveInv'
    BY <1>4, PowerLossStep
  <2>2. UNCHANGED cloud /\ taken' = taken /\ bpc' = "idle"
    BY <1>4 DEF PowerLoss, BackupGoto
  <2>3. QED
    BY <2>1, <2>2, CloudRunEnds DEF ArchiveInv
<1>5. CASE UNCHANGED vars
  <2>1. UNCHANGED <<live, taken, archive, backup, portable>>
    BY <1>5 DEF vars, qdrant, archive
  <2>2. Counted' /\ Numbers' = Numbers /\ \A n : Same(n) => Same(n)'
    BY <2>1 DEF ArchiveInv, Counted, Same, Numbers
  <2>3. Len(taken) <= Len(taken')
    BY <2>1, Bounds DEF ArchiveInv
  <2>4. QED
    BY <2>1, <2>2, <2>3, ArchiveAlone, CloudAlone
<1>6. QED
  BY <1>1, <1>2, <1>3, <1>4, <1>5 DEF Next

LEMMA Invariance == Spec => []IInv
<1>1. Init => IInv
  BY CloudInit, ArchiveInit DEF IInv
<1>2. IInv /\ [Next]_vars => IInv'
  BY IInvStep
<1>3. QED
  BY <1>1, <1>2, PTL DEF Spec

\* latest.json always names a copy that was verified and has its sidecar.
THEOREM PointerStaysProven == Spec => []PointerProven
<1>1. IInv => PointerProven
  BY DEF IInv, CloudInv
<1>2. QED
  BY <1>1, Invariance, PTL

\* The export and the snapshot of every archive describe one point in time.
THEOREM ArchivesAreOneMoment == Spec => []OnePointInTime
<1>1. IInv => OnePointInTime
  BY DEF IInv, ArchiveInv, Moments, OnePointInTime, Manifests, Same
<1>2. QED
  BY <1>1, Invariance, PTL

\* A restore that reports success has brought back the records of the snapshot.
THEOREM RestoreIsFaithful == Spec => RestoredIsArchived
<1>1. ASSUME IInv, Next, rpc # "restored", rpc' = "restored"
      PROVE  live' = taken[rnum']
  <2>1. ArchiveNext /\ UNCHANGED backup
    BY <1>1 DEF Next, ServerNext, PowerLoss, LosePower, RestoreGoto, archive, restoring
  <2>2. Restoring
    BY <1>1, <2>1 DEF ArchiveNext, Archiving, StartArchive, Download, Sync, Drill, Stamp,
       Publish, VerifyArchive, List, ListRaises, Unlink, Skip, SyncPrune, PruneQdrant,
       ArchiveFails, restoring
  <2>3. CheckRestored
    BY <1>1, <2>2 DEF Restoring, StartRestore, VerifyBefore, CheckExists, DeleteCollection,
       Upload, CheckRestored, RestoreFails, RestoreGoto
  <2>4. live' = live /\ live = portable[rnum] /\ rnum' = rnum /\ rpc = "check"
    BY <1>1, <2>3 DEF CheckRestored, RestoreGoto, qdrant
  <2>5. Same(rnum)
    BY <1>1, <2>4 DEF IInv, ArchiveInv, Moments, Restores
  <2>6. QED
    BY <2>4, <2>5 DEF Same
<1>2. IInv /\ [Next]_vars => [rpc # "restored" /\ rpc' = "restored" => live' = taken[rnum']]_vars
  BY <1>1
<1>3. QED
  BY <1>2, Invariance, PTL DEF Spec, RestoredIsArchived

-----------------------------------------------------------------------------
(* Types *)

LEMMA TypesInit == Init => TypeOK
<1> SUFFICES ASSUME Init PROVE TypeOK
  OBVIOUS
<1> USE DEF Init
<1>1. SnapshotsTypeOK
  BY DEF InitSnapshots, SnapshotsTypeOK, Contents
<1>2. ArchiveTypeOK
  <2>1. order \in Seq(Numbers)
    BY DEF InitArchive
  <2>2. portable \in [1..MaxSnapshots -> Contents \cup {None}]
    BY DEF InitArchive
  <2>3. QED
    BY <2>1, <2>2 DEF InitArchive, ArchiveTypeOK, Labels
<1>3. BackupTypeOK
  BY DEF InitBackup, BackupTypeOK
<1>4. QED
  BY <1>1, <1>2, <1>3 DEF TypeOK

\* Who makes a snapshot, by his own number for it.
LEMMA SnapshotTyped ==
    ASSUME IInv, SnapshotsTypeOK, CreateSnapshot, live' = live, faults' = faults
    PROVE  SnapshotsTypeOK' /\ Numbers \subseteq Numbers' /\ Len(taken) + 1 \in Numbers'
<1>1. Counted' /\ Len(taken') = Len(taken) + 1 /\ Len(taken) \in Nat
  BY SnapshotTaken, Bounds DEF IInv, ArchiveInv
<1>2. Numbers \subseteq Numbers' /\ Len(taken) + 1 \in Numbers'
  BY <1>1 DEF Numbers
<1>3. snaps' = snaps \cup {Len(taken) + 1}
  BY DEF CreateSnapshot
<1>4. QED
  BY <1>1, <1>2, <1>3 DEF SnapshotsTypeOK, Counted

\* No other step makes one, nor changes but these.
LEMMA SnapshotsKept ==
    ASSUME SnapshotsTypeOK, taken' = taken, snaps' \subseteq snaps,
           live' \in Contents \cup {None}, faults' = faults \/ Faulty
    PROVE  SnapshotsTypeOK' /\ Numbers' = Numbers
BY DEF SnapshotsTypeOK, Numbers, Faulty

LEMMA ArchiveTypesKept ==
    ASSUME ArchiveTypeOK, UNCHANGED archive, Numbers \subseteq Numbers'
    PROVE  ArchiveTypeOK'
<1>1. UNCHANGED <<dir, disk, torn, portable, order, pc, num, doomed, reported, overlapped,
                  rpc, rnum, forced>>
  BY DEF archive, files, archiving, restoring
<1>2. order' \in Seq(Numbers')
  BY <1>1 DEF ArchiveTypeOK
<1>3. num' \in [Archivers -> Numbers' \cup {0}] /\ doomed' \in [Archivers -> SUBSET Numbers']
  BY <1>1 DEF ArchiveTypeOK
<1>4. QED
  BY <1>1, <1>2, <1>3 DEF ArchiveTypeOK

LEMMA BackupTypesKept ==
    ASSUME BackupTypeOK, UNCHANGED backup, Numbers \subseteq Numbers'
    PROVE  BackupTypeOK'
BY DEF BackupTypeOK, backup, cloud

BackupLabels == {"idle", "download", "upload", "verify", "sidecar", "pointer", "delete",
                 "list", "prune", "rm sidecar"}

LEMMA BackupTypes ==
    ASSUME IInv, TypeOK, BackupNext, UNCHANGED archive
    PROVE  TypeOK'
<1> USE DEF TypeOK
<1>n. Numbers \subseteq 1..MaxSnapshots /\ live \in Contents \cup {None}
  BY Bounds DEF IInv, ArchiveInv, Counted
<1>r. bpc # "idle" => bnum \in Numbers
  BY DEF IInv, CloudInv, Run
<1>1. CASE StartBackup
  <2>1. SnapshotsTypeOK' /\ Numbers \subseteq Numbers' /\ Len(taken) + 1 \in Numbers'
    BY <1>1, SnapshotTyped DEF StartBackup
  <2>2. BackupTypeOK'
    BY <1>1, <2>1 DEF StartBackup, BackupTypeOK, cloud
  <2>3. QED
    BY <2>1, <2>2, ArchiveTypesKept
<1>2. CASE ~StartBackup
  <2>1. SnapshotsTypeOK' /\ Numbers' = Numbers
    <3>1. /\ taken' = taken /\ snaps' \subseteq snaps /\ live' = live
          /\ faults' = faults \/ Faulty
      BY <1>2 DEF BackupNext, DownloadToStage, UploadCopy, VerifyCopy, WriteSidecar,
         WritePointer, DeleteSnapshot, ListCopies, EndBackup, RemoveCopy, RemoveSidecar,
         BackupFails
    <3>2. QED
      BY <1>n, <3>1, SnapshotsKept
  <2>2. ArchiveTypeOK'
    BY <2>1, ArchiveTypesKept
  <2>3. bnum' \in Numbers \cup {0} /\ bpc' \in BackupLabels
    BY <1>2, <1>r DEF BackupNext, DownloadToStage, UploadCopy, VerifyCopy, WriteSidecar,
       WritePointer, DeleteSnapshot, ListCopies, EndBackup, RemoveCopy, RemoveSidecar,
       BackupFails, BackupGoto, BackupTypeOK, BackupLabels
  <2>4. remote' \in [1..MaxSnapshots -> {"absent", "whole", "torn"}]
    BY <1>2 DEF BackupNext, DownloadToStage, UploadCopy, VerifyCopy, WriteSidecar,
       WritePointer, DeleteSnapshot, ListCopies, EndBackup, RemoveCopy, RemoveSidecar,
       BackupFails, BackupTypeOK, cloud
  <2>5. sidecars' \subseteq Numbers /\ pointer' \in Numbers \cup {0}
    BY <1>2, <1>r DEF BackupNext, DownloadToStage, UploadCopy, VerifyCopy, WriteSidecar,
       WritePointer, DeleteSnapshot, ListCopies, EndBackup, RemoveCopy, RemoveSidecar,
       BackupFails, BackupTypeOK, cloud
  <2>6. bdoomed' \subseteq Numbers
    <3>1. Copies \subseteq Numbers
      <4>1. \A n \in Copies : n \in Nat \ {0} /\ n <= Len(taken)
        <5>1. \A n \in Copies : n \in 1..MaxSnapshots /\ n <= Len(taken)
          BY DEF IInv, CloudInv, Run, Copies
        <5>2. MaxSnapshots \in Nat
          BY SnapshotsAssumption
        <5>3. QED
          BY <5>1, <5>2
      <4>2. QED
        BY <4>1, Bounds DEF IInv, CloudInv, Numbers
    <3>2. QED
      BY <1>2, <3>1 DEF BackupNext, DownloadToStage, UploadCopy, VerifyCopy, WriteSidecar,
         WritePointer, DeleteSnapshot, ListCopies, Outdated, EndBackup, RemoveCopy,
         RemoveSidecar, BackupFails, BackupTypeOK
  <2>8. BackupTypeOK'
    BY <2>1, <2>3, <2>4, <2>5, <2>6 DEF BackupTypeOK, BackupLabels
  <2>7. QED
    BY <2>1, <2>2, <2>8
<1>3. QED
  BY <1>1, <1>2

\* A step of the archiver or the restore that makes no snapshot.
LEMMA ArchiverQuiet ==
    ASSUME IInv, TypeOK, UNCHANGED backup, ArchiveTypeOK',
           taken' = taken, snaps' \subseteq snaps,
           live' \in Contents \cup {None}, faults' = faults \/ Faulty
    PROVE  TypeOK'
<1>1. SnapshotsTypeOK' /\ Numbers' = Numbers
  BY SnapshotsKept DEF TypeOK
<1>2. QED
  BY <1>1, BackupTypesKept DEF TypeOK

LEMMA ArchiverTypes ==
    ASSUME IInv, TypeOK, NEW a \in Archivers, Archiving(a), UNCHANGED backup
    PROVE  TypeOK'
<1> USE DEF TypeOK, qdrant, files, restoring
<1>k. taken' = taken => Numbers' = Numbers
  BY DEF Numbers
<1> USE <1>k
<1>n. /\ Numbers \subseteq 1..MaxSnapshots /\ live \in Contents \cup {None}
      /\ Numbers \subseteq Nat \ {0}
  BY Bounds DEF IInv, ArchiveInv, Counted
<1>r. pc[a] # "idle" => num[a] \in Numbers
  BY DEF IInv, ArchiveInv, Moments
<1>e. \A k \in {"snapshot", "export", "manifest"}, n \in Numbers : <<k, n>> \in Entries
  BY <1>n DEF Entries
<1>g. \A l \in Labels : Goto(a, l) => pc' \in [Archivers -> Labels]
                                      /\ num' \in [Archivers -> Numbers \cup {0}]
  BY DEF ArchiveTypeOK, Goto
<1>1. CASE StartArchive(a)
  <2>1. SnapshotsTypeOK' /\ Numbers \subseteq Numbers' /\ Len(taken) + 1 \in Numbers'
    BY <1>1, SnapshotTyped DEF StartArchive
  <2>2. pc' \in [Archivers -> Labels] /\ overlapped' \in BOOLEAN
    BY <1>1 DEF StartArchive, ArchiveTypeOK, Labels
  <2>3. num' \in [Archivers -> Numbers' \cup {0}]
    BY <1>1, <2>1 DEF StartArchive, ArchiveTypeOK
  <2>4. order' \in Seq(Numbers') /\ doomed' \in [Archivers -> SUBSET Numbers']
    BY <1>1, <2>1 DEF StartArchive, ArchiveTypeOK
  <2>5. ArchiveTypeOK'
    BY <1>1, <2>1, <2>2, <2>3, <2>4 DEF StartArchive, ArchiveTypeOK
  <2>6. QED
    BY <2>1, <2>5, BackupTypesKept
<1>2. CASE Download(a)
  <2>1. ArchiveTypeOK'
    BY <1>2, <1>r, <1>e, <1>g DEF Download, Place, ArchiveTypeOK, Labels, After
  <2>2. QED
    BY <1>2, <1>n, <2>1, ArchiverQuiet DEF Download
<1>3. CASE Sync(a)
  <2>1. After[pc[a]] \in Labels
    BY <1>3 DEF Sync, After, Labels
  <2>2. ArchiveTypeOK'
    BY <1>3, <1>g, <2>1 DEF Sync, ArchiveTypeOK
  <2>3. QED
    BY <1>3, <1>n, <2>2, ArchiverQuiet DEF Sync
<1>4. CASE Drill(a)
  <2>1. portable' \in [1..MaxSnapshots -> Contents \cup {None}]
    BY ArchiverStep DEF IInv, ArchiveInv, Moments
  <2>2. ArchiveTypeOK'
    <3>1. dir' \cup disk' \cup torn' \subseteq Entries
      BY <1>4, <1>r, <1>e DEF Drill, Place, ArchiveTypeOK
    <3>2. pc' \in [Archivers -> Labels] /\ num' \in [Archivers -> Numbers \cup {0}]
      BY <1>4, <1>g DEF Drill, Labels, After
    <3>3. QED
      BY <1>4, <2>1, <3>1, <3>2 DEF Drill, ArchiveTypeOK
  <2>3. QED
    BY <1>4, <1>n, <2>2, ArchiverQuiet DEF Drill
<1>5. CASE Stamp(a)
  <2>1. order' \in Seq(Numbers)
    BY <1>5, <1>r DEF Stamp, ArchiveTypeOK
  <2>2. ArchiveTypeOK'
    BY <1>5, <1>g, <2>1 DEF Stamp, ArchiveTypeOK, Labels
  <2>3. QED
    BY <1>5, <1>n, <2>2, ArchiverQuiet DEF Stamp
<1>6. CASE Publish(a)
  <2>1. ArchiveTypeOK'
    BY <1>6, <1>r, <1>e, <1>g DEF Publish, Place, ArchiveTypeOK, Labels, After
  <2>2. QED
    BY <1>6, <1>n, <2>1, ArchiverQuiet DEF Publish
<1>7. CASE VerifyArchive(a) \/ ListRaises(a)
  <2>1. \E l \in {"list", "idle"} : Goto(a, l)
    BY <1>7 DEF VerifyArchive, ListRaises
  <2>2. ArchiveTypeOK'
    BY <1>7, <1>g, <2>1 DEF VerifyArchive, ListRaises, ArchiveTypeOK, Labels
  <2>3. QED
    BY <1>7, <1>n, <2>2, ArchiverQuiet DEF VerifyArchive, ListRaises
<1>8. CASE List(a)
  <2>1. doomed' \in [Archivers -> SUBSET Numbers]
    BY <1>8 DEF List, Beyond, Manifests, ArchiveTypeOK
  <2>2. ArchiveTypeOK'
    BY <1>8, <1>g, <2>1 DEF List, ArchiveTypeOK, Labels
  <2>3. QED
    BY <1>8, <1>n, <2>2, ArchiverQuiet DEF List
<1>9. ASSUME NEW n \in doomed[a], Unlink(a, n) PROVE TypeOK'
  <2>1. pc' \in [Archivers -> Labels] /\ num' \in [Archivers -> Numbers \cup {0}]
    BY <1>9, <1>g DEF Unlink, ArchiveTypeOK, Labels
  <2>2. ArchiveTypeOK'
    BY <1>9, <2>1 DEF Unlink, ArchiveTypeOK
  <2>3. QED
    BY <1>9, <1>n, <2>2, ArchiverQuiet DEF Unlink
<1>10. ASSUME NEW n \in doomed[a], Skip(a, n) PROVE TypeOK'
  <2>1. doomed' \in [Archivers -> SUBSET Numbers]
    BY <1>10 DEF Skip, ArchiveTypeOK
  <2>2. ArchiveTypeOK'
    BY <1>10, <2>1 DEF Skip, ArchiveTypeOK
  <2>3. QED
    BY <1>10, <1>n, <2>2, ArchiverQuiet DEF Skip
<1>11. CASE SyncPrune(a)
  <2>1. ArchiveTypeOK'
    BY <1>11, <1>g DEF SyncPrune, ArchiveTypeOK, Labels
  <2>2. QED
    BY <1>11, <1>n, <2>1, ArchiverQuiet DEF SyncPrune
<1>12. CASE PruneQdrant(a)
  <2>1. ArchiveTypeOK'
    BY <1>12, <1>r, <1>g DEF PruneQdrant, ArchiveTypeOK, Labels
  <2>2. QED
    BY <1>12, <1>n, <2>1, ArchiverQuiet DEF PruneQdrant
<1>13. CASE ArchiveFails(a)
  <2>1. doomed' \in [Archivers -> SUBSET Numbers]
    BY <1>13 DEF ArchiveFails, ArchiveTypeOK
  <2>2. ArchiveTypeOK'
    BY <1>13, <1>g, <2>1 DEF ArchiveFails, ArchiveTypeOK, Labels
  <2>3. QED
    BY <1>13, <1>n, <2>2, ArchiverQuiet DEF ArchiveFails
<1>14. QED
  BY <1>1, <1>2, <1>3, <1>4, <1>5, <1>6, <1>7, <1>8, <1>9, <1>10, <1>11, <1>12, <1>13
  DEF Archiving

LEMMA RestoreTypes ==
    ASSUME IInv, TypeOK, Restoring, UNCHANGED backup
    PROVE  TypeOK'
<1> USE DEF TypeOK, qdrant, files, archiving
<1>k. taken' = taken => Numbers' = Numbers
  BY DEF Numbers
<1> USE <1>k
<1>1. live' \in Contents \cup {None}
  BY RestoreStep DEF IInv, ArchiveInv, Counted
<1>2. /\ taken' = taken /\ snaps' \subseteq snaps /\ (faults' = faults \/ Faulty)
      /\ UNCHANGED <<dir, disk, torn, portable, order, pc, num, doomed, reported, overlapped>>
  BY DEF Restoring, StartRestore, VerifyBefore, CheckExists, DeleteCollection, Upload,
     CheckRestored, RestoreFails
<1>3. rnum' \in Numbers \cup {0} /\ forced' \in BOOLEAN
      /\ rpc' \in {"idle", "verify", "exists", "delete", "upload", "check", "restored"}
  BY DEF Restoring, StartRestore, VerifyBefore, CheckExists, DeleteCollection, Upload,
     CheckRestored, RestoreFails, RestoreGoto, ArchiveTypeOK, Manifests
<1>4. ArchiveTypeOK'
  <2>1. taken' = taken /\ ArchiveTypeOK
    BY <1>2
  <2>2. QED
    BY <1>2, <1>3, <2>1 DEF ArchiveTypeOK
<1>5. taken' = taken /\ snaps' \subseteq snaps /\ (faults' = faults \/ Faulty)
  BY <1>2
<1>6. QED
  BY <1>1, <1>4, <1>5, ArchiverQuiet

LEMMA PowerLossTypes == ASSUME IInv, TypeOK, PowerLoss PROVE TypeOK'
<1> USE DEF TypeOK
<1>1. SnapshotsTypeOK' /\ Numbers' = Numbers
  BY SnapshotsKept DEF PowerLoss, SnapshotsTypeOK
<1>2. BackupTypeOK'
  BY <1>1 DEF PowerLoss, BackupGoto, BackupTypeOK, cloud
<1>3. dir' \cup disk' \cup torn' \subseteq Entries
  <2>1. ASSUME NEW b \in Archivers, pc[b] = "sync export" PROVE <<"export", num[b]>> \in Entries
    <3>1. num[b] \in Numbers /\ Numbers \subseteq Nat \ {0}
      <4>1. Counted /\ num[b] \in Numbers
        BY <2>1 DEF IInv, ArchiveInv, Moments
      <4>2. QED
        BY <4>1, Bounds
    <3>2. QED
      BY <3>1 DEF Entries
  <2>3. Unflushed \subseteq Entries
    BY <2>1 DEF Unflushed
  <2>2. QED
    BY <2>3 DEF PowerLoss, LosePower, ArchiveTypeOK
<1>4. ArchiveTypeOK'
  BY <1>1, <1>3 DEF PowerLoss, LosePower, RestoreGoto, ArchiveTypeOK, Labels
<1>5. QED
  BY <1>1, <1>2, <1>4

\* Every variable holds what the code of snapshot.py and of
\* memorybridge_cloud_backup.py may put there: every archive, file and copy has
\* the number of a snapshot that was taken.
THEOREM RecoveryTypesHold == Spec => []TypeOK
<1>1. IInv /\ TypeOK /\ [Next]_vars => TypeOK'
  <2> SUFFICES ASSUME IInv, TypeOK, [Next]_vars PROVE TypeOK'
    OBVIOUS
  <2>1. CASE ServerNext
    <3>1. live' \in Contents \cup {None} /\ UNCHANGED <<taken, snaps, faults, archive, backup>>
      BY <2>1 DEF ServerNext, EnsureCollection, Put, Contents, TypeOK, SnapshotsTypeOK
    <3>2. QED
      BY <3>1, SnapshotsKept, ArchiveTypesKept, BackupTypesKept DEF TypeOK
  <2>2. CASE ArchiveNext /\ UNCHANGED backup
    BY <2>2, ArchiverTypes, RestoreTypes DEF ArchiveNext
  <2>3. CASE BackupNext /\ UNCHANGED archive
    BY <2>3, BackupTypes
  <2>4. CASE PowerLoss
    BY <2>4, PowerLossTypes
  <2>5. CASE UNCHANGED vars
    <3>1. UNCHANGED <<live, taken, snaps, faults, archive, backup>>
      BY <2>5 DEF vars, qdrant
    <3>2. live' \in Contents \cup {None}
      BY <3>1 DEF TypeOK, SnapshotsTypeOK
    <3>3. QED
      BY <3>1, <3>2, SnapshotsKept, ArchiveTypesKept, BackupTypesKept DEF TypeOK
  <2>6. QED
    BY <2>1, <2>2, <2>3, <2>4, <2>5 DEF Next
<1>2. QED
  BY <1>1, TypesInit, Invariance, PTL DEF Spec

\* A snapshot leaves Qdrant after its copy, checksum, sidecar and pointer are
\* there, or because an archiver prunes (memorybridge_cloud_backup.py:316-351,
\* snapshot.py:232-239).
THEOREM CopiesPrecedeDeletions == Spec => CopiedBeforeDeleted
<1> DEFINE Allowed == \A n \in snaps \ snaps' :
                         (Proven(n) /\ pointer = n) \/ \E a \in Archivers : pc[a] = "prune"
<1>1. ASSUME IInv, Next PROVE Allowed
  <2>1. CASE DeleteSnapshot
    <3>1. snaps \ snaps' \subseteq {bnum} /\ bpc = "delete"
      BY <2>1 DEF DeleteSnapshot
    <3>2. pointer = bnum /\ bnum # 0
      BY <1>1, <3>1, Bounds DEF IInv, CloudInv, Run, Remaining
    <3>3. Proven(pointer)
      BY <1>1, <3>2 DEF IInv, CloudInv, PointerProven
    <3>4. QED
      BY <3>1, <3>2, <3>3
  <2>2. CASE \E a \in Archivers : PruneQdrant(a)
    BY <2>2 DEF PruneQdrant
  <2>3. CASE ~DeleteSnapshot /\ ~\E a \in Archivers : PruneQdrant(a)
    <3>1. snaps \subseteq snaps'
      <4>1. CASE ServerNext
        BY <4>1 DEF ServerNext, EnsureCollection, Put
      <4>2. ASSUME NEW a \in Archivers, Archiving(a) PROVE snaps \subseteq snaps'
        BY <2>3, <4>2 DEF Archiving, StartArchive, CreateSnapshot, Download, Sync, Drill, Stamp,
           Publish, VerifyArchive, List, ListRaises, Unlink, Skip, SyncPrune, ArchiveFails,
           qdrant
      <4>3. CASE Restoring
        BY <4>3 DEF Restoring, StartRestore, VerifyBefore, CheckExists, DeleteCollection,
           Upload, CheckRestored, RestoreFails, qdrant
      <4>4. CASE BackupNext
        BY <2>3, <4>4 DEF BackupNext, StartBackup, CreateSnapshot, DownloadToStage, UploadCopy,
           VerifyCopy, WriteSidecar, WritePointer, ListCopies, EndBackup, RemoveCopy,
           RemoveSidecar, BackupFails
      <4>5. CASE PowerLoss
        BY <4>5 DEF PowerLoss
      <4>6. QED
        BY <1>1, <4>1, <4>2, <4>3, <4>4, <4>5 DEF Next, ArchiveNext
    <3>2. QED
      BY <3>1
  <2>4. QED
    BY <2>1, <2>2, <2>3
<1>2. IInv /\ [Next]_vars => [Allowed]_vars
  BY <1>1
<1>3. QED
  BY <1>2, Invariance, PTL DEF Spec, CopiedBeforeDeleted

-----------------------------------------------------------------------------
(* The latest archive *)

\* Archives whose manifest was stamped, and so may be there.
Stamped == {order[i] : i \in 1..Len(order)}

\* What neither the prune of another archive nor a power loss takes away.
Durable(k, n) == <<k, n>> \in (dir \cap disk) \ torn
Whole(n) == Durable("snapshot", n) /\ Durable("export", n)

\* A durable archive at least as late as any reported; those after it are whole.
Safe(n) ==
    /\ Durable("manifest", n) /\ Whole(n)
    /\ \A m \in reported : m <= n
    /\ \A m : <<"manifest", m>> \in dir \cup disk /\ m > n => Whole(m)

\* Manifests are stamped in the order of their snapshots, and only then there;
\* bytes were lost of exports only.
Archived ==
    /\ \A i, j \in 1..Len(order) : i < j => order[i] < order[j]
    /\ torn \subseteq {"export"} \X Numbers
    /\ \A n : <<"manifest", n>> \in dir \cup disk => n \in Stamped
    /\ reported \subseteq Stamped
    /\ reported # {} => \E n \in Stamped : Safe(n)

Early == {"download", "sync snapshot", "drill", "sync export", "stamp"}
Pruning == {"prune", "sync prune"}
Checked == {"verify", "list"} \cup Pruning
Late == {"publish", "sync manifest"} \cup Checked

\* What of its archive a running archiver has put there, and for good.
Running(a) ==
    /\ pc[a] # "idle" => <<"export", num[a]>> \notin torn
    /\ pc[a] \in Early => \A n \in Stamped : n < num[a]
    /\ pc[a] \in Late => num[a] \in Stamped /\ \A n \in Stamped : n <= num[a]
    /\ pc[a] = "sync snapshot" => <<"snapshot", num[a]>> \in dir
    /\ pc[a] \in {"drill", "sync export", "stamp"} \cup Late => Durable("snapshot", num[a])
    /\ pc[a] = "sync export" => <<"export", num[a]>> \in dir
    /\ pc[a] \in {"stamp"} \cup Late => Durable("export", num[a])
    /\ pc[a] = "sync manifest" => <<"manifest", num[a]>> \in dir
    /\ pc[a] \in Checked => Durable("manifest", num[a])
    /\ pc[a] \in Pruning => num[a] \notin doomed[a]

Single == \A a, b \in Archivers : pc[a] # "idle" /\ pc[b] # "idle" => a = b

KeptInv == ~overlapped => Single /\ Archived /\ \A a \in Archivers : Running(a)

\* The largest of some numbers.
LEMMA LargestNumber ==
    ASSUME Counted, NEW S \in SUBSET Numbers, S # {}
    PROVE  \E x \in S : \A y \in S : y <= x
<1> DEFINE D == {Len(taken) - r : r \in S}
<1>1. Len(taken) \in Nat /\ \A r \in S : r \in Nat /\ r <= Len(taken)
  BY Bounds DEF Numbers
<1>2. D \subseteq Nat /\ D # {}
  BY <1>1
<1>r. OpToRel(<, Nat) = {ss \in Nat \X Nat : ss[1] < ss[2]}
  BY DEF OpToRel
<1>3. PICK d \in D : \A e \in D : <<e, d>> \notin OpToRel(<, Nat)
  BY <1>2, NatLessThanWellFounded, WFMin
<1>4. ASSUME NEW e \in D PROVE ~(e < d)
  <2>1. <<e, d>> \notin OpToRel(<, Nat)
    BY <1>3, <1>4
  <2>2. QED
    BY <1>2, <1>3, <1>4, <1>r, <2>1
<1>5. PICK x \in S : d = Len(taken) - x
  BY <1>3
<1>6. ASSUME NEW y \in S PROVE y <= x
  <2>1. Len(taken) - y \in D /\ Len(taken) - y \in Nat
    BY <1>1
  <2>2. ~(Len(taken) - y < Len(taken) - x)
    BY <1>4, <1>5, <2>1
  <2>3. QED
    BY <1>1, <2>2
<1>7. QED
  BY <1>6

LEMMA StampedNumbers ==
    ASSUME IInv, TypeOK
    PROVE  Counted /\ Stamped \subseteq Numbers /\ Numbers \subseteq Nat \ {0}
           /\ Len(order) \in Nat /\ Len(taken) \in Nat
<1>1. order \in Seq(Numbers) /\ taken \in Seq(Contents)
  BY DEF TypeOK, SnapshotsTypeOK, ArchiveTypeOK
<1>2. Len(order) \in Nat /\ Len(taken) \in Nat /\ \A i \in 1..Len(order) : order[i] \in Numbers
  BY <1>1
<1>3. Counted
  BY DEF IInv, ArchiveInv
<1>4. QED
  BY <1>2, <1>3 DEF Stamped, Numbers

\* What is safe stays so while nothing durable goes and only whole archives come.
LEMMA SafeKept ==
    ASSUME NEW n, Safe(n), reported' = reported,
           \A k, m : Durable(k, m) /\ <<"manifest", m>> \in dir \cup disk => Durable(k, m)',
           \A m : <<"manifest", m>> \in dir' \cup disk' =>
                      Whole(m)' \/ <<"manifest", m>> \in dir \cup disk
    PROVE  Safe(n)'
<1>1. <<"manifest", n>> \in dir \cup disk
  BY DEF Safe, Durable
<1>2. Durable("manifest", n)' /\ Whole(n)'
  BY <1>1 DEF Safe, Whole
<1>3. ASSUME NEW m, <<"manifest", m>> \in dir' \cup disk', m > n PROVE Whole(m)'
  BY <1>3 DEF Safe, Whole
<1>4. QED
  BY <1>2, <1>3 DEF Safe

\* The directory after a step that prunes nothing.
LEMMA ArchivedKept ==
    ASSUME Archived, UNCHANGED <<torn, order, reported>>, Numbers \subseteq Numbers',
           dir \cap disk \subseteq dir' \cap disk',
           \A m : <<"manifest", m>> \in dir' \cup disk' =>
                      (Whole(m)' /\ m \in Stamped) \/ <<"manifest", m>> \in dir \cup disk
    PROVE  Archived'
<1>1. \A k, m : Durable(k, m) => Durable(k, m)'
  BY DEF Durable
<1>2. \A n : Safe(n) => Safe(n)'
  BY <1>1, SafeKept
<1>3. Stamped' = Stamped
  BY DEF Stamped
<1>4. QED
  BY <1>2, <1>3 DEF Archived

\* The directory while an archiver prunes: its own archive is safe.
LEMMA ArchivedPrunes ==
    ASSUME IInv, TypeOK, Archived, NEW a \in Archivers, Running(a), pc[a] \in Pruning,
           NEW n, n = num[a],
           UNCHANGED <<torn, order, taken>>, dir' \cup disk' \subseteq dir \cup disk,
           \A k \in {"snapshot", "export", "manifest"} :
               <<k, n>> \in dir \cap disk => <<k, n>> \in dir' \cap disk',
           reported' \subseteq reported \cup {n}
    PROVE  Archived'
<1>1. n \in Stamped /\ (\A m \in Stamped : m <= n) /\ Stamped' = Stamped /\ Numbers' = Numbers
  BY DEF Running, Pruning, Checked, Late, Stamped, Numbers
<1>2. Durable("manifest", n) /\ Whole(n)
  BY DEF Running, Pruning, Checked, Late, Whole
<1>3. Durable("manifest", n)' /\ Whole(n)'
  BY <1>2 DEF Durable, Whole
<1>4. reported' \subseteq Stamped
  BY <1>1 DEF Archived
<1>5. Stamped \subseteq Nat
  BY StampedNumbers
<1>6. ASSUME NEW m, <<"manifest", m>> \in dir' \cup disk', m > n PROVE FALSE
  <2>1. m \in Stamped
    BY <1>6 DEF Archived
  <2>2. m \in Nat /\ n \in Nat /\ m <= n
    BY <1>1, <1>5, <2>1
  <2>3. QED
    BY <1>6, <2>2
<1>7. Safe(n)'
  BY <1>1, <1>3, <1>4, <1>6 DEF Safe
<1>8. QED
  BY <1>1, <1>4, <1>7 DEF Archived

LEMMA GotoReads ==
    ASSUME TypeOK, NEW a \in Archivers, NEW l, Goto(a, l)
    PROVE  /\ pc'[a] = l /\ (l # "idle" => num' = num)
           /\ \A b \in Archivers \ {a} : pc'[b] = pc[b]
BY DEF TypeOK, ArchiveTypeOK, Goto

\* A step of the only archiver.
LEMMA OneSteps ==
    ASSUME TypeOK, KeptInv, ~overlapped', overlapped' = overlapped,
           NEW a \in Archivers, NEW l, Goto(a, l), pc[a] # "idle",
           Archived', l # "idle" => Running(a)'
    PROVE  KeptInv'
<1>1. ~overlapped /\ Single
  BY DEF KeptInv
<1>2. pc'[a] = l /\ \A b \in Archivers \ {a} : pc'[b] = "idle"
  BY <1>1, GotoReads DEF Single
<1>3. Single'
  BY <1>2 DEF Single
<1>4. \A b \in Archivers : pc'[b] = "idle" => Running(b)'
  BY DEF Running, Early, Late, Checked, Pruning
<1>5. \A b \in Archivers : Running(b)'
  BY <1>2, <1>4
<1>6. QED
  BY <1>3, <1>5 DEF KeptInv

\* Steps of the others.
LEMMA KeptAlone ==
    ASSUME KeptInv, UNCHANGED <<dir, disk, torn, order, pc, num, doomed, reported, overlapped>>,
           Numbers \subseteq Numbers'
    PROVE  KeptInv'
<1>1. SUFFICES ASSUME ~overlapped PROVE KeptInv'
  BY DEF KeptInv
<1>2. Archived /\ Single /\ \A a \in Archivers : Running(a)
  BY <1>1 DEF KeptInv
<1>3. Archived'
  BY <1>2, ArchivedKept
<1>4. Single'
  BY <1>2 DEF Single
<1>5. \A a \in Archivers : Running(a)'
  BY <1>2 DEF Running, Stamped, Durable
<1>6. QED
  BY <1>3, <1>4, <1>5 DEF KeptInv

LEMMA KeptStart ==
    ASSUME IInv, TypeOK, KeptInv, NEW a \in Archivers, StartArchive(a)
    PROVE  KeptInv'
<1>1. SUFFICES ASSUME ~overlapped' PROVE KeptInv'
  BY DEF KeptInv
<1>2. ~overlapped /\ \A b \in Archivers \ {a} : pc[b] = "idle"
  BY <1>1 DEF StartArchive
<1>3. Archived
  BY <1>2 DEF KeptInv
<1>4. /\ UNCHANGED <<dir, disk, torn, order, reported>>
      /\ Numbers \subseteq Numbers'
  BY SnapshotTyped DEF StartArchive, files, TypeOK
<1>5. Archived'
  BY <1>3, <1>4, ArchivedKept
<1>6. /\ pc'[a] = "download" /\ num'[a] = Len(taken) + 1
      /\ \A b \in Archivers \ {a} : pc'[b] = "idle"
  BY <1>2 DEF StartArchive, TypeOK, ArchiveTypeOK
<1>7. Running(a)'
  <2>1. \A n \in Numbers : n \in Nat /\ n <= Len(taken) /\ Len(taken) \in Nat
    BY StampedNumbers DEF Numbers
  <2>2. \A n \in Numbers : n < Len(taken) + 1
    BY <2>1
  <2>3. Stamped' = Stamped /\ Stamped \subseteq Numbers
    BY <1>4, StampedNumbers DEF Stamped
  <2>4. Len(taken) + 1 \notin Numbers
    BY StampedNumbers DEF Numbers
  <2>5. <<"export", Len(taken) + 1>> \notin torn
    BY <1>3, <2>4 DEF Archived
  <2>6. QED
    BY <1>4, <1>6, <2>2, <2>3, <2>5 DEF Running, Early, Late, Checked, Pruning
<1>8. \A b \in Archivers : Running(b)'
  BY <1>6, <1>7 DEF Running, Early, Late, Checked, Pruning
<1>9. Single'
  BY <1>6 DEF Single
<1>10. QED
  BY <1>5, <1>8, <1>9 DEF KeptInv

\* The manifest's time is later than those there were.
LEMMA StampKept ==
    ASSUME IInv, TypeOK, Archived, NEW a \in Archivers, Running(a), Stamp(a)
    PROVE  Archived' /\ Stamped' = Stamped \cup {num[a]}
<1>1. pc[a] = "stamp" /\ order' = Append(order, num[a]) /\ num[a] \in Numbers
  BY DEF Stamp, IInv, ArchiveInv, Moments
<1>2. UNCHANGED <<dir, disk, torn, reported, taken>>
  BY DEF Stamp, files, qdrant
<1>3. /\ order \in Seq(Numbers) /\ Len(order) \in Nat
      /\ \A i \in 1..Len(order) : order[i] \in Nat
      /\ num[a] \in Nat
  BY <1>1, StampedNumbers DEF TypeOK, ArchiveTypeOK, Stamped
<1>4. /\ Len(order') = Len(order) + 1
      /\ \A i \in 1..Len(order) : order'[i] = order[i]
      /\ order'[Len(order) + 1] = num[a]
  BY <1>1, <1>3
<1>5. \A i \in 1..Len(order') : i \in 1..Len(order) \/ i = Len(order) + 1
  BY <1>3, <1>4
<1>6. Stamped' = Stamped \cup {num[a]}
  <2>1. \A i \in 1..Len(order') : order'[i] \in Stamped \cup {num[a]}
    BY <1>4, <1>5 DEF Stamped
  <2>2. 1..Len(order) \subseteq 1..Len(order') /\ Len(order) + 1 \in 1..Len(order')
    BY <1>3, <1>4
  <2>3. \A n \in Stamped : \E i \in 1..Len(order') : order'[i] = n
    BY <1>4, <2>2 DEF Stamped
  <2>4. QED
    BY <1>4, <2>1, <2>2, <2>3 DEF Stamped
<1>7. \A n \in Stamped : n < num[a]
  BY <1>1 DEF Running, Early
<1>8. ASSUME NEW i \in 1..Len(order'), NEW j \in 1..Len(order'), i < j
      PROVE  order'[i] < order'[j]
  <2>1. i \in 1..Len(order)
    BY <1>3, <1>4, <1>8
  <2>2. CASE j \in 1..Len(order)
    BY <1>4, <1>8, <2>1, <2>2 DEF Archived
  <2>3. CASE j = Len(order) + 1
    BY <1>4, <1>7, <2>1, <2>3 DEF Stamped
  <2>4. QED
    BY <1>5, <2>2, <2>3
<1>9. \A n : Safe(n) => Safe(n)'
  BY <1>2 DEF Safe, Whole, Durable
<1>10. Numbers' = Numbers
  BY <1>2 DEF Numbers
<1>11. QED
  BY <1>2, <1>6, <1>8, <1>9, <1>10 DEF Archived

\* The times of the manifests have the order of their numbers.
LEMMA LastHasNoLater ==
    ASSUME IInv, TypeOK, Archived, NEW n \in Stamped, \A m \in Manifests : m <= n
    PROVE  Later(n) = {}
<1>1. ASSUME NEW m \in Stamped
      PROVE  Mtime(m) \in 1..Len(order) /\ order[Mtime(m)] = m
  <2>1. \E i \in 1..Len(order) : order[i] = m
    BY <1>1 DEF Stamped
  <2>2. QED
    BY <2>1 DEF Mtime
<1>2. ASSUME NEW m \in Manifests, Mtime(m) > Mtime(n) PROVE FALSE
  <2>1. m \in Stamped /\ n \in Nat /\ m \in Nat /\ Len(order) \in Nat
    BY <1>2, StampedNumbers DEF Manifests, Archived
  <2>2. /\ Mtime(m) \in 1..Len(order) /\ order[Mtime(m)] = m
        /\ Mtime(n) \in 1..Len(order) /\ order[Mtime(n)] = n
    BY <1>1, <2>1
  <2>3. Mtime(n) < Mtime(m)
    BY <1>2, <2>1, <2>2
  <2>4. n < m
    BY <2>2, <2>3 DEF Archived
  <2>5. QED
    BY <2>1, <2>4
<1>3. QED
  BY <1>2 DEF Later

LEMMA StaysThere ==
    ASSUME TypeOK, NEW a \in Archivers, UNCHANGED <<pc, num>>, pc[a] # "idle"
    PROVE  Goto(a, pc[a])
BY DEF TypeOK, ArchiveTypeOK, Goto

LEMMA KeptPublishes ==
    ASSUME IInv, TypeOK, KeptInv, ~overlapped, NEW a \in Archivers,
           \/ Download(a) \/ Sync(a) \/ Drill(a) \/ Stamp(a) \/ Publish(a)
    PROVE  KeptInv'
<1> USE DEF files, qdrant
<1>1. overlapped' = overlapped /\ pc[a] # "idle" /\ taken' = taken /\ reported' = reported
  BY DEF Download, Sync, Drill, Stamp, Publish, After
<1>2. Archived /\ Running(a)
  BY DEF KeptInv
<1>3. Numbers' = Numbers
  BY <1>1 DEF Numbers
<1>s. order' = order => Stamped' = Stamped
  BY DEF Stamped
<1>4. CASE Download(a) /\ num[a] \in snaps
  <2>1. /\ pc[a] = "download" /\ Goto(a, "sync snapshot")
        /\ dir' = dir \cup {<<"snapshot", num[a]>>} /\ UNCHANGED <<disk, torn, order, doomed>>
    BY <1>4 DEF Download, Place
  <2>2. Archived'
    BY <1>1, <1>2, <1>3, <2>1, ArchivedKept
  <2>g. pc'[a] = "sync snapshot" /\ num' = num
    BY <2>1, GotoReads
  <2>3. Running(a)'
    BY <1>2, <1>s, <2>1, <2>g DEF Running, Early, Late, Checked, Pruning
  <2>4. QED
    BY <1>1, <2>1, <2>2, <2>3, OneSteps
<1>5. CASE Download(a) /\ num[a] \notin snaps
  <2>1. Goto(a, "idle") /\ UNCHANGED <<dir, disk, torn, order>>
    BY <1>5 DEF Download
  <2>2. Archived'
    BY <1>1, <1>2, <1>3, <2>1, ArchivedKept
  <2>3. QED
    BY <1>1, <2>1, <2>2, OneSteps
<1>6. CASE Sync(a)
  <2>1. /\ pc[a] \in DOMAIN After /\ Goto(a, After[pc[a]])
        /\ disk' = dir /\ UNCHANGED <<dir, torn, order, doomed>>
    BY <1>6 DEF Sync
  <2>2. Archived'
    BY <1>1, <1>2, <1>3, <2>1, ArchivedKept
  <2>3. /\ pc[a] = "sync snapshot" => pc'[a] = "drill" /\ After[pc[a]] = "drill"
        /\ pc[a] = "sync export" => pc'[a] = "stamp" /\ After[pc[a]] = "stamp"
        /\ pc[a] = "sync manifest" => pc'[a] = "verify" /\ After[pc[a]] = "verify"
        /\ pc[a] \in {"sync snapshot", "sync export", "sync manifest"}
    BY <2>1, GotoReads DEF After
  <2>4. num' = num /\ After[pc[a]] # "idle"
    BY <2>1, <2>3, GotoReads
  <2>5. \A k, n : Durable(k, n) \/ (<<k, n>> \in dir /\ <<k, n>> \notin torn) => Durable(k, n)'
    BY <2>1 DEF Durable
  <2>6. <<"export", num[a]>> \notin torn /\ <<"snapshot", num[a]>> \notin torn
        /\ <<"manifest", num[a]>> \notin torn
    BY <1>1, <1>2 DEF Running, Archived
  <2>7. CASE pc[a] = "sync snapshot"
    <3>1. Running(a)'
      BY <1>2, <1>s, <2>1, <2>3, <2>4, <2>5, <2>6, <2>7
      DEF Running, Early, Late, Checked, Pruning
    <3>2. QED
      BY <1>1, <2>1, <2>2, <3>1, OneSteps
  <2>8. CASE pc[a] = "sync export"
    <3>1. Running(a)'
      BY <1>2, <1>s, <2>1, <2>3, <2>4, <2>5, <2>6, <2>8
      DEF Running, Early, Late, Checked, Pruning
    <3>2. QED
      BY <1>1, <2>1, <2>2, <3>1, OneSteps
  <2>9. CASE pc[a] = "sync manifest"
    <3>1. Running(a)'
      BY <1>2, <1>s, <2>1, <2>3, <2>4, <2>5, <2>6, <2>9
      DEF Running, Early, Late, Checked, Pruning
    <3>2. QED
      BY <1>1, <2>1, <2>2, <3>1, OneSteps
  <2>10. QED
    BY <2>3, <2>7, <2>8, <2>9
<1>7. CASE Drill(a)
  <2>1. /\ pc[a] = "drill" /\ Goto(a, "sync export")
        /\ dir' = dir \cup {<<"export", num[a]>>} /\ UNCHANGED <<disk, torn, order, doomed>>
    BY <1>7 DEF Drill, Place
  <2>2. Archived'
    BY <1>1, <1>2, <1>3, <2>1, ArchivedKept
  <2>g. pc'[a] = "sync export" /\ num' = num
    BY <2>1, GotoReads
  <2>3. Running(a)'
    BY <1>2, <1>s, <2>1, <2>g DEF Running, Durable, Early, Late, Checked, Pruning
  <2>4. QED
    BY <1>1, <2>1, <2>2, <2>3, OneSteps
<1>8. CASE Stamp(a)
  <2>1. /\ pc[a] = "stamp" /\ Goto(a, "publish") /\ UNCHANGED <<dir, disk, torn, doomed>>
    BY <1>8 DEF Stamp
  <2>2. Archived' /\ Stamped' = Stamped \cup {num[a]}
    BY <1>2, <1>8, StampKept
  <2>3. \A n \in Stamped' : n <= num[a]
    <3>1. num[a] \in Nat /\ Stamped \subseteq Nat
      BY StampedNumbers DEF IInv, ArchiveInv, Moments
    <3>2. \A n \in Stamped : n < num[a]
      BY <1>2, <2>1 DEF Running, Early
    <3>3. QED
      BY <2>2, <3>1, <3>2
  <2>g. pc'[a] = "publish" /\ num' = num
    BY <2>1, GotoReads
  <2>4. Running(a)'
    BY <1>2, <2>1, <2>2, <2>3, <2>g DEF Running, Durable, Early, Late, Checked, Pruning
  <2>5. QED
    BY <1>1, <2>1, <2>2, <2>4, OneSteps
<1>9. CASE Publish(a)
  <2>1. /\ pc[a] = "publish" /\ Goto(a, "sync manifest")
        /\ dir' = dir \cup {<<"manifest", num[a]>>} /\ UNCHANGED <<disk, torn, order, doomed>>
    BY <1>9 DEF Publish, Place
  <2>2. \A n : Whole(n) => Whole(n)'
    BY <2>1 DEF Whole, Durable
  <2>3. Whole(num[a]) /\ num[a] \in Stamped
    BY <1>2, <2>1 DEF Running, Late, Whole
  <2>4. Archived'
    <3>1. ASSUME NEW m, <<"manifest", m>> \in dir' \cup disk'
          PROVE  (Whole(m)' /\ m \in Stamped) \/ <<"manifest", m>> \in dir \cup disk
      BY <2>1, <2>2, <2>3, <3>1
    <3>2. QED
      BY <1>1, <1>2, <1>3, <2>1, <3>1, ArchivedKept
  <2>g. pc'[a] = "sync manifest" /\ num' = num
    BY <2>1, GotoReads
  <2>5. Running(a)'
    BY <1>2, <1>s, <2>1, <2>g DEF Running, Durable, Early, Late, Checked, Pruning
  <2>6. QED
    BY <1>1, <2>1, <2>4, <2>5, OneSteps
<1>10. QED
  BY <1>4, <1>5, <1>6, <1>7, <1>8, <1>9

LEMMA KeptPrunes ==
    ASSUME IInv, TypeOK, KeptInv, ~overlapped, NEW a \in Archivers,
           \/ VerifyArchive(a) \/ List(a) \/ ListRaises(a)
           \/ \E n \in doomed[a] : Unlink(a, n) \/ Skip(a, n)
           \/ SyncPrune(a) \/ PruneQdrant(a) \/ ArchiveFails(a)
    PROVE  KeptInv'
<1> USE DEF files, qdrant
<1>1. overlapped' = overlapped /\ pc[a] # "idle" /\ taken' = taken /\ UNCHANGED <<torn, order>>
  BY DEF VerifyArchive, List, ListRaises, Unlink, Skip, SyncPrune, PruneQdrant, ArchiveFails
<1>2. Archived /\ Running(a)
  BY DEF KeptInv
<1>3. Numbers' = Numbers /\ Stamped' = Stamped
  BY <1>1 DEF Numbers, Stamped
<1>4. CASE UNCHANGED <<dir, disk, reported>> /\ Goto(a, "idle")
  <2>1. Archived'
    BY <1>1, <1>2, <1>3, <1>4, ArchivedKept
  <2>2. QED
    BY <1>1, <1>4, <2>1, OneSteps
<1>5. CASE VerifyArchive(a) \/ ListRaises(a) \/ ArchiveFails(a)
  <2>1. CASE Goto(a, "list") /\ VerifyArchive(a)
    <3>1. UNCHANGED <<dir, disk, reported, doomed>> /\ pc[a] = "verify"
      BY <2>1 DEF VerifyArchive
    <3>2. Archived'
      BY <1>1, <1>2, <1>3, <3>1, ArchivedKept
    <3>g. pc'[a] = "list" /\ num' = num
      BY <2>1, GotoReads
    <3>3. Running(a)'
      BY <1>1, <1>2, <1>3, <2>1, <3>1, <3>g
      DEF Running, Durable, Early, Late, Checked, Pruning
    <3>4. QED
      BY <1>1, <2>1, <3>2, <3>3, OneSteps
  <2>2. CASE Goto(a, "idle")
    BY <1>4, <1>5, <2>2 DEF VerifyArchive, ListRaises, ArchiveFails
  <2>3. QED
    BY <1>5, <2>1, <2>2 DEF VerifyArchive, ListRaises, ArchiveFails
<1>6. CASE List(a)
  <2>1. /\ UNCHANGED <<dir, disk, reported>> /\ pc[a] = "list" /\ Goto(a, "prune")
        /\ doomed'[a] = Beyond
    BY <1>6 DEF List, TypeOK, ArchiveTypeOK
  <2>2. Archived'
    BY <1>1, <1>2, <1>3, <2>1, ArchivedKept
  <2>3. num[a] \notin Beyond
    <3>1. num[a] \in Stamped /\ \A m \in Manifests : m <= num[a]
      BY <1>2, <2>1 DEF Running, Checked, Late, Archived, Manifests
    <3>2. Later(num[a]) = {}
      BY <1>2, <3>1, LastHasNoLater
    <3>3. Cardinality(Later(num[a])) = 0 /\ Retention \in Nat \ {0}
      BY <3>2, FS_EmptySet, ArchiveAssumption
    <3>4. QED
      BY <3>3 DEF Beyond
  <2>g. pc'[a] = "prune" /\ num' = num
    BY <2>1, GotoReads
  <2>4. Running(a)'
    BY <1>1, <1>2, <1>3, <2>1, <2>3, <2>g
    DEF Running, Durable, Early, Late, Checked, Pruning
  <2>5. QED
    BY <1>1, <2>1, <2>2, <2>4, OneSteps
<1>7. ASSUME NEW n \in doomed[a], Unlink(a, n) PROVE KeptInv'
  <2>1. /\ pc[a] = "prune" /\ dir' = dir \ {<<Removed(n), n>>}
        /\ UNCHANGED <<disk, reported, doomed>>
    BY <1>7 DEF Unlink
  <2>2. n # num[a]
    BY <1>2, <1>7, <2>1 DEF Running, Pruning
  <2>3. \A k : <<k, num[a]>> \in dir \cap disk => <<k, num[a]>> \in dir' \cap disk'
    BY <2>1, <2>2
  <2>4. Archived'
    BY <1>1, <1>2, <2>1, <2>3, ArchivedPrunes DEF Pruning
  <2>5. \E l \in Pruning : Goto(a, l)
    BY <1>1, <1>7, <2>1, StaysThere DEF Unlink, Pruning
  <2>6. PICK l \in Pruning : Goto(a, l)
    BY <2>5
  <2>7. \A k : Durable(k, num[a]) => Durable(k, num[a])' \/ num' # num
    BY <1>1, <2>3 DEF Durable
  <2>8. pc'[a] = l /\ num' = num
    BY <2>6, GotoReads DEF Pruning
  <2>9. Running(a)'
    BY <1>1, <1>2, <1>3, <2>1, <2>7, <2>8 DEF Running, Early, Late, Checked, Pruning
  <2>10. QED
    BY <1>1, <2>4, <2>6, <2>9, OneSteps
<1>8. ASSUME NEW n \in doomed[a], Skip(a, n) PROVE KeptInv'
  <2>1. /\ pc[a] = "prune" /\ UNCHANGED <<dir, disk, reported, pc, num>>
        /\ doomed'[a] \subseteq doomed[a]
    BY <1>8 DEF Skip, TypeOK, ArchiveTypeOK
  <2>2. Archived'
    BY <1>1, <1>2, <1>3, <2>1, ArchivedKept
  <2>3. Running(a)'
    BY <1>1, <1>2, <1>3, <2>1 DEF Running, Durable, Early, Late, Checked, Pruning
  <2>4. QED
    BY <1>1, <2>1, <2>2, <2>3, OneSteps, StaysThere
<1>9. CASE SyncPrune(a)
  <2>1. /\ pc[a] = "sync prune" /\ Goto(a, "prune") /\ disk' = dir
        /\ UNCHANGED <<dir, reported, doomed>>
    BY <1>9 DEF SyncPrune
  <2>2. Archived'
    BY <1>1, <1>2, <1>3, <2>1, ArchivedKept
  <2>3. \A k, n : Durable(k, n) => Durable(k, n)'
    BY <1>1, <2>1 DEF Durable
  <2>g. pc'[a] = "prune" /\ num' = num
    BY <2>1, GotoReads
  <2>4. Running(a)'
    BY <1>1, <1>2, <1>3, <2>1, <2>3, <2>g DEF Running, Early, Late, Checked, Pruning
  <2>5. QED
    BY <1>1, <2>1, <2>2, <2>4, OneSteps
<1>10. CASE PruneQdrant(a)
  <2>1. /\ pc[a] = "prune" /\ Goto(a, "idle") /\ UNCHANGED <<dir, disk>>
        /\ reported' = reported \cup {num[a]}
    BY <1>10 DEF PruneQdrant
  <2>2. Archived'
    BY <1>1, <1>2, <2>1, ArchivedPrunes DEF Pruning
  <2>3. QED
    BY <1>1, <2>1, <2>2, OneSteps
<1>11. QED
  BY <1>5, <1>6, <1>7, <1>8, <1>9, <1>10

\* Any of the changes since the last fsync may be lost, and an export that was
\* not flushed torn: neither belongs to an archive with a manifest.
LEMMA KeptPowerLoss ==
    ASSUME IInv, TypeOK, KeptInv, PowerLoss
    PROVE  KeptInv'
<1>1. SUFFICES ASSUME ~overlapped PROVE KeptInv'
  BY DEF KeptInv, PowerLoss, LosePower
<1>2. Archived /\ \A a \in Archivers : Running(a)
  BY <1>1 DEF KeptInv
<1>3. PICK D \in SUBSET (dir \cup disk), T \in SUBSET Unflushed :
          dir \cap disk \subseteq D /\ dir' = D /\ disk' = D /\ torn' = torn \cup T
  BY DEF PowerLoss, LosePower
<1>4. /\ pc' = [a \in Archivers |-> "idle"] /\ UNCHANGED <<order, reported, taken>>
  BY DEF PowerLoss, LosePower
<1>5. ASSUME NEW m, <<"manifest", m>> \in dir \cup disk, NEW k, <<k, m>> \in Unflushed
      PROVE  FALSE
  <2>1. PICK b \in Archivers : pc[b] = "sync export" /\ m = num[b]
    BY <1>5 DEF Unflushed
  <2>2. m \in Stamped /\ Stamped \subseteq Nat
    BY <1>2, <1>5, StampedNumbers DEF Archived
  <2>3. m < num[b]
    BY <1>2, <2>1, <2>2 DEF Running, Early
  <2>4. m \in Nat /\ m < m
    BY <2>1, <2>2, <2>3
  <2>5. QED
    BY <2>4
<1>6. \A k, m : Durable(k, m) /\ <<"manifest", m>> \in dir \cup disk => Durable(k, m)'
  BY <1>3, <1>5 DEF Durable
<1>7. \A n : Safe(n) => Safe(n)'
  BY <1>3, <1>4, <1>6, SafeKept
<1>8. Unflushed \subseteq {"export"} \X Numbers
  <2>1. \A b \in Archivers : pc[b] = "sync export" => num[b] \in Numbers
    BY DEF IInv, ArchiveInv, Moments
  <2>2. ASSUME NEW x \in Unflushed PROVE x \in {"export"} \X Numbers
    <3>1. PICK b \in Archivers : pc[b] = "sync export" /\ x = <<"export", num[b]>>
      BY <2>2 DEF Unflushed
    <3>2. QED
      BY <2>1, <3>1
  <2>3. QED
    BY <2>2
<1>9. Archived'
  <2>1. Stamped' = Stamped /\ Numbers' = Numbers
    BY <1>4 DEF Stamped, Numbers
  <2>2. torn' \subseteq {"export"} \X Numbers
    BY <1>2, <1>3, <1>8 DEF Archived
  <2>3. \A n : <<"manifest", n>> \in dir' \cup disk' => n \in Stamped
    BY <1>2, <1>3 DEF Archived
  <2>4. QED
    BY <1>2, <1>4, <1>7, <2>1, <2>2, <2>3 DEF Archived
<1>10. QED
  BY <1>4, <1>9 DEF KeptInv, Single, Running, Early, Late, Checked, Pruning

LEMMA KeptStep ==
    ASSUME IInv, TypeOK, TypeOK', KeptInv, [Next]_vars
    PROVE  KeptInv'
<1>1. CASE UNCHANGED archive /\ Numbers \subseteq Numbers'
  BY <1>1, KeptAlone DEF archive, files, archiving
<1>2. CASE ServerNext
  BY <1>1, <1>2 DEF ServerNext, EnsureCollection, Put, Numbers
<1>3. CASE BackupNext /\ UNCHANGED archive
  <2>1. CASE StartBackup
    BY <1>1, <1>3, <2>1, SnapshotTyped DEF StartBackup, TypeOK
  <2>2. CASE ~StartBackup
    BY <1>1, <1>3, <2>2 DEF BackupNext, DownloadToStage, UploadCopy, VerifyCopy, WriteSidecar,
       WritePointer, DeleteSnapshot, ListCopies, EndBackup, RemoveCopy, RemoveSidecar,
       BackupFails, Numbers
  <2>3. QED
    BY <2>1, <2>2
<1>4. ASSUME NEW a \in Archivers, Archiving(a) PROVE KeptInv'
  <2>1. CASE StartArchive(a)
    BY <2>1, KeptStart
  <2>2. CASE ~StartArchive(a) /\ overlapped
    <3>1. overlapped' = overlapped
      BY <1>4, <2>2 DEF Archiving, Download, Sync, Drill, Stamp, Publish, VerifyArchive, List,
         ListRaises, Unlink, Skip, SyncPrune, PruneQdrant, ArchiveFails
    <3>2. QED
      BY <2>2, <3>1 DEF KeptInv
  <2>3. CASE ~StartArchive(a) /\ ~overlapped
    BY <1>4, <2>3, KeptPublishes, KeptPrunes DEF Archiving
  <2>4. QED
    BY <2>1, <2>2, <2>3
<1>5. CASE Restoring
  <2>1. UNCHANGED <<dir, disk, torn, order, pc, num, doomed, reported, overlapped, taken>>
    BY <1>5 DEF Restoring, StartRestore, VerifyBefore, CheckExists, DeleteCollection, Upload,
       CheckRestored, RestoreFails, qdrant, files, archiving
  <2>2. QED
    BY <2>1, KeptAlone DEF Numbers
<1>6. CASE PowerLoss
  BY <1>6, KeptPowerLoss
<1>7. CASE UNCHANGED vars
  BY <1>1, <1>7 DEF vars, qdrant, Numbers
<1>8. QED
  BY <1>2, <1>3, <1>4, <1>5, <1>6, <1>7 DEF Next, ArchiveNext

LEMMA KeptGivesLatest == ASSUME IInv, TypeOK, KeptInv PROVE LatestRecoverable
<1> SUFFICES ASSUME ~overlapped, reported # {}
             PROVE  \E n \in Manifests : /\ Later(n) = {} /\ Verified(n)
                                         /\ \A m \in reported : m <= n
  BY DEF LatestRecoverable
<1>1. Archived
  BY DEF KeptInv
<1>2. PICK n \in Stamped : Safe(n)
  BY <1>1 DEF Archived
<1>3. /\ Stamped \subseteq Numbers /\ Numbers \subseteq Nat /\ Counted
      /\ Manifests \subseteq Stamped
  BY <1>1, StampedNumbers DEF Archived, Manifests
<1>4. n \in Manifests
  BY <1>2, <1>3 DEF Safe, Durable, Manifests
<1>5. PICK k \in Manifests : \A m \in Manifests : m <= k
  <2>1. Manifests \in SUBSET Numbers
    BY DEF Manifests
  <2>2. QED
    BY <1>3, <1>4, <2>1, LargestNumber
<1>6. n \in Nat /\ k \in Nat /\ n <= k /\ k \in Stamped
  BY <1>3, <1>4, <1>5
<1>7. Whole(k)
  <2>1. CASE k = n
    BY <1>2, <2>1 DEF Safe
  <2>2. CASE k # n
    <3>1. k > n /\ <<"manifest", k>> \in dir
      BY <1>5, <1>6, <2>2 DEF Manifests
    <3>2. QED
      BY <1>2, <3>1 DEF Safe
  <2>3. QED
    BY <2>1, <2>2
<1>8. Verified(k)
  <2>1. <<"manifest", k>> \in dir \ torn
    BY <1>1, <1>5 DEF Manifests, Archived
  <2>2. QED
    BY <1>7, <2>1 DEF Verified, Intact, Whole, Durable
<1>9. Later(k) = {}
  BY <1>1, <1>5, <1>6, LastHasNoLater
<1>10. ASSUME NEW m \in reported PROVE m <= k
  <2>1. m \in Nat /\ m <= n
    BY <1>1, <1>2, <1>3 DEF Archived, Safe
  <2>2. QED
    BY <1>6, <2>1
<1>11. QED
  BY <1>5, <1>8, <1>9, <1>10

\* Once an archive was reported as verified, restore_latest finds it or a later
\* one, whole, in every state after it, through prunes, kills and power losses
\* (snapshot.py:148-212 create_archive, 214-241 _prune, 243-249 latest_manifest),
\* as long as no two archivers ever ran at once.
THEOREM ArchiveStaysRecoverable == Spec => []LatestRecoverable
<1>1. Init => KeptInv
  BY DEF Init, InitArchive, InitSnapshots, KeptInv, Single, Archived, Running, Early, Late,
     Checked, Pruning, Stamped
<1>2. IInv /\ TypeOK /\ TypeOK' /\ KeptInv /\ [Next]_vars => KeptInv'
  BY KeptStep
<1>3. IInv /\ TypeOK /\ KeptInv => LatestRecoverable
  BY KeptGivesLatest
<1>4. QED
  BY <1>1, <1>2, <1>3, Invariance, RecoveryTypesHold, PTL DEF Spec
=============================================================================
