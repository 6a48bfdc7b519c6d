---------------------------- MODULE DeploymentSeal ----------------------------
(***************************************************************************)
(* memorybridge/deployment.py: deployment-seal looks at the directory that *)
(* the cloud backup (CloudBackup) fills, at the files one by one, restores *)
(* the latest copy into a temporary collection of another Qdrant, deletes  *)
(* that again, and says SEALED or NOT_SEALED.  Backups run meanwhile, and  *)
(* the cloud may lose bytes of a copy it stored well.                      *)
(***************************************************************************)
EXTENDS CloudBackup

CONSTANTS
    Seals,   \* runs of deployment-seal; each has a drill collection of its own name
    Named,   \* the name an operator may give with --drill-collection
    Foreign  \* content of a collection of that name that others made

ASSUME SealAssumption ==
    /\ Named \notin Seals
    /\ Foreign # None /\ \A S \in SUBSET Ids : Foreign # S

Targets == Seals \cup {Named}
Modes == {"archive only", "no drill", "no probes", "deployment"}

VARIABLES
    drills,    \* drills[t]: collection t of the drill's Qdrant, None without one
    late,      \* uploads whose caller gave up, as <<collection, content>>
    spc,       \* where a seal is, at the end its seal_state
    mode,      \* what it was asked for
    full,      \* every copy is hashed, or the latest only
    latest,    \* the copy latest.json named
    listed,    \* the copies its listing had
    beside,    \* the sidecars its listing had
    left,      \* copies of the listing it has still to look at
    ok,        \* no error of the archive so far
    digest,    \* what it hashed the latest copy as, "absent" without a digest
    probed,    \* both services answered
    target,    \* its drill collection
    restored,  \* what the drill restored, None before
    torn,      \* history: copies that were torn when it began
    crossed    \* history: a backup or an error crossed it

drill == <<drills, late>>
verdict == <<mode, full, torn>>
archive == <<latest, listed, beside, left, ok, digest>>
seal == <<drill, spc, verdict, archive, probed, target, restored, crossed>>
upstream == <<live, taken, snaps, backup>>
vars == <<upstream, faults, seal>>

Init ==
    /\ InitSnapshots /\ InitBackup
    /\ \E f \in {None, Foreign} : drills = [t \in Targets |-> IF t = Named THEN f ELSE None]
    /\ late = {}
    /\ spc = [p \in Seals |-> "new"]
    /\ mode = [p \in Seals |-> "archive only"] /\ full = [p \in Seals |-> TRUE]
    /\ latest = [p \in Seals |-> 0]
    /\ listed = [p \in Seals |-> {}] /\ beside = [p \in Seals |-> {}]
    /\ left = [p \in Seals |-> {}]
    /\ ok = [p \in Seals |-> TRUE] /\ digest = [p \in Seals |-> "absent"]
    /\ probed = [p \in Seals |-> FALSE]
    /\ target = [p \in Seals |-> p]
    /\ restored = [p \in Seals |-> None]
    /\ torn = [p \in Seals |-> {}] /\ crossed = [p \in Seals |-> FALSE]

Running(p) == spc[p] \notin {"new", "SEALED", "NOT_SEALED"}
SealGoto(p, l) == spc' = [spc EXCEPT ![p] = l]
Crossed == crossed' = [p \in Seals |-> crossed[p] \/ Running(p)]

-----------------------------------------------------------------------------
(* verify_external_archive *)

StartSeal(p) ==
    /\ spc[p] = "new"
    /\ \E m \in Modes, f \in BOOLEAN, t \in {p, Named} :
        /\ m \in {"archive only", "no drill"} => t = p
        /\ mode' = [mode EXCEPT ![p] = m]
        /\ full' = [full EXCEPT ![p] = f]
        /\ target' = [target EXCEPT ![p] = t]
    /\ torn' = [torn EXCEPT ![p] = {n \in Copies : remote[n] = "torn"}]
    /\ crossed' = [crossed EXCEPT ![p] = bpc # "idle"]
    /\ SealGoto(p, "pointer")
    /\ UNCHANGED <<upstream, faults, drill, archive, probed, restored>>

\* Errors are collected; the checks go on after one.
Check(p, c) == ok' = [ok EXCEPT ![p] = @ /\ c]

\* The archive's part is over: archive_only says so, or the probes follow.
EndArchive(p) ==
    SealGoto(p, IF mode[p] # "archive only" THEN "probe"
                ELSE IF ok'[p] THEN "SEALED" ELSE "NOT_SEALED")

\* Without a latest.json nothing else is looked at.
ReadPointer(p) ==
    /\ spc[p] = "pointer"
    /\ latest' = [latest EXCEPT ![p] = pointer]
    /\ Check(p, pointer # 0)
    /\ IF pointer # 0 THEN SealGoto(p, "list") ELSE EndArchive(p)
    /\ UNCHANGED <<upstream, faults, drill, verdict, listed, beside, left, digest,
                   probed, target, restored, crossed>>

ListSnapshots(p) ==
    /\ spc[p] = "list"
    /\ listed' = [listed EXCEPT ![p] = Copies]
    /\ left' = [left EXCEPT ![p] = Copies]
    /\ Check(p, Copies # {})
    /\ SealGoto(p, "list sidecars")
    /\ UNCHANGED <<upstream, faults, drill, verdict, latest, beside, digest,
                   probed, target, restored, crossed>>

ListSidecars(p) ==
    /\ spc[p] = "list sidecars"
    /\ beside' = [beside EXCEPT ![p] = sidecars]
    /\ SealGoto(p, "latest")
    /\ UNCHANGED <<upstream, faults, drill, verdict, latest, listed, left, ok, digest,
                   probed, target, restored, crossed>>

\* The latest copy, against its sidecar and the three digests of latest.json.
CheckLatest(p) ==
    /\ spc[p] = "latest"
    /\ digest' = [digest EXCEPT ![p] = remote[latest[p]]]
    /\ Check(p, Proven(latest[p]))
    /\ SealGoto(p, "items")
    /\ UNCHANGED <<upstream, faults, drill, verdict, latest, listed, beside, left,
                   probed, target, restored, crossed>>

\* Mutant: only the latest copy is hashed, whatever was asked for.
CheckItem_LatestOnly(p, n) ==
    /\ spc[p] = "items"
    /\ n \in left[p]
    /\ left' = [left EXCEPT ![p] = @ \ {n}]
    /\ Check(p, /\ remote[n] # "absent" /\ n \in sidecars
                /\ n = latest[p] => remote[n] = "whole")
    /\ UNCHANGED <<upstream, faults, drill, spc, verdict, latest, listed, beside, digest,
                   probed, target, restored, crossed>>

\* A copy of the listing: its file, its sidecar and, when asked for, its hash.
CheckItem(p, n) ==
    /\ spc[p] = "items"
    /\ n \in left[p]
    /\ left' = [left EXCEPT ![p] = @ \ {n}]
    /\ Check(p, /\ remote[n] # "absent" /\ n \in sidecars
                /\ full[p] \/ n = latest[p] => remote[n] = "whole")
    /\ UNCHANGED <<upstream, faults, drill, spc, verdict, latest, listed, beside, digest,
                   probed, target, restored, crossed>>

\* Both listings have the same names.  Permissions of a file that is gone are
\* an error, as is a backup of another hour, or one too old.
CheckRest(p) ==
    /\ spc[p] = "items" /\ left[p] = {}
    /\ \/ /\ Check(p, beside[p] = listed[p] /\ beside[p] \subseteq sidecars /\ listed[p] \subseteq Copies)
          /\ UNCHANGED <<faults, crossed>>
       \/ Check(p, FALSE) /\ Faulty /\ Crossed
    /\ listed' = [listed EXCEPT ![p] = {}] /\ beside' = [beside EXCEPT ![p] = {}]
    /\ EndArchive(p)
    /\ UNCHANGED <<upstream, drill, verdict, latest, left, digest, probed, target, restored>>

-----------------------------------------------------------------------------
(* probe_qdrant, probe_mcp and restore_snapshot_drill *)

\* The drill follows, whatever the archive and the probes gave.
Probe(p) ==
    /\ spc[p] = "probe"
    /\ \/ probed' = [probed EXCEPT ![p] = mode[p] # "no probes"] /\ UNCHANGED <<faults, crossed>>
       \/ UNCHANGED probed /\ Faulty /\ Crossed
    /\ SealGoto(p, IF mode[p] = "no drill" THEN "NOT_SEALED" ELSE "exists")
    /\ UNCHANGED <<upstream, drill, verdict, archive, target, restored>>

\* Mutants: the drill does not ask whether the collection exists; nor for a digest.
CheckTarget_Unasked(p) ==
    /\ spc[p] = "exists"
    /\ SealGoto(p, IF digest[p] = "absent" \/ remote[latest[p]] = "absent"
                   THEN "NOT_SEALED" ELSE "upload")
    /\ UNCHANGED <<upstream, faults, drill, verdict, archive, probed, target, restored, crossed>>

CheckTarget_NoDigest(p) ==
    /\ spc[p] = "exists"
    /\ SealGoto(p, IF drills[target[p]] # None THEN "NOT_SEALED" ELSE "upload")
    /\ UNCHANGED <<upstream, faults, drill, verdict, archive, probed, target, restored, crossed>>

\* A copy without a digest, or that is gone, is not restored, and a collection
\* that exists is left alone.
CheckTarget(p) ==
    /\ spc[p] = "exists"
    /\ SealGoto(p, IF \/ digest[p] = "absent" \/ remote[latest[p]] = "absent"
                      \/ drills[target[p]] # None
                   THEN "NOT_SEALED" ELSE "upload")
    /\ UNCHANGED <<upstream, faults, drill, verdict, archive, probed, target, restored, crossed>>

\* What Qdrant makes of a copy that it accepts.
Content(n) == IF remote[n] = "whole" THEN taken[n] ELSE {}

\* Mutant: the upload has no checksum.
UploadDrill_Unchecked(p) ==
    /\ spc[p] = "upload"
    /\ \/ /\ remote[latest[p]] # "absent"
          /\ drills' = [drills EXCEPT ![target[p]] = Content(latest[p])]
          /\ SealGoto(p, "read")
          /\ UNCHANGED late
       \/ /\ remote[latest[p]] = "absent"
          /\ SealGoto(p, "clean")
          /\ UNCHANGED drill
    /\ UNCHANGED <<upstream, faults, verdict, archive, probed, target, restored, crossed>>

\* Qdrant takes the bytes when they have the digest of the check above; the file
\* may be gone, or no longer be what was hashed.  The collection is the drill's
\* to delete from here on.
UploadDrill(p) ==
    /\ spc[p] = "upload"
    /\ \/ /\ remote[latest[p]] = digest[p]
          /\ drills' = [drills EXCEPT ![target[p]] = Content(latest[p])]
          /\ SealGoto(p, "read")
          /\ UNCHANGED <<late, faults, crossed>>
       \/ /\ remote[latest[p]] # "whole" \/ digest[p] # "whole"
          /\ SealGoto(p, "clean")
          /\ UNCHANGED <<drill, faults, crossed>>
       \/ /\ Faulty /\ Crossed
          /\ \/ UNCHANGED drill
             \/ /\ remote[latest[p]] = digest[p]
                /\ late' = late \cup {<<target[p], Content(latest[p])>>}
                /\ UNCHANGED drills
          /\ SealGoto(p, "clean")
    /\ UNCHANGED <<upstream, verdict, archive, probed, target, restored>>

\* An upload that timed out is applied after all.
LandLate ==
    /\ \E u \in late :
        /\ drills' = [drills EXCEPT ![u[1]] = u[2]]
        /\ late' = late \ {u}
    /\ UNCHANGED <<upstream, faults, spc, verdict, archive, probed, target, restored, crossed>>

\* The collection, its count and two points are read, and not compared.
ReadDrill(p) ==
    /\ spc[p] = "read"
    /\ \/ /\ drills[target[p]] # None
          /\ restored' = [restored EXCEPT ![p] = drills[target[p]]]
          /\ UNCHANGED <<faults, crossed>>
       \/ UNCHANGED <<restored, faults, crossed>> /\ drills[target[p]] = None
       \/ UNCHANGED restored /\ Faulty /\ Crossed
    /\ SealGoto(p, "clean")
    /\ UNCHANGED <<upstream, drill, verdict, archive, probed, target>>

\* Mutant: an error of the cleanup is passed over.
DeleteDrill_Silent(p) ==
    /\ spc[p] = "clean"
    /\ \/ /\ drills' = [drills EXCEPT ![target[p]] = None]
          /\ SealGoto(p, "confirm")
          /\ UNCHANGED <<faults, crossed>>
       \/ /\ SealGoto(p, IF ok[p] /\ probed[p] /\ restored[p] # None THEN "SEALED" ELSE "NOT_SEALED")
          /\ UNCHANGED drills /\ Faulty /\ Crossed
    /\ UNCHANGED <<upstream, late, verdict, archive, probed, target, restored>>

\* The collection is deleted when it exists.  A failed call, applied or not,
\* ends the cleanup unconfirmed, and with it the seal.
DeleteDrill(p) ==
    /\ spc[p] = "clean"
    /\ \/ /\ drills' = [drills EXCEPT ![target[p]] = None]
          /\ SealGoto(p, "confirm")
          /\ UNCHANGED <<faults, crossed>>
       \/ /\ drills' \in {drills, [drills EXCEPT ![target[p]] = None]}
          /\ SealGoto(p, "NOT_SEALED") /\ Faulty /\ Crossed
    /\ UNCHANGED <<upstream, late, verdict, archive, probed, target, restored>>

\* The seal's verdict: archive, drill with its cleanup, and both probes.
Confirm(p) ==
    /\ spc[p] = "confirm"
    /\ \/ /\ SealGoto(p, IF /\ ok[p] /\ probed[p]
                            /\ restored[p] # None /\ drills[target[p]] = None
                         THEN "SEALED" ELSE "NOT_SEALED")
          /\ UNCHANGED <<faults, crossed>>
       \/ SealGoto(p, "NOT_SEALED") /\ Faulty /\ Crossed
    /\ UNCHANGED <<upstream, drill, verdict, archive, probed, target, restored>>

\* Killed, the process leaves no verdict and its collection where it is.
KillSeal(p) ==
    /\ Running(p)
    /\ Faulty
    /\ SealGoto(p, "NOT_SEALED") /\ Crossed
    /\ UNCHANGED <<upstream, drill, verdict, archive, probed, target, restored>>

-----------------------------------------------------------------------------
(* Around the seals *)

BackupRuns == BackupNext /\ Crossed
              /\ UNCHANGED <<drill, spc, verdict, archive, probed, target, restored>>

ServerWrites == \E i \in Ids : Put(i) /\ UNCHANGED <<backup, seal>>

\* The cloud loses bytes of a copy.
Rot(n) ==
    /\ remote[n] = "whole"
    /\ remote' = [remote EXCEPT ![n] = "torn"]
    /\ Faulty /\ Crossed
    /\ UNCHANGED <<live, taken, snaps, sidecars, pointer, bpc, bnum, bdoomed,
                   drill, spc, verdict, archive, probed, target, restored>>

SealStep(p) ==
    \/ StartSeal(p) \/ ReadPointer(p) \/ ListSnapshots(p) \/ ListSidecars(p) \/ CheckLatest(p)
    \/ CheckRest(p) \/ Probe(p) \/ CheckTarget(p) \/ UploadDrill(p) \/ ReadDrill(p)
    \/ DeleteDrill(p) \/ Confirm(p) \/ KillSeal(p)
    \/ \E n \in left[p] : CheckItem(p, n)

Next ==
    \/ BackupRuns \/ ServerWrites \/ LandLate
    \/ \E n \in Numbers : Rot(n)
    \/ \E p \in Seals : SealStep(p)

Spec == Init /\ [][Next]_vars

-----------------------------------------------------------------------------
(* Properties *)

\* Every variable holds what the code may put there.
TypeOK ==
    /\ SnapshotsTypeOK /\ BackupTypeOK
    /\ drills \in [Targets -> Contents \cup {None, Foreign}]
    /\ late \subseteq Targets \X Contents
    /\ spc \in [Seals -> {"new", "pointer", "list", "list sidecars", "latest", "items", "probe",
                          "exists", "upload", "read", "clean", "confirm", "SEALED", "NOT_SEALED"}]
    /\ mode \in [Seals -> Modes] /\ full \in [Seals -> BOOLEAN]
    /\ latest \in [Seals -> Numbers \cup {0}]
    /\ listed \in [Seals -> SUBSET Numbers] /\ beside \in [Seals -> SUBSET Numbers]
    /\ left \in [Seals -> SUBSET Numbers]
    /\ ok \in [Seals -> BOOLEAN] /\ digest \in [Seals -> {"absent", "whole", "torn"}]
    /\ \A p \in Seals : spc[p] \in {"upload", "read"} => digest[p] # "absent"
    /\ probed \in [Seals -> BOOLEAN]
    /\ \A p \in Seals : target[p] \in {p, Named}
    /\ restored \in [Seals -> Contents \cup {None}]
    /\ torn \in [Seals -> SUBSET Numbers] /\ crossed \in [Seals -> BOOLEAN]

Sealed(p) == spc[p] = "SEALED"
Deployed(p) == Sealed(p) /\ mode[p] = "deployment"

\* README.md:297-313: no SEALED over a copy that was torn when the seal began
\* and is retained when it ends; with --latest-only, over no torn latest one.
SealSeesTorn ==
    \A p \in Seals :
        Sealed(p) => \A n \in torn[p] : remote[n] = "absent" \/ (~full[p] /\ n # latest[p])

\* deployment.py:517-576: a SEALED deployment restored, in a collection of its
\* own, just what the snapshot of latest.json was taken of, although the copy
\* may change or go between its check and its upload.
SealedIsRestored ==
    \A p \in Seals : Deployed(p) /\ target[p] # Named => restored[p] = taken[latest[p]]

\* README.md:311: the cleanup is verified.  After a SEALED deployment its drill
\* collection is gone and stays so, whatever call was lost before.
NothingLeftBehind ==
    \A p \in Seals : Deployed(p) /\ target[p] # Named => drills[p] = None

\* A drill never touches a collection that was there before (lines 474-480).
ForeignSpared == [][drills[Named] = Foreign => drills'[Named] = Foreign]_vars

\* A seal that no backup and no error crosses, of a directory in which no run
\* has failed, says SEALED: retention takes each copy with its sidecar, and the
\* last run left nothing a later seal stumbles over.
QuietSealPasses ==
    \A p \in Seals :
        spc[p] = "NOT_SEALED" /\ ~crossed[p] /\ faults = 0 =>
            \/ latest[p] = 0 \/ mode[p] \in {"no drill", "no probes"}
            \/ mode[p] = "deployment" /\ target[p] = Named
=============================================================================
