--------------------------- MODULE QdrantSnapshots ---------------------------
(***************************************************************************)
(* What the archiver (Archive) and the cloud backup (CloudBackup) share:   *)
(* one source collection in Qdrant, which the server writes meanwhile, and *)
(* the snapshots Qdrant keeps of it.  Snapshots are numbered in the order  *)
(* of their creation; a number stands for a name.                          *)
(***************************************************************************)
EXTENDS Naturals, FiniteSets, Sequences

CONSTANTS
    Ids,           \* records a caller may put
    None,          \* the content of a collection that does not exist
    MaxSnapshots,  \* bound: snapshots in a behaviour
    MaxFaults      \* bound: failed calls, kills and power losses in a behaviour

ASSUME SnapshotsAssumption ==
    /\ \A S \in SUBSET Ids : None # S
    /\ {MaxSnapshots, MaxFaults} \subseteq Nat

VARIABLES
    live,    \* records of the collection, or None
    taken,   \* taken[n]: records of snapshot n
    snaps,   \* snapshots that Qdrant holds
    faults   \* failed calls, kills and power losses so far

Contents == {S : S \in SUBSET Ids}
Numbers == 1..Len(taken)
IsLatest(n, S) == n \in S /\ \A m \in S : m <= n

\* The elements of S that fewer than k elements of S exceed.
Newest(S, k) == {n \in S : Cardinality({m \in S : m > n}) < k}

InitSnapshots == live = {} /\ taken = <<>> /\ snaps = {} /\ faults = 0

\* Mutant: the collection may be missing.
CreateSnapshot_Missing ==
    /\ Len(taken) < MaxSnapshots
    /\ taken' = Append(taken, live)
    /\ snaps' = snaps \cup {Len(taken) + 1}

\* The collection exists: Qdrant makes a snapshot of it, of one moment.
CreateSnapshot ==
    /\ live # None
    /\ Len(taken) < MaxSnapshots
    /\ taken' = Append(taken, live)
    /\ snaps' = snaps \cup {Len(taken) + 1}

Faulty == faults < MaxFaults /\ faults' = faults + 1

\* The server: any call creates a missing collection, a put adds a record.
EnsureCollection ==
    /\ live = None
    /\ live' = {}
    /\ UNCHANGED <<taken, snaps, faults>>

Put(i) ==
    /\ live # None
    /\ live' = live \cup {i}
    /\ UNCHANGED <<taken, snaps, faults>>

SnapshotsTypeOK ==
    /\ live \in Contents \cup {None}
    /\ taken \in Seq(Contents)
    /\ snaps \subseteq Numbers
    /\ faults \in Nat
=============================================================================
