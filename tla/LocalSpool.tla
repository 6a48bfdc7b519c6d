------------------------------ MODULE LocalSpool ------------------------------
(***************************************************************************)
(* The client's local spool (memorybridge/spool.py): hook processes that   *)
(* capture events as files, and syncers (the daemon, a manual spool-sync)  *)
(* that deliver them to the server through memory_put.                     *)
(*                                                                         *)
(* Processes share nothing but the directories, so every file operation is *)
(* a step of its own.  A process may be killed at any step; a power loss   *)
(* kills all of them and may undo every rename that was not fsynced yet.   *)
(* The server is abstract: put stores an event once (DurableStream).       *)
(***************************************************************************)
EXTENDS Naturals, FiniteSets

CONSTANTS
    Events,      \* captured events; the file name is sha256(idempotency_key)
    Malformed,   \* files in pending that are text, but no MemoryPut
    Undecodable, \* files in pending that are not UTF-8
    Hooks,       \* capture processes (codex_hook_main, ...)
    Syncers,     \* processes running sync_once
    None,        \* no file
    MaxItems,    \* max_items of a pass
    MaxSent,     \* receipts kept in sent/
    MaxTries,    \* bound: hook runs per event
    MaxKills,    \* bound: killed processes
    MaxOutages   \* bound: power losses

Files == Events \cup Malformed \cup Undecodable
Processes == Hooks \cup Syncers
Dirs == {"pending", "sent", "failed"}

ASSUME SpoolAssumption ==
    /\ IsFiniteSet(Files)
    /\ Events \cap (Malformed \cup Undecodable) = {}
    /\ Malformed \cap Undecodable = {}
    /\ Hooks \cap Syncers = {}
    /\ None \notin Files
    /\ {MaxItems, MaxSent, MaxTries, MaxKills, MaxOutages} \subseteq Nat

VARIABLES
    dirs,      \* dirs[f]: the directories that hold a file named f
    disk,      \* disk[f]: what dirs[f] was when last fsynced
    mtime,     \* mtime[f]: modification time of the file in pending or sent
    now,       \* the clock mtimes are taken from
    pc, file,  \* where a process is, and the file it works on
    child,     \* child[p]: the file and directory LocalSpool.__init__ looks at
    written,   \* written[h]: mtime of hook h's temporary file
    todo,      \* todo[s]: rest of the listing of syncer s, as <<mtime, file>>
    stored,    \* events the server has stored
    promised,  \* events some put returned from after its fsync
    before,    \* before[e]: what was promised when e's first capture began, {e} until then
    tries,     \* tries[e]: hook runs that captured e
    kills, outages  \* counters of the bounds

fs == <<dirs, disk, mtime>>
history == <<promised, before, tries>>
bounds == <<kills, outages>>
vars == <<dirs, disk, mtime, now, pc, file, child, written, todo, stored,
          promised, before, tries, kills, outages>>

Init ==
    /\ dirs = [f \in Files |-> IF f \in Events THEN {} ELSE {"pending"}]
    /\ disk = dirs
    /\ mtime = [f \in Files |-> 0]
    /\ now = 0
    /\ pc = [p \in Processes |-> "idle"]
    /\ file = [p \in Processes |-> None]
    /\ child = [p \in Processes |-> <<>>]
    /\ written = [h \in Hooks |-> 0]
    /\ todo = [s \in Syncers |-> {}]
    /\ stored = {}
    /\ promised = {}
    /\ before = [e \in Events |-> {e}]
    /\ tries = [e \in Events |-> 0]
    /\ kills = 0 /\ outages = 0

Goto(p, l) == pc' = [pc EXCEPT ![p] = l]

\* An exception a hook swallows, or one that ends a pass.
Abort(p) ==
    /\ Goto(p, IF p \in Hooks THEN "ended" ELSE "idle")
    /\ todo' = [s \in Syncers |-> IF s = p THEN {} ELSE todo[s]]

Continue(p, l) == Goto(p, l) /\ UNCHANGED todo

-----------------------------------------------------------------------------
(* Opening the spool *)

\* A host runs its hook with a new event, or one it captured before.
StartHook(h) ==
    /\ pc[h] \in {"idle", "ended"}
    /\ \E e \in Events :
        /\ tries[e] < MaxTries
        /\ tries' = [tries EXCEPT ![e] = @ + 1]
        /\ file' = [file EXCEPT ![h] = e]
        /\ before' = IF before[e] = {e} THEN [before EXCEPT ![e] = promised] ELSE before
    /\ Goto(h, "open")
    /\ UNCHANGED <<fs, now, child, written, todo, stored, promised, bounds>>

\* The daemon wakes up, or a user runs spool-sync.
StartPass(s) ==
    /\ pc[s] = "idle"
    /\ Goto(s, "open")
    /\ UNCHANGED <<fs, now, file, child, written, todo, stored, history, bounds>>

Opened(p) == Goto(p, IF p \in Hooks THEN "put" ELSE "list")

\* LocalSpool.__init__ looks at each child and tightens its mode.  Looking is
\* one step, chmod another; only the child that is gone in between matters.
Open(p) ==
    /\ pc[p] = "open"
    /\ Opened(p)
    /\ UNCHANGED <<fs, now, file, child, written, todo, stored, history, bounds>>

SeeChild(p, f, d) ==
    /\ pc[p] = "open"
    /\ d \in dirs[f]
    /\ child' = [child EXCEPT ![p] = <<f, d>>]
    /\ Goto(p, "chmod")
    /\ UNCHANGED <<fs, now, file, written, todo, stored, history, bounds>>

\* os.chmod raises FileNotFoundError for a child another process moved.
ChmodChild(p) ==
    /\ pc[p] = "chmod"
    /\ IF child[p][2] \in dirs[child[p][1]] THEN Opened(p) /\ UNCHANGED todo ELSE Abort(p)
    /\ child' = [child EXCEPT ![p] = <<>>]
    /\ UNCHANGED <<fs, now, file, written, stored, history, bounds>>

-----------------------------------------------------------------------------
(* put *)

PutExists(h) ==
    /\ pc[h] = "put"
    /\ dirs[file[h]] \cap {"pending", "sent"} # {}
    /\ Goto(h, "ended")
    /\ UNCHANGED <<fs, now, file, child, written, todo, stored, history, bounds>>

PutAbsent(h) ==
    /\ pc[h] = "put"
    /\ dirs[file[h]] \cap {"pending", "sent"} = {}
    /\ Goto(h, "write")
    /\ UNCHANGED <<fs, now, file, child, written, todo, stored, history, bounds>>

\* The temporary file is written and fsynced; it carries the mtime.
PutWrite(h) ==
    /\ pc[h] = "write"
    /\ now' = now + 1
    /\ written' = [written EXCEPT ![h] = now + 1]
    /\ Goto(h, "replace")
    /\ UNCHANGED <<fs, file, child, todo, stored, history, bounds>>

PutReplace(h) ==
    /\ pc[h] = "replace"
    /\ dirs' = [dirs EXCEPT ![file[h]] = @ \cup {"pending"}]
    /\ mtime' = [mtime EXCEPT ![file[h]] = written[h]]
    /\ Goto(h, "fsync")
    /\ UNCHANGED <<disk, now, file, child, written, todo, stored, history, bounds>>

\* fsync of a directory makes the renames into and out of it permanent.
Fsync(D) ==
    disk' = [f \in Files |-> IF (dirs[f] \cup disk[f]) \cap D # {} THEN dirs[f] ELSE disk[f]]

\* Mutant: put returns once the file has its name.
PutFsync_Skipped(h) ==
    /\ pc[h] = "fsync"
    /\ promised' = promised \cup {file[h]}
    /\ Goto(h, "ended")
    /\ UNCHANGED <<fs, now, file, child, written, todo, stored, before, tries, bounds>>

PutFsync(h) ==
    /\ pc[h] = "fsync"
    /\ Fsync({"pending"})
    /\ promised' = promised \cup {file[h]}
    /\ Goto(h, "ended")
    /\ UNCHANGED <<dirs, mtime, now, file, child, written, todo, stored, before, tries, bounds>>

-----------------------------------------------------------------------------
(* sync_once *)

Pending == {f \in Files : "pending" \in dirs[f]}

Least(n, m) == IF n < m THEN n ELSE m

\* The n oldest of the files F.
Oldest(L, F, n) ==
    /\ L \subseteq F
    /\ Cardinality(L) = Least(Cardinality(F), n)
    /\ \A f \in L, g \in F \ L : mtime[f] <= mtime[g]

\* pending_paths()[:max_items]
List(s) ==
    /\ pc[s] = "list"
    /\ \E L \in SUBSET Pending :
        /\ Oldest(L, Pending, MaxItems)
        /\ todo' = [todo EXCEPT ![s] = {<<mtime[f], f>> : f \in L}]
    /\ Goto(s, "next")
    /\ UNCHANGED <<fs, now, file, child, written, stored, history, bounds>>

\* The pass is over.
EndPass(s) ==
    /\ pc[s] = "next"
    /\ todo[s] = {}
    /\ Goto(s, "idle")
    /\ UNCHANGED <<fs, now, file, child, written, todo, stored, history, bounds>>

\* Mutant: a malformed file ends the pass.
Read_MalformedAborts(s) ==
    /\ pc[s] = "next"
    /\ \E x \in todo[s] :
        /\ \A y \in todo[s] : x[1] <= y[1]
        /\ file' = [file EXCEPT ![s] = x[2]]
        /\ IF x[2] \in Pending \cap Events
           THEN todo' = [todo EXCEPT ![s] = @ \ {x}] /\ Goto(s, "push")
           ELSE Abort(s)
    /\ UNCHANGED <<fs, now, child, written, stored, history, bounds>>

\* The next file of the listing is read and parsed: the pass breaks off when
\* it is gone (OSError), dies when it is not UTF-8 (UnicodeDecodeError is not
\* caught), and sets a malformed one aside.
Read(s) ==
    /\ pc[s] = "next"
    /\ \E x \in todo[s] :
        /\ \A y \in todo[s] : x[1] <= y[1]
        /\ file' = [file EXCEPT ![s] = x[2]]
        /\ IF x[2] \in Pending \ Undecodable
           THEN /\ todo' = [todo EXCEPT ![s] = @ \ {x}]
                /\ Goto(s, IF x[2] \in Malformed THEN "quarantine" ELSE "push")
           ELSE Abort(s)
    /\ UNCHANGED <<fs, now, child, written, stored, history, bounds>>

\* Mutant: a malformed file is deleted.
Quarantine_Unlinks(s) ==
    /\ pc[s] = "quarantine"
    /\ IF file[s] \in Pending
       THEN /\ dirs' = [dirs EXCEPT ![file[s]] = @ \ {"pending"}]
            /\ Continue(s, "qfsync")
       ELSE Abort(s) /\ UNCHANGED dirs
    /\ UNCHANGED <<disk, mtime, now, file, child, written, stored, history, bounds>>

\* quarantine: os.replace under a name that is free in failed/.
Quarantine(s) ==
    /\ pc[s] = "quarantine"
    /\ IF file[s] \in Pending
       THEN /\ dirs' = [dirs EXCEPT ![file[s]] = (@ \ {"pending"}) \cup {"failed"}]
            /\ Continue(s, "qfsync")
       ELSE Abort(s) /\ UNCHANGED dirs
    /\ UNCHANGED <<disk, mtime, now, file, child, written, stored, history, bounds>>

QuarantineFsync(s) ==
    /\ pc[s] = "qfsync"
    /\ Fsync({"pending", "failed"})
    /\ Goto(s, "next")
    /\ UNCHANGED <<dirs, mtime, now, file, child, written, todo, stored, history, bounds>>

\* memory_put over MCP, through the server's first-writer-wins store.
PushOk(s) ==
    /\ pc[s] = "push"
    /\ stored' = stored \cup {file[s]}
    /\ Goto(s, "mark")
    /\ UNCHANGED <<fs, now, file, child, written, todo, history, bounds>>

\* Mutants: an error result is taken for success; the pass goes on after one.
PushFails_Ignored(s) ==
    /\ pc[s] = "push"
    /\ stored' \in {stored, stored \cup {file[s]}}
    /\ Continue(s, "mark")
    /\ UNCHANGED <<fs, now, file, child, written, history, bounds>>

PushFails_GoesOn(s) ==
    /\ pc[s] = "push"
    /\ stored' \in {stored, stored \cup {file[s]}}
    /\ Continue(s, "next")
    /\ UNCHANGED <<fs, now, file, child, written, history, bounds>>

\* The server is unreachable or answers an error, or its answer is lost.
PushFails(s) ==
    /\ pc[s] = "push"
    /\ stored' \in {stored, stored \cup {file[s]}}
    /\ Abort(s)
    /\ UNCHANGED <<fs, now, file, child, written, history, bounds>>

\* mark_sent: the rename; FileNotFoundError when another syncer was faster.
MarkSent(s) ==
    /\ pc[s] = "mark"
    /\ IF file[s] \in Pending
       THEN /\ dirs' = [dirs EXCEPT ![file[s]] = (@ \ {"pending"}) \cup {"sent"}]
            /\ Continue(s, "sfsync")
       ELSE Abort(s) /\ UNCHANGED dirs
    /\ UNCHANGED <<disk, mtime, now, file, child, written, stored, history, bounds>>

Sent == {f \in Files : "sent" \in dirs[f]}

\* mark_sent: both directories are fsynced, then old receipts unlinked.
MarkSentFsync(s) ==
    /\ pc[s] = "sfsync"
    /\ Fsync({"pending", "sent"})
    /\ Goto(s, "prune")
    /\ UNCHANGED <<dirs, mtime, now, file, child, written, todo, stored, history, bounds>>

PruneSent(s) ==
    /\ pc[s] = "prune"
    /\ \E O \in SUBSET Sent :
        /\ Oldest(O, Sent, IF Cardinality(Sent) > MaxSent THEN Cardinality(Sent) - MaxSent ELSE 0)
        /\ dirs' = [f \in Files |-> IF f \in O THEN dirs[f] \ {"sent"} ELSE dirs[f]]
    /\ Goto(s, "next")
    /\ UNCHANGED <<disk, mtime, now, file, child, written, todo, stored, history, bounds>>

-----------------------------------------------------------------------------
(* Failures *)

Kill(p) ==
    /\ pc[p] \notin {"idle", "ended"}
    /\ kills < MaxKills
    /\ kills' = kills + 1
    /\ pc' = [pc EXCEPT ![p] = "idle"]
    /\ child' = [child EXCEPT ![p] = <<>>]
    /\ todo' = [s \in Syncers |-> IF s = p THEN {} ELSE todo[s]]
    /\ UNCHANGED <<fs, now, file, written, stored, history, outages>>

\* Everything dies; a rename that no fsync covers survives or does not.
PowerLoss ==
    /\ outages < MaxOutages
    /\ outages' = outages + 1
    /\ \E undone \in SUBSET Files :
            dirs' = [f \in Files |-> IF f \in undone THEN disk[f] ELSE dirs[f]]
    /\ disk' = dirs'
    /\ pc' = [p \in Processes |-> "idle"]
    /\ child' = [p \in Processes |-> <<>>]
    /\ todo' = [s \in Syncers |-> {}]
    /\ UNCHANGED <<mtime, now, file, written, stored, history, kills>>

-----------------------------------------------------------------------------
HookStep(h) == PutExists(h) \/ PutAbsent(h) \/ PutWrite(h) \/ PutReplace(h) \/ PutFsync(h)

OpenStep(p) ==
    Open(p) \/ ChmodChild(p) \/ \E f \in Files, d \in Dirs : SeeChild(p, f, d)

SyncStep(s) ==
    \/ List(s) \/ EndPass(s) \/ Read(s) \/ Quarantine(s) \/ QuarantineFsync(s)
    \/ PushOk(s) \/ PushFails(s) \/ MarkSent(s) \/ MarkSentFsync(s) \/ PruneSent(s)

Next ==
    \/ \E h \in Hooks : StartHook(h) \/ HookStep(h)
    \/ \E s \in Syncers : StartPass(s) \/ SyncStep(s)
    \/ \E p \in Processes : OpenStep(p) \/ Kill(p)
    \/ PowerLoss

Spec == Init /\ [][Next]_vars

\* The daemon loop never ends (systemd restarts it), its steps complete, and
\* a server that is asked again and again answers in the end.
Fairness ==
    \A s \in Syncers : /\ WF_vars(StartPass(s) \/ OpenStep(s) \/ SyncStep(s))
                       /\ SF_vars(PushOk(s))

FairSpec == Spec /\ Fairness

-----------------------------------------------------------------------------
(* Properties *)

Labels == {"idle", "ended", "open", "chmod", "put", "write", "replace", "fsync", "list", "next", "push",
           "mark", "sfsync", "prune", "quarantine", "qfsync"}

\* Every variable holds what the code may put there.
TypeOK ==
    /\ dirs \in [Files -> SUBSET Dirs]
    /\ disk \in [Files -> SUBSET Dirs]
    /\ mtime \in [Files -> Nat]
    /\ now \in Nat
    /\ pc \in [Processes -> Labels]
    /\ child \in [Processes -> {<<>>} \cup (Files \X Dirs)]
    /\ file \in [Processes -> Files \cup {None}]
    /\ written \in [Hooks -> Nat]
    /\ todo \in [Syncers -> SUBSET (Nat \X Files)]
    /\ stored \subseteq Events
    /\ promised \subseteq Events
    /\ before \in [Events -> SUBSET Events]

\* An event whose put returned after its fsync is on the server or durably in
\* pending, whatever is killed, loses power or races (spool.py:34, 55-70).
PromisedNeverLost ==
    \A e \in promised : e \in stored \/ (e \in Pending /\ "pending" \in disk[e])

\* A receipt in sent/ means that the server has the event (spool.py:207-208),
\* also after a power loss: put drops a retry on the strength of a receipt.
SentIsStored ==
    \A e \in Events : "sent" \in dirs[e] \cup disk[e] => e \in stored

\* An event reaches the server after all that was captured before its own
\* capture began: a failed push ends the pass (spool.py:212).  An event that
\* was captured twice is left out: the second capture may replace the file
\* with a newer one, which then is delivered in its place.
OrderPreserved ==
    \A e \in stored : \A d \in before[e] : tries[d] = 1 => d \in stored

\* Malformed files are set aside and never lost; events never are set aside
\* (spool.py:201-203).
QuarantineExact ==
    \A f \in Files : /\ f \in Malformed => (dirs[f] # {} /\ "sent" \notin dirs[f])
                     /\ "failed" \in dirs[f] => f \in Malformed

\* Hooks, syncers, server and the directories' fsyncs are one durable outbox: no
\* race of file operations drops a captured event that the server has not, or
\* pushes one that is not in pending (spool.py:34 "Crash-safe local write fallback").
Box == INSTANCE Outbox WITH
           Messages <- Events,
           held <- Pending \cap Events,
           safe <- {e \in Events : "pending" \in disk[e]},
           done <- stored

ImplementsOutbox == Box!OutboxSpec

\* Whatever lies in the queue with it, a captured event reaches the server.
EventuallyStored == \A e \in Events : e \in promised ~> e \in stored
=============================================================================
