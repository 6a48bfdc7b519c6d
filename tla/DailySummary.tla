----------------------------- MODULE DailySummary -----------------------------
(***************************************************************************)
(* memorybridge/daily_summary.py: a job that summarises the conversations  *)
(* of the last days.  It reads local transcripts and the raw collection,   *)
(* asks a language model about each conversation its state file does not   *)
(* call completed, puts the answer into the local spool under a key of     *)
(* its own, and only then writes the state file.                           *)
(*                                                                         *)
(* systemd's timer and an operator may run it at once; a run may be killed *)
(* between two steps, a power loss may undo a rename that was not fsynced, *)
(* and the state file may be lost.  The spool is LocalSpool seen through   *)
(* what put promises: the summary is there for good once put returned.     *)
(***************************************************************************)
EXTENDS Naturals, FiniteSets, FiniteSetsExt

CONSTANTS
    Keys,         \* conversations, as <<day, number in the order of their keys>>
    Transcripts,  \* conversations whose messages are in local Codex files
    Refused,      \* conversations the language model answers with an error
    Timer,        \* the run systemd starts
    Operator,     \* the run a user starts
    None,         \* nobody holds the lock
    Lookback,     \* days of a run
    MaxSessions,  \* conversations of a day that a run looks at
    MergeFit,     \* partial summaries that fit into one merge prompt at least
    MaxChunks,    \* bound: chunks of a conversation
    Length,       \* bound: Length[k] messages of conversation k
    LastDay,      \* bound: days
    MaxManual,    \* bound: runs of the operator
    MaxFaults     \* bound: failed calls, kills, power losses

Runs == {Timer, Operator}
Turns == UNION {1..Length[k] : k \in Keys}

ASSUME SummaryAssumption ==
    /\ IsFiniteSet(Keys) /\ Keys \subseteq Nat \X Nat
    /\ Transcripts \subseteq Keys /\ Refused \subseteq Keys
    /\ Timer # Operator /\ None \notin Runs
    /\ {Lookback, MaxSessions, MergeFit} \subseteq Nat \ {0}
    /\ Length \in [Keys -> Nat]
    /\ {MaxChunks, LastDay, MaxManual, MaxFaults} \subseteq Nat

VARIABLES
    today,      \* the local date
    said,       \* said[k]: messages of conversation k
    raw,        \* raw[k]: those that the raw collection has
    pending,    \* pending[k]: messages that the summary in the spool is of, 0 without one
    sent,       \* conversations with a receipt in the spool
    stored,     \* stored[k]: messages that the summary on the server is of
    state,      \* conversations the state file calls completed
    disk,       \* the same, of the file that a power loss leaves
    lock,       \* the run that holds state_lock
    pc,         \* where a run is
    days,       \* days[p]: days that run p has still to do, the latest is at work
    found,      \* found[p]: messages it has collected, per conversation of the day
    todo,       \* todo[p]: conversations of the day it has still to look at
    completed,  \* completed[p]: the state it has loaded
    parts,      \* parts[p]: partial summaries it has still to merge
    manual, faults  \* counters of the bounds

source == <<today, said, raw>>
spool == <<pending, sent, stored>>
statefile == <<state, disk>>
bounds == <<manual, faults>>
vars == <<today, said, raw, pending, sent, stored, state, disk, lock, pc, days, found,
          todo, completed, parts, manual, faults>>

Nothing == [k \in Keys |-> 0]

Init ==
    /\ today = 1 /\ said = Nothing /\ raw = Nothing
    /\ pending = Nothing /\ sent = {} /\ stored = Nothing
    /\ state = {} /\ disk = {} /\ lock = None
    /\ pc = [p \in Runs |-> "idle"]
    /\ days = [p \in Runs |-> {}]
    /\ found = [p \in Runs |-> Nothing]
    /\ todo = [p \in Runs |-> {}]
    /\ completed = [p \in Runs |-> {}]
    /\ parts = [p \in Runs |-> 0]
    /\ manual = 0 /\ faults = 0

Goto(p, l) == pc' = [pc EXCEPT ![p] = l]

Faulty == faults < MaxFaults /\ faults' = faults + 1 /\ UNCHANGED manual

-----------------------------------------------------------------------------
(* Around the runs *)

\* Somebody talks to an agent.
Say(k) ==
    /\ k[1] = today /\ said[k] < Length[k]
    /\ said' = [said EXCEPT ![k] = @ + 1]
    /\ UNCHANGED <<today, raw, spool, statefile, lock, pc, days, found, todo, completed, parts, bounds>>

\* A captured message reaches the raw collection, maybe days later.
Capture(k) ==
    /\ raw[k] < said[k]
    /\ raw' = [raw EXCEPT ![k] = @ + 1]
    /\ UNCHANGED <<today, said, spool, statefile, lock, pc, days, found, todo, completed, parts, bounds>>

Midnight ==
    /\ today < LastDay
    /\ today' = today + 1
    /\ UNCHANGED <<said, raw, spool, statefile, lock, pc, days, found, todo, completed, parts, bounds>>

\* The syncer delivers a summary; the server keeps the first under its key.
Deliver(k) ==
    /\ pending[k] # 0
    /\ stored' = IF stored[k] = 0 THEN [stored EXCEPT ![k] = pending[k]] ELSE stored
    /\ pending' = [pending EXCEPT ![k] = 0]
    /\ sent' = sent \cup {k}
    /\ UNCHANGED <<source, statefile, lock, pc, days, found, todo, completed, parts, bounds>>

\* Receipts beyond the spool's limit are unlinked.
PruneReceipt(k) ==
    /\ k \in sent
    /\ sent' = sent \ {k}
    /\ UNCHANGED <<source, pending, stored, statefile, lock, pc, days, found, todo, completed, parts, bounds>>

-----------------------------------------------------------------------------
(* main, and run_once up to its lock *)

Start(p, target) ==
    /\ pc[p] = "idle"
    /\ days' = [days EXCEPT ![p] = {d \in 1..target : d + Lookback > target}]
    /\ days'[p] # {}
    /\ Goto(p, "files")
    /\ UNCHANGED <<source, spool, statefile, lock, found, todo, completed, parts, faults>>

\* The timer fires (again): the run is about yesterday and the days before.
StartTimer == Start(Timer, today - 1) /\ UNCHANGED manual

\* memorybridge-daily-summary --date
StartOperator ==
    /\ manual < MaxManual /\ manual' = manual + 1
    /\ \E d \in 1..today : Start(Operator, d)

Day(p) == Max(days[p])
Talks(p) == {k \in Keys : k[1] = Day(p)}

\* run_once for a day is over, with or without errors: main goes on with the
\* day before.  What the run had in memory is gone.
LeaveDay(p) ==
    /\ days' = [days EXCEPT ![p] = @ \ {Day(p)}]
    /\ Goto(p, IF Cardinality(days[p]) = 1 THEN "idle" ELSE "files")
    /\ found' = [found EXCEPT ![p] = Nothing]
    /\ todo' = [todo EXCEPT ![p] = {}]
    /\ completed' = [completed EXCEPT ![p] = {}]
    /\ parts' = [parts EXCEPT ![p] = 0]

\* parse_codex_transcript returns nothing for a file it cannot read.
CollectFiles(p) ==
    /\ pc[p] = "files"
    /\ \E unread \in SUBSET (Talks(p) \cap Transcripts) :
        /\ IF unread = {} THEN UNCHANGED bounds ELSE Faulty
        /\ found' = [found EXCEPT ![p] =
                        [k \in Keys |-> IF k \in (Talks(p) \cap Transcripts) \ unread THEN said[k] ELSE 0]]
    /\ Goto(p, "qdrant")
    /\ UNCHANGED <<source, spool, statefile, lock, days, todo, completed, parts>>

\* The n conversations of G whose keys come first.
First(G, n) == {k \in G : Cardinality({g \in G : g[2] < k[2]}) < n}

\* Mutant: messages that a transcript and the raw collection have count twice.
CollectRaw_NoDedupe(p) ==
    /\ pc[p] = "qdrant"
    /\ found' = [found EXCEPT ![p] =
                    [k \in Keys |-> IF k \in Talks(p) THEN @[k] + raw[k] ELSE @[k]]]
    /\ todo' = [todo EXCEPT ![p] = First({k \in Keys : found'[p][k] # 0}, MaxSessions)]
    /\ Goto(p, "lock")
    /\ UNCHANGED <<source, spool, statefile, lock, days, completed, parts, bounds>>

\* What the transcripts do not have comes from the raw collection; when Qdrant
\* fails, the run reports it and goes on with the transcripts alone.
CollectRaw(p) ==
    /\ pc[p] = "qdrant"
    /\ \/ /\ found' = [found EXCEPT ![p] =
                          [k \in Keys |-> IF k \in Talks(p) /\ @[k] = 0 THEN raw[k] ELSE @[k]]]
          /\ UNCHANGED bounds
       \/ UNCHANGED found /\ Faulty
    /\ todo' = [todo EXCEPT ![p] = First({k \in Keys : found'[p][k] # 0}, MaxSessions)]
    /\ Goto(p, "lock")
    /\ UNCHANGED <<source, spool, statefile, lock, days, completed, parts>>

\* Mutant: the state is read whoever holds the lock.
Lock_Ignored(p) ==
    /\ pc[p] = "lock"
    /\ lock' = p
    /\ completed' = [completed EXCEPT ![p] = state]
    /\ Goto(p, "group")
    /\ UNCHANGED <<source, spool, statefile, days, found, todo, parts, bounds>>

\* The state is loaded under the lock, what is summarised was read before.
Lock(p) ==
    /\ pc[p] = "lock"
    /\ lock = None
    /\ lock' = p
    /\ completed' = [completed EXCEPT ![p] = state]
    /\ Goto(p, "group")
    /\ UNCHANGED <<source, spool, statefile, days, found, todo, parts, bounds>>

\* Another run holds the lock, or this one is a --dry-run: the day is left.
LeaveUnlocked(p) ==
    /\ pc[p] = "lock"
    /\ lock # None \/ p = Operator
    /\ LeaveDay(p)
    /\ UNCHANGED <<source, spool, statefile, lock, bounds>>

-----------------------------------------------------------------------------
(* run_once under its lock *)

IsNext(p, k) == k \in todo[p] /\ \A g \in todo[p] : k[2] <= g[2]

Skip(p, k) ==
    /\ pc[p] = "group"
    /\ IsNext(p, k) /\ k \in completed[p]
    /\ todo' = [todo EXCEPT ![p] = @ \ {k}]
    /\ UNCHANGED <<source, spool, statefile, lock, pc, days, found, completed, parts, bounds>>

\* summarize_conversation: a conversation of one chunk is one call, of more
\* chunks one call each, then rounds of merges, then the last call.
Summarise(p, k) ==
    /\ pc[p] = "group"
    /\ IsNext(p, k) /\ k \notin completed[p]
    /\ \E n \in 1..MaxChunks :
        /\ Goto(p, IF n = 1 THEN "final" ELSE "chunks")
        /\ parts' = [parts EXCEPT ![p] = n]
    /\ UNCHANGED <<source, spool, statefile, lock, days, found, todo, completed, bounds>>

\* The model answers every call of a round; only the run sees the answers.
AnswerRound(p, k) ==
    /\ pc[p] \in {"chunks", "batches"}
    /\ IsNext(p, k) /\ k \notin Refused
    /\ Goto(p, "merge")
    /\ UNCHANGED <<source, spool, statefile, lock, days, found, todo, completed, parts, bounds>>

\* Mutant: no two partial summaries need fit into one prompt.
Batches_OneEach(n) == 1..n

\* The batches n partial summaries may need: MergeFit of them fit into one.
Batches(n) == {b \in 1..n : (b - 1) * MergeFit < n}

\* One batch is what the last prompt takes; of more each is merged by a call.
Batch(p, k) ==
    /\ pc[p] = "merge"
    /\ IsNext(p, k)
    /\ \E b \in Batches(parts[p]) :
        /\ parts' = [parts EXCEPT ![p] = b]
        /\ Goto(p, IF b = 1 THEN "final" ELSE "batches")
    /\ UNCHANGED <<source, spool, statefile, lock, days, found, todo, completed, bounds>>

AnswerFinal(p, k) ==
    /\ pc[p] = "final"
    /\ IsNext(p, k) /\ k \notin Refused
    /\ parts' = [parts EXCEPT ![p] = 0]
    /\ Goto(p, "put")
    /\ UNCHANGED <<source, spool, statefile, lock, days, found, todo, completed, bounds>>

\* Mutants: a summary replaces the one in the spool; none is put.
Put_Overwrites(p, k) ==
    /\ pc[p] = "put"
    /\ IsNext(p, k)
    /\ pending' = [pending EXCEPT ![k] = found[p][k]]
    /\ Goto(p, "write")
    /\ UNCHANGED <<source, sent, stored, statefile, lock, days, found, todo, completed, parts, bounds>>

Put_Skipped(p, k) ==
    /\ pc[p] = "put"
    /\ IsNext(p, k)
    /\ Goto(p, "write")
    /\ UNCHANGED <<source, spool, statefile, lock, days, found, todo, completed, parts, bounds>>

\* spool.put: nothing is written when pending or sent has a file of this key.
Put(p, k) ==
    /\ pc[p] = "put"
    /\ IsNext(p, k)
    /\ IF pending[k] # 0 \/ k \in sent
       THEN UNCHANGED pending
       ELSE pending' = [pending EXCEPT ![k] = found[p][k]]
    /\ Goto(p, "write")
    /\ UNCHANGED <<source, sent, stored, statefile, lock, days, found, todo, completed, parts, bounds>>

\* _write_state: the new file, fsynced, takes the name of the old one.
WriteState(p, k) ==
    /\ pc[p] = "write"
    /\ IsNext(p, k)
    /\ completed' = [completed EXCEPT ![p] = @ \cup {k}]
    /\ state' = completed'[p]
    /\ Goto(p, "fsync")
    /\ UNCHANGED <<source, spool, disk, lock, days, found, todo, parts, bounds>>

\* The directory is fsynced; an error of that is passed over.
SyncState(p, k) ==
    /\ pc[p] = "fsync"
    /\ IsNext(p, k)
    /\ \/ disk' = state /\ UNCHANGED bounds
       \/ UNCHANGED disk /\ Faulty
    /\ todo' = [todo EXCEPT ![p] = @ \ {k}]
    /\ Goto(p, "group")
    /\ UNCHANGED <<source, spool, state, lock, days, found, completed, parts>>

\* A call, the spool or the state file raises: the day is over for this run.
GiveUp(p) ==
    /\ pc[p] \in {"chunks", "batches", "final", "put", "write"}
    /\ \/ /\ pc[p] \in {"chunks", "final"}
          /\ \E k \in Refused : IsNext(p, k)
          /\ UNCHANGED bounds
       \/ Faulty
    /\ lock' = None
    /\ LeaveDay(p)
    /\ UNCHANGED <<source, spool, statefile>>

EndDay(p) ==
    /\ pc[p] = "group"
    /\ todo[p] = {}
    /\ lock' = None
    /\ LeaveDay(p)
    /\ UNCHANGED <<source, spool, statefile, bounds>>

-----------------------------------------------------------------------------
(* Failures *)

Forget(D) ==
    /\ pc' = [p \in Runs |-> IF p \in D THEN "idle" ELSE pc[p]]
    /\ days' = [p \in Runs |-> IF p \in D THEN {} ELSE days[p]]
    /\ found' = [p \in Runs |-> IF p \in D THEN Nothing ELSE found[p]]
    /\ todo' = [p \in Runs |-> IF p \in D THEN {} ELSE todo[p]]
    /\ completed' = [p \in Runs |-> IF p \in D THEN {} ELSE completed[p]]
    /\ parts' = [p \in Runs |-> IF p \in D THEN 0 ELSE parts[p]]
    /\ lock' = IF lock \in D THEN None ELSE lock

\* A run is killed (systemd does after two hours): the kernel frees its lock.
Kill(p) ==
    /\ pc[p] # "idle"
    /\ Faulty
    /\ Forget({p})
    /\ UNCHANGED <<source, spool, statefile>>

PowerLoss ==
    /\ Faulty
    /\ Forget(Runs)
    /\ state' \in {state, disk} /\ disk' = state'
    /\ UNCHANGED <<source, spool>>

\* _load_state takes a file that is gone or no JSON for an empty one.
LoseState ==
    /\ Faulty
    /\ state' = {} /\ disk' = {}
    /\ UNCHANGED <<source, spool, lock, pc, days, found, todo, completed, parts>>

-----------------------------------------------------------------------------
Step(p) ==
    \/ CollectFiles(p) \/ CollectRaw(p) \/ Lock(p) \/ LeaveUnlocked(p) \/ EndDay(p)
    \/ \E k \in Keys : Skip(p, k) \/ Summarise(p, k) \/ AnswerRound(p, k) \/ Batch(p, k)
                       \/ AnswerFinal(p, k) \/ Put(p, k) \/ WriteState(p, k) \/ SyncState(p, k)

Next ==
    \/ \E k \in Keys : Say(k) \/ Capture(k) \/ Deliver(k) \/ PruneReceipt(k)
    \/ Midnight
    \/ StartTimer \/ StartOperator
    \/ \E p \in Runs : Step(p) \/ GiveUp(p) \/ Kill(p)
    \/ PowerLoss \/ LoseState

Spec == Init /\ [][Next]_vars

\* The timer is persistent: it fires again, today and every day.  A run's calls
\* have timeouts, so each of its steps is taken, or gives up.
FairSpec ==
    /\ Spec
    /\ WF_vars(StartTimer)
    /\ \A p \in Runs : WF_vars(Step(p) \/ GiveUp(p))

-----------------------------------------------------------------------------
(* Properties *)

\* Every variable holds what the code may put there.
TypeOK ==
    /\ today \in Nat
    /\ {said, raw, pending, stored} \subseteq [Keys -> Turns \cup {0}]
    /\ sent \subseteq Keys /\ state \subseteq Keys /\ disk \subseteq Keys
    /\ lock \in Runs \cup {None}
    /\ pc \in [Runs -> {"idle", "files", "qdrant", "lock", "group", "chunks", "merge",
                        "batches", "final", "put", "write", "fsync"}]
    /\ days \in [Runs -> SUBSET Nat]
    /\ found \in [Runs -> [Keys -> Turns \cup {0}]]
    /\ \A p \in Runs, k \in Keys : found[p][k] <= Length[k]
    /\ todo \in [Runs -> SUBSET Keys] /\ completed \in [Runs -> SUBSET Keys]
    /\ parts \in [Runs -> Nat]
    /\ manual \in Nat /\ faults \in Nat

\* The summary of k a reader will find: the server keeps the first it got.
Summary(k) == IF stored[k] # 0 THEN stored[k] ELSE pending[k]

\* A conversation the state file calls completed, now or after a power loss,
\* has its summary: a run killed between the spool and the state file leaves a
\* conversation to repeat and never one that was not written (lines 758-766).
CompletedIsCaptured == \A k \in state \cup disk : Summary(k) # 0

\* README.md:262, 276: the idempotency keys make retries safe.  Runs that repeat
\* a conversation, with more messages or another answer, after kills, lost state
\* files and pruned receipts, never replace or double its summary.
Once == INSTANCE WriteOnce WITH
            Values <- Turns,
            NoValue <- 0,
            store <- [k \in Keys |-> Summary(k)]

SummarisedOnce == Once!OnceSpec

\* Two runs at once do not undo each other's entries in the state file: an entry
\* goes only with a failure (lines 647-662, 719-723).
EntriesStay == [][state \subseteq state' \/ faults' # faults]_vars

\* A conversation some source has messages of.
Visible(k) == IF k \in Transcripts THEN said[k] # 0 ELSE raw[k] # 0

\* README.md:274, memorybridge-daily-summary.env.example:11: failed dates are
\* retried within the lookback.  A conversation of a past day is summarised in
\* the end, unless its day leaves the window first.
FailedDatesRetried ==
    \A k \in Keys \ Refused :
        (Visible(k) /\ k[1] < today) ~> (Summary(k) # 0 \/ k[1] + Lookback < today)
=============================================================================
