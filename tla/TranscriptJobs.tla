---------------------------- MODULE TranscriptJobs ----------------------------
(***************************************************************************)
(* Transcript references (memorybridge/spool.py): a SessionEnd hook queues *)
(* a tiny job file that names the host's transcript; the sync daemon later *)
(* reads the transcript, cuts it into chunks, captures each chunk through  *)
(* LocalSpool.put and drops the job.                                       *)
(*                                                                         *)
(* The host goes on writing its transcript, a repeated hook replaces the   *)
(* job file of its transcript, processes are killed and power is lost.     *)
(* Delivery of a chunk is one step here; LocalSpool has its details.       *)
(***************************************************************************)
EXTENDS Naturals, FiniteSets

CONSTANTS
    Transcripts, \* transcripts the host writes and queues
    Missing,     \* jobs whose transcript file does not exist
    Bad,         \* job files that name no source
    Invalid,     \* transcripts whose job has a field that MemoryPut refuses
    Hooks,       \* hook processes
    Daemons,     \* processes running sync_once
    None,        \* no job
    ChunkTurns,  \* turns that fill a chunk of chunk_bytes
    MaxJobs,     \* max_jobs of a pass
    MaxTurns,    \* bound: turns in a transcript
    MaxQueues,   \* bound: hook runs per transcript
    MaxFailures  \* bound: kills and power losses

Jobs == Transcripts \cup Missing \cup Bad

ASSUME TranscriptAssumption ==
    /\ IsFiniteSet(Jobs)
    /\ Transcripts \cap (Missing \cup Bad) = {} /\ Missing \cap Bad = {}
    /\ Invalid \subseteq Transcripts
    /\ Hooks \cap Daemons = {}
    /\ None \notin Jobs
    /\ {ChunkTurns, MaxJobs} \subseteq Nat \ {0}
    /\ {MaxTurns, MaxQueues, MaxFailures} \subseteq Nat

VARIABLES
    turns,     \* turns[t]: turns in the transcript's file; 0 when it does not exist
    jobs, jobsDisk,       \* job files, and those of them an fsync covered
    mtime,     \* mtime[j]: modification time of the job file
    now,       \* the clock mtimes are taken from
    pending, pendingDisk, \* captured chunks in the spool, and those an fsync covered
    delivered, \* chunks on the server, with a receipt in sent/
    pc, job,   \* where a process is, and the job it works on
    stamp,     \* stamp[h]: mtime of the job file hook h wrote
    seen,      \* seen[h]: turns in the transcript when hook h ran
    todo,      \* todo[d]: rest of the listing of daemon d, as <<mtime, job>>
    text,      \* text[d]: turns daemon d read
    next,      \* next[d]: the chunk daemon d captures next
    queued,    \* queued[t]: turns that a finished hook run of t covers
    crossed,   \* transcripts queued again between a daemon's read and its unlink
    runs,      \* runs[t]: hook runs of t
    failures   \* kills and power losses so far

host == <<turns, queued, crossed, runs>>
jobDir == <<jobs, jobsDisk, mtime, now>>
spool == <<pending, pendingDisk, delivered>>
hook == <<stamp, seen>>
daemon == <<todo, text, next>>
vars == <<turns, jobs, jobsDisk, mtime, now, pending, pendingDisk, delivered, pc, job,
          stamp, seen, todo, text, next, queued, crossed, runs, failures>>

Init ==
    /\ turns = [t \in Transcripts |-> 0]
    /\ jobs = Missing \cup Bad /\ jobsDisk = jobs
    /\ mtime = [j \in Jobs |-> 0] /\ now = 0
    /\ pending = {} /\ pendingDisk = {} /\ delivered = {}
    /\ pc = [p \in Hooks \cup Daemons |-> "idle"]
    /\ job = [p \in Hooks \cup Daemons |-> None]
    /\ stamp = [h \in Hooks |-> 0] /\ seen = [h \in Hooks |-> 0]
    /\ todo = [d \in Daemons |-> {}]
    /\ text = [d \in Daemons |-> 0] /\ next = [d \in Daemons |-> 0]
    /\ queued = [t \in Transcripts |-> 0] /\ crossed = {}
    /\ runs = [t \in Transcripts |-> 0]
    /\ failures = 0

Goto(p, l) == pc' = [pc EXCEPT ![p] = l]

Least(n, m) == IF n < m THEN n ELSE m

\* Chunk i of the first n turns of t.  Chunks are filled in order, so a chunk
\* is told apart by its index and the last turn in it: its key has both the
\* index and a digest of the content.
Chunk(t, n, i) == <<t, i, Least(n, i * ChunkTurns)>>
ChunkCount(n) == (n + ChunkTurns - 1) \div ChunkTurns
Chunks(t, n) == {Chunk(t, n, i) : i \in 1..ChunkCount(n)}

-----------------------------------------------------------------------------
(* The host and its hooks *)

\* The host adds a turn to its transcript.
AddTurn(t) ==
    /\ turns[t] < MaxTurns
    /\ turns' = [turns EXCEPT ![t] = @ + 1]
    /\ UNCHANGED <<jobDir, spool, pc, job, hook, daemon, queued, crossed, runs, failures>>

\* SessionEnd: the job file is written under a temporary name.
StartQueue(h, t) ==
    /\ pc[h] = "idle"
    /\ runs[t] < MaxQueues
    /\ runs' = [runs EXCEPT ![t] = @ + 1]
    /\ seen' = [seen EXCEPT ![h] = turns[t]]
    /\ now' = now + 1
    /\ stamp' = [stamp EXCEPT ![h] = now + 1]
    /\ job' = [job EXCEPT ![h] = t]
    /\ Goto(h, "replace")
    /\ UNCHANGED <<jobs, jobsDisk, mtime, spool, daemon, turns, queued, crossed, failures>>

\* Daemons that have read transcript t and not yet dropped its job.
HasRead(t) == {d \in Daemons : job[d] = t /\ pc[d] \in {"put", "fsync", "unlink"}}

\* Replace intentionally: repeated hooks refresh the same job.
QueueReplace(h) ==
    /\ pc[h] = "replace"
    /\ jobs' = jobs \cup {job[h]}
    /\ mtime' = [mtime EXCEPT ![job[h]] = stamp[h]]
    /\ crossed' = IF HasRead(job[h]) # {} THEN crossed \cup {job[h]} ELSE crossed
    /\ Goto(h, "queued")
    /\ UNCHANGED <<jobsDisk, now, spool, job, hook, daemon, turns, queued, runs, failures>>

QueueFsync(h) ==
    /\ pc[h] = "queued"
    /\ jobsDisk' = jobs
    /\ queued' = [queued EXCEPT ![job[h]] = IF @ < seen[h] THEN seen[h] ELSE @]
    /\ Goto(h, "idle")
    /\ UNCHANGED <<jobs, mtime, now, spool, job, hook, daemon, turns, crossed, runs, failures>>

-----------------------------------------------------------------------------
(* materialize_transcript_jobs *)

\* transcript_job_paths()[:max_jobs]
List(d) ==
    /\ pc[d] = "idle"
    /\ \E L \in SUBSET jobs :
        /\ Cardinality(L) = Least(Cardinality(jobs), MaxJobs)
        /\ \A i \in L, j \in jobs \ L : mtime[i] <= mtime[j]
        /\ todo' = [todo EXCEPT ![d] = {<<mtime[j], j>> : j \in L}]
    /\ Goto(d, "next")
    /\ UNCHANGED <<jobDir, spool, job, hook, text, next, host, failures>>

\* The rest of sync_once follows, then the daemon sleeps.
EndJobs(d) ==
    /\ pc[d] = "next"
    /\ todo[d] = {}
    /\ Goto(d, "idle")
    /\ UNCHANGED <<jobDir, spool, job, hook, daemon, host, failures>>

\* Mutant: a job whose source is not a file ends the pass.
TakeJob_Breaks(d) ==
    /\ pc[d] = "next"
    /\ \E x \in todo[d] :
        /\ \A y \in todo[d] : x[1] <= y[1]
        /\ job' = [job EXCEPT ![d] = x[2]]
        /\ todo' = [todo EXCEPT ![d] = IF x[2] \in Missing THEN {} ELSE @ \ {x}]
        /\ Goto(d, CASE x[2] \notin jobs -> "next"
                     [] x[2] \in jobs \cap Bad -> "quarantine"
                     [] x[2] \in jobs \cap Missing -> "next"
                     [] x[2] \in jobs \cap Transcripts ->
                            IF turns[x[2]] = 0 THEN "next" ELSE "text")
    /\ UNCHANGED <<jobDir, spool, hook, text, next, host, failures>>

\* The next job is read.  A job that cannot be read and one whose source is
\* not a file are left for a later pass; one that is malformed is set aside.
TakeJob(d) ==
    /\ pc[d] = "next"
    /\ \E x \in todo[d] :
        /\ \A y \in todo[d] : x[1] <= y[1]
        /\ job' = [job EXCEPT ![d] = x[2]]
        /\ todo' = [todo EXCEPT ![d] = @ \ {x}]
        /\ Goto(d, CASE x[2] \notin jobs -> "next"
                     [] x[2] \in jobs \cap Bad -> "quarantine"
                     [] x[2] \in jobs \cap Missing -> "next"
                     [] x[2] \in jobs \cap Transcripts ->
                            IF turns[x[2]] = 0 THEN "next" ELSE "text")
    /\ UNCHANGED <<jobDir, spool, hook, text, next, host, failures>>

\* quarantine: the job moves to failed/; FileNotFoundError when another daemon
\* was faster, which no handler catches.
QuarantineJob(d) ==
    /\ pc[d] = "quarantine"
    /\ jobs' = jobs \ {job[d]} /\ jobsDisk' = jobs'
    /\ IF job[d] \in jobs
       THEN Goto(d, "next") /\ UNCHANGED todo
       ELSE Goto(d, "idle") /\ todo' = [todo EXCEPT ![d] = {}]
    /\ UNCHANGED <<mtime, now, spool, job, hook, text, next, host, failures>>

\* spool_transcript reads the whole text; MemoryPut refuses the first chunk of
\* a job with an invalid field, and that ValueError ends the pass.
ReadText(d) ==
    /\ pc[d] = "text"
    /\ text' = [text EXCEPT ![d] = turns[job[d]]]
    /\ next' = [next EXCEPT ![d] = 1]
    /\ IF job[d] \in Invalid
       THEN Goto(d, "idle") /\ todo' = [todo EXCEPT ![d] = {}]
       ELSE Goto(d, "put") /\ UNCHANGED todo
    /\ UNCHANGED <<jobDir, spool, job, hook, host, failures>>

\* put of the next chunk returns at once when its file is in pending or sent.
PutChunk(d) ==
    /\ pc[d] = "put"
    /\ next[d] <= ChunkCount(text[d])
    /\ LET c == Chunk(job[d], text[d], next[d])
       IN IF c \in pending \cup delivered
          THEN next' = [next EXCEPT ![d] = @ + 1] /\ UNCHANGED <<pending, pc>>
          ELSE pending' = pending \cup {c} /\ Goto(d, "fsync") /\ UNCHANGED next
    /\ UNCHANGED <<jobDir, pendingDisk, delivered, job, hook, todo, text, host, failures>>

\* Mutant: put returns once the chunk's file has its name.
PutFsync_Skipped(d) ==
    /\ pc[d] = "fsync"
    /\ next' = [next EXCEPT ![d] = @ + 1]
    /\ Goto(d, "put")
    /\ UNCHANGED <<jobDir, spool, job, hook, todo, text, host, failures>>

PutFsync(d) ==
    /\ pc[d] = "fsync"
    /\ pendingDisk' = pending
    /\ next' = [next EXCEPT ![d] = @ + 1]
    /\ Goto(d, "put")
    /\ UNCHANGED <<jobDir, pending, delivered, job, hook, todo, text, host, failures>>

ChunksDone(d) ==
    /\ pc[d] = "put"
    /\ next[d] > ChunkCount(text[d])
    /\ Goto(d, "unlink")
    /\ UNCHANGED <<jobDir, spool, job, hook, daemon, host, failures>>

\* finish_transcript_job: unlink, then fsync in any case.
Unlink(d) ==
    /\ pc[d] = "unlink"
    /\ jobs' = jobs \ {job[d]}
    /\ Goto(d, "unlinked")
    /\ UNCHANGED <<jobsDisk, mtime, now, spool, job, hook, daemon, host, failures>>

UnlinkFsync(d) ==
    /\ pc[d] = "unlinked"
    /\ jobsDisk' = jobs
    /\ Goto(d, "next")
    /\ UNCHANGED <<jobs, mtime, now, spool, job, hook, daemon, host, failures>>

\* A syncer delivers a captured chunk and keeps its receipt.
Deliver(c) ==
    /\ c \in pending
    /\ pending' = pending \ {c} /\ pendingDisk' = pending'
    /\ delivered' = delivered \cup {c}
    /\ UNCHANGED <<jobDir, pc, job, hook, daemon, host, failures>>

-----------------------------------------------------------------------------
(* Failures *)

Kill(p) ==
    /\ pc[p] # "idle"
    /\ failures < MaxFailures
    /\ failures' = failures + 1
    /\ Goto(p, "idle")
    /\ todo' = [d \in Daemons |-> IF d = p THEN {} ELSE todo[d]]
    /\ UNCHANGED <<jobDir, spool, job, hook, text, next, host>>

\* Every name that no fsync covers is as it was, or as it was fsynced last.
PowerLoss ==
    /\ failures < MaxFailures
    /\ failures' = failures + 1
    /\ \E undone \in SUBSET Jobs :
            jobs' = (jobs \ undone) \cup (jobsDisk \cap undone)
    /\ \E undone \in SUBSET (pending \ pendingDisk) : pending' = pending \ undone
    /\ jobsDisk' = jobs' /\ pendingDisk' = pending'
    /\ pc' = [p \in Hooks \cup Daemons |-> "idle"]
    /\ todo' = [d \in Daemons |-> {}]
    /\ UNCHANGED <<mtime, now, delivered, job, hook, text, next, host>>

-----------------------------------------------------------------------------
DaemonStep(d) ==
    \/ List(d) \/ EndJobs(d) \/ TakeJob(d) \/ QuarantineJob(d) \/ ReadText(d)
    \/ PutChunk(d) \/ PutFsync(d) \/ ChunksDone(d) \/ Unlink(d) \/ UnlinkFsync(d)

Next ==
    \/ \E t \in Transcripts : AddTurn(t) \/ \E h \in Hooks : StartQueue(h, t)
    \/ \E h \in Hooks : QueueReplace(h) \/ QueueFsync(h)
    \/ \E d \in Daemons : DaemonStep(d)
    \/ \E c \in pending : Deliver(c)
    \/ \E p \in Hooks \cup Daemons : Kill(p)
    \/ PowerLoss

Spec == Init /\ [][Next]_vars

\* systemd restarts the daemon, its loop has no end, and LocalSpool delivers
\* what was captured.
Fairness == /\ \A d \in Daemons : WF_vars(DaemonStep(d))
            /\ WF_vars(\E c \in pending : Deliver(c))

FairSpec == Spec /\ Fairness

-----------------------------------------------------------------------------
(* Properties *)

Indices == 0..(MaxTurns + 1)
AllChunks == Transcripts \X Indices \X Indices

\* Every variable holds what the code may put there.
TypeOK ==
    /\ turns \in [Transcripts -> 0..MaxTurns] /\ queued \in [Transcripts -> 0..MaxTurns]
    /\ jobs \subseteq Jobs /\ jobsDisk \subseteq Jobs
    /\ mtime \in [Jobs -> Nat] /\ now \in Nat
    /\ pending \subseteq AllChunks /\ pendingDisk \subseteq pending
    /\ delivered \subseteq AllChunks
    /\ pc \in [Hooks \cup Daemons -> {"idle", "replace", "queued", "next", "quarantine", "text",
                                      "put", "fsync", "unlink", "unlinked"}]
    /\ job \in [Hooks \cup Daemons -> Jobs \cup {None}]
    /\ stamp \in [Hooks -> Nat] /\ seen \in [Hooks -> 0..MaxTurns]
    /\ todo \in [Daemons -> SUBSET (Nat \X Jobs)]
    /\ text \in [Daemons -> 0..MaxTurns] /\ next \in [Daemons -> Indices]
    /\ crossed \subseteq Transcripts

\* The first n turns of t are in C, in chunks of however long a prefix.
Covers(C, t, n) ==
    \A k \in 1..n : \E c \in C : /\ c[1] = t
                                 /\ (c[2] - 1) * ChunkTurns < k
                                 /\ k <= c[3]

\* What a finished hook run queued is captured, or its job is still there for
\* a later pass, after a power loss too (spool.py:78, 94, 180).
Kept(t) == t \in jobs \/ Covers(pending \cup delivered, t, queued[t])

QueuedKept == \A t \in Transcripts : t \in crossed \/ Kept(t) \/ queued[t] = 0

\* Every turn that was queued reaches the server, whatever malformed or
\* unreadable jobs lie in the queue with it (README.md:343).
QueuedDelivered ==
    \A t \in Transcripts : \A n \in 1..MaxTurns :
        queued[t] = n ~> t \in crossed \/ Covers(delivered, t, n)
=============================================================================
