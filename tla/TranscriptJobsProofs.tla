------------------------- MODULE TranscriptJobsProofs -------------------------
(***************************************************************************)
(* TLAPS proofs about TranscriptJobs: its types, and that what was queued  *)
(* is kept.  What is kept, and by whom, depends on whether the power may   *)
(* fail, so the invariant Settled has that as a parameter.  Settled(FALSE) *)
(* is about the names that are there and holds for any daemons and kills;  *)
(* Settled(TRUE) is about those that an fsync covers, and needs that no    *)
(* daemon trusts a name that another, or a killed one, did not flush.      *)
(***************************************************************************)
EXTENDS TranscriptJobs, TLAPS

-----------------------------------------------------------------------------
(* Chunks *)

LEMMA Division ==
    ASSUME NEW a \in Nat, NEW b \in Nat \ {0}
    PROVE  a \div b \in Nat /\ b * (a \div b) <= a /\ a < b * (a \div b) + b
OBVIOUS

\* Smaller quotients come from smaller products.
LEMMA Quotients ==
    ASSUME NEW q \in Nat, NEW r \in Nat, NEW b \in Nat \ {0}, b * q < b * r
    PROVE  q < r
<1>1. SUFFICES ASSUME q >= r PROVE FALSE
  OBVIOUS
<1>2. PICK s \in Nat : q = r + s
  BY <1>1
<1>3. b * q = b * r + b * s
  BY <1>2
<1>4. b * s \in Nat /\ b * r \in Nat
  OBVIOUS
<1>5. QED
  BY <1>3, <1>4

\* There are no more chunks than turns.
LEMMA CountBounds ==
    ASSUME NEW n \in Nat
    PROVE  ChunkCount(n) \in Nat /\ ChunkCount(n) <= n
<1>1. ChunkTurns \in Nat \ {0}
  BY TranscriptAssumption
<1>2. n + ChunkTurns - 1 \in Nat
  BY <1>1
<1>3. ChunkCount(n) \in Nat /\ ChunkTurns * ChunkCount(n) <= n + ChunkTurns - 1
  BY <1>1, <1>2, Division DEF ChunkCount
<1>4. n = 0 \/ n >= 1
  OBVIOUS
<1>5. ChunkTurns * (n + 1) >= n + ChunkTurns
  <2>1. ChunkTurns * (n + 1) = ChunkTurns * n + ChunkTurns
    BY <1>1
  <2>2. ChunkTurns * n >= n
    <3>1. PICK c \in Nat : ChunkTurns = c + 1
      BY <1>1
    <3>2. ChunkTurns * n = c * n + n /\ c * n \in Nat
      BY <3>1
    <3>3. QED
      BY <3>2
  <2>3. QED
    BY <2>1, <2>2, <1>1
<1>6. ChunkTurns * ChunkCount(n) < ChunkTurns * (n + 1)
  BY <1>1, <1>3, <1>5
<1>7. ChunkCount(n) < n + 1
  BY <1>1, <1>3, <1>6, Quotients
<1>8. QED
  BY <1>3, <1>7

\* Each turn is in a chunk of the text.
LEMMA TurnInChunk ==
    ASSUME NEW n \in Nat, NEW k \in 1..n
    PROVE  \E i \in 1..ChunkCount(n) :
              (i - 1) * ChunkTurns < k /\ k <= Least(n, i * ChunkTurns)
<1>1. ChunkTurns \in Nat \ {0} /\ k \in Nat /\ k - 1 \in Nat /\ n + ChunkTurns - 1 \in Nat
  BY TranscriptAssumption
<1> DEFINE q == (k - 1) \div ChunkTurns
           N == ChunkCount(n)
<1>2. q \in Nat /\ ChunkTurns * q <= k - 1 /\ k - 1 < ChunkTurns * q + ChunkTurns
  BY <1>1, Division
<1>3. N \in Nat /\ n + ChunkTurns - 1 < ChunkTurns * N + ChunkTurns
  BY <1>1, Division DEF ChunkCount
<1> HIDE DEF q, N
<1>4. ChunkTurns * q < ChunkTurns * N
  <2>1. ChunkTurns * q \in Nat /\ ChunkTurns * N \in Nat
    BY <1>1, <1>2, <1>3
  <2>2. QED
    BY <1>1, <1>2, <1>3, <2>1
<1> DEFINE i == q + 1
<1>5. i \in 1..ChunkCount(n)
  BY <1>1, <1>2, <1>3, <1>4, Quotients DEF N
<1>6. (i - 1) * ChunkTurns = ChunkTurns * q /\ i * ChunkTurns = ChunkTurns * q + ChunkTurns
  BY <1>1, <1>2
<1>7. k <= Least(n, i * ChunkTurns)
  BY <1>1, <1>2, <1>6 DEF Least
<1>8. (i - 1) * ChunkTurns < k
  BY <1>1, <1>2, <1>6
<1> HIDE DEF i
<1>9. QED
  BY <1>5, <1>7, <1>8
-----------------------------------------------------------------------------
(* Types *)

\* Where the hooks and daemons are, and what they work on.
Work ==
    /\ \A h \in Hooks : /\ pc[h] \in {"idle", "replace", "queued"}
                        /\ pc[h] # "idle" => job[h] \in Transcripts /\ seen[h] <= turns[job[h]]
    /\ \A t \in Transcripts : queued[t] <= turns[t]
    /\ \A d \in Daemons :
        /\ pc[d] \notin {"replace", "queued"}
        /\ pc[d] = "quarantine" => job[d] \in Bad
        /\ pc[d] \in {"text", "put", "fsync", "unlink", "unlinked"} => job[d] \in Transcripts
        /\ pc[d] \in {"put", "fsync"} => next[d] >= 1 /\ next[d] <= ChunkCount(text[d]) + 1
        /\ pc[d] = "fsync" => next[d] <= ChunkCount(text[d])

TInv == TypeOK /\ Work

LEMMA TypesInit == Init => TInv
<1> SUFFICES ASSUME Init PROVE TInv
  OBVIOUS
<1>1. MaxTurns \in Nat
  BY TranscriptAssumption
<1>2. TypeOK
  BY <1>1 DEF Init, TypeOK, Jobs, Indices, AllChunks
<1>3. Work
  BY TranscriptAssumption, <1>1 DEF Init, Work
<1>4. QED
  BY <1>2, <1>3 DEF TInv

\* A text has room for all its chunks in AllChunks.
LEMMA ChunkTyped ==
    ASSUME NEW t \in Transcripts, NEW n \in 0..MaxTurns, NEW i \in 1..ChunkCount(n)
    PROVE  Chunk(t, n, i) \in AllChunks /\ i + 1 \in Indices /\ i + 1 <= ChunkCount(n) + 1
<1>1. MaxTurns \in Nat /\ ChunkTurns \in Nat \ {0} /\ n \in Nat
  BY TranscriptAssumption
<1>2. ChunkCount(n) \in Nat /\ ChunkCount(n) <= n
  BY <1>1, CountBounds
<1>3. i \in Nat /\ i <= n /\ i * ChunkTurns \in Nat
  BY <1>1, <1>2
<1>4. Least(n, i * ChunkTurns) \in 0..MaxTurns
  BY <1>1, <1>3 DEF Least
<1>5. QED
  BY <1>1, <1>2, <1>3, <1>4 DEF Chunk, AllChunks, Indices

\* The types of a step that leaves chunks and numbers alone, but for a process p.
LEMMA Turns == MaxTurns \in Nat /\ Hooks \cap Daemons = {} /\ Transcripts \subseteq Jobs /\ Bad \subseteq Jobs
BY TranscriptAssumption DEF Jobs

LEMMA HostTypes == ASSUME TInv, NEW t \in Transcripts, AddTurn(t) PROVE TInv'
<1>1. /\ turns' = [turns EXCEPT ![t] = turns[t] + 1] /\ turns[t] < MaxTurns
      /\ UNCHANGED <<jobs, jobsDisk, mtime, now, pending, pendingDisk, delivered, pc, job, stamp,
                     seen, todo, text, next, queued, crossed>>
  BY DEF AddTurn, jobDir, spool, hook, daemon
<1>2. turns' \in [Transcripts -> 0..MaxTurns] /\ \A u \in Transcripts : turns[u] <= turns'[u]
  BY <1>1, Turns DEF TInv, TypeOK
<1>3. TypeOK'
  BY <1>1, <1>2 DEF TInv, TypeOK
<1>4. Work'
  <2>1. ASSUME NEW u \in Transcripts, NEW n \in 0..MaxTurns, n <= turns[u] PROVE n <= turns'[u]
    BY <1>2, <2>1, Turns DEF TInv, TypeOK
  <2>2. \A h \in Hooks : pc[h] # "idle" => seen[h] <= turns'[job[h]]
    BY <2>1 DEF TInv, Work, TypeOK
  <2>3. \A u \in Transcripts : queued[u] <= turns'[u]
    BY <2>1 DEF TInv, Work, TypeOK
  <2>4. QED
    BY <1>1, <2>2, <2>3 DEF TInv, Work
<1>5. QED
  BY <1>3, <1>4 DEF TInv

LEMMA HookTypes ==
    ASSUME TInv, NEW h \in Hooks,
           QueueReplace(h) \/ QueueFsync(h) \/ \E t \in Transcripts : StartQueue(h, t)
    PROVE  TInv'
<1>0. TypeOK /\ Work /\ h \notin Daemons
  BY Turns DEF TInv
<1>1. CASE \E t \in Transcripts : StartQueue(h, t)
  <2>1. PICK t \in Transcripts : StartQueue(h, t)
    BY <1>1
  <2>2. /\ seen' = [seen EXCEPT ![h] = turns[t]] /\ now' = now + 1
        /\ stamp' = [stamp EXCEPT ![h] = now + 1] /\ job' = [job EXCEPT ![h] = t]
        /\ pc' = [pc EXCEPT ![h] = "replace"]
        /\ UNCHANGED <<turns, jobs, jobsDisk, mtime, pending, pendingDisk, delivered, todo, text,
                       next, queued, crossed>>
    BY <2>1 DEF StartQueue, Goto, spool, daemon
  <2>3. TypeOK'
    BY <1>0, <2>2, Turns DEF TypeOK
  <2>4. Work'
    BY <1>0, <2>2, Turns DEF TypeOK, Work
  <2>5. QED
    BY <2>3, <2>4 DEF TInv
<1>2. CASE QueueReplace(h)
  <2>1. /\ pc[h] = "replace" /\ job[h] \in Transcripts
        /\ jobs' = jobs \cup {job[h]} /\ mtime' = [mtime EXCEPT ![job[h]] = stamp[h]]
        /\ crossed' \subseteq crossed \cup {job[h]}
        /\ pc' = [pc EXCEPT ![h] = "queued"]
        /\ UNCHANGED <<turns, jobsDisk, now, pending, pendingDisk, delivered, job, stamp, seen,
                       todo, text, next, queued>>
    BY <1>0, <1>2 DEF QueueReplace, Goto, Work, spool, hook, daemon
  <2>2. TypeOK'
    BY <1>0, <2>1, Turns DEF TypeOK
  <2>3. Work'
    BY <1>0, <2>1, Turns DEF TypeOK, Work
  <2>4. QED
    BY <2>2, <2>3 DEF TInv
<1>3. CASE QueueFsync(h)
  <2>1. /\ pc[h] = "queued" /\ job[h] \in Transcripts /\ jobsDisk' = jobs
        /\ queued' = [queued EXCEPT ![job[h]] = IF queued[job[h]] < seen[h] THEN seen[h] ELSE queued[job[h]]]
        /\ pc' = [pc EXCEPT ![h] = "idle"]
        /\ UNCHANGED <<turns, jobs, mtime, now, pending, pendingDisk, delivered, job, stamp, seen,
                       todo, text, next, crossed>>
    BY <1>0, <1>3 DEF QueueFsync, Goto, Work, spool, hook, daemon
  <2>2. TypeOK'
    BY <1>0, <2>1, Turns DEF TypeOK
  <2>3. \A t \in Transcripts : queued'[t] <= turns[t]
    BY <1>0, <2>1, Turns DEF TypeOK, Work
  <2>4. Work'
    BY <1>0, <2>1, <2>3, Turns DEF TypeOK, Work
  <2>5. QED
    BY <2>2, <2>4 DEF TInv
<1>4. QED
  BY <1>1, <1>2, <1>3

\* A daemon goes to l and changes neither its texts nor the chunks.
LEMMA DaemonGoes ==
    ASSUME TInv, NEW d \in Daemons,
           NEW l \in {"idle", "next", "quarantine", "text", "put", "unlink", "unlinked"},
           pc' = [pc EXCEPT ![d] = l],
           jobs' \subseteq jobs, jobsDisk' \subseteq jobs \cup jobsDisk,
           todo' \in [Daemons -> SUBSET (Nat \X Jobs)],
           job' \in [Hooks \cup Daemons -> Jobs \cup {None}],
           \A p \in Hooks \cup Daemons : p # d => job'[p] = job[p],
           UNCHANGED <<turns, mtime, now, pending, pendingDisk, delivered, stamp, seen, queued,
                       crossed>>,
           text' \in [Daemons -> 0..MaxTurns], next' \in [Daemons -> Indices],
           \A e \in Daemons : e # d => text'[e] = text[e] /\ next'[e] = next[e],
           l = "quarantine" => job'[d] \in Bad,
           l \in {"text", "put", "unlink", "unlinked"} => job'[d] \in Transcripts,
           l = "put" => next'[d] >= 1 /\ next'[d] <= ChunkCount(text'[d]) + 1
    PROVE  TInv'
<1>0. TypeOK /\ Work /\ d \notin Hooks
  BY Turns DEF TInv
<1>1. TypeOK'
  BY <1>0 DEF TypeOK
<1>2. pc'[d] = l /\ \A p \in Hooks \cup Daemons : p # d => pc'[p] = pc[p]
  BY <1>0 DEF TypeOK
<1>3. Work'
  BY <1>0, <1>2 DEF Work
<1>4. QED
  BY <1>1, <1>3 DEF TInv

LEMMA DaemonTypes == ASSUME TInv, NEW d \in Daemons, DaemonStep(d) PROVE TInv'
<1>0. /\ TypeOK /\ Work /\ job[d] \in Jobs \cup {None} /\ text[d] \in 0..MaxTurns
      /\ next[d] \in Indices /\ todo[d] \subseteq Nat \X Jobs
  BY DEF TInv, TypeOK
<1>1. CASE List(d)
  <2>1. PICK L \in SUBSET jobs : todo' = [todo EXCEPT ![d] = {<<mtime[j], j>> : j \in L}]
    BY <1>1 DEF List
  <2>2. {<<mtime[j], j>> : j \in L} \subseteq Nat \X Jobs
    BY <1>0 DEF TypeOK
  <2>3. todo' \in [Daemons -> SUBSET (Nat \X Jobs)]
    BY <1>0, <2>1, <2>2 DEF TypeOK
  <2>4. /\ pc' = [pc EXCEPT ![d] = "next"]
        /\ UNCHANGED <<turns, jobs, jobsDisk, mtime, now, pending, pendingDisk, delivered, job,
                       stamp, seen, text, next, queued, crossed>>
    BY <1>1 DEF List, Goto, jobDir, spool, hook, host
  <2>5. QED
    BY <1>0, <2>3, <2>4, DaemonGoes DEF TypeOK
<1>2. CASE EndJobs(d)
  <2>1. /\ pc' = [pc EXCEPT ![d] = "idle"]
        /\ UNCHANGED <<turns, jobs, jobsDisk, mtime, now, pending, pendingDisk, delivered, job,
                       stamp, seen, todo, text, next, queued, crossed>>
    BY <1>2 DEF EndJobs, Goto, jobDir, spool, hook, daemon, host
  <2>2. QED
    BY <1>0, <2>1, DaemonGoes DEF TypeOK
<1>3. CASE TakeJob(d)
  <2>1. PICK x \in todo[d] :
          /\ job' = [job EXCEPT ![d] = x[2]] /\ todo' = [todo EXCEPT ![d] = todo[d] \ {x}]
          /\ Goto(d, CASE x[2] \notin jobs -> "next"
                       [] x[2] \in jobs \cap Bad -> "quarantine"
                       [] x[2] \in jobs \cap Missing -> "next"
                       [] x[2] \in jobs \cap Transcripts ->
                              IF turns[x[2]] = 0 THEN "next" ELSE "text")
    BY <1>3 DEF TakeJob
  <2>2. x[2] \in Jobs
    BY <1>0
  <2>3. /\ job' \in [Hooks \cup Daemons -> Jobs \cup {None}] /\ job'[d] = x[2]
        /\ \A p \in Hooks \cup Daemons : p # d => job'[p] = job[p]
        /\ todo' \in [Daemons -> SUBSET (Nat \X Jobs)]
    BY <1>0, <2>1, <2>2 DEF TypeOK
  <2>4. PICK l \in {"next", "quarantine", "text"} :
          /\ pc' = [pc EXCEPT ![d] = l]
          /\ l = "quarantine" => x[2] \in Bad
          /\ l = "text" => x[2] \in Transcripts
    BY <2>1, <2>2, TranscriptAssumption DEF Goto, Jobs
  <2>5. UNCHANGED <<turns, jobs, jobsDisk, mtime, now, pending, pendingDisk, delivered,
                    stamp, seen, text, next, queued, crossed>>
    BY <1>3 DEF TakeJob, jobDir, spool, hook, host
  <2>6. QED
    BY <1>0, <2>3, <2>4, <2>5, DaemonGoes DEF TypeOK
<1>4. CASE QuarantineJob(d)
  <2>1. /\ jobs' \subseteq jobs /\ jobsDisk' \subseteq jobs
        /\ todo' \in [Daemons -> SUBSET (Nat \X Jobs)]
        /\ UNCHANGED <<turns, mtime, now, pending, pendingDisk, delivered, job,
                       stamp, seen, text, next, queued, crossed>>
    BY <1>0, <1>4 DEF QuarantineJob, TypeOK, spool, hook, host
  <2>2. PICK l \in {"next", "idle"} : pc' = [pc EXCEPT ![d] = l]
    BY <1>4 DEF QuarantineJob, Goto
  <2>3. QED
    BY <1>0, <2>1, <2>2, DaemonGoes DEF TypeOK
<1>5. CASE ReadText(d)
  <2>1. /\ todo' \in [Daemons -> SUBSET (Nat \X Jobs)] /\ job[d] \in Transcripts
        /\ text' = [text EXCEPT ![d] = turns[job[d]]] /\ next' = [next EXCEPT ![d] = 1]
        /\ UNCHANGED <<turns, jobs, jobsDisk, mtime, now, pending, pendingDisk, delivered, job,
                       stamp, seen, queued, crossed>>
    BY <1>0, <1>5 DEF ReadText, TypeOK, Work, jobDir, spool, hook, host
  <2>2. PICK l \in {"put", "idle"} : pc' = [pc EXCEPT ![d] = l]
    BY <1>5 DEF ReadText, Goto
  <2>3. turns[job[d]] \in 0..MaxTurns /\ 1 \in Indices
    BY <1>0, <2>1, Turns DEF TypeOK, Indices
  <2>4. /\ text' \in [Daemons -> 0..MaxTurns] /\ next' \in [Daemons -> Indices]
        /\ next'[d] = 1 /\ text'[d] = turns[job[d]]
        /\ \A e \in Daemons : e # d => text'[e] = text[e] /\ next'[e] = next[e]
    BY <1>0, <2>1, <2>3 DEF TypeOK
  <2>5. next'[d] >= 1 /\ next'[d] <= ChunkCount(text'[d]) + 1
    <3>1. turns[job[d]] \in Nat
      BY <2>3, Turns
    <3>2. ChunkCount(turns[job[d]]) \in Nat
      BY <3>1, CountBounds
    <3>3. QED
      BY <2>4, <3>2
  <2>6. /\ job' \in [Hooks \cup Daemons -> Jobs \cup {None}] /\ job'[d] \in Transcripts
        /\ \A p \in Hooks \cup Daemons : p # d => job'[p] = job[p]
        /\ jobs' \subseteq jobs /\ jobsDisk' \subseteq jobs \cup jobsDisk
    BY <1>0, <2>1 DEF TypeOK
  <2>7. QED
    BY <2>1, <2>2, <2>4, <2>5, <2>6, DaemonGoes
<1>6. CASE PutChunk(d) \/ PutFsync(d)
  <2>1. /\ pc[d] \in {"put", "fsync"} /\ job[d] \in Transcripts
        /\ next[d] \in 1..ChunkCount(text[d]) /\ ChunkCount(text[d]) \in Nat
    <3>1. ChunkCount(text[d]) \in Nat
      BY <1>0, CountBounds, Turns
    <3>2. next[d] \in Nat
      BY <1>0, Turns DEF Indices
    <3>3. QED
      BY <1>0, <1>6, <3>1, <3>2 DEF PutChunk, PutFsync, Work
  <2>2. /\ Chunk(job[d], text[d], next[d]) \in AllChunks
        /\ next[d] + 1 \in Indices /\ next[d] + 1 <= ChunkCount(text[d]) + 1
    BY <1>0, <2>1, ChunkTyped
  <2>3. UNCHANGED <<turns, jobs, jobsDisk, mtime, now, delivered, job, stamp, seen, todo, text,
                    queued, crossed>>
    BY <1>6 DEF PutChunk, PutFsync, jobDir, hook, host
  <2>4. CASE next' = [next EXCEPT ![d] = next[d] + 1] /\ pc' = [pc EXCEPT ![d] = "put"]
             /\ pending' = pending /\ pendingDisk' \in {pendingDisk, pending}
    <3>1. TypeOK'
      BY <1>0, <2>2, <2>3, <2>4 DEF TypeOK
    <3>2. /\ pc'[d] = "put" /\ next'[d] = next[d] + 1
          /\ \A p \in Hooks \cup Daemons : p # d => pc'[p] = pc[p]
          /\ \A e \in Daemons : e # d => next'[e] = next[e]
      BY <1>0, <2>4 DEF TypeOK
    <3>3. next[d] + 1 >= 1
      BY <2>1
    <3>4. Work'
      BY <1>0, <2>1, <2>2, <2>3, <3>2, <3>3, Turns DEF Work
    <3>5. QED
      BY <3>1, <3>4 DEF TInv
  <2>5. CASE /\ pending' = pending \cup {Chunk(job[d], text[d], next[d])}
             /\ UNCHANGED <<next, pendingDisk>> /\ pc' = [pc EXCEPT ![d] = "fsync"]
    <3>1. TypeOK'
      BY <1>0, <2>2, <2>3, <2>5 DEF TypeOK
    <3>2. /\ pc'[d] = "fsync" /\ \A p \in Hooks \cup Daemons : p # d => pc'[p] = pc[p]
      BY <1>0, <2>5 DEF TypeOK
    <3>3. Work'
      BY <1>0, <2>1, <2>3, <2>5, <3>2, Turns DEF Work
    <3>4. QED
      BY <3>1, <3>3 DEF TInv
  <2>6. QED
    <3>1. CASE PutFsync(d)
      BY <2>4, <3>1 DEF PutFsync, Goto
    <3>2. CASE PutChunk(d)
      <4>1. pc[d] = "put"
        BY <3>2 DEF PutChunk
      <4>2. [pc EXCEPT ![d] = "put"] = pc
        BY <1>0, <4>1 DEF TypeOK
      <4>3. QED
        BY <2>4, <2>5, <3>2, <4>2 DEF PutChunk, Goto
    <3>3. QED
      BY <1>6, <3>1, <3>2
<1>7. CASE ChunksDone(d)
  <2>1. /\ pc' = [pc EXCEPT ![d] = "unlink"] /\ job[d] \in Transcripts
        /\ UNCHANGED <<turns, jobs, jobsDisk, mtime, now, pending, pendingDisk, delivered, job,
                       stamp, seen, todo, text, next, queued, crossed>>
    BY <1>0, <1>7 DEF ChunksDone, Goto, Work, jobDir, spool, hook, daemon, host
  <2>2. QED
    BY <1>0, <2>1, DaemonGoes DEF TypeOK
<1>8. CASE Unlink(d)
  <2>1. /\ pc' = [pc EXCEPT ![d] = "unlinked"] /\ job[d] \in Transcripts
        /\ jobs' \subseteq jobs
        /\ UNCHANGED <<turns, jobsDisk, mtime, now, pending, pendingDisk, delivered, job,
                       stamp, seen, todo, text, next, queued, crossed>>
    BY <1>0, <1>8 DEF Unlink, Goto, Work, spool, hook, daemon, host
  <2>2. QED
    BY <1>0, <2>1, DaemonGoes DEF TypeOK
<1>9. CASE UnlinkFsync(d)
  <2>1. /\ pc' = [pc EXCEPT ![d] = "next"] /\ jobsDisk' = jobs
        /\ UNCHANGED <<turns, jobs, mtime, now, pending, pendingDisk, delivered, job,
                       stamp, seen, todo, text, next, queued, crossed>>
    BY <1>0, <1>9 DEF UnlinkFsync, Goto, Work, spool, hook, daemon, host
  <2>2. QED
    BY <1>0, <2>1, DaemonGoes DEF TypeOK
<1>10. QED
  BY <1>1, <1>2, <1>3, <1>4, <1>5, <1>6, <1>7, <1>8, <1>9 DEF DaemonStep

\* Deliveries, kills and power losses.
LEMMA FailureTypes ==
    ASSUME TInv, PowerLoss \/ (\E c \in pending : Deliver(c))
                 \/ \E p \in Hooks \cup Daemons : Kill(p)
    PROVE  TInv'
<1>0. TypeOK /\ Work
  BY DEF TInv
<1>1. CASE \E c \in pending : Deliver(c)
  <2>1. PICK c \in pending : Deliver(c)
    BY <1>1
  <2>2. /\ pending' = pending \ {c} /\ pendingDisk' = pending' /\ delivered' = delivered \cup {c}
        /\ UNCHANGED <<turns, jobs, jobsDisk, mtime, now, pc, job, stamp, seen, todo, text, next,
                       queued, crossed>>
    BY <2>1 DEF Deliver, jobDir, hook, daemon, host
  <2>3. TypeOK'
    BY <1>0, <2>1, <2>2 DEF TypeOK
  <2>4. Work'
    BY <1>0, <2>2 DEF Work
  <2>5. QED
    BY <2>3, <2>4 DEF TInv
<1>2. ASSUME NEW p \in Hooks \cup Daemons, Kill(p) PROVE TInv'
  <2>1. /\ pc' = [pc EXCEPT ![p] = "idle"]
        /\ todo' = [d \in Daemons |-> IF d = p THEN {} ELSE todo[d]]
        /\ UNCHANGED <<turns, jobs, jobsDisk, mtime, now, pending, pendingDisk, delivered, job,
                       stamp, seen, text, next, queued, crossed>>
    BY <1>2 DEF Kill, Goto, jobDir, spool, hook, host
  <2>2. TypeOK'
    BY <1>0, <2>1 DEF TypeOK
  <2>3. Work'
    BY <1>0, <2>1 DEF TypeOK, Work
  <2>4. QED
    BY <2>2, <2>3 DEF TInv
<1>3. CASE PowerLoss
  <2>1. /\ pc' = [p \in Hooks \cup Daemons |-> "idle"] /\ todo' = [d \in Daemons |-> {}]
        /\ UNCHANGED <<turns, mtime, now, delivered, job, stamp, seen, text, next, queued, crossed>>
        /\ jobs' \subseteq jobs \cup jobsDisk /\ jobsDisk' = jobs'
        /\ pending' \subseteq pending /\ pendingDisk' = pending'
    BY <1>3 DEF PowerLoss, hook, host
  <2>2. TypeOK'
    BY <1>0, <2>1 DEF TypeOK
  <2>3. Work'
    BY <1>0, <2>1 DEF TypeOK, Work
  <2>4. QED
    BY <2>2, <2>3 DEF TInv
<1>4. QED
  BY <1>1, <1>2, <1>3

LEMMA TypesStep == TInv /\ [Next]_vars => TInv'
<1> SUFFICES ASSUME TInv, [Next]_vars PROVE TInv'
  OBVIOUS
<1>1. CASE UNCHANGED vars
  BY <1>1 DEF vars, TInv, TypeOK, Work
<1>2. CASE Next
  BY <1>2, HostTypes, HookTypes, DaemonTypes, FailureTypes DEF Next
<1>3. QED
  BY <1>1, <1>2

\* Every variable holds what the code may put there; in particular no daemon
\* counts more chunks than its text has, and no job file is of anything but a
\* transcript, a missing source or a malformed job (spool.py:147-187).
THEOREM TranscriptTypes == Spec => []TypeOK
<1>1. Init => TInv
  BY TypesInit
<1>2. TInv /\ [Next]_vars => TInv'
  BY TypesStep
<1>3. TInv => TypeOK
  BY DEF TInv
<1>4. QED
  BY <1>1, <1>2, <1>3, PTL DEF Spec

-----------------------------------------------------------------------------
(* What is queued is kept *)

\* The job files and captured chunks that are there, or, when the power may fail,
\* those of them that stay.
JobsOf(power) == IF power THEN jobs \cap jobsDisk ELSE jobs
ChunksOf(power) == delivered \cup IF power THEN pendingDisk ELSE pending

\* Daemon d has captured the chunks up to n.
CapturedTo(d, n, C) == \A i \in 1..n : Chunk(job[d], text[d], i) \in C

\* What was queued has its job or is captured, also what a hook is about to queue.
Queued(power) ==
    /\ \A t \in Transcripts \ crossed :
          t \in JobsOf(power) \/ Covers(ChunksOf(power), t, queued[t])
    /\ \A h \in Hooks : pc[h] = "queued" /\ job[h] \notin crossed =>
          job[h] \in jobs \/ Covers(ChunksOf(power), job[h], seen[h])

\* A daemon has captured the chunks before next, for good if the power may fail, and
\* unless a hook crossed it, its text has all that was queued of its transcript.
Reading(power, d) ==
    /\ pc[d] \in {"put", "fsync"} => CapturedTo(d, next[d] - 1, ChunksOf(power))
    /\ pc[d] = "fsync" => Chunk(job[d], text[d], next[d]) \in pending \cup delivered
    /\ pc[d] = "unlink" => CapturedTo(d, ChunkCount(text[d]), ChunksOf(power))
    /\ pc[d] \in {"put", "fsync", "unlink"} /\ job[d] \notin crossed =>
          /\ queued[job[d]] <= text[d]
          /\ \A h \in Hooks : pc[h] = "queued" /\ job[h] = job[d] => seen[h] <= text[d]

\* Only a daemon at its fsync leaves a chunk that a power loss takes away.
Synced(power) == power => \A d \in Daemons : pc[d] # "fsync" => pending = pendingDisk

Settled(power) == Queued(power) /\ Synced(power) /\ \A d \in Daemons : Reading(power, d)

\* Daemons that must not run beside each other when the power may fail: what one
\* finds in pending another may not have flushed.
Alone(power) == power => \A d, e \in Daemons : d = e

LEMMA CoversMore ==
    ASSUME NEW C, NEW D, C \subseteq D, NEW t, NEW n \in Nat, NEW m \in Nat, m <= n,
           Covers(C, t, n)
    PROVE  Covers(D, t, m)
<1>1. ASSUME NEW k \in 1..m PROVE k \in 1..n
  BY <1>1
<1>2. QED
  BY <1>1 DEF Covers

\* All chunks of a text cover it.
LEMMA ChunksCover ==
    ASSUME NEW C, NEW t, NEW n \in Nat, \A i \in 1..ChunkCount(n) : Chunk(t, n, i) \in C
    PROVE  Covers(C, t, n)
<1>1. SUFFICES ASSUME NEW k \in 1..n
               PROVE  \E c \in C : c[1] = t /\ (c[2] - 1) * ChunkTurns < k /\ k <= c[3]
  BY DEF Covers
<1>2. PICK i \in 1..ChunkCount(n) : (i - 1) * ChunkTurns < k /\ k <= Least(n, i * ChunkTurns)
  BY TurnInChunk
<1>3. <<t, i, Least(n, i * ChunkTurns)>> \in C
  BY DEF Chunk
<1>4. QED
  BY <1>2, <1>3

LEMMA SettledInit == ASSUME Init, NEW power \in BOOLEAN PROVE Settled(power)
<1>1. \A t \in Transcripts : Covers(ChunksOf(power), t, queued[t])
  BY DEF Init, Covers
<1>2. QED
  BY <1>1, Turns DEF Init, Settled, Queued, Synced, Reading

\* The numbers that are compared.
LEMMA Numbers ==
    ASSUME TInv
    PROVE  /\ \A t \in Transcripts : queued[t] \in Nat /\ turns[t] \in Nat
           /\ \A h \in Hooks : seen[h] \in Nat
           /\ \A d \in Daemons : text[d] \in Nat /\ next[d] \in Nat /\ ChunkCount(text[d]) \in Nat
<1>1. MaxTurns \in Nat /\ 0..MaxTurns \subseteq Nat /\ Indices \subseteq Nat
  BY Turns DEF Indices
<1>2. \A d \in Daemons : text[d] \in Nat /\ next[d] \in Nat
  BY <1>1 DEF TInv, TypeOK
<1>3. QED
  BY <1>1, <1>2, CountBounds DEF TInv, TypeOK

\* Steps after which the chunks and jobs of transcripts are at least those before.
LEMMA QueuedMore ==
    ASSUME TInv, NEW power \in BOOLEAN, Queued(power), ChunksOf(power) \subseteq ChunksOf(power)',
           \A t \in Transcripts : /\ t \in JobsOf(power) => t \in JobsOf(power)'
                                  /\ t \in jobs => t \in jobs',
           queued' = queued, crossed' = crossed,
           \A h \in Hooks : pc'[h] = "queued" => pc[h] = "queued" /\ job'[h] = job[h] /\ seen'[h] = seen[h]
    PROVE  Queued(power)'
<1>1. ASSUME NEW t \in Transcripts \ crossed
      PROVE  t \in JobsOf(power)' \/ Covers(ChunksOf(power)', t, queued[t])
  BY Numbers, CoversMore DEF Queued
<1>2. ASSUME NEW h \in Hooks, pc'[h] = "queued", job'[h] \notin crossed
      PROVE  job'[h] \in jobs' \/ Covers(ChunksOf(power)', job'[h], seen'[h])
  <2>1. job[h] \in Transcripts /\ pc[h] = "queued" /\ job'[h] = job[h] /\ seen'[h] = seen[h]
    BY <1>2 DEF TInv, Work
  <2>2. QED
    BY <1>2, <2>1, Numbers, CoversMore DEF Queued
<1>3. QED
  BY <1>1, <1>2 DEF Queued

\* A daemon that reads no chunks after the step does not matter ...
LEMMA ReadingOver ==
    ASSUME NEW power \in BOOLEAN, NEW d \in Daemons, pc'[d] \notin {"put", "fsync", "unlink"}
    PROVE  Reading(power, d)'
BY DEF Reading

\* ... and the others go on as they were.
LEMMA ReadingMore ==
    ASSUME NEW power \in BOOLEAN, NEW d \in Daemons, Reading(power, d),
           pc'[d] = pc[d], job'[d] = job[d], text'[d] = text[d], next'[d] = next[d],
           ChunksOf(power) \subseteq ChunksOf(power)',
           pending \cup delivered \subseteq pending' \cup delivered',
           crossed \subseteq crossed',
           job[d] \notin crossed' => queued'[job[d]] = queued[job[d]],
           job[d] \notin crossed' =>
               \A h \in Hooks : pc'[h] = "queued" /\ job'[h] = job[d] =>
                   pc[h] = "queued" /\ job[h] = job[d] /\ seen'[h] = seen[h]
    PROVE  Reading(power, d)'
<1>1. pc[d] \in {"put", "fsync"} => CapturedTo(d, next[d] - 1, ChunksOf(power))'
  BY DEF Reading, CapturedTo
<1>2. pc[d] = "fsync" => Chunk(job[d], text[d], next[d]) \in pending' \cup delivered'
  BY DEF Reading
<1>3. pc[d] = "unlink" => CapturedTo(d, ChunkCount(text[d]), ChunksOf(power))'
  BY DEF Reading, CapturedTo
<1>4. QED
  BY <1>1, <1>2, <1>3 DEF Reading

\* Daemon d leaves off reading, or has not begun; nothing it does touches the chunks.
LEMMA DaemonAside ==
    ASSUME TInv, NEW power \in BOOLEAN, Alone(power), Settled(power), NEW d \in Daemons,
           pc'[d] \notin {"put", "fsync", "unlink"},
           \A p \in Hooks \cup Daemons : p # d => pc'[p] = pc[p] /\ job'[p] = job[p],
           UNCHANGED <<pending, pendingDisk, delivered, seen, queued, crossed>>,
           \A e \in Daemons : e # d => text'[e] = text[e] /\ next'[e] = next[e],
           \A t \in Transcripts : /\ t \in JobsOf(power) => t \in JobsOf(power)'
                                  /\ t \in jobs => t \in jobs',
           pc[d] # "fsync" \/ pending = pendingDisk \/ ~power
    PROVE  Settled(power)'
<1>1. ChunksOf(power)' = ChunksOf(power)
  BY DEF ChunksOf
<1>2. \A h \in Hooks : h # d
  BY Turns
<1>3. Queued(power)'
  BY <1>1, <1>2, QueuedMore DEF Settled
<1>4. Synced(power)'
  BY DEF Settled, Synced, Alone
<1>5. ASSUME NEW e \in Daemons PROVE Reading(power, e)'
  <2>1. CASE e = d
    BY <2>1, ReadingOver
  <2>2. CASE e # d
    BY <1>1, <1>2, <2>2, ReadingMore DEF Settled
  <2>3. QED
    BY <2>1, <2>2
<1>6. QED
  BY <1>3, <1>4, <1>5 DEF Settled

LEMMA DaemonSettled ==
    ASSUME TInv, NEW power \in BOOLEAN, Alone(power), Settled(power), NEW d \in Daemons,
           DaemonStep(d)
    PROVE  Settled(power)'
<1>0. /\ TypeOK /\ Work /\ \A h \in Hooks : h # d
      /\ Queued(power) /\ Synced(power) /\ \A e \in Daemons : Reading(power, e)
      /\ pendingDisk \subseteq pending
  BY Turns DEF TInv, TypeOK, Settled
<1>1. CASE List(d) \/ EndJobs(d) \/ TakeJob(d)
  <2>1. /\ pc'[d] \in {"next", "idle", "quarantine", "text"} /\ pc[d] # "fsync"
        /\ \A p \in Hooks \cup Daemons : p # d => pc'[p] = pc[p] /\ job'[p] = job[p]
    <3>1. CASE List(d) \/ EndJobs(d)
      BY <1>0, <3>1 DEF List, EndJobs, Goto, TypeOK, daemon
    <3>2. CASE TakeJob(d)
      <4>1. PICK x \in todo[d] :
              /\ job' = [job EXCEPT ![d] = x[2]]
              /\ Goto(d, CASE x[2] \notin jobs -> "next"
                           [] x[2] \in jobs \cap Bad -> "quarantine"
                           [] x[2] \in jobs \cap Missing -> "next"
                           [] x[2] \in jobs \cap Transcripts ->
                                  IF turns[x[2]] = 0 THEN "next" ELSE "text")
        BY <3>2 DEF TakeJob
      <4>2. x[2] \in Jobs
        BY <1>0 DEF TypeOK
      <4>3. PICK l \in {"next", "quarantine", "text"} : pc' = [pc EXCEPT ![d] = l]
        BY <4>1, <4>2, TranscriptAssumption DEF Goto, Jobs
      <4>4. pc[d] = "next"
        BY <3>2 DEF TakeJob
      <4>5. QED
        BY <1>0, <4>1, <4>3, <4>4 DEF TypeOK
    <3>3. QED
      BY <1>1, <3>1, <3>2
  <2>2. UNCHANGED <<jobs, jobsDisk, pending, pendingDisk, delivered, seen, queued, crossed, text, next>>
    BY <1>1 DEF List, EndJobs, TakeJob, jobDir, spool, hook, daemon, host
  <2>3. JobsOf(power)' = JobsOf(power)
    BY <2>2 DEF JobsOf
  <2>4. QED
    BY <2>1, <2>2, <2>3, DaemonAside
<1>2. CASE QuarantineJob(d)
  <2>1. /\ pc'[d] \in {"next", "idle"} /\ pc[d] # "fsync" /\ job[d] \in Bad
        /\ \A p \in Hooks \cup Daemons : p # d => pc'[p] = pc[p] /\ job'[p] = job[p]
    BY <1>0, <1>2 DEF QuarantineJob, Goto, TypeOK, Work
  <2>2. /\ UNCHANGED <<pending, pendingDisk, delivered, seen, queued, crossed, text, next>>
        /\ jobs' = jobs \ {job[d]} /\ jobsDisk' = jobs'
    BY <1>2 DEF QuarantineJob, spool, hook, host
  <2>3. job[d] \notin Transcripts
    BY <2>1, TranscriptAssumption
  <2>4. \A t \in Transcripts : /\ t \in JobsOf(power) => t \in JobsOf(power)'
                               /\ t \in jobs => t \in jobs'
    BY <2>2, <2>3 DEF JobsOf
  <2>5. QED
    BY <2>1, <2>2, <2>4, DaemonAside
<1>3. CASE ReadText(d)
  <2>1. /\ pc[d] = "text" /\ pc'[d] \in {"idle", "put"} /\ job[d] \in Transcripts
        /\ \A p \in Hooks \cup Daemons : p # d => pc'[p] = pc[p] /\ job'[p] = job[p]
        /\ text'[d] = turns[job[d]] /\ next'[d] = 1 /\ job' = job
        /\ \A e \in Daemons : e # d => text'[e] = text[e] /\ next'[e] = next[e]
    BY <1>0, <1>3 DEF ReadText, Goto, TypeOK, Work
  <2>2. UNCHANGED <<jobs, jobsDisk, pending, pendingDisk, delivered, seen, queued, crossed>>
    BY <1>3 DEF ReadText, jobDir, spool, hook, host
  <2>3. JobsOf(power)' = JobsOf(power) /\ ChunksOf(power)' = ChunksOf(power)
    BY <2>2 DEF JobsOf, ChunksOf
  <2>4. CASE pc'[d] = "idle"
    BY <2>1, <2>2, <2>3, <2>4, DaemonAside
  <2>5. CASE pc'[d] = "put"
    <3>1. Queued(power)'
      BY <1>0, <2>1, <2>2, <2>3, QueuedMore
    <3>2. Synced(power)'
      BY <1>0, <2>1, <2>2, <2>5 DEF Synced, Alone
    <3>3. /\ queued[job[d]] <= turns[job[d]]
          /\ \A h \in Hooks : pc[h] = "queued" /\ job[h] = job[d] => seen[h] <= turns[job[d]]
      BY <1>0, <2>1 DEF Work
    <3>4. CapturedTo(d, next[d] - 1, ChunksOf(power))'
      BY <2>1 DEF CapturedTo
    <3>5. Reading(power, d)'
      BY <1>0, <2>1, <2>2, <2>5, <3>3, <3>4 DEF Reading
    <3>6. ASSUME NEW e \in Daemons, e # d PROVE Reading(power, e)'
      BY <1>0, <2>1, <2>2, <2>3, <3>6, ReadingMore
    <3>7. QED
      BY <3>1, <3>2, <3>5, <3>6 DEF Settled
  <2>6. QED
    BY <2>1, <2>4, <2>5
<1>4. CASE PutChunk(d) \/ PutFsync(d)
  <2>1. /\ pc[d] \in {"put", "fsync"} /\ pc'[d] \in {"put", "fsync"}
        /\ \A p \in Hooks \cup Daemons : p # d => pc'[p] = pc[p]
        /\ next'[d] \in {next[d], next[d] + 1}
        /\ \A e \in Daemons : e # d => next'[e] = next[e]
    BY <1>0, <1>4 DEF PutChunk, PutFsync, Goto, TypeOK
  <2>2. /\ UNCHANGED <<jobs, jobsDisk, delivered, job, seen, queued, crossed, text>>
        /\ pending \subseteq pending' /\ pendingDisk \subseteq pendingDisk'
    BY <1>0, <1>4 DEF PutChunk, PutFsync, jobDir, hook, host
  <2>3. JobsOf(power)' = JobsOf(power) /\ ChunksOf(power) \subseteq ChunksOf(power)'
    BY <2>2 DEF JobsOf, ChunksOf
  <2>4. Queued(power)'
    BY <1>0, <2>1, <2>2, <2>3, QueuedMore
  <2>5. Synced(power)'
    BY <1>0, <1>4, <2>1 DEF Synced, Alone, PutChunk, PutFsync, Goto, TypeOK
  <2>6. ASSUME NEW e \in Daemons, e # d PROVE Reading(power, e)'
    BY <1>0, <2>1, <2>2, <2>3, <2>6, ReadingMore
  <2>7. CapturedTo(d, next[d] - 1, ChunksOf(power)) /\ next[d] \in Nat
    BY <1>0, <2>1, Numbers DEF Reading
  <2>8. CASE next'[d] = next[d] + 1 /\ pc'[d] = "put"
             /\ Chunk(job[d], text[d], next[d]) \in ChunksOf(power)'
    <3>1. \A i \in 1..(next[d] + 1 - 1) : i \in 1..(next[d] - 1) \/ i = next[d]
      BY <2>7
    <3>2. CapturedTo(d, next[d] - 1, ChunksOf(power))'
      BY <2>2, <2>3, <2>7, <2>8, <3>1 DEF CapturedTo
    <3>3. Reading(power, d)'
      BY <1>0, <2>1, <2>2, <2>8, <3>2 DEF Reading
    <3>4. QED
      BY <2>4, <2>5, <2>6, <3>3 DEF Settled
  <2>9. CASE next'[d] = next[d] /\ pc'[d] = "fsync"
             /\ Chunk(job[d], text[d], next[d]) \in pending'
    <3>1. CapturedTo(d, next[d] - 1, ChunksOf(power))'
      BY <2>2, <2>3, <2>7, <2>9 DEF CapturedTo
    <3>2. Reading(power, d)'
      BY <1>0, <2>1, <2>2, <2>9, <3>1 DEF Reading
    <3>3. QED
      BY <2>4, <2>5, <2>6, <3>2 DEF Settled
  <2>10. CASE PutFsync(d)
    <3>1. next'[d] = next[d] + 1 /\ pc'[d] = "put" /\ pendingDisk' = pending /\ pending' = pending
          /\ pc[d] = "fsync"
      BY <1>0, <2>10 DEF PutFsync, Goto, TypeOK
    <3>2. Chunk(job[d], text[d], next[d]) \in ChunksOf(power)'
      BY <1>0, <2>2, <3>1 DEF Reading, ChunksOf
    <3>3. QED
      BY <2>8, <3>1, <3>2
  <2>11. CASE PutChunk(d)
    <3>1. pc[d] = "put"
      BY <2>11 DEF PutChunk
    <3>2. CASE Chunk(job[d], text[d], next[d]) \in pending \cup delivered
      <4>1. next'[d] = next[d] + 1 /\ pc' = pc /\ pending' = pending /\ pendingDisk' = pendingDisk
        BY <1>0, <2>11, <3>2 DEF PutChunk, TypeOK
      <4>2. power => pending = pendingDisk
        BY <1>0, <3>1 DEF Synced
      <4>3. Chunk(job[d], text[d], next[d]) \in ChunksOf(power)'
        BY <2>2, <3>2, <4>1, <4>2 DEF ChunksOf
      <4>4. QED
        BY <2>8, <3>1, <4>1, <4>3
    <3>3. CASE Chunk(job[d], text[d], next[d]) \notin pending \cup delivered
      <4>1. /\ next' = next /\ pending' = pending \cup {Chunk(job[d], text[d], next[d])}
            /\ pc'[d] = "fsync"
        BY <1>0, <2>11, <3>3 DEF PutChunk, Goto, TypeOK
      <4>2. QED
        BY <2>9, <4>1
    <3>4. QED
      BY <3>2, <3>3
  <2>12. QED
    BY <1>4, <2>10, <2>11
<1>5. CASE ChunksDone(d)
  <2>1. /\ pc[d] = "put" /\ pc'[d] = "unlink" /\ next[d] > ChunkCount(text[d])
        /\ \A p \in Hooks \cup Daemons : p # d => pc'[p] = pc[p]
    BY <1>0, <1>5 DEF ChunksDone, Goto, TypeOK
  <2>2. UNCHANGED <<jobs, jobsDisk, pending, pendingDisk, delivered, job, seen, queued, crossed,
                    text, next>>
    BY <1>5 DEF ChunksDone, jobDir, spool, hook, daemon, host
  <2>3. JobsOf(power)' = JobsOf(power) /\ ChunksOf(power)' = ChunksOf(power)
    BY <2>2 DEF JobsOf, ChunksOf
  <2>4. Queued(power)'
    BY <1>0, <2>1, <2>2, <2>3, QueuedMore
  <2>5. Synced(power)'
    BY <1>0, <2>1, <2>2 DEF Synced
  <2>6. \A i \in 1..ChunkCount(text[d]) : i \in 1..(next[d] - 1)
    BY <2>1, Numbers
  <2>7. CapturedTo(d, ChunkCount(text[d]), ChunksOf(power))'
    BY <1>0, <2>1, <2>2, <2>3, <2>6 DEF Reading, CapturedTo
  <2>8. Reading(power, d)'
    BY <1>0, <2>1, <2>2, <2>7 DEF Reading
  <2>9. ASSUME NEW e \in Daemons, e # d PROVE Reading(power, e)'
    BY <1>0, <2>1, <2>2, <2>3, <2>9, ReadingMore
  <2>10. QED
    BY <2>4, <2>5, <2>8, <2>9 DEF Settled
<1>6. CASE Unlink(d)
  <2>1. /\ pc[d] = "unlink" /\ pc'[d] = "unlinked" /\ job[d] \in Transcripts
        /\ \A p \in Hooks \cup Daemons : p # d => pc'[p] = pc[p]
    BY <1>0, <1>6 DEF Unlink, Goto, TypeOK, Work
  <2>2. /\ UNCHANGED <<jobsDisk, pending, pendingDisk, delivered, job, seen, queued, crossed,
                       text, next>>
        /\ jobs' = jobs \ {job[d]}
    BY <1>6 DEF Unlink, spool, hook, daemon, host
  <2>3. ChunksOf(power)' = ChunksOf(power)
    BY <2>2 DEF ChunksOf
  <2>a. \A t \in Transcripts : t # job[d] /\ t \in JobsOf(power) => t \in JobsOf(power)'
    BY <2>2 DEF JobsOf
  <2>b. \A t \in Transcripts : t # job[d] /\ t \in jobs => t \in jobs'
    BY <2>2
  <2>4. Covers(ChunksOf(power), job[d], text[d])
    BY <1>0, <2>1, ChunksCover, Numbers DEF Reading, CapturedTo
  <2>5. ASSUME NEW t \in Transcripts \ crossed
        PROVE  t \in JobsOf(power)' \/ Covers(ChunksOf(power), t, queued[t])
    <3>1. CASE t = job[d]
      BY <1>0, <2>1, <2>4, <2>5, <3>1, CoversMore, Numbers DEF Reading
    <3>2. CASE t # job[d]
      <4>1. t \in JobsOf(power) \/ Covers(ChunksOf(power), t, queued[t])
        BY <1>0, <2>5 DEF Queued
      <4>2. QED
        BY <2>a, <2>5, <3>2, <4>1
    <3>3. QED
      BY <3>1, <3>2
  <2>6. ASSUME NEW h \in Hooks, pc[h] = "queued", job[h] \notin crossed
        PROVE  job[h] \in jobs' \/ Covers(ChunksOf(power), job[h], seen[h])
    <3>1. CASE job[h] = job[d]
      BY <1>0, <2>1, <2>4, <2>6, <3>1, CoversMore, Numbers DEF Reading
    <3>2. CASE job[h] # job[d]
      <4>1. job[h] \in jobs \/ Covers(ChunksOf(power), job[h], seen[h])
        BY <1>0, <2>6 DEF Queued
      <4>2. job[h] \in Transcripts
        BY <1>0, <2>6 DEF Work
      <4>3. QED
        BY <2>b, <3>2, <4>1, <4>2
    <3>3. QED
      BY <3>1, <3>2
  <2>7. Queued(power)'
    BY <1>0, <2>1, <2>2, <2>3, <2>5, <2>6 DEF Queued
  <2>8. Synced(power)'
    BY <1>0, <2>1, <2>2 DEF Synced
  <2>9. ASSUME NEW e \in Daemons, e # d PROVE Reading(power, e)'
    BY <1>0, <2>1, <2>2, <2>3, <2>9, ReadingMore
  <2>10. Reading(power, d)'
    BY <2>1, ReadingOver
  <2>11. QED
    BY <2>7, <2>8, <2>9, <2>10 DEF Settled
<1>7. CASE UnlinkFsync(d)
  <2>1. /\ pc[d] = "unlinked" /\ pc'[d] = "next"
        /\ \A p \in Hooks \cup Daemons : p # d => pc'[p] = pc[p]
    BY <1>0, <1>7 DEF UnlinkFsync, Goto, TypeOK
  <2>2. /\ UNCHANGED <<jobs, pending, pendingDisk, delivered, job, seen, queued, crossed, text, next>>
        /\ jobsDisk' = jobs
    BY <1>7 DEF UnlinkFsync, spool, hook, daemon, host
  <2>3. \A t \in Transcripts : t \in JobsOf(power) => t \in JobsOf(power)'
    BY <2>2 DEF JobsOf
  <2>4. QED
    BY <2>1, <2>2, <2>3, DaemonAside
<1>8. QED
  BY <1>1, <1>2, <1>3, <1>4, <1>5, <1>6, <1>7 DEF DaemonStep

\* The host and its hooks: a hook that replaces a job file under a reader leaves the
\* transcript to a later hook, any other brings a job that stays.
LEMMA HostSettled ==
    ASSUME TInv, NEW power \in BOOLEAN, Settled(power), NEW t \in Transcripts,
           AddTurn(t) \/ \E h \in Hooks : StartQueue(h, t)
    PROVE  Settled(power)'
<1>0. TypeOK /\ Queued(power) /\ Synced(power) /\ \A e \in Daemons : Reading(power, e)
  BY DEF TInv, Settled
<1>1. UNCHANGED <<jobs, jobsDisk, pending, pendingDisk, delivered, queued, crossed, text, next>>
  BY DEF AddTurn, StartQueue, jobDir, spool, daemon
<1>2. JobsOf(power)' = JobsOf(power) /\ ChunksOf(power)' = ChunksOf(power)
  BY <1>1 DEF JobsOf, ChunksOf
<1>3. \A h \in Hooks : pc'[h] = "queued" =>
          pc[h] = "queued" /\ job'[h] = job[h] /\ seen'[h] = seen[h]
  <2>1. CASE AddTurn(t)
    BY <2>1 DEF AddTurn, hook
  <2>2. CASE \E g \in Hooks : StartQueue(g, t)
    <3>1. PICK g \in Hooks : StartQueue(g, t)
      BY <2>2
    <3>2. QED
      BY <1>0, <3>1 DEF StartQueue, Goto, TypeOK
  <2>3. QED
    BY <2>1, <2>2
<1>4. \A d \in Daemons : pc'[d] = pc[d] /\ job'[d] = job[d]
  <2>1. CASE AddTurn(t)
    BY <2>1 DEF AddTurn
  <2>2. CASE \E g \in Hooks : StartQueue(g, t)
    <3>1. PICK g \in Hooks : StartQueue(g, t)
      BY <2>2
    <3>2. QED
      BY <1>0, <3>1, Turns DEF StartQueue, Goto, TypeOK
  <2>3. QED
    BY <2>1, <2>2
<1>5. Queued(power)'
  BY <1>0, <1>1, <1>2, <1>3, QueuedMore
<1>6. Synced(power)'
  BY <1>0, <1>1, <1>4 DEF Synced
<1>7. ASSUME NEW e \in Daemons PROVE Reading(power, e)'
  <2>1. \A h \in Hooks : pc'[h] = "queued" /\ job'[h] = job[e] =>
            pc[h] = "queued" /\ job[h] = job[e] /\ seen'[h] = seen[h]
    BY <1>3
  <2>2. QED
    BY <1>0, <1>1, <1>2, <1>4, <2>1, ReadingMore
<1>8. QED
  BY <1>5, <1>6, <1>7 DEF Settled

LEMMA HookSettled ==
    ASSUME TInv, NEW power \in BOOLEAN, Settled(power), NEW h \in Hooks,
           QueueReplace(h) \/ QueueFsync(h)
    PROVE  Settled(power)'
<1>0. /\ TypeOK /\ Work /\ \A d \in Daemons : d # h
      /\ Queued(power) /\ Synced(power) /\ \A e \in Daemons : Reading(power, e)
  BY Turns DEF TInv, Settled
<1>1. /\ UNCHANGED <<pending, pendingDisk, delivered, job, seen, text, next>>
      /\ job[h] \in Transcripts /\ crossed \subseteq crossed'
      /\ \A p \in Hooks \cup Daemons : p # h => pc'[p] = pc[p]
  BY <1>0 DEF QueueReplace, QueueFsync, spool, hook, daemon, Goto, TypeOK, Work
<1>2. ChunksOf(power)' = ChunksOf(power)
  BY <1>1 DEF ChunksOf
<1>3. Synced(power)'
  BY <1>0, <1>1 DEF Synced
<1>4. CASE QueueReplace(h)
  <2>1. /\ jobs' = jobs \cup {job[h]} /\ jobsDisk' = jobsDisk /\ queued' = queued
        /\ crossed' = IF HasRead(job[h]) # {} THEN crossed \cup {job[h]} ELSE crossed
    BY <1>4 DEF QueueReplace
  <2>2. JobsOf(power) \subseteq JobsOf(power)'
    BY <2>1 DEF JobsOf
  <2>3. ASSUME NEW t \in Transcripts \ crossed'
        PROVE  t \in JobsOf(power)' \/ Covers(ChunksOf(power), t, queued[t])
    BY <1>0, <1>1, <2>2, <2>3 DEF Queued
  <2>4. ASSUME NEW g \in Hooks, pc'[g] = "queued", job[g] \notin crossed'
        PROVE  job[g] \in jobs' \/ Covers(ChunksOf(power), job[g], seen[g])
    <3>1. CASE g = h
      BY <2>1, <3>1
    <3>2. CASE g # h
      BY <1>0, <1>1, <2>1, <2>4, <3>2 DEF Queued
    <3>3. QED
      BY <3>1, <3>2
  <2>5. Queued(power)'
    BY <1>1, <1>2, <2>1, <2>3, <2>4 DEF Queued
  <2>6. ASSUME NEW e \in Daemons PROVE Reading(power, e)'
    <3>1. CASE pc[e] \in {"put", "fsync", "unlink"}
      <4>1. job[e] = job[h] => job[e] \in crossed'
        BY <2>1, <3>1 DEF HasRead
      <4>2. job[e] \notin crossed' =>
               \A g \in Hooks : pc'[g] = "queued" /\ job'[g] = job[e] =>
                   pc[g] = "queued" /\ job[g] = job[e] /\ seen'[g] = seen[g]
        BY <1>1, <4>1
      <4>3. QED
        BY <1>0, <1>1, <1>2, <2>1, <4>2, ReadingMore
    <3>2. CASE pc[e] \notin {"put", "fsync", "unlink"}
      BY <1>0, <1>1, <3>2, ReadingOver
    <3>3. QED
      BY <3>1, <3>2
  <2>7. QED
    BY <1>3, <2>5, <2>6 DEF Settled
<1>5. CASE QueueFsync(h)
  <2>1. /\ pc[h] = "queued" /\ pc'[h] = "idle" /\ jobs' = jobs /\ jobsDisk' = jobs
        /\ crossed' = crossed
        /\ queued'[job[h]] \in {queued[job[h]], seen[h]}
        /\ \A t \in Transcripts : t # job[h] => queued'[t] = queued[t]
    BY <1>0, <1>1, <1>5 DEF QueueFsync, Goto, TypeOK
  <2>2. JobsOf(power)' = jobs /\ JobsOf(power) \subseteq jobs
    BY <2>1 DEF JobsOf
  <2>3. ASSUME NEW t \in Transcripts \ crossed
        PROVE  t \in jobs \/ Covers(ChunksOf(power), t, queued'[t])
    <3>1. t \in jobs \/ Covers(ChunksOf(power), t, queued[t])
      BY <1>0, <2>2, <2>3 DEF Queued
    <3>2. CASE t = job[h] /\ queued'[t] = seen[h]
      BY <1>0, <2>1, <2>3, <3>2 DEF Queued
    <3>3. CASE queued'[t] = queued[t]
      BY <3>1, <3>3
    <3>4. QED
      BY <2>1, <3>2, <3>3
  <2>4. ASSUME NEW g \in Hooks, pc'[g] = "queued", job[g] \notin crossed
        PROVE  job[g] \in jobs' \/ Covers(ChunksOf(power), job[g], seen[g])
    BY <1>0, <1>1, <2>1, <2>4 DEF Queued
  <2>5. Queued(power)'
    BY <1>1, <1>2, <2>1, <2>2, <2>3, <2>4 DEF Queued
  <2>6. ASSUME NEW e \in Daemons PROVE Reading(power, e)'
    <3>1. CASE pc[e] \in {"put", "fsync", "unlink"} /\ job[e] \notin crossed
      <4>1. job[e] \in Transcripts
        BY <1>0, <3>1 DEF Work
      <4>2. queued'[job[e]] <= text[e]
        <5>1. CASE job[e] = job[h]
          BY <1>0, <2>1, <3>1, <5>1 DEF Reading
        <5>2. CASE job[e] # job[h]
          BY <1>0, <2>1, <3>1, <4>1, <5>2 DEF Reading
        <5>3. QED
          BY <5>1, <5>2
      <4>3. \A g \in Hooks : pc'[g] = "queued" /\ job[g] = job[e] => seen[g] <= text[e]
        BY <1>0, <1>1, <2>1, <3>1 DEF Reading
      <4>4. pc'[e] = pc[e]
        BY <1>0, <1>1
      <4>5. pc[e] \in {"put", "fsync"} => CapturedTo(e, next[e] - 1, ChunksOf(power))'
        BY <1>0, <1>1, <1>2 DEF Reading, CapturedTo
      <4>6. pc[e] = "unlink" => CapturedTo(e, ChunkCount(text[e]), ChunksOf(power))'
        BY <1>0, <1>1, <1>2 DEF Reading, CapturedTo
      <4>7. pc[e] = "fsync" => Chunk(job[e], text[e], next[e])' \in pending' \cup delivered'
        BY <1>0, <1>1 DEF Reading
      <4>8. QED
        BY <1>1, <4>2, <4>3, <4>4, <4>5, <4>6, <4>7 DEF Reading
    <3>2. CASE job[e] \in crossed
      BY <1>0, <1>1, <1>2, <2>1, <3>2, ReadingMore
    <3>3. CASE pc[e] \notin {"put", "fsync", "unlink"}
      BY <1>0, <1>1, <3>3, ReadingOver
    <3>4. QED
      BY <3>1, <3>2, <3>3
  <2>7. QED
    BY <1>3, <2>5, <2>6 DEF Settled
<1>6. QED
  BY <1>4, <1>5

LEMMA DeliverSettled ==
    ASSUME TInv, NEW power \in BOOLEAN, Settled(power), NEW c \in pending, Deliver(c)
    PROVE  Settled(power)'
<1>0. Queued(power) /\ Synced(power) /\ \A e \in Daemons : Reading(power, e)
  BY DEF Settled
<1>1. /\ UNCHANGED <<jobs, jobsDisk, pc, job, seen, queued, crossed, text, next>>
      /\ pending' = pending \ {c} /\ pendingDisk' = pending' /\ delivered' = delivered \cup {c}
  BY DEF Deliver, jobDir, hook, daemon, host
<1>2. JobsOf(power)' = JobsOf(power) /\ ChunksOf(power) \subseteq ChunksOf(power)'
  <2>1. pendingDisk \subseteq pending
    BY DEF TInv, TypeOK
  <2>2. QED
    BY <1>1, <2>1 DEF JobsOf, ChunksOf
<1>3. pending \cup delivered \subseteq pending' \cup delivered'
  BY <1>1
<1>4. Queued(power)'
  BY <1>0, <1>1, <1>2, QueuedMore
<1>5. Synced(power)'
  BY <1>1 DEF Synced
<1>6. ASSUME NEW e \in Daemons PROVE Reading(power, e)'
  BY <1>0, <1>1, <1>2, <1>3, ReadingMore
<1>7. QED
  BY <1>4, <1>5, <1>6 DEF Settled

\* When the power may fail, no daemon is killed between a chunk's name and its fsync;
\* when it may not, a power loss takes nothing away.
Survives(power) ==
    IF power THEN \A d \in Daemons : Kill(d) /\ pc[d] = "fsync" => pending = pendingDisk
             ELSE PowerLoss => jobs' = jobs /\ pending' = pending

LEMMA KillSettled ==
    ASSUME TInv, NEW power \in BOOLEAN, Alone(power), Settled(power), Survives(power),
           NEW p \in Hooks \cup Daemons, Kill(p)
    PROVE  Settled(power)'
<1>0. TypeOK /\ Queued(power) /\ Synced(power) /\ \A e \in Daemons : Reading(power, e)
  BY DEF TInv, Settled
<1>1. /\ UNCHANGED <<jobs, jobsDisk, pending, pendingDisk, delivered, job, seen, queued, crossed,
                     text, next>>
      /\ pc'[p] = "idle"
      /\ \A q \in Hooks \cup Daemons : q # p => pc'[q] = pc[q]
  BY <1>0 DEF Kill, jobDir, spool, hook, host, Goto, TypeOK
<1>2. JobsOf(power)' = JobsOf(power) /\ ChunksOf(power)' = ChunksOf(power)
  BY <1>1 DEF JobsOf, ChunksOf
<1>3. Queued(power)'
  BY <1>0, <1>1, <1>2, QueuedMore
<1>4. Synced(power)'
  BY <1>0, <1>1 DEF Synced, Survives
<1>5. ASSUME NEW e \in Daemons PROVE Reading(power, e)'
  <2>1. CASE e = p
    BY <1>1, <2>1, ReadingOver
  <2>2. CASE e # p
    BY <1>0, <1>1, <1>2, <2>2, ReadingMore
  <2>3. QED
    BY <2>1, <2>2
<1>6. QED
  BY <1>3, <1>4, <1>5 DEF Settled

LEMMA PowerSettled ==
    ASSUME TInv, NEW power \in BOOLEAN, Settled(power), power \/ Survives(power), PowerLoss
    PROVE  Settled(power)'
<1>0. TypeOK /\ Queued(power)
  BY DEF TInv, Settled
<1>1. /\ UNCHANGED <<delivered, job, seen, queued, crossed, text, next>>
      /\ jobsDisk' = jobs' /\ pendingDisk' = pending'
      /\ \A p \in Hooks \cup Daemons : pc'[p] = "idle"
  BY DEF PowerLoss, hook, host
<1>2. jobs \cap jobsDisk \subseteq jobs' /\ pendingDisk \subseteq pending'
  <2>1. PICK undone \in SUBSET Jobs : jobs' = (jobs \ undone) \cup (jobsDisk \cap undone)
    BY DEF PowerLoss
  <2>2. pendingDisk \subseteq pending
    BY <1>0 DEF TypeOK
  <2>3. PICK lost \in SUBSET (pending \ pendingDisk) : pending' = pending \ lost
    BY DEF PowerLoss
  <2>4. QED
    BY <2>1, <2>2, <2>3
<1>3. JobsOf(power) \subseteq JobsOf(power)' /\ ChunksOf(power) \subseteq ChunksOf(power)'
  BY <1>1, <1>2 DEF JobsOf, ChunksOf, Survives
<1>4. ASSUME NEW t \in Transcripts \ crossed
      PROVE  t \in JobsOf(power)' \/ Covers(ChunksOf(power)', t, queued[t])
  BY <1>0, <1>3, Numbers, CoversMore DEF Queued
<1>5. Queued(power)'
  BY <1>1, <1>4 DEF Queued
<1>6. Synced(power)'
  BY <1>1 DEF Synced
<1>7. ASSUME NEW e \in Daemons PROVE Reading(power, e)'
  BY <1>1, ReadingOver
<1>8. QED
  BY <1>5, <1>6, <1>7 DEF Settled

LEMMA SettledStep ==
    ASSUME TInv, NEW power \in BOOLEAN, Alone(power), Settled(power),
           [Next]_vars, [Survives(power)]_vars
    PROVE  Settled(power)'
<1>1. CASE UNCHANGED vars
  BY <1>1 DEF vars, Settled, Queued, Synced, Reading, CapturedTo, JobsOf, ChunksOf, Covers
<1>2. CASE Next /\ Survives(power)
  BY <1>2, HostSettled, HookSettled, DaemonSettled, DeliverSettled, KillSettled, PowerSettled
     DEF Next
<1>3. QED
  BY <1>1, <1>2

LEMMA SettledKept ==
    ASSUME TInv, NEW power \in BOOLEAN, Settled(power)
    PROVE  QueuedKept
<1>1. ASSUME NEW t \in Transcripts, t \notin crossed
      PROVE  t \in jobs \/ Covers(pending \cup delivered, t, queued[t])
  <2>1. t \in JobsOf(power) \/ Covers(ChunksOf(power), t, queued[t])
    BY <1>1 DEF Settled, Queued
  <2>2. JobsOf(power) \subseteq jobs /\ ChunksOf(power) \subseteq pending \cup delivered
    BY DEF JobsOf, ChunksOf, TInv, TypeOK
  <2>3. QED
    BY <2>1, <2>2, Numbers, CoversMore
<1>2. QED
  BY <1>1 DEF QueuedKept, Kept

\* Any number of hooks and daemons, and kills of any of them: what a finished hook
\* run queued keeps its job or is captured, as long as power losses take no name
\* away (spool.py:75-106, 152-185, 236-262).
THEOREM QueuedSurvivesKills ==
    Spec /\ [][PowerLoss => jobs' = jobs /\ pending' = pending]_vars => []QueuedKept
<1>1. Init => TInv /\ Settled(FALSE)
  BY TypesInit, SettledInit
<1>2. TInv /\ Settled(FALSE) /\ [Next]_vars /\ [PowerLoss => jobs' = jobs /\ pending' = pending]_vars
         => TInv' /\ Settled(FALSE)'
  <2>1. Alone(FALSE) /\ (Survives(FALSE) <=> (PowerLoss => jobs' = jobs /\ pending' = pending))
    BY DEF Alone, Survives
  <2>2. QED
    BY <2>1, TypesStep, SettledStep
<1>3. TInv /\ Settled(FALSE) => QueuedKept
  BY SettledKept
<1>4. QED
  BY <1>1, <1>2, <1>3, PTL DEF Spec

\* The power may fail too, and take every name that no fsync covers, when one daemon
\* runs and is not killed between a chunk's name and its fsync: put finds that name
\* on the next pass and returns without the fsync (spool.py:59-60, 68-69).
THEOREM QueuedSurvivesPowerLoss ==
    (\A d, e \in Daemons : d = e) /\ Spec
        /\ [][\A d \in Daemons : Kill(d) /\ pc[d] = "fsync" => pending = pendingDisk]_vars
        => []QueuedKept
<1> SUFFICES ASSUME \A d, e \in Daemons : d = e
             PROVE  Spec /\ [][\A d \in Daemons : Kill(d) /\ pc[d] = "fsync" => pending = pendingDisk]_vars
                        => []QueuedKept
  OBVIOUS
<1>1. Init => TInv /\ Settled(TRUE)
  BY TypesInit, SettledInit
<1>2. TInv /\ Settled(TRUE) /\ [Next]_vars
           /\ [\A d \in Daemons : Kill(d) /\ pc[d] = "fsync" => pending = pendingDisk]_vars
         => TInv' /\ Settled(TRUE)'
  <2>1. Alone(TRUE)
    BY DEF Alone
  <2>2. Survives(TRUE) <=> \A d \in Daemons : Kill(d) /\ pc[d] = "fsync" => pending = pendingDisk
    BY DEF Survives
  <2>3. QED
    BY <2>1, <2>2, TypesStep, SettledStep
<1>3. TInv /\ Settled(TRUE) => QueuedKept
  BY SettledKept
<1>4. QED
  BY <1>1, <1>2, <1>3, PTL DEF Spec

-----------------------------------------------------------------------------
(* One failure of any kind *)

\* Before the first failure all that is captured is flushed, but for a daemon at its
\* fsync; after the last one no power loss comes.
Once == /\ failures \in Nat /\ failures <= MaxFailures
        /\ Settled(FALSE)
        /\ failures = 0 => Settled(TRUE)

\* What stays after a power loss is there without one.
LEMMA SettledLess == ASSUME TInv, Settled(TRUE) PROVE Settled(FALSE)
<1>1. ChunksOf(TRUE) \subseteq ChunksOf(FALSE) /\ JobsOf(TRUE) \subseteq JobsOf(FALSE)
  BY DEF ChunksOf, JobsOf, TInv, TypeOK
<1>2. Queued(FALSE)
  <2> DEFINE few == ChunksOf(TRUE)
             all == ChunksOf(FALSE)
  <2>a. ASSUME NEW t, NEW n \in Nat, Covers(few, t, n) PROVE Covers(all, t, n)
    <3>1. n <= n
      OBVIOUS
    <3>2. few \subseteq all
      BY <1>1, Zenon
    <3>3. QED
      BY <2>a, <3>1, <3>2, CoversMore
  <2>b. Queued(TRUE)
    BY DEF Settled
  <2>1. ASSUME NEW t \in Transcripts \ crossed
        PROVE  t \in JobsOf(FALSE) \/ Covers(ChunksOf(FALSE), t, queued[t])
    <3>1. t \in JobsOf(TRUE) \/ Covers(few, t, queued[t])
      BY <2>b DEF Queued
    <3>2. QED
      BY <1>1, <2>a, <3>1, Numbers
  <2>2. ASSUME NEW h \in Hooks, pc[h] = "queued", job[h] \notin crossed
        PROVE  job[h] \in jobs \/ Covers(ChunksOf(FALSE), job[h], seen[h])
    <3>1. job[h] \in jobs \/ Covers(few, job[h], seen[h])
      BY <2>b, <2>2 DEF Queued
    <3>2. QED
      BY <2>a, <3>1, Numbers
  <2>3. QED
    BY <2>1, <2>2 DEF Queued
<1>3. ASSUME NEW d \in Daemons PROVE Reading(FALSE, d)
  <2>1. Reading(TRUE, d)
    BY DEF Settled
  <2>2. pc[d] \in {"put", "fsync"} => CapturedTo(d, next[d] - 1, ChunksOf(FALSE))
    BY <1>1, <2>1 DEF Reading, CapturedTo
  <2>3. pc[d] = "unlink" => CapturedTo(d, ChunkCount(text[d]), ChunksOf(FALSE))
    BY <1>1, <2>1 DEF Reading, CapturedTo
  <2>4. QED
    BY <2>1, <2>2, <2>3 DEF Reading
<1>4. QED
  BY <1>2, <1>3 DEF Settled, Synced

\* Failures are counted, and nothing else is.
LEMMA Counted ==
    ASSUME [Next]_vars
    PROVE  failures' = failures \/ (PowerLoss \/ \E p \in Hooks \cup Daemons : Kill(p))
BY DEF Next, AddTurn, StartQueue, QueueReplace, QueueFsync, DaemonStep, List, EndJobs, TakeJob,
       QuarantineJob, ReadText, PutChunk, PutFsync, ChunksDone, Unlink, UnlinkFsync, Deliver, vars

LEMMA OnceStep ==
    ASSUME TInv, Once, MaxFailures <= 1, \A d, e \in Daemons : d = e, [Next]_vars
    PROVE  Once'
<1>0. TInv' /\ Alone(TRUE) /\ Alone(FALSE) /\ MaxFailures \in Nat
  BY TypesStep, TranscriptAssumption DEF Alone
<1>a. MaxFailures = 1 /\ failures' = 1 =>
          failures' \in Nat /\ failures' <= MaxFailures /\ failures' # 0
  OBVIOUS
<1>1. CASE PowerLoss
  <2>1. failures = 0 /\ failures' = 1 /\ MaxFailures = 1
    BY <1>0, <1>1 DEF Once, PowerLoss
  <2>2. Settled(TRUE)'
    BY <1>1, <2>1, PowerSettled DEF Once
  <2>3. Settled(FALSE)'
    BY <1>0, <2>2, SettledLess, PTL
  <2>4. QED
    BY <1>a, <2>1, <2>3, Zenon DEF Once
<1>2. CASE \E p \in Hooks \cup Daemons : Kill(p) /\ ~PowerLoss
  <2>1. failures = 0 /\ failures' = 1 /\ MaxFailures = 1
    BY <1>0, <1>2 DEF Once, Kill
  <2>2. Settled(FALSE)'
    BY <1>0, <1>2, SettledStep DEF Once, Survives
  <2>3. QED
    BY <1>a, <2>1, <2>2, Zenon DEF Once
<1>3. CASE failures' = failures
  <2>1. ~PowerLoss /\ \A p \in Hooks \cup Daemons : ~Kill(p)
    BY <1>3 DEF Once, PowerLoss, Kill
  <2>2. Settled(FALSE)'
    BY <1>0, <2>1, SettledStep DEF Once, Survives
  <2>3. failures = 0 => Settled(TRUE)'
    BY <1>0, <2>1, SettledStep DEF Once, Survives
  <2>4. QED
    BY <1>3, <2>2, <2>3 DEF Once
<1>4. QED
  BY <1>1, <1>2, <1>3, Counted

\* The instance of the run, for any transcripts, hooks, chunk sizes and listings: one
\* daemon and one failure, a kill or a power loss at whatever step it comes.  With a
\* second failure or a second daemon it does not hold (spool.py:59-60).
THEOREM QueuedSurvivesOneFailure ==
    (\A d, e \in Daemons : d = e) /\ MaxFailures <= 1 /\ Spec => []QueuedKept
<1> SUFFICES ASSUME \A d, e \in Daemons : d = e, MaxFailures <= 1
             PROVE  Spec => []QueuedKept
  OBVIOUS
<1>1. Init => TInv /\ Once
  <2>1. Init => failures = 0 /\ failures \in Nat /\ failures <= MaxFailures
    BY TranscriptAssumption DEF Init
  <2>2. Init => TInv /\ Settled(FALSE) /\ Settled(TRUE)
    BY TypesInit, SettledInit
  <2>3. QED
    BY <2>1, <2>2, Zenon DEF Once
<1>2. TInv /\ Once /\ [Next]_vars => TInv' /\ Once'
  BY TypesStep, OnceStep
<1>3. TInv /\ Once => QueuedKept
  BY SettledKept DEF Once
<1>4. QED
  BY <1>1, <1>2, <1>3, PTL DEF Spec

=============================================================================
