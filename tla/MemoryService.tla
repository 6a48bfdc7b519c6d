---------------------------- MODULE MemoryService ----------------------------
(***************************************************************************)
(* The MCP service process of MemoryBridge (memorybridge/service.py) over  *)
(* the Qdrant collections it owns: put with its first-writer-wins critical *)
(* section and durable sequence clock, since for sync consumers, ack.      *)
(*                                                                         *)
(* One step is the code between two awaits.  A call to Qdrant may be       *)
(* refused, applied with its answer lost, or (LateWrites) applied after    *)
(* the caller's HTTP timeout; the process may crash at any await; the wall *)
(* clock may read anything.                                                *)
(***************************************************************************)
EXTENDS Integers, FiniteSets

CONSTANTS
    Ids,         \* memory ids (MemoryPut.deterministic_id)
    Bodies,      \* contents a caller may send
    NoBody,      \* the body of a point that stores no record
    SeqPoint,    \* SEQ_POINT_ID, the point of the durable sequence clock
    Clients,     \* concurrent memory_put calls
    Consumers,   \* sync consumers
    Limit,       \* limit of memory_since
    ScrollCap,   \* max(limit * 10, 1000) of its fallback
    MaxTime,     \* bound: the wall clock reads 0..MaxTime
    MaxCalls,    \* bound: memory_put calls in a behaviour
    MaxCrashes,  \* bound: process restarts in a behaviour
    MaxAcks,     \* bound: memory_ack calls in a behaviour
    LateWrites   \* whether Qdrant may apply a write after the caller gave up

Free == "free"                    \* _put_lock is not held
ASSUME ServiceAssumption ==
    /\ IsFiniteSet(Ids)
    /\ SeqPoint \notin Ids
    /\ NoBody \notin Bodies
    /\ Free \notin Clients
    /\ Limit \in Nat \ {0}
    /\ ScrollCap \in Nat
    /\ ScrollCap > Limit
    /\ {MaxTime, MaxCalls, MaxCrashes, MaxAcks} \subseteq Nat
    /\ LateWrites \in BOOLEAN

VARIABLES
    raw,      \* write collection: raw[i], seq 0 where the point does not exist
    clock,    \* meta collection: last_seq of the sequence point, 0 without one
    acked,    \* meta collection: acked[k], the cursor of k's ack point
    late,     \* writes Qdrant still holds whose callers have given up
    lastSeq,  \* _last_seq: Unloaded until the clock was read
    lock,     \* holder of _put_lock, or Free
    pc,       \* pc[c]: where call c is; the last three are its answer
    req,      \* req[c]: the id and body call c stores
    seq,      \* seq[c]: the local seq of call c, the seq of its answer
    cursor,   \* cursor[k]: the cursor consumer k continues from
    seen,     \* seen[k]: the ids consumer k was handed
    acks,     \* memory_ack calls on their way, as <<consumer, cursor>>
    calls, crashes, sentAcks  \* counters of the bounds

store == <<raw, clock, late>>
server == <<lastSeq, lock, pc, req, seq>>
reader == <<cursor, seen>>
acking == <<acked, acks, sentAcks>>
bounds == <<calls, crashes>>
vars == <<raw, clock, late, lastSeq, lock, pc, req, seq,
          cursor, seen, acked, acks, sentAcks, calls, crashes>>

Unloaded == -1                    \* _last_seq is None
Absent == [seq |-> 0, body |-> NoBody]
Record == [seq : Nat, body : Bodies \cup {NoBody}]
Write == [id : Ids \cup {SeqPoint}, seq : Nat, body : Bodies \cup {NoBody}]

Holding == {"check", "load", "tick", "clock", "raw"}   \* inside the lock
Awaiting == {"ensure", "wait", "check", "load", "clock", "raw"}
Answered == {"stored", "duplicate", "failed"}

Init ==
    /\ raw = [i \in Ids |-> Absent]
    /\ clock = 0
    /\ acked = [k \in Consumers |-> 0]
    /\ late = {}
    /\ lastSeq = Unloaded
    /\ lock = Free
    /\ pc = [c \in Clients |-> "idle"]
    /\ \E i \in Ids, b \in Bodies : req = [c \in Clients |-> <<i, b>>]
    /\ seq = [c \in Clients |-> 0]
    /\ cursor = [k \in Consumers |-> 0]
    /\ seen = [k \in Consumers |-> {}]
    /\ acks = {}
    /\ calls = 0 /\ crashes = 0 /\ sentAcks = 0

-----------------------------------------------------------------------------
(* Qdrant *)

\* PUT points?wait=true: one point is replaced whole.
Upsert(w) ==
    IF w.id = SeqPoint
    THEN clock' = w.seq /\ UNCHANGED raw
    ELSE raw' = [raw EXCEPT ![w.id] = [seq |-> w.seq, body |-> w.body]]
         /\ UNCHANGED clock

\* The upsert call c waits for: the clock's new value, then its record.
Pending(c) ==
    IF pc[c] = "clock"
    THEN [id |-> SeqPoint, seq |-> seq[c], body |-> NoBody]
    ELSE [id |-> req[c][1], seq |-> seq[c], body |-> req[c][2]]

\* A write Qdrant had queued when its caller timed out is applied after all.
ApplyLate ==
    \E w \in late :
        /\ Upsert(w)
        /\ late' = late \ {w}
        /\ UNCHANGED <<server, reader, acking, bounds>>

-----------------------------------------------------------------------------
(* memory_put *)

\* A caller sends a put: a first attempt, or a retry of what it sent before.
Call(c) ==
    /\ pc[c] \in {"idle"} \cup Answered
    /\ calls < MaxCalls
    /\ \E i \in Ids, b \in Bodies : req' = [req EXCEPT ![c] = <<i, b>>]
    /\ pc' = [pc EXCEPT ![c] = "ensure"]
    /\ seq' = [seq EXCEPT ![c] = 0]
    /\ calls' = calls + 1
    /\ UNCHANGED <<store, lastSeq, lock, reader, acking, crashes>>

\* ensure: both collections exist afterwards.  A refused seq index is
\* swallowed and only sends memory_since to its fallback.
Ensure(c) ==
    /\ pc[c] = "ensure"
    /\ pc' = [pc EXCEPT ![c] = "wait"]
    /\ UNCHANGED <<store, lastSeq, lock, req, seq, reader, acking, bounds>>

Acquire(c) ==
    /\ pc[c] = "wait"
    /\ lock = Free
    /\ lock' = c
    /\ pc' = [pc EXCEPT ![c] = "check"]
    /\ UNCHANGED <<store, lastSeq, req, seq, reader, acking, bounds>>

\* The answer of call c leaves the critical section.
Answer(c, a) == pc' = [pc EXCEPT ![c] = a] /\ lock' = Free

\* First writer wins: an existing point answers with its own seq.
FindExisting(c) ==
    /\ pc[c] = "check"
    /\ raw[req[c][1]].seq # 0
    /\ seq' = [seq EXCEPT ![c] = raw[req[c][1]].seq]
    /\ Answer(c, "duplicate")
    /\ UNCHANGED <<store, lastSeq, req, reader, acking, bounds>>

FindNone(c) ==
    /\ pc[c] = "check"
    /\ raw[req[c][1]].seq = 0
    /\ pc' = [pc EXCEPT ![c] = IF lastSeq = Unloaded THEN "load" ELSE "tick"]
    /\ UNCHANGED <<store, lastSeq, lock, req, seq, reader, acking, bounds>>

\* The first allocation of a process reads the durable clock.
LoadClock(c) ==
    /\ pc[c] = "load"
    /\ lastSeq' = clock
    /\ pc' = [pc EXCEPT ![c] = "tick"]
    /\ UNCHANGED <<store, lock, req, seq, reader, acking, bounds>>

\* Mutant: the wall clock alone.
NextTime_WallClock(t, last) == t + 1

\* max(time.time_ns(), last + 1)
NextTime(t, last) == IF t > last THEN t ELSE last + 1

\* The new value is kept in memory before it is sent to Qdrant.
Tick(c) ==
    /\ pc[c] = "tick"
    /\ \E t \in 0..MaxTime : lastSeq' = NextTime(t, lastSeq)
    /\ seq' = [seq EXCEPT ![c] = lastSeq']
    /\ pc' = [pc EXCEPT ![c] = "clock"]
    /\ UNCHANGED <<store, lock, req, reader, acking, bounds>>

\* Mutant: the clock stays in memory.
WriteClock_Skipped(c) ==
    /\ pc[c] = "clock"
    /\ pc' = [pc EXCEPT ![c] = "raw"]
    /\ UNCHANGED <<store, lastSeq, lock, req, seq, reader, acking, bounds>>

WriteClock(c) ==
    /\ pc[c] = "clock"
    /\ Upsert(Pending(c))
    /\ pc' = [pc EXCEPT ![c] = "raw"]
    /\ UNCHANGED <<late, lastSeq, lock, req, seq, reader, acking, bounds>>

\* Mutant: the answer does not wait for the upsert.
WriteRaw_NoWait(c) ==
    /\ pc[c] = "raw"
    /\ late' = late \cup {Pending(c)}
    /\ Answer(c, "stored")
    /\ UNCHANGED <<raw, clock, lastSeq, req, seq, reader, acking, bounds>>

WriteRaw(c) ==
    /\ pc[c] = "raw"
    /\ Upsert(Pending(c))
    /\ Answer(c, "stored")
    /\ UNCHANGED <<late, lastSeq, req, seq, reader, acking, bounds>>

\* Mutant: an exception leaves the lock held.
Refused_KeepsLock(c) ==
    /\ pc[c] \in Awaiting
    /\ pc' = [pc EXCEPT ![c] = "failed"]
    /\ UNCHANGED <<store, lastSeq, lock, req, seq, reader, acking, bounds>>

\* A call to Qdrant raises (or the MCP request is cancelled) with no effect:
\* the exception leaves both locks.
Refused(c) ==
    /\ pc[c] \in Awaiting
    /\ pc' = [pc EXCEPT ![c] = "failed"]
    /\ lock' = IF lock = c THEN Free ELSE lock
    /\ UNCHANGED <<store, lastSeq, req, seq, reader, acking, bounds>>

\* Qdrant applied the write, its answer did not arrive.
AnswerLost(c) ==
    /\ pc[c] \in {"clock", "raw"}
    /\ Upsert(Pending(c))
    /\ Answer(c, "failed")
    /\ UNCHANGED <<late, lastSeq, req, seq, reader, acking, bounds>>

\* The caller times out while Qdrant still has the write queued.
TimedOut(c) ==
    /\ LateWrites
    /\ pc[c] \in {"clock", "raw"}
    /\ late' = late \cup {Pending(c)}
    /\ Answer(c, "failed")
    /\ UNCHANGED <<raw, clock, lastSeq, req, seq, reader, acking, bounds>>

\* The process dies and is restarted: calls, locks and _last_seq are gone.
Crash ==
    /\ crashes < MaxCrashes
    /\ crashes' = crashes + 1
    /\ lastSeq' = Unloaded
    /\ lock' = Free
    /\ pc' = [c \in Clients |-> IF pc[c] \in Answered THEN pc[c] ELSE "idle"]
    /\ UNCHANGED <<store, req, seq, reader, acking, calls>>

-----------------------------------------------------------------------------
(* memory_since *)

\* Mutant: "gte" for "gt".
Behind_Inclusive(n) == {i \in Ids : raw[i].seq >= n /\ raw[i].seq # 0}

Behind(n) == {i \in Ids : raw[i].seq > n}

Least(n, m) == IF n < m THEN n ELSE m

\* Mutant: the page is cut before it is sorted.
IsPage_Unsorted(P, S) ==
    /\ P \subseteq S
    /\ Cardinality(P) = Least(Cardinality(S), Limit)

\* P is the page scroll(order_by seq) or sort-and-truncate takes from S.
IsPage(P, S) ==
    /\ P \subseteq S
    /\ Cardinality(P) = Least(Cardinality(S), Limit)
    /\ \A i \in P, j \in S \ P : raw[i].seq <= raw[j].seq

\* What the fallback scrolls: no order, at most ScrollCap of the matches.
IsScroll(S, M) ==
    /\ S \subseteq M
    /\ Cardinality(S) = Least(Cardinality(M), ScrollCap)

\* Consumer k takes page P and continues from the largest seq on it.
Deliver(k, P) ==
    /\ \E h \in {cursor[k]} \cup {raw[i].seq : i \in P} :
           /\ h >= cursor[k]
           /\ \A i \in P : raw[i].seq <= h
           /\ cursor' = [cursor EXCEPT ![k] = h]
    /\ seen' = [seen EXCEPT ![k] = @ \cup P]
    /\ UNCHANGED <<store, server, acking, bounds>>

SinceOrdered(k) ==
    \E P \in SUBSET Behind(cursor[k]) :
        IsPage(P, Behind(cursor[k])) /\ Deliver(k, P)

\* The ordered scroll raised QdrantError: no seq index, or any other refusal.
SinceFallback(k) ==
    \E S \in SUBSET Behind(cursor[k]) :
        /\ IsScroll(S, Behind(cursor[k]))
        /\ \E P \in SUBSET S : IsPage(P, S) /\ Deliver(k, P)

-----------------------------------------------------------------------------
(* memory_ack *)

\* A consumer reports its cursor; the call may wait anywhere on its way.
SendAck(k) ==
    /\ sentAcks < MaxAcks
    /\ sentAcks' = sentAcks + 1
    /\ acks' = acks \cup {<<k, cursor[k]>>}
    /\ UNCHANGED <<store, server, reader, acked, bounds>>

\* Mutant: the next position is stored for the last one handled.
Ack_OffByOne(k, n) ==
    /\ <<k, n>> \in acks
    /\ acks' = acks \ {<<k, n>>}
    /\ acked' = [acked EXCEPT ![k] = n + 1]
    /\ UNCHANGED <<store, server, reader, sentAcks, bounds>>

\* ack: the consumer's point is overwritten with the call's cursor.
Ack(k, n) ==
    /\ <<k, n>> \in acks
    /\ acks' = acks \ {<<k, n>>}
    /\ acked' = [acked EXCEPT ![k] = n]
    /\ UNCHANGED <<store, server, reader, sentAcks, bounds>>

\* The call is lost before the upsert.
LoseAck(k, n) ==
    /\ <<k, n>> \in acks
    /\ acks' = acks \ {<<k, n>>}
    /\ UNCHANGED <<store, server, reader, acked, sentAcks, bounds>>

-----------------------------------------------------------------------------
Serve(c) ==
    \/ Ensure(c) \/ Acquire(c) \/ FindExisting(c) \/ FindNone(c)
    \/ LoadClock(c) \/ Tick(c) \/ WriteClock(c) \/ WriteRaw(c)

Fault(c) == Refused(c) \/ AnswerLost(c) \/ TimedOut(c)

Since(k) == SinceOrdered(k) \/ SinceFallback(k)

Next ==
    \/ \E c \in Clients : Call(c) \/ Serve(c) \/ Fault(c)
    \/ Crash \/ ApplyLate
    \/ \E k \in Consumers : Since(k) \/ SendAck(k)
    \/ \E m \in acks : Ack(m[1], m[2]) \/ LoseAck(m[1], m[2])

Spec == Init /\ [][Next]_vars

\* A call that does not wait for the lock goes on or fails.
Proceed(c) == pc[c] # "wait" /\ (Serve(c) \/ Fault(c))

\* asyncio runs every ready coroutine and its Lock wakes waiters in turn; an
\* HTTP call ends, in an answer or an error; a consumer keeps polling.  That a
\* caller which waits for the lock gives up is possible, but not promised.
Fairness ==
    /\ \A c \in Clients : WF_vars(Proceed(c)) /\ SF_vars(Acquire(c))
    /\ \A k \in Consumers : WF_vars(Since(k))

FairSpec == Spec /\ Fairness

-----------------------------------------------------------------------------
(* Properties *)

\* Every variable holds what the code may put there.
TypeOK ==
    /\ raw \in [Ids -> Record]
    /\ clock \in Nat
    /\ late \subseteq Write
    /\ lastSeq \in Nat \cup {Unloaded}
    /\ lock \in Clients \cup {Free}
    /\ pc \in [Clients -> {"idle"} \cup Awaiting \cup Holding \cup Answered]
    /\ req \in [Clients -> Ids \X Bodies]
    /\ seq \in [Clients -> Nat]
    /\ cursor \in [Consumers -> Nat]
    /\ seen \in [Consumers -> SUBSET Ids]
    /\ acked \in [Consumers -> Nat]
    /\ acks \subseteq Consumers \X Nat

\* A put that answered "stored": True left a record behind: the one under its
\* id has the seq it reported and, for a first writer, the content it sent
\* (service.py:76-92), whatever failed or crashed since.
AnsweredPutIsStored ==
    \A c \in Clients :
        /\ pc[c] \in {"stored", "duplicate"} => raw[req[c][1]].seq = seq[c] /\ seq[c] # 0
        /\ pc[c] = "stored" => raw[req[c][1]].body = req[c][2]

\* The durable clock is never behind a stored record, so that a restarted
\* process allocates past all of them (service.py:53-62).
ClockCoversRaw == \A i \in Ids : raw[i].seq <= clock

\* No two records share a position of the stream, across failed puts,
\* restarts and a wall clock that goes back.
SeqUnique ==
    \A i, j \in Ids : i # j /\ raw[i].seq = raw[j].seq => raw[i].seq = 0

\* A sync consumer's cursor never passes a record it was not handed: records
\* become visible in the order of their seqs (service.py:72, 148-167).
NoSkip ==
    \A k \in Consumers, i \in Ids :
        raw[i].seq # 0 /\ raw[i].seq <= cursor[k] => i \in seen[k]

\* What status reports as acknowledged was handed to the consumer.
AckedWasDelivered ==
    \A k \in Consumers, i \in Ids :
        raw[i].seq # 0 /\ raw[i].seq <= acked[k] => i \in seen[k]

\* First writer wins (ARCHITECTURE.md:63): once a record is stored, no retry,
\* concurrent call or restart changes its seq or its content.
FirstWriterWins ==
    [][\A i \in Ids : raw[i].seq # 0 => raw'[i] = raw[i]]_vars

\* The service implements the abstract stream, whose variables are its own: what
\* is in the collection, and what the consumers have of it.
Stream == INSTANCE DurableStream WITH
              Ids <- Ids,
              Bodies <- Bodies,
              NoBody <- NoBody,
              Consumers <- Consumers,
              raw <- raw,
              cursor <- cursor,
              seen <- seen

ImplementsStream == Stream!StreamSpec

\* A put that was sent is answered or dies with the process: no failure of
\* another call leaves the lock behind.
PutAnswered == \A c \in Clients : (pc[c] = "wait") ~> (pc[c] \in {"idle"} \cup Answered)

\* A polling consumer catches up with every record, even one that Qdrant
\* applied late; with NoSkip, it is handed every record in the end.
CatchesUp ==
    \A k \in Consumers, i \in Ids :
        (raw[i].seq # 0) ~> (cursor[k] >= raw[i].seq)
=============================================================================
