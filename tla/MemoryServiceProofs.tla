-------------------------- MODULE MemoryServiceProofs --------------------------
(***************************************************************************)
(* TLAPS proofs about MemoryService, for every number of callers, ids,     *)
(* consumers, restarts and every reading of the wall clock.                *)
(***************************************************************************)
EXTENDS MemoryService, FiniteSetTheorems, TLAPS

\* What an upsert of the two pending writes does to the store: the clock
\* point and the record's point are different points.
LEMMA UpsertPending ==
    ASSUME TypeOK, NEW c \in Clients, Upsert(Pending(c)), pc[c] \in {"clock", "raw"}
    PROVE  /\ pc[c] = "clock" => clock' = seq[c] /\ raw' = raw
           /\ pc[c] = "raw" =>
                /\ clock' = clock
                /\ raw' = [raw EXCEPT ![req[c][1]] = [seq |-> seq[c], body |-> req[c][2]]]
<1>1. req[c][1] \in Ids
  BY DEF TypeOK
<1>2. CASE pc[c] = "clock"
  BY <1>2 DEF Upsert, Pending
<1>3. CASE pc[c] = "raw"
  BY <1>1, <1>3, ServiceAssumption DEF Upsert, Pending
<1>4. QED
  BY <1>2, <1>3

\* max(time_ns, last + 1) is a natural number beyond last, also for the
\* clock a process just loaded.
LEMMA NextTimeBeyond ==
    ASSUME NEW t \in Nat, NEW n \in Nat
    PROVE  NextTime(t, n) \in Nat /\ NextTime(t, n) > n
BY DEF NextTime

\* A call that is past the load holds a loaded clock.
Loaded == \A c \in Clients : pc[c] \in {"tick", "clock", "raw"} => lastSeq # Unloaded

\* One caller at a time is inside the critical section, and it is the holder.
Mutex == \A c \in Clients : pc[c] \in Holding <=> lock = c

BaseInv == TypeOK /\ Mutex /\ Loaded

LEMMA BaseInit == Init => BaseInv
<1> SUFFICES ASSUME Init PROVE BaseInv
  OBVIOUS
<1>1. TypeOK
  BY DEF Init, TypeOK, Record, Absent, Unloaded, Free
<1>2. Mutex /\ Loaded
  BY ServiceAssumption DEF Init, Mutex, Loaded, Holding
<1>3. QED
  BY <1>1, <1>2 DEF BaseInv

LEMMA BaseStep == BaseInv /\ [Next]_vars => BaseInv'
<1> SUFFICES ASSUME BaseInv, [Next]_vars PROVE BaseInv'
  OBVIOUS
<1> USE DEF BaseInv, TypeOK, Mutex, Loaded, Holding, Awaiting, Answered, Unloaded,
            store, server, reader, acking, bounds
<1>1. ASSUME NEW c \in Clients, Call(c) PROVE BaseInv'
  BY <1>1 DEF Call
<1>2. ASSUME NEW c \in Clients, Ensure(c) PROVE BaseInv'
  BY <1>2 DEF Ensure
<1>3. ASSUME NEW c \in Clients, Acquire(c) PROVE BaseInv'
  BY <1>3, ServiceAssumption DEF Acquire
<1>4. ASSUME NEW c \in Clients, FindExisting(c) PROVE BaseInv'
  BY <1>4, ServiceAssumption DEF FindExisting, Answer, Record
<1>5. ASSUME NEW c \in Clients, FindNone(c) PROVE BaseInv'
  BY <1>5 DEF FindNone
<1>6. ASSUME NEW c \in Clients, LoadClock(c) PROVE BaseInv'
  BY <1>6 DEF LoadClock
<1>7. ASSUME NEW c \in Clients, Tick(c) PROVE BaseInv'
  <2>1. PICK t \in 0..MaxTime : lastSeq' = NextTime(t, lastSeq)
    BY <1>7 DEF Tick
  <2>2. lastSeq \in Nat /\ t \in Nat
    BY <1>7, ServiceAssumption DEF Tick
  <2>3. lastSeq' \in Nat
    BY <2>1, <2>2, NextTimeBeyond
  <2>4. QED
    BY <1>7, <2>3 DEF Tick
<1>8. ASSUME NEW c \in Clients, WriteClock(c) PROVE BaseInv'
  <2>1. clock' = seq[c] /\ raw' = raw
    BY <1>8, UpsertPending DEF WriteClock
  <2>2. QED
    BY <1>8, <2>1 DEF WriteClock
<1>9. ASSUME NEW c \in Clients, WriteRaw(c) PROVE BaseInv'
  <2>1. /\ clock' = clock
        /\ raw' = [raw EXCEPT ![req[c][1]] = [seq |-> seq[c], body |-> req[c][2]]]
    BY <1>9, UpsertPending DEF WriteRaw
  <2>2. raw' \in [Ids -> Record]
    BY <2>1 DEF Record
  <2>3. QED
    BY <1>9, <2>1, <2>2, ServiceAssumption DEF WriteRaw, Answer
<1>10. ASSUME NEW c \in Clients, Refused(c) PROVE BaseInv'
  BY <1>10, ServiceAssumption DEF Refused
<1>11. ASSUME NEW c \in Clients, AnswerLost(c) PROVE BaseInv'
  <2>1. CASE pc[c] = "clock"
    <3>1. clock' = seq[c] /\ raw' = raw
      BY <1>11, <2>1, UpsertPending DEF AnswerLost
    <3>2. QED
      BY <1>11, <3>1, ServiceAssumption DEF AnswerLost, Answer
  <2>2. CASE pc[c] = "raw"
    <3>1. /\ clock' = clock
          /\ raw' = [raw EXCEPT ![req[c][1]] = [seq |-> seq[c], body |-> req[c][2]]]
      BY <1>11, <2>2, UpsertPending DEF AnswerLost
    <3>2. raw' \in [Ids -> Record]
      BY <3>1 DEF Record
    <3>3. QED
      BY <1>11, <3>1, <3>2, ServiceAssumption DEF AnswerLost, Answer
  <2>3. QED
    BY <1>11, <2>1, <2>2 DEF AnswerLost
<1>12. ASSUME NEW c \in Clients, TimedOut(c) PROVE BaseInv'
  <2>1. Pending(c) \in Write
    BY <1>12 DEF TimedOut, Pending, Write
  <2>2. QED
    BY <1>12, <2>1, ServiceAssumption DEF TimedOut, Answer
<1>13. CASE Crash
  BY <1>13, ServiceAssumption DEF Crash
<1>14. CASE ApplyLate
  <2>1. PICK w \in late : Upsert(w) /\ late' = late \ {w}
    BY <1>14 DEF ApplyLate
  <2>2. raw' \in [Ids -> Record] /\ clock' \in Nat
    BY <2>1 DEF Upsert, Write, Record
  <2>3. QED
    BY <1>14, <2>1, <2>2 DEF ApplyLate
<1>15. ASSUME NEW k \in Consumers, NEW P \in SUBSET Ids, Deliver(k, P) PROVE BaseInv'
  <2>1. PICK h \in {cursor[k]} \cup {raw[i].seq : i \in P} :
            cursor' = [cursor EXCEPT ![k] = h]
    BY <1>15 DEF Deliver
  <2>2. h \in Nat
    BY DEF Record
  <2>3. QED
    BY <1>15, <2>1, <2>2 DEF Deliver
<1>16. ASSUME NEW k \in Consumers, Since(k) PROVE BaseInv'
  BY <1>15, <1>16 DEF Since, SinceOrdered, SinceFallback, Behind, IsScroll
<1>17. ASSUME NEW k \in Consumers, SendAck(k) PROVE BaseInv'
  BY <1>17 DEF SendAck
<1>18. ASSUME NEW m \in acks, Ack(m[1], m[2]) \/ LoseAck(m[1], m[2]) PROVE BaseInv'
  BY <1>18 DEF Ack, LoseAck
<1>19. CASE UNCHANGED vars
  BY <1>19 DEF vars
<1>20. QED
  BY <1>1, <1>2, <1>3, <1>4, <1>5, <1>6, <1>7, <1>8, <1>9, <1>10, <1>11, <1>12,
     <1>13, <1>14, <1>16, <1>17, <1>18, <1>19 DEF Next, Serve, Fault

\* Every variable keeps its type, with or without writes that outlive their
\* callers: service.py never stores or reports a value of another kind.
THEOREM TypeCorrect == Spec => []TypeOK
<1>1. BaseInv => TypeOK
  BY DEF BaseInv
<1>2. QED
  BY BaseInit, BaseStep, <1>1, PTL DEF Spec

-----------------------------------------------------------------------------
(***************************************************************************)
(* Without writes that outlive their callers, the critical section makes   *)
(* the raw collection an ordered stream.  IInv says why: whoever holds the *)
(* lock allocates beyond the durable clock, the clock covers every record  *)
(* and every cursor, and nothing else moves any of them.                   *)
(***************************************************************************)

\* Nobody else writes: the clock covers records and readers, memory covers
\* the clock.
Covered ==
    /\ late = {}
    /\ \A i \in Ids : raw[i].seq <= clock
    /\ \A k \in Consumers : cursor[k] <= clock
    /\ lastSeq # Unloaded => clock <= lastSeq

\* What the holder of the lock knows at each of its awaits.
Allocated ==
    \A c \in Clients :
        /\ pc[c] \in {"load", "tick", "clock", "raw"} => raw[req[c][1]].seq = 0
        /\ pc[c] = "clock" => lastSeq = seq[c] /\ clock < seq[c]
        /\ pc[c] = "raw" => /\ lastSeq = seq[c] /\ clock = seq[c] /\ seq[c] > 0
                            /\ \A i \in Ids : raw[i].seq < seq[c]
                            /\ \A k \in Consumers : cursor[k] < seq[c]

\* Acknowledgements, delivered or on their way, are of cursors reached.
AcksReached ==
    /\ \A k \in Consumers : acked[k] <= cursor[k]
    /\ \A m \in acks : m[2] <= cursor[m[1]]

IInv == /\ BaseInv /\ Covered /\ Allocated /\ AcksReached
        /\ AnsweredPutIsStored /\ SeqUnique /\ NoSkip

\* A page of all that lies behind a cursor leaves nothing before its end.
LEMMA PageIsPrefix ==
    ASSUME NEW P, NEW S, IsPage(P, S), NEW i \in S \ P, NEW j \in P
    PROVE  raw[j].seq <= raw[i].seq
BY DEF IsPage

\* When the fallback's cap is no smaller than the collection, the fallback
\* scrolls all that lies behind the cursor.
LEMMA ScrollIsComplete ==
    ASSUME Cardinality(Ids) <= ScrollCap, NEW M \in SUBSET Ids, NEW S, IsScroll(S, M)
    PROVE  S = M
<1>1. IsFiniteSet(M) /\ Cardinality(M) <= Cardinality(Ids)
  BY FS_Subset, ServiceAssumption
<1>2. Cardinality(M) \in Nat /\ Cardinality(Ids) \in Nat
  BY <1>1, FS_CardinalityType, ServiceAssumption
<1>3. S \subseteq M /\ Cardinality(S) = Cardinality(M)
  BY <1>1, <1>2, ServiceAssumption DEF IsScroll, Least
<1>4. QED
  BY <1>1, <1>3, FS_Subset

LEMMA IInvInit == ~LateWrites /\ Init => IInv
<1> SUFFICES ASSUME ~LateWrites, Init PROVE IInv
  OBVIOUS
<1>1. BaseInv
  BY BaseInit
<1>2. Covered /\ Allocated /\ AcksReached
  BY DEF Init, Covered, Allocated, AcksReached, Absent
<1>3. AnsweredPutIsStored /\ SeqUnique /\ NoSkip
  BY DEF Init, AnsweredPutIsStored, SeqUnique, NoSkip, Absent
<1>4. QED
  BY <1>1, <1>2, <1>3 DEF IInv

\* The steps of a call that leave the store and the readers alone and do not
\* hold an allocated seq afterwards.
LEMMA QuietStep ==
    ASSUME IInv, BaseInv', NEW c \in Clients,
           UNCHANGED <<store, lastSeq, cursor, seen, acked, acks>>,
           \A d \in Clients \ {c} : pc'[d] = pc[d] /\ req'[d] = req[d] /\ seq'[d] = seq[d],
           pc'[c] \in {"idle", "ensure", "wait", "check", "failed"}
    PROVE  IInv'
<1> USE DEF IInv, BaseInv, TypeOK, Unloaded, store
<1>1. Covered' /\ AcksReached'
  BY DEF Covered, AcksReached
<1>2. Allocated'
  BY DEF Allocated
<1>3. AnsweredPutIsStored' /\ SeqUnique' /\ NoSkip'
  BY DEF AnsweredPutIsStored, SeqUnique, NoSkip
<1>4. QED
  BY <1>1, <1>2, <1>3

\* The record upsert, whether its answer arrives or not.
LEMMA RawUpsert ==
    ASSUME IInv, BaseInv', NEW c \in Clients, pc[c] = "raw", clock' = clock,
           raw' = [raw EXCEPT ![req[c][1]] = [seq |-> seq[c], body |-> req[c][2]]],
           UNCHANGED <<late, lastSeq, req, seq, cursor, seen, acked, acks>>,
           NEW a \in {"stored", "failed"}, pc' = [pc EXCEPT ![c] = a]
    PROVE  IInv'
<1> USE DEF IInv, BaseInv, TypeOK, Unloaded
<1>1. /\ raw[req[c][1]].seq = 0 /\ req[c][1] \in Ids /\ seq[c] = clock /\ seq[c] > 0
      /\ \A i \in Ids : raw[i].seq < seq[c]
      /\ \A k \in Consumers : cursor[k] < seq[c]
      /\ raw'[req[c][1]].seq = seq[c] /\ raw'[req[c][1]].body = req[c][2]
      /\ \A i \in Ids \ {req[c][1]} : raw'[i] = raw[i]
  BY DEF Allocated
<1>2. Covered' /\ AcksReached'
  BY <1>1 DEF Covered, AcksReached
<1>3. \A d \in Clients \ {c} : pc'[d] = pc[d] /\ pc[d] \notin Holding
  BY DEF Mutex, Holding
<1>4. Allocated'
  BY <1>3 DEF Allocated, Holding
<1>5. AnsweredPutIsStored'
  BY <1>1 DEF AnsweredPutIsStored
<1>6. SeqUnique' /\ NoSkip'
  BY <1>1 DEF SeqUnique, NoSkip
<1>7. QED
  BY <1>2, <1>4, <1>5, <1>6

\* A page ends at a position no unserved record of the scroll precedes.
LEMMA PageCovers ==
    ASSUME TypeOK, SeqUnique, NEW k \in Consumers, NEW P, IsPage(P, Behind(cursor[k])),
           NEW i \in Ids, raw[i].seq > cursor[k],
           NEW j \in P, raw[i].seq <= raw[j].seq
    PROVE  i \in P
<1> SUFFICES ASSUME i \notin P PROVE FALSE
  OBVIOUS
<1>1. i \in Behind(cursor[k]) \ P /\ P \subseteq Ids
  BY DEF IsPage, Behind
<1>2. raw[j].seq <= raw[i].seq
  BY <1>1, PageIsPrefix
<1>3. raw[i].seq \in Nat /\ raw[j].seq \in Nat /\ cursor[k] \in Nat
  BY <1>1 DEF TypeOK, Record
<1>4. raw[i].seq = raw[j].seq
  BY <1>2, <1>3
<1>5. raw[i].seq = 0
  BY <1>1, <1>4 DEF SeqUnique
<1>6. QED
  BY <1>3, <1>5

\* A page served to a consumer, from a scroll that saw all there was.
LEMMA ServePage ==
    ASSUME IInv, BaseInv', NEW k \in Consumers, NEW P,
           IsPage(P, Behind(cursor[k])), Deliver(k, P)
    PROVE  IInv'
<1>1. P \subseteq Ids /\ P \subseteq Behind(cursor[k])
  BY DEF IsPage, Behind
<1>2. PICK h \in {cursor[k]} \cup {raw[i].seq : i \in P} :
          /\ h >= cursor[k]
          /\ \A i \in P : raw[i].seq <= h
          /\ cursor' = [cursor EXCEPT ![k] = h]
  BY DEF Deliver
<1>3. /\ \A i \in Ids : raw[i].seq \in Nat
      /\ cursor \in [Consumers -> Nat] /\ seen \in [Consumers -> SUBSET Ids] /\ clock \in Nat
  BY DEF IInv, BaseInv, TypeOK, Record
<1>4. h \in Nat /\ (h = cursor[k] \/ \E j \in P : raw[j].seq = h)
  BY <1>1, <1>3
<1>5. /\ UNCHANGED <<raw, clock, late, lastSeq, lock, pc, req, seq, acked, acks>>
      /\ seen' = [seen EXCEPT ![k] = @ \cup P]
  BY DEF Deliver, store, server, acking
<1>6. ASSUME NEW i \in Ids, raw[i].seq # 0, raw[i].seq <= h PROVE i \in seen'[k]
  <2>1. CASE raw[i].seq <= cursor[k]
    BY <1>3, <1>5, <1>6, <2>1 DEF IInv, NoSkip
  <2>2. CASE raw[i].seq > cursor[k]
    <3>1. PICK j \in P : raw[j].seq = h
      BY <1>3, <1>4, <1>6, <2>2
    <3>2. i \in P
      BY <1>6, <2>2, <3>1, PageCovers DEF IInv, BaseInv
    <3>3. QED
      BY <1>3, <1>5, <3>2
  <2>3. QED
    BY <1>3, <2>1, <2>2
<1>7. NoSkip'
  BY <1>2, <1>3, <1>5, <1>6 DEF IInv, NoSkip
<1>8. h <= clock
  BY <1>1, <1>4 DEF IInv, Covered
<1>9. Covered'
  BY <1>2, <1>3, <1>5, <1>8 DEF IInv, Covered
<1>10. AcksReached'
  BY <1>2, <1>3, <1>4, <1>5 DEF IInv, BaseInv, TypeOK, AcksReached
<1>11. Allocated'
  <2>1. ASSUME NEW c \in Clients, pc[c] = "raw" PROVE h < seq[c]
    BY <1>1, <1>4, <2>1 DEF IInv, Allocated
  <2>2. QED
    BY <1>2, <1>3, <1>5, <2>1 DEF IInv, Allocated
<1>12. AnsweredPutIsStored' /\ SeqUnique'
  BY <1>5 DEF IInv, AnsweredPutIsStored, SeqUnique
<1>13. QED
  BY <1>7, <1>9, <1>10, <1>11, <1>12 DEF IInv
-----------------------------------------------------------------------------
\* The deployment the theorems are about: Qdrant applies a write before its
\* caller gives up or not at all, and the fallback of memory_since scrolls the
\* whole collection.
Sealed == ~LateWrites /\ Cardinality(Ids) <= ScrollCap

\* Under the lock, only the holder's own call can be past the check.
LEMMA OthersOutside ==
    ASSUME BaseInv, NEW c \in Clients, pc[c] \in Holding, NEW d \in Clients \ {c}
    PROVE  pc[d] \notin Holding
BY DEF BaseInv, Mutex

LEMMA SincePreserves ==
    ASSUME Sealed, IInv, BaseInv', NEW k \in Consumers, Since(k)
    PROVE  IInv'
<1>1. CASE SinceOrdered(k)
  BY <1>1, ServePage DEF SinceOrdered
<1>2. CASE SinceFallback(k)
  <2>1. PICK S \in SUBSET Behind(cursor[k]) :
            /\ IsScroll(S, Behind(cursor[k]))
            /\ \E P \in SUBSET S : IsPage(P, S) /\ Deliver(k, P)
    BY <1>2 DEF SinceFallback
  <2>2. Behind(cursor[k]) \in SUBSET Ids
    BY DEF Behind
  <2>3. S = Behind(cursor[k])
    BY <2>1, <2>2, ScrollIsComplete DEF Sealed
  <2>4. QED
    BY <2>1, <2>3, ServePage
<1>3. QED
  BY <1>1, <1>2 DEF Since

LEMMA IInvStep == ASSUME Sealed PROVE IInv /\ [Next]_vars => IInv'
<1> SUFFICES ASSUME IInv, [Next]_vars PROVE IInv'
  OBVIOUS
<1>0. BaseInv'
  BY BaseStep DEF IInv
<1>b. TypeOK /\ BaseInv
  BY DEF IInv, BaseInv
<1>1. ASSUME NEW c \in Clients, Call(c) \/ Ensure(c) \/ Acquire(c) \/ Refused(c) PROVE IInv'
  <2>1. /\ UNCHANGED <<store, lastSeq, cursor, seen, acked, acks>>
        /\ \A d \in Clients \ {c} : pc'[d] = pc[d] /\ req'[d] = req[d] /\ seq'[d] = seq[d]
        /\ pc'[c] \in {"idle", "ensure", "wait", "check", "failed"}
    BY <1>1, <1>b DEF Call, Ensure, Acquire, Refused, TypeOK, store, reader, acking, bounds
  <2>2. QED
    BY <1>0, <2>1, QuietStep
<1>2. ASSUME NEW c \in Clients, FindExisting(c) PROVE IInv'
  <2>1. Covered' /\ AcksReached' /\ SeqUnique' /\ NoSkip'
    BY <1>2 DEF IInv, FindExisting, Covered, AcksReached, SeqUnique, NoSkip, store, reader, acking
  <2>2. Allocated' /\ AnsweredPutIsStored'
    BY <1>2, <1>b DEF IInv, FindExisting, Answer, Allocated, AnsweredPutIsStored, TypeOK, store, reader
  <2>3. QED
    BY <1>0, <2>1, <2>2 DEF IInv
<1>3. ASSUME NEW c \in Clients, FindNone(c) PROVE IInv'
  <2>1. Covered' /\ AcksReached' /\ SeqUnique' /\ NoSkip'
    BY <1>3 DEF IInv, FindNone, Covered, AcksReached, SeqUnique, NoSkip, store, reader, acking
  <2>2. Allocated' /\ AnsweredPutIsStored'
    BY <1>3, <1>b DEF IInv, FindNone, Allocated, AnsweredPutIsStored, TypeOK, store, reader
  <2>3. QED
    BY <1>0, <2>1, <2>2 DEF IInv
<1>4. ASSUME NEW c \in Clients, LoadClock(c) PROVE IInv'
  <2>1. \A d \in Clients \ {c} : pc[d] \notin Holding
    BY <1>4, <1>b, OthersOutside DEF LoadClock, Holding
  <2>2. Covered' /\ AcksReached' /\ SeqUnique' /\ NoSkip'
    BY <1>4, <1>b DEF IInv, LoadClock, TypeOK, Covered, AcksReached, SeqUnique, NoSkip, store, reader, acking
  <2>3. Allocated' /\ AnsweredPutIsStored'
    BY <1>4, <1>b, <2>1 DEF IInv, LoadClock, Allocated, AnsweredPutIsStored, TypeOK, Holding, store, reader
  <2>4. QED
    BY <1>0, <2>2, <2>3 DEF IInv
<1>5. ASSUME NEW c \in Clients, Tick(c) PROVE IInv'
  <2>1. \A d \in Clients \ {c} : pc[d] \notin Holding
    BY <1>5, <1>b, OthersOutside DEF Tick, Holding
  <2>2. lastSeq \in Nat
    BY <1>5, <1>b DEF Tick, TypeOK, BaseInv, Loaded
  <2>3. lastSeq' \in Nat /\ lastSeq' > lastSeq
    <3>1. PICK t \in 0..MaxTime : lastSeq' = NextTime(t, lastSeq)
      BY <1>5 DEF Tick
    <3>2. t \in Nat
      BY ServiceAssumption
    <3>3. QED
      BY <2>2, <3>1, <3>2, NextTimeBeyond
  <2>4. Covered' /\ AcksReached' /\ SeqUnique' /\ NoSkip'
    BY <1>5, <1>b, <2>2, <2>3 DEF IInv, Tick, TypeOK, Covered, AcksReached, SeqUnique, NoSkip, Unloaded, store, reader, acking
  <2>5. clock < lastSeq'
    BY <1>b, <2>2, <2>3 DEF IInv, Covered, TypeOK, Unloaded
  <2>6. Allocated' /\ AnsweredPutIsStored'
    BY <1>5, <1>b, <2>1, <2>5 DEF IInv, Tick, Allocated, AnsweredPutIsStored, TypeOK, Holding, store, reader
  <2>7. QED
    BY <1>0, <2>4, <2>6 DEF IInv
<1>6. ASSUME NEW c \in Clients, pc[c] = "clock", clock' = seq[c], raw' = raw,
             UNCHANGED <<late, lastSeq, req, seq, cursor, seen, acked, acks>>,
             NEW a \in {"raw", "failed"}, pc' = [pc EXCEPT ![c] = a]
      PROVE  IInv'
  <2>1. \A d \in Clients \ {c} : pc[d] \notin Holding
    BY <1>6, <1>b, OthersOutside DEF Holding
  <2>2. lastSeq = seq[c] /\ clock < seq[c]
    BY <1>6 DEF IInv, Allocated
  <2>3. Covered' /\ AcksReached' /\ SeqUnique' /\ NoSkip'
    BY <1>6, <1>b, <2>2 DEF IInv, TypeOK, Record, Covered, AcksReached, SeqUnique, NoSkip
  <2>4. /\ \A i \in Ids : raw[i].seq < seq[c]
        /\ \A k \in Consumers : cursor[k] < seq[c]
        /\ seq[c] > 0
    BY <1>b, <2>2 DEF IInv, Covered, TypeOK, Record
  <2>5. Allocated'
    BY <1>6, <1>b, <2>1, <2>2, <2>4 DEF IInv, Allocated, TypeOK, Holding
  <2>6. AnsweredPutIsStored'
    BY <1>6, <1>b DEF IInv, AnsweredPutIsStored, TypeOK
  <2>7. QED
    BY <1>0, <2>3, <2>5, <2>6 DEF IInv
<1>7. ASSUME NEW c \in Clients, WriteClock(c) PROVE IInv'
  <2>1. clock' = seq[c] /\ raw' = raw
    BY <1>7, <1>b, UpsertPending DEF WriteClock
  <2>2. QED
    BY <1>6, <1>7, <2>1 DEF WriteClock, reader, acking
<1>8. ASSUME NEW c \in Clients, WriteRaw(c) PROVE IInv'
  <2>1. /\ clock' = clock
        /\ raw' = [raw EXCEPT ![req[c][1]] = [seq |-> seq[c], body |-> req[c][2]]]
    BY <1>8, <1>b, UpsertPending DEF WriteRaw
  <2>2. QED
    BY <1>0, <1>8, <2>1, RawUpsert DEF WriteRaw, Answer, reader, acking
<1>9. ASSUME NEW c \in Clients, AnswerLost(c) PROVE IInv'
  <2>1. CASE pc[c] = "clock"
    <3>1. clock' = seq[c] /\ raw' = raw
      BY <1>9, <1>b, <2>1, UpsertPending DEF AnswerLost
    <3>2. QED
      BY <1>6, <1>9, <2>1, <3>1 DEF AnswerLost, Answer, reader, acking
  <2>2. CASE pc[c] = "raw"
    <3>1. /\ clock' = clock
          /\ raw' = [raw EXCEPT ![req[c][1]] = [seq |-> seq[c], body |-> req[c][2]]]
      BY <1>9, <1>b, <2>2, UpsertPending DEF AnswerLost
    <3>2. QED
      BY <1>0, <1>9, <2>2, <3>1, RawUpsert DEF AnswerLost, Answer, reader, acking
  <2>3. QED
    BY <1>9, <2>1, <2>2 DEF AnswerLost
<1>10. ASSUME NEW c \in Clients, TimedOut(c) PROVE IInv'
  BY <1>10 DEF TimedOut, Sealed
<1>11. CASE Crash
  <2>1. Covered' /\ AcksReached' /\ SeqUnique' /\ NoSkip'
    BY <1>11 DEF IInv, Crash, Covered, AcksReached, SeqUnique, NoSkip, Unloaded, store, reader, acking
  <2>2. Allocated' /\ AnsweredPutIsStored'
    BY <1>11, <1>b DEF IInv, Crash, Allocated, AnsweredPutIsStored, TypeOK, Answered, store, reader
  <2>3. QED
    BY <1>0, <2>1, <2>2 DEF IInv
<1>12. CASE ApplyLate
  BY <1>12 DEF ApplyLate, IInv, Covered
<1>13. ASSUME NEW k \in Consumers, Since(k) PROVE IInv'
  BY <1>0, <1>13, SincePreserves
<1>14. ASSUME UNCHANGED <<store, lastSeq, pc, req, seq, cursor, seen>>, AcksReached' PROVE IInv'
  BY <1>0, <1>14 DEF IInv, Covered, Allocated, AnsweredPutIsStored, SeqUnique, NoSkip, store
<1>15. ASSUME NEW k \in Consumers, SendAck(k) PROVE IInv'
  <2>1. AcksReached'
    BY <1>15, <1>b DEF IInv, SendAck, AcksReached, TypeOK, reader
  <2>2. QED
    BY <1>14, <1>15, <2>1 DEF SendAck, server, reader
<1>16. ASSUME NEW m \in acks, Ack(m[1], m[2]) \/ LoseAck(m[1], m[2]) PROVE IInv'
  <2>1. m[1] \in Consumers /\ m[2] \in Nat /\ m[2] <= cursor[m[1]]
    BY <1>b DEF IInv, AcksReached, TypeOK
  <2>2. AcksReached'
    BY <1>16, <1>b, <2>1 DEF IInv, Ack, LoseAck, AcksReached, TypeOK, reader
  <2>3. QED
    BY <1>14, <1>16, <2>2 DEF Ack, LoseAck, server, reader
<1>17. CASE UNCHANGED vars
  <2>1. AcksReached'
    BY <1>17 DEF vars, IInv, AcksReached
  <2>2. QED
    BY <1>14, <1>17, <2>1 DEF vars, store
<1>18. QED
  BY <1>1, <1>2, <1>3, <1>4, <1>5, <1>7, <1>8, <1>9, <1>10, <1>11, <1>12, <1>13,
     <1>15, <1>16, <1>17 DEF Next, Serve, Fault

\* The inductive invariant holds in every reachable state of the service.
THEOREM Inductive == ASSUME Sealed PROVE Spec => []IInv
<1>1. Init => IInv
  BY IInvInit DEF Sealed
<1>2. IInv /\ [Next]_vars => IInv'
  BY IInvStep
<1>3. QED
  BY <1>1, <1>2, PTL DEF Spec

\* memory_since never moves a consumer's cursor past a record it did not hand
\* over (service.py:148-167 with the critical section of service.py:72-85).
THEOREM NoReaderSkips == ASSUME Sealed PROVE Spec => []NoSkip
<1>1. IInv => NoSkip
  BY DEF IInv
<1>2. QED
  BY <1>1, Inductive, PTL

\* A put that answered left the record it reported (service.py:76-92).
THEOREM AnsweredIsStored == ASSUME Sealed PROVE Spec => []AnsweredPutIsStored
<1>1. IInv => AnsweredPutIsStored
  BY DEF IInv
<1>2. QED
  BY <1>1, Inductive, PTL

\* The durable clock covers the raw collection, and positions are not reused
\* across restarts and a wall clock that goes back (service.py:51-63).
THEOREM ClockSafe == ASSUME Sealed PROVE Spec => [](ClockCoversRaw /\ SeqUnique)
<1>1. IInv => ClockCoversRaw /\ SeqUnique
  BY DEF IInv, Covered, ClockCoversRaw
<1>2. QED
  BY <1>1, Inductive, PTL

\* What a consumer acknowledged was handed to it.
THEOREM AckedIsDelivered == ASSUME Sealed PROVE Spec => []AckedWasDelivered
<1>1. IInv => AckedWasDelivered
  <2> SUFFICES ASSUME IInv, NEW k \in Consumers, NEW i \in Ids,
                      raw[i].seq # 0, raw[i].seq <= acked[k]
               PROVE  i \in seen[k]
    BY DEF AckedWasDelivered
  <2>1. raw[i].seq \in Nat /\ acked[k] \in Nat /\ cursor[k] \in Nat
    BY DEF IInv, BaseInv, TypeOK, Record
  <2>2. raw[i].seq <= cursor[k]
    BY <2>1 DEF IInv, AcksReached
  <2>3. QED
    BY <2>2 DEF IInv, NoSkip
<1>2. QED
  BY <1>1, Inductive, PTL

-----------------------------------------------------------------------------
\* What a step does to the three variables of the abstract stream.
LEMMA StreamStep == ASSUME Sealed, IInv, [Next]_vars PROVE [Stream!StreamNext]_(Stream!streamVars)
<1>b. TypeOK /\ BaseInv
  BY DEF IInv, BaseInv
<1>1. ASSUME UNCHANGED <<raw, cursor, seen>>
      PROVE  [Stream!StreamNext]_(Stream!streamVars)
  BY <1>1 DEF Stream!streamVars
<1>2. ASSUME NEW c \in Clients, pc[c] = "raw", Upsert(Pending(c)), UNCHANGED <<cursor, seen>>
      PROVE  [Stream!StreamNext]_(Stream!streamVars)
  <2> DEFINE i == req[c][1]
             b == req[c][2]
  <2>1. i \in Ids /\ b \in Bodies
    BY <1>b DEF TypeOK
  <2>2. raw' = [raw EXCEPT ![i] = [seq |-> seq[c], body |-> b]]
    BY <1>2, <1>b, UpsertPending
  <2>3. raw'[i].seq = seq[c]
    BY <1>b, <2>1, <2>2 DEF TypeOK
  <2>4. /\ raw[i].seq = 0
        /\ \A j \in Ids : raw[j].seq < seq[c]
        /\ \A k \in Consumers : cursor[k] < seq[c]
    BY <1>2 DEF IInv, Allocated
  <2>5. Stream!Append(i, b)
    BY <1>2, <2>2, <2>3, <2>4 DEF Stream!Append
  <2>6. QED
    BY <2>1, <2>5 DEF Stream!StreamNext
<1>3. ASSUME NEW k \in Consumers, NEW P, IsPage(P, Behind(cursor[k])), Deliver(k, P)
      PROVE  [Stream!StreamNext]_(Stream!streamVars)
  <2>1. P \subseteq Ids /\ P \subseteq Behind(cursor[k])
    BY <1>3 DEF IsPage, Behind
  <2>2. PICK h \in {cursor[k]} \cup {raw[i].seq : i \in P} :
            /\ h >= cursor[k]
            /\ \A i \in P : raw[i].seq <= h
            /\ cursor' = [cursor EXCEPT ![k] = h]
    BY <1>3 DEF Deliver
  <2>3. raw' = raw /\ seen' = [seen EXCEPT ![k] = @ \cup P]
    BY <1>3 DEF Deliver, store
  <2>4. /\ \A i \in Ids : raw[i].seq \in Nat
        /\ cursor \in [Consumers -> Nat] /\ seen \in [Consumers -> SUBSET Ids]
    BY <1>b DEF TypeOK, Record
  <2>5. CASE h = cursor[k]
    <3>1. P = {}
      BY <2>1, <2>2, <2>4, <2>5 DEF Behind
    <3>2. cursor' = cursor /\ seen' = seen
      BY <2>2, <2>3, <2>4, <2>5, <3>1
    <3>3. QED
      BY <1>1, <2>3, <3>2
  <2>6. CASE h # cursor[k]
    <3>1. PICK j \in P : raw[j].seq = h
      BY <2>2, <2>6
    <3>2. h > cursor[k] /\ h \in {raw[i].seq : i \in Ids}
      BY <2>1, <2>4, <3>1 DEF Behind
    <3>3. P = {i \in Ids : cursor[k] < raw[i].seq /\ raw[i].seq <= h}
      <4>1. ASSUME NEW i \in P PROVE cursor[k] < raw[i].seq /\ raw[i].seq <= h
        BY <2>1, <2>2, <2>4 DEF Behind
      <4>2. ASSUME NEW i \in Ids, cursor[k] < raw[i].seq, raw[i].seq <= h PROVE i \in P
        <5>1. raw[i].seq > cursor[k] /\ raw[i].seq <= raw[j].seq
          BY <2>4, <3>1, <4>2
        <5>2. QED
          BY <1>3, <1>b, <5>1, PageCovers DEF IInv
      <4>3. QED
        BY <2>1, <4>1, <4>2
    <3>4. Stream!Follow(k)
      BY <2>2, <2>3, <3>2, <3>3 DEF Stream!Follow
    <3>5. QED
      BY <3>4 DEF Stream!StreamNext
  <2>7. QED
    BY <2>5, <2>6
<1>4. ASSUME NEW c \in Clients, Call(c) \/ Serve(c) \/ Fault(c)
      PROVE  [Stream!StreamNext]_(Stream!streamVars)
  <2>1. CASE pc[c] = "clock" /\ (WriteClock(c) \/ AnswerLost(c))
    <3>1. raw' = raw
      BY <1>b, <2>1, UpsertPending DEF WriteClock, AnswerLost
    <3>2. QED
      BY <1>1, <2>1, <3>1 DEF WriteClock, AnswerLost, reader
  <2>2. CASE pc[c] = "raw" /\ (WriteRaw(c) \/ AnswerLost(c))
    BY <1>2, <2>2 DEF WriteRaw, AnswerLost, reader
  <2>3. CASE \/ Call(c) \/ Ensure(c) \/ Acquire(c) \/ FindExisting(c) \/ FindNone(c)
             \/ LoadClock(c) \/ Tick(c) \/ Refused(c) \/ TimedOut(c)
    BY <1>1, <2>3 DEF Call, Ensure, Acquire, FindExisting, FindNone, LoadClock, Tick, Refused,
                      TimedOut, store, reader
  <2>4. QED
    BY <1>4, <2>1, <2>2, <2>3 DEF Serve, Fault, WriteClock, WriteRaw, AnswerLost
<1>5. ASSUME NEW k \in Consumers, Since(k)
      PROVE  [Stream!StreamNext]_(Stream!streamVars)
  <2>1. CASE SinceOrdered(k)
    BY <1>3, <2>1 DEF SinceOrdered
  <2>2. CASE SinceFallback(k)
    <3>1. PICK S \in SUBSET Behind(cursor[k]) :
              /\ IsScroll(S, Behind(cursor[k]))
              /\ \E P \in SUBSET S : IsPage(P, S) /\ Deliver(k, P)
      BY <2>2 DEF SinceFallback
    <3>2. S = Behind(cursor[k])
      BY <3>1, ScrollIsComplete DEF Sealed, Behind
    <3>3. QED
      BY <1>3, <3>1, <3>2
  <2>3. QED
    BY <1>5, <2>1, <2>2 DEF Since
<1>6. CASE Crash
  BY <1>1, <1>6 DEF Crash, store, reader
<1>7. CASE ApplyLate
  BY <1>7 DEF ApplyLate, IInv, Covered
<1>8. ASSUME NEW k \in Consumers, SendAck(k)
      PROVE  [Stream!StreamNext]_(Stream!streamVars)
  BY <1>1, <1>8 DEF SendAck, store, reader
<1>9. ASSUME NEW m \in acks, Ack(m[1], m[2]) \/ LoseAck(m[1], m[2])
      PROVE  [Stream!StreamNext]_(Stream!streamVars)
  BY <1>1, <1>9 DEF Ack, LoseAck, store, reader
<1>10. CASE UNCHANGED vars
  BY <1>1, <1>10 DEF vars
<1>11. QED
  BY <1>4, <1>5, <1>6, <1>7, <1>8, <1>9, <1>10 DEF Next

\* The service, with its lock, clock, failures and restarts, implements the
\* append-only stream.
THEOREM Refinement == ASSUME Sealed PROVE Spec => ImplementsStream
<1>1. Init => Stream!StreamInit
  BY DEF Init, Absent, Stream!StreamInit
<1>2. IInv /\ [Next]_vars => [Stream!StreamNext]_(Stream!streamVars)
  BY StreamStep
<1>3. QED
  BY <1>1, <1>2, Inductive, PTL DEF Spec, ImplementsStream, Stream!StreamSpec

\* First writer wins (ARCHITECTURE.md:63): no step changes a stored record.
THEOREM FirstWriterKeeps == ASSUME Sealed PROVE Spec => FirstWriterWins
<1>1. ASSUME IInv, [Next]_vars
      PROVE  [\A i \in Ids : raw[i].seq # 0 => raw'[i] = raw[i]]_vars
  <2>1. [Stream!StreamNext]_(Stream!streamVars)
    BY <1>1, StreamStep
  <2>2. ASSUME NEW j \in Ids, NEW b \in Bodies, Stream!Append(j, b), NEW i \in Ids, raw[i].seq # 0
        PROVE  raw'[i] = raw[i]
    BY <1>1, <2>2 DEF Stream!Append, IInv, BaseInv, TypeOK
  <2>3. ASSUME raw' = raw, NEW i \in Ids PROVE raw'[i] = raw[i]
    BY <2>3
  <2>4. QED
    BY <2>1, <2>2, <2>3 DEF Stream!StreamNext, Stream!streamVars, Stream!Follow
<1>2. QED
  BY <1>1, Inductive, PTL DEF Spec, FirstWriterWins
=============================================================================
