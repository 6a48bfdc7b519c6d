-------------------------- MODULE DailySummaryProofs --------------------------
(***************************************************************************)
(* Proofs about DailySummary, for any number of conversations, days, kills *)
(* and power losses.  A conversation in a state file has its summary, and  *)
(* so has, at its write, the one a run is at; under the lock a run knows   *)
(* all that the state file says.                                           *)
(***************************************************************************)
EXTENDS DailySummary, TLAPS

Locals == {"idle", "files", "qdrant", "lock"}
Locked == {"group", "chunks", "merge", "batches", "final", "put", "write", "fsync"}

Counted(f) == f \in [Keys -> Nat] /\ \A k \in Keys : f[k] <= Length[k]

Types ==
    /\ today \in Nat
    /\ Counted(said) /\ Counted(raw) /\ Counted(pending) /\ Counted(stored)
    /\ sent \in SUBSET Keys /\ state \in SUBSET Keys /\ disk \in SUBSET Keys
    /\ lock \in Runs \cup {None}
    /\ pc \in [Runs -> Locals \cup Locked]
    /\ days \in [Runs -> SUBSET Nat]
    /\ found \in [Runs -> [Keys -> Nat]]
    /\ \A p \in Runs : \A k \in Keys : found[p][k] <= Length[k]
    /\ todo \in [Runs -> SUBSET Keys] /\ completed \in [Runs -> SUBSET Keys]
    /\ parts \in [Runs -> Nat]
    /\ manual \in Nat /\ faults \in Nat

\* A message is said before it is captured.
Heard == \A k \in Keys : raw[k] <= said[k]

\* A run has messages of its day only, and looks at conversations that have some.
Collected ==
    \A p \in Runs :
        /\ pc[p] = "idle" => found[p] = Nothing
        /\ pc[p] \in {"idle", "files", "qdrant"} => todo[p] = {}
        /\ \A k \in Keys : found[p][k] # 0 => k[1] = Day(p)
        /\ \A k \in todo[p] : found[p][k] # 0

\* Under the lock, a run has read what the state file says.
Held == \A p \in Runs : pc[p] \in Locked => lock = p /\ state \subseteq completed[p]

Captured ==
    /\ \A k \in sent : stored[k] # 0
    /\ \A k \in state \cup disk : Summary(k) # 0
    /\ \A p \in Runs : pc[p] \in Locked => \A k \in completed[p] : Summary(k) # 0
    /\ \A p \in Runs : pc[p] = "write" => \A k \in Keys : IsNext(p, k) => Summary(k) # 0

IInv == Types /\ Heard /\ Collected /\ Held /\ Captured

-----------------------------------------------------------------------------
LEMMA RunsDiffer == Timer # Operator /\ None # Timer /\ None # Operator
BY SummaryAssumption DEF Runs

LEMMA NextIsOne ==
    ASSUME IInv, NEW p \in Runs, NEW k \in Keys, NEW g \in Keys, IsNext(p, k), IsNext(p, g)
    PROVE  k = g
<1>1. k \in Nat \X Nat /\ g \in Nat \X Nat
  BY SummaryAssumption
<1>2. k[2] = g[2]
  BY <1>1 DEF IsNext
<1>3. k[1] = g[1]
  BY DEF IInv, Collected, IsNext
<1> QED BY <1>1, <1>2, <1>3

LEMMA InitIInv == Init => IInv
<1> SUFFICES ASSUME Init PROVE IInv
  OBVIOUS
<1>1. Types
  BY SummaryAssumption DEF Init, Types, Counted, Nothing, Locals, Locked
<1>2. Heard /\ Collected /\ Held /\ Captured
  BY DEF Init, Heard, Collected, Held, Captured, Nothing, Locked, Summary
<1> QED BY <1>1, <1>2 DEF IInv

\* The summary a reader finds changes in one way only: it is the first.
LEMMA SummaryIsFirst ==
    ASSUME IInv, [Next]_vars
    PROVE  \A k \in Keys : Summary(k)' = Summary(k) \/
               (Summary(k) = 0 /\ Summary(k)' # 0 /\ \E p \in Runs : Put(p, k))
<1> SUFFICES ASSUME NEW k \in Keys,
                    ~(Summary(k) = 0 /\ Summary(k)' # 0 /\ \E p \in Runs : Put(p, k))
             PROVE  Summary(k)' = Summary(k)
  OBVIOUS
<1>1. ASSUME UNCHANGED <<pending, stored>> PROVE Summary(k)' = Summary(k)
  BY <1>1 DEF Summary
<1>2. ASSUME NEW g \in Keys, Deliver(g) PROVE Summary(k)' = Summary(k)
  BY <1>2 DEF Deliver, Summary, IInv, Types, Counted
<1>3. ASSUME NEW p \in Runs, NEW g \in Keys, Put(p, g) PROVE Summary(k)' = Summary(k)
  <2>1. found[p][g] # 0 /\ (g \in sent => stored[g] # 0)
    BY <1>3 DEF Put, IsNext, IInv, Collected, Captured
  <2>2. CASE g = k
    BY <1>3, <2>1, <2>2 DEF Put, Summary, IInv, Types, Counted
  <2>3. CASE g # k
    BY <1>3, <2>3 DEF Put, Summary, IInv, Types, Counted
  <2> QED BY <2>2, <2>3
<1>4. CASE UNCHANGED vars
  BY <1>1, <1>4 DEF vars
<1>5. ASSUME NEW p \in Runs, Step(p) PROVE Summary(k)' = Summary(k)
  <2>1. \/ UNCHANGED <<pending, stored>> \/ \E g \in Keys : Put(p, g)
    BY <1>5 DEF Step, CollectFiles, CollectRaw, Lock, LeaveUnlocked, EndDay, Skip, Summarise,
                AnswerRound, Batch, AnswerFinal, WriteState, SyncState, spool
  <2> QED BY <1>1, <1>3, <2>1
<1> QED
  BY <1>1, <1>2, <1>4, <1>5
  DEF Next, Say, Capture, PruneReceipt, Midnight, StartTimer, StartOperator, Start, GiveUp, Kill,
      PowerLoss, LoseState, spool

-----------------------------------------------------------------------------
LEMMA LeaveInv ==
    ASSUME IInv, NEW p \in Runs, LeaveDay(p), UNCHANGED <<source, spool, statefile>>,
           UNCHANGED bounds \/ Faulty,
           (lock' = lock /\ pc[p] = "lock") \/ (lock' = None /\ pc[p] \in Locked)
    PROVE  IInv'
<1>1. Types'
  BY SummaryAssumption
  DEF LeaveDay, Goto, Nothing, IInv, Types, Counted, Locals, Locked, source, spool, statefile, bounds, Faulty
<1>2. Heard'
  BY DEF IInv, Heard, source
<1>3. pc' = [pc EXCEPT ![p] = pc'[p]] /\ pc'[p] \in {"idle", "files"}
  BY DEF LeaveDay, Goto, IInv, Types
<1>4. Collected'
  <2> SUFFICES ASSUME NEW q \in Runs
               PROVE  /\ pc'[q] = "idle" => found'[q] = Nothing
                      /\ pc'[q] \in {"idle", "files", "qdrant"} => todo'[q] = {}
                      /\ \A k \in Keys : found'[q][k] # 0 => k[1] = Day(q)'
                      /\ \A k \in todo'[q] : found'[q][k] # 0
    BY DEF Collected
  <2>1. CASE q = p
    BY <2>1 DEF LeaveDay, Nothing, IInv, Types
  <2>2. CASE q # p
    <3>1. days'[q] = days[q] /\ found'[q] = found[q] /\ todo'[q] = todo[q] /\ pc'[q] = pc[q]
      BY <1>3, <2>2 DEF LeaveDay, IInv, Types
    <3> QED BY <3>1 DEF IInv, Collected, Day
  <2> QED BY <2>1, <2>2
<1>5. \A q \in Runs : pc'[q] \in Locked =>
          pc[q] \in Locked /\ q # p /\ completed'[q] = completed[q] /\ todo'[q] = todo[q] /\ pc'[q] = pc[q]
  BY <1>3 DEF LeaveDay, IInv, Types, Locked
<1>6. Held'
  BY <1>5, RunsDiffer DEF IInv, Held, statefile, Locked, Runs
<1>7. Captured'
  BY <1>5 DEF IInv, Captured, Summary, spool, statefile, IsNext, Locked
<1> QED BY <1>1, <1>2, <1>4, <1>6, <1>7 DEF IInv

\* A run goes on under its lock, at the same conversations or one fewer.
LEMMA LockedInv ==
    ASSUME IInv, NEW p \in Runs, pc[p] \in Locked,
           NEW l \in Locked \ {"write"}, pc' = [pc EXCEPT ![p] = l],
           UNCHANGED <<source, spool, lock, days, found, completed>>,
           state' = state, disk' \in {disk, state},
           NEW T \in SUBSET todo[p], todo' = [todo EXCEPT ![p] = T],
           parts' \in [Runs -> Nat], manual' \in Nat, faults' \in Nat
    PROVE  IInv'
<1>1. Types'
  BY DEF IInv, Types, Counted, Locked, source, spool
<1>2. Heard' /\ Held'
  BY DEF IInv, Types, Heard, Held, source
<1>3. Collected'
  BY DEF IInv, Types, Collected, Day, Locked
<1>4. Captured'
  BY DEF IInv, Types, Captured, Summary, spool, IsNext
<1> QED BY <1>1, <1>2, <1>3, <1>4 DEF IInv

LEMMA StepInv == ASSUME IInv, NEW p \in Runs, Step(p) PROVE IInv'
<1>1. CASE CollectFiles(p)
  <2> PICK unread \in SUBSET (Talks(p) \cap Transcripts) :
        /\ IF unread = {} THEN UNCHANGED bounds ELSE Faulty
        /\ found' = [found EXCEPT ![p] =
                [k \in Keys |-> IF k \in (Talks(p) \cap Transcripts) \ unread THEN said[k] ELSE 0]]
    BY <1>1 DEF CollectFiles
  <2>1. Types'
    BY <1>1, SummaryAssumption
    DEF CollectFiles, Goto, IInv, Types, Counted, Locals, Locked, source, spool, statefile, bounds, Faulty
  <2>2. Heard' /\ Held'
    BY <1>1 DEF CollectFiles, Goto, IInv, Types, Heard, Held, Locked, source, statefile
  <2>3. Collected'
    <3>1. \A k \in Keys : found'[p][k] # 0 => k[1] = Day(p)
      BY DEF IInv, Types, Talks
    <3>2. todo'[p] = {} /\ pc'[p] = "qdrant" /\ days' = days
      BY <1>1 DEF CollectFiles, Goto, IInv, Types, Collected
    <3>3. \A q \in Runs : q # p => found'[q] = found[q] /\ todo'[q] = todo[q] /\ pc'[q] = pc[q]
      BY <1>1 DEF CollectFiles, Goto, IInv, Types
    <3> QED BY <3>1, <3>2, <3>3 DEF IInv, Collected, Day
  <2>4. Captured'
    BY <1>1 DEF CollectFiles, Goto, IInv, Types, Captured, Summary, IsNext, Locked, spool, statefile
  <2> QED BY <2>1, <2>2, <2>3, <2>4 DEF IInv
<1>2. CASE CollectRaw(p)
  <2> DEFINE merged == [k \in Keys |-> IF k \in Talks(p) /\ found[p][k] = 0 THEN raw[k] ELSE found[p][k]]
  <2>a. merged \in [Keys -> Nat] /\ \A k \in Keys : merged[k] <= Length[k]
    BY DEF IInv, Types, Counted
  <2>b. found' = found \/ found' = [found EXCEPT ![p] = merged]
    BY <1>2 DEF CollectRaw
  <2>1. /\ found' \in [Runs -> [Keys -> Nat]]
        /\ \A q \in Runs : q # p => found'[q] = found[q]
        /\ found'[p] = found[p] \/ found'[p] = merged
    BY <2>a, <2>b DEF IInv, Types
  <2>2. \A q \in Runs : \A k \in Keys : found'[q][k] <= Length[k]
    BY <2>a, <2>1 DEF IInv, Types
  <2>c. /\ todo' \in [Runs -> SUBSET Keys]
        /\ \A q \in Runs : q # p => todo'[q] = todo[q]
        /\ \A k \in todo'[p] : found'[p][k] # 0
    BY <1>2 DEF CollectRaw, First, IInv, Types
  <2>d. manual' \in Nat /\ faults' \in Nat
    BY <1>2 DEF CollectRaw, bounds, Faulty, IInv, Types
  <2>3. Types'
    BY <1>2, <2>1, <2>2, <2>c, <2>d
    DEF CollectRaw, Goto, IInv, Types, Counted, Locals, Locked, source, spool, statefile
  <2>4. Heard' /\ Held'
    BY <1>2 DEF CollectRaw, Goto, IInv, Types, Heard, Held, Locked, source, statefile
  <2>5. Collected'
    <3>1. \A k \in Keys : found'[p][k] # 0 => k[1] = Day(p)
      BY <2>1 DEF IInv, Collected, Talks
    <3>2. days' = days /\ pc'[p] = "lock" /\ \A q \in Runs : q # p => pc'[q] = pc[q]
      BY <1>2 DEF CollectRaw, Goto, IInv, Types
    <3> QED BY <2>1, <2>c, <3>1, <3>2 DEF IInv, Collected, Day
  <2>6. Captured'
    BY <1>2 DEF CollectRaw, Goto, IInv, Types, Captured, Summary, IsNext, Locked, spool, statefile
  <2> QED BY <2>3, <2>4, <2>5, <2>6 DEF IInv
<1>3. CASE Lock(p)
  <2>1. Types'
    BY <1>3 DEF Lock, Goto, IInv, Types, Counted, Locals, Locked, source, spool, statefile, bounds
  <2>2. Heard' /\ Held'
    BY <1>3, RunsDiffer DEF Lock, Goto, IInv, Types, Heard, Held, source, statefile, Runs
  <2>3. Collected'
    BY <1>3 DEF Lock, Goto, IInv, Types, Collected, Day
  <2>4. Captured'
    BY <1>3 DEF Lock, Goto, IInv, Types, Captured, Summary, IsNext, spool, statefile
  <2> QED BY <2>1, <2>2, <2>3, <2>4 DEF IInv
<1>4. CASE LeaveUnlocked(p)
  <2>1. LeaveDay(p)
    BY <1>4 DEF LeaveUnlocked
  <2>2. UNCHANGED <<source, spool, statefile>>
    BY <1>4 DEF LeaveUnlocked
  <2>3. UNCHANGED bounds \/ Faulty
    BY <1>4 DEF LeaveUnlocked
  <2>4. lock' = lock /\ pc[p] = "lock"
    BY <1>4 DEF LeaveUnlocked
  <2> QED BY <2>1, <2>2, <2>3, <2>4, LeaveInv
<1>5. CASE EndDay(p)
  BY <1>5, LeaveInv DEF EndDay, Locked
<1>6. ASSUME NEW k \in Keys, Skip(p, k) PROVE IInv'
  <2> DEFINE T == todo[p] \ {k}
  <2>1. pc' = [pc EXCEPT ![p] = "group"] /\ T \in SUBSET todo[p] /\ todo' = [todo EXCEPT ![p] = T]
    BY <1>6 DEF Skip, IInv, Types
  <2> QED BY <1>6, <2>1, LockedInv DEF Skip, Locked, statefile, bounds, IInv, Types
<1>7. ASSUME NEW k \in Keys, Summarise(p, k) PROVE IInv'
  <2>1. PICK l \in Locked \ {"write"} : pc' = [pc EXCEPT ![p] = l]
    BY <1>7 DEF Summarise, Goto, Locked
  <2>2. parts' \in [Runs -> Nat]
    BY <1>7, SummaryAssumption DEF Summarise, IInv, Types
  <2>3. todo[p] \in SUBSET todo[p] /\ todo' = [todo EXCEPT ![p] = todo[p]]
    BY <1>7 DEF Summarise, IInv, Types
  <2> QED BY <1>7, <2>1, <2>2, <2>3, LockedInv DEF Summarise, Locked, statefile, bounds, IInv, Types
<1>8. ASSUME NEW k \in Keys, AnswerRound(p, k) PROVE IInv'
  <2>1. todo[p] \in SUBSET todo[p] /\ todo' = [todo EXCEPT ![p] = todo[p]]
    BY <1>8 DEF AnswerRound, IInv, Types
  <2> QED BY <1>8, <2>1, LockedInv DEF AnswerRound, Goto, Locked, statefile, bounds, IInv, Types
<1>9. ASSUME NEW k \in Keys, Batch(p, k) PROVE IInv'
  <2>1. PICK l \in Locked \ {"write"} : pc' = [pc EXCEPT ![p] = l]
    BY <1>9 DEF Batch, Goto, Locked
  <2>2. parts' \in [Runs -> Nat]
    BY <1>9 DEF Batch, Batches, IInv, Types
  <2>3. todo[p] \in SUBSET todo[p] /\ todo' = [todo EXCEPT ![p] = todo[p]]
    BY <1>9 DEF Batch, IInv, Types
  <2> QED BY <1>9, <2>1, <2>2, <2>3, LockedInv DEF Batch, Locked, statefile, bounds, IInv, Types
<1>10. ASSUME NEW k \in Keys, AnswerFinal(p, k) PROVE IInv'
  <2>1. todo[p] \in SUBSET todo[p] /\ todo' = [todo EXCEPT ![p] = todo[p]]
    BY <1>10 DEF AnswerFinal, IInv, Types
  <2> QED BY <1>10, <2>1, LockedInv DEF AnswerFinal, Goto, Locked, statefile, bounds, IInv, Types
<1>11. ASSUME NEW k \in Keys, Put(p, k) PROVE IInv'
  <2>1. Types'
    <3>1. Counted(pending)'
      <4>1. found[p][k] \in Nat /\ found[p][k] <= Length[k]
        BY DEF IInv, Types
      <4> DEFINE f == [pending EXCEPT ![k] = found[p][k]]
      <4>2. pending \in [Keys -> Nat] /\ \A g \in Keys : pending[g] <= Length[g]
        BY DEF IInv, Types, Counted
      <4>3. f \in [Keys -> Nat] /\ \A g \in Keys : f[g] <= Length[g]
        BY <4>1, <4>2
      <4> QED BY <1>11, <4>2, <4>3 DEF Put, Counted
    <3>2. pc' \in [Runs -> Locals \cup Locked]
      BY <1>11 DEF Put, Goto, IInv, Types, Locked
    <3> QED BY <1>11, <3>1, <3>2 DEF Put, IInv, Types, Counted, source, statefile, bounds
  <2>2. Heard' /\ Held'
    BY <1>11 DEF Put, Goto, IInv, Types, Heard, Held, Locked, source, statefile
  <2>3. Collected'
    BY <1>11 DEF Put, Goto, IInv, Types, Collected, Day
  <2>4. \A g \in Keys : Summary(g) # 0 => Summary(g)' # 0
    BY <1>11 DEF Put, Summary, IInv, Types, Counted
  <2>5. Summary(k)' # 0
    BY <1>11 DEF Put, Summary, IsNext, IInv, Types, Counted, Collected, Captured
  <2>6. \A g \in Keys : IsNext(p, g) => g = k
    BY <1>11, NextIsOne DEF Put
  <2>7. Captured'
    BY <1>11, <2>4, <2>5, <2>6, RunsDiffer
    DEF Put, Goto, IInv, Types, Captured, Held, IsNext, Locked, statefile
  <2> QED BY <2>1, <2>2, <2>3, <2>7 DEF IInv
<1>12. ASSUME NEW k \in Keys, WriteState(p, k) PROVE IInv'
  <2>1. Types'
    BY <1>12 DEF WriteState, Goto, IInv, Types, Counted, Locals, Locked, source, spool, bounds
  <2>2. completed' = [completed EXCEPT ![p] = completed[p] \cup {k}] /\ state' = completed[p] \cup {k}
    BY <1>12 DEF WriteState, IInv, Types
  <2>3. Heard' /\ Held'
    BY <1>12, <2>2 DEF WriteState, Goto, IInv, Types, Heard, Held, Locked, source
  <2>4. Collected'
    BY <1>12 DEF WriteState, Goto, IInv, Types, Collected, Day
  <2>5. Summary(k) # 0
    BY <1>12 DEF WriteState, IInv, Captured
  <2>6. Captured'
    BY <1>12, <2>2, <2>5 DEF WriteState, Goto, IInv, Types, Captured, Held, Summary, IsNext, Locked, spool
  <2> QED BY <2>1, <2>3, <2>4, <2>6 DEF IInv
<1>13. ASSUME NEW k \in Keys, SyncState(p, k) PROVE IInv'
  <2> DEFINE T == todo[p] \ {k}
  <2>1. T \in SUBSET todo[p] /\ todo' = [todo EXCEPT ![p] = T]
    BY <1>13 DEF SyncState, IInv, Types
  <2>2. manual' \in Nat /\ faults' \in Nat
    BY <1>13 DEF SyncState, Faulty, bounds, IInv, Types
  <2> QED BY <1>13, <2>1, <2>2, LockedInv DEF SyncState, Goto, Locked, IInv, Types
<1> QED
  BY <1>1, <1>2, <1>3, <1>4, <1>5, <1>6, <1>7, <1>8, <1>9, <1>10, <1>11, <1>12, <1>13 DEF Step

-----------------------------------------------------------------------------
\* Around the runs: people talk, messages are captured, summaries delivered.
LEMMA AroundInv ==
    ASSUME IInv, NEW k \in Keys, Say(k) \/ Capture(k) \/ Deliver(k) \/ PruneReceipt(k) \/ Midnight
    PROVE  IInv'
<1>0. said[k] \in Nat /\ raw[k] \in Nat /\ Length[k] \in Nat /\ said[k] <= Length[k]
  BY SummaryAssumption DEF IInv, Types, Counted
<1>1. Types'
  <2>1. CASE Say(k)
    <3>1. said[k] + 1 \in Nat /\ said[k] + 1 <= Length[k]
      BY <1>0, <2>1 DEF Say
    <3> QED BY <2>1, <3>1 DEF Say, IInv, Types, Counted, spool, statefile, bounds
  <2>2. CASE Capture(k)
    <3>1. raw[k] + 1 \in Nat /\ raw[k] + 1 <= Length[k]
      BY <1>0, <2>2 DEF Capture
    <3> QED BY <2>2, <3>1 DEF Capture, IInv, Types, Counted, spool, statefile, bounds
  <2>3. CASE Deliver(k)
    <3> DEFINE p == [pending EXCEPT ![k] = 0]
    <3> DEFINE s == IF stored[k] = 0 THEN [stored EXCEPT ![k] = pending[k]] ELSE stored
    <3>1. pending \in [Keys -> Nat] /\ \A g \in Keys : pending[g] <= Length[g]
      BY DEF IInv, Types, Counted
    <3>2. stored \in [Keys -> Nat] /\ \A g \in Keys : stored[g] <= Length[g]
      BY DEF IInv, Types, Counted
    <3>3. p \in [Keys -> Nat] /\ \A g \in Keys : p[g] <= Length[g]
      BY <3>1, SummaryAssumption
    <3>4. s \in [Keys -> Nat] /\ \A g \in Keys : s[g] <= Length[g]
      BY <3>1, <3>2
    <3>5. pending' = p /\ stored' = s
      BY <2>3 DEF Deliver
    <3> QED BY <2>3, <3>3, <3>4, <3>5 DEF Deliver, IInv, Types, Counted, source, statefile, bounds
  <2>4. CASE PruneReceipt(k)
    BY <2>4 DEF PruneReceipt, IInv, Types, Counted, source, statefile, bounds
  <2>5. CASE Midnight
    BY <2>5 DEF Midnight, IInv, Types, Counted, spool, statefile, bounds
  <2> QED BY <2>1, <2>2, <2>3, <2>4, <2>5
<1>2. Heard'
  BY DEF Say, Capture, Deliver, PruneReceipt, Midnight, IInv, Types, Counted, Heard, source
<1>3. UNCHANGED <<pc, lock, days, found, todo, completed, state, disk>>
  BY DEF Say, Capture, Deliver, PruneReceipt, Midnight, statefile
<1>4. Collected' /\ Held'
  BY <1>3 DEF IInv, Collected, Held, Day
<1>5. \A g \in Keys : Summary(g) # 0 => Summary(g)' # 0
  BY DEF Say, Capture, Deliver, PruneReceipt, Midnight, IInv, Types, Counted, Summary, spool
<1>6. \A g \in sent' : stored'[g] # 0
  BY DEF Say, Capture, Deliver, PruneReceipt, Midnight, IInv, Types, Counted, Captured, spool
<1>7. Captured'
  BY <1>3, <1>5, <1>6 DEF IInv, Types, Captured, IsNext
<1> QED BY <1>1, <1>2, <1>4, <1>7 DEF IInv

\* An idle run has collected nothing, whatever days it is about next.
LEMMA StartInv == ASSUME IInv, StartTimer \/ StartOperator PROVE IInv'
<1>1. PICK p \in Runs, target \in Int : Start(p, target)
  BY DEF StartTimer, StartOperator, Runs, IInv, Types
<1>2. manual' \in Nat
  BY DEF StartTimer, StartOperator, IInv, Types
<1>3. days' \in [Runs -> SUBSET Nat] /\ \A q \in Runs : q # p => days'[q] = days[q]
  BY <1>1 DEF Start, IInv, Types
<1>4. pc[p] = "idle" /\ pc' = [pc EXCEPT ![p] = "files"]
  BY <1>1 DEF Start, Goto
<1>5. Types'
  BY <1>1, <1>2, <1>3, <1>4 DEF Start, IInv, Types, Counted, Locals, source, spool, statefile
<1>6. UNCHANGED <<source, spool, statefile, lock, found, todo, completed>>
  BY <1>1 DEF Start
<1>7. Heard' /\ Held'
  BY <1>4, <1>6 DEF IInv, Types, Heard, Held, Locked, source, statefile
<1>8. Collected'
  <2>1. \A g \in Keys : found[p][g] = 0
    BY <1>4 DEF IInv, Collected, Nothing
  <2> QED BY <1>3, <1>4, <1>6, <2>1 DEF IInv, Types, Collected, Day
<1>9. Captured'
  BY <1>4, <1>6 DEF IInv, Types, Captured, Summary, IsNext, Locked, spool, statefile
<1> QED BY <1>5, <1>7, <1>8, <1>9 DEF IInv

LEMMA GiveUpInv == ASSUME IInv, NEW p \in Runs, GiveUp(p) PROVE IInv'
<1>1. LeaveDay(p) /\ lock' = None /\ pc[p] \in Locked
  BY DEF GiveUp, Locked
<1>2. UNCHANGED <<source, spool, statefile>>
  BY DEF GiveUp
<1>3. UNCHANGED bounds \/ Faulty
  BY DEF GiveUp
<1> QED BY <1>1, <1>2, <1>3, LeaveInv

\* What is killed forgets, and so do all runs when the power goes.
LEMMA ForgetInv ==
    ASSUME IInv, NEW D \in SUBSET Runs, Forget(D), Faulty, UNCHANGED <<source, spool>>,
           state' \in {state, disk}, disk' \in {state', disk},
           D = Runs \/ state' = state
    PROVE  IInv'
<1>1. Types'
  BY SummaryAssumption
  DEF Forget, Faulty, Nothing, IInv, Types, Counted, Locals, source, spool
<1>2. Heard'
  BY DEF IInv, Heard, source
<1>3. \A q \in Runs :
          IF q \in D THEN pc'[q] = "idle" /\ found'[q] = Nothing /\ todo'[q] = {}
          ELSE /\ pc'[q] = pc[q] /\ days'[q] = days[q] /\ found'[q] = found[q]
               /\ todo'[q] = todo[q] /\ completed'[q] = completed[q]
  BY DEF Forget
<1>4. Collected'
  BY <1>3 DEF IInv, Collected, Day, Nothing
<1>5. Held'
  BY <1>3 DEF Forget, IInv, Held, Locked
<1>6. Captured'
  BY <1>3 DEF IInv, Captured, Summary, IsNext, Locked, spool
<1> QED BY <1>1, <1>2, <1>4, <1>5, <1>6 DEF IInv

LEMMA LoseInv == ASSUME IInv, LoseState PROVE IInv'
<1>1. Types'
  BY DEF LoseState, Faulty, IInv, Types, Counted, source, spool
<1>2. Heard' /\ Collected' /\ Held'
  BY DEF LoseState, IInv, Heard, Collected, Held, Day, source
<1>3. Captured'
  BY DEF LoseState, IInv, Captured, Summary, IsNext, spool
<1> QED BY <1>1, <1>2, <1>3 DEF IInv

LEMMA NextInv == ASSUME IInv, [Next]_vars PROVE IInv'
<1>1. CASE UNCHANGED vars
  <2>1. Types'
    BY <1>1 DEF vars, IInv, Types, Counted
  <2>2. Heard' /\ Collected' /\ Held' /\ Captured'
    BY <1>1 DEF vars, IInv, Heard, Collected, Held, Captured, Day, Summary, IsNext
  <2> QED BY <2>1, <2>2 DEF IInv
<1>2. CASE Midnight
  <2>1. Types'
    BY <1>2 DEF Midnight, IInv, Types, Counted, spool, statefile, bounds
  <2>2. Heard' /\ Collected' /\ Held' /\ Captured'
    BY <1>2
    DEF Midnight, IInv, Heard, Collected, Held, Captured, Day, Summary, IsNext, spool, statefile, bounds
  <2> QED BY <2>1, <2>2 DEF IInv
<1>3. ASSUME NEW p \in Runs, Kill(p) PROVE IInv'
  <2>1. Forget({p}) /\ Faulty /\ UNCHANGED <<source, spool>> /\ state' = state /\ disk' = disk
    BY <1>3 DEF Kill, statefile
  <2>2. {p} \in SUBSET Runs
    OBVIOUS
  <2> QED BY <2>1, <2>2, ForgetInv
<1>4. CASE PowerLoss
  BY <1>4, ForgetInv DEF PowerLoss
<1> QED
  BY <1>1, <1>2, <1>3, <1>4, AroundInv, StartInv, StepInv, GiveUpInv, LoseInv DEF Next

\* The invariant of the whole: what follows rests on it.
THEOREM Inductive == Spec => []IInv
<1> QED BY InitIInv, NextInv, PTL DEF Spec

-----------------------------------------------------------------------------
\* Every variable holds what the code may put there (DailySummary.TypeOK).
THEOREM SummaryTypes == Spec => []TypeOK
<1>1. ASSUME NEW n \in Nat, NEW k \in Keys, n <= Length[k] PROVE n \in Turns \cup {0}
  <2>1. n = 0 \/ n \in 1..Length[k]
    BY <1>1, SummaryAssumption
  <2> QED BY <2>1 DEF Turns
<1>2. ASSUME NEW f, Counted(f) PROVE f \in [Keys -> Turns \cup {0}]
  BY <1>1, <1>2 DEF Counted
<1>3. ASSUME Types PROVE found \in [Runs -> [Keys -> Turns \cup {0}]]
  BY <1>1, <1>3 DEF Types
<1>4. ASSUME IInv PROVE TypeOK
  BY <1>2, <1>3, <1>4 DEF IInv, Types, TypeOK, Locals, Locked
<1> QED BY <1>4, Inductive, PTL

\* A conversation the state file calls completed has its summary, whatever was
\* killed between the spool and the state file (daily_summary.py:758-766).
THEOREM CompletedHasSummary == Spec => []CompletedIsCaptured
<1>1. IInv => CompletedIsCaptured
  BY DEF IInv, Captured, CompletedIsCaptured
<1> QED BY <1>1, Inductive, PTL

\* An entry of the state file goes only with a failure: the lock keeps a run from
\* writing back a state it read before another run wrote (lines 647-662).
THEOREM EntriesStayed == Spec => EntriesStay
<1>1. ASSUME IInv, [Next]_vars PROVE [state \subseteq state' \/ faults' # faults]_vars
  <2>1. ASSUME NEW p \in Runs, NEW k \in Keys, WriteState(p, k) PROVE state \subseteq state'
    BY <1>1, <2>1 DEF WriteState, IInv, Types, Held, Locked
  <2>2. ASSUME Faulty PROVE faults' # faults
    BY <1>1, <2>2 DEF Faulty, IInv, Types
  <2>3. ASSUME NEW p \in Runs, Step(p) PROVE state \subseteq state' \/ faults' # faults
    BY <2>1, <2>3
    DEF Step, CollectFiles, CollectRaw, Lock, LeaveUnlocked, EndDay, Skip, Summarise,
        AnswerRound, Batch, AnswerFinal, Put, SyncState, statefile
  <2>4. ASSUME NEW p \in Runs, GiveUp(p) \/ Kill(p) PROVE state \subseteq state'
    BY <2>4 DEF GiveUp, Kill, statefile
  <2>5. ASSUME PowerLoss \/ LoseState PROVE faults' # faults
    BY <2>2, <2>5 DEF PowerLoss, LoseState
  <2> QED
    BY <1>1, <2>3, <2>4, <2>5
    DEF Next, Say, Capture, Deliver, PruneReceipt, Midnight, StartTimer, StartOperator, Start, statefile
<1> QED BY <1>1, Inductive, PTL DEF Spec, EntriesStay

\* The runs, the spool and the server together implement a store that keeps what
\* is first written under a key: every step writes the first summary of one
\* conversation, or none.
THEOREM WrittenOnce == Spec => SummarisedOnce
<1> DEFINE summaries == [k \in Keys |-> Summary(k)]
<1>1. ASSUME Init PROVE Once!OnceInit
  BY <1>1 DEF Init, Once!OnceInit, Summary, Nothing
<1>2. ASSUME IInv, [Next]_vars PROVE [Once!OnceNext]_summaries
  <2>1. CASE \A k \in Keys : Summary(k)' = Summary(k)
    BY <2>1
  <2>2. ASSUME NEW k \in Keys, NEW p \in Runs, Put(p, k), Summary(k) = 0, Summary(k)' # 0
        PROVE  Once!OnceNext
    <3>1. pending'[k] = found[p][k] /\ Summary(k)' = found[p][k]
      BY <1>2, <2>2 DEF Put, Summary, IInv, Types, Counted
    <3>2. found[p][k] \in Turns
      BY <1>2, <2>2, <3>1, SummaryAssumption DEF IInv, Types, Turns
    <3>3. \A g \in Keys : g # k => Summary(g)' = Summary(g)
      BY <1>2, <2>2 DEF Put, Summary, IInv, Types, Counted
    <3>4. summaries' = [summaries EXCEPT ![k] = found[p][k]]
      BY <3>1, <3>3
    <3>5. Once!Write(k, found[p][k])
      BY <2>2, <3>4 DEF Once!Write
    <3> QED BY <3>2, <3>5 DEF Once!OnceNext
  <2> QED BY <1>2, <2>1, <2>2, SummaryIsFirst
<1> QED BY <1>1, <1>2, Inductive, PTL DEF Spec, SummarisedOnce, Once!OnceSpec
=============================================================================
