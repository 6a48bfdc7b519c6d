----------------------------- MODULE IndexWorker -----------------------------
(***************************************************************************)
(* Asynchronous indexing (MemoryService.index_pending, called by the       *)
(* worker daemon and by index-once): pages through the raw collection for  *)
(* records that are not marked indexed, embeds each, writes its vector to  *)
(* the fallback collection of the embedding's model and dimension, and     *)
(* marks the record.                                                       *)
(*                                                                         *)
(* Records arrive while a pass pages; every HTTP call may fail or lose its *)
(* answer; a worker restarts, with another model or the same; a fallback   *)
(* collection is disposable and may be dropped at any time.                *)
(***************************************************************************)
EXTENDS Naturals, FiniteSets, FiniteSetsExt

CONSTANTS
    RecordCount, \* records are numbered in the order in which scroll lists them
    Poison,      \* records that the embedding provider always refuses
    Models,      \* embedding models
    Dims,        \* dimensions the provider returns
    Workers,     \* processes that run index_pending
    None,        \* no collection: the record is pending
    PageSize,    \* points of a page of scroll
    Limit,       \* limit of a pass
    MaxFailures  \* bound: failed calls, late puts, restarts and drops

Records == 1..RecordCount

\* The space a vector is in: the model and dimension it was made with.
Spaces == Models \X Dims

ASSUME IndexAssumption ==
    /\ RecordCount \in Nat /\ Poison \subseteq Records
    /\ None \notin Spaces
    /\ {PageSize, Limit} \subseteq Nat \ {0}
    /\ MaxFailures \in Nat

VARIABLES
    raw,        \* records in the raw collection
    mark,       \* mark[r]: fallback_collection of an indexed record, None when pending
    exists,     \* fallback collections that exist
    vectors,    \* vectors[g]: points of collection g, as <<record, space>>
    pc,         \* where a worker is
    model,      \* model[w]: embed_model of worker w's settings
    offset,     \* offset[w]: first point of the next page
    batch,      \* batch[w]: records the pass has found pending and not yet taken
    item,       \* item[w]: the record it is at
    vector,     \* vector[w]: space of the vector just embedded
    lost,       \* collections that were dropped some time
    failures    \* failed calls, late puts, restarts and drops so far

qdrant == <<raw, mark, exists, vectors>>
vars == <<raw, mark, exists, vectors, pc, model, offset, batch, item, vector, lost,
          failures>>

Init ==
    /\ raw = {}
    /\ mark = [r \in Records |-> None]
    /\ exists = {} /\ vectors = [g \in Spaces |-> {}] /\ lost = {}
    /\ pc = [w \in Workers |-> "idle"]
    /\ model \in [Workers -> Models]
    /\ offset = [w \in Workers |-> 1]
    /\ batch = [w \in Workers |-> {}]
    /\ item = [w \in Workers |-> 0]
    /\ vector = [w \in Workers |-> None]
    /\ failures = 0

Goto(w, l) == pc' = [pc EXCEPT ![w] = l]

-----------------------------------------------------------------------------
(* Around the workers *)

\* memory_put: a record appears anywhere in scroll's order (its id is a hash).
Put(r) ==
    /\ r \notin raw
    /\ raw' = raw \cup {r}
    /\ UNCHANGED <<mark, exists, vectors, pc, model, offset, batch, item, vector, lost, failures>>

\* A put whose caller timed out is applied after its retry: pending again.
PutAppliedLate(r) ==
    /\ r \in raw
    /\ failures < MaxFailures /\ failures' = failures + 1
    /\ mark' = [mark EXCEPT ![r] = None]
    /\ UNCHANGED <<raw, exists, vectors, pc, model, offset, batch, item, vector, lost>>

\* A disposable collection is dropped.
Drop(g) ==
    /\ g \in exists
    /\ failures < MaxFailures /\ failures' = failures + 1
    /\ exists' = exists \ {g}
    /\ vectors' = [vectors EXCEPT ![g] = {}]
    /\ lost' = lost \cup {g}
    /\ UNCHANGED <<raw, mark, pc, model, offset, batch, item, vector>>

\* A worker dies; systemd starts it again with the settings of that moment.
Restart(w) ==
    /\ failures < MaxFailures /\ failures' = failures + 1
    /\ \E m \in Models : model' = [model EXCEPT ![w] = m]
    /\ batch' = [batch EXCEPT ![w] = {}]
    /\ Goto(w, "idle")
    /\ UNCHANGED <<qdrant, offset, item, vector, lost>>

-----------------------------------------------------------------------------
(* A pass of index_pending *)

StartPass(w) ==
    /\ pc[w] = "idle"
    /\ offset' = [offset EXCEPT ![w] = 1]
    /\ Goto(w, "scan")
    /\ UNCHANGED <<qdrant, model, batch, item, vector, lost, failures>>

\* The n first of the records R.
First(R, n) == {r \in R : Cardinality({q \in R : q < r}) < n}

Rest(w) == {r \in raw : r >= offset[w]}
Page(w) == First(Rest(w), PageSize)
Found(w) == batch[w] \cup {r \in Page(w) : mark[r] = None}

\* Mutants: only the first page is inspected; the next page starts one late.
Scan_FirstPage(w) ==
    /\ pc[w] = "scan"
    /\ batch' = [batch EXCEPT ![w] = First(Found(w), Limit)]
    /\ Goto(w, "embed")
    /\ UNCHANGED <<qdrant, model, offset, item, vector, lost, failures>>

Scan_OffByOne(w) ==
    /\ pc[w] = "scan"
    /\ IF Page(w) = Rest(w) \/ Cardinality(Found(w)) >= Limit
       THEN /\ batch' = [batch EXCEPT ![w] = First(Found(w), Limit)]
            /\ Goto(w, "embed")
            /\ UNCHANGED offset
       ELSE /\ batch' = [batch EXCEPT ![w] = Found(w)]
            /\ offset' = [offset EXCEPT ![w] = Min(Rest(w) \ Page(w)) + 1]
            /\ UNCHANGED pc
    /\ UNCHANGED <<qdrant, model, item, vector, lost, failures>>

\* scroll returns a page and the point the next page starts with, if any.
Scan(w) ==
    /\ pc[w] = "scan"
    /\ IF Page(w) = Rest(w) \/ Cardinality(Found(w)) >= Limit
       THEN /\ batch' = [batch EXCEPT ![w] = First(Found(w), Limit)]
            /\ Goto(w, "embed")
            /\ UNCHANGED offset
       ELSE /\ batch' = [batch EXCEPT ![w] = Found(w)]
            /\ offset' = [offset EXCEPT ![w] = Min(Rest(w) \ Page(w))]
            /\ UNCHANGED pc
    /\ UNCHANGED <<qdrant, model, item, vector, lost, failures>>

EndPass(w) ==
    /\ pc[w] = "embed"
    /\ batch[w] = {}
    /\ Goto(w, "idle")
    /\ UNCHANGED <<qdrant, model, offset, batch, item, vector, lost, failures>>

\* The next record of the batch is r.
Take(w, r) ==
    /\ \A q \in batch[w] : r <= q
    /\ batch' = [batch EXCEPT ![w] = @ \ {r}]

\* The provider returns a vector of some dimension.
Embed(w) ==
    /\ pc[w] = "embed"
    /\ \E r \in batch[w] \ Poison :
        /\ Take(w, r)
        /\ item' = [item EXCEPT ![w] = r]
    /\ \E d \in Dims : vector' = [vector EXCEPT ![w] = <<model[w], d>>]
    /\ Goto(w, "ensure")
    /\ UNCHANGED <<qdrant, model, offset, lost, failures>>

\* It refuses the record, or (in EmbedFails) is down.
EmbedRefused(w) ==
    /\ pc[w] = "embed"
    /\ \E r \in batch[w] \cap Poison : Take(w, r)
    /\ UNCHANGED <<qdrant, pc, model, offset, item, vector, lost, failures>>

EmbedFails(w) ==
    /\ pc[w] = "embed"
    /\ failures < MaxFailures /\ failures' = failures + 1
    /\ \E r \in batch[w] : Take(w, r)
    /\ UNCHANGED <<qdrant, pc, model, offset, item, vector, lost>>

\* Mutant: the collection's name leaves the model out.
Generation_NoModel(v) == <<CHOOSE m \in Models : TRUE, v[2]>>

\* fallback_generation: the collection's name has the model and the dimension.
Generation(v) == v

\* ensure_vector_collection looks, then creates; that another worker created it
\* in between is no error.
Ensure(w) ==
    /\ pc[w] = "ensure"
    /\ Goto(w, IF Generation(vector[w]) \in exists THEN "upsert" ELSE "create")
    /\ UNCHANGED <<qdrant, model, offset, batch, item, vector, lost, failures>>

Create(w) ==
    /\ pc[w] = "create"
    /\ exists' = exists \cup {Generation(vector[w])}
    /\ Goto(w, "upsert")
    /\ UNCHANGED <<raw, mark, vectors, model, offset, batch, item, vector, lost, failures>>

\* The vector is written; Qdrant refuses it when the collection is gone.
WriteVector(w) ==
    LET g == Generation(vector[w])
    IN vectors' = [vectors EXCEPT ![g] = @ \cup {<<item[w], vector[w]>>}]

Upsert(w) ==
    /\ pc[w] = "upsert"
    /\ Generation(vector[w]) \in exists
    /\ WriteVector(w)
    /\ Goto(w, "mark")
    /\ UNCHANGED <<raw, mark, exists, model, offset, batch, item, vector, lost, failures>>

UpsertRefused(w) ==
    /\ pc[w] = "upsert"
    /\ Generation(vector[w]) \notin exists
    /\ Goto(w, "embed")
    /\ UNCHANGED <<qdrant, model, offset, batch, item, vector, lost, failures>>

SetMark(w) == mark' = [mark EXCEPT ![item[w]] = Generation(vector[w])]

Mark(w) ==
    /\ pc[w] = "mark"
    /\ SetMark(w)
    /\ Goto(w, "embed")
    /\ UNCHANGED <<raw, exists, vectors, model, offset, batch, item, vector, lost, failures>>

\* A call for a record fails, before or after it had its effect: the next
\* record is taken.  Mutant: the record is marked all the same.
CallFails_MarksAnyway(w) ==
    /\ pc[w] \in {"ensure", "create", "upsert", "mark"}
    /\ failures < MaxFailures /\ failures' = failures + 1
    /\ UNCHANGED <<exists, vectors>>
    /\ IF pc[w] \in {"upsert", "mark"} THEN SetMark(w) ELSE UNCHANGED mark
    /\ Goto(w, "embed")
    /\ UNCHANGED <<raw, model, offset, batch, item, vector, lost>>

CallFails(w) ==
    /\ pc[w] \in {"ensure", "create", "upsert", "mark"}
    /\ failures < MaxFailures /\ failures' = failures + 1
    /\ \/ UNCHANGED <<mark, exists, vectors>>
       \/ /\ pc[w] = "upsert" /\ Generation(vector[w]) \in exists
          /\ WriteVector(w)
          /\ UNCHANGED <<mark, exists>>
       \/ /\ pc[w] = "mark"
          /\ SetMark(w)
          /\ UNCHANGED <<exists, vectors>>
    /\ Goto(w, "embed")
    /\ UNCHANGED <<raw, model, offset, batch, item, vector, lost>>

\* A page cannot be read: index_pending raises, run logs it and sleeps.
ScanFails(w) ==
    /\ pc[w] = "scan"
    /\ failures < MaxFailures /\ failures' = failures + 1
    /\ batch' = [batch EXCEPT ![w] = {}]
    /\ Goto(w, "idle")
    /\ UNCHANGED <<qdrant, model, offset, item, vector, lost>>

-----------------------------------------------------------------------------
Step(w) ==
    \/ StartPass(w) \/ Scan(w) \/ EndPass(w) \/ Embed(w) \/ EmbedRefused(w) \/ Ensure(w)
    \/ Create(w) \/ Upsert(w) \/ UpsertRefused(w) \/ Mark(w)

Next ==
    \/ \E r \in Records : Put(r) \/ PutAppliedLate(r)
    \/ \E g \in Spaces : Drop(g)
    \/ \E w \in Workers : Step(w) \/ EmbedFails(w) \/ CallFails(w) \/ ScanFails(w) \/ Restart(w)

Spec == Init /\ [][Next]_vars

\* The loop of worker.run has no end, and systemd restarts it.
FairSpec == Spec /\ \A w \in Workers : WF_vars(Step(w))

-----------------------------------------------------------------------------
(* Properties *)

\* Every variable holds what the code may put there.
TypeOK ==
    /\ raw \subseteq Records /\ mark \in [Records -> Spaces \cup {None}]
    /\ exists \subseteq Spaces /\ lost \subseteq Spaces
    /\ vectors \in [Spaces -> SUBSET (Records \X Spaces)]
    /\ pc \in [Workers -> {"idle", "scan", "embed", "ensure", "create", "upsert", "mark"}]
    /\ model \in [Workers -> Models] /\ offset \in [Workers -> Records \cup {1}]
    /\ batch \in [Workers -> SUBSET raw]
    /\ \A w \in Workers : Cardinality(batch[w]) <= Limit
    /\ item \in [Workers -> Nat] /\ vector \in [Workers -> Spaces \cup {None}]

\* A record is marked only after its vector is in the collection it names,
\* whoever else indexes, fails or restarts (service.py:393-403).
MarkedHasVector ==
    \A r \in raw : mark[r] \in Spaces \ lost => <<r, mark[r]>> \in vectors[mark[r]]

\* A collection never mixes the vectors of two models or dimensions
\* (README.md:96-97, ARCHITECTURE.md:78-79).
SpacesApart == \A g \in Spaces : \A v \in vectors[g] : v[2] = g /\ v[1] \in raw

\* Nothing starves a record: pages of indexed records, fewer refused records
\* than the limit, late puts, failed calls, restarts (service.py:362-364).
EventuallyIndexed ==
    \A r \in Records \ Poison : r \in raw ~> mark[r] # None
=============================================================================
