-------------------------- MODULE IndexWorkerProofs --------------------------
(***************************************************************************)
(* TLAPS proofs about IndexWorker, for every number of records, workers,   *)
(* models and dimensions, and any number of failures, restarts and drops.  *)
(***************************************************************************)
EXTENDS IndexWorker, FiniteSetTheorems, WellFoundedInduction, TLAPS

Labels == {"idle", "scan", "embed", "ensure", "create", "upsert", "mark"}
Working == {"ensure", "create", "upsert", "mark"}

\* The types the argument needs; a record that is not stored is not marked.
Types ==
    /\ raw \subseteq Records /\ mark \in [Records -> Spaces \cup {None}]
    /\ \A r \in Records \ raw : mark[r] = None
    /\ exists \subseteq Spaces /\ lost \subseteq Spaces
    /\ vectors \in [Spaces -> SUBSET (Records \X Spaces)]
    /\ pc \in [Workers -> Labels]
    /\ model \in [Workers -> Models]
    /\ batch \in [Workers -> SUBSET raw]
    /\ item \in [Workers -> Nat] /\ vector \in [Workers -> Spaces \cup {None}]

\* A worker at a record holds a stored record and its vector; when it comes to
\* mark the record, the vector is in the collection, unless that was dropped.
Work ==
    \A w \in Workers :
        /\ pc[w] \in Working => item[w] \in raw /\ vector[w] \in Spaces
        /\ pc[w] = "mark" => \/ vector[w] \in lost
                             \/ <<item[w], vector[w]>> \in vectors[vector[w]]

IInv == Types /\ Work /\ MarkedHasVector /\ SpacesApart

LEMMA IndexInit == Init => IInv
<1> SUFFICES ASSUME Init PROVE IInv
  OBVIOUS
<1>1. Types
  BY DEF Init, Types, Labels, Records
<1>2. Work
  BY DEF Init, Work, Working
<1>3. MarkedHasVector /\ SpacesApart
  BY DEF Init, MarkedHasVector, SpacesApart
<1>4. QED
  BY <1>1, <1>2, <1>3 DEF IInv

\* A step that leaves Qdrant alone.
LEMMA QdrantAlone ==
    ASSUME IInv, Types', Work', UNCHANGED qdrant, UNCHANGED lost
    PROVE  IInv'
BY DEF IInv, MarkedHasVector, SpacesApart, qdrant

\* Workers that do not move keep what they hold when no vector disappears
\* from a collection that is not lost.
LEMMA OthersWork ==
    ASSUME Types, Work, NEW w \in Workers, NEW l, Goto(w, l),
           raw \subseteq raw', lost \subseteq lost',
           \A g \in Spaces : g \in lost' \/ vectors[g] \subseteq vectors'[g],
           \A q \in Workers \ {w} : item'[q] = item[q] /\ vector'[q] = vector[q],
           l \in Working => item'[w] \in raw' /\ vector'[w] \in Spaces,
           l = "mark" => vector'[w] \in lost' \/ <<item'[w], vector'[w]>> \in vectors'[vector'[w]]
    PROVE  Work'
<1>1. pc'[w] = l /\ \A q \in Workers \ {w} : pc'[q] = pc[q]
  BY DEF Types, Goto
<1>2. ASSUME NEW q \in Workers
      PROVE  /\ pc'[q] \in Working => item'[q] \in raw' /\ vector'[q] \in Spaces
             /\ pc'[q] = "mark" => \/ vector'[q] \in lost'
                                   \/ <<item'[q], vector'[q]>> \in vectors'[vector'[q]]
  <2>1. CASE q = w
    BY <1>1, <2>1
  <2>2. CASE q # w
    BY <1>1, <2>2 DEF Work, Working
  <2>3. QED
    BY <2>1, <2>2
<1>3. QED
  BY <1>2 DEF Work

\* The vector of a record goes to the collection of its generation.
LEMMA VectorWritten ==
    ASSUME IInv, Types', Work', NEW w \in Workers, pc[w] = "upsert", WriteVector(w),
           UNCHANGED <<raw, mark, lost>>
    PROVE  IInv'
<1>1. item[w] \in raw /\ vector[w] \in Spaces
  BY DEF IInv, Work, Working
<1>2. vectors' = [vectors EXCEPT ![vector[w]] = @ \cup {<<item[w], vector[w]>>}]
  BY DEF WriteVector, Generation
<1>3. \A g \in Spaces : /\ vectors[g] \subseteq vectors'[g]
                        /\ \A v \in vectors'[g] : v \in vectors[g] \/ (v = <<item[w], g>> /\ g = vector[w])
  BY <1>1, <1>2 DEF IInv, Types
<1>4. MarkedHasVector'
  BY <1>3 DEF IInv, MarkedHasVector
<1>5. SpacesApart'
  <2> SUFFICES ASSUME NEW g \in Spaces, NEW v \in vectors'[g] PROVE v[2] = g /\ v[1] \in raw'
    BY DEF SpacesApart
  <2>1. CASE v \in vectors[g]
    BY <2>1 DEF IInv, SpacesApart
  <2>2. CASE v = <<item[w], g>>
    BY <2>2, <1>1
  <2>3. QED
    BY <1>3, <2>1, <2>2
<1>6. QED
  BY <1>4, <1>5 DEF IInv

\* A record is marked when its vector is there.
LEMMA RecordMarked ==
    ASSUME IInv, Types', Work', NEW w \in Workers, pc[w] = "mark", SetMark(w),
           UNCHANGED <<raw, vectors, lost>>
    PROVE  IInv'
<1>1. /\ item[w] \in raw /\ vector[w] \in Spaces /\ item[w] \in Records
      /\ vector[w] \in lost \/ <<item[w], vector[w]>> \in vectors[vector[w]]
  BY DEF IInv, Work, Working, Types
<1>2. mark'[item[w]] = vector[w] /\ \A r \in Records \ {item[w]} : mark'[r] = mark[r]
  BY <1>1 DEF IInv, Types, SetMark, Generation
<1>3. MarkedHasVector'
  BY <1>1, <1>2 DEF IInv, MarkedHasVector, Types
<1>4. SpacesApart'
  BY DEF IInv, SpacesApart
<1>5. QED
  BY <1>3, <1>4 DEF IInv

LEMMA IndexStep == IInv /\ [Next]_vars => IInv'
<1> SUFFICES ASSUME IInv, [Next]_vars PROVE IInv'
  OBVIOUS
<1>a. Types /\ Work
  BY DEF IInv
<1>1. ASSUME NEW r \in Records, Put(r) PROVE IInv'
  <2>1. Types'
    <3>1. raw \subseteq raw' /\ raw' \subseteq Records
      BY <1>1, <1>a DEF Put, Types
    <3>2. batch' \in [Workers -> SUBSET raw']
      BY <1>1, <1>a, <3>1 DEF Put, Types
    <3>3. QED
      BY <1>1, <1>a, <3>1, <3>2 DEF Put, Types
  <2>2. Work'
    BY <1>1, <1>a DEF Put, Work
  <2>3. MarkedHasVector'
    <3>1. mark[r] \notin Spaces
      BY <1>1, <1>a, IndexAssumption DEF Put, Types
    <3>2. raw' = raw \cup {r} /\ UNCHANGED <<mark, lost, vectors>>
      BY <1>1 DEF Put
    <3>3. QED
      BY <3>1, <3>2 DEF IInv, MarkedHasVector
  <2>4. SpacesApart'
    BY <1>1 DEF Put, IInv, SpacesApart
  <2>5. QED
    BY <2>1, <2>2, <2>3, <2>4 DEF IInv
<1>2. ASSUME NEW r \in Records, PutAppliedLate(r) PROVE IInv'
  <2>1. Types'
    BY <1>2, <1>a DEF PutAppliedLate, Types
  <2>2. Work'
    BY <1>2, <1>a DEF PutAppliedLate, Work
  <2>3. MarkedHasVector' /\ SpacesApart'
    BY <1>2, <1>a, IndexAssumption DEF PutAppliedLate, IInv, MarkedHasVector, SpacesApart, Types
  <2>4. QED
    BY <2>1, <2>2, <2>3 DEF IInv
<1>3. ASSUME NEW g \in Spaces, Drop(g) PROVE IInv'
  <2>1. /\ \A k \in Spaces \ {g} : vectors'[k] = vectors[k]
        /\ vectors'[g] = {} /\ lost' = lost \cup {g}
        /\ UNCHANGED <<raw, mark, item, vector, pc>>
    BY <1>3, <1>a DEF Drop, Types
  <2>2. Types'
    BY <1>3, <1>a DEF Drop, Types
  <2>3. Work'
    BY <1>a, <2>1 DEF Work, Working
  <2>4. MarkedHasVector' /\ SpacesApart'
    BY <1>a, <2>1 DEF IInv, MarkedHasVector, SpacesApart, Types
  <2>5. QED
    BY <2>2, <2>3, <2>4 DEF IInv
<1>4. ASSUME NEW w \in Workers, StartPass(w) \/ EndPass(w) \/ Restart(w) \/ ScanFails(w) PROVE IInv'
  <2>1. Types'
    BY <1>4, <1>a DEF StartPass, EndPass, Restart, ScanFails, Goto, Types, Labels, qdrant
  <2>2. \/ Goto(w, "scan")
        \/ Goto(w, "idle")
    BY <1>4 DEF StartPass, EndPass, Restart, ScanFails
  <2>3. UNCHANGED <<qdrant, lost, item, vector>>
    BY <1>4 DEF StartPass, EndPass, Restart, ScanFails
  <2>4. Work'
    BY <1>a, <2>2, <2>3, OthersWork DEF Working, qdrant
  <2>5. QED
    BY <2>1, <2>3, <2>4, QdrantAlone
<1>5. ASSUME NEW w \in Workers, Scan(w) PROVE IInv'
  <2>1. Found(w) \subseteq raw /\ First(Found(w), Limit) \subseteq Found(w)
    BY <1>a DEF Found, Page, First, Rest, Types
  <2>2. batch' \in [Workers -> SUBSET raw']
    BY <1>5, <1>a, <2>1 DEF Scan, Types, qdrant
  <2>3. pc' \in [Workers -> Labels]
    BY <1>5, <1>a DEF Scan, Goto, Types, Labels
  <2>4. UNCHANGED <<qdrant, model, lost, item, vector>>
    BY <1>5 DEF Scan
  <2>5. Types'
    BY <1>a, <2>2, <2>3, <2>4 DEF Types, qdrant
  <2>6. Work'
    <3>1. CASE Goto(w, "embed")
      BY <3>1, <1>a, <2>4, OthersWork DEF Working, qdrant
    <3>2. CASE UNCHANGED pc
      BY <3>2, <1>a, <2>4 DEF Work, qdrant
    <3>3. QED
      BY <3>1, <3>2, <1>5 DEF Scan
  <2>7. QED
    BY <2>4, <2>5, <2>6, QdrantAlone
<1>6. ASSUME NEW w \in Workers, Embed(w) PROVE IInv'
  <2>1. PICK r \in batch[w] \ Poison : Take(w, r) /\ item' = [item EXCEPT ![w] = r]
    BY <1>6 DEF Embed
  <2>2. PICK d \in Dims : vector' = [vector EXCEPT ![w] = <<model[w], d>>]
    BY <1>6 DEF Embed
  <2>3. r \in raw /\ r \in Nat /\ <<model[w], d>> \in Spaces
    BY <1>a DEF Types, Spaces, Records
  <2>4. batch' \in [Workers -> SUBSET raw']
    BY <1>6, <1>a, <2>1 DEF Embed, Take, Types, qdrant
  <2>5. Types'
    BY <1>6, <1>a, <2>1, <2>2, <2>3, <2>4 DEF Embed, Goto, Types, Labels, qdrant
  <2>6. /\ item'[w] = r /\ vector'[w] = <<model[w], d>>
        /\ \A q \in Workers \ {w} : item'[q] = item[q] /\ vector'[q] = vector[q]
    BY <1>a, <2>1, <2>2 DEF Types
  <2>7. Work'
    BY <1>6, <1>a, <2>3, <2>6, OthersWork DEF Embed, qdrant
  <2>8. QED
    BY <1>6, <2>5, <2>7, QdrantAlone DEF Embed
<1>7. ASSUME NEW w \in Workers, EmbedRefused(w) \/ EmbedFails(w) PROVE IInv'
  <2>1. PICK r \in batch[w] : Take(w, r)
    BY <1>7 DEF EmbedRefused, EmbedFails
  <2>2. UNCHANGED <<qdrant, pc, model, item, vector, lost>>
    BY <1>7 DEF EmbedRefused, EmbedFails
  <2>3. batch' \in [Workers -> SUBSET raw']
    BY <1>a, <2>1, <2>2 DEF Take, Types, qdrant
  <2>4. Types'
    BY <1>a, <2>2, <2>3 DEF Types, qdrant
  <2>5. Work'
    BY <1>a, <2>2 DEF Work, qdrant
  <2>6. QED
    BY <2>2, <2>4, <2>5, QdrantAlone
<1>8. ASSUME NEW w \in Workers, Ensure(w) \/ Create(w) PROVE IInv'
  <2>1. item[w] \in raw /\ vector[w] \in Spaces
    BY <1>8, <1>a DEF Ensure, Create, Work, Working
  <2>2. UNCHANGED <<raw, mark, vectors, model, batch, item, vector, lost>>
    BY <1>8 DEF Ensure, Create, qdrant
  <2>3. pc' \in [Workers -> Labels] /\ exists' \subseteq Spaces
    BY <1>8, <1>a, <2>1 DEF Ensure, Create, Goto, Types, Labels, Generation, qdrant
  <2>4. Types'
    BY <1>a, <2>2, <2>3 DEF Types
  <2>5. Goto(w, "upsert") \/ Goto(w, "create")
    BY <1>8 DEF Ensure, Create
  <2>6. Work'
    BY <1>a, <2>1, <2>2, <2>5, OthersWork
  <2>7. QED
    BY <2>2, <2>4, <2>6 DEF IInv, MarkedHasVector, SpacesApart
<1>9. ASSUME NEW w \in Workers, pc[w] = "upsert", WriteVector(w), NEW l \in {"mark", "embed"}, Goto(w, l),
             UNCHANGED <<raw, mark, exists, model, batch, item, vector, lost>>
      PROVE  IInv'
  <2>1. item[w] \in raw /\ vector[w] \in Spaces /\ item[w] \in Records
    BY <1>9, <1>a DEF Work, Working, Types
  <2>2. vectors' = [vectors EXCEPT ![vector[w]] = @ \cup {<<item[w], vector[w]>>}]
    BY <1>9 DEF WriteVector, Generation
  <2>3. vectors' \in [Spaces -> SUBSET (Records \X Spaces)]
    BY <1>a, <2>1, <2>2 DEF Types
  <2>4. Types'
    BY <1>9, <1>a, <2>3 DEF Goto, Types, Labels
  <2>5. /\ <<item[w], vector[w]>> \in vectors'[vector[w]]
        /\ \A g \in Spaces : vectors[g] \subseteq vectors'[g]
    BY <1>a, <2>1, <2>2 DEF Types
  <2>6. Work'
    BY <1>9, <1>a, <2>1, <2>5, OthersWork
  <2>7. QED
    BY <1>9, <2>4, <2>6, VectorWritten
<1>10. ASSUME NEW w \in Workers, pc[w] = "mark", SetMark(w), Goto(w, "embed"),
              UNCHANGED <<raw, exists, vectors, model, batch, item, vector, lost>>
       PROVE  IInv'
  <2>1. item[w] \in Records /\ item[w] \in raw /\ vector[w] \in Spaces
    BY <1>10, <1>a DEF Work, Working, Types
  <2>2. Types'
    BY <1>10, <1>a, <2>1 DEF Goto, Types, Labels, SetMark, Generation
  <2>3. Work'
    BY <1>10, <1>a, OthersWork DEF Working
  <2>4. QED
    BY <1>10, <2>2, <2>3, RecordMarked
<1>11. ASSUME NEW w \in Workers, Goto(w, "embed"),
              UNCHANGED <<qdrant, model, batch, item, vector, lost>>
       PROVE  IInv'
  <2>1. Types'
    BY <1>11, <1>a DEF Goto, Types, Labels, qdrant
  <2>2. Work'
    BY <1>11, <1>a, OthersWork DEF Working, qdrant
  <2>3. QED
    BY <1>11, <2>1, <2>2, QdrantAlone
<1>12. ASSUME NEW w \in Workers, Upsert(w) \/ UpsertRefused(w) \/ Mark(w) \/ CallFails(w) PROVE IInv'
  <2>1. CASE Upsert(w)
    BY <2>1, <1>9 DEF Upsert
  <2>2. CASE UpsertRefused(w)
    BY <2>2, <1>11 DEF UpsertRefused
  <2>3. CASE Mark(w)
    BY <2>3, <1>10 DEF Mark
  <2>4. CASE CallFails(w)
    <3>1. CASE UNCHANGED <<mark, exists, vectors>>
      BY <2>4, <3>1, <1>11 DEF CallFails, qdrant
    <3>2. CASE pc[w] = "upsert" /\ WriteVector(w) /\ UNCHANGED <<mark, exists>>
      BY <2>4, <3>2, <1>9 DEF CallFails
    <3>3. CASE pc[w] = "mark" /\ SetMark(w) /\ UNCHANGED <<exists, vectors>>
      BY <2>4, <3>3, <1>10 DEF CallFails
    <3>4. QED
      BY <2>4, <3>1, <3>2, <3>3 DEF CallFails
  <2>5. QED
    BY <1>12, <2>1, <2>2, <2>3, <2>4
<1>13. CASE UNCHANGED vars
  BY <1>13 DEF vars, IInv, Types, Work, MarkedHasVector, SpacesApart
<1>14. QED
  BY <1>1, <1>2, <1>3, <1>4, <1>5, <1>6, <1>7, <1>8, <1>12, <1>13 DEF Next, Step

-----------------------------------------------------------------------------
(* Pages *)

\* A set of naturals has a smallest element.
LEMMA SmallestExists ==
    ASSUME NEW S \in SUBSET Nat, S # {}
    PROVE  Min(S) \in S /\ \A m \in S : Min(S) <= m
<1>1. OpToRel(<, Nat) = {ss \in Nat \X Nat : ss[1] < ss[2]}
  BY DEF OpToRel
<1>2. PICK x \in S : \A y \in S : <<y, x>> \notin OpToRel(<, Nat)
  BY NatLessThanWellFounded, WFMin
<1>3. ASSUME NEW y \in S PROVE x <= y
  <2>1. ~(y < x)
    BY <1>1, <1>2
  <2>2. QED
    BY <2>1
<1>4. QED
  BY <1>3 DEF Min

LEMMA RecordsFinite == Records \subseteq Nat /\ IsFiniteSet(Records)
<1>1. RecordCount \in Nat
  BY IndexAssumption
<1>2. QED
  BY <1>1, FS_Interval DEF Records

\* The first of a set of records come before the others.
LEMMA FirstAreSmaller ==
    ASSUME NEW S \in SUBSET Records, NEW n \in Int
    PROVE  \A r \in First(S, n), m \in S \ First(S, n) : r < m
<1> SUFFICES ASSUME NEW r \in First(S, n), NEW m \in S \ First(S, n), ~(r < m)
             PROVE  FALSE
  OBVIOUS
<1>1. r \in S /\ m \in S /\ r \in Nat /\ m \in Nat /\ S \subseteq Nat
  BY RecordsFinite DEF First
<1>2. {q \in S : q < m} \subseteq {q \in S : q < r}
  <2>1. ASSUME NEW q \in S, q < m PROVE q < r
    <3>1. q \in Nat /\ m <= r
      BY <1>1
    <3>2. QED
      BY <1>1, <2>1, <3>1
  <2>2. QED
    BY <2>1
<1>3. IsFiniteSet({q \in S : q < r})
  BY RecordsFinite, FS_Subset
<1>4. /\ Cardinality({q \in S : q < m}) <= Cardinality({q \in S : q < r})
      /\ Cardinality({q \in S : q < m}) \in Nat /\ Cardinality({q \in S : q < r}) \in Nat
  BY <1>2, <1>3, FS_Subset, FS_CardinalityType
<1>5. Cardinality({q \in S : q < r}) < n /\ ~(Cardinality({q \in S : q < m}) < n)
  BY DEF First
<1>6. QED
  BY <1>4, <1>5

LEMMA LargestExists ==
    ASSUME NEW S \in SUBSET Records, S # {}
    PROVE  \E x \in S : \A y \in S : y <= x
<1> DEFINE D == {RecordCount - r : r \in S}
<1>1. RecordCount \in Nat /\ \A r \in S : r \in Nat /\ r <= RecordCount
  BY IndexAssumption DEF Records
<1>2. D \in SUBSET Nat /\ D # {}
  BY <1>1
<1>3. Min(D) \in D /\ \A m \in D : Min(D) <= m
  BY <1>2, SmallestExists
<1>4. PICK x \in S : Min(D) = RecordCount - x
  BY <1>3
<1>5. ASSUME NEW y \in S PROVE y <= x
  <2>1. RecordCount - x <= RecordCount - y
    BY <1>3, <1>4
  <2>2. QED
    BY <1>1, <2>1
<1>6. QED
  BY <1>5

\* And there are no more of them than were asked for.
LEMMA FirstBounded ==
    ASSUME NEW S \in SUBSET Records, NEW n \in Nat
    PROVE  IsFiniteSet(First(S, n)) /\ Cardinality(First(S, n)) <= n
<1> DEFINE F == First(S, n)
<1>1. F \subseteq S /\ IsFiniteSet(S) /\ IsFiniteSet(F) /\ Cardinality(F) \in Nat
  BY RecordsFinite, FS_Subset, FS_CardinalityType DEF First
<1>2. CASE F = {}
  BY <1>1, <1>2, FS_EmptySet
<1>3. CASE F # {}
  <2>1. PICK x \in F : \A y \in F : y <= x
    BY <1>1, <1>3, LargestExists
  <2> DEFINE B == {q \in S : q < x}
  <2>2. F \ {x} \subseteq B
    <3>1. ASSUME NEW y \in F, y # x PROVE y < x
      <4>1. y \in Nat /\ x \in Nat /\ y <= x
        BY <1>1, <2>1, RecordsFinite
      <4>2. QED
        BY <3>1, <4>1
    <3>2. QED
      BY <1>1, <3>1
  <2>3. Cardinality(B) < n /\ IsFiniteSet(B)
    BY <1>1, FS_Subset DEF First
  <2>4. Cardinality(F \ {x}) <= Cardinality(B) /\ Cardinality(B) \in Nat
    BY <2>2, <2>3, FS_Subset, FS_CardinalityType
  <2>5. Cardinality(F \ {x}) = Cardinality(F) - 1
    BY <1>1, FS_RemoveElement
  <2>6. QED
    BY <1>1, <2>3, <2>4, <2>5
<1>4. QED
  BY <1>1, <1>2, <1>3

-----------------------------------------------------------------------------
(* Types *)

\* What pages may hold.
Bounds ==
    /\ offset \in [Workers -> Records \cup {1}]
    /\ \A w \in Workers : Cardinality(batch[w]) <= Limit

\* Batches only shrink.
LEMMA BatchShrinks ==
    ASSUME IInv, Bounds, UNCHANGED offset, \A w \in Workers : batch'[w] \subseteq batch[w]
    PROVE  Bounds'
<1>1. ASSUME NEW w \in Workers PROVE Cardinality(batch'[w]) <= Limit
  <2>1. IsFiniteSet(batch[w])
    BY RecordsFinite, FS_Subset DEF IInv, Types
  <2>2. /\ Cardinality(batch'[w]) <= Cardinality(batch[w]) /\ Cardinality(batch[w]) <= Limit
        /\ Cardinality(batch'[w]) \in Nat /\ Cardinality(batch[w]) \in Nat /\ Limit \in Nat
    BY <1>1, <2>1, FS_Subset, FS_CardinalityType, IndexAssumption DEF Bounds
  <2>3. QED
    BY <2>2
<1>2. QED
  BY <1>1 DEF Bounds, Records

\* A pass stops at its limit.
LEMMA ScanBounded == ASSUME IInv, Bounds, NEW w \in Workers, Scan(w) PROVE Bounds'
<1>1. /\ Found(w) \in SUBSET Records /\ Rest(w) \in SUBSET Records /\ Limit \in Nat
      /\ batch \in [Workers -> SUBSET raw]
  BY IndexAssumption DEF IInv, Types, Found, Page, Rest, First
<1>2. CASE Page(w) = Rest(w) \/ Cardinality(Found(w)) >= Limit
  <2>1. batch' = [batch EXCEPT ![w] = First(Found(w), Limit)] /\ UNCHANGED offset
    BY <1>2 DEF Scan
  <2>2. Cardinality(First(Found(w), Limit)) <= Limit
    BY <1>1, FirstBounded
  <2>3. QED
    BY <1>1, <2>1, <2>2 DEF Bounds, Records
<1>3. CASE ~(Page(w) = Rest(w) \/ Cardinality(Found(w)) >= Limit)
  <2>1. /\ batch' = [batch EXCEPT ![w] = Found(w)]
        /\ offset' = [offset EXCEPT ![w] = Min(Rest(w) \ Page(w))]
    BY <1>3 DEF Scan
  <2>2. Cardinality(Found(w)) <= Limit
    <3>1. Cardinality(Found(w)) \in Nat
      BY <1>1, RecordsFinite, FS_Subset, FS_CardinalityType
    <3>2. QED
      BY <1>1, <1>3, <3>1
  <2>3. Min(Rest(w) \ Page(w)) \in Records
    <3>1. Rest(w) \ Page(w) # {} /\ Rest(w) \ Page(w) \in SUBSET Nat
      BY <1>1, <1>3, RecordsFinite DEF Page, First
    <3>2. QED
      BY <1>1, <3>1, SmallestExists
  <2>4. QED
    BY <1>1, <2>1, <2>2, <2>3 DEF Bounds, Records
<1>4. QED
  BY <1>2, <1>3

LEMMA BoundsStep == IInv /\ Bounds /\ [Next]_vars => Bounds'
<1> SUFFICES ASSUME IInv, Bounds, [Next]_vars PROVE Bounds'
  OBVIOUS
<1>1. batch \in [Workers -> SUBSET raw] /\ offset \in [Workers -> Records \cup {1}]
  BY DEF IInv, Types, Bounds
<1>2. CASE UNCHANGED vars \/ (\E r \in Records : Put(r) \/ PutAppliedLate(r)) \/ \E g \in Spaces : Drop(g)
  BY <1>2, BatchShrinks DEF vars, Put, PutAppliedLate, Drop
<1>3. ASSUME NEW w \in Workers, StartPass(w) PROVE Bounds'
  BY <1>1, <1>3 DEF StartPass, Bounds, Records
<1>4. ASSUME NEW w \in Workers,
             EmbedFails(w) \/ CallFails(w) \/ ScanFails(w) \/ Restart(w) \/ (Step(w) /\ ~StartPass(w) /\ ~Scan(w))
      PROVE  UNCHANGED offset /\ \A q \in Workers : batch'[q] \subseteq batch[q]
  BY <1>1, <1>4 DEF EmbedFails, CallFails, ScanFails, Restart, Step, EndPass, Embed, EmbedRefused, Take,
     Ensure, Create, Upsert, UpsertRefused, Mark
<1>5. QED
  BY <1>2, <1>3, <1>4, BatchShrinks, ScanBounded DEF Next, Step

-----------------------------------------------------------------------------
(* Theorems *)

\* The inductive invariant of the indexers.
THEOREM IndexInductive == Spec => []IInv
BY IndexInit, IndexStep, PTL DEF Spec

\* A record is marked indexed only after its vector is in the collection the
\* mark names, whoever else indexes, fails or restarts (service.py:393-403).
THEOREM MarkIsTrue == Spec => []MarkedHasVector
<1>1. IInv => MarkedHasVector
  BY DEF IInv
<1>2. QED
  BY <1>1, IndexInductive, PTL

\* No collection mixes the vectors of two models or dimensions
\* (ARCHITECTURE.md:78-79).
THEOREM SpacesStayApart == Spec => []SpacesApart
<1>1. IInv => SpacesApart
  BY DEF IInv
<1>2. QED
  BY <1>1, IndexInductive, PTL

\* Type correctness: no pass takes more than its limit (service.py:370-381).
THEOREM IndexTypesHold == Spec => []TypeOK
<1>1. Init => Bounds
  <2>1. ASSUME Init, NEW w \in Workers PROVE Cardinality(batch[w]) <= Limit
    <3>1. batch[w] = {} /\ Limit \in Nat
      BY <2>1, IndexAssumption DEF Init
    <3>2. QED
      BY <3>1, FS_EmptySet
  <2>2. QED
    BY <2>1 DEF Init, Bounds, Records
<1>2. IInv /\ Bounds /\ [Next]_vars => Bounds'
  BY BoundsStep
<1>3. IInv /\ Bounds => TypeOK
  BY DEF IInv, Types, Bounds, TypeOK, Labels
<1>4. QED
  BY <1>1, <1>2, <1>3, IndexInductive, PTL DEF Spec
=============================================================================
