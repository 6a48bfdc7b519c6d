---------------------------- MODULE RetrievalProofs ----------------------------
(***************************************************************************)
(* TLAPS proofs about Retrieval, for any number of records, pages, limits, *)
(* models and failures: a scan is complete and repeats nothing, and what a *)
(* vector answer leaves out was not indexed or is exceeded in number.      *)
(***************************************************************************)
EXTENDS Retrieval, IndexWorkerProofs

-----------------------------------------------------------------------------
(* Pages *)

LEMMA MemoriesFinite == IsFiniteSet(Memories)
<1>1. Collections = {1} \cup {2}
  BY DEF Collections
<1>2. IsFiniteSet(Collections)
  BY <1>1, FS_Singleton, FS_Union
<1>3. QED
  BY <1>2, FS_Product, RecordsFinite DEF Memories

-----------------------------------------------------------------------------
(* The invariant *)

\* Memory m comes before position c of a scan.
Before(m, c) == m[1] < c[1] \/ (m[1] = c[1] /\ m[2] < c[2])

Sound == other = None \/ other \subseteq Records

Scanning ==
    /\ ~again
    /\ before \subseteq Stored
    /\ rpc \in {"scan", "page"} =>
          /\ cursor \in Collections \X Nat
          /\ got \subseteq Memories
          /\ \A m \in got : Before(m, cursor)
          /\ \A m \in before : Before(m, cursor) => m \in got
    /\ rpc = "page" =>
          /\ at \in Collections \X Nat
          /\ cursor[1] < at[1] \/ (cursor[1] = at[1] /\ cursor[2] <= at[2])
          /\ page \subseteq Memories
          /\ \A m \in page : Before(m, at) /\ ~Before(m, cursor)
          /\ \A m \in before : Before(m, at) => m \in got \cup page
    /\ rpc = "scanned" => before \subseteq got

Searching ==
    /\ rpc = "vector" =>
          /\ space \in Spaces /\ known \subseteq raw
          /\ space \in lost \/ \A r \in known : <<r, space>> \in vectors[space]
    /\ VectorHidesUnindexed

\* What the lexical layer has passed, it has in its page.
Ranking ==
    /\ failures \in Nat
    /\ rpc = "lexical" =>
          /\ at \in (1..3) \X Nat
          /\ page \subseteq Stored
          /\ \A m \in before : Before(m, at) => m \in page
    /\ rpc = "recent" /\ Reached => before \cap Matching = {}
    /\ WordsReachAll

RInv == IInv /\ Sound /\ Scanning /\ Searching /\ Ranking

LEMMA RetrievalInit == Init /\ ReaderInit => RInv
<1> SUFFICES ASSUME Init, ReaderInit PROVE RInv
  OBVIOUS
<1>1. IInv
  BY IndexInit
<1>2. Sound /\ Scanning /\ Searching
  BY DEF ReaderInit, Sound, Scanning, Searching, VectorHidesUnindexed
<1>3. Ranking
  BY DEF Init, ReaderInit, Ranking, WordsReachAll
<1>4. QED
  BY <1>1, <1>2, <1>3 DEF RInv

LEMMA PointsAreRecords ==
    ASSUME IInv, Sound, NEW c \in Collections
    PROVE  Points(c) \subseteq Records
BY DEF IInv, Types, Sound, Points

\* The indexer takes no record away, and no vector but of a lost collection.
LEMMA IndexerKeeps ==
    ASSUME IInv, Next, failures \in Nat
    PROVE  /\ raw \subseteq raw' /\ lost \subseteq lost'
           /\ failures' \in Nat /\ failures <= failures'
           /\ \A g \in Spaces : g \in lost' \/ vectors[g] \subseteq vectors'[g]
<1>1. vectors \in [Spaces -> SUBSET (Records \X Spaces)]
  BY DEF IInv, Types
<1>2. ASSUME NEW r \in Records, Put(r) \/ PutAppliedLate(r)
      PROVE  raw \subseteq raw' /\ lost \subseteq lost' /\ vectors' = vectors
  BY <1>2 DEF Put, PutAppliedLate
<1>3. ASSUME NEW g \in Spaces, Drop(g)
      PROVE  /\ raw \subseteq raw' /\ lost \subseteq lost'
             /\ \A h \in Spaces : h \in lost' \/ vectors[h] \subseteq vectors'[h]
  BY <1>1, <1>3 DEF Drop
<1>4. ASSUME NEW w \in Workers, WriteVector(w)
      PROVE  \A h \in Spaces : vectors[h] \subseteq vectors'[h]
  BY <1>1, <1>4 DEF WriteVector
<1>5. ASSUME NEW w \in Workers, Step(w) \/ EmbedFails(w) \/ CallFails(w) \/ ScanFails(w) \/ Restart(w)
      PROVE  raw' = raw /\ lost' = lost /\ (vectors' = vectors \/ WriteVector(w))
  BY <1>5 DEF Step, StartPass, Scan, EndPass, Embed, EmbedRefused, Ensure, Create, Upsert,
     UpsertRefused, Mark, EmbedFails, CallFails, ScanFails, Restart, qdrant
<1>6. failures' = failures \/ failures' = failures + 1
  BY DEF Next, Put, PutAppliedLate, Drop, Step, StartPass, Scan, EndPass, Embed, EmbedRefused,
     Ensure, Create, Upsert, UpsertRefused, Mark, EmbedFails, CallFails, ScanFails, Restart
<1>7. QED
  BY <1>2, <1>3, <1>4, <1>5, <1>6 DEF Next

\* Whatever is not the reader's may grow while it reads.
LEMMA ReaderAlone ==
    ASSUME RInv, IInv', Sound', UNCHANGED reader, Stored \subseteq Stored',
           raw \subseteq raw', lost \subseteq lost',
           \A g \in Spaces : g \in lost' \/ vectors[g] \subseteq vectors'[g],
           failures' \in Nat, failures <= failures'
    PROVE  RInv'
<1>1. UNCHANGED <<rpc, cursor, at, page, got, again, before, space, known>>
  BY DEF reader
<1>2. Scanning'
  BY <1>1 DEF RInv, Scanning
<1>3. Searching'
  BY <1>1 DEF RInv, Searching, VectorHidesUnindexed, Generation
<1>4. failures # 0 => failures' # 0
  BY DEF RInv, Ranking
<1>5. Reached' => Reached
  <2>1. IsFiniteSet(Stored')
    <3>1. Stored' \subseteq Memories
      BY DEF Stored
    <3>2. QED
      BY <3>1, MemoriesFinite, FS_Subset
  <2>2. Cardinality(Stored) <= Cardinality(Stored') /\ IsFiniteSet(Stored)
    BY <2>1, FS_Subset
  <2>3. Cardinality(Stored) \in Nat /\ Cardinality(Stored') \in Nat /\ LexicalMax \in Nat
    BY <2>1, <2>2, FS_CardinalityType, RetrievalAssumption
  <2>4. QED
    BY <2>2, <2>3 DEF Reached
<1>6. Ranking'
  BY <1>1, <1>4, <1>5 DEF RInv, Ranking, WordsReachAll
<1>7. QED
  BY <1>2, <1>3, <1>6 DEF RInv

\* A step of the reader that leaves what it reads alone.
LEMMA OnlyReader ==
    ASSUME RInv, UNCHANGED <<qdrant, pc, model, offset, batch, item, vector, lost, other>>,
           Scanning', Searching', Ranking'
    PROVE  RInv'
<1>1. UNCHANGED <<raw, mark, exists, vectors>>
  BY DEF qdrant
<1>2. IInv'
  BY <1>1 DEF RInv, IInv, Types, Work, MarkedHasVector, SpacesApart, Records, Spaces
<1>3. QED
  BY <1>2 DEF RInv, Sound

-----------------------------------------------------------------------------
(* scan *)

LEMMA StartScanKeeps == ASSUME RInv, StartScan PROVE RInv'
<1>1. /\ rpc' = "scan" /\ cursor' = <<1, 1>> /\ got' = {} /\ again' = FALSE /\ before' = Stored
      /\ UNCHANGED <<other, vars>>
  BY DEF StartScan
<1>2. UNCHANGED <<raw, other, qdrant, pc, model, offset, batch, item, vector, lost>>
  BY <1>1 DEF vars, qdrant
<1>3. Stored' = Stored
  BY <1>2 DEF Stored, Points
<1>4. \A m \in Stored : ~Before(m, <<1, 1>>)
  <2>1. ASSUME NEW m \in Stored PROVE m[1] \in Nat /\ m[2] \in Nat /\ m[1] >= 1 /\ m[2] >= 1
    BY RecordsFinite DEF Stored, Memories, Collections, Records
  <2>2. QED
    BY <2>1 DEF Before
<1>5. Scanning'
  BY <1>1, <1>3, <1>4 DEF Scanning, Collections
<1>6. Searching' /\ Ranking'
  BY <1>1 DEF Searching, VectorHidesUnindexed, RInv, Ranking, WordsReachAll, vars
<1>7. QED
  BY <1>2, <1>5, <1>6, OnlyReader

LEMMA CallScanKeeps == ASSUME RInv, CallScan PROVE RInv'
<1>1. /\ rpc = "scan" /\ rpc' = "page" /\ at' = cursor /\ page' = {}
      /\ UNCHANGED <<cursor, again, got, before, failures>>
      /\ UNCHANGED <<raw, other, qdrant, pc, model, offset, batch, item, vector, lost>>
  BY DEF CallScan, scan, vars, qdrant
<1>2. Stored' = Stored
  BY <1>1 DEF Stored, Points
<1>3. cursor \in Collections \X Nat
  BY <1>1 DEF RInv, Scanning
<1>4. Scanning'
  BY <1>1, <1>2, <1>3 DEF RInv, Scanning
<1>5. Searching' /\ Ranking'
  BY <1>1 DEF Searching, VectorHidesUnindexed, RInv, Ranking, WordsReachAll
<1>6. QED
  BY <1>1, <1>4, <1>5, OnlyReader

\* What a scroll leaves comes behind what it returned.
LEMMA ScrollSplits ==
    ASSUME IInv, Sound, NEW c \in Collections, NEW o \in Nat, NEW n \in Int
    PROVE  /\ Scroll(c, o, n) \subseteq {r \in Points(c) : r >= o}
           /\ Left(c, o, n) \subseteq Nat
           /\ Left(c, o, n) # {} =>
                /\ Min(Left(c, o, n)) \in Left(c, o, n)
                /\ \A r \in Scroll(c, o, n) : r < Min(Left(c, o, n))
                /\ \A r \in Points(c) : r >= o /\ r < Min(Left(c, o, n)) => r \in Scroll(c, o, n)
           /\ Left(c, o, n) = {} => \A r \in Points(c) : r >= o => r \in Scroll(c, o, n)
<1> DEFINE S == {r \in Points(c) : r >= o}
<1>1. S \in SUBSET Records /\ S \subseteq Nat
  BY PointsAreRecords, RecordsFinite
<1>2. Scroll(c, o, n) = First(S, n) /\ Left(c, o, n) = S \ First(S, n) /\ First(S, n) \subseteq S
  BY DEF Scroll, Left, First
<1>3. \A r \in First(S, n), m \in S \ First(S, n) : r < m
  BY <1>1, FirstAreSmaller
<1>4. CASE Left(c, o, n) # {}
  <2> DEFINE L == Left(c, o, n)
  <2>1. Min(L) \in L /\ \A m \in L : Min(L) <= m
    BY <1>1, <1>2, <1>4, SmallestExists
  <2>2. \A r \in Scroll(c, o, n) : r < Min(L)
    BY <1>2, <1>3, <2>1
  <2>3. ASSUME NEW r \in Points(c), r >= o, r < Min(L) PROVE r \in Scroll(c, o, n)
    <3>1. r \in Nat /\ Min(L) \in Nat
      BY <1>1, <1>2, <2>1, <2>3
    <3>2. r \notin L
      BY <2>1, <2>3, <3>1
    <3>3. QED
      BY <1>2, <2>3, <3>2
  <2>4. QED
    BY <1>1, <1>2, <2>1, <2>2, <2>3
<1>5. CASE Left(c, o, n) = {}
  BY <1>2, <1>5
<1>6. QED
  BY <1>1, <1>2, <1>4, <1>5

LEMMA ScanPageKeeps == ASSUME RInv, ScanPage PROVE RInv'
<1> DEFINE c == at[1]
           o == at[2]
           n == TopK - Cardinality(page)
           P == page \cup Tagged(c, Scroll(c, o, n))
           L == Left(c, o, n)
           next == IF L # {} THEN <<c, Min(L)>> ELSE <<c + 1, 1>>
<1>1. /\ rpc = "page"
      /\ \/ Return(P, next)
         \/ /\ L = {} /\ c # 2 /\ page' = P /\ at' = next
            /\ UNCHANGED <<got, again, cursor, rpc>>
  BY DEF ScanPage
<1>2. /\ UNCHANGED <<before, failures>>
      /\ UNCHANGED <<raw, other, qdrant, pc, model, offset, batch, item, vector, lost>>
  BY DEF ScanPage, vars, qdrant
<1>3. Stored' = Stored
  BY <1>2 DEF Stored, Points
<1>4. /\ cursor \in Collections \X Nat /\ at \in Collections \X Nat
      /\ c \in Collections /\ o \in Nat /\ c \in Nat /\ at = <<c, o>>
      /\ cursor[1] < c \/ (cursor[1] = c /\ cursor[2] <= o)
      /\ page \subseteq Memories
      /\ before \subseteq Stored
  BY <1>1 DEF RInv, Scanning, Collections
<1>5. n \in Int
  <2>1. Cardinality(page) \in Nat /\ TopK \in Nat
    BY <1>4, MemoriesFinite, FS_Subset, FS_CardinalityType, RetrievalAssumption
  <2>2. QED
    BY <2>1
<1>6. /\ Scroll(c, o, n) \subseteq {r \in Points(c) : r >= o}
      /\ L \subseteq Nat
      /\ L # {} => /\ Min(L) \in L
                   /\ \A r \in Scroll(c, o, n) : r < Min(L)
                   /\ \A r \in Points(c) : r >= o /\ r < Min(L) => r \in Scroll(c, o, n)
      /\ L = {} => \A r \in Points(c) : r >= o => r \in Scroll(c, o, n)
  BY <1>4, <1>5, ScrollSplits DEF RInv
<1>7. /\ L # {} => Min(L) \in Nat /\ o <= Min(L)
      /\ next \in (1..3) \X Nat /\ (next[1] = 3 => L = {} /\ c = 2)
  <2>1. L # {} => Min(L) \in Nat /\ o <= Min(L)
    BY <1>6 DEF Left
  <2>2. QED
    BY <1>4, <2>1 DEF Collections
<1>8. Points(c) \subseteq Records /\ Records \subseteq Nat
  BY <1>4, PointsAreRecords, RecordsFinite DEF RInv
<1>9. Tagged(c, Scroll(c, o, n)) \subseteq Memories /\ P \subseteq Memories
  BY <1>4, <1>6, <1>8 DEF Tagged, Memories
<1>10. \A m \in Memories : m[1] \in Nat /\ m[2] \in Nat /\ m[2] >= 1 /\ m = <<m[1], m[2]>>
                           /\ m[1] \in Collections
  BY RecordsFinite DEF Memories, Collections, Records
\* All of the page lies between the cursor and what follows.
<1>11. ASSUME NEW m \in P PROVE Before(m, next) /\ ~Before(m, cursor)
  <2>1. CASE m \in page
    <3>1. Before(m, at) /\ ~Before(m, cursor) /\ m[1] \in Nat /\ m[2] \in Nat
      BY <1>1, <1>4, <1>10, <2>1 DEF RInv, Scanning
    <3>2. QED
      BY <1>4, <1>7, <3>1 DEF Before
  <2>2. CASE m \in Tagged(c, Scroll(c, o, n))
    <3> PICK r \in Scroll(c, o, n) : m = <<c, r>>
      BY <2>2 DEF Tagged
    <3>1. m[1] = c /\ m[2] \in Scroll(c, o, n) /\ m[2] \in Nat /\ m[2] >= o
      BY <1>6, <1>8
    <3>2. Before(m, next)
      BY <1>4, <1>6, <1>7, <3>1 DEF Before
    <3>3. ~Before(m, cursor)
      <4>1. cursor[1] \in Nat /\ cursor[2] \in Nat
        BY <1>4 DEF Collections
      <4>2. QED
        BY <1>4, <3>1, <4>1 DEF Before
    <3>4. QED
      BY <3>2, <3>3
  <2>3. QED
    BY <2>1, <2>2
\* And of the memories that were there, nothing before that is left out.
<1>12. ASSUME NEW m \in before, Before(m, next) PROVE m \in got \cup P
  <2>1. m \in Memories /\ m[1] \in Nat /\ m[2] \in Nat /\ m[2] >= 1 /\ m = <<m[1], m[2]>>
        /\ m[2] \in Points(m[1])
    BY <1>4, <1>10 DEF Stored
  <2>2. CASE Before(m, at)
    BY <1>1, <2>2 DEF RInv, Scanning
  <2>3. CASE ~Before(m, at)
    <3>1. m[1] = c /\ m[2] >= o /\ (L # {} => m[2] < Min(L))
      BY <1>4, <1>7, <1>12, <2>1, <2>3 DEF Before
    <3>2. m[2] \in Scroll(c, o, n)
      BY <1>6, <2>1, <3>1
    <3>3. m \in Tagged(c, Scroll(c, o, n))
      BY <2>1, <3>1, <3>2 DEF Tagged
    <3>4. QED
      BY <3>3
  <2>4. QED
    BY <2>2, <2>3
<1>13. (\A m \in got : Before(m, cursor)) /\ ~again /\ got \subseteq Memories
  BY <1>1 DEF RInv, Scanning
<1>14. CASE Return(P, next)
  <2>1. /\ got' = got \cup P /\ cursor' = next
        /\ again' = (again \/ P \cap got # {})
        /\ rpc' = IF next[1] \in Collections THEN "scan" ELSE "scanned"
    BY <1>14 DEF Return
  <2>2. P \cap got = {}
    BY <1>11, <1>13
  <2>3. \A m \in got : Before(m, next)
    <3>1. ASSUME NEW m \in got PROVE Before(m, next)
      <4>1. m[1] \in Nat /\ m[2] \in Nat /\ Before(m, cursor)
        BY <1>10, <1>13
      <4>2. cursor[1] \in Nat /\ cursor[2] \in Nat
        BY <1>4 DEF Collections
      <4>3. CASE L # {}
        <5>1. next = <<c, Min(L)>> /\ Min(L) \in Nat /\ o <= Min(L)
          BY <1>7, <4>3
        <5>2. QED
          BY <1>4, <4>1, <4>2, <5>1 DEF Before
      <4>4. CASE L = {}
        <5>1. next = <<c + 1, 1>>
          BY <4>4
        <5>2. QED
          BY <1>4, <4>1, <4>2, <5>1 DEF Before
      <4>5. QED
        BY <4>3, <4>4
    <3>2. QED
      BY <3>1
  <2>4. next[1] \notin Collections => \A m \in before : Before(m, next)
    <3>1. next[1] \notin Collections => next[1] = 3
      BY <1>7 DEF Collections
    <3>2. QED
      BY <1>4, <1>10, <3>1 DEF Before, Stored, Collections
  <2>5. next[1] \in Collections => next \in Collections \X Nat
    BY <1>7
  <2>6. Scanning'
    BY <1>2, <1>3, <1>4, <1>9, <1>11, <1>12, <1>13, <2>1, <2>2, <2>3, <2>4, <2>5 DEF Scanning
  <2>7. Searching' /\ Ranking'
    BY <1>2, <2>1 DEF Searching, VectorHidesUnindexed, RInv, Ranking, WordsReachAll
  <2>8. QED
    BY <1>2, <2>6, <2>7, OnlyReader
<1>15. CASE L = {} /\ c # 2 /\ page' = P /\ at' = next /\ UNCHANGED <<got, again, cursor, rpc>>
  <2>1. next = <<2, 1>> /\ c = 1
    BY <1>4, <1>15 DEF Collections
  <2>2. Scanning'
    BY <1>1, <1>2, <1>3, <1>4, <1>9, <1>11, <1>12, <1>15, <2>1 DEF RInv, Scanning, Collections
  <2>3. Searching' /\ Ranking'
    BY <1>1, <1>2, <1>15 DEF Searching, VectorHidesUnindexed, RInv, Ranking, WordsReachAll
  <2>4. QED
    BY <1>2, <2>2, <2>3, OnlyReader
<1>16. QED
  BY <1>1, <1>14, <1>15

LEMMA ScanRaisesKeeps == ASSUME RInv, ScanRaises PROVE RInv'
<1>1. /\ rpc = "page" /\ rpc' = "scan" /\ failures' = failures + 1
      /\ UNCHANGED <<cursor, again, got, before>>
      /\ UNCHANGED <<raw, other, qdrant, pc, model, offset, batch, item, vector, lost>>
  BY DEF ScanRaises, Failure, scan, qdrant
<1>2. Stored' = Stored
  BY <1>1 DEF Stored, Points
<1>3. Scanning'
  BY <1>1, <1>2 DEF RInv, Scanning
<1>4. Searching' /\ Ranking'
  BY <1>1 DEF Searching, VectorHidesUnindexed, RInv, Ranking, WordsReachAll
<1>5. QED
  BY <1>1, <1>3, <1>4, OnlyReader

-----------------------------------------------------------------------------
(* search *)

LEMMA StartSearchKeeps == ASSUME RInv, StartSearch PROVE RInv'
<1>1. /\ rpc' = "embed" /\ before' = Stored /\ again' = again
      /\ UNCHANGED <<raw, other, qdrant, pc, model, offset, batch, item, vector, lost, failures>>
  BY DEF StartSearch, scan, vars, qdrant
<1>2. Stored' = Stored
  BY <1>1 DEF Stored, Points
<1>3. Scanning'
  BY <1>1, <1>2 DEF RInv, Scanning
<1>4. Searching' /\ Ranking'
  BY <1>1 DEF Searching, VectorHidesUnindexed, RInv, Ranking, WordsReachAll
<1>5. QED
  BY <1>1, <1>3, <1>4, OnlyReader

\* No memory comes before the position the lexical layer starts from.
LEMMA NoneBeforeStart == ASSUME NEW m \in Memories PROVE ~Before(m, <<1, 1>>)
<1>1. m[1] \in Nat /\ m[2] \in Nat /\ m[1] >= 1 /\ m[2] >= 1
  BY RecordsFinite DEF Memories, Collections, Records
<1>2. QED
  BY <1>1 DEF Before

LEMMA DegradeKeeps ==
    ASSUME RInv, Degrade, UNCHANGED <<other, scan, got, before, search>>, failures' \in Nat,
           UNCHANGED <<qdrant, pc, model, offset, batch, item, vector, lost>>
    PROVE  RInv'
<1>1. /\ rpc' = "lexical" /\ at' = <<1, 1>> /\ page' = {}
      /\ UNCHANGED <<raw, cursor, again, got, before>>
  BY DEF Degrade, scan, qdrant
<1>2. Stored' = Stored
  BY <1>1 DEF Stored, Points
<1>3. Scanning'
  BY <1>1, <1>2 DEF RInv, Scanning
<1>4. Searching'
  BY <1>1 DEF Searching, VectorHidesUnindexed
<1>5. \A m \in before : ~Before(m, <<1, 1>>)
  BY NoneBeforeStart DEF RInv, Scanning, Stored
<1>6. Ranking'
  BY <1>1, <1>5 DEF Ranking, WordsReachAll
<1>7. QED
  BY <1>3, <1>4, <1>6, OnlyReader

LEMMA EmbedQueryKeeps == ASSUME RInv, EmbedQuery PROVE RInv'
<1>1. /\ UNCHANGED <<cursor, again, other, scan, got, before, failures>>
      /\ UNCHANGED <<raw, qdrant, pc, model, offset, batch, item, vector, lost, exists, vectors>>
  BY DEF EmbedQuery, scan, vars, qdrant
<1>2. Stored' = Stored
  BY <1>1 DEF Stored, Points
<1>3. CASE \E v \in Spaces :
            /\ space' = v /\ known' = {r \in raw : <<r, v>> \in vectors[Generation(v)]}
            /\ rpc' = "vector"
  <2>1. Scanning'
    BY <1>1, <1>2, <1>3 DEF RInv, Scanning
  <2>2. Searching' /\ Ranking'
    BY <1>1, <1>3 DEF Searching, VectorHidesUnindexed, Generation, RInv, Ranking, WordsReachAll
  <2>3. QED
    BY <1>1, <2>1, <2>2, OnlyReader
<1>4. CASE Degrade /\ UNCHANGED search
  BY <1>1, <1>4, DegradeKeeps DEF RInv, Ranking
<1>5. QED
  BY <1>3, <1>4 DEF EmbedQuery

\* Of one generation, as many memories are answered as points were found.
LEMMA OneEach ==
    ASSUME IInv, NEW v \in Spaces, NEW H \in SUBSET vectors[v]
    PROVE  /\ IsFiniteSet(vectors[v])
           /\ Cardinality(Tagged(1, {x[1] : x \in H})) = Cardinality(H)
<1>1. vectors[v] \subseteq Records \X {v}
  BY DEF IInv, Types, SpacesApart
<1>2. IsFiniteSet(vectors[v]) /\ IsFiniteSet(H)
  BY <1>1, RecordsFinite, FS_Singleton, FS_Product, FS_Subset
<1> DEFINE T == Tagged(1, {x[1] : x \in H})
           f == [x \in H |-> <<1, x[1]>>]
<1>3. f \in [H -> T]
  BY DEF Tagged
<1>4. ASSUME NEW x \in H, NEW y \in H, f[x] = f[y] PROVE x = y
  <2>1. x = <<x[1], v>> /\ y = <<y[1], v>>
    BY <1>1
  <2>2. QED
    BY <1>4, <2>1
<1>5. ASSUME NEW t \in T PROVE \E x \in H : f[x] = t
  BY DEF Tagged
<1>6. f \in Bijection(H, T)
  BY <1>3, <1>4, <1>5 DEF Bijection, Injection, Surjection, IsInjective
<1>7. ExistsBijection(H, T)
  BY <1>6 DEF ExistsBijection
<1>8. QED
  BY <1>2, <1>7, FS_Bijection

\* The smaller of two numbers is one of them.
LEMMA MinOfTwo == ASSUME NEW a \in Nat, NEW b \in Nat PROVE Min({a, b}) \in {a, b}
BY SmallestExists

LEMMA QueryVectorKeeps == ASSUME RInv, QueryVector PROVE RInv'
<1>1. /\ rpc = "vector"
      /\ UNCHANGED <<other, cursor, again, before, space, known, failures>>
      /\ UNCHANGED <<raw, qdrant, pc, model, offset, batch, item, vector, lost, vectors>>
  BY DEF QueryVector, scan, search, vars, qdrant
<1>2. Stored' = Stored
  BY <1>1 DEF Stored, Points
<1>3. /\ space \in Spaces /\ known \subseteq raw
      /\ space \in lost \/ \A r \in known : <<r, space>> \in vectors[space]
  BY <1>1 DEF RInv, Searching
<1>4. PICK H \in SUBSET vectors[space] :
        /\ Cardinality(H) = Min({TopK, Cardinality(vectors[space])})
        /\ rpc' = "by vector" /\ got' = Tagged(1, {x[1] : x \in H})
  BY DEF QueryVector, Generation, Answer
<1>5. IsFiniteSet(vectors[space]) /\ Cardinality(got') = Cardinality(H)
  BY <1>3, <1>4, OneEach DEF RInv
<1>6. Cardinality(H) = TopK \/ Cardinality(H) = Cardinality(vectors[space])
  <2>1. TopK \in Nat /\ Cardinality(vectors[space]) \in Nat
    BY <1>5, FS_CardinalityType, RetrievalAssumption
  <2>2. QED
    BY <1>4, <2>1, MinOfTwo
<1>7. ASSUME Cardinality(H) = Cardinality(vectors[space]), space \notin lost
      PROVE  Tagged(1, known) \subseteq got'
  <2>1. H = vectors[space]
    BY <1>5, <1>7, FS_Subset
  <2>2. ASSUME NEW r \in known PROVE <<1, r>> \in got'
    <3>1. <<r, space>> \in H /\ <<r, space>>[1] = r
      BY <1>3, <1>7, <2>1
    <3>2. r \in {x[1] : x \in H}
      BY <3>1
    <3>3. QED
      BY <1>4, <3>2 DEF Tagged
  <2>3. QED
    BY <2>2 DEF Tagged
<1>8. Searching'
  <2>1. space \notin lost => Tagged(1, known) \subseteq got' \/ Cardinality(got') = TopK
    BY <1>5, <1>6, <1>7
  <2>2. (Tagged(1, known))' = Tagged(1, known) /\ (Cardinality(got))' = Cardinality(got')
    BY <1>1 DEF Tagged
  <2>3. QED
    BY <1>1, <1>4, <2>1, <2>2 DEF Searching, VectorHidesUnindexed, Generation
<1>9. Scanning' /\ Ranking'
  BY <1>1, <1>2, <1>4 DEF RInv, Scanning, Ranking, WordsReachAll
<1>10. QED
  BY <1>1, <1>8, <1>9, OnlyReader

LEMMA VectorMissesKeeps == ASSUME RInv, VectorMisses PROVE RInv'
<1>1. UNCHANGED <<qdrant, pc, model, offset, batch, item, vector, lost>> /\ failures' \in Nat
  BY DEF VectorMisses, Failure, vars, qdrant, RInv, Ranking
<1>2. QED
  BY <1>1, DegradeKeeps DEF VectorMisses

\* A memory between a position and the one a page leaves is in the page's range.
LEMMA BetweenPositions ==
    ASSUME NEW m, m[1] \in Nat, m[2] \in Nat, m[2] >= 1,
           NEW c \in Nat, NEW o \in Nat, ~Before(m, <<c, o>>)
    PROVE  /\ \A k \in Nat : Before(m, <<c, k>>) => m[1] = c /\ m[2] >= o /\ m[2] < k
           /\ Before(m, <<c + 1, 1>>) => m[1] = c /\ m[2] >= o
BY DEF Before

LEMMA LexicalPageKeeps == ASSUME RInv, LexicalPage PROVE RInv'
<1> DEFINE c == at[1]
           o == at[2]
           n == Min({PageSize, LexicalMax - Cardinality(page)})
           L == Left(c, o, n)
           next == IF L # {} THEN <<c, Min(L)>> ELSE <<c + 1, 1>>
<1>1. /\ rpc = "lexical" /\ c \in Collections /\ Cardinality(page) < LexicalMax
      /\ page' = page \cup Tagged(c, Scroll(c, o, n)) /\ at' = next
      /\ UNCHANGED <<rpc, cursor, again, got, before, failures>>
      /\ UNCHANGED <<raw, other, qdrant, pc, model, offset, batch, item, vector, lost>>
  BY DEF LexicalPage, scan, vars, qdrant
<1>2. Stored' = Stored
  BY <1>1 DEF Stored, Points
<1>3. /\ at \in (1..3) \X Nat /\ o \in Nat /\ c \in Nat /\ at = <<c, o>>
      /\ page \subseteq Stored /\ before \subseteq Stored
      /\ \A m \in before : Before(m, at) => m \in page
  BY <1>1 DEF RInv, Ranking, Scanning
<1>4. n \in Int
  <2>1. Cardinality(page) \in Nat /\ LexicalMax \in Nat /\ PageSize \in Nat
    BY <1>3, MemoriesFinite, FS_Subset, FS_CardinalityType, RetrievalAssumption, IndexAssumption
       DEF Stored
  <2>2. LexicalMax - Cardinality(page) \in Nat
    BY <1>1, <2>1
  <2>3. QED
    BY <2>1, <2>2, MinOfTwo
<1>5. /\ Scroll(c, o, n) \subseteq {r \in Points(c) : r >= o}
      /\ L \subseteq Nat
      /\ L # {} => /\ Min(L) \in L
                   /\ \A r \in Points(c) : r >= o /\ r < Min(L) => r \in Scroll(c, o, n)
      /\ L = {} => \A r \in Points(c) : r >= o => r \in Scroll(c, o, n)
  BY <1>1, <1>3, <1>4, ScrollSplits DEF RInv
<1>6. next \in (1..3) \X Nat
  <2>1. c \in 1..3 /\ c + 1 \in 1..3
    BY <1>1 DEF Collections
  <2>2. L # {} => Min(L) \in Nat
    BY <1>5
  <2>3. QED
    BY <2>1, <2>2
<1>7. Points(c) \subseteq Records
  BY <1>1, PointsAreRecords DEF RInv
<1>8. Tagged(c, Scroll(c, o, n)) \subseteq Stored
  <2>1. ASSUME NEW r \in Scroll(c, o, n) PROVE <<c, r>> \in Stored
    BY <1>1, <1>5, <1>7 DEF Stored, Memories
  <2>2. QED
    BY <2>1 DEF Tagged
<1>9. ASSUME NEW m \in before, Before(m, next) PROVE m \in page'
  <2>1. /\ m[1] \in Nat /\ m[2] \in Nat /\ m[2] >= 1 /\ m = <<m[1], m[2]>>
        /\ m[2] \in Points(m[1])
    BY <1>3, RecordsFinite DEF Stored, Memories, Collections, Records
  <2>2. CASE Before(m, at)
    BY <1>1, <1>3, <2>2
  <2>3. CASE ~Before(m, at)
    <3>1. m[1] = c /\ m[2] >= o /\ (L # {} => m[2] < Min(L))
      <4>1. /\ \A k \in Nat : Before(m, <<c, k>>) => m[1] = c /\ m[2] >= o /\ m[2] < k
            /\ Before(m, <<c + 1, 1>>) => m[1] = c /\ m[2] >= o
        BY <1>3, <2>1, <2>3, BetweenPositions
      <4>2. CASE L # {}
        BY <1>5, <1>9, <4>1, <4>2
      <4>3. CASE L = {}
        BY <1>9, <4>1, <4>3
      <4>4. QED
        BY <4>2, <4>3
    <3>2. m[2] \in Scroll(c, o, n)
      BY <1>5, <2>1, <3>1
    <3>3. m \in Tagged(c, Scroll(c, o, n))
      BY <2>1, <3>1, <3>2 DEF Tagged
    <3>4. QED
      BY <1>1, <3>3
  <2>4. QED
    BY <2>2, <2>3
<1>10. Scanning' /\ Searching'
  BY <1>1, <1>2 DEF RInv, Scanning, Searching, VectorHidesUnindexed
<1>11. Ranking'
  BY <1>1, <1>2, <1>3, <1>6, <1>8, <1>9 DEF RInv, Ranking, WordsReachAll
<1>12. QED
  BY <1>1, <1>10, <1>11, OnlyReader

LEMMA LexicalAnswerKeeps == ASSUME RInv, LexicalAnswer PROVE RInv'
<1> DEFINE Hits == page \cap Matching
<1>1. /\ rpc = "lexical"
      /\ at[1] \notin Collections \/ Cardinality(page) = LexicalMax
      /\ UNCHANGED <<cursor, again, before, failures>>
      /\ UNCHANGED <<raw, other, qdrant, pc, model, offset, batch, item, vector, lost>>
  BY DEF LexicalAnswer, scan, vars, qdrant
<1>2. Stored' = Stored
  BY <1>1 DEF Stored, Points
<1>3. /\ rpc = "lexical"
      /\ at \in (1..3) \X Nat /\ page \subseteq Stored /\ before \subseteq Stored
      /\ \A m \in before : Before(m, at) => m \in page
  BY DEF LexicalAnswer, RInv, Ranking, Scanning
\* All that was there has been read, by position or by number.
<1>4. Reached => before \subseteq page
  <2>1. CASE at[1] \notin Collections
    <3>1. at[1] = 3
      BY <1>3, <2>1 DEF Collections
    <3>2. \A m \in before : Before(m, at)
      BY <1>3, <3>1 DEF Before, Stored, Memories, Collections
    <3>3. QED
      BY <1>3, <3>2
  <2>2. CASE Reached /\ Cardinality(page) = LexicalMax
    <3>1. IsFiniteSet(Stored)
      BY MemoriesFinite, FS_Subset DEF Stored
    <3>2. /\ Cardinality(page) <= Cardinality(Stored)
          /\ Cardinality(Stored) = Cardinality(page) => Stored = page
      BY <1>3, <3>1, FS_Subset
    <3>3. Cardinality(Stored) \in Nat /\ LexicalMax \in Nat
      BY <3>1, FS_CardinalityType, RetrievalAssumption
    <3>4. Stored = page
      BY <2>2, <3>2, <3>3 DEF Reached
    <3>5. QED
      BY <1>3, <3>4
  <2>3. QED
    BY <2>1, <2>2 DEF LexicalAnswer
<1>5. CASE Hits = {} /\ rpc' = "recent" /\ UNCHANGED got
  <2>1. Scanning' /\ Searching'
    BY <1>1, <1>2, <1>5 DEF RInv, Scanning, Searching, VectorHidesUnindexed
  <2>2. Reached' => before \cap Matching = {}
    BY <1>2, <1>4, <1>5 DEF Reached
  <2>3. Ranking'
    BY <1>1, <1>5, <2>2 DEF RInv, Ranking, WordsReachAll
  <2>4. QED
    BY <1>1, <2>1, <2>3, OnlyReader
<1>6. ASSUME NEW H \in SUBSET Hits, Cardinality(H) = Min({TopK, Cardinality(Hits)}),
             Answer("by words", H)
      PROVE  RInv'
  <2>1. rpc' = "by words" /\ got' = H
    BY <1>6 DEF Answer
  <2>2. IsFiniteSet(Hits)
    BY <1>3, MemoriesFinite, FS_Subset DEF Stored
  <2>3. TopK \in Nat /\ Cardinality(Hits) \in Nat
    BY <2>2, FS_CardinalityType, RetrievalAssumption
  <2>4. Cardinality(H) = TopK \/ H = Hits
    BY <1>6, <2>2, <2>3, MinOfTwo, FS_Subset
  <2>5. Reached => before \cap Matching \subseteq got' \/ Cardinality(got') = TopK
    BY <1>4, <2>1, <2>4
  <2>6. Reached' = Reached
    BY <1>2 DEF Reached
  <2>7. Ranking'
    BY <1>1, <2>1, <2>5, <2>6 DEF RInv, Ranking, WordsReachAll
  <2>8. Scanning' /\ Searching'
    BY <1>1, <1>2, <2>1 DEF RInv, Scanning, Searching, VectorHidesUnindexed
  <2>9. QED
    BY <1>1, <2>7, <2>8, OnlyReader
<1>7. QED
  BY <1>5, <1>6 DEF LexicalAnswer

LEMMA RecentAnswerKeeps == ASSUME RInv, RecentAnswer PROVE RInv'
<1>1. /\ rpc = "recent" /\ rpc' = "recent ones"
      /\ UNCHANGED <<cursor, again, before, failures>>
      /\ UNCHANGED <<raw, other, qdrant, pc, model, offset, batch, item, vector, lost>>
  BY DEF RecentAnswer, Answer, scan, vars, qdrant
<1>2. Stored' = Stored
  BY <1>1 DEF Stored, Points
<1>3. Scanning' /\ Searching'
  BY <1>1, <1>2 DEF RInv, Scanning, Searching, VectorHidesUnindexed
<1>4. Ranking'
  BY <1>1, <1>2 DEF RInv, Ranking, WordsReachAll, Reached
<1>5. QED
  BY <1>1, <1>3, <1>4, OnlyReader

LEMMA SearchRaisesKeeps == ASSUME RInv, SearchRaises PROVE RInv'
<1>1. /\ rpc' = "error" /\ failures' = failures + 1
      /\ UNCHANGED <<cursor, again, before>>
      /\ UNCHANGED <<raw, other, qdrant, pc, model, offset, batch, item, vector, lost>>
  BY DEF SearchRaises, Failure, Answer, scan, qdrant
<1>2. Stored' = Stored
  BY <1>1 DEF Stored, Points
<1>3. Scanning' /\ Searching'
  BY <1>1, <1>2 DEF RInv, Scanning, Searching, VectorHidesUnindexed
<1>4. failures' \in Nat /\ failures' # 0
  BY <1>1 DEF RInv, Ranking
<1>5. Ranking'
  BY <1>1, <1>4 DEF Ranking, WordsReachAll
<1>6. QED
  BY <1>1, <1>3, <1>5, OnlyReader

LEMMA DoneKeeps == ASSUME RInv, Done PROVE RInv'
<1>1. /\ rpc' = "idle" /\ before' = {} /\ again' = again
      /\ UNCHANGED <<raw, other, qdrant, pc, model, offset, batch, item, vector, lost, failures>>
  BY DEF Done, vars, qdrant
<1>2. Scanning' /\ Searching'
  BY <1>1 DEF RInv, Scanning, Searching, VectorHidesUnindexed
<1>3. Ranking'
  BY <1>1 DEF RInv, Ranking, WordsReachAll
<1>4. QED
  BY <1>1, <1>2, <1>3, OnlyReader

-----------------------------------------------------------------------------
(* What others do *)

LEMMA ImportKeeps == ASSUME RInv, Import PROVE RInv'
<1>1. UNCHANGED reader /\ UNCHANGED vars
  BY DEF Import
<1>2. UNCHANGED <<raw, mark, exists, vectors, pc, model, offset, batch, item, vector, lost, failures>>
  BY <1>1 DEF vars
<1>3. IInv'
  BY <1>2 DEF RInv, IInv, Types, Work, MarkedHasVector, SpacesApart, Records, Spaces
<1>4. other' \subseteq Records /\ (other # None => other \subseteq other')
  BY RetrievalAssumption DEF Import, RInv, Sound
<1>5. Sound'
  BY <1>4 DEF Sound
<1>6. Stored \subseteq Stored'
  <2>1. other' # None
    BY <1>4, RetrievalAssumption
  <2>2. QED
    BY <1>2, <1>4, <2>1 DEF Stored, Points
<1>7. failures' \in Nat /\ failures <= failures'
  BY <1>2 DEF RInv, Ranking
<1>8. QED
  BY <1>1, <1>2, <1>3, <1>5, <1>6, <1>7, ReaderAlone

LEMMA IndexerStepKeeps == ASSUME RInv, Next, UNCHANGED <<other, reader>> PROVE RInv'
<1>1. IInv'
  BY IndexStep DEF RInv
<1>2. /\ raw \subseteq raw' /\ lost \subseteq lost'
      /\ failures' \in Nat /\ failures <= failures'
      /\ \A g \in Spaces : g \in lost' \/ vectors[g] \subseteq vectors'[g]
  BY IndexerKeeps DEF RInv, Ranking
<1>3. Sound'
  BY DEF RInv, Sound
<1>4. Stored \subseteq Stored'
  BY <1>2 DEF Stored, Points
<1>5. QED
  BY <1>1, <1>2, <1>3, <1>4, ReaderAlone

LEMMA RetrievalStep == RInv /\ [RetrievalNext]_all => RInv'
<1> SUFFICES ASSUME RInv, [RetrievalNext]_all PROVE RInv'
  OBVIOUS
<1>1. CASE Read
  BY <1>1, CallScanKeeps, ScanPageKeeps, EmbedQueryKeeps, QueryVectorKeeps, VectorMissesKeeps,
     LexicalPageKeeps, LexicalAnswerKeeps, RecentAnswerKeeps DEF Read
<1>2. CASE Import \/ StartScan \/ StartSearch \/ ScanRaises \/ SearchRaises \/ Done
  BY <1>2, ImportKeeps, StartScanKeeps, StartSearchKeeps, ScanRaisesKeeps, SearchRaisesKeeps,
     DoneKeeps
<1>3. CASE Next /\ UNCHANGED <<other, reader>>
  BY <1>3, IndexerStepKeeps
<1>4. CASE UNCHANGED all
  <2>1. UNCHANGED <<raw, mark, exists, vectors, pc, model, offset, batch, item, vector, lost,
                    failures, other, reader>>
    BY <1>4 DEF all, vars
  <2>2. IInv' /\ Sound'
    BY <2>1 DEF RInv, IInv, Types, Work, MarkedHasVector, SpacesApart, Records, Spaces, Sound
  <2>3. Stored' = Stored
    BY <2>1 DEF Stored, Points
  <2>4. failures' \in Nat /\ failures <= failures'
    BY <2>1 DEF RInv, Ranking
  <2>5. QED
    BY <2>1, <2>2, <2>3, <2>4, ReaderAlone
<1>5. QED
  BY <1>1, <1>2, <1>3, <1>4 DEF RetrievalNext, ReaderNext

-----------------------------------------------------------------------------
(* Types *)

\* A call of scan that goes on has not yet all it was asked for.
LEMMA PageBounded ==
    ASSUME RInv, page \subseteq Stored, Cardinality(page) < TopK, NEW c \in Collections, NEW o
    PROVE  Cardinality(page \cup Tagged(c, Scroll(c, o, TopK - Cardinality(page)))) <= TopK
<1> DEFINE n == TopK - Cardinality(page)
           R == Scroll(c, o, n)
           T == Tagged(c, R)
           f == [r \in R |-> <<c, r>>]
<1>1. TopK \in Nat /\ Cardinality(page) \in Nat /\ IsFiniteSet(page)
  BY MemoriesFinite, FS_Subset, FS_CardinalityType, RetrievalAssumption DEF Stored
<1>2. n \in Nat
  BY <1>1
<1>3. IsFiniteSet(R) /\ Cardinality(R) <= n
  BY <1>2, PointsAreRecords, FirstBounded DEF RInv, Scroll
<1>4. f \in Surjection(R, T)
  BY DEF Surjection, Tagged
<1>5. IsFiniteSet(T) /\ Cardinality(T) <= Cardinality(R)
  BY <1>3, <1>4, FS_Surjection
<1>6. Cardinality(page \cup T) = Cardinality(page) + Cardinality(T) - Cardinality(page \cap T)
  BY <1>1, <1>5, FS_Union
<1>7. IsFiniteSet(page \cap T)
  BY <1>1, FS_Intersection
<1>8. Cardinality(T) \in Nat /\ Cardinality(R) \in Nat /\ Cardinality(page \cap T) \in Nat
  BY <1>3, <1>5, <1>7, FS_CardinalityType
<1>9. QED
  BY <1>1, <1>2, <1>3, <1>5, <1>6, <1>8

\* What a scroll returns is stored, and it leaves off at a point.
LEMMA ScrollStored ==
    ASSUME RInv, NEW c \in Collections, NEW o \in Nat, NEW n \in Int
    PROVE  /\ Tagged(c, Scroll(c, o, n)) \subseteq Stored
           /\ Left(c, o, n) # {} => <<c, Min(Left(c, o, n))>> \in (1..3) \X Nat
           /\ <<c + 1, 1>> \in (1..3) \X Nat
<1>1. Points(c) \subseteq Records
  BY PointsAreRecords DEF RInv
<1>2. ASSUME NEW r \in Scroll(c, o, n) PROVE <<c, r>> \in Stored
  BY <1>1 DEF Scroll, First, Stored, Memories
<1>3. Left(c, o, n) # {} => Min(Left(c, o, n)) \in Nat
  BY ScrollSplits DEF RInv
<1>4. QED
  BY <1>2, <1>3 DEF Tagged, Collections

LEMMA ScanPageTypes == ASSUME RInv, RetrievalTypeOK, ScanPage PROVE RetrievalTypeOK'
<1> DEFINE c == at[1]
           n == TopK - Cardinality(page)
           P == page \cup Tagged(c, Scroll(c, at[2], n))
           L == Left(c, at[2], n)
           next == IF L # {} THEN <<c, Min(L)>> ELSE <<c + 1, 1>>
<1>1. /\ rpc = "page"
      /\ \/ Return(P, next)
         \/ /\ Cardinality(P) # TopK /\ page' = P /\ at' = next
            /\ UNCHANGED <<got, again, cursor, rpc>>
      /\ UNCHANGED <<raw, other, before, space, known>>
  BY DEF ScanPage, vars, search
<1>2. c \in Collections /\ at[2] \in Nat
  BY <1>1 DEF RInv, Scanning
<1>3. Cardinality(page) < TopK /\ page \subseteq Stored
  BY <1>1 DEF RetrievalTypeOK
<1>4. n \in Int /\ TopK \in Nat
  BY <1>3, MemoriesFinite, FS_Subset, FS_CardinalityType, RetrievalAssumption DEF Stored
<1>5. P \subseteq Stored /\ next \in (1..3) \X Nat
  BY <1>2, <1>3, <1>4, ScrollStored
<1>6. Cardinality(P) <= TopK /\ Cardinality(P) \in Nat
  BY <1>2, <1>3, <1>5, PageBounded, MemoriesFinite, FS_Subset, FS_CardinalityType DEF Stored
<1>7. Stored' = Stored
  BY <1>1 DEF Stored, Points
<1>8. CASE Return(P, next)
  BY <1>1, <1>5, <1>7, <1>8 DEF Return, RetrievalTypeOK
<1>9. CASE Cardinality(P) # TopK /\ page' = P /\ at' = next /\ UNCHANGED <<got, again, cursor, rpc>>
  <2>1. Cardinality(P) < TopK
    BY <1>4, <1>6, <1>9
  <2>2. QED
    BY <1>1, <1>5, <1>7, <1>9, <2>1 DEF RetrievalTypeOK
<1>10. QED
  BY <1>1, <1>8, <1>9

LEMMA TypesStep == RInv /\ RetrievalTypeOK /\ [RetrievalNext]_all => RetrievalTypeOK'
<1> SUFFICES ASSUME RInv, RetrievalTypeOK, [RetrievalNext]_all PROVE RetrievalTypeOK'
  OBVIOUS
<1>1. TopK \in Nat \ {0} /\ Cardinality({}) = 0 /\ <<1, 1>> \in (1..3) \X Nat
  BY RetrievalAssumption, FS_EmptySet
<1>2. \A H \in SUBSET raw : Tagged(1, H) \subseteq Stored
  <2>1. raw \subseteq Records
    BY DEF RInv, IInv, Types
  <2>2. QED
    BY <2>1 DEF Tagged, Stored, Memories, Collections, Points
<1>3. CASE UNCHANGED <<raw, other>>
  <2>1. Stored' = Stored
    BY <1>3 DEF Stored, Points
  <2>2. CASE StartScan \/ CallScan \/ ScanRaises \/ StartSearch \/ Done
    <3>1. {cursor', at'} \subseteq (1..3) \X Nat
      BY <1>1, <2>2 DEF StartScan, CallScan, ScanRaises, StartSearch, Done, RetrievalTypeOK, scan
    <3>2. CASE StartScan \/ StartSearch \/ Done
      BY <1>3, <2>1, <3>1, <3>2 DEF StartScan, StartSearch, Done, RetrievalTypeOK, scan, search
    <3>3. CASE CallScan
      BY <1>1, <1>3, <2>1, <3>1, <3>3 DEF CallScan, RetrievalTypeOK, scan, search
    <3>4. CASE ScanRaises
      BY <1>3, <2>1, <3>1, <3>4 DEF ScanRaises, RetrievalTypeOK, scan, search
    <3>5. QED
      BY <2>2, <3>2, <3>3, <3>4
  <2>3. CASE EmbedQuery \/ VectorMisses \/ SearchRaises
    BY <1>1, <1>3, <2>1, <2>3 DEF EmbedQuery, VectorMisses, SearchRaises, Degrade, Answer,
       RetrievalTypeOK, scan, search, Modes
  <2>4. CASE QueryVector
    <3>1. space \in Spaces /\ rpc' = "by vector" /\ page' = {} /\ at' = <<1, 1>>
          /\ UNCHANGED <<cursor, again, before, space, known>>
      BY <2>4 DEF QueryVector, Answer, RInv, Searching, scan, search
    <3>2. PICK H \in SUBSET vectors[space] : got' = Tagged(1, {v[1] : v \in H})
      BY <2>4 DEF QueryVector, Answer, Generation
    <3>3. {v[1] : v \in H} \in SUBSET raw
      <4>1. ASSUME NEW v \in H PROVE v[1] \in raw
        BY <3>1, <3>2 DEF RInv, IInv, SpacesApart
      <4>2. QED
        BY <4>1
    <3>4. got' \subseteq Stored
      BY <1>2, <3>2, <3>3
    <3>5. QED
      BY <1>1, <1>3, <2>1, <3>1, <3>4 DEF RetrievalTypeOK, Modes
  <2>5. CASE LexicalPage
    <3> DEFINE n == Min({PageSize, LexicalMax - Cardinality(page)})
               L == Left(at[1], at[2], n)
    <3>1. /\ at[1] \in Collections /\ at[2] \in Nat /\ Cardinality(page) < LexicalMax
          /\ rpc = "lexical" /\ UNCHANGED <<rpc, cursor, again, got, before, space, known>>
          /\ page' = page \cup Tagged(at[1], Scroll(at[1], at[2], n))
          /\ at' = IF L = {} THEN <<at[1] + 1, 1>> ELSE <<at[1], Min(L)>>
      BY <2>5 DEF LexicalPage, RetrievalTypeOK, scan, search
    <3>2. n \in Int
      <4>1. Cardinality(page) \in Nat /\ LexicalMax \in Nat /\ PageSize \in Nat
        BY MemoriesFinite, FS_Subset, FS_CardinalityType, RetrievalAssumption, IndexAssumption
           DEF RetrievalTypeOK, Stored
      <4>2. LexicalMax - Cardinality(page) \in Nat
        BY <3>1, <4>1
      <4>3. QED
        BY <4>1, <4>2, MinOfTwo
    <3>3. page' \subseteq Stored /\ at' \in (1..3) \X Nat
      BY <3>1, <3>2, ScrollStored DEF RetrievalTypeOK
    <3>4. QED
      BY <1>3, <2>1, <3>1, <3>3 DEF RetrievalTypeOK
  <2>6. CASE LexicalAnswer \/ RecentAnswer
    BY <1>1, <1>2, <1>3, <2>1, <2>6 DEF LexicalAnswer, RecentAnswer, Answer, RetrievalTypeOK, scan,
       search, Modes
  <2>7. CASE UNCHANGED reader
    BY <1>3, <2>1, <2>7 DEF reader, RetrievalTypeOK
  <2>8. QED
    BY <2>2, <2>3, <2>4, <2>5, <2>6, <2>7, ScanPageTypes
       DEF RetrievalNext, ReaderNext, Read, Import, all
<1>4. CASE Import \/ (Next /\ UNCHANGED <<other, reader>>)
  <2>1. raw \subseteq raw' /\ UNCHANGED reader /\ RInv'
    BY <1>4, IndexerKeeps, ImportKeeps, IndexerStepKeeps DEF Import, vars, RInv, Ranking
  <2>2. /\ other' \in (SUBSET Records) \cup {None}
        /\ other = None \/ (other' # None /\ other \subseteq other')
    <3>1. CASE other' = other
      BY <3>1 DEF RetrievalTypeOK
    <3>2. CASE other = None /\ other' = {}
      BY <3>2, RetrievalAssumption
    <3>3. ASSUME other # None, NEW r \in Foreign, other' = other \cup {r}
          PROVE  other' \in SUBSET Records /\ other \subseteq other'
      <4>1. other \in SUBSET Records
        BY <3>3 DEF RetrievalTypeOK
      <4>2. Foreign \subseteq Records
        BY RetrievalAssumption
      <4>3. QED
        BY <3>3, <4>1, <4>2
    <3>4. QED
      BY <1>4, <3>1, <3>2, <3>3, RetrievalAssumption DEF Import
  <2>3. Stored \subseteq Stored'
    BY <2>1, <2>2 DEF Stored, Points
  <2>4. QED
    BY <2>1, <2>2, <2>3 DEF reader, RetrievalTypeOK
<1>5. CASE ReaderNext \/ UNCHANGED all
  <2>1. Import \/ UNCHANGED <<raw, other>>
    BY <1>5 DEF ReaderNext, Read, StartScan, CallScan, ScanPage, ScanRaises, StartSearch, EmbedQuery,
       QueryVector, VectorMisses, LexicalPage, LexicalAnswer, RecentAnswer, SearchRaises, Done,
       Failure, vars, qdrant, all
  <2>2. QED
    BY <1>3, <1>4, <2>1
<1>6. QED
  BY <1>4, <1>5 DEF RetrievalNext

-----------------------------------------------------------------------------
(* Theorems *)

\* What a scan and a search have passed, they have handed over or hold in
\* their page, whatever arrives, fails, restarts or is dropped meanwhile.
THEOREM RetrievalInductive == RetrievalSpec => []RInv
<1>1. Init /\ ReaderInit => RInv
  BY RetrievalInit
<1>2. RInv /\ [RetrievalNext]_all => RInv'
  BY RetrievalStep
<1>3. QED
  BY <1>1, <1>2, PTL DEF RetrievalSpec

\* memory_scan, paged to its end, hands out all that was there when it began,
\* and nothing twice (service.py:106-150, README.md:106).
THEOREM ScanIsComplete == RetrievalSpec => []ScanComplete
<1>1. RInv => ScanComplete
  BY DEF RInv, Scanning, ScanComplete
<1>2. QED
  BY <1>1, RetrievalInductive, PTL

\* A vector answer leaves out only what had no vector of the query's generation,
\* or what TopK others exceed (service.py:287-306).
THEOREM VectorHidesOnlyUnindexed == RetrievalSpec => []VectorHidesUnindexed
<1>1. RInv => VectorHidesUnindexed
  BY DEF RInv, Searching
<1>2. QED
  BY <1>1, RetrievalInductive, PTL

\* Up to lexical_max_points memories, words find what vectors do not, and recent
\* records are offered only when no memory has the words (service.py:312-354).
THEOREM WordsFindAll == RetrievalSpec => []WordsReachAll
<1>1. RInv => WordsReachAll
  BY DEF RInv, Ranking
<1>2. QED
  BY <1>1, RetrievalInductive, PTL

\* Type correctness: what a reader holds and was handed is stored, and a call of
\* memory_scan that goes on has less than it was asked for (service.py:131-146).
THEOREM RetrievalTypesHold == RetrievalSpec => []RetrievalTypeOK
<1>1. Init /\ ReaderInit => RetrievalTypeOK
  <2> SUFFICES ASSUME Init, ReaderInit PROVE RetrievalTypeOK
    OBVIOUS
  <2>1. cursor = <<1, 1>> /\ at = <<1, 1>> /\ <<1, 1>> \in (1..3) \X Nat
    BY DEF ReaderInit
  <2>2. {cursor, at} \subseteq (1..3) \X Nat
    BY <2>1
  <2>3. again \in BOOLEAN /\ rpc \in {"idle"} /\ rpc # "page"
    BY DEF ReaderInit
  <2>4. /\ page = {} /\ got = {} /\ before = {} /\ known = {}
        /\ other \in (SUBSET Records) \cup {None} /\ space \in Spaces \cup {None}
    BY DEF ReaderInit
  <2>5. QED
    BY <2>2, <2>3, <2>4 DEF RetrievalTypeOK
<1>2. RInv /\ RetrievalTypeOK /\ [RetrievalNext]_all => RetrievalTypeOK'
  BY TypesStep
<1>3. QED
  BY <1>1, <1>2, RetrievalInductive, PTL DEF RetrievalSpec
=============================================================================
