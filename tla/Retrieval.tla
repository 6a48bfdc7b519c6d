------------------------------ MODULE Retrieval ------------------------------
(***************************************************************************)
(* The reading tools over what memory_put and the indexer write: a client  *)
(* that pages through all memories with memory_scan (MemoryService.scan),  *)
(* and memory_search with its layers: vectors of the embedding's           *)
(* generation, lexical ranking of what the collections hold, recent        *)
(* records.  Between any two calls to Qdrant records arrive in the write   *)
(* collection and in a source collection that others fill, the indexer     *)
(* goes on, workers change their model and collections are dropped.        *)
(*                                                                         *)
(* Further vector collections that an operator may name are left out.      *)
(***************************************************************************)
EXTENDS IndexWorker

CONSTANTS
    Foreign,    \* records that others put into the source collection
    Matching,   \* memories that contain the words of the query
    TopK,       \* limit of a call
    LexicalMax  \* lexical_max_points

\* all_source_collections: 1 is the write collection, 2 a source collection.
Collections == 1..2
Memories == Collections \X Records

ASSUME RetrievalAssumption ==
    /\ Foreign \subseteq Records /\ Matching \subseteq Memories
    /\ \A R \in SUBSET Records : None # R
    /\ {TopK, LexicalMax} \subseteq Nat \ {0}

VARIABLES
    other,    \* records of the source collection, None while it does not exist
    rpc,      \* where the client's call is
    cursor,   \* the scan cursor the client has, as <<collection, first record>>
    at,       \* the same, within a call of scan or of the lexical layer
    page,     \* memories the call has collected
    got,      \* memories the client was handed
    again,    \* some memory was handed out twice
    before,   \* memories that were there when the scan or search began
    space,    \* model and dimension of the query's vector
    known     \* records with a vector in it when the search began

scan == <<cursor, again>>
search == <<space, known>>
reader == <<rpc, cursor, at, page, got, again, before, space, known>>
all == <<vars, other, reader>>

ReaderInit ==
    /\ other = None
    /\ rpc = "idle" /\ cursor = <<1, 1>> /\ at = <<1, 1>>
    /\ page = {} /\ got = {} /\ again = FALSE /\ before = {}
    /\ space = None /\ known = {}

Points(c) == IF c = 1 THEN raw ELSE IF other = None THEN {} ELSE other
Stored == {m \in Memories : m[2] \in Points(m[1])}

\* Others create the source collection and write it.
Import ==
    /\ other' \in IF other = None THEN {{}} ELSE {other \cup {r} : r \in Foreign \ other}
    /\ UNCHANGED <<vars, reader>>

\* A scroll of collection c from record o: a page, and what it leaves.
Scroll(c, o, n) == First({r \in Points(c) : r >= o}, n)
Left(c, o, n) == {r \in Points(c) : r >= o} \ Scroll(c, o, n)
Tagged(c, R) == {<<c, r>> : r \in R}

-----------------------------------------------------------------------------
(* scan *)

StartScan ==
    /\ rpc = "idle"
    /\ rpc' = "scan"
    /\ cursor' = <<1, 1>> /\ got' = {} /\ again' = FALSE
    /\ before' = Stored
    /\ UNCHANGED <<vars, other, at, page, search>>

CallScan ==
    /\ rpc = "scan"
    /\ at' = cursor /\ page' = {}
    /\ rpc' = "page"
    /\ UNCHANGED <<vars, other, scan, got, before, search>>

\* The call returns its page: the client has it, and asks on from c.
Return(P, c) ==
    /\ got' = got \cup P
    /\ again' = (again \/ P \cap got # {})
    /\ cursor' = c
    /\ rpc' = IF c[1] \in Collections THEN "scan" ELSE "scanned"
    /\ at' = <<1, 1>> /\ page' = {}

\* Mutants: the next page starts one late; a call goes on although its page is
\* full.
ScanPage_Late ==
    /\ rpc = "page"
    /\ LET n == TopK - Cardinality(page)
           P == page \cup Tagged(at[1], Scroll(at[1], at[2], n))
           L == Left(at[1], at[2], n)
       IN IF L # {} THEN Return(P, <<at[1], Min(L) + 1>>)
          ELSE Return(P, <<at[1] + 1, 1>>)
    /\ UNCHANGED <<vars, other, before, search>>

ScanPage_NoLimit ==
    /\ rpc = "page"
    /\ LET n == TopK - Cardinality(page)
           P == page \cup Tagged(at[1], Scroll(at[1], at[2], n))
           L == Left(at[1], at[2], n)
       IN IF L # {} THEN Return(P, <<at[1], Min(L)>>)
          ELSE IF at[1] = 2 THEN Return(P, <<at[1] + 1, 1>>)
          ELSE /\ page' = P /\ at' = <<at[1] + 1, 1>>
               /\ UNCHANGED <<got, again, cursor, rpc>>
    /\ UNCHANGED <<vars, other, before, search>>

\* One collection's page; a call goes on with the next collection until it has
\* TopK memories.
ScanPage ==
    /\ rpc = "page"
    /\ LET n == TopK - Cardinality(page)
           P == page \cup Tagged(at[1], Scroll(at[1], at[2], n))
           L == Left(at[1], at[2], n)
       IN IF L # {} THEN Return(P, <<at[1], Min(L)>>)
          ELSE IF at[1] = 2 \/ Cardinality(P) = TopK THEN Return(P, <<at[1] + 1, 1>>)
          ELSE /\ page' = P /\ at' = <<at[1] + 1, 1>>
               /\ UNCHANGED <<got, again, cursor, rpc>>
    /\ UNCHANGED <<vars, other, before, search>>

Failure ==
    /\ failures < MaxFailures /\ failures' = failures + 1
    /\ UNCHANGED <<qdrant, pc, model, offset, batch, item, vector, lost>>

\* The call raises; the client repeats it with the cursor it has.
ScanRaises ==
    /\ rpc = "page"
    /\ Failure
    /\ rpc' = "scan" /\ page' = {} /\ at' = <<1, 1>>
    /\ UNCHANGED <<other, scan, got, before, search>>

-----------------------------------------------------------------------------
(* search *)

StartSearch ==
    /\ rpc = "idle"
    /\ rpc' = "embed"
    /\ before' = Stored /\ got' = {}
    /\ UNCHANGED <<vars, other, scan, at, page, search>>

\* The layer has nothing, or raised: the next one is asked.
Degrade == rpc' = "lexical" /\ at' = <<1, 1>> /\ page' = {}

\* The server's model embeds the query, or the provider fails, however often.
EmbedQuery ==
    /\ rpc = "embed"
    /\ \/ \E v \in Spaces :
            /\ space' = v /\ known' = {r \in raw : <<r, v>> \in vectors[Generation(v)]}
            /\ rpc' = "vector"
            /\ UNCHANGED <<at, page>>
       \/ Degrade /\ UNCHANGED search
    /\ UNCHANGED <<vars, other, scan, got, before>>

Answer(mode, H) == rpc' = mode /\ got' = H /\ page' = {} /\ at' = <<1, 1>>

\* Mutant: the query goes to any generation that exists.
QueryVector_AnyGeneration ==
    /\ rpc = "vector"
    /\ \E g \in exists, H \in SUBSET (Records \X Spaces) :
        /\ H \subseteq vectors[g]
        /\ Cardinality(H) = Min({TopK, Cardinality(vectors[g])})
        /\ H # {}
        /\ Answer("by vector", Tagged(1, {v[1] : v \in H}))
    /\ UNCHANGED <<vars, other, scan, before, search>>

\* The TopK nearest points of the generation's collection, relevant or not.
QueryVector ==
    /\ rpc = "vector"
    /\ Generation(space) \in exists
    /\ \E H \in SUBSET vectors[Generation(space)] :
        /\ Cardinality(H) = Min({TopK, Cardinality(vectors[Generation(space)])})
        /\ H # {}
        /\ Answer("by vector", Tagged(1, {v[1] : v \in H}))
    /\ UNCHANGED <<vars, other, scan, before, search>>

\* The collection is missing or empty, or Qdrant raises here.
VectorMisses ==
    /\ rpc = "vector"
    /\ \/ vectors[Generation(space)] = {} /\ UNCHANGED vars
       \/ Failure
    /\ Degrade
    /\ UNCHANGED <<other, scan, got, before, search>>

\* Mutant: only the first page of each collection is ranked.
LexicalPage_FirstOnly ==
    /\ rpc = "lexical"
    /\ at[1] \in Collections /\ Cardinality(page) < LexicalMax
    /\ LET n == Min({PageSize, LexicalMax - Cardinality(page)})
       IN /\ page' = page \cup Tagged(at[1], Scroll(at[1], at[2], n))
          /\ at' = <<at[1] + 1, 1>>
    /\ UNCHANGED <<vars, other, rpc, scan, got, before, search>>

\* All collections are read page by page, up to LexicalMax points.
LexicalPage ==
    /\ rpc = "lexical"
    /\ at[1] \in Collections /\ Cardinality(page) < LexicalMax
    /\ LET n == Min({PageSize, LexicalMax - Cardinality(page)})
           L == Left(at[1], at[2], n)
       IN /\ page' = page \cup Tagged(at[1], Scroll(at[1], at[2], n))
          /\ at' = IF L = {} THEN <<at[1] + 1, 1>> ELSE <<at[1], Min(L)>>
    /\ UNCHANGED <<vars, other, rpc, scan, got, before, search>>

\* lexical_rank: the TopK best of those with a positive score.
LexicalAnswer ==
    /\ rpc = "lexical"
    /\ at[1] \notin Collections \/ Cardinality(page) = LexicalMax
    /\ IF page \cap Matching = {}
       THEN rpc' = "recent" /\ at' = <<1, 1>> /\ page' = {} /\ UNCHANGED got
       ELSE \E H \in SUBSET (page \cap Matching) :
              /\ Cardinality(H) = Min({TopK, Cardinality(page \cap Matching)})
              /\ Answer("by words", H)
    /\ UNCHANGED <<vars, other, scan, before, search>>

RecentAnswer ==
    /\ rpc = "recent"
    /\ \E H \in SUBSET raw :
        /\ Cardinality(H) = Min({TopK, Cardinality(raw)})
        /\ Answer("recent ones", Tagged(1, H))
    /\ UNCHANGED <<vars, other, scan, before, search>>

\* Qdrant raises where search has no layer below.
SearchRaises ==
    /\ rpc \in {"lexical", "recent"}
    /\ Failure
    /\ Answer("error", {})
    /\ UNCHANGED <<other, scan, before, search>>

Modes == {"by vector", "by words", "recent ones", "error"}

\* The client is done with what it was handed.
Done ==
    /\ rpc \in Modes \cup {"scanned"}
    /\ rpc' = "idle"
    /\ got' = {} /\ before' = {} /\ cursor' = <<1, 1>> /\ space' = None /\ known' = {}
    /\ UNCHANGED <<vars, other, at, page, again>>

-----------------------------------------------------------------------------
Read ==
    \/ CallScan \/ ScanPage
    \/ EmbedQuery \/ QueryVector \/ VectorMisses \/ LexicalPage \/ LexicalAnswer \/ RecentAnswer

ReaderNext == Import \/ StartScan \/ StartSearch \/ Read \/ ScanRaises \/ SearchRaises \/ Done

RetrievalNext == ReaderNext \/ (Next /\ UNCHANGED <<other, reader>>)

RetrievalSpec == Init /\ ReaderInit /\ [][RetrievalNext]_all

-----------------------------------------------------------------------------
(* Properties *)

\* Every variable holds what the code may put there.
RetrievalTypeOK ==
    /\ other \in (SUBSET Records) \cup {None}
    /\ rpc \in Modes \cup {"idle", "scan", "page", "scanned", "embed", "vector", "lexical", "recent"}
    /\ {cursor, at} \subseteq (1..3) \X Nat
    /\ rpc = "page" => Cardinality(page) < TopK
    /\ page \subseteq Stored /\ got \subseteq Stored /\ before \subseteq Stored
    /\ again \in BOOLEAN
    /\ space \in Spaces \cup {None} /\ known \subseteq raw

\* README.md:106 memory_scan enumerates records for a first-time import: whoever
\* pages to the end was handed each memory that was there at the start, whatever
\* arrives before or behind the cursor, in this collection or the next, and none
\* twice, although calls that raised are repeated.
ScanComplete == (rpc = "scanned" => before \subseteq got) /\ ~again

\* What a vector answer leaves out had no vector in the generation of the query
\* when it was embedded, or as many others are nearer; a collection that was
\* dropped is excepted (service.py:287-306).
VectorHidesUnindexed ==
    rpc = "by vector" /\ Generation(space) \notin lost =>
        Tagged(1, known) \subseteq got \/ Cardinality(got) = TopK

\* Below the vector layer nothing that was stored is out of reach, indexed or
\* not: a memory with the words of the query is found by them, and recent ones
\* are offered only when there is none (service.py:312-354).  And an embedding
\* failure never blocks this (README.md:250-252): only Qdrant's makes search raise.
Reached == Cardinality(Stored) <= LexicalMax

WordsReachAll ==
    Reached =>
        /\ rpc = "by words" => before \cap Matching \subseteq got \/ Cardinality(got) = TopK
        /\ rpc = "recent ones" => before \cap Matching = {}
        /\ rpc = "error" => failures # 0
=============================================================================
