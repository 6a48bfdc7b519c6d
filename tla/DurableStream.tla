---------------------------- MODULE DurableStream ----------------------------
(***************************************************************************)
(* What MemoryBridge's raw collection promises its callers: an append-only *)
(* stream.  A record is stored once, under its id, by its first writer,    *)
(* behind everything already stored and read; nothing stored ever changes; *)
(* and a reader whose cursor moves over a record has been handed it.       *)
(*                                                                         *)
(* There is no server, lock, clock, page or Qdrant here.  MemoryService    *)
(* implements this module under the identity mapping of these variables.   *)
(***************************************************************************)
EXTENDS Naturals

CONSTANTS
    Ids,        \* memory ids
    Bodies,     \* contents a caller may ask to store
    NoBody,     \* the body of an id that stores nothing
    Consumers   \* readers that follow the stream by cursor

VARIABLES
    raw,        \* raw[i]: the record of id i, seq 0 when there is none
    cursor,     \* cursor[k]: the position consumer k reads from next
    seen        \* seen[k]: the ids consumer k has been handed

streamVars == <<raw, cursor, seen>>

StreamInit ==
    /\ raw = [i \in Ids |-> [seq |-> 0, body |-> NoBody]]
    /\ cursor = [k \in Consumers |-> 0]
    /\ seen = [k \in Consumers |-> {}]

\* The first writer of i stores b behind every record and every reader.  The
\* position is any that is free there: the implementation reads a wall clock.
Append(i, b) ==
    LET n == raw'[i].seq IN
    /\ raw[i].seq = 0
    /\ \A j \in Ids : raw[j].seq < n
    /\ \A k \in Consumers : cursor[k] < n
    /\ raw' = [raw EXCEPT ![i] = [seq |-> n, body |-> b]]
    /\ UNCHANGED <<cursor, seen>>

\* Consumer k advances to a record's position and is handed all it passes.
Follow(k) ==
    \E h \in {raw[i].seq : i \in Ids} :
        /\ h > cursor[k]
        /\ cursor' = [cursor EXCEPT ![k] = h]
        /\ seen' = [seen EXCEPT ![k] =
                        @ \cup {i \in Ids : cursor[k] < raw[i].seq /\ raw[i].seq <= h}]
        /\ UNCHANGED raw

StreamNext ==
    \/ \E i \in Ids, b \in Bodies : Append(i, b)
    \/ \E k \in Consumers : Follow(k)

StreamSpec == StreamInit /\ [][StreamNext]_streamVars
=============================================================================
