-------------------------------- MODULE Outbox --------------------------------
(***************************************************************************)
(* What a durable outbox promises: a message that was promised is sent, or *)
(* still held where a crash leaves it; none is dropped before it was sent, *)
(* and none is sent that was not held.  There are no files, listings,      *)
(* receipts or processes here.                                             *)
(***************************************************************************)
CONSTANT Messages

VARIABLES
    held,      \* messages in the box
    safe,      \* messages that a crash leaves in the box
    promised,  \* messages whose sender was told that they will be sent
    done       \* messages that were sent

boxVars == <<held, safe, promised, done>>

OutboxInit == held = {} /\ safe = {} /\ promised = {} /\ done = {}

\* A message is put in, for the first time or again.
Capture(m) ==
    /\ held' = held \cup {m}
    /\ UNCHANGED <<safe, promised, done>>

\* What is in the box will survive a crash; what is in it, or was sent from it,
\* may be promised.
Flush(M) ==
    /\ M \subseteq held \cup done
    /\ safe' = held
    /\ promised' = promised \cup M
    /\ UNCHANGED <<held, done>>

Deliver(m) ==
    /\ m \in held
    /\ done' = done \cup {m}
    /\ UNCHANGED <<held, safe, promised>>

Clear(m) ==
    /\ m \in done
    /\ held' = held \ {m}
    /\ UNCHANGED <<safe, promised, done>>

\* What was put in or cleared since the last flush may be undone, or not.
Crash ==
    /\ held \cap safe \subseteq held' /\ held' \subseteq held \cup safe
    /\ safe' = held'
    /\ UNCHANGED <<promised, done>>

OutboxNext ==
    \/ \E m \in Messages : Capture(m) \/ Deliver(m) \/ Clear(m)
    \/ \E M \in SUBSET Messages : Flush(M)
    \/ Crash

OutboxSpec == OutboxInit /\ [][OutboxNext]_boxVars
=============================================================================
