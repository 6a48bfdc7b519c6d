------------------------------ MODULE WriteOnce ------------------------------
(***************************************************************************)
(* What an idempotency key promises: whatever is written under it first    *)
(* stays.  There are no retries, files, servers or crashes here.           *)
(***************************************************************************)
CONSTANTS
    Keys,     \* idempotency keys
    Values,   \* what may be written under one
    NoValue   \* what a key holds that was never written

VARIABLE store  \* store[k]: what key k holds

OnceInit == store = [k \in Keys |-> NoValue]

Write(k, v) ==
    /\ store[k] = NoValue
    /\ store' = [store EXCEPT ![k] = v]

OnceNext == \E k \in Keys, v \in Values : Write(k, v)

OnceSpec == OnceInit /\ [][OnceNext]_store
=============================================================================
