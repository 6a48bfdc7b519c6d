---------------------------- MODULE MCIndexWorker ----------------------------
(* Model values for TLC. *)
EXTENDS IndexWorker
CONSTANTS ma, mb, w1, w2
=============================================================================
