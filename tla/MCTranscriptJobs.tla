--------------------------- MODULE MCTranscriptJobs ---------------------------
(* Model values for TLC. *)
EXTENDS TranscriptJobs, TLC
CONSTANTS t1, t2, x1, b1, h1, h2, d1, d2

HookSymmetry == Permutations(Hooks)
=============================================================================
