---------------------------- MODULE MCDailySummary ----------------------------
(* Instances of DailySummary for TLC. *)
EXTENDS DailySummary

\* Two conversations of the first day.
MCKeys == {<<1, 1>>, <<1, 2>>}

MCLength == [k \in MCKeys |-> k[2]]

\* The first is a local transcript.
MCTranscripts == {<<1, 1>>}

NoKeys == {}
=============================================================================
