--------------------------- MODULE MCDeploymentSeal ---------------------------
(* Model values for TLC. *)
EXTENDS DeploymentSeal
CONSTANTS i1, s1
=============================================================================
