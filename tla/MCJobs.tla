-------------------------------- MODULE MCJobs --------------------------------
(* Jobs for TLC; no symmetry, since the run checks liveness. *)
EXTENDS Jobs

CONSTANTS r1
=============================================================================
