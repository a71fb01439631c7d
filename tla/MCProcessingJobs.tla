-------------------------- MODULE MCProcessingJobs --------------------------
(* ProcessingJobs for TLC.  Liveness is checked, so there is no symmetry set. *)
EXTENDS ProcessingJobs, TLC
=============================================================================
