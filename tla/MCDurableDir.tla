---------------------------- MODULE MCDurableDir ----------------------------
(* An instance of DurableDir for TLC: the state root, jobs/ and the job's.   *)
EXTENDS DurableDir, TLC
=============================================================================
