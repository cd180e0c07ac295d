---------------------------- MODULE MCSupervisor ----------------------------
(***************************************************************************)
(* TLC instances of Supervisor: the constants are given in the .cfg files. *)
(***************************************************************************)
EXTENDS Supervisor, TLC
=============================================================================
