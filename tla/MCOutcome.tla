----------------------------- MODULE MCOutcome -----------------------------
(* Every kind of finished directory, for TLC.                              *)
EXTENDS Outcome

\* The codes the manager tells apart, and one it does not.
MCCodes == {0, 1, ExitTimeout, ExitSpawnFail, ExitSIGINT, ExitSIGTERM}
MCNoCode == -1
=============================================================================
