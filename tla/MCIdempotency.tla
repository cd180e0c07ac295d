--------------------------- MODULE MCIdempotency ---------------------------
(* Instances of Idempotency for TLC.                                       *)
EXTENDS Idempotency, TLC

\* Processes, calls and requests are interchangeable.
Symmetry == Permutations(Procs) \cup Permutations(Calls) \cup Permutations(Requests)
=============================================================================
