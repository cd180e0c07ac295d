---------------------------- MODULE MCAdmission ----------------------------
(* Instances of Admission for TLC.                                         *)
EXTENDS Admission, TLC

\* Processes, runs and conversation names are interchangeable.
Symmetry == Permutations(Procs) \cup Permutations(Runs) \cup Permutations(NewConvs)

\* Bound of MCAdmissionCrash.cfg: a file is unreadable in behaviours with at most
\* one killed process, the manager or the supervisor.
FewFaults == unreadable = 0 \/ crashes + supCrashes <= 1

=============================================================================
