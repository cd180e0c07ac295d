----------------------------- MODULE MCAgyGate -----------------------------
(* An instance of AgyGate for TLC.                                         *)
EXTENDS AgyGate, TLC

Triple(v) == [version |-> v, overflows |-> FALSE, chained |-> FALSE,
              slashBefore |-> FALSE, slashEarlier |-> FALSE]
InPath(v) == [Triple(v) EXCEPT !.slashBefore = TRUE, !.slashEarlier = TRUE]
Alone(v) == [whole |-> TRUE, triples |-> <<Triple(v)>>]
Among(ts) == [whole |-> FALSE, triples |-> ts]

Listing == [exits |-> TRUE, parses |-> TRUE, success |-> TRUE, named |-> TRUE, models |-> TRUE]
Agy(v, out) == [version |-> v, out |-> out, hangs |-> FALSE, listing |-> Listing]

\* At the floor, below a dated line and above an upgrade notice; old, between a
\* newer one's path and a notice; new and decorated, naming an old component and
\* listing what was not asked for; one that hangs after it printed a version; one
\* that prints nothing but a number too long to be a version.
MCBinaries ==
    { Agy(Required, << Among(<<InPath(Version(1, 0, 0))>>), Alone(Version(2026, 7, 29)),
                       Alone(Required), Alone(Version(9, 9, 9)) >>),
      Agy(Version(1, 0, 5), << Among(<<InPath(Version(2, 0, 0))>>),
                               Among(<<Triple(Version(1, 0, 5))>>),
                               Among(<<Triple(Version(9, 9, 9))>>) >>),
      [Agy(Version(1, 4, 8), << Among(<<Triple(Version(1, 4, 8)), Triple(Version(0, 9, 1))>>),
                                Among(<<[Triple(Version(127, 0, 0)) EXCEPT !.chained = TRUE]>>) >>)
          EXCEPT !.listing.named = FALSE],
      [Agy(Version(1, 4, 8), <<Alone(Version(1, 4, 8))>>) EXCEPT !.hangs = TRUE],
      Agy(NoVersion.version, << Among(<<[Triple(Version(7, 0, 0)) EXCEPT !.overflows = TRUE]>>) >>) }

\* A state dir that is there, one to be created two levels down, a file.
MCAncestors == { <<"writable", "writable">>, <<"absent", "absent", "writable">>,
                 <<"absent", "readonly", "writable">>, <<"file", "writable">> }

\* Calls and paths are interchangeable.
Symmetry == Permutations(Callers) \cup Permutations(Paths)
\* The two processes share nothing but the installation, which neither changes:
\* a behaviour of one is looked at while the other has not started.
Apart == doctor.pc = "idle" \/ \A c \in Callers : caller[c].pc = "idle"
===========================================================================
