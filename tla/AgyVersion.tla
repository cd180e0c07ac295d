----------------------------- MODULE AgyVersion -----------------------------
(* How a version is read off what `agy --version` prints (agyver/agyver.go). *)
(* An output is a sequence of lines. A line is whole when it holds nothing   *)
(* but one version, flush left; any other line is the dotted triples on it,  *)
(* each with what surrounds it.                                              *)
EXTENDS Integers, Sequences, SequencesExt

Version(major, minor, patch) == [major |-> major, minor |-> minor, patch |-> patch]

Required == Version(1, 1, 15)

Numbers == [major : Nat, minor : Nat, patch : Nat]
DottedTriple == [version : Numbers, overflows : BOOLEAN, chained : BOOLEAN,
                 slashBefore : BOOLEAN, slashEarlier : BOOLEAN]
Line == [whole : BOOLEAN, triples : Seq(DottedTriple)]

AtLeast(v, o) ==
    IF v.major # o.major THEN v.major > o.major
    ELSE IF v.minor # o.minor THEN v.minor > o.minor
    ELSE v.patch >= o.patch

ImplausibleMajor == 1000

\* A candidate with too large a major (a date), or a run of digits no int holds.
Usable(t) == ~t.overflows /\ t.version.major < ImplausibleMajor

---------------------------------------------------------------------------
(* The tiers: how strongly the surroundings say that it is the version.    *)
TierNone == 0
TierEmbedded == 1
TierCredible == 2
TierWholeLine == 3

\* A separator right before the triple, and one more before it in the token.
InPathToken(t) == t.slashBefore /\ t.slashEarlier

\* A digit across a dot on either side: an address or a longer chain.
Classify(t) == IF t.chained \/ InPathToken(t) THEN TierEmbedded ELSE TierCredible

Candidates(line) ==
    [i \in 1..Len(line.triples) |->
        [tier |-> IF line.whole THEN TierWholeLine ELSE Classify(line.triples[i]),
         triple |-> line.triples[i]]]

AllCandidates(out) == FoldLeft(LAMBDA cs, line : cs \o Candidates(line), <<>>, out)

NoVersion == [tier |-> TierNone, version |-> Version(0, 0, 0)]

\* Mutant of Better: the last candidate of the best tier wins.
BetterOrLater(best, c) ==
    IF Usable(c.triple) /\ c.tier >= best.tier
    THEN [tier |-> c.tier, version |-> c.triple.version]
    ELSE best

\* The first usable candidate of the best tier.
Better(best, c) ==
    IF Usable(c.triple) /\ c.tier > best.tier
    THEN [tier |-> c.tier, version |-> c.triple.version]
    ELSE best

Parse(out) == FoldLeft(Better, NoVersion, AllCandidates(out))

Parses(out) == Parse(out).tier # TierNone
===========================================================================
