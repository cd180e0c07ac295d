---------------------------- MODULE AgyGateProofs ----------------------------
(***************************************************************************)
(* Proofs about AgyGate, for any calls, paths, agys and changes of the     *)
(* installation.                                                           *)
(*                                                                         *)
(* Two things carry them. One is ParseExact: the loop of agyver.Parse ends *)
(* with the first usable candidate of the best tier, whatever is printed,  *)
(* so that a verdict is about agy's own version. The other is the          *)
(* invariant, which keeps for a call what it saw of its path since it      *)
(* resolved it (KnownCall), and for the doctor what its checks so far say  *)
(* of an installation that has not changed since it started (Undisturbed). *)
(***************************************************************************)
EXTENDS AgyGate, FiniteSetTheorems, SequenceTheorems, WellFoundedInduction, TLAPS

Agys == Binaries \cup {Absent}

Verdicts == {"ok", "missing", "timeout", "unparsed", "old", "cancelled"}

Call == [pc : {"idle", "lock", "probe", "done"}, path : Paths \cup {NoPath},
         raw : Agys, answer : Verdicts \cup {"none"}, saw : SUBSET BOOLEAN]

Stages == {"idle", "binary", "version", "reach", "listing", "adc", "dir", "config",
           "jobs", "alive", "done"}

Statuses == {"none", "Pass", "Warn", "Fail"}

VersionsRead == {NoVersion} \cup {Parse(b.out) : b \in Binaries}

Patients == [pc : Stages, report : [Checks -> Statuses], agyPath : Paths \cup {NoPath},
             memo : Paths \cup {NoPath}, version : VersionsRead, slow : BOOLEAN,
             adc : BOOLEAN, wasFit : SUBSET Paths, since : Nat]

TypeOK ==
    /\ installed \in [Paths -> Agys]
    /\ agyPath \in Paths \cup {NoPath}
    /\ lookup \in Paths \cup {NoPath}
    /\ verified \in Paths \cup {NoPath}
    /\ caller \in [Callers -> Call]
    /\ doctor \in Patients
    /\ changes \in Nat
    /\ wasFit \in SUBSET Paths

\* The histories hold every path whose agy is fit now.
Histories ==
    /\ FitPaths \subseteq wasFit
    /\ doctor.pc # "idle" => FitPaths \subseteq doctor.wasFit

\* What a call knows of its path: it saw that an agy there was not fit, be it
\* the one that is there or the one it runs.
KnownCall(r) ==
    /\ r.pc # "done" => r.answer = "none"
    /\ r.pc \in {"lock", "probe"} => r.path # NoPath /\ (~Fit(installed[r.path]) => FALSE \in r.saw)
    /\ r.pc = "probe" => /\ ~Fit(r.raw) => FALSE \in r.saw
                         /\ Fit(r.raw) => r.path \in wasFit
    /\ r.answer = "ok" => r.path \in wasFit
    /\ r.answer \in {"missing", "unparsed", "old"} => FALSE \in r.saw

Calls ==
    /\ verified # NoPath => verified \in wasFit
    /\ \A c \in Callers : KnownCall(caller[c])

\* The stages that follow the check of the version, and that of the listing.
AfterVersion == Stages \ {"idle", "binary", "version"}
AfterReach == AfterVersion \ {"reach", "listing"}

\* What the doctor remembers was fit during its run.
Memo ==
    /\ doctor.memo # NoPath => doctor.memo \in doctor.wasFit
    /\ doctor.pc = "listing" => doctor.memo # NoPath
    /\ "Pass" \in {doctor.report["version"], doctor.report["reach"]} => doctor.memo # NoPath

Running == Resolved # NoPath /\ Fit(installed[Resolved])

\* As long as nothing has changed, what the doctor found is what is there.
Undisturbed ==
    /\ doctor.since <= changes
    /\ doctor.pc \in {"idle", "binary", "version"} =>
          /\ doctor.memo = NoPath /\ ~doctor.slow
          /\ doctor.version = NoVersion
          /\ doctor.report["version"] = "none"
    /\ doctor.pc \notin AfterReach =>
          doctor.report["reach"] = "none" /\ doctor.report["adc"] = "none"
    /\ doctor.pc # "idle" /\ changes = doctor.since /\ ~doctor.slow =>
          /\ doctor.pc \in AfterVersion => doctor.report["version"] = PassIf(Running)
          /\ doctor.pc = "reach" => doctor.memo = IF Running THEN Resolved ELSE NoPath
          /\ doctor.pc = "listing" => Running /\ doctor.memo = Resolved
          /\ doctor.pc \in AfterReach =>
                doctor.report["reach"] = PassIf(Running /\ Lists(installed[Resolved]))
          /\ doctor.version.tier # TierNone =>
                Running /\ doctor.version.version = installed[Resolved].version
          /\ doctor.report["adc"] = "Warn" /\ doctor.adc =>
                ~AtLeast(installed[Resolved].version, ADCLoadFix)

\* A job called stale does not run.
Stale ==
    /\ doctor.report["jobs"] = "Warn" => job # "running"
    /\ doctor.pc # "done" => doctor.report["jobs"] = "none"

\* As far as the doctor is concerned.
Doctored == Memo /\ Undisturbed /\ Stale

IInv == TypeOK /\ Histories /\ Calls /\ Doctored

-----------------------------------------------------------------------------
(***************************************************************************)
(* Folds.  FoldLeft is a recursive function over the subsets of the        *)
(* sequence's domain; that the function exists, and what it computes, is   *)
(* shown by induction in the form of sets of natural numbers.              *)
(***************************************************************************)
LEMMA LeastNat ==
    ASSUME NEW T \in SUBSET Nat, T # {}
    PROVE  \E n \in T : \A m \in T : n <= m
<1>1. \E n \in T : ~ \E m \in T : <<m, n>> \in OpToRel(<, Nat)
    BY NatLessThanWellFounded, WFMin
<1> QED BY <1>1 DEF OpToRel

\* A set of numbers that holds 0 and the successor of each of its members.
LEMMA NatSet ==
    ASSUME NEW T \in SUBSET Nat, 0 \in T, \A n \in T : n + 1 \in T
    PROVE  T = Nat
<1> SUFFICES ASSUME Nat \ T # {} PROVE FALSE
    OBVIOUS
<1>1. PICK n \in Nat \ T : \A m \in Nat \ T : n <= m
    BY LeastNat
<1>2. n # 0 /\ n - 1 \in Nat BY <1>1
<1> QED BY <1>1, <1>2

\* The function over which a fold with step st is defined.
Iterates(it, n, T, base, st) ==
    /\ it \in [SUBSET (1..n) -> T]
    /\ \A s \in SUBSET (1..n) :
          it[s] = IF s = {} THEN base ELSE st[<<it[s \ {Max(s)}], Max(s)>>]

LEMMA FoldExists ==
    ASSUME NEW T, NEW base \in T, NEW n \in Nat, NEW st \in [T \X (1..n) -> T]
    PROVE  \E it : Iterates(it, n, T, base, st)
<1> DEFINE D == {k \in Nat : k <= n => \E it : Iterates(it, k, T, base, st)}
<1>1. 0 \in D
    <2>1. SUBSET (1..0) = {{}} OBVIOUS
    <2> DEFINE it == [s \in SUBSET (1..0) |-> base]
    <2>2. Iterates(it, 0, T, base, st) BY <2>1 DEF Iterates
    <2> HIDE DEF it
    <2> QED BY <2>2
<1>2. ASSUME NEW k \in Nat, k + 1 <= n, NEW it, Iterates(it, k, T, base, st)
      PROVE  \E jt : Iterates(jt, k + 1, T, base, st)
    <2> DEFINE jt == [s \in SUBSET (1..(k + 1)) |->
                        IF k + 1 \in s THEN st[<<it[s \ {k + 1}], k + 1>>] ELSE it[s]]
    <2>1. k + 1 \in 1..n BY <1>2
    <2>2. \A s \in SUBSET (1..(k + 1)) : s \ {k + 1} \in SUBSET (1..k)
        OBVIOUS
    <2>3. \A s \in SUBSET (1..(k + 1)) : k + 1 \notin s => s \in SUBSET (1..k)
        OBVIOUS
    <2>4. ASSUME NEW s \in SUBSET (1..(k + 1)), k + 1 \in s
          PROVE  Max(s) = k + 1
        <3>1. \A y \in s : k + 1 >= y OBVIOUS
        <3>2. \A x \in s : (\A y \in s : x >= y) => x = k + 1
            BY <2>4, <3>1
        <3>3. \E x \in s : \A y \in s : x >= y
            BY <2>4, <3>1
        <3> QED BY <3>2, <3>3, Zenon DEF Max
    <2>5. ASSUME NEW s \in SUBSET (1..(k + 1)), k + 1 \in s
          PROVE  /\ jt[s] \in T
                 /\ jt[s] = st[<<jt[s \ {Max(s)}], Max(s)>>]
        <3>1. it[s \ {k + 1}] \in T BY <1>2, <2>2 DEF Iterates
        <3>2. jt[s] = st[<<it[s \ {k + 1}], k + 1>>] BY <2>5
        <3>3. jt[s \ {k + 1}] = it[s \ {k + 1}] OBVIOUS
        <3>4. <<it[s \ {k + 1}], k + 1>> \in T \X (1..n) BY <2>1, <3>1
        <3> HIDE DEF jt
        <3>5. st[<<it[s \ {k + 1}], k + 1>>] \in T BY <3>4
        <3> QED BY <2>4, <2>5, <3>2, <3>3, <3>5
    <2>6. ASSUME NEW s \in SUBSET (1..(k + 1)), k + 1 \notin s
          PROVE  /\ jt[s] = it[s] /\ jt[s] \in T
                 /\ jt[s \ {Max(s)}] = it[s \ {Max(s)}]
        <3>1. jt[s] = it[s] BY <2>6
        <3>2. s \ {Max(s)} \in SUBSET (1..(k + 1)) /\ k + 1 \notin s \ {Max(s)}
            BY <2>6
        <3>3. jt[s \ {Max(s)}] = it[s \ {Max(s)}] BY <3>2
        <3> HIDE DEF jt
        <3> QED BY <1>2, <2>3, <2>6, <3>1, <3>3 DEF Iterates
    <2>7. jt = [s \in SUBSET (1..(k + 1)) |-> jt[s]] OBVIOUS
    <2> HIDE DEF jt
    <2>8. jt \in [SUBSET (1..(k + 1)) -> T] BY <2>5, <2>6, <2>7
    <2>9. ASSUME NEW s \in SUBSET (1..(k + 1))
          PROVE  jt[s] = IF s = {} THEN base ELSE st[<<jt[s \ {Max(s)}], Max(s)>>]
        <3>1. CASE k + 1 \in s BY <2>5, <3>1
        <3>2. CASE k + 1 \notin s
            <4>1. it[s] = IF s = {} THEN base ELSE st[<<it[s \ {Max(s)}], Max(s)>>]
                BY <1>2, <2>3, <3>2 DEF Iterates
            <4> QED BY <2>6, <3>2, <4>1
        <3> QED BY <3>1, <3>2
    <2> QED BY <2>8, <2>9 DEF Iterates
<1>3. ASSUME NEW k \in D PROVE k + 1 \in D
    BY <1>2, <1>3
<1>4. D = Nat
    <2> HIDE DEF D
    <2>1. D \in SUBSET Nat BY DEF D
    <2> QED BY <1>1, <1>3, <2>1, NatSet
<1> QED BY <1>4

\* The last element of a prefix of the domain is taken first.
LEMMA PrefixMax ==
    ASSUME NEW k \in Nat, k # 0
    PROVE  Max(1..k) = k /\ (1..k) \ {Max(1..k)} = 1..(k - 1) /\ 1..k # {}
<1>1. k \in 1..k /\ \A y \in 1..k : k >= y OBVIOUS
<1>2. Max(1..k) = k BY <1>1 DEF Max
<1> QED BY <1>1, <1>2

\* A set of positions that is not empty has a last one.
LEMMA MaxIn ==
    ASSUME NEW n \in Nat, NEW s \in SUBSET (1..n), s # {}
    PROVE  Max(s) \in s
<1> DEFINE D == {m \in Nat : \A y \in s : y <= m}
<1>1. n \in D OBVIOUS
<1>2. PICK m \in D : \A k \in D : m <= k
    <2> HIDE DEF D
    <2>1. D \in SUBSET Nat BY DEF D
    <2> QED BY <1>1, <2>1, LeastNat
<1>3. m \in Nat /\ \A y \in s : m >= y /\ y \in Nat OBVIOUS
<1>4. ~ (\A y \in s : y <= m - 1)
    <2>1. CASE m = 0
        <3>1. PICK y \in s : TRUE OBVIOUS
        <3>2. y \in 1..n OBVIOUS
        <3> QED BY <1>3, <2>1, <3>1, <3>2
    <2>2. CASE m # 0
        <3>1. m - 1 \notin D /\ m - 1 \in Nat BY <1>2, <1>3, <2>2
        <3> QED BY <3>1
    <2> QED BY <2>1, <2>2
<1>5. m \in s BY <1>3, <1>4
<1>6. \E x \in s : \A y \in s : x >= y BY <1>3, <1>5
<1> QED BY <1>6, Zenon DEF Max

-----------------------------------------------------------------------------
(* What is read off an output.                                             *)

Candidate == [tier : 1..3, triple : DottedTriple]

\* The candidates of an output are gathered line by line.
LEMMA CandidatesShape ==
    ASSUME NEW out \in Seq(Line)
    PROVE  AllCandidates(out) \in Seq(Candidate)
<1> DEFINE n == Len(out)
           T == Seq(Candidate)
           step(cs, k) == cs \o Candidates(out[k])
           Is(it) == it = [s \in SUBSET (DOMAIN out) |->
                              IF s = {} THEN <<>>
                              ELSE LET x == Max(s) IN step(it[s \ {x}], x)]
           iter == CHOOSE it : Is(it)
<1>1. AllCandidates(out) = iter[DOMAIN out]
    BY DEF AllCandidates, FoldLeft, MapThenFoldSet
<1>2. n \in Nat /\ DOMAIN out = 1..n /\ \A k \in 1..n : out[k] \in Line
    BY LenProperties, ElementOfSeq
<1>3. <<>> \in T /\ \A cs \in T, k \in 1..n : step(cs, k) \in T
    <2>1. ASSUME NEW line \in Line PROVE Candidates(line) \in Seq(Candidate)
        <3> DEFINE m == Len(line.triples)
                   c(i) == [tier |-> IF line.whole THEN TierWholeLine
                                     ELSE Classify(line.triples[i]),
                            triple |-> line.triples[i]]
        <3>1. m \in Nat /\ \A i \in 1..m : line.triples[i] \in DottedTriple
            BY LenProperties, ElementOfSeq DEF Line
        <3>2. \A i \in 1..m : Classify(line.triples[i]) \in 1..3 /\ TierWholeLine \in 1..3
            BY DEF Classify, TierEmbedded, TierCredible, TierWholeLine
        <3>3. \A i \in 1..m : c(i) \in Candidate BY <3>1, <3>2 DEF Candidate
        <3>4. Candidates(line) = [i \in 1..m |-> c(i)] BY DEF Candidates
        <3> HIDE DEF m, c
        <3>5. [i \in 1..m |-> c(i)] \in [1..m -> Candidate] BY <3>3
        <3> QED BY <3>1, <3>4, <3>5, SeqDef
    <2> QED BY <1>2, <2>1, ConcatProperties
<1> HIDE DEF n, T, step
<1>4. \E it : Is(it)
    <2> DEFINE st == [x \in T \X (1..n) |-> step(x[1], x[2])]
    <2>1. st \in [T \X (1..n) -> T] BY <1>3
    <2>2. \A cs \in T, k \in 1..n : st[<<cs, k>>] = step(cs, k) OBVIOUS
    <2> HIDE DEF st
    <2>3. PICK it : Iterates(it, n, T, <<>>, st) BY <1>2, <1>3, <2>1, FoldExists
    <2>4. ASSUME NEW s \in SUBSET (1..n), s # {}
          PROVE  it[s] = step(it[s \ {Max(s)}], Max(s))
        <3>1. Max(s) \in 1..n BY <1>2, <2>4, MaxIn
        <3>2. it[s \ {Max(s)}] \in T BY <2>3 DEF Iterates
        <3> QED BY <2>2, <2>3, <2>4, <3>1, <3>2 DEF Iterates
    <2>5. it = [s \in SUBSET (DOMAIN out) |->
                  IF s = {} THEN <<>> ELSE step(it[s \ {Max(s)}], Max(s))]
        BY <1>2, <2>3, <2>4 DEF Iterates
    <2> QED BY <2>5
<1>5. Is(iter) BY <1>4
<1> HIDE DEF iter
<1> DEFINE D == {k \in Nat : k <= n => iter[1..k] \in T}
<1>6. 0 \in D
    <2>1. 1..0 = {} /\ {} \in SUBSET (DOMAIN out) OBVIOUS
    <2>2. iter[{}] = <<>> BY <1>5, <2>1
    <2> QED BY <1>3, <2>1, <2>2
<1>7. ASSUME NEW k \in Nat, k + 1 <= n
      PROVE  iter[1..(k + 1)] = step(iter[1..k], k + 1)
    <2>1. 1..(k + 1) \in SUBSET (DOMAIN out) BY <1>2, <1>7
    <2>2. Max(1..(k + 1)) = k + 1 /\ (1..(k + 1)) \ {Max(1..(k + 1))} = 1..k
          /\ 1..(k + 1) # {}
        BY PrefixMax
    <2> QED BY <1>5, <2>1, <2>2
<1>8. ASSUME NEW k \in D PROVE k + 1 \in D
    <2>1. k \in Nat /\ (k + 1 <= n => k + 1 \in 1..n /\ iter[1..k] \in T) BY <1>2, <1>8
    <2> QED BY <1>3, <1>7, <2>1
<1>9. D = Nat
    <2> HIDE DEF D
    <2>1. D \in SUBSET Nat BY DEF D
    <2> QED BY <1>6, <1>8, <2>1, NatSet
<1>10. n \in D BY <1>2, <1>9
<1> QED BY <1>1, <1>2, <1>10 DEF T

\* The candidate of that place is the first usable one of the best tier among
\* the first k.
Leads(cs, i, k) ==
    /\ Usable(cs[i].triple)
    /\ \A j \in 1..k : Usable(cs[j].triple) =>
          cs[j].tier < cs[i].tier \/ (cs[j].tier = cs[i].tier /\ j >= i)

\* Parse, whose loop replaces the best so far only by a better one, ends with the
\* first usable candidate of the best tier, or with none when none is usable.
THEOREM ParseExact ==
    ASSUME NEW out \in Seq(Line)
    PROVE  LET cs == AllCandidates(out)
           IN \/ /\ Parse(out) = NoVersion
                 /\ \A j \in 1..Len(cs) : ~Usable(cs[j].triple)
              \/ \E i \in 1..Len(cs) :
                    /\ Leads(cs, i, Len(cs))
                    /\ Parse(out) = [tier |-> cs[i].tier, version |-> cs[i].triple.version]
<1> DEFINE cs == AllCandidates(out)
           n == Len(cs)
           result(i) == [tier |-> cs[i].tier, version |-> cs[i].triple.version]
           T == {NoVersion} \cup {result(i) : i \in 1..n}
           step(best, k) == Better(best, cs[k])
           Is(it) == it = [s \in SUBSET (DOMAIN cs) |->
                              IF s = {} THEN NoVersion
                              ELSE LET x == Max(s) IN step(it[s \ {x}], x)]
           iter == CHOOSE it : Is(it)
<1>1. Parse(out) = iter[DOMAIN cs]
    BY DEF Parse, FoldLeft, MapThenFoldSet
<1>2. n \in Nat /\ DOMAIN cs = 1..n /\ \A k \in 1..n : cs[k] \in Candidate
    BY CandidatesShape, LenProperties, ElementOfSeq
<1> HIDE DEF cs
<1>3. NoVersion \in T /\ \A best \in T, k \in 1..n : step(best, k) \in T
    BY DEF Better
<1>4. \A k \in 1..n : cs[k].tier \in Nat /\ cs[k].tier > 0
    BY <1>2 DEF Candidate
<1> HIDE DEF n, T, step
<1>5. \E it : Is(it)
    <2> DEFINE st == [x \in T \X (1..n) |-> step(x[1], x[2])]
    <2>1. st \in [T \X (1..n) -> T] BY <1>3
    <2>2. \A best \in T, k \in 1..n : st[<<best, k>>] = step(best, k) OBVIOUS
    <2> HIDE DEF st
    <2>3. PICK it : Iterates(it, n, T, NoVersion, st) BY <1>2, <1>3, <2>1, FoldExists
    <2>4. ASSUME NEW s \in SUBSET (1..n), s # {}
          PROVE  it[s] = step(it[s \ {Max(s)}], Max(s))
        <3>1. Max(s) \in 1..n BY <1>2, <2>4, MaxIn
        <3>2. it[s \ {Max(s)}] \in T BY <2>3 DEF Iterates
        <3> QED BY <2>2, <2>3, <2>4, <3>1, <3>2 DEF Iterates
    <2>5. it = [s \in SUBSET (DOMAIN cs) |->
                  IF s = {} THEN NoVersion ELSE step(it[s \ {Max(s)}], Max(s))]
        BY <1>2, <2>3, <2>4 DEF Iterates
    <2> QED BY <2>5
<1>6. Is(iter) BY <1>5
<1> HIDE DEF iter
<1> DEFINE None(k) == iter[1..k] = NoVersion /\ \A j \in 1..k : ~Usable(cs[j].triple)
           Best(i, k) == Leads(cs, i, k) /\ iter[1..k] = result(i)
           D == {k \in Nat : k <= n => None(k) \/ \E i \in 1..k : Best(i, k)}
<1>7. 0 \in D
    <2>1. 1..0 = {} /\ {} \in SUBSET (DOMAIN cs) OBVIOUS
    <2>2. iter[{}] = NoVersion BY <1>6, <2>1
    <2> QED BY <2>1, <2>2
<1>8. ASSUME NEW k \in Nat, k + 1 <= n
      PROVE  iter[1..(k + 1)] = Better(iter[1..k], cs[k + 1])
    <2>1. 1..(k + 1) \in SUBSET (DOMAIN cs) BY <1>2, <1>8
    <2>2. Max(1..(k + 1)) = k + 1 /\ (1..(k + 1)) \ {Max(1..(k + 1))} = 1..k
          /\ 1..(k + 1) # {}
        BY PrefixMax
    <2> QED BY <1>6, <2>1, <2>2 DEF step
<1>9. ASSUME NEW k \in D PROVE k + 1 \in D
    <2> SUFFICES ASSUME k + 1 <= n
                 PROVE  None(k + 1) \/ \E i \in 1..(k + 1) : Best(i, k + 1)
        BY <1>9
    <2>1. k \in Nat /\ k + 1 \in 1..n /\ k <= n BY <1>2, <1>9
    <2>2. iter[1..(k + 1)] = Better(iter[1..k], cs[k + 1]) BY <1>8, <2>1
    <2>3. cs[k + 1].tier \in Nat /\ cs[k + 1].tier > 0 BY <1>4, <2>1
    <2>4. \A j \in 1..(k + 1) : j \in 1..k \/ j = k + 1 BY <2>1
    <2>5. CASE None(k)
        <3>1. CASE Usable(cs[k + 1].triple)
            <4>1. iter[1..(k + 1)] = result(k + 1)
                BY <2>2, <2>3, <2>5, <3>1 DEF Better, NoVersion, TierNone
            <4>2. Leads(cs, k + 1, k + 1) BY <2>1, <2>4, <2>5, <3>1 DEF Leads
            <4> QED BY <2>1, <4>1, <4>2
        <3>2. CASE ~Usable(cs[k + 1].triple)
            <4>1. iter[1..(k + 1)] = NoVersion BY <2>2, <2>5, <3>2 DEF Better
            <4> QED BY <2>4, <2>5, <3>2, <4>1
        <3> QED BY <3>1, <3>2
    <2>6. ASSUME NEW i \in 1..k, Best(i, k) PROVE \E m \in 1..(k + 1) : Best(m, k + 1)
        <3>1. i \in 1..n /\ i \in 1..(k + 1) /\ cs[i].tier \in Nat BY <1>2, <1>4, <2>1
        <3>2. CASE Usable(cs[k + 1].triple) /\ cs[k + 1].tier > cs[i].tier
            <4>1. iter[1..(k + 1)] = result(k + 1) BY <2>2, <2>6, <3>2 DEF Better
            <4>2. ASSUME NEW j \in 1..k, Usable(cs[j].triple)
                  PROVE  cs[j].tier < cs[k + 1].tier
                <5>1. j \in 1..n /\ cs[j].tier \in Nat BY <1>2, <1>4, <2>1
                <5>2. cs[j].tier < cs[i].tier \/ cs[j].tier = cs[i].tier
                    BY <2>6, <4>2 DEF Leads
                <5> QED BY <2>3, <3>1, <3>2, <5>1, <5>2
            <4>3. Leads(cs, k + 1, k + 1) BY <2>1, <2>4, <3>2, <4>2 DEF Leads
            <4> QED BY <2>1, <4>1, <4>3
        <3>3. CASE ~(Usable(cs[k + 1].triple) /\ cs[k + 1].tier > cs[i].tier)
            <4>1. iter[1..(k + 1)] = result(i)
                BY <2>2, <2>6, <3>3 DEF Better
            <4>2. Usable(cs[k + 1].triple) =>
                     cs[k + 1].tier < cs[i].tier \/ (cs[k + 1].tier = cs[i].tier /\ k + 1 >= i)
                BY <2>1, <2>3, <3>1, <3>3
            <4>3. Leads(cs, i, k + 1) BY <2>4, <2>6, <4>2 DEF Leads
            <4> QED BY <3>1, <4>1, <4>3
        <3> QED BY <3>2, <3>3
    <2>7. None(k) \/ \E i \in 1..k : Best(i, k) BY <1>9, <2>1
    <2> HIDE DEF None, Best
    <2> QED BY <2>5, <2>6, <2>7
<1>10. D = Nat
    <2> HIDE DEF D
    <2>1. D \in SUBSET Nat BY DEF D
    <2> QED BY <1>7, <1>9, <2>1, NatSet
<1>11. None(n) \/ \E i \in 1..n : Best(i, n)
    <2>1. n \in D BY <1>2, <1>10
    <2> HIDE DEF None, Best
    <2> QED BY <1>2, <2>1
<1> QED BY <1>1, <1>2, <1>11 DEF cs, n

\* agy's own version decides, wherever else in its output a version is.
LEMMA VerdictExact ==
    ASSUME NEW b \in Binaries, ~b.hangs
    PROVE  /\ Verdict(b) = "ok" <=> AtLeast(b.version, Required)
           /\ Parses(b.out) => Parse(b.out).version = b.version
           /\ Verdict(b) \in {"ok", "unparsed", "old"}
<1> DEFINE cs == AllCandidates(b.out)
           n == Len(cs)
<1>1. b.out \in Seq(Line) /\ Told(b) BY GateAssumption
<1>2. n \in Nat /\ \A k \in 1..n : cs[k].tier \in Nat /\ cs[k].tier > 0
    <2>1. cs \in Seq(Candidate) BY <1>1, CandidatesShape
    <2> HIDE DEF cs
    <2>2. \A c \in Candidate : c.tier \in Nat /\ c.tier > 0 BY DEF Candidate
    <2> QED BY <2>1, <2>2, LenProperties, ElementOfSeq
<1>3. \/ /\ Parse(b.out) = NoVersion
         /\ \A j \in 1..n : ~Usable(cs[j].triple)
      \/ \E i \in 1..n :
            /\ Leads(cs, i, n)
            /\ Parse(b.out) = [tier |-> cs[i].tier, version |-> cs[i].triple.version]
    BY <1>1, ParseExact
<1>4. \/ b.version = NoVersion.version /\ \A j \in 1..n : ~Usable(cs[j].triple)
      \/ \E i \in 1..n : Leads(cs, i, n) /\ cs[i].triple.version = b.version
    BY <1>1 DEF Told, Leads
<1> HIDE DEF cs, n
<1>5. CASE \A j \in 1..n : ~Usable(cs[j].triple)
    <2>1. Parse(b.out) = NoVersion /\ b.version = NoVersion.version
        BY <1>3, <1>4, <1>5 DEF Leads
    <2>2. ~AtLeast(b.version, Required)
        BY <2>1 DEF NoVersion, Version, Required, AtLeast
    <2> QED BY <2>1, <2>2 DEF Verdict, Parses, NoVersion
<1>6. CASE ~(\A j \in 1..n : ~Usable(cs[j].triple))
    <2>1. PICK i \in 1..n :
             /\ Leads(cs, i, n)
             /\ Parse(b.out) = [tier |-> cs[i].tier, version |-> cs[i].triple.version]
        BY <1>3, <1>6
    <2>2. PICK m \in 1..n : Leads(cs, m, n) /\ cs[m].triple.version = b.version
        BY <1>4, <1>6
    <2>3. /\ cs[m].tier < cs[i].tier \/ (cs[m].tier = cs[i].tier /\ m >= i)
          /\ cs[i].tier < cs[m].tier \/ (cs[i].tier = cs[m].tier /\ i >= m)
        BY <2>1, <2>2 DEF Leads
    <2>4. cs[i].tier \in Nat /\ cs[m].tier \in Nat /\ cs[i].tier > 0
        BY <1>2
    <2>5. i = m BY <2>3, <2>4
    <2>6. Parse(b.out).version = b.version /\ Parse(b.out).tier # TierNone
        BY <2>1, <2>2, <2>4, <2>5 DEF TierNone
    <2> QED BY <2>6 DEF Verdict, Parses
<1> QED BY <1>5, <1>6

-----------------------------------------------------------------------------
(* The operators.                                                          *)

\* A lookup leads to a path or to none.
LEMMA BinaryType ==
    ASSUME TypeOK, NEW p \in Paths \cup {NoPath}
    PROVE  AgyBinary(p) \in Paths \cup {NoPath}
BY DEF AgyBinary, TypeOK

\* What came of one run of agy tells whether it was fit, unless it was slow.
LEMMA RunTells ==
    ASSUME NEW b \in Agys, NEW reading \in Readings(b)
    PROVE  /\ reading = "output" => b \in Binaries /\ ~b.hangs
           /\ reading = "output" /\ Verdict(b) = "ok" => Fit(b)
           /\ Fit(b) /\ reading # "timeout" => reading = "output" /\ Verdict(b) = "ok"
           /\ reading \in {"missing", "timeout", "output"}
           /\ reading = "output" => Verdict(b) \in {"ok", "unparsed", "old"}
           /\ reading = "output" /\ Verdict(b) = "ok" => Parse(b.out).version = b.version
<1>1. CASE b = Absent BY <1>1 DEF Readings, Fit
<1>2. CASE b # Absent /\ b.hangs BY <1>2 DEF Readings, Fit
<1>3. CASE b # Absent /\ ~b.hangs
    <2>1. b \in Binaries /\ reading \in {"output", "timeout"} BY <1>3 DEF Readings, Agys
    <2>2. /\ Verdict(b) = "ok" <=> AtLeast(b.version, Required)
          /\ Parses(b.out) => Parse(b.out).version = b.version
          /\ Verdict(b) \in {"ok", "unparsed", "old"}
        BY <1>3, <2>1, VerdictExact
    <2>3. Verdict(b) = "ok" => Parses(b.out) BY DEF Verdict
    <2>4. Fit(b) <=> AtLeast(b.version, Required) BY <1>3 DEF Fit
    <2> QED BY <1>3, <2>1, <2>2, <2>3, <2>4
<1> QED BY <1>1, <1>2, <1>3

\* And so does what came of one run by the doctor.
LEMMA ProbeTells ==
    ASSUME TypeOK, NEW reading \in Probes
    PROVE  /\ Passed(reading) => Running
           /\ Running /\ reading # "timeout" => Passed(reading)
           /\ reading = "timeout" => ~Passed(reading)
           /\ Passed(reading) =>
                 /\ Parse(installed[Resolved].out).version = installed[Resolved].version
                 /\ installed[Resolved] \in Binaries
           /\ Resolved \in Paths \cup {NoPath}
<1>1. Resolved \in Paths \cup {NoPath}
    BY BinaryType DEF Resolved, TypeOK, Patients
<1>2. CASE Resolved = NoPath BY <1>1, <1>2 DEF Probes, Passed, Running
<1>3. CASE Resolved # NoPath
    <2>1. installed[Resolved] \in Agys BY <1>1, <1>3 DEF TypeOK
    <2>2. reading \in Readings(installed[Resolved]) BY <1>3 DEF Probes
    <2>3. PICK b \in Agys : b = installed[Resolved] BY <2>1
    <2> QED BY <1>1, <1>3, <2>2, <2>3, RunTells DEF Passed, Running
<1> QED BY <1>2, <1>3

\* A running agy is at a path that was fit since the doctor started.
LEMMA RunningFit ==
    ASSUME IInv, Running, doctor.pc # "idle"
    PROVE  Resolved \in doctor.wasFit /\ Resolved \in Paths
<1>1. Resolved \in Paths
    BY BinaryType DEF Running, Resolved, IInv, TypeOK, Patients
<1>2. Resolved \in FitPaths BY <1>1 DEF Running, FitPaths
<1> QED BY <1>1, <1>2 DEF IInv, Histories

\* The doctor's record after a check has reported.
LEMMA ReportedShape ==
    ASSUME TypeOK, NEW k \in Checks, NEW status \in Statuses, NEW pc \in Stages
    PROVE  LET d == Reported(k, status, pc)
           IN /\ d \in Patients
              /\ d.pc = pc /\ d.report[k] = status
              /\ \A l \in Checks \ {k} : d.report[l] = doctor.report[l]
              /\ d.agyPath = doctor.agyPath /\ d.memo = doctor.memo
              /\ d.version = doctor.version /\ d.slow = doctor.slow
              /\ d.adc = doctor.adc /\ d.wasFit = doctor.wasFit
              /\ d.since = doctor.since
BY DEF Reported, TypeOK, Patients

\* The checks pass or fail.
LEMMA PassType == \A p \in BOOLEAN : PassIf(p) \in Statuses
BY DEF PassIf, Statuses

-----------------------------------------------------------------------------
\* It holds at first.
LEMMA InvInit == Init => IInv
<1> SUFFICES ASSUME Init PROVE IInv
    OBVIOUS
<1>1. doctor \in Patients
    BY DEF Init, Patient, Patients, Stages, Statuses, Checks, VersionsRead
<1>2. caller \in [Callers -> Call] BY DEF Init, Idle, Call, Agys
<1>3. TypeOK
    BY <1>1, <1>2, GateAssumption DEF Init, TypeOK, Agys, AtStartup, Executable, FitPaths
<1>4. Histories BY DEF Init, Histories, Patient
<1>5. Calls BY DEF Init, Calls, KnownCall, Idle
<1>6. Memo BY DEF Init, Memo, Patient, Checks
<1>7. Undisturbed
    BY DEF Init, Undisturbed, Patient, Checks, AfterReach, AfterVersion
<1>8. Stale BY DEF Init, Stale, Patient, Checks
<1> QED BY <1>3, <1>4, <1>5, <1>6, <1>7, <1>8 DEF IInv, Doctored

-----------------------------------------------------------------------------
(* The calls.                                                              *)

\* A step of one call leaves the doctor alone; what is left in that call's place
\* and in the memo has to be known.
LEMMA CallStep ==
    ASSUME IInv, NEW c \in Callers, NEW r \in Call,
           caller' = [caller EXCEPT ![c] = r], KnownCall(r),
           verified' \in Paths \cup {NoPath},
           verified' # NoPath => verified' \in wasFit,
           UNCHANGED <<world, doctor>>
    PROVE  IInv'
<1>0. /\ UNCHANGED <<installed, agyPath, lookup, job, changes>>
      /\ wasFit' = wasFit /\ doctor' = doctor
    BY DEF world
<1>1. TypeOK'
    <2>1. caller' \in [Callers -> Call] BY DEF IInv, TypeOK
    <2> QED BY <1>0, <2>1 DEF IInv, TypeOK
<1>2. Histories' BY <1>0 DEF IInv, Histories, FitPaths
<1>3. Calls'
    <2>1. ASSUME NEW d \in Callers PROVE KnownCall(caller[d])'
        <3>1. caller'[d] = IF d = c THEN r ELSE caller[d] BY DEF IInv, TypeOK
        <3>2. KnownCall(caller[d]) BY DEF IInv, Calls
        <3>3. PICK s : s = caller'[d] /\ KnownCall(s) BY <3>1, <3>2, Zenon
        <3>4. KnownCall(s)' BY <1>0, <3>3 DEF KnownCall
        <3> QED BY <3>3, <3>4, Zenon
    <2> QED BY <1>0, <2>1 DEF Calls
<1>4. Doctored'
    BY <1>0 DEF IInv, Doctored, Memo, Undisturbed, Stale, Running, Resolved, AgyBinary, Executable
<1> QED BY <1>1, <1>2, <1>3, <1>4 DEF IInv

\* agyBinaryChecked: what it lets through was fit, what it refuses was not.
LEMMA GateStep ==
    ASSUME IInv, NEW c \in Callers, Resolve(c) \/ Lock(c) \/ Probed(c) \/ Cancelled(c)
    PROVE  IInv'
<1>1. caller[c] \in Call /\ KnownCall(caller[c]) /\ verified \in Paths \cup {NoPath}
    BY DEF IInv, TypeOK, Calls
<1>2. verified # NoPath => verified \in wasFit BY DEF IInv, Calls
<1>3. CASE Resolve(c)
    <2> DEFINE p == AgyBinary(agyPath)
               r == IF p = NoPath
                    THEN [caller[c] EXCEPT !.pc = "done", !.answer = "missing", !.saw = {FALSE}]
                    ELSE [caller[c] EXCEPT !.pc = "lock", !.path = p,
                                           !.saw = {Fit(installed[p])}]
    <2>1. p \in Paths \cup {NoPath} BY BinaryType DEF IInv, TypeOK
    <2>2. /\ caller' = [caller EXCEPT ![c] = r]
          /\ UNCHANGED <<world, verified, holder, doctor>>
        BY <1>3 DEF Resolve
    <2>3. Fit(installed[p]) \in BOOLEAN BY DEF Fit, AtLeast
    <2> HIDE DEF p
    <2>4. r \in Call BY <1>1, <2>1, <2>3 DEF Call, Verdicts
    <2>5. KnownCall(r)
        <3>1. CASE p = NoPath BY <1>1, <3>1 DEF Call, KnownCall
        <3>2. CASE p # NoPath
            <4>1. /\ r.pc = "lock" /\ r.path = p /\ r.answer = "none"
                  /\ r.saw = {Fit(installed[p])}
                BY <1>1, <1>3, <3>2 DEF Call, KnownCall, Resolve
            <4> HIDE DEF r
            <4>2. ~Fit(installed[p]) => Fit(installed[p]) = FALSE
                BY <2>3, Zenon
            <4>3. ~Fit(installed[p]) => FALSE \in r.saw BY <4>1, <4>2, Zenon
            <4> QED BY <3>2, <4>1, <4>3 DEF KnownCall
        <3> QED BY <3>1, <3>2
    <2> HIDE DEF r
    <2> QED BY <1>1, <1>2, <2>2, <2>4, <2>5, CallStep
<1>4. CASE Lock(c)
    <2>1. caller[c].pc = "lock" /\ UNCHANGED <<world, verified, doctor>>
        BY <1>4 DEF Lock
    <2>2. caller[c].path \in Paths /\ (~Fit(installed[caller[c].path]) => FALSE \in caller[c].saw)
        BY <1>1, <2>1 DEF KnownCall, Call
    <2>3. CASE verified = caller[c].path
               /\ caller' = [caller EXCEPT ![c].pc = "done", ![c].answer = "ok"]
        <3> DEFINE r == [caller[c] EXCEPT !.pc = "done", !.answer = "ok"]
        <3>1. r \in Call BY <1>1 DEF Call, Verdicts
        <3>2. caller[c].path \in wasFit BY <1>2, <2>2, <2>3, GateAssumption
        <3>3. r.pc = "done" /\ r.path = caller[c].path /\ r.answer = "ok" BY <1>1 DEF Call
        <3>4. caller' = [caller EXCEPT ![c] = r] BY <2>3
        <3> HIDE DEF r
        <3>5. KnownCall(r) BY <3>2, <3>3 DEF KnownCall
        <3> QED BY <1>1, <1>2, <2>1, <3>1, <3>4, <3>5, CallStep
    <2>4. CASE caller' = [caller EXCEPT ![c].pc = "probe",
                                        ![c].raw = installed[caller[c].path]]
        <3> DEFINE b == installed[caller[c].path]
                   r == [caller[c] EXCEPT !.pc = "probe", !.raw = b]
        <3>1. b \in Agys BY <2>2 DEF IInv, TypeOK
        <3>2. Fit(b) => caller[c].path \in wasFit
            BY <2>2 DEF IInv, Histories, FitPaths
        <3>3. r \in Call BY <1>1, <3>1 DEF Call
        <3>4. /\ r.pc = "probe" /\ r.path = caller[c].path /\ r.answer = caller[c].answer
              /\ r.saw = caller[c].saw /\ r.raw = b
            BY <1>1 DEF Call
        <3>5. caller' = [caller EXCEPT ![c] = r] BY <2>4
        <3> HIDE DEF r
        <3>6. KnownCall(r)
            BY <1>1, <2>1, <2>2, <3>2, <3>4 DEF KnownCall
        <3> QED BY <1>1, <1>2, <2>1, <3>3, <3>5, <3>6, CallStep
    <2> QED BY <1>4, <2>3, <2>4 DEF Lock
<1>5. CASE Probed(c)
    <2>1. caller[c].pc = "probe" /\ UNCHANGED <<world, doctor>> BY <1>5 DEF Probed
    <2> DEFINE b == caller[c].raw
    <2>2. PICK reading \in Readings(b) :
             LET answer == IF reading = "output" THEN Verdict(b) ELSE reading
             IN /\ Answer(c, answer)
                /\ verified' = IF answer = "ok" THEN caller[c].path ELSE verified
        BY <1>5 DEF Probed
    <2> DEFINE answer == IF reading = "output" THEN Verdict(b) ELSE reading
               r == [caller[c] EXCEPT !.pc = "done", !.answer = answer, !.raw = Absent]
    <2>3. b \in Agys /\ caller[c].path \in Paths \cup {NoPath} BY <1>1 DEF Call
    <2>4. (~Fit(b) => FALSE \in caller[c].saw) /\ (Fit(b) => caller[c].path \in wasFit)
        BY <1>1, <2>1 DEF KnownCall
    <2>5. /\ answer = "ok" => Fit(b)
          /\ answer \in {"missing", "unparsed", "old"} => ~Fit(b)
          /\ answer \in Verdicts
        BY <2>3, RunTells DEF Verdicts
    <2>6. /\ caller' = [caller EXCEPT ![c] = r]
          /\ verified' = IF answer = "ok" THEN caller[c].path ELSE verified
        BY <2>2 DEF Answer
    <2> HIDE DEF answer, b
    <2>7. r \in Call BY <1>1, <2>5 DEF Call, Agys
    <2>8. /\ r.pc = "done" /\ r.path = caller[c].path /\ r.answer = answer
          /\ r.saw = caller[c].saw
        BY <1>1 DEF Call
    <2> HIDE DEF r
    <2>9. KnownCall(r) BY <2>4, <2>5, <2>8 DEF KnownCall
    <2> QED BY <1>1, <1>2, <2>1, <2>3, <2>4, <2>5, <2>6, <2>7, <2>9, CallStep
<1>6. CASE Cancelled(c)
    <2> DEFINE r == [caller[c] EXCEPT !.pc = "done", !.answer = "cancelled", !.raw = Absent]
    <2>1. /\ caller' = [caller EXCEPT ![c] = r]
          /\ UNCHANGED <<world, verified, doctor>>
        BY <1>6 DEF Cancelled, Answer
    <2>2. r \in Call BY <1>1 DEF Call, Agys, Verdicts
    <2>3. r.pc = "done" /\ r.answer = "cancelled" BY <1>1 DEF Call
    <2> HIDE DEF r
    <2>4. KnownCall(r) BY <2>3 DEF KnownCall
    <2> QED BY <1>1, <1>2, <2>1, <2>2, <2>4, CallStep
<1> QED BY <1>3, <1>4, <1>5, <1>6

-----------------------------------------------------------------------------
(* The world.                                                              *)

\* An agy comes, goes or is replaced: the calls under way see it, the histories
\* note it, and the doctor no longer runs undisturbed.
LEMMA InstallStep ==
    ASSUME IInv, NEW p \in Paths, NEW b \in Agys, Install(p, b)
    PROVE  IInv'
<1> DEFINE fit == IF Fit(b) THEN {p} ELSE {}
           now(c) == [caller[c] EXCEPT
                        !.saw = IF caller[c].pc \in {"lock", "probe"} /\ caller[c].path = p
                                THEN @ \cup {Fit(b)} ELSE @]
<1>1. /\ changes' = changes + 1 /\ wasFit' = wasFit \cup fit
      /\ installed' = [installed EXCEPT ![p] = b]
      /\ doctor' = [doctor EXCEPT !.wasFit = @ \cup fit]
      /\ caller' = [c \in Callers |-> now(c)]
      /\ UNCHANGED <<agyPath, lookup, verified, holder, job>>
    BY DEF Install
<1>2. fit \in SUBSET Paths /\ Fit(b) \in BOOLEAN BY DEF Fit, AtLeast
<1>3. \A q \in Paths : installed'[q] = IF q = p THEN b ELSE installed[q]
    BY <1>1 DEF IInv, TypeOK
<1>4. \A q \in Paths : Fit(installed'[q]) => Fit(installed[q]) \/ q \in fit
    BY <1>3
<1>5. /\ doctor' \in Patients
      /\ doctor'.pc = doctor.pc /\ doctor'.report = doctor.report
      /\ doctor'.memo = doctor.memo /\ doctor'.slow = doctor.slow
      /\ doctor'.version = doctor.version /\ doctor'.since = doctor.since
      /\ doctor'.wasFit = doctor.wasFit \cup fit
    <2> HIDE DEF fit
    <2> QED BY <1>1, <1>2 DEF IInv, TypeOK, Patients
<1>6. ASSUME NEW c \in Callers
      PROVE  /\ now(c) \in Call
             /\ now(c).pc = caller[c].pc /\ now(c).path = caller[c].path
             /\ now(c).raw = caller[c].raw /\ now(c).answer = caller[c].answer
             /\ caller[c].saw \subseteq now(c).saw
             /\ caller[c].pc \in {"lock", "probe"} /\ caller[c].path = p =>
                   Fit(b) \in now(c).saw
    <2>1. caller[c] \in Call BY DEF IInv, TypeOK
    <2> QED BY <1>2, <2>1 DEF Call
<1>7. TypeOK'
    <2>1. caller' \in [Callers -> Call] BY <1>1, <1>6
    <2>2. installed' \in [Paths -> Agys] BY <1>1 DEF IInv, TypeOK
    <2>3. wasFit' \in SUBSET Paths BY <1>1, <1>2 DEF IInv, TypeOK
    <2> HIDE DEF fit, now
    <2> QED BY <1>1, <1>5, <2>1, <2>2, <2>3 DEF IInv, TypeOK
<1> HIDE DEF fit, now
<1>8. Histories'
    BY <1>1, <1>4, <1>5 DEF IInv, Histories, FitPaths
<1>9. Calls'
    <2>1. ASSUME NEW c \in Callers PROVE KnownCall(caller[c])'
        <3>0. PICK r : r = now(c) OBVIOUS
        <3>1. caller'[c] = r /\ caller[c] \in Call BY <1>1, <3>0 DEF IInv, TypeOK
        <3>2. KnownCall(caller[c]) BY DEF IInv, Calls
        <3>3. /\ r.pc = caller[c].pc /\ r.path = caller[c].path
              /\ r.raw = caller[c].raw /\ r.answer = caller[c].answer
              /\ caller[c].saw \subseteq r.saw
              /\ caller[c].pc \in {"lock", "probe"} /\ caller[c].path = p => Fit(b) \in r.saw
            BY <1>6, <3>0
        <3>4. r.path \in Paths \cup {NoPath} BY <3>1, <3>3 DEF Call
        <3>5. ASSUME r.pc \in {"lock", "probe"}, ~Fit(installed'[r.path])
              PROVE  FALSE \in r.saw
            <4>1. r.path \in Paths BY <3>2, <3>3, <3>4, <3>5 DEF KnownCall
            <4>2. CASE r.path = p
                <5>1. ~Fit(b) BY <1>3, <3>5, <4>1, <4>2
                <5>2. Fit(b) = FALSE BY <1>2, <5>1, Zenon
                <5>3. Fit(b) \in r.saw BY <3>3, <3>5, <4>2
                <5> QED BY <5>2, <5>3, Zenon
            <4>3. CASE r.path # p
                <5>1. ~Fit(installed[r.path]) BY <1>3, <3>5, <4>1, <4>3
                <5> QED BY <3>2, <3>3, <3>5, <5>1 DEF KnownCall
            <4> QED BY <4>2, <4>3
        <3>6. KnownCall(r)' BY <1>1, <3>2, <3>3, <3>5 DEF KnownCall
        <3> QED BY <3>1, <3>6, Zenon
    <2>2. verified' # NoPath => verified' \in wasFit' BY <1>1 DEF IInv, Calls
    <2> QED BY <2>1, <2>2 DEF Calls
<1>10. Memo' BY <1>5 DEF IInv, Doctored, Memo
<1>11. Undisturbed'
    <2>1. doctor.since <= changes /\ changes \in Nat /\ doctor.since \in Nat
        BY DEF IInv, TypeOK, Doctored, Undisturbed, Patients
    <2>2. doctor'.since <= changes' /\ changes' # doctor'.since BY <1>1, <1>5, <2>1
    <2> QED BY <1>5, <2>2 DEF IInv, Doctored, Undisturbed
<1>12. Stale' BY <1>1, <1>5 DEF IInv, Doctored, Stale
<1> QED BY <1>7, <1>8, <1>9, <1>10, <1>11, <1>12 DEF IInv, Doctored

\* Another PATH disturbs the doctor and no one else.
LEMMA RepathStep ==
    ASSUME IInv, NEW p \in Paths \cup {NoPath}, Repath(p)
    PROVE  IInv'
<1>1. /\ changes' = changes + 1 /\ lookup' = p
      /\ UNCHANGED <<installed, agyPath, verified, holder, caller, doctor, job, wasFit>>
    BY DEF Repath
<1>2. TypeOK' BY <1>1 DEF IInv, TypeOK
<1>3. Histories' BY <1>1 DEF IInv, Histories, FitPaths
<1>4. Calls' BY <1>1 DEF IInv, Calls, KnownCall
<1>5. Memo' /\ Stale' BY <1>1 DEF IInv, Doctored, Memo, Stale
<1>6. Undisturbed'
    <2>1. doctor.since <= changes /\ changes \in Nat /\ doctor.since \in Nat
        BY DEF IInv, TypeOK, Doctored, Undisturbed, Patients
    <2>2. doctor'.since <= changes' /\ changes' # doctor'.since BY <1>1, <2>1
    <2> QED BY <1>1, <2>2 DEF IInv, Doctored, Undisturbed
<1> QED BY <1>2, <1>3, <1>4, <1>5, <1>6 DEF IInv, Doctored

\* A job that ends does not start again.
LEMMA JobStep ==
    ASSUME IInv, UNCHANGED <<installed, agyPath, lookup, verified, caller, doctor, changes, wasFit>>,
           Stale'
    PROVE  IInv'
<1>1. TypeOK' BY DEF IInv, TypeOK
<1>2. Histories' BY DEF IInv, Histories, FitPaths
<1>3. Calls' BY DEF IInv, Calls, KnownCall
<1>4. Memo' BY DEF IInv, Doctored, Memo
<1>5. Undisturbed'
    BY DEF IInv, Doctored, Undisturbed, Running, Resolved, AgyBinary, Executable
<1> QED BY <1>1, <1>2, <1>3, <1>4, <1>5 DEF IInv, Doctored

-----------------------------------------------------------------------------
(* The doctor.                                                             *)

\* What a step of the doctor leaves alone, and what follows.
OwnSteps == UNCHANGED <<installed, agyPath, lookup, changes, wasFit, verified, caller>>

\* The part of the invariant that is not about what the checks found.
LEMMA DoctorFrame ==
    ASSUME IInv, OwnSteps, doctor' \in Patients, doctor'.agyPath = doctor.agyPath,
           doctor'.wasFit = doctor.wasFit, doctor.pc # "idle"
    PROVE  /\ TypeOK' /\ Histories' /\ Calls'
           /\ Resolved' = Resolved /\ (Running' <=> Running)
<1> USE DEF OwnSteps
<1>1. TypeOK' BY DEF IInv, TypeOK
<1>2. Histories' BY DEF IInv, Histories, FitPaths
<1>3. Calls' BY DEF IInv, Calls, KnownCall
<1>4. Resolved' = Resolved BY DEF Resolved, AgyBinary, Executable
<1>5. Running' <=> Running BY <1>4 DEF Running
<1> QED BY <1>1, <1>2, <1>3, <1>4, <1>5

\* The checks that come after those of agy: none of them touches what those found.
LEMMA LaterStep ==
    ASSUME IInv, OwnSteps, doctor' \in Patients,
           doctor.pc \in AfterReach, doctor'.pc \in AfterReach,
           doctor'.agyPath = doctor.agyPath, doctor'.wasFit = doctor.wasFit,
           doctor'.memo = doctor.memo, doctor'.version = doctor.version,
           doctor'.slow = doctor.slow, doctor'.since = doctor.since,
           doctor'.report["version"] = doctor.report["version"],
           doctor'.report["reach"] = doctor.report["reach"],
           \/ doctor'.adc = doctor.adc /\ doctor'.report["adc"] = doctor.report["adc"]
           \/ doctor'.report["adc"] = "Warn" /\ doctor'.adc =>
                 /\ doctor.version.tier # TierNone
                 /\ ~AtLeast(doctor.version.version, ADCLoadFix),
           Stale'
    PROVE  IInv'
<1>1. doctor.pc # "idle" BY DEF AfterReach, AfterVersion
<1>2. TypeOK' /\ Histories' /\ Calls' /\ Resolved' = Resolved /\ (Running' <=> Running)
    BY <1>1, DoctorFrame
<1>3. Memo' BY DEF IInv, Doctored, Memo, AfterReach, AfterVersion
<1>4. Undisturbed'
    <2>1. doctor'.since <= changes' BY DEF IInv, Doctored, Undisturbed, OwnSteps
    <2>2. doctor'.pc \notin {"idle", "binary", "version"} BY DEF AfterReach, AfterVersion
    <2>3. ASSUME changes' = doctor'.since, ~doctor'.slow
          PROVE  /\ doctor'.report["version"] = PassIf(Running')
                 /\ doctor'.report["reach"] = PassIf(Running' /\ Lists(installed'[Resolved']))
                 /\ doctor'.version.tier # TierNone =>
                       Running' /\ doctor'.version.version = installed'[Resolved'].version
                 /\ doctor'.report["adc"] = "Warn" /\ doctor'.adc =>
                       ~AtLeast(installed'[Resolved'].version, ADCLoadFix)
        <3>1. changes = doctor.since /\ ~doctor.slow BY <2>3 DEF OwnSteps
        <3>2. doctor.pc \in AfterVersion BY DEF AfterReach
        <3>3. /\ doctor.report["version"] = PassIf(Running)
              /\ doctor.report["reach"] = PassIf(Running /\ Lists(installed[Resolved]))
              /\ doctor.version.tier # TierNone =>
                    Running /\ doctor.version.version = installed[Resolved].version
              /\ doctor.report["adc"] = "Warn" /\ doctor.adc =>
                    ~AtLeast(installed[Resolved].version, ADCLoadFix)
            BY <1>1, <3>1, <3>2 DEF IInv, Doctored, Undisturbed
        <3>4. installed' = installed BY DEF OwnSteps
        <3>5. PassIf(Running') = PassIf(Running) BY <1>2 DEF PassIf
        <3>6. PassIf(Running' /\ Lists(installed'[Resolved']))
              = PassIf(Running /\ Lists(installed[Resolved]))
            BY <1>2, <3>4 DEF PassIf
        <3> QED BY <1>2, <3>3, <3>4, <3>5, <3>6
    <2>4. doctor'.pc \notin {"reach", "listing"} BY DEF AfterReach
    <2> QED BY <2>1, <2>2, <2>3, <2>4 DEF Undisturbed
<1> QED BY <1>2, <1>3, <1>4 DEF IInv, Doctored

\* A new doctor knows nothing, and the history of its run begins.
LEMMA StartStep == ASSUME IInv, DoctorStarts PROVE IInv'
<1>1. PICK p \in AtStartup :
         doctor' = [doctor EXCEPT !.pc = "binary", !.agyPath = p,
                                  !.wasFit = FitPaths, !.since = changes]
    BY DEF DoctorStarts
<1>2. doctor.pc = "idle" /\ OwnSteps /\ job' = job BY DEF DoctorStarts, OwnSteps, world
<1>3. p \in Paths \cup {NoPath} /\ FitPaths \in SUBSET Paths /\ changes \in Nat
    BY DEF AtStartup, FitPaths, IInv, TypeOK
<1>4. /\ doctor' \in Patients
      /\ doctor'.pc = "binary" /\ doctor'.report = doctor.report
      /\ doctor'.memo = doctor.memo /\ doctor'.version = doctor.version
      /\ doctor'.slow = doctor.slow /\ doctor'.adc = doctor.adc
      /\ doctor'.wasFit = FitPaths /\ doctor'.since = changes
    BY <1>1, <1>3 DEF IInv, TypeOK, Patients, Stages
<1>5. /\ doctor.memo = NoPath /\ doctor.version = NoVersion /\ ~doctor.slow
      /\ doctor.report["version"] = "none" /\ doctor.report["reach"] = "none"
      /\ doctor.report["adc"] = "none"
    BY <1>2 DEF IInv, Doctored, Undisturbed, AfterReach, AfterVersion
<1>6. TypeOK' BY <1>2, <1>4 DEF OwnSteps, IInv, TypeOK
<1>7. Histories' BY <1>2, <1>4 DEF OwnSteps, IInv, Histories, FitPaths
<1>8. Calls' BY <1>2 DEF OwnSteps, IInv, Calls, KnownCall
<1>9. Memo' BY <1>4, <1>5 DEF Memo
<1>10. Undisturbed'
    BY <1>2, <1>3, <1>4, <1>5 DEF OwnSteps, Undisturbed, AfterReach, AfterVersion, NoVersion
<1>11. Stale' BY <1>2, <1>4 DEF IInv, Doctored, Stale
<1> QED BY <1>6, <1>7, <1>8, <1>9, <1>10, <1>11 DEF IInv, Doctored

\* The binary is looked for; nothing is learned of it.
LEMMA BinaryStep == ASSUME IInv, CheckAgyBinary PROVE IInv'
<1>1. /\ doctor.pc = "binary" /\ OwnSteps /\ job' = job
      /\ doctor' = Reported("binary", PassIf(Resolved # NoPath), "version")
    BY DEF CheckAgyBinary, OwnSteps, world
<1>2. PassIf(Resolved # NoPath) \in Statuses BY PassType
<1>3. "binary" \in Checks /\ "version" \in Stages BY DEF Checks, Stages
<1>4. /\ doctor' \in Patients
      /\ doctor'.pc = "version"
      /\ \A l \in Checks \ {"binary"} : doctor'.report[l] = doctor.report[l]
      /\ doctor'.agyPath = doctor.agyPath /\ doctor'.memo = doctor.memo
      /\ doctor'.version = doctor.version /\ doctor'.slow = doctor.slow
      /\ doctor'.adc = doctor.adc /\ doctor'.wasFit = doctor.wasFit
      /\ doctor'.since = doctor.since
    BY <1>1, <1>2, <1>3, ReportedShape DEF IInv
<1>5. /\ doctor'.report["version"] = doctor.report["version"]
      /\ doctor'.report["reach"] = doctor.report["reach"]
      /\ doctor'.report["adc"] = doctor.report["adc"]
      /\ doctor'.report["jobs"] = doctor.report["jobs"]
    BY <1>4 DEF Checks
<1>6. TypeOK' /\ Histories' /\ Calls' BY <1>1, <1>4, DoctorFrame
<1>7. Memo' BY <1>1, <1>4, <1>5 DEF IInv, Doctored, Memo
<1>8. Undisturbed'
    BY <1>1, <1>4, <1>5
    DEF IInv, Doctored, Undisturbed, AfterReach, AfterVersion, OwnSteps, NoVersion
<1>9. Stale' BY <1>1, <1>4, <1>5 DEF IInv, Doctored, Stale
<1> QED BY <1>6, <1>7, <1>8, <1>9 DEF IInv, Doctored

\* The version is read: passed, a fit agy was there and its path is remembered.
LEMMA VersionStep == ASSUME IInv, CheckAgyVersion PROVE IInv'
<1>1. doctor.pc = "version" /\ OwnSteps /\ job' = job
    BY DEF CheckAgyVersion, OwnSteps, world
<1>2. PICK reading \in Probes :
         doctor' = [Reported("version", PassIf(Passed(reading)), "reach") EXCEPT
                    !.slow = (reading = "timeout"),
                    !.memo = IF Passed(reading) THEN Resolved ELSE @,
                    !.version = IF Passed(reading) THEN Parse(installed[Resolved].out) ELSE @]
    BY DEF CheckAgyVersion
<1>3. PICK d : d = Reported("version", PassIf(Passed(reading)), "reach") OBVIOUS
<1>4. PassIf(Passed(reading)) \in Statuses BY DEF PassIf, Statuses
<1>5. "version" \in Checks /\ "reach" \in Stages BY DEF Checks, Stages
<1>6. /\ d \in Patients
      /\ d.pc = "reach" /\ d.report["version"] = PassIf(Passed(reading))
      /\ \A l \in Checks \ {"version"} : d.report[l] = doctor.report[l]
      /\ d.agyPath = doctor.agyPath /\ d.memo = doctor.memo
      /\ d.version = doctor.version /\ d.slow = doctor.slow
      /\ d.adc = doctor.adc /\ d.wasFit = doctor.wasFit
      /\ d.since = doctor.since
    BY <1>3, <1>4, <1>5, ReportedShape DEF IInv
<1>7. /\ Passed(reading) => Running
      /\ Running /\ reading # "timeout" => Passed(reading)
      /\ Passed(reading) =>
            /\ Parse(installed[Resolved].out).version = installed[Resolved].version
            /\ installed[Resolved] \in Binaries
      /\ Resolved \in Paths \cup {NoPath}
    BY ProbeTells DEF IInv
<1>8. Passed(reading) => Parse(installed[Resolved].out) \in VersionsRead
    BY <1>7 DEF VersionsRead
<1>9. /\ doctor' \in Patients /\ doctor'.pc = "reach" /\ doctor'.report = d.report
      /\ doctor'.agyPath = d.agyPath /\ doctor'.adc = d.adc
      /\ doctor'.wasFit = d.wasFit /\ doctor'.since = d.since
      /\ doctor'.slow = (reading = "timeout")
      /\ doctor'.memo = IF Passed(reading) THEN Resolved ELSE d.memo
      /\ doctor'.version = IF Passed(reading) THEN Parse(installed[Resolved].out) ELSE d.version
    BY <1>2, <1>3, <1>6, <1>7, <1>8 DEF Patients
<1>10. /\ doctor.memo = NoPath /\ doctor.version = NoVersion
       /\ doctor.report["reach"] = "none" /\ doctor.report["adc"] = "none"
       /\ doctor.since <= changes
    BY <1>1 DEF IInv, Doctored, Undisturbed, AfterReach, AfterVersion
<1>11. /\ doctor'.report["version"] = PassIf(Passed(reading))
       /\ doctor'.report["reach"] = "none" /\ doctor'.report["adc"] = "none"
       /\ doctor'.report["jobs"] = doctor.report["jobs"]
    BY <1>6, <1>9, <1>10 DEF Checks
<1>12. TypeOK' /\ Histories' /\ Calls' /\ Resolved' = Resolved /\ (Running' <=> Running)
    BY <1>1, <1>6, <1>9, DoctorFrame
<1>13. Memo'
    <2>1. Passed(reading) => Resolved \in doctor.wasFit /\ Resolved # NoPath
        BY <1>1, <1>7, RunningFit DEF Running
    <2> QED BY <1>6, <1>9, <1>10, <1>11, <2>1 DEF Memo, PassIf
<1>14. Undisturbed'
    <2>1. doctor'.since <= changes' BY <1>1, <1>6, <1>9, <1>10 DEF OwnSteps
    <2>2. ASSUME ~doctor'.slow
          PROVE  /\ doctor'.report["version"] = PassIf(Running')
                 /\ doctor'.memo = IF Running' THEN Resolved' ELSE NoPath
        <3>1. Passed(reading) <=> Running BY <1>7, <1>9, <2>2
        <3> QED BY <1>6, <1>9, <1>10, <1>11, <1>12, <3>1 DEF PassIf
    <2>3. doctor'.version.tier # TierNone =>
             Running' /\ doctor'.version.version = installed'[Resolved'].version
        <3>1. installed' = installed BY <1>1 DEF OwnSteps
        <3> QED BY <1>6, <1>7, <1>9, <1>10, <1>12, <3>1 DEF NoVersion
    <2> QED BY <1>9, <1>11, <2>1, <2>2, <2>3 DEF Undisturbed, AfterReach, AfterVersion
<1>15. Stale' BY <1>1, <1>6, <1>9, <1>11 DEF IInv, Doctored, Stale
<1> QED BY <1>12, <1>13, <1>14, <1>15 DEF IInv, Doctored

\* What the doctor knows of the installation once the version is checked.
LEMMA AtReach ==
    ASSUME IInv, doctor.pc \in {"reach", "listing"}
    PROVE  /\ doctor.report["reach"] = "none" /\ doctor.report["adc"] = "none"
           /\ doctor.since <= changes
           /\ changes = doctor.since /\ ~doctor.slow =>
                /\ doctor.report["version"] = PassIf(Running)
                /\ doctor.pc = "reach" => doctor.memo = IF Running THEN Resolved ELSE NoPath
                /\ doctor.pc = "listing" => Running /\ doctor.memo = Resolved
                /\ doctor.version.tier # TierNone =>
                      Running /\ doctor.version.version = installed[Resolved].version
BY DEF IInv, Doctored, Undisturbed, AfterReach, AfterVersion, Stages

\* The gate of the listing, by the memo or by one more run.
LEMMA ReachStep == ASSUME IInv, CheckAgyReachable PROVE IInv'
<1>1. doctor.pc = "reach" /\ OwnSteps /\ job' = job /\ installed' = installed /\ changes' = changes
    BY DEF CheckAgyReachable, OwnSteps, world
<1>2. /\ doctor.report["reach"] = "none" /\ doctor.report["adc"] = "none"
      /\ doctor.since <= changes
      /\ changes = doctor.since /\ ~doctor.slow =>
           /\ doctor.report["version"] = PassIf(Running)
           /\ doctor.memo = IF Running THEN Resolved ELSE NoPath
           /\ doctor.version.tier # TierNone =>
                 Running /\ doctor.version.version = installed[Resolved].version
    BY <1>1, AtReach
<1>3. doctor \in Patients BY DEF IInv, TypeOK
<1>4. CASE Resolved # NoPath /\ doctor.memo = Resolved
           /\ doctor' = [doctor EXCEPT !.pc = "listing"]
    <2>1. /\ doctor' \in Patients
          /\ doctor'.pc = "listing" /\ doctor'.report = doctor.report
          /\ doctor'.agyPath = doctor.agyPath /\ doctor'.memo = doctor.memo
          /\ doctor'.version = doctor.version /\ doctor'.slow = doctor.slow
          /\ doctor'.adc = doctor.adc /\ doctor'.wasFit = doctor.wasFit
          /\ doctor'.since = doctor.since
        BY <1>3, <1>4 DEF Patients, Stages
    <2>2. TypeOK' /\ Histories' /\ Calls' /\ Resolved' = Resolved /\ (Running' <=> Running)
        BY <1>1, <2>1, DoctorFrame
    <2>3. Memo' BY <1>4, <2>1 DEF IInv, Doctored, Memo
    <2>4. PassIf(Running') = PassIf(Running) BY <2>2 DEF PassIf
    <2>5. Undisturbed'
        BY <1>1, <1>2, <1>4, <2>1, <2>2, <2>4 DEF Undisturbed, AfterReach, AfterVersion
    <2>6. Stale' BY <1>1, <2>1 DEF IInv, Doctored, Stale
    <2> QED BY <2>2, <2>3, <2>5, <2>6 DEF IInv, Doctored
<1>5. ASSUME NEW reading \in Probes, Passed(reading),
             doctor' = [doctor EXCEPT !.pc = "listing", !.memo = Resolved]
      PROVE  IInv'
    <2>1. Running /\ Resolved \in Paths \cup {NoPath} BY <1>5, ProbeTells DEF IInv
    <2>2. /\ doctor' \in Patients
          /\ doctor'.pc = "listing" /\ doctor'.report = doctor.report
          /\ doctor'.agyPath = doctor.agyPath /\ doctor'.memo = Resolved
          /\ doctor'.version = doctor.version /\ doctor'.slow = doctor.slow
          /\ doctor'.adc = doctor.adc /\ doctor'.wasFit = doctor.wasFit
          /\ doctor'.since = doctor.since
        BY <1>3, <1>5, <2>1 DEF Patients, Stages
    <2>3. TypeOK' /\ Histories' /\ Calls' /\ Resolved' = Resolved /\ (Running' <=> Running)
        BY <1>1, <2>2, DoctorFrame
    <2>4. Resolved \in doctor.wasFit /\ Resolved # NoPath
        BY <1>1, <2>1, RunningFit DEF Running
    <2>5. Memo' BY <2>2, <2>4 DEF Memo
    <2>6. PassIf(Running') = PassIf(Running) BY <2>3 DEF PassIf
    <2>7. Undisturbed'
        BY <1>1, <1>2, <2>1, <2>2, <2>3, <2>6 DEF Undisturbed, AfterReach, AfterVersion
    <2>8. Stale' BY <1>1, <2>2 DEF IInv, Doctored, Stale
    <2> QED BY <2>3, <2>5, <2>7, <2>8 DEF IInv, Doctored
<1>6. ASSUME NEW reading \in Probes, ~Passed(reading),
             doctor' = [Reported("reach", "Fail", "adc")
                        EXCEPT !.slow = @ \/ reading = "timeout"]
      PROVE  IInv'
    <2>1. PICK d : d = Reported("reach", "Fail", "adc") OBVIOUS
    <2>2. "reach" \in Checks /\ "adc" \in Stages /\ "Fail" \in Statuses
        BY DEF Checks, Stages, Statuses
    <2>3. /\ d \in Patients
          /\ d.pc = "adc" /\ d.report["reach"] = "Fail"
          /\ \A l \in Checks \ {"reach"} : d.report[l] = doctor.report[l]
          /\ d.agyPath = doctor.agyPath /\ d.memo = doctor.memo
          /\ d.version = doctor.version /\ d.slow = doctor.slow
          /\ d.adc = doctor.adc /\ d.wasFit = doctor.wasFit
          /\ d.since = doctor.since
        BY <2>1, <2>2, ReportedShape DEF IInv
    <2>4. doctor' = [d EXCEPT !.slow = d.slow \/ reading = "timeout"] BY <1>6, <2>1
    <2>5. /\ doctor' \in Patients /\ doctor'.pc = "adc" /\ doctor'.report = d.report
          /\ doctor'.agyPath = d.agyPath /\ doctor'.memo = d.memo
          /\ doctor'.version = d.version /\ doctor'.adc = d.adc
          /\ doctor'.wasFit = d.wasFit /\ doctor'.since = d.since
          /\ ~doctor'.slow => ~d.slow /\ reading # "timeout"
        BY <2>3, <2>4 DEF Patients
    <2>6. /\ doctor'.report["version"] = doctor.report["version"]
          /\ doctor'.report["reach"] = "Fail" /\ doctor'.report["adc"] = "none"
          /\ doctor'.report["jobs"] = doctor.report["jobs"]
        BY <1>2, <2>3, <2>5 DEF Checks
    <2>7. TypeOK' /\ Histories' /\ Calls' /\ Resolved' = Resolved /\ (Running' <=> Running)
        BY <1>1, <2>3, <2>5, DoctorFrame
    <2>8. Memo' BY <2>3, <2>5, <2>6 DEF IInv, Doctored, Memo
    <2>9. Undisturbed'
        <3>1. ~doctor'.slow => ~Running /\ ~doctor.slow
            BY <1>6, <2>3, <2>5, ProbeTells DEF IInv
        <3>2. ~doctor'.slow =>
                 /\ PassIf(Running') = PassIf(Running)
                 /\ PassIf(Running' /\ Lists(installed'[Resolved'])) = "Fail"
            BY <2>7, <3>1 DEF PassIf
        <3>3. doctor'.pc \notin {"idle", "binary", "version", "reach", "listing"}
            BY <2>3, <2>5
        <3>4. doctor'.pc \in AfterReach BY <2>3, <2>5 DEF AfterReach, AfterVersion, Stages
        <3> QED BY <1>1, <1>2, <2>3, <2>5, <2>6, <2>7, <3>1, <3>2, <3>3, <3>4
            DEF Undisturbed
    <2>10. Stale' BY <1>1, <2>3, <2>5, <2>6 DEF IInv, Doctored, Stale
    <2> QED BY <2>7, <2>8, <2>9, <2>10 DEF IInv, Doctored
<1> QED BY <1>4, <1>5, <1>6 DEF CheckAgyReachable

\* The listing, of the agy at the remembered path.
LEMMA ListStep == ASSUME IInv, ListModels PROVE IInv'
<1>1. doctor.pc = "listing" /\ OwnSteps /\ job' = job /\ installed' = installed /\ changes' = changes
    BY DEF ListModels, OwnSteps, world
<1>2. PICK inTime \in BOOLEAN :
         doctor' = [Reported("reach", PassIf(inTime /\ Lists(installed[doctor.memo])), "adc")
                    EXCEPT !.slow = @ \/ ~inTime]
    BY DEF ListModels
<1> DEFINE status == PassIf(inTime /\ Lists(installed[doctor.memo]))
<1>3. PICK d : d = Reported("reach", status, "adc") OBVIOUS
<1>4. "reach" \in Checks /\ "adc" \in Stages /\ status \in Statuses
    BY DEF Checks, Stages, Statuses, PassIf
<1>5. /\ d \in Patients
      /\ d.pc = "adc" /\ d.report["reach"] = status
      /\ \A l \in Checks \ {"reach"} : d.report[l] = doctor.report[l]
      /\ d.agyPath = doctor.agyPath /\ d.memo = doctor.memo
      /\ d.version = doctor.version /\ d.slow = doctor.slow
      /\ d.adc = doctor.adc /\ d.wasFit = doctor.wasFit
      /\ d.since = doctor.since
    <2> HIDE DEF status
    <2> QED BY <1>3, <1>4, ReportedShape DEF IInv
<1>6. doctor' = [d EXCEPT !.slow = d.slow \/ ~inTime] BY <1>2, <1>3
<1> HIDE DEF status
<1>7. /\ doctor' \in Patients /\ doctor'.pc = "adc" /\ doctor'.report = d.report
      /\ doctor'.agyPath = d.agyPath /\ doctor'.memo = d.memo
      /\ doctor'.version = d.version /\ doctor'.adc = d.adc
      /\ doctor'.wasFit = d.wasFit /\ doctor'.since = d.since
      /\ ~doctor'.slow => ~d.slow /\ inTime
    BY <1>5, <1>6 DEF Patients
<1>8. /\ doctor.report["adc"] = "none" /\ doctor.since <= changes
      /\ changes = doctor.since /\ ~doctor.slow =>
           /\ doctor.report["version"] = PassIf(Running)
           /\ Running /\ doctor.memo = Resolved
           /\ doctor.version.tier # TierNone =>
                 Running /\ doctor.version.version = installed[Resolved].version
    BY <1>1, AtReach
<1>9. /\ doctor'.report["version"] = doctor.report["version"]
      /\ doctor'.report["reach"] = status /\ doctor'.report["adc"] = "none"
      /\ doctor'.report["jobs"] = doctor.report["jobs"]
    BY <1>5, <1>7, <1>8 DEF Checks
<1>10. TypeOK' /\ Histories' /\ Calls' /\ Resolved' = Resolved /\ (Running' <=> Running)
    BY <1>1, <1>5, <1>7, DoctorFrame
<1>11. Memo' BY <1>1, <1>5, <1>7, <1>9 DEF IInv, Doctored, Memo
<1>12. Undisturbed'
    <2>1. ASSUME changes' = doctor'.since, ~doctor'.slow
          PROVE  /\ doctor'.report["version"] = PassIf(Running')
                 /\ doctor'.report["reach"] = PassIf(Running' /\ Lists(installed'[Resolved']))
                 /\ doctor'.version.tier # TierNone =>
                       Running' /\ doctor'.version.version = installed'[Resolved'].version
        <3>1. changes = doctor.since /\ ~doctor.slow /\ inTime
            BY <1>1, <1>5, <1>7, <2>1
        <3>2. status = PassIf(Running' /\ Lists(installed'[Resolved']))
            BY <1>1, <1>8, <1>10, <3>1 DEF status, PassIf
        <3>3. PassIf(Running') = PassIf(Running) BY <1>10 DEF PassIf
        <3> QED BY <1>1, <1>5, <1>7, <1>8, <1>9, <1>10, <3>1, <3>2, <3>3
    <2>2. doctor'.pc \notin {"idle", "binary", "version", "reach", "listing"}
        BY <1>5, <1>7
    <2>3. doctor'.pc \in AfterReach BY <1>5, <1>7 DEF AfterReach, AfterVersion, Stages
    <2> QED BY <1>1, <1>5, <1>7, <1>8, <1>9, <2>1, <2>2, <2>3 DEF Undisturbed
<1>13. Stale' BY <1>1, <1>5, <1>7, <1>9 DEF IInv, Doctored, Stale
<1> QED BY <1>10, <1>11, <1>12, <1>13 DEF IInv, Doctored

\* A check that only reports is a later step.
LEMMA ReportStep ==
    ASSUME IInv, OwnSteps, NEW k \in {"dir", "config", "jobs"}, NEW status \in Statuses,
           doctor.pc \in AfterReach, doctor.pc # "done",
           NEW pc \in AfterReach, pc = "done" <=> k = "jobs",
           doctor' = Reported(k, status, pc),
           IF k = "jobs" THEN status = "Warn" => job' # "running" ELSE job' = job
    PROVE  IInv'
<1>1. k \in Checks /\ pc \in Stages BY DEF Checks, AfterReach, AfterVersion
<1>2. /\ doctor' \in Patients
      /\ doctor'.pc = pc /\ doctor'.report[k] = status
      /\ \A l \in Checks \ {k} : doctor'.report[l] = doctor.report[l]
      /\ doctor'.agyPath = doctor.agyPath /\ doctor'.memo = doctor.memo
      /\ doctor'.version = doctor.version /\ doctor'.slow = doctor.slow
      /\ doctor'.adc = doctor.adc /\ doctor'.wasFit = doctor.wasFit
      /\ doctor'.since = doctor.since
    BY <1>1, ReportedShape DEF IInv
<1>3. \A l \in {"version", "reach", "adc"} : doctor'.report[l] = doctor.report[l]
    BY <1>2 DEF Checks
<1>4. Stale'
    <2>1. CASE k = "jobs" BY <1>2, <2>1 DEF Stale
    <2>2. CASE k # "jobs" BY <1>2, <2>2 DEF Checks, IInv, Doctored, Stale
    <2> QED BY <2>1, <2>2
<1> QED BY <1>2, <1>3, <1>4, LaterStep

\* The settings of agy are judged by the version read.
LEMMA ADCStep == ASSUME IInv, CheckADCEnv PROVE IInv'
<1>1. doctor.pc = "adc" /\ OwnSteps /\ job' = job BY DEF CheckADCEnv, OwnSteps, world
<1>2. PICK adc \in BOOLEAN, useADC \in BOOLEAN :
         doctor' = [Reported("adc", IF ADCCaveat(adc, useADC) THEN "Warn" ELSE "Pass", "dir")
                    EXCEPT !.adc = adc]
    BY DEF CheckADCEnv
<1> DEFINE status == IF ADCCaveat(adc, useADC) THEN "Warn" ELSE "Pass"
<1>3. PICK d : d = Reported("adc", status, "dir") OBVIOUS
<1>4. "adc" \in Checks /\ "dir" \in Stages /\ status \in Statuses
    BY DEF Checks, Stages, Statuses
<1>5. status = "Warn" /\ adc => /\ doctor.version.tier # TierNone
                                /\ ~AtLeast(doctor.version.version, ADCLoadFix)
    BY DEF ADCCaveat
<1> HIDE DEF status
<1>6. /\ d \in Patients
      /\ d.pc = "dir" /\ d.report["adc"] = status
      /\ \A l \in Checks \ {"adc"} : d.report[l] = doctor.report[l]
      /\ d.agyPath = doctor.agyPath /\ d.memo = doctor.memo
      /\ d.version = doctor.version /\ d.slow = doctor.slow
      /\ d.adc = doctor.adc /\ d.wasFit = doctor.wasFit
      /\ d.since = doctor.since
    BY <1>3, <1>4, ReportedShape DEF IInv
<1>7. doctor' = [d EXCEPT !.adc = adc] BY <1>2, <1>3 DEF status
<1>8. /\ doctor' \in Patients /\ doctor'.pc = "dir" /\ doctor'.report = d.report
      /\ doctor'.agyPath = d.agyPath /\ doctor'.memo = d.memo
      /\ doctor'.version = d.version /\ doctor'.slow = d.slow /\ doctor'.adc = adc
      /\ doctor'.wasFit = d.wasFit /\ doctor'.since = d.since
    BY <1>6, <1>7 DEF Patients
<1>9. /\ doctor'.report["version"] = doctor.report["version"]
      /\ doctor'.report["reach"] = doctor.report["reach"]
      /\ doctor'.report["adc"] = status
      /\ doctor'.report["jobs"] = doctor.report["jobs"]
    BY <1>6, <1>8 DEF Checks
<1>10. doctor.pc \in AfterReach /\ doctor'.pc \in AfterReach
    BY <1>1, <1>8 DEF AfterReach, AfterVersion, Stages
<1>11. Stale' BY <1>1, <1>6, <1>8, <1>9 DEF IInv, Doctored, Stale
<1> QED BY <1>1, <1>5, <1>6, <1>8, <1>9, <1>10, <1>11, LaterStep

\* No check but that of the sentinel, and the one after it, says that a job is stale.
LEMMA RestStep ==
    ASSUME IInv, CheckStateDir \/ CheckConfigSources \/ CheckSentinel \/ CheckAlive
    PROVE  IInv'
<1>1. OwnSteps
    BY DEF CheckStateDir, CheckConfigSources, CheckSentinel, CheckAlive, OwnSteps, world
<1>2. {"dir", "config", "jobs", "alive", "done"} \subseteq AfterReach
    BY DEF AfterReach, AfterVersion, Stages
<1>3. {"Pass", "Warn", "Fail"} \subseteq Statuses BY DEF Statuses
<1>4. CASE CheckStateDir
    <2>1. PICK dirs \in Ancestors : doctor' = Reported("dir", PassIf(Writable(dirs)), "config")
        BY <1>4 DEF CheckStateDir
    <2>2. PassIf(Writable(dirs)) \in Statuses BY DEF PassIf, Statuses
    <2>3. doctor.pc = "dir" /\ job' = job BY <1>4 DEF CheckStateDir, world
    <2> QED BY <1>1, <1>2, <2>1, <2>2, <2>3, ReportStep
<1>5. CASE CheckConfigSources
    <2>1. /\ doctor.pc = "config" /\ job' = job
          /\ doctor' = Reported("config", "Pass", "jobs")
        BY <1>5 DEF CheckConfigSources, world
    <2> QED BY <1>1, <1>2, <1>3, <2>1, ReportStep
<1>6. CASE CheckSentinel
    <2>1. doctor.pc = "jobs" BY <1>6 DEF CheckSentinel
    <2>2. CASE doctor' = Reported("jobs", "Fail", "done")
        BY <1>1, <1>2, <1>3, <2>1, <2>2, ReportStep
    <2>3. CASE job' \in {"none", "finished", "unreadable"}
               /\ doctor' = Reported("jobs", IF job' = "unreadable" THEN "Warn" ELSE "Pass", "done")
        <3> DEFINE status == IF job' = "unreadable" THEN "Warn" ELSE "Pass"
        <3>1. status \in Statuses BY DEF Statuses
        <3>2. job' # "running" /\ doctor' = Reported("jobs", status, "done") BY <2>3
        <3> HIDE DEF status
        <3> QED BY <1>1, <1>2, <2>1, <3>1, <3>2, ReportStep
    <2>4. CASE job' \in {"running", "dead"} /\ doctor' = [doctor EXCEPT !.pc = "alive"]
        <3>1. doctor.report["jobs"] = "none"
            BY <2>1 DEF IInv, Doctored, Stale
        <3>2. /\ doctor' \in Patients
              /\ doctor'.pc = "alive" /\ doctor'.report = doctor.report
              /\ doctor'.agyPath = doctor.agyPath /\ doctor'.memo = doctor.memo
              /\ doctor'.version = doctor.version /\ doctor'.slow = doctor.slow
              /\ doctor'.adc = doctor.adc /\ doctor'.wasFit = doctor.wasFit
              /\ doctor'.since = doctor.since
            BY <2>4 DEF IInv, TypeOK, Patients, Stages
        <3>3. Stale' BY <3>1, <3>2 DEF Stale
        <3> QED BY <1>1, <1>2, <2>1, <3>2, <3>3, LaterStep
    <2> QED BY <1>6, <2>2, <2>3, <2>4 DEF CheckSentinel
<1>7. CASE CheckAlive
    <2> DEFINE status == IF job = "running" THEN "Pass" ELSE "Warn"
    <2>1. status \in Statuses /\ (status = "Warn" => job # "running") BY DEF Statuses
    <2>2. doctor.pc = "alive" /\ job' = job /\ doctor' = Reported("jobs", status, "done")
        BY <1>7 DEF CheckAlive, world
    <2> HIDE DEF status
    <2> QED BY <1>1, <1>2, <2>1, <2>2, ReportStep
<1> QED BY <1>4, <1>5, <1>6, <1>7

\* Every step keeps the invariant.
LEMMA InvNext == IInv /\ [Next]_vars => IInv'
<1> SUFFICES ASSUME IInv, [Next]_vars PROVE IInv'
    OBVIOUS
<1>1. ASSUME NEW c \in Callers, Resolve(c) \/ Lock(c) \/ Probed(c) \/ Cancelled(c)
      PROVE  IInv'
    BY <1>1, GateStep
<1>2. CASE Doctor
    BY <1>2, StartStep, BinaryStep, VersionStep, ReachStep, ListStep, ADCStep, RestStep DEF Doctor
<1>3. ASSUME NEW p \in Paths, NEW b \in Binaries \cup {Absent}, Install(p, b) PROVE IInv'
    BY <1>3, InstallStep DEF Agys
<1>4. ASSUME NEW p \in Paths \cup {NoPath}, Repath(p) PROVE IInv'
    BY <1>4, RepathStep
<1>5. CASE JobEnds
    <2>1. Stale' BY <1>5 DEF JobEnds, IInv, Doctored, Stale
    <2> QED BY <1>5, <2>1, JobStep DEF JobEnds
<1>6. CASE UNCHANGED vars
    <2>1. Stale' BY <1>6 DEF vars, IInv, Doctored, Stale
    <2> QED BY <1>6, <2>1, JobStep DEF vars
<1> QED BY <1>1, <1>2, <1>3, <1>4, <1>5, <1>6 DEF Next

-----------------------------------------------------------------------------
\* In every behaviour the memo, the calls and the doctor know what they should.
THEOREM Known == Spec => []IInv
<1>1. Init => IInv BY InvInit
<1>2. IInv /\ [Next]_vars => IInv' BY InvNext
<1> QED BY <1>1, <1>2, PTL DEF Spec

\* For agys whose output tells their version (Told), a call is let through only to
\* a path at which a fit agy was, and refused for what agy is only if that was so.
THEOREM VerdictAlways == Spec => []VerdictSound
<1>1. IInv => VerdictSound BY DEF IInv, Calls, KnownCall, VerdictSound
<1> QED BY <1>1, Known, PTL

\* A report in which nothing failed is of a fit agy, once every check has spoken.
\* That they all have is not recorded but follows from where the doctor is.
LEMMA DoneHonest == IInv => DoctorHonest
<1> SUFFICES ASSUME IInv PROVE DoctorHonest
    OBVIOUS
<1> DEFINE r == doctor.report
<1>1. "Pass" \in {r["version"], r["reach"]} => doctor.memo \in doctor.wasFit
    BY DEF IInv, Doctored, Memo
<1>2. ASSUME doctor.pc = "done"
      PROVE  /\ r["jobs"] = "Warn" => job # "running"
             /\ (changes = doctor.since /\ ~doctor.slow) =>
                  /\ r["version"] = "Pass" <=> Running
                  /\ r["reach"] = "Pass" <=> Running /\ Lists(installed[Resolved])
                  /\ r["adc"] = "Warn" /\ doctor.adc =>
                        ~AtLeast(installed[Resolved].version, ADCLoadFix)
                  /\ OK => Running
    <2>1. r["jobs"] = "Warn" => job # "running" BY DEF IInv, Doctored, Stale
    <2>2. ASSUME changes = doctor.since, ~doctor.slow
          PROVE  /\ r["version"] = PassIf(Running)
                 /\ r["reach"] = PassIf(Running /\ Lists(installed[Resolved]))
                 /\ r["adc"] = "Warn" /\ doctor.adc =>
                       ~AtLeast(installed[Resolved].version, ADCLoadFix)
        <3>1. doctor.pc \in AfterVersion /\ doctor.pc \in AfterReach /\ doctor.pc # "idle"
            BY <1>2 DEF AfterReach, AfterVersion, Stages
        <3> QED BY <2>2, <3>1 DEF IInv, Doctored, Undisturbed
    <2>3. OK => r["version"] # "Fail" BY DEF OK, Checks
    <2> QED BY <2>1, <2>2, <2>3 DEF PassIf
<1> QED BY <1>1, <1>2 DEF DoctorHonest, Running

\* The doctor's report is true of the installation it looked at.
THEOREM DoctorAlways == Spec => []DoctorHonest
<1> QED BY DoneHonest, Known, PTL
=============================================================================
