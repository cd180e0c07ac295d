--------------------------- MODULE QuotaReading ---------------------------
(* What a /usage reply means: how the envelope agy prints is told apart,   *)
(* and how a reading is judged for an optional run. Pure operators of      *)
(* manager/quota.go. Fractions are whole percents; the time 0 is Go's zero *)
(* time, so a reset of 0 is one agy did not report.                        *)
EXTENDS Integers, Sequences, FiniteSets, SequencesExt

CONSTANTS Low,       \* AGY_MCP_USAGE_LOW
          Critical   \* AGY_MCP_USAGE_CRITICAL

\* config.Resolve refuses any other pair.
ASSUME ThresholdAssumption == /\ Low \in 0..100 /\ Critical \in 0..100
                              /\ Critical <= Low

---------------------------------------------------------------------------
(* The envelope. A raw bucket may lack its fraction (carries is then FALSE; *)
(* agy disables buckets) or have a reset time that does not parse; the      *)
(* array of groups is missing (listed is FALSE) when the field was renamed. *)
Unreadable == -1

NoReading == <<>>

\* A reply that is not the usage command and shows a turn spent quota.
IsModelTurn(env) == env.command # "usage" /\ env.turn

RawBucket == [carries : BOOLEAN, left : Int, reset : Int]
RawGroup == [gemini : BOOLEAN, buckets : Seq(RawBucket)]

\* A bucket that agy gave no fraction is skipped; a group left without one too.
Carried(rawGroup) ==
    FoldLeft(LAMBDA kept, b : IF b.carries THEN Append(kept, b) ELSE kept,
             <<>>, rawGroup.buckets)

Kept(rawGroups) ==
    FoldLeft(LAMBDA kept, g : IF Carried(g) # <<>>
                              THEN Append(kept, [gemini |-> g.gemini, buckets |-> Carried(g)])
                              ELSE kept,
             <<>>, rawGroups)

\* validateListingFraming, the missing array, a bad reset time of a bucket that
\* counts, and groups none of which carries a fraction.
Malformed(env) ==
    \/ ~env.parses
    \/ ~env.success
    \/ env.command # "usage"
    \/ ~env.listed
    \/ \E i \in 1..Len(env.groups) : \E j \in 1..Len(Carried(env.groups[i])) :
           Carried(env.groups[i])[j].reset = Unreadable
    \/ env.groups # <<>> /\ Kept(env.groups) = <<>>

Decode(env) ==
    IF env.parses /\ IsModelTurn(env) THEN [kind |-> "turn", reading |-> NoReading]
    ELSE IF Malformed(env) THEN [kind |-> "failed", reading |-> NoReading]
    ELSE [kind |-> "ok", reading |-> Kept(env.groups)]

---------------------------------------------------------------------------
(* Judging a reading.                                                      *)
Refilled(b, now) == b.reset # 0 /\ b.reset <= now

Clamp(x) == IF x < 0 THEN 0 ELSE IF x > 100 THEN 100 ELSE x

\* Mutant of EffectiveRemaining: a reset that has passed is not counted.
RemainingAsReported(b, now) == Clamp(b.left)

EffectiveRemaining(b, now) == IF Refilled(b, now) THEN 100 ELSE Clamp(b.left)

LevelOf(r) == IF r <= 0 THEN "exhausted"
              ELSE IF r < Critical THEN "critical"
              ELSE IF r < Low THEN "low"
              ELSE "ok"

\* The bucket the scan of groupQuota ends with: least left, then the later
\* reset, then the first of what is still equal.
Binds(g, i, now) ==
    \A j \in 1..Len(g.buckets) \ {i} :
        LET ri == EffectiveRemaining(g.buckets[i], now)
            rj == EffectiveRemaining(g.buckets[j], now)
        IN \/ ri < rj
           \/ ri = rj /\ g.buckets[i].reset > g.buckets[j].reset
           \/ ri = rj /\ g.buckets[i].reset = g.buckets[j].reset /\ i < j

Binding(g, now) == g.buckets[CHOOSE i \in 1..Len(g.buckets) : Binds(g, i, now)]

GroupQuota(g, now) ==
    LET b == Binding(g, now)
        r == EffectiveRemaining(b, now)
    IN [remaining |-> r, level |-> LevelOf(r), binding |-> b]

GeminiGroups(reading) == {i \in 1..Len(reading) : reading[i].gemini}

\* Only a Gemini model with exactly one group to draw from is matched.
GroupForModel(reading, gemini) ==
    IF gemini /\ Cardinality(GeminiGroups(reading)) = 1
    THEN GeminiGroups(reading)
    ELSE {}

QuotaDecision(reading, now, gemini) ==
    \E i \in GroupForModel(reading, gemini) :
        GroupQuota(reading[i], now).level # "ok"
===========================================================================
