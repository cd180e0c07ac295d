---------------------------- MODULE QuotaProofs ----------------------------
(***************************************************************************)
(* Proofs about Quota, for any callers, ages, replies, thresholds and      *)
(* bounds.                                                                 *)
(*                                                                         *)
(* The invariant ties the three places a probe leaves its mark in: the     *)
(* probes themselves (OneRuns, Times), the cache (Remembered) and the      *)
(* calls that wait for one (JoinedCall) or have been answered (HonestCall).*)
(* ProbesSpaced is not inductive alone: that the backoff test looks at the *)
(* last probe's end needs Remembered, and that nothing runs when a probe   *)
(* is started needs OneRuns.                                               *)
(* RefusalExact needs Remembered, that the snapshot is the last reading,   *)
(* and what the code computes of a reading: that the groups it keeps have  *)
(* buckets, that the scan ends with one of them, and that looking at that  *)
(* one is looking at all.                                                  *)
(***************************************************************************)
EXTENDS Quota, FiniteSetTheorems, SequenceTheorems, WellFoundedInduction, TLAPS

Probed == 1..Len(probes)

\* Only the last probe can be running, and inflight is that one.
OneRuns ==
    /\ inflight # 0 => inflight = Len(probes)
    /\ \A f \in Probed : probes[f].phase = "running" <=> f = inflight
    /\ \A f \in Probed : probes[f].out = "none" <=> probes[f].phase = "running"

\* A probe's times lie in the past, and an ended one has an end.
Times ==
    \A f \in Probed :
        /\ probes[f].start <= now
        /\ probes[f].end <= now
        /\ probes[f].phase # "running" => probes[f].end # 0

\* What the cache remembers is what the probes found.
Remembered ==
    /\ lastErr # 0 => \E f \in Probed : /\ probes[f].out \in {"failed", "turn"}
                                        /\ probes[f].end = lastErr
    /\ \A f \in Probed : f = Len(probes) /\ probes[f].out = "failed" => lastErr = probes[f].end
    /\ unsafe <=> \E f \in Probed : probes[f].out = "turn"
    /\ snap.at # 0 => /\ snap.from \in Probed
                      /\ probes[snap.from].out = "ok"
                      /\ probes[snap.from].reading = snap.reading
                      /\ probes[snap.from].end = snap.at
    /\ \A f \in Probed : probes[f].out = "ok" => snap.at # 0 /\ f <= snap.from

\* A waiting call joined a probe that had not ended when it asked.
JoinedCall(r) ==
    /\ r.asked <= now
    /\ r.pc = "wait" =>
         /\ r.joined \in Probed
         /\ r.maxAge # 0
         /\ \A g \in Probed : g >= r.joined /\ probes[g].phase # "running" =>
                                 probes[g].end >= r.asked

\* AnswerHonest, of one call.
HonestCall(r) ==
    /\ r.answer.kind = "snapshot" =>
         /\ r.answer.snap.from \in Probed
         /\ probes[r.answer.snap.from].out = "ok"
         /\ probes[r.answer.snap.from].reading = r.answer.snap.reading
         /\ probes[r.answer.snap.from].end = r.answer.snap.at
         /\ r.asked - r.answer.snap.at < r.maxAge
         /\ \A g \in Probed :
               probes[g].out = "ok" /\ probes[g].end < r.asked => g <= r.answer.snap.from
    /\ r.answer.kind = "failed" =>
         \E f \in Probed : /\ probes[f].out \in {"failed", "turn"}
                           /\ r.asked - probes[f].end < Backoff
    /\ r.answer.kind = "disabled" => \E f \in Probed : probes[f].out = "turn"

Call == [pc : {"idle", "wait", "done"}, joined : Nat, asked : Nat, maxAge : Nat,
         answer : Answer]

Calls == \A c \in Callers : JoinedCall(caller[c]) /\ HonestCall(caller[c])

Cache == OneRuns /\ Times /\ Remembered /\ ProbesSpaced /\ NoProbeAfterTurn

IInv == TypeOK /\ Cache /\ Calls

-----------------------------------------------------------------------------
(* The operators.                                                          *)

\* An age asked for becomes a positive one.
LEMMA AgeType == \A age \in MaxAges : EffectiveMaxAge(age) \in Nat \ {0}
BY AgeAssumption DEF EffectiveMaxAge

\* A probe ends with a reading, a failure or a model turn.
LEMMA FetchType ==
    ASSUME NEW end, NEW env \in Envelopes
    PROVE  /\ FetchOutcome(end, env).kind \in {"ok", "failed", "turn"}
           /\ FetchOutcome(end, env).reading \in Readings
<1>1. Decode(env).kind \in {"ok", "failed", "turn"} BY DEF Decode
<1>2. Decode(env).reading \in Readings BY DEF Readings
<1>3. NoReading \in Readings BY DEF Readings
<1> QED BY <1>1, <1>2, <1>3, Zenon DEF FetchOutcome

-----------------------------------------------------------------------------
\* It holds at first.
LEMMA InvInit == Init => IInv
<1> SUFFICES ASSUME Init PROVE IInv
    OBVIOUS
<1>1. Probed = {} /\ Len(probes) = 0 BY DEF Init, Probed
<1>2. TypeOK
    <2>1. NoReading \in Readings BY DEF Readings
    <2>2. probes \in Seq(Probe) BY DEF Init
    <2>3. NoSnap \in Snapshot /\ NoAnswer \in Answer
        BY <2>1 DEF NoSnap, NoAnswer, Snapshot, Answer
    <2>4. refresher \in [pc : {"loop", "await", "sleep", "stopped"}, joined : Nat]
        BY DEF Init
    <2>5. caller \in [Callers -> Call] BY <2>3 DEF Init, Call
    <2>6. now \in Nat \ {0} /\ inflight \in 0..Len(probes) /\ lastErr \in Nat
        BY <1>1 DEF Init
    <2>7. unsafe \in BOOLEAN /\ ctxEnded \in BOOLEAN /\ snap \in Snapshot
        BY <2>3 DEF Init
    <2> QED BY <2>2, <2>4, <2>5, <2>6, <2>7 DEF TypeOK, Call
<1>3. OneRuns /\ Times /\ ProbesSpaced /\ NoProbeAfterTurn
    BY <1>1 DEF Init, OneRuns, Times, ProbesSpaced, NoProbeAfterTurn
<1>4. Remembered BY <1>1 DEF Init, NoSnap, Remembered
<1>5. Calls BY <1>1 DEF Init, NoAnswer, Calls, JoinedCall, HonestCall
<1> QED BY <1>2, <1>3, <1>4, <1>5 DEF IInv, Cache

-----------------------------------------------------------------------------
(* Steps that leave the probes alone.                                      *)

\* A step of one call: what it leaves in that call's place has to be honest.
LEMMA CallStep ==
    ASSUME IInv, NEW c \in Callers, NEW r \in Call,
           caller' = [caller EXCEPT ![c] = r],
           JoinedCall(r), HonestCall(r),
           UNCHANGED <<now, probes, inflight, snap, lastErr, unsafe, refresher, ctxEnded>>
    PROVE  IInv'
<1>1. TypeOK'
    <2>1. caller' \in [Callers -> Call] BY DEF IInv, TypeOK, Call
    <2> QED BY <2>1 DEF IInv, TypeOK, Call
<1>2. Cache'
    BY DEF IInv, Cache, OneRuns, Times, Remembered, ProbesSpaced, NoProbeAfterTurn, Probed
<1>3. Calls'
    <2> SUFFICES ASSUME NEW d \in Callers
                 PROVE  (JoinedCall(caller[d]) /\ HonestCall(caller[d]))'
        BY DEF Calls
    <2>1. caller'[d] = IF d = c THEN r ELSE caller[d] BY DEF IInv, TypeOK
    <2>2. CASE d = c
        BY <2>1, <2>2 DEF JoinedCall, HonestCall, Probed
    <2>3. CASE d # c
        <3>1. JoinedCall(caller[d]) /\ HonestCall(caller[d]) BY DEF IInv, Calls
        <3> QED BY <2>1, <2>3, <3>1 DEF JoinedCall, HonestCall, Probed
    <2> QED BY <2>2, <2>3
<1> QED BY <1>1, <1>2, <1>3 DEF IInv

\* The refresher's own steps and the end of the server's context.
LEMMA OwnStep ==
    ASSUME IInv, UNCHANGED <<now, probes, inflight, snap, lastErr, unsafe, caller>>,
           refresher' \in [pc : {"loop", "await", "sleep", "stopped"}, joined : Nat],
           ctxEnded' \in BOOLEAN
    PROVE  IInv'
<1>1. TypeOK' BY DEF IInv, TypeOK
<1>2. Cache'
    BY DEF IInv, Cache, OneRuns, Times, Remembered, ProbesSpaced, NoProbeAfterTurn, Probed
<1>3. Calls' BY DEF IInv, Calls, JoinedCall, HonestCall, Probed
<1> QED BY <1>1, <1>2, <1>3 DEF IInv

-----------------------------------------------------------------------------
(* Steps of the probes. None takes back what an ended probe found, and one *)
(* that had not ended either still runs or ends now.                       *)
Grows ==
    /\ now' \in Nat /\ now <= now'
    /\ Len(probes') \in Nat /\ Len(probes) <= Len(probes')
    /\ \A f \in Probed : probes[f].out # "none" =>
          /\ probes'[f].out = probes[f].out
          /\ probes'[f].reading = probes[f].reading
          /\ probes'[f].end = probes[f].end
    /\ \A f \in 1..Len(probes') : (f \in Probed => probes[f].out = "none") =>
          \/ probes'[f].phase = "running" /\ probes'[f].out = "none"
          \/ probes'[f].phase # "running" /\ probes'[f].end = now'

\* So a call that was honest, or waited for its probe, still is and does.
LEMMA CallKept ==
    ASSUME IInv, Grows, NEW d \in Callers, caller'[d] = caller[d]
    PROVE  (JoinedCall(caller[d]) /\ HonestCall(caller[d]))'
<1> DEFINE r == caller[d]
<1>1. JoinedCall(r) /\ HonestCall(r) BY DEF IInv, Calls
<1>2. r \in Call BY DEF IInv, TypeOK, Call
<1>3. r.asked \in Nat /\ r.joined \in Nat /\ r.maxAge \in Nat
      /\ r.answer.snap.from \in Nat /\ r.answer.snap.at \in Nat
    BY <1>2 DEF Call, Answer, Snapshot
<1>4. now \in Nat /\ Len(probes) \in Nat BY LenProperties DEF IInv, TypeOK
<1>5. \A f \in Probed : probes[f].out = "none" <=> probes[f].phase = "running"
    BY DEF IInv, Cache, OneRuns
<1>6. Probed \subseteq 1..Len(probes') BY <1>4 DEF Probed, Grows
<1>7. JoinedCall(caller[d])'
    <2>1. r.asked <= now' BY <1>1, <1>3, <1>4 DEF JoinedCall, Grows
    <2>2. ASSUME r.pc = "wait", NEW g \in 1..Len(probes'), g >= r.joined,
                 probes'[g].phase # "running"
          PROVE  probes'[g].end >= r.asked
        <3>1. CASE g \in Probed /\ probes[g].out # "none"
            BY <1>1, <1>5, <2>2, <3>1 DEF JoinedCall, Grows
        <3>2. CASE g \in Probed => probes[g].out = "none"
            BY <2>1, <2>2, <3>2, <1>3 DEF Grows
        <3> QED BY <3>1, <3>2
    <2>3. r.pc = "wait" => r.joined \in 1..Len(probes') /\ r.maxAge # 0
        BY <1>1, <1>6 DEF JoinedCall
    <2> QED BY <2>1, <2>2, <2>3 DEF JoinedCall, Probed
<1>8. HonestCall(caller[d])'
    <2>1. r.answer.kind = "snapshot" =>
            /\ r.answer.snap.from \in 1..Len(probes')
            /\ probes'[r.answer.snap.from].out = "ok"
            /\ probes'[r.answer.snap.from].reading = r.answer.snap.reading
            /\ probes'[r.answer.snap.from].end = r.answer.snap.at
            /\ r.asked - r.answer.snap.at < r.maxAge
        BY <1>1, <1>6 DEF HonestCall, Grows
    <2>2. ASSUME r.answer.kind = "snapshot", NEW g \in 1..Len(probes'),
                 probes'[g].out = "ok", probes'[g].end < r.asked
          PROVE  g <= r.answer.snap.from
        <3>1. CASE g \in Probed /\ probes[g].out # "none"
            BY <1>1, <2>2, <3>1 DEF HonestCall, Grows
        <3>2. CASE g \in Probed => probes[g].out = "none"
            <4>1. probes'[g].end = now' BY <2>2, <3>2 DEF Grows
            <4> QED BY <4>1, <2>2, <1>1, <1>3, <1>4 DEF JoinedCall, Grows
        <3> QED BY <3>1, <3>2
    <2>3. r.answer.kind = "failed" =>
            \E f \in 1..Len(probes') : /\ probes'[f].out \in {"failed", "turn"}
                                       /\ r.asked - probes'[f].end < Backoff
        BY <1>1, <1>6 DEF HonestCall, Grows
    <2>4. r.answer.kind = "disabled" => \E f \in 1..Len(probes') : probes'[f].out = "turn"
        BY <1>1, <1>6 DEF HonestCall, Grows
    <2> QED BY <2>1, <2>2, <2>3, <2>4 DEF HonestCall, Probed
<1> QED BY <1>7, <1>8

-----------------------------------------------------------------------------
\* Joining or starting a probe, for a call or for the refresher.
LEMMA StartStep ==
    ASSUME IInv, StartFetchLocked, ~unsafe, ~InBackoff,
           UNCHANGED <<now, snap, lastErr, unsafe>>
    PROVE  /\ probes' \in Seq(Probe) /\ inflight' \in 0..Len(probes')
           /\ Cache' /\ Grows
           /\ Joined \in Nat /\ Joined \in 1..Len(probes')
           /\ \A g \in 1..Len(probes') : g >= Joined => probes'[g].phase = "running"
<1>1. /\ now \in Nat \ {0} /\ probes \in Seq(Probe) /\ inflight \in 0..Len(probes)
      /\ Len(probes) \in Nat
      /\ OneRuns /\ Times /\ Remembered /\ ProbesSpaced /\ NoProbeAfterTurn
    BY LenProperties DEF IInv, TypeOK, Cache
<1>2. CASE inflight # 0
    <2>1. inflight' = inflight /\ probes' = probes /\ Joined = inflight
        BY <1>2 DEF StartFetchLocked, Joined
    <2>2. Cache'
        BY <1>1, <2>1
        DEF Cache, OneRuns, Times, Remembered, ProbesSpaced, NoProbeAfterTurn, Probed
    <2>3. Grows
        <3>1. \A f \in Probed : probes[f].out = "none" => probes[f].phase = "running"
            BY <1>1 DEF OneRuns
        <3> QED BY <1>1, <2>1, <3>1 DEF Grows, Probed
    <2>4. inflight = Len(probes) /\ probes[inflight].phase = "running"
        BY <1>1, <1>2 DEF OneRuns, Probed
    <2> QED BY <1>1, <1>2, <2>1, <2>2, <2>3, <2>4
<1>3. CASE inflight = 0
    <2> DEFINE n == Len(probes)
               p == [phase |-> "running", start |-> now, end |-> 0, out |-> "none",
                     reading |-> NoReading]
    <2>1. p \in Probe
        BY <1>1 DEF Probe, ProbePhases, Outcomes, Readings
    <2>2. /\ probes' = Append(probes, p) /\ Joined = n + 1 /\ inflight' = n + 1
        BY <1>3 DEF StartFetchLocked, Joined
    <2> HIDE DEF p
    <2>3. /\ probes' \in Seq(Probe) /\ Len(probes') = n + 1
          /\ \A f \in 1..n : probes'[f] = probes[f]
          /\ probes'[n + 1] = p
        BY <1>1, <2>1, <2>2, AppendProperties
    <2>4. /\ p.phase = "running" /\ p.start = now /\ p.end = 0 /\ p.out = "none"
        BY DEF p
    <2>5. \A f \in 1..(n + 1) : f \in 1..n \/ f = n + 1
        BY <1>1
    <2>6. \A f \in 1..n : probes[f].phase # "running" /\ probes[f].out # "none"
        BY <1>1, <1>3 DEF OneRuns, Probed
    <2>7. OneRuns'
        BY <1>1, <1>3, <2>2, <2>3, <2>4, <2>5, <2>6 DEF OneRuns, Probed
    <2>8. Times'
        BY <1>1, <2>3, <2>4, <2>5 DEF Times, Probed
    <2>9. Remembered'
        BY <1>1, <2>3, <2>4, <2>5 DEF Remembered, Probed
    <2>10. NoProbeAfterTurn'
        BY <1>1, <2>3, <2>4, <2>5 DEF NoProbeAfterTurn, Remembered, Probed
    <2>11. ProbesSpaced'
        <3> SUFFICES ASSUME NEW f \in 2..(n + 1)
                     PROVE  /\ probes'[f - 1].phase # "running"
                            /\ probes'[f - 1].out = "failed" =>
                                 probes'[f].start - probes'[f - 1].end >= Backoff
            BY <2>3 DEF ProbesSpaced
        <3>1. CASE f \in 2..n
            <4>1. f \in 1..n /\ f - 1 \in 1..n BY <1>1, <3>1
            <4> QED BY <1>1, <2>3, <3>1, <4>1 DEF ProbesSpaced
        <3>2. CASE f = n + 1
            <4>1. n \in 1..n /\ f - 1 = n BY <1>1, <3>2
            <4>2. probes'[n] = probes[n] /\ probes'[f].start = now BY <2>3, <2>4, <3>2, <4>1
            <4>3. ASSUME probes[n].out = "failed" PROVE now - probes[n].end >= Backoff
                <5>1. lastErr = probes[n].end /\ lastErr # 0
                    BY <1>1, <2>6, <4>1, <4>3 DEF Remembered, Times, Probed
                <5>2. lastErr \in Nat BY DEF IInv, TypeOK
                <5> QED BY <1>1, <5>1, <5>2, AgeAssumption DEF InBackoff
            <4> QED BY <2>6, <4>1, <4>2, <4>3
        <3> QED BY <1>1, <3>1, <3>2
    <2>12. Grows
        BY <1>1, <2>3, <2>4, <2>5, <2>6 DEF Grows, Probed
    <2> QED BY <1>1, <2>2, <2>3, <2>4, <2>5, <2>7, <2>8, <2>9, <2>10, <2>11, <2>12 DEF Cache
<1> QED BY <1>1, <1>2, <1>3

\* A probe ends: what it found goes into the cache in the same step.
LEMMA FetchStep ==
    ASSUME IInv, NEW end, NEW env \in Envelopes, FetchQuota(end, env)
    PROVE  IInv'
<1> DEFINE n == Len(probes)
           res == FetchOutcome(end, env)
           p == [probes[n] EXCEPT !.phase = "recorded", !.end = now, !.out = res.kind,
                                  !.reading = res.reading]
<1>1. /\ now \in Nat \ {0} /\ probes \in Seq(Probe) /\ n \in Nat
      /\ OneRuns /\ Times /\ Remembered /\ ProbesSpaced /\ NoProbeAfterTurn
    BY LenProperties DEF IInv, TypeOK, Cache
<1>2. /\ inflight = n /\ n # 0 /\ n \in 1..n
      /\ probes[n].phase = "running" /\ probes[n].out = "none"
    <2>1. inflight # 0 /\ inflight \in 0..n BY DEF FetchQuota, IInv, TypeOK
    <2> QED BY <1>1, <2>1 DEF OneRuns, Probed
<1>3. res.kind \in {"ok", "failed", "turn"} /\ res.reading \in Readings
    BY FetchType
<1> HIDE DEF res
<1>4. probes[n] \in Probe BY <1>1, <1>2, ElementOfSeq
<1>5. /\ p \in Probe /\ p.phase = "recorded" /\ p.end = now /\ p.out = res.kind
      /\ p.reading = res.reading /\ p.start = probes[n].start
    BY <1>1, <1>3, <1>4 DEF Probe, ProbePhases, Outcomes
<1>6. probes' = [probes EXCEPT ![n] = p] /\ inflight' = 0
      /\ UNCHANGED <<now, caller, refresher, ctxEnded>>
    BY <1>2 DEF FetchQuota, res
<1>7. \/ /\ res.kind = "ok" /\ lastErr' = 0
         /\ snap' = [at |-> now, reading |-> res.reading, from |-> n]
      \/ /\ res.kind # "ok" /\ lastErr' = now /\ snap' = snap
    BY <1>2 DEF FetchQuota, res
<1>u. unsafe' \in BOOLEAN /\ (unsafe' <=> unsafe \/ res.kind = "turn")
    <2>1. CASE res.kind = "ok"
        <3>1. unsafe' = unsafe BY <2>1 DEF FetchQuota, res
        <3> QED BY <2>1, <3>1 DEF IInv, TypeOK
    <2>2. CASE res.kind # "ok"
        <3>1. unsafe' = (unsafe \/ res.kind = "turn") BY <2>2 DEF FetchQuota, res
        <3> QED BY <3>1, Zenon
    <2> QED BY <2>1, <2>2
<1> HIDE DEF p
<1>8. /\ probes' \in Seq(Probe) /\ Len(probes') = n
      /\ \A f \in 1..n : probes'[f] = IF f = n THEN p ELSE probes[f]
    BY <1>1, <1>2, <1>5, <1>6, ExceptSeq
<1>9. \A f \in 1..n : f # n => probes[f].phase # "running" /\ probes[f].out # "none"
    BY <1>1, <1>2 DEF OneRuns, Probed
<1>10. TypeOK'
    <2>1. snap' \in Snapshot /\ lastErr' \in Nat
        BY <1>1, <1>3, <1>7 DEF IInv, TypeOK, Snapshot
    <2> QED BY <1>1, <1>6, <1>8, <1>u, <2>1 DEF IInv, TypeOK
<1>11. OneRuns'
    <2>1. \A f \in 1..n : probes'[f].phase # "running" /\ probes'[f].out # "none"
        BY <1>3, <1>5, <1>8, <1>9
    <2>2. \A f \in 1..n : f # 0 BY <1>1
    <2> QED BY <1>6, <1>8, <2>1, <2>2 DEF OneRuns, Probed
<1>12. Times'
    <2> SUFFICES ASSUME NEW f \in 1..n
                 PROVE  /\ probes'[f].start <= now /\ probes'[f].end <= now
                        /\ probes'[f].end # 0
        BY <1>6, <1>8 DEF Times, Probed
    <2>1. CASE f = n BY <1>1, <1>2, <1>5, <1>8, <2>1 DEF Times, Probed
    <2>2. CASE f # n BY <1>1, <1>8, <1>9, <2>2 DEF Times, Probed
    <2> QED BY <2>1, <2>2
<1>13. Remembered'
    <2>1. lastErr' # 0 => \E f \in 1..n : /\ probes'[f].out \in {"failed", "turn"}
                                          /\ probes'[f].end = lastErr'
        BY <1>2, <1>3, <1>5, <1>7, <1>8
    <2>2. probes'[n].out = "failed" => lastErr' = probes'[n].end
        BY <1>2, <1>5, <1>7, <1>8
    <2>3. unsafe' <=> \E f \in 1..n : probes'[f].out = "turn"
        <3>1. unsafe <=> \E f \in 1..n : probes[f].out = "turn"
            BY <1>1 DEF Remembered, Probed
        <3> QED BY <1>2, <1>5, <1>8, <1>u, <3>1
    <2>4. snap'.at # 0 => /\ snap'.from \in 1..n
                          /\ probes'[snap'.from].out = "ok"
                          /\ probes'[snap'.from].reading = snap'.reading
                          /\ probes'[snap'.from].end = snap'.at
        BY <1>1, <1>2, <1>5, <1>7, <1>8 DEF Remembered, Probed
    <2>5. \A f \in 1..n : probes'[f].out = "ok" => snap'.at # 0 /\ f <= snap'.from
        BY <1>1, <1>2, <1>5, <1>7, <1>8 DEF Remembered, Probed
    <2> QED BY <1>8, <2>1, <2>2, <2>3, <2>4, <2>5 DEF Remembered, Probed
<1>14. NoProbeAfterTurn'
    BY <1>1, <1>8 DEF NoProbeAfterTurn
<1>15. ProbesSpaced'
    <2> SUFFICES ASSUME NEW f \in 2..n
                 PROVE  /\ probes'[f - 1].phase # "running"
                        /\ probes'[f - 1].out = "failed" =>
                             probes'[f].start - probes'[f - 1].end >= Backoff
        BY <1>8 DEF ProbesSpaced
    <2>1. f \in 1..n /\ f - 1 \in 1..n /\ f - 1 # n BY <1>1
    <2>2. probes'[f - 1] = probes[f - 1] /\ probes'[f].start = probes[f].start
        BY <1>5, <1>8, <2>1
    <2> QED BY <1>1, <2>2 DEF ProbesSpaced
<1>16. Grows
    BY <1>1, <1>2, <1>5, <1>6, <1>8, <1>9 DEF Grows, Probed
<1>17. Calls' BY <1>6, <1>16, CallKept DEF Calls
<1> QED BY <1>10, <1>11, <1>12, <1>13, <1>14, <1>15, <1>17 DEF IInv, Cache

\* The waiters are told of a recorded outcome.
LEMMA CloseStep ==
    ASSUME IInv, NEW k \in Probed, CloseDone(k)
    PROVE  IInv'
<1> DEFINE n == Len(probes)
           p == [probes[k] EXCEPT !.phase = "closed"]
<1>1. /\ now \in Nat \ {0} /\ probes \in Seq(Probe) /\ n \in Nat /\ k \in 1..n
      /\ OneRuns /\ Times /\ Remembered /\ ProbesSpaced /\ NoProbeAfterTurn
    BY LenProperties DEF IInv, TypeOK, Cache, Probed
<1>2. probes[k] \in Probe BY <1>1, ElementOfSeq
<1>3. /\ p \in Probe /\ p.phase = "closed" /\ p.end = probes[k].end /\ p.out = probes[k].out
      /\ p.reading = probes[k].reading /\ p.start = probes[k].start
    BY <1>2 DEF Probe, ProbePhases
<1>4. /\ probes[k].phase = "recorded" /\ probes' = [probes EXCEPT ![k] = p]
      /\ UNCHANGED <<now, inflight, snap, lastErr, unsafe, caller, refresher, ctxEnded>>
    BY DEF CloseDone
<1> HIDE DEF p
<1>5. /\ probes' \in Seq(Probe) /\ Len(probes') = n
      /\ \A f \in 1..n : probes'[f] = IF f = k THEN p ELSE probes[f]
    BY <1>1, <1>3, <1>4, ExceptSeq
<1>6. \A f \in 1..n : /\ probes'[f].phase = "running" <=> probes[f].phase = "running"
                      /\ probes'[f].out = probes[f].out /\ probes'[f].end = probes[f].end
                      /\ probes'[f].start = probes[f].start
                      /\ probes'[f].reading = probes[f].reading
    BY <1>3, <1>4, <1>5
<1>7. TypeOK' BY <1>1, <1>4, <1>5 DEF IInv, TypeOK
<1>8. OneRuns' BY <1>1, <1>4, <1>5, <1>6 DEF OneRuns, Probed
<1>9. Times' BY <1>1, <1>4, <1>5, <1>6 DEF Times, Probed
<1>10. Remembered'
    <2>1. lastErr # 0 => \E f \in 1..n : /\ probes'[f].out \in {"failed", "turn"}
                                         /\ probes'[f].end = lastErr
        BY <1>1, <1>6 DEF Remembered, Probed
    <2>2. \A f \in 1..n : f = n /\ probes'[f].out = "failed" => lastErr = probes'[f].end
        BY <1>1, <1>6 DEF Remembered, Probed
    <2>3. unsafe <=> \E f \in 1..n : probes'[f].out = "turn"
        <3>1. unsafe <=> \E f \in 1..n : probes[f].out = "turn"
            BY <1>1 DEF Remembered, Probed
        <3> QED BY <1>6, <3>1
    <2>4. snap.at # 0 => /\ snap.from \in 1..n
                         /\ probes'[snap.from].out = "ok"
                         /\ probes'[snap.from].reading = snap.reading
                         /\ probes'[snap.from].end = snap.at
        BY <1>1, <1>6 DEF Remembered, Probed
    <2>5. \A f \in 1..n : probes'[f].out = "ok" => snap.at # 0 /\ f <= snap.from
        BY <1>1, <1>6 DEF Remembered, Probed
    <2> QED BY <1>4, <1>5, <2>1, <2>2, <2>3, <2>4, <2>5, ZenonT(40) DEF Remembered, Probed
<1>11. NoProbeAfterTurn' BY <1>1, <1>5, <1>6 DEF NoProbeAfterTurn
<1>12. ProbesSpaced'
    <2> SUFFICES ASSUME NEW f \in 2..n
                 PROVE  /\ probes'[f - 1].phase # "running"
                        /\ probes'[f - 1].out = "failed" =>
                             probes'[f].start - probes'[f - 1].end >= Backoff
        BY <1>5 DEF ProbesSpaced
    <2>1. f \in 1..n /\ f - 1 \in 1..n BY <1>1
    <2> QED BY <1>1, <1>6, <2>1 DEF ProbesSpaced
<1>13. Grows
    <2>1. \A f \in 1..n : probes[f].out = "none" => probes[f].phase = "running"
        BY <1>1 DEF OneRuns, Probed
    <2> QED BY <1>1, <1>4, <1>5, <1>6, <2>1 DEF Grows, Probed
<1>14. Calls' BY <1>4, <1>13, CallKept DEF Calls
<1> QED BY <1>7, <1>8, <1>9, <1>10, <1>11, <1>12, <1>14 DEF IInv, Cache

\* Time passes.
LEMMA TickStep == ASSUME IInv, Tick PROVE IInv'
<1>1. /\ now \in Nat \ {0} /\ now' = now + 1 /\ probes \in Seq(Probe) /\ Len(probes) \in Nat
      /\ OneRuns /\ Times /\ Remembered /\ ProbesSpaced /\ NoProbeAfterTurn
      /\ UNCHANGED <<probes, inflight, snap, lastErr, unsafe, caller, refresher, ctxEnded>>
    BY LenProperties DEF IInv, TypeOK, Cache, Tick
<1>2. TypeOK' BY <1>1 DEF IInv, TypeOK
<1>3. Times'
    <2>1. \A f \in Probed : probes[f].start \in Nat /\ probes[f].end \in Nat
        <3>1. \A f \in Probed : probes[f] \in Probe BY <1>1, ElementOfSeq DEF Probed
        <3> QED BY <3>1 DEF Probe
    <2> QED BY <1>1, <2>1 DEF Times, Probed
<1>4. OneRuns' /\ Remembered' /\ ProbesSpaced' /\ NoProbeAfterTurn'
    BY <1>1 DEF OneRuns, Remembered, ProbesSpaced, NoProbeAfterTurn, Probed
<1>5. Grows
    <2>1. \A f \in Probed : probes[f].out = "none" => probes[f].phase = "running"
        BY <1>1 DEF OneRuns
    <2> QED BY <1>1, <2>1 DEF Grows, Probed
<1>6. Calls' BY <1>1, <1>5, CallKept DEF Calls
<1> QED BY <1>2, <1>3, <1>4, <1>6 DEF IInv, Cache

-----------------------------------------------------------------------------
(* The steps of a call and of the refresher.                               *)

\* Usage: answered at once, or by a probe it joins.
LEMMA UsageStep ==
    ASSUME IInv, NEW c \in Callers, NEW age \in MaxAges, Usage(c, age)
    PROVE  IInv'
<1> DEFINE max == EffectiveMaxAge(age)
<1>1. max \in Nat \ {0} BY AgeType
<1>2. /\ now \in Nat \ {0} /\ Len(probes) \in Nat /\ snap \in Snapshot /\ lastErr \in Nat
      /\ Remembered /\ Times
    BY LenProperties DEF IInv, TypeOK, Cache
<1>3. NoSnap \in Snapshot /\ NoAnswer \in Answer
    BY DEF NoSnap, NoAnswer, Snapshot, Answer, Readings
<1> HIDE DEF max
<1>4. CASE UsageDisabled(c, age)
    <2> DEFINE r == [pc |-> "done", joined |-> 0, asked |-> now, maxAge |-> max,
                     answer |-> [kind |-> "disabled", snap |-> NoSnap]]
    <2>1. r \in Call BY <1>1, <1>2, <1>3 DEF Call, Answer
    <2>2. JoinedCall(r) BY <1>2 DEF JoinedCall
    <2>3. HonestCall(r) BY <1>2, <1>4 DEF HonestCall, UsageDisabled, Remembered
    <2>4. /\ caller' = [caller EXCEPT ![c] = r]
          /\ UNCHANGED <<now, probes, inflight, snap, lastErr, unsafe, refresher, ctxEnded>>
        BY <1>4 DEF UsageDisabled, Return, max
    <2> HIDE DEF r
    <2> QED BY <2>1, <2>2, <2>3, <2>4, CallStep
<1>5. CASE UsageCached(c, age)
    <2> DEFINE r == [pc |-> "done", joined |-> 0, asked |-> now, maxAge |-> max,
                     answer |-> [kind |-> "snapshot", snap |-> snap]]
    <2>1. r \in Call BY <1>1, <1>2 DEF Call, Answer
    <2>2. JoinedCall(r) BY <1>2 DEF JoinedCall
    <2>3. snap.at # 0 /\ now - snap.at < max BY <1>5 DEF UsageCached, Fresh, max
    <2>4. HonestCall(r) BY <1>2, <2>3 DEF HonestCall, Remembered
    <2>5. /\ caller' = [caller EXCEPT ![c] = r]
          /\ UNCHANGED <<now, probes, inflight, snap, lastErr, unsafe, refresher, ctxEnded>>
        BY <1>5 DEF UsageCached, Return, max
    <2> HIDE DEF r
    <2> QED BY <2>1, <2>2, <2>4, <2>5, CallStep
<1>6. CASE UsageRemembered(c, age)
    <2> DEFINE r == [pc |-> "done", joined |-> 0, asked |-> now, maxAge |-> max,
                     answer |-> [kind |-> "failed", snap |-> NoSnap]]
    <2>1. r \in Call BY <1>1, <1>2, <1>3 DEF Call, Answer
    <2>2. JoinedCall(r) BY <1>2 DEF JoinedCall
    <2>3. lastErr # 0 /\ now - lastErr < Backoff BY <1>6 DEF UsageRemembered, InBackoff
    <2>4. HonestCall(r) BY <1>2, <2>3 DEF HonestCall, Remembered
    <2>5. /\ caller' = [caller EXCEPT ![c] = r]
          /\ UNCHANGED <<now, probes, inflight, snap, lastErr, unsafe, refresher, ctxEnded>>
        BY <1>6 DEF UsageRemembered, Return, max
    <2> HIDE DEF r
    <2> QED BY <2>1, <2>2, <2>4, <2>5, CallStep
<1>7. CASE UsageProbes(c, age)
    <2> DEFINE r == [pc |-> "wait", joined |-> Joined, asked |-> now, maxAge |-> max,
                     answer |-> NoAnswer]
    <2>1. /\ caller' = [caller EXCEPT ![c] = r]
          /\ UNCHANGED <<now, snap, lastErr, unsafe, refresher, ctxEnded>>
          /\ StartFetchLocked /\ ~unsafe /\ ~InBackoff
        BY <1>7 DEF UsageProbes, max
    <2>2. /\ probes' \in Seq(Probe) /\ inflight' \in 0..Len(probes')
          /\ Cache' /\ Grows
          /\ Joined \in Nat /\ Joined \in 1..Len(probes')
          /\ \A g \in 1..Len(probes') : g >= Joined => probes'[g].phase = "running"
        BY <2>1, StartStep
    <2>3. r \in Call BY <1>1, <1>2, <1>3, <2>2 DEF Call
    <2>4. \A d \in Callers : caller'[d] = IF d = c THEN r ELSE caller[d]
        BY <2>1 DEF IInv, TypeOK
    <2>5. TypeOK'
        <3>1. caller' \in [Callers -> Call] BY <2>1, <2>3 DEF IInv, TypeOK, Call
        <3> QED BY <2>1, <2>2, <3>1 DEF IInv, TypeOK, Call
    <2>6. Calls'
        <3> SUFFICES ASSUME NEW d \in Callers
                     PROVE  (JoinedCall(caller[d]) /\ HonestCall(caller[d]))'
            BY DEF Calls
        <3>1. CASE d # c BY <2>2, <2>4, <3>1, CallKept
        <3>2. CASE d = c
            <4>1. caller'[d] = r BY <2>4, <3>2
            <4>2. JoinedCall(caller[d])'
                BY <1>1, <1>2, <2>1, <2>2, <4>1 DEF JoinedCall, Probed
            <4>3. HonestCall(caller[d])' BY <4>1 DEF HonestCall, NoAnswer
            <4> QED BY <4>2, <4>3
        <3> QED BY <3>1, <3>2
    <2> QED BY <2>2, <2>5, <2>6 DEF IInv
<1> QED BY <1>4, <1>5, <1>6, <1>7 DEF Usage

\* awaitFlight: the outcome of the probe waited for, or a client that gave up.
LEMMA AwaitStep ==
    ASSUME IInv, NEW c \in Callers, Deliver(c) \/ GiveUp(c)
    PROVE  IInv'
<1> DEFINE f == caller[c].joined
<1>1. /\ caller[c].pc = "wait" /\ caller[c] \in Call
      /\ JoinedCall(caller[c]) /\ HonestCall(caller[c])
    BY DEF Deliver, GiveUp, IInv, Calls, TypeOK, Call
<1>2. /\ now \in Nat /\ probes \in Seq(Probe) /\ Len(probes) \in Nat
      /\ OneRuns /\ Remembered /\ Times
    BY LenProperties DEF IInv, TypeOK, Cache
<1>3. /\ f \in Probed /\ caller[c].maxAge # 0 /\ caller[c].asked <= now
      /\ \A g \in Probed : g >= f /\ probes[g].phase # "running" =>
                             probes[g].end >= caller[c].asked
    BY <1>1 DEF JoinedCall
<1>4. /\ NoSnap \in Snapshot
      /\ caller[c].asked \in Nat /\ caller[c].maxAge \in Nat /\ f \in Nat
    BY <1>1 DEF NoSnap, Snapshot, Readings, Call
<1>5. CASE Deliver(c)
    <2> DEFINE r == [caller[c] EXCEPT !.pc = "done", !.joined = 0, !.answer = Outcome(f)]
    <2>1. probes[f] \in Probe BY <1>2, <1>3, ElementOfSeq DEF Probed
    <2>2. Outcome(f) \in Answer
        BY <1>4, <2>1 DEF Outcome, Answer, Snapshot, Probe
    <2>3. r \in Call BY <1>1, <2>2 DEF Call
    <2>4. /\ r.pc = "done" /\ r.asked = caller[c].asked /\ r.maxAge = caller[c].maxAge
          /\ r.answer = Outcome(f)
        BY <1>1 DEF Call
    <2>5. /\ caller' = [caller EXCEPT ![c] = r] /\ probes[f].phase = "closed"
          /\ UNCHANGED <<now, probes, inflight, snap, lastErr, unsafe, refresher, ctxEnded>>
        BY <1>5 DEF Deliver
    <2> HIDE DEF r
    <2>6. JoinedCall(r) BY <1>3, <2>4 DEF JoinedCall
    <2>7. HonestCall(r)
        <3>1. probes[f].out \in {"ok", "failed", "turn"}
            BY <1>2, <1>3, <2>1, <2>5 DEF OneRuns, Probe, Outcomes
        <3>2. probes[f].end >= r.asked /\ probes[f].end \in Nat
            BY <1>3, <1>4, <2>1, <2>4, <2>5 DEF Probe
        <3>3. CASE probes[f].out = "ok"
            <4>1. r.answer = [kind |-> "snapshot",
                              snap |-> [at |-> probes[f].end, reading |-> probes[f].reading,
                                        from |-> f]]
                BY <2>4, <3>3 DEF Outcome
            <4>2. ASSUME NEW g \in Probed, probes[g].out = "ok", probes[g].end < r.asked
                  PROVE  g <= f
                <5>1. probes[g].phase # "running" BY <1>2, <4>2 DEF OneRuns
                <5>2. probes[g] \in Probe BY <1>2, ElementOfSeq DEF Probed
                <5>3. g \in Nat /\ probes[g].end \in Nat BY <1>2, <5>2 DEF Probed, Probe
                <5> QED BY <1>3, <1>4, <2>4, <4>2, <5>1, <5>3
            <4> QED BY <1>3, <1>4, <2>4, <3>2, <3>3, <4>1, <4>2 DEF HonestCall
        <3>4. CASE probes[f].out # "ok"
            <4>1. r.answer.kind = "failed" BY <2>4, <3>4 DEF Outcome
            <4>2. r.asked - probes[f].end < Backoff
                BY <1>4, <2>4, <3>2, AgeAssumption
            <4> QED BY <1>3, <3>1, <3>4, <4>1, <4>2 DEF HonestCall
        <3> QED BY <3>3, <3>4
    <2> QED BY <2>3, <2>5, <2>6, <2>7, CallStep
<1>6. CASE GiveUp(c)
    <2> DEFINE r == [caller[c] EXCEPT !.pc = "done", !.joined = 0,
                                      !.answer = [kind |-> "gaveup", snap |-> NoSnap]]
    <2>1. r \in Call BY <1>1, <1>4 DEF Call, Answer
    <2>2. /\ r.pc = "done" /\ r.asked = caller[c].asked /\ r.answer.kind = "gaveup"
        BY <1>1 DEF Call
    <2>3. /\ caller' = [caller EXCEPT ![c] = r]
          /\ UNCHANGED <<now, probes, inflight, snap, lastErr, unsafe, refresher, ctxEnded>>
        BY <1>6 DEF GiveUp
    <2> HIDE DEF r
    <2>4. JoinedCall(r) /\ HonestCall(r) BY <1>3, <2>2 DEF JoinedCall, HonestCall
    <2> QED BY <2>1, <2>3, <2>4, CallStep
<1> QED BY <1>5, <1>6

\* runUsageRefresher: it probes as a call does, and no call changes.
LEMMA RefreshStep == ASSUME IInv, Refresh PROVE IInv'
<1>1. CASE RefreshProbes
    <2>1. /\ StartFetchLocked /\ ~unsafe /\ ~InBackoff
          /\ UNCHANGED <<now, snap, lastErr, unsafe, caller, ctxEnded>>
          /\ refresher' = [pc |-> "await", joined |-> Joined]
        BY <1>1 DEF RefreshProbes
    <2>2. /\ probes' \in Seq(Probe) /\ inflight' \in 0..Len(probes')
          /\ Cache' /\ Grows /\ Joined \in Nat
        BY <2>1, StartStep
    <2>3. TypeOK' BY <2>1, <2>2 DEF IInv, TypeOK
    <2>4. Calls' BY <2>1, <2>2, CallKept DEF Calls
    <2> QED BY <2>2, <2>3, <2>4 DEF IInv
<1>2. CASE RefreshStops \/ RefreshSkips \/ RefreshAwaited \/ RefreshTick \/ RefreshDone
    <2>1. /\ UNCHANGED <<now, probes, inflight, snap, lastErr, unsafe, caller, ctxEnded>>
          /\ refresher' \in [pc : {"loop", "await", "sleep", "stopped"}, joined : Nat]
        BY <1>2 DEF RefreshStops, RefreshSkips, RefreshAwaited, RefreshTick, RefreshDone
    <2>2. ctxEnded' \in BOOLEAN BY <2>1 DEF IInv, TypeOK
    <2> QED BY <2>1, <2>2, OwnStep
<1> QED BY <1>1, <1>2 DEF Refresh

\* Every step keeps the invariant.
LEMMA InvNext == IInv /\ [Next]_vars => IInv'
<1> SUFFICES ASSUME IInv, [Next]_vars PROVE IInv'
    OBVIOUS
<1>1. ASSUME NEW c \in Callers, NEW age \in MaxAges, Usage(c, age) PROVE IInv'
    BY <1>1, UsageStep
<1>2. ASSUME NEW c \in Callers, Deliver(c) \/ GiveUp(c) PROVE IInv'
    BY <1>2, AwaitStep
<1>3. CASE FetchEnds BY <1>3, FetchStep DEF FetchEnds
<1>4. ASSUME NEW f \in 1..Len(probes), CloseDone(f) PROVE IInv'
    BY <1>4, CloseStep DEF Probed
<1>5. CASE Refresh BY <1>5, RefreshStep
<1>6. CASE EndCtx BY <1>6, OwnStep DEF EndCtx, IInv, TypeOK
<1>7. CASE Tick BY <1>7, TickStep
<1>8. CASE UNCHANGED vars
    BY <1>8, OwnStep DEF vars, IInv, TypeOK
<1> QED BY <1>1, <1>2, <1>3, <1>4, <1>5, <1>6, <1>7, <1>8 DEF Next

-----------------------------------------------------------------------------
(***************************************************************************)
(* Folds.  FoldLeft is a recursive function over the subsets of the        *)
(* sequence's domain; that the function exists, and what it computes, is   *)
(* shown by induction in the form of sets of natural numbers.              *)
(***************************************************************************)
LEMMA LeastNat ==
    ASSUME NEW T \in SUBSET Nat, T # {}
    PROVE  \E n \in T : \A m \in T : n <= m
<1>1. \E n \in T : ~ \E m \in T : <<m, n>> \in OpToRel(<, Nat)
    BY NatLessThanWellFounded, WFMin
<1> QED BY <1>1 DEF OpToRel

\* A set of numbers that holds 0 and the successor of each of its members.
LEMMA NatSet ==
    ASSUME NEW T \in SUBSET Nat, 0 \in T, \A n \in T : n + 1 \in T
    PROVE  T = Nat
<1> SUFFICES ASSUME Nat \ T # {} PROVE FALSE
    OBVIOUS
<1>1. PICK n \in Nat \ T : \A m \in Nat \ T : n <= m
    BY LeastNat
<1>2. n # 0 /\ n - 1 \in Nat BY <1>1
<1> QED BY <1>1, <1>2

\* The function over which a fold with step st is defined.
Iterates(it, n, T, base, st) ==
    /\ it \in [SUBSET (1..n) -> T]
    /\ \A s \in SUBSET (1..n) :
          it[s] = IF s = {} THEN base ELSE st[<<it[s \ {Max(s)}], Max(s)>>]

LEMMA FoldExists ==
    ASSUME NEW T, NEW base \in T, NEW n \in Nat, NEW st \in [T \X (1..n) -> T]
    PROVE  \E it : Iterates(it, n, T, base, st)
<1> DEFINE D == {k \in Nat : k <= n => \E it : Iterates(it, k, T, base, st)}
<1>1. 0 \in D
    <2>1. SUBSET (1..0) = {{}} OBVIOUS
    <2> DEFINE it == [s \in SUBSET (1..0) |-> base]
    <2>2. Iterates(it, 0, T, base, st) BY <2>1 DEF Iterates
    <2> HIDE DEF it
    <2> QED BY <2>2
<1>2. ASSUME NEW k \in Nat, k + 1 <= n, NEW it, Iterates(it, k, T, base, st)
      PROVE  \E jt : Iterates(jt, k + 1, T, base, st)
    <2> DEFINE jt == [s \in SUBSET (1..(k + 1)) |->
                        IF k + 1 \in s THEN st[<<it[s \ {k + 1}], k + 1>>] ELSE it[s]]
    <2>1. k + 1 \in 1..n BY <1>2
    <2>2. \A s \in SUBSET (1..(k + 1)) : s \ {k + 1} \in SUBSET (1..k)
        OBVIOUS
    <2>3. \A s \in SUBSET (1..(k + 1)) : k + 1 \notin s => s \in SUBSET (1..k)
        OBVIOUS
    <2>4. ASSUME NEW s \in SUBSET (1..(k + 1)), k + 1 \in s
          PROVE  Max(s) = k + 1
        <3>1. \A y \in s : k + 1 >= y OBVIOUS
        <3>2. \A x \in s : (\A y \in s : x >= y) => x = k + 1
            BY <2>4, <3>1
        <3>3. \E x \in s : \A y \in s : x >= y
            BY <2>4, <3>1
        <3> QED BY <3>2, <3>3, Zenon DEF Max
    <2>5. ASSUME NEW s \in SUBSET (1..(k + 1)), k + 1 \in s
          PROVE  /\ jt[s] \in T
                 /\ jt[s] = st[<<jt[s \ {Max(s)}], Max(s)>>]
        <3>1. it[s \ {k + 1}] \in T BY <1>2, <2>2 DEF Iterates
        <3>2. jt[s] = st[<<it[s \ {k + 1}], k + 1>>] BY <2>5
        <3>3. jt[s \ {k + 1}] = it[s \ {k + 1}] OBVIOUS
        <3>4. <<it[s \ {k + 1}], k + 1>> \in T \X (1..n) BY <2>1, <3>1
        <3> HIDE DEF jt
        <3>5. st[<<it[s \ {k + 1}], k + 1>>] \in T BY <3>4
        <3> QED BY <2>4, <2>5, <3>2, <3>3, <3>5
    <2>6. ASSUME NEW s \in SUBSET (1..(k + 1)), k + 1 \notin s
          PROVE  /\ jt[s] = it[s] /\ jt[s] \in T
                 /\ jt[s \ {Max(s)}] = it[s \ {Max(s)}]
        <3>1. jt[s] = it[s] BY <2>6
        <3>2. s \ {Max(s)} \in SUBSET (1..(k + 1)) /\ k + 1 \notin s \ {Max(s)}
            BY <2>6
        <3>3. jt[s \ {Max(s)}] = it[s \ {Max(s)}] BY <3>2
        <3> HIDE DEF jt
        <3> QED BY <1>2, <2>3, <2>6, <3>1, <3>3 DEF Iterates
    <2>7. jt = [s \in SUBSET (1..(k + 1)) |-> jt[s]] OBVIOUS
    <2> HIDE DEF jt
    <2>8. jt \in [SUBSET (1..(k + 1)) -> T] BY <2>5, <2>6, <2>7
    <2>9. ASSUME NEW s \in SUBSET (1..(k + 1))
          PROVE  jt[s] = IF s = {} THEN base ELSE st[<<jt[s \ {Max(s)}], Max(s)>>]
        <3>1. CASE k + 1 \in s BY <2>5, <3>1
        <3>2. CASE k + 1 \notin s
            <4>1. it[s] = IF s = {} THEN base ELSE st[<<it[s \ {Max(s)}], Max(s)>>]
                BY <1>2, <2>3, <3>2 DEF Iterates
            <4> QED BY <2>6, <3>2, <4>1
        <3> QED BY <3>1, <3>2
    <2> QED BY <2>8, <2>9 DEF Iterates
<1>3. ASSUME NEW k \in D PROVE k + 1 \in D
    BY <1>2, <1>3
<1>4. D = Nat
    <2> HIDE DEF D
    <2>1. D \in SUBSET Nat BY DEF D
    <2> QED BY <1>1, <1>3, <2>1, NatSet
<1> QED BY <1>4

\* The last element of a prefix of the domain is taken first.
LEMMA PrefixMax ==
    ASSUME NEW k \in Nat, k # 0
    PROVE  Max(1..k) = k /\ (1..k) \ {Max(1..k)} = 1..(k - 1) /\ 1..k # {}
<1>1. k \in 1..k /\ \A y \in 1..k : k >= y OBVIOUS
<1>2. Max(1..k) = k BY <1>1 DEF Max
<1> QED BY <1>1, <1>2

\* A set of positions that is not empty has a last one.
LEMMA MaxIn ==
    ASSUME NEW n \in Nat, NEW s \in SUBSET (1..n), s # {}
    PROVE  Max(s) \in s
<1> DEFINE D == {m \in Nat : \A y \in s : y <= m}
<1>1. n \in D OBVIOUS
<1>2. PICK m \in D : \A k \in D : m <= k
    <2> HIDE DEF D
    <2>1. D \in SUBSET Nat BY DEF D
    <2> QED BY <1>1, <2>1, LeastNat
<1>3. m \in Nat /\ \A y \in s : m >= y /\ y \in Nat OBVIOUS
<1>4. ~ (\A y \in s : y <= m - 1)
    <2>1. CASE m = 0
        <3>1. PICK y \in s : TRUE OBVIOUS
        <3>2. y \in 1..n OBVIOUS
        <3> QED BY <1>3, <2>1, <3>1, <3>2
    <2>2. CASE m # 0
        <3>1. m - 1 \notin D /\ m - 1 \in Nat BY <1>2, <1>3, <2>2
        <3> QED BY <3>1
    <2> QED BY <2>1, <2>2
<1>5. m \in s BY <1>3, <1>4
<1>6. \E x \in s : \A y \in s : x >= y BY <1>3, <1>5
<1> QED BY <1>6, Zenon DEF Max

-----------------------------------------------------------------------------
(* What a reading says of an optional run.                                 *)

\* The loop over the buckets of a group only collects buckets of it.
LEMMA CarriedShape ==
    ASSUME NEW g \in RawGroup
    PROVE  Carried(g) \in Seq(RawBucket)
<1> DEFINE bs == g.buckets
           n == Len(bs)
           T == Seq(RawBucket)
           step(kept, k) == IF bs[k].carries THEN Append(kept, bs[k]) ELSE kept
           Is(it) == it = [s \in SUBSET (DOMAIN bs) |->
                              IF s = {} THEN <<>>
                              ELSE LET x == Max(s) IN step(it[s \ {x}], x)]
           iter == CHOOSE it : Is(it)
<1>1. Carried(g) = iter[DOMAIN bs]
    BY DEF Carried, FoldLeft, MapThenFoldSet
<1>2. n \in Nat /\ DOMAIN bs = 1..n /\ \A k \in 1..n : bs[k] \in RawBucket
    BY LenProperties, ElementOfSeq DEF RawGroup
<1>3. <<>> \in T /\ \A kept \in T, k \in 1..n : step(kept, k) \in T
    BY <1>2, AppendProperties
<1> HIDE DEF n, bs, T, step
<1>4. \E it : Is(it)
    <2> DEFINE st == [x \in T \X (1..n) |-> step(x[1], x[2])]
    <2>1. st \in [T \X (1..n) -> T] BY <1>3
    <2>2. \A kept \in T, k \in 1..n : st[<<kept, k>>] = step(kept, k) OBVIOUS
    <2> HIDE DEF st
    <2>3. PICK it : Iterates(it, n, T, <<>>, st) BY <1>2, <1>3, <2>1, FoldExists
    <2>4. ASSUME NEW s \in SUBSET (1..n), s # {}
          PROVE  it[s] = step(it[s \ {Max(s)}], Max(s))
        <3>1. Max(s) \in 1..n BY <1>2, <2>4, MaxIn
        <3>2. it[s \ {Max(s)}] \in T BY <2>3 DEF Iterates
        <3> QED BY <2>2, <2>3, <2>4, <3>1, <3>2 DEF Iterates
    <2>5. it = [s \in SUBSET (DOMAIN bs) |->
                  IF s = {} THEN <<>> ELSE step(it[s \ {Max(s)}], Max(s))]
        BY <1>2, <2>3, <2>4 DEF Iterates
    <2> QED BY <2>5
<1>5. Is(iter) BY <1>4
<1> HIDE DEF iter
<1> DEFINE D == {k \in Nat : k <= n => iter[1..k] \in T}
<1>6. 0 \in D
    <2>1. 1..0 = {} /\ {} \in SUBSET (DOMAIN bs) OBVIOUS
    <2>2. iter[{}] = <<>> BY <1>5, <2>1
    <2> QED BY <1>3, <2>1, <2>2
<1>7. ASSUME NEW k \in Nat, k + 1 <= n
      PROVE  iter[1..(k + 1)] = step(iter[1..k], k + 1)
    <2>1. 1..(k + 1) \in SUBSET (DOMAIN bs) BY <1>2, <1>7
    <2>2. Max(1..(k + 1)) = k + 1 /\ (1..(k + 1)) \ {Max(1..(k + 1))} = 1..k
          /\ 1..(k + 1) # {}
        BY PrefixMax
    <2> QED BY <1>5, <2>1, <2>2
<1>8. ASSUME NEW k \in D PROVE k + 1 \in D
    <2>1. k \in Nat /\ (k + 1 <= n => k + 1 \in 1..n /\ iter[1..k] \in T) BY <1>2, <1>8
    <2> QED BY <1>3, <1>7, <2>1
<1>9. D = Nat
    <2> HIDE DEF D
    <2>1. D \in SUBSET Nat BY DEF D
    <2> QED BY <1>6, <1>8, <2>1, NatSet
<1>10. n \in D BY <1>2, <1>9
<1> QED BY <1>1, <1>2, <1>10 DEF T

\* A group of a reading has buckets.
KeptGroup == [gemini : BOOLEAN, buckets : Seq(RawBucket) \ {<<>>}]

\* The loop over the groups only collects groups with buckets.
LEMMA KeptShape ==
    ASSUME NEW gs \in Seq(RawGroup)
    PROVE  Kept(gs) \in Seq(KeptGroup)
<1> DEFINE n == Len(gs)
           T == Seq(KeptGroup)
           of(k) == [gemini |-> gs[k].gemini, buckets |-> Carried(gs[k])]
           step(kept, k) == IF Carried(gs[k]) # <<>> THEN Append(kept, of(k)) ELSE kept
           Is(it) == it = [s \in SUBSET (DOMAIN gs) |->
                              IF s = {} THEN <<>>
                              ELSE LET x == Max(s) IN step(it[s \ {x}], x)]
           iter == CHOOSE it : Is(it)
<1>1. Kept(gs) = iter[DOMAIN gs]
    BY DEF Kept, FoldLeft, MapThenFoldSet
<1>2. n \in Nat /\ DOMAIN gs = 1..n /\ \A k \in 1..n : gs[k] \in RawGroup
    BY LenProperties, ElementOfSeq
<1>3. <<>> \in T /\ \A kept \in T, k \in 1..n : step(kept, k) \in T
    <2>1. ASSUME NEW k \in 1..n, Carried(gs[k]) # <<>> PROVE of(k) \in KeptGroup
        BY <1>2, <2>1, CarriedShape DEF KeptGroup, RawGroup
    <2> HIDE DEF of
    <2> QED BY <2>1, AppendProperties
<1> HIDE DEF n, T, step
<1>4. \E it : Is(it)
    <2> DEFINE st == [x \in T \X (1..n) |-> step(x[1], x[2])]
    <2>1. st \in [T \X (1..n) -> T] BY <1>3
    <2>2. \A kept \in T, k \in 1..n : st[<<kept, k>>] = step(kept, k) OBVIOUS
    <2> HIDE DEF st
    <2>3. PICK it : Iterates(it, n, T, <<>>, st) BY <1>2, <1>3, <2>1, FoldExists
    <2>4. ASSUME NEW s \in SUBSET (1..n), s # {}
          PROVE  it[s] = step(it[s \ {Max(s)}], Max(s))
        <3>1. Max(s) \in 1..n BY <1>2, <2>4, MaxIn
        <3>2. it[s \ {Max(s)}] \in T BY <2>3 DEF Iterates
        <3> QED BY <2>2, <2>3, <2>4, <3>1, <3>2 DEF Iterates
    <2>5. it = [s \in SUBSET (DOMAIN gs) |->
                  IF s = {} THEN <<>> ELSE step(it[s \ {Max(s)}], Max(s))]
        BY <1>2, <2>3, <2>4 DEF Iterates
    <2> QED BY <2>5
<1>5. Is(iter) BY <1>4
<1> HIDE DEF iter
<1> DEFINE D == {k \in Nat : k <= n => iter[1..k] \in T}
<1>6. 0 \in D
    <2>1. 1..0 = {} /\ {} \in SUBSET (DOMAIN gs) OBVIOUS
    <2>2. iter[{}] = <<>> BY <1>5, <2>1
    <2> QED BY <1>3, <2>1, <2>2
<1>7. ASSUME NEW k \in Nat, k + 1 <= n
      PROVE  iter[1..(k + 1)] = step(iter[1..k], k + 1)
    <2>1. 1..(k + 1) \in SUBSET (DOMAIN gs) BY <1>2, <1>7
    <2>2. Max(1..(k + 1)) = k + 1 /\ (1..(k + 1)) \ {Max(1..(k + 1))} = 1..k
          /\ 1..(k + 1) # {}
        BY PrefixMax
    <2> QED BY <1>5, <2>1, <2>2
<1>8. ASSUME NEW k \in D PROVE k + 1 \in D
    <2>1. k \in Nat /\ (k + 1 <= n => k + 1 \in 1..n /\ iter[1..k] \in T) BY <1>2, <1>8
    <2> QED BY <1>3, <1>7, <2>1
<1>9. D = Nat
    <2> HIDE DEF D
    <2>1. D \in SUBSET Nat BY DEF D
    <2> QED BY <1>6, <1>8, <2>1, NatSet
<1>10. n \in D BY <1>2, <1>9
<1> QED BY <1>1, <1>2, <1>10 DEF T

\* The numbers of a window are numbers, whatever agy printed.
LEMMA WindowType ==
    ASSUME NEW b \in RawBucket, NEW t \in Nat
    PROVE  EffectiveRemaining(b, t) \in Int /\ b.reset \in Int /\ b.left \in Int
BY DEF EffectiveRemaining, Clamp, RawBucket

\* The scan over the buckets of a group ends with one of them.
LEMMA BindingExists ==
    ASSUME NEW g \in KeptGroup, NEW t \in Nat
    PROVE  \E i \in 1..Len(g.buckets) : Binds(g, i, t)
<1> DEFINE n == Len(g.buckets)
           rem(i) == EffectiveRemaining(g.buckets[i], t)
           reset(i) == g.buckets[i].reset
           before(i, j) == \/ rem(i) < rem(j)
                           \/ rem(i) = rem(j) /\ reset(i) > reset(j)
                           \/ rem(i) = rem(j) /\ reset(i) = reset(j) /\ i < j
           least(i, k) == \A j \in 1..k : j # i => before(i, j)
           D == {k \in Nat : k + 1 <= n => \E i \in 1..(k + 1) : least(i, k + 1)}
<1>1. n \in Nat /\ n # 0 /\ \A i \in 1..n : rem(i) \in Int /\ reset(i) \in Int
    <2>1. g.buckets \in Seq(RawBucket) /\ g.buckets # <<>> BY DEF KeptGroup
    <2>2. \A i \in 1..n : g.buckets[i] \in RawBucket BY <2>1, ElementOfSeq
    <2>3. n \in Nat /\ n # 0 BY <2>1, LenProperties, EmptySeq
    <2>4. ASSUME NEW i \in 1..n PROVE rem(i) \in Int /\ reset(i) \in Int
        BY <2>2, <2>4, WindowType
    <2> QED BY <2>3, <2>4
<1> HIDE DEF n, rem, reset
<1>2. 0 \in D BY <1>1
<1>3. ASSUME NEW k \in D PROVE k + 1 \in D
    <2> SUFFICES ASSUME k + 2 <= n PROVE \E i \in 1..(k + 2) : least(i, k + 2)
        BY <1>3
    <2>1. k \in Nat /\ k + 1 <= n BY <1>1, <1>3
    <2>2. PICK i \in 1..(k + 1) : least(i, k + 1) BY <1>3, <2>1
    <2>3. i \in 1..n /\ k + 2 \in 1..n BY <1>1, <2>1
    <2>4. CASE before(i, k + 2)
        BY <2>1, <2>2, <2>4
    <2>5. CASE ~before(i, k + 2)
        <3>1. before(k + 2, i) BY <1>1, <2>1, <2>3, <2>5
        <3>2. ASSUME NEW j \in 1..(k + 1) PROVE before(k + 2, j)
            <4>1. CASE j = i BY <3>1, <4>1
            <4>2. CASE j # i
                <5>1. before(i, j) BY <2>2, <3>2, <4>2
                <5>2. j \in 1..n BY <1>1, <2>1
                <5> QED BY <1>1, <2>1, <2>3, <3>1, <5>1, <5>2
            <4> QED BY <4>1, <4>2
        <3>3. least(k + 2, k + 2) BY <2>1, <3>2
        <3> QED BY <2>1, <3>3
    <2> QED BY <2>4, <2>5
<1>4. D = Nat
    <2> HIDE DEF D
    <2>1. D \in SUBSET Nat BY DEF D
    <2> QED BY <1>2, <1>3, <2>1, NatSet
<1>5. n - 1 \in D
    <2> HIDE DEF D
    <2> QED BY <1>1, <1>4
<1>6. PICK i \in 1..n : least(i, n) BY <1>1, <1>5
<1> QED BY <1>6 DEF Binds, n, rem, reset

\* The binding window is below the threshold exactly when some window is.
LEMMA LevelExact ==
    ASSUME NEW g \in KeptGroup, NEW t \in Nat
    PROVE  GroupQuota(g, t).level # "ok" <=>
               \E j \in 1..Len(g.buckets) :
                  LET b == g.buckets[j]
                  IN /\ b.reset = 0 \/ b.reset > t
                     /\ b.left < Low \/ b.left <= 0
<1> DEFINE n == Len(g.buckets)
           rem(i) == EffectiveRemaining(g.buckets[i], t)
           below(i) == rem(i) < Low \/ rem(i) <= 0
           i == CHOOSE i \in 1..n : Binds(g, i, t)
<1>1. \A j \in 1..n : g.buckets[j] \in RawBucket
    BY ElementOfSeq DEF KeptGroup
<1>2. i \in 1..n /\ Binds(g, i, t) BY BindingExists
<1>3. GroupQuota(g, t).level = LevelOf(rem(i))
    BY DEF GroupQuota, Binding
<1> HIDE DEF i
<1>4. rem(i) \in Int BY <1>1, <1>2, WindowType
<1>5. GroupQuota(g, t).level # "ok" <=> below(i)
    <2> HIDE DEF rem
    <2> QED BY <1>3, <1>4, ThresholdAssumption DEF LevelOf
<1>6. \A j \in 1..n : below(j) => below(i)
    <2> SUFFICES ASSUME NEW j \in 1..n, below(j), j # i PROVE below(i)
        OBVIOUS
    <2>1. rem(j) \in Int BY <1>1, WindowType
    <2>2. rem(i) < rem(j) \/ rem(i) = rem(j) BY <1>2 DEF Binds
    <2>3. Low \in Int BY ThresholdAssumption
    <2> HIDE DEF rem
    <2> QED BY <1>4, <2>1, <2>2, <2>3
<1>7. ASSUME NEW j \in 1..n
      PROVE  below(j) <=> LET b == g.buckets[j]
                          IN /\ b.reset = 0 \/ b.reset > t
                             /\ b.left < Low \/ b.left <= 0
    <2>1. g.buckets[j].reset \in Int /\ g.buckets[j].left \in Int
        BY <1>1, WindowType
    <2> QED BY <2>1, ThresholdAssumption DEF EffectiveRemaining, Refilled, Clamp
<1> HIDE DEF below
<1> QED BY <1>2, <1>5, <1>6, <1>7

\* Every reading is a list of groups with buckets.
LEMMA ReadingShape == \A r \in Readings : r \in Seq(KeptGroup)
<1>1. NoReading \in Seq(KeptGroup) BY DEF NoReading
<1>2. ASSUME NEW env \in Envelopes PROVE Decode(env).reading \in Seq(KeptGroup)
    <2>1. Kept(env.groups) \in Seq(KeptGroup) BY EnvelopeAssumption, KeptShape
    <2> QED BY <1>1, <2>1 DEF Decode
<1> QED BY <1>1, <1>2 DEF Readings

\* The cached reading is the last that any probe gave.
LEMMA CachedIsLast ==
    ASSUME IInv
    PROVE  /\ LastGood # 0 <=> snap.at # 0
           /\ snap.at # 0 => /\ LastGood = snap.from
                             /\ probes[LastGood].reading = snap.reading
                             /\ probes[LastGood].end = snap.at
<1> DEFINE good == {f \in 1..Len(probes) : probes[f].out = "ok"}
<1>1. Len(probes) \in Nat BY LenProperties DEF IInv, TypeOK
<1>2. CASE snap.at = 0
    <2>1. good = {} BY <1>2 DEF IInv, Cache, Remembered, Probed
    <2>2. LastGood = 0 BY <2>1 DEF LastGood
    <2> QED BY <1>2, <2>2
<1>3. CASE snap.at # 0
    <2>1. /\ snap.from \in good
          /\ probes[snap.from].reading = snap.reading
          /\ probes[snap.from].end = snap.at
          /\ \A g \in good : g <= snap.from
        BY <1>3 DEF IInv, Cache, Remembered, Probed
    <2>2. \A f \in good : f \in Nat /\ f # 0 OBVIOUS
    <2>3. LastGood = CHOOSE f \in good : \A g \in good : g <= f
        BY <2>1 DEF LastGood
    <2> HIDE DEF good
    <2>4. LastGood \in good /\ \A g \in good : g <= LastGood BY <2>1, <2>3
    <2>5. LastGood = snap.from BY <2>1, <2>2, <2>4
    <2> QED BY <1>3, <2>1, <2>2, <2>5
<1> QED BY <1>2, <1>3

\* One group for the model: the set of its positions has one element.
LEMMA OneGroup ==
    ASSUME NEW reading \in Seq(KeptGroup), NEW gemini \in BOOLEAN
    PROVE  LET ours == {i \in 1..Len(reading) : gemini /\ reading[i].gemini}
           IN \A i : i \in GroupForModel(reading, gemini) <=> i \in ours /\ ours = {i}
<1> DEFINE G == GeminiGroups(reading)
           ours == {i \in 1..Len(reading) : gemini /\ reading[i].gemini}
<1>1. IsFiniteSet(G)
    <2>1. IsFiniteSet(1..Len(reading)) BY LenProperties, FS_Interval
    <2> QED BY <2>1, FS_Subset DEF GeminiGroups
<1>2. Cardinality(G) = 1 <=> \E i : G = {i} BY <1>1, FS_Singleton
<1>3. gemini => ours = G BY DEF GeminiGroups
<1>4. ~gemini => ours = {} OBVIOUS
<1> HIDE DEF G, ours
<1>5. \A i : i \in GroupForModel(reading, gemini) <=>
               gemini /\ i \in G /\ \E k : G = {k}
    BY <1>2 DEF GroupForModel, G
<1>6. \A i : i \in GroupForModel(reading, gemini) <=> i \in ours /\ ours = {i}
    BY <1>3, <1>4, <1>5
<1> QED BY <1>6 DEF ours

\* An optional run is judged by what the last reading says of its group now.
LEMMA RefusalFromInv == IInv => RefusalExact
<1> SUFFICES ASSUME IInv, NEW gemini \in BOOLEAN
             PROVE  CheckPriority(gemini) <=>
                        /\ LastGood # 0
                        /\ now - probes[LastGood].end < TrustAge
                        /\ LET reading == probes[LastGood].reading
                               ours == {i \in 1..Len(reading) : gemini /\ reading[i].gemini}
                           IN \E i \in ours :
                                /\ ours = {i}
                                /\ \E j \in 1..Len(reading[i].buckets) :
                                      LET b == reading[i].buckets[j]
                                      IN /\ b.reset = 0 \/ b.reset > now
                                         /\ b.left < Low \/ b.left <= 0
    BY DEF RefusalExact
<1> DEFINE reading == snap.reading
           ours == {i \in 1..Len(reading) : gemini /\ reading[i].gemini}
           short(i) == \E j \in 1..Len(reading[i].buckets) :
                          LET b == reading[i].buckets[j]
                          IN /\ b.reset = 0 \/ b.reset > now
                             /\ b.left < Low \/ b.left <= 0
<1>1. reading \in Seq(KeptGroup) /\ now \in Nat
    BY ReadingShape DEF IInv, TypeOK, Snapshot
<1>2. \A i : i \in GroupForModel(reading, gemini) <=> i \in ours /\ ours = {i}
    BY <1>1, OneGroup
<1>3. \A i \in ours : GroupQuota(reading[i], now).level # "ok" <=> short(i)
    <2>1. \A i \in ours : reading[i] \in KeptGroup BY <1>1, ElementOfSeq
    <2> QED BY <1>1, <2>1, LevelExact
<1>4. QuotaDecision(reading, now, gemini) <=> \E i \in ours : ours = {i} /\ short(i)
    <2> HIDE DEF reading, ours, short
    <2> QED BY <1>2, <1>3 DEF QuotaDecision
<1>5. CASE snap.at = 0 BY <1>5, CachedIsLast DEF CheckPriority, CachedQuota
<1>6. CASE snap.at # 0
    <2>1. /\ LastGood # 0
          /\ probes[LastGood].reading = reading
          /\ probes[LastGood].end = snap.at
        BY <1>6, CachedIsLast
    <2> QED BY <1>4, <1>6, <2>1 DEF CheckPriority, CachedQuota
<1> QED BY <1>5, <1>6

-----------------------------------------------------------------------------
\* In every behaviour the cache, the probes and the calls agree.
THEOREM Consistent == Spec => []IInv
<1>1. Init => IInv BY InvInit
<1>2. IInv /\ [Next]_vars => IInv' BY InvNext
<1> QED BY <1>1, <1>2, PTL DEF Spec

\* Probes are of the recorded shape and inflight is one of them.
THEOREM TypeCorrect == Spec => []TypeOK
<1>1. IInv => TypeOK BY DEF IInv
<1> QED BY <1>1, Consistent, PTL

\* One agy runs /usage at a time, and none within the backoff of a failure.
THEOREM SpacedAlways == Spec => []ProbesSpaced
<1>1. IInv => ProbesSpaced BY DEF IInv, Cache
<1> QED BY <1>1, Consistent, PTL

\* After a reply that was a model turn the process never probes again.
THEOREM NeverAfterTurn == Spec => []NoProbeAfterTurn
<1>1. IInv => NoProbeAfterTurn BY DEF IInv, Cache
<1> QED BY <1>1, Consistent, PTL

\* What agy_usage answered was true of the probes when it was asked.
THEOREM HonestAlways == Spec => []AnswerHonest
<1>1. IInv => AnswerHonest BY DEF IInv, Calls, HonestCall, AnswerHonest, Probed
<1> QED BY <1>1, Consistent, PTL

\* An optional run is refused exactly when the last good reading is still to be
\* trusted and shows its one group short at this moment.
THEOREM RefusalAlways == Spec => []RefusalExact
<1> QED BY RefusalFromInv, Consistent, PTL
=============================================================================
