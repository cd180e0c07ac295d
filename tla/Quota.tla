------------------------------- MODULE Quota -------------------------------
(* The quota cache of one server process (manager/quota.go): concurrent    *)
(* agy_usage calls and the background refresher share one probe of agy,    *)
(* whose outcome is cached, and an optional run is judged by the cache     *)
(* alone. A probe is numbered by its place in the sequence of all probes   *)
(* of the process, which the code does not keep; c.inflight is a number.   *)
EXTENDS QuotaReading

CONSTANTS Callers,         \* agy_usage calls
          MaxAges,         \* the ages they ask for; 0 names none
          DefaultMaxAge,   \* usageDefaultMaxAge
          MinMaxAge,       \* usageMinMaxAge
          Backoff,         \* usageErrorBackoff
          TrustAge,        \* quotaMaxAge: max(2*interval, 10m)
          Envelopes,       \* what agy may print
          MaxProbes,       \* bound on the probes of a behaviour
          MaxTime          \* bound on the clock

ASSUME AgeAssumption ==
    /\ MaxAges \subseteq Nat
    /\ DefaultMaxAge \in Nat /\ MinMaxAge \in Nat \ {0}
    /\ Backoff \in Nat \ {0} /\ TrustAge \in Nat \ {0}
    /\ MaxProbes \in Nat /\ MaxTime \in Nat

\* What is listed is listed in the shape the JSON decoder accepts.
ASSUME EnvelopeAssumption == \A env \in Envelopes : env.groups \in Seq(RawGroup)

VARIABLES now,       \* m.now
          probes,    \* one record per quotaFlight, in the order they started
          inflight,  \* c.inflight, 0 for nil
          snap,      \* c.snap; at = 0 is the zero CheckedAt
          lastErr,   \* c.lastErr and lastErrAt; at = 0 is nil
          unsafe,    \* c.unsafe # nil
          caller,    \* the agy_usage calls
          refresher, \* runUsageRefresher
          ctxEnded   \* the server is shutting down

vars == <<now, probes, inflight, snap, lastErr, unsafe, caller, refresher, ctxEnded>>

NoSnap == [at |-> 0, reading |-> NoReading, from |-> 0]
NoAnswer == [kind |-> "none", snap |-> NoSnap]

Init ==
    /\ now = 1
    /\ probes = <<>>
    /\ inflight = 0
    /\ snap = NoSnap
    /\ lastErr = 0
    /\ unsafe = FALSE
    /\ caller = [c \in Callers |-> [pc |-> "idle", joined |-> 0, asked |-> 0,
                                    maxAge |-> 0, answer |-> NoAnswer]]
    /\ refresher \in [pc : {"loop", "stopped"}, joined : {0}]  \* no interval, no refresher
    /\ ctxEnded = FALSE

---------------------------------------------------------------------------
(* The cache, under c.mu.                                                  *)

\* Mutant of InBackoff: the window is one short.
BackoffShort == lastErr # 0 /\ now - lastErr < Backoff - 1

InBackoff == lastErr # 0 /\ now - lastErr < Backoff

Joined == IF inflight # 0 THEN inflight ELSE Len(probes) + 1

\* Joins the probe in flight or starts one, which only then is a new goroutine.
StartFetchLocked ==
    /\ inflight' = Joined
    /\ IF inflight # 0
       THEN UNCHANGED probes
       ELSE /\ Len(probes) < MaxProbes
            /\ probes' = Append(probes, [phase |-> "running", start |-> now, end |-> 0,
                                         out |-> "none", reading |-> NoReading])

CachedQuota == snap.at # 0 /\ now - snap.at < TrustAge

\* checkPriority of an optional run.
CheckPriority(gemini) == CachedQuota /\ QuotaDecision(snap.reading, now, gemini)

---------------------------------------------------------------------------
(* One agy_usage call: Usage, and awaitFlight after it.                    *)

EffectiveMaxAge(age) ==
    LET a == IF age = 0 THEN DefaultMaxAge ELSE age
    IN IF a < MinMaxAge THEN MinMaxAge ELSE a

\* Mutant of Fresh: a reading as old as asked for still counts.
FreshInclusive(age) == snap.at # 0 /\ now - snap.at <= EffectiveMaxAge(age)

Fresh(age) == snap.at # 0 /\ now - snap.at < EffectiveMaxAge(age)

Return(c, age, answer) ==
    /\ caller' = [caller EXCEPT ![c] = [pc |-> "done", joined |-> 0, asked |-> now,
                                        maxAge |-> EffectiveMaxAge(age), answer |-> answer]]
    /\ UNCHANGED <<now, probes, inflight, snap, lastErr, unsafe, refresher, ctxEnded>>

UsageDisabled(c, age) ==
    /\ caller[c].pc = "idle"
    /\ unsafe
    /\ Return(c, age, [kind |-> "disabled", snap |-> NoSnap])

UsageCached(c, age) ==
    /\ caller[c].pc = "idle"
    /\ ~unsafe /\ Fresh(age)
    /\ Return(c, age, [kind |-> "snapshot", snap |-> snap])

UsageRemembered(c, age) ==
    /\ caller[c].pc = "idle"
    /\ ~unsafe /\ ~Fresh(age) /\ InBackoff
    /\ Return(c, age, [kind |-> "failed", snap |-> NoSnap])

UsageProbes(c, age) ==
    /\ caller[c].pc = "idle"
    /\ ~unsafe /\ ~Fresh(age) /\ ~InBackoff
    /\ StartFetchLocked
    /\ caller' = [caller EXCEPT ![c] = [pc |-> "wait", joined |-> Joined, asked |-> now,
                                        maxAge |-> EffectiveMaxAge(age), answer |-> NoAnswer]]
    /\ UNCHANGED <<now, snap, lastErr, unsafe, refresher, ctxEnded>>

Usage(c, age) == \/ UsageDisabled(c, age) \/ UsageCached(c, age)
                 \/ UsageRemembered(c, age) \/ UsageProbes(c, age)

Outcome(f) ==
    IF probes[f].out = "ok"
    THEN [kind |-> "snapshot",
          snap |-> [at |-> probes[f].end, reading |-> probes[f].reading, from |-> f]]
    ELSE [kind |-> "failed", snap |-> NoSnap]

Deliver(c) ==
    /\ caller[c].pc = "wait"
    /\ probes[caller[c].joined].phase = "closed"
    /\ caller' = [caller EXCEPT ![c].pc = "done", ![c].joined = 0,
                                ![c].answer = Outcome(caller[c].joined)]
    /\ UNCHANGED <<now, probes, inflight, snap, lastErr, unsafe, refresher, ctxEnded>>

\* The client gives up: ctx.Done wins the select; the probe goes on.
GiveUp(c) ==
    /\ caller[c].pc = "wait"
    /\ caller' = [caller EXCEPT ![c].pc = "done", ![c].joined = 0,
                                ![c].answer = [kind |-> "gaveup", snap |-> NoSnap]]
    /\ UNCHANGED <<now, probes, inflight, snap, lastErr, unsafe, refresher, ctxEnded>>

---------------------------------------------------------------------------
(* fetchQuota. runJSONProbe ends in one of four ways: the version gate      *)
(* refused or agy could not be run, agy exited 0 (or left its pipe to a     *)
(* descendant), it exited otherwise, or the 30 s deadline killed it and     *)
(* whatever it had printed is dropped.                                     *)

Ends == {"norun", "exited", "failed", "killed"}

FetchOutcome(end, env) ==
    IF end = "exited" THEN Decode(env)
    ELSE IF end = "failed" /\ Decode(env).kind = "turn" THEN Decode(env)
    ELSE [kind |-> "failed", reading |-> NoReading]

\* What the probe learned is recorded under c.mu, the waiters are told after.
FetchQuota(end, env) ==
    /\ inflight # 0
    /\ LET res == FetchOutcome(end, env)
       IN /\ probes' = [probes EXCEPT ![inflight] =
                          [@ EXCEPT !.phase = "recorded", !.end = now, !.out = res.kind,
                                    !.reading = res.reading]]
          /\ IF res.kind = "ok"
             THEN /\ snap' = [at |-> now, reading |-> res.reading, from |-> inflight]
                  /\ lastErr' = 0
                  /\ UNCHANGED unsafe
             ELSE /\ unsafe' = (unsafe \/ res.kind = "turn")
                  /\ lastErr' = now
                  /\ UNCHANGED snap
    /\ inflight' = 0
    /\ UNCHANGED <<now, caller, refresher, ctxEnded>>

\* Mutant of CloseDone: waiters are told of a reading only.
CloseOnSuccess(f) ==
    /\ probes[f].phase = "recorded" /\ probes[f].out = "ok"
    /\ probes' = [probes EXCEPT ![f].phase = "closed"]
    /\ UNCHANGED <<now, inflight, snap, lastErr, unsafe, caller, refresher, ctxEnded>>

CloseDone(f) ==
    /\ probes[f].phase = "recorded"
    /\ probes' = [probes EXCEPT ![f].phase = "closed"]
    /\ UNCHANGED <<now, inflight, snap, lastErr, unsafe, caller, refresher, ctxEnded>>

---------------------------------------------------------------------------
(* runUsageRefresher: at once, then at every tick.                         *)

RefreshStops ==
    /\ refresher.pc = "loop" /\ unsafe
    /\ refresher' = [pc |-> "stopped", joined |-> 0]
    /\ UNCHANGED <<now, probes, inflight, snap, lastErr, unsafe, caller, ctxEnded>>

RefreshSkips ==
    /\ refresher.pc = "loop" /\ ~unsafe /\ InBackoff
    /\ refresher' = [pc |-> "sleep", joined |-> 0]
    /\ UNCHANGED <<now, probes, inflight, snap, lastErr, unsafe, caller, ctxEnded>>

\* Mutant of RefreshProbes: only the backoff is looked at.
RefreshLatchless ==
    /\ refresher.pc = "loop" /\ ~InBackoff
    /\ StartFetchLocked
    /\ refresher' = [pc |-> "await", joined |-> Joined]
    /\ UNCHANGED <<now, snap, lastErr, unsafe, caller, ctxEnded>>

RefreshProbes ==
    /\ refresher.pc = "loop" /\ ~unsafe /\ ~InBackoff
    /\ StartFetchLocked
    /\ refresher' = [pc |-> "await", joined |-> Joined]
    /\ UNCHANGED <<now, snap, lastErr, unsafe, caller, ctxEnded>>

RefreshAwaited ==
    /\ refresher.pc = "await"
    /\ ctxEnded \/ probes[refresher.joined].phase = "closed"
    /\ refresher' = [pc |-> "sleep", joined |-> 0]
    /\ UNCHANGED <<now, probes, inflight, snap, lastErr, unsafe, caller, ctxEnded>>

\* A tick may wait in the ticker's channel, so it may come at once.
RefreshTick ==
    /\ refresher.pc = "sleep"
    /\ refresher' = [pc |-> "loop", joined |-> 0]
    /\ UNCHANGED <<now, probes, inflight, snap, lastErr, unsafe, caller, ctxEnded>>

RefreshDone ==
    /\ refresher.pc = "sleep" /\ ctxEnded
    /\ refresher' = [pc |-> "stopped", joined |-> 0]
    /\ UNCHANGED <<now, probes, inflight, snap, lastErr, unsafe, caller, ctxEnded>>

Refresh == \/ RefreshStops \/ RefreshSkips \/ RefreshProbes
           \/ RefreshAwaited \/ RefreshTick \/ RefreshDone

---------------------------------------------------------------------------
\* Only the refresher looks at it.
EndCtx ==
    /\ ~ctxEnded /\ refresher.pc # "stopped"
    /\ ctxEnded' = TRUE
    /\ UNCHANGED <<now, probes, inflight, snap, lastErr, unsafe, caller, refresher>>

Tick ==
    /\ now < MaxTime
    /\ now' = now + 1
    /\ UNCHANGED <<probes, inflight, snap, lastErr, unsafe, caller, refresher, ctxEnded>>

FetchEnds == \E end \in Ends : \E env \in Envelopes : FetchQuota(end, env)

Next ==
    \/ \E c \in Callers : \/ \E age \in MaxAges : Usage(c, age)
                          \/ Deliver(c)
                          \/ GiveUp(c)
    \/ FetchEnds
    \/ \E f \in 1..Len(probes) : CloseDone(f)
    \/ Refresh
    \/ EndCtx
    \/ Tick

Spec == Init /\ [][Next]_vars

\* A probe ends by itself or at its deadline; goroutines are scheduled; the
\* ticker ticks.
FairSpec ==
    /\ Spec
    /\ WF_vars(FetchEnds)
    /\ WF_vars(\E f \in 1..Len(probes) : CloseDone(f))
    /\ \A c \in Callers : WF_vars(Deliver(c))
    /\ WF_vars(Refresh)
---------------------------------------------------------------------------
ProbePhases == {"running", "recorded", "closed"}
Outcomes == {"none", "ok", "failed", "turn"}

Readings == {Decode(env).reading : env \in Envelopes} \cup {NoReading}
Probe == [phase : ProbePhases, start : Nat, end : Nat, out : Outcomes, reading : Readings]
Snapshot == [at : Nat, reading : Readings, from : Nat]
Answer == [kind : {"none", "snapshot", "failed", "disabled", "gaveup"}, snap : Snapshot]

TypeOK ==
    /\ now \in Nat \ {0}
    /\ probes \in Seq(Probe)
    /\ inflight \in 0..Len(probes)
    /\ snap \in Snapshot
    /\ lastErr \in Nat
    /\ unsafe \in BOOLEAN /\ ctxEnded \in BOOLEAN
    /\ caller \in [Callers -> [pc : {"idle", "wait", "done"}, joined : Nat, asked : Nat,
                               maxAge : Nat, answer : Answer]]
    /\ refresher \in [pc : {"loop", "await", "sleep", "stopped"}, joined : Nat]

\* At most one agy runs /usage at a time, and none within the backoff of one
\* that failed, whoever asks: calls of any age, the refresher, a caller that
\* gave up (startFetchLocked, the two backoff tests, fetchQuota's reset).
ProbesSpaced ==
    \A f \in 2..Len(probes) :
        /\ probes[f - 1].phase # "running"
        /\ probes[f - 1].out = "failed" => probes[f].start - probes[f - 1].end >= Backoff

\* Once a probe's reply was read as a model turn, which spent the quota it was
\* to measure, this process never probes again (c.unsafe).
NoProbeAfterTurn ==
    \A f \in 1..Len(probes) : probes[f].out = "turn" => f = Len(probes)

\* What agy_usage answers is true of the probes: a snapshot is a successful
\* one's reading, younger than asked for at the call, and no reading known
\* before the call is newer; an error has a failure within the backoff, or of
\* the probe waited for, behind it; disabled means that a turn was spent.
AnswerHonest ==
    \A c \in Callers :
        LET a == caller[c].answer
            asked == caller[c].asked
        IN /\ a.kind = "snapshot" =>
                /\ a.snap.from \in 1..Len(probes)
                /\ probes[a.snap.from].out = "ok"
                /\ probes[a.snap.from].reading = a.snap.reading
                /\ probes[a.snap.from].end = a.snap.at
                /\ asked - a.snap.at < caller[c].maxAge
                /\ \A g \in 1..Len(probes) :
                      probes[g].out = "ok" /\ probes[g].end < asked => g <= a.snap.from
           /\ a.kind = "failed" =>
                \E f \in 1..Len(probes) : /\ probes[f].out \in {"failed", "turn"}
                                          /\ asked - probes[f].end < Backoff
           /\ a.kind = "disabled" => \E f \in 1..Len(probes) : probes[f].out = "turn"

\* The last probe that gave a reading, 0 for none.
LastGood == LET good == {f \in 1..Len(probes) : probes[f].out = "ok"}
            IN IF good = {} THEN 0 ELSE CHOOSE f \in good : \A g \in good : g <= f

\* An optional run is refused exactly when the last good reading is still to be
\* trusted, has one group for the model, and some window of that group that has
\* not refilled since is below the threshold or empty (checkPriority, which
\* looks at one binding bucket; manager.go:640 relies on it failing open).
RefusalExact ==
    \A gemini \in BOOLEAN :
        CheckPriority(gemini) <=>
            /\ LastGood # 0
            /\ now - probes[LastGood].end < TrustAge
            /\ LET reading == probes[LastGood].reading
                   ours == {i \in 1..Len(reading) : gemini /\ reading[i].gemini}
               IN \E i \in ours :
                    /\ ours = {i}
                    /\ \E j \in 1..Len(reading[i].buckets) :
                          LET b == reading[i].buckets[j]
                          IN /\ b.reset = 0 \/ b.reset > now
                             /\ b.left < Low \/ b.left <= 0

\* Every agy_usage call comes back, though its client need not give up.
UsageReturns == \A c \in Callers : caller[c].pc = "wait" ~> caller[c].pc = "done"

===========================================================================
