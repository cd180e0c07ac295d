--------------------------- MODULE OutcomeProofs ---------------------------
(***************************************************************************)
(* From agy's stream to the answer.  What every answer satisfies, whatever *)
(* the exit codes are: each piece of the classification is shown to keep   *)
(* an answer well formed, and to leave alone the parts of it that later    *)
(* pieces rely on.  Then what the supervisor made of the stream, which is  *)
(* what the classification starts from: whatever agy writes, each usable   *)
(* line is mirrored, each other one counted.                               *)
(***************************************************************************)
EXTENDS Outcome, StreamReader, FiniteSetTheorems, TLAPS

\* A reason exactly with a failure, a retry verdict only with one, a sign-in
\* flag only with an agy_error: FailureNamed, of any answer.
WellNamed(st) ==
    /\ st \in Answers
    /\ (st.reason # "") <=> (st.state = "failed")
    /\ st.retry # "unsaid" => st.state = "failed"
    /\ st.signin => st.reason = "agy_error"

\* A fresh failure, as the branches of the source set one.
LEMMA PlainFailure ==
    ASSUME NEW reason \in Reasons
    PROVE  /\ WellNamed(Plain("failed", reason))
           /\ Plain("failed", reason).state = "failed"
           /\ Plain("failed", reason).reason = reason
           /\ Plain("failed", reason).text = "none"
           /\ Plain("failed", reason).partial = FALSE
BY DEF Plain, WellNamed, Answers, Reasons

\* A fresh answer that is no failure.
LEMMA PlainOther ==
    ASSUME NEW state \in {"done", "cancelled"}
    PROVE  /\ WellNamed(Plain(state, ""))
           /\ Plain(state, "").state = state
           /\ Plain(state, "").reason = ""
           /\ Plain(state, "").text = "none"
           /\ Plain(state, "").partial = FALSE
BY DEF Plain, WellNamed, Answers, Reasons

\* carryText decides the text and raises Partial; it names nothing.
LEMMA CarryKeeps ==
    ASSUME NEW j \in Jobs, NEW st, WellNamed(st)
    PROVE  /\ WellNamed(CarryText(j, st))
           /\ CarryText(j, st).state = st.state
           /\ CarryText(j, st).reason = st.reason
           /\ CarryText(j, st).signin = st.signin
<1> DEFINE c == CarryText(j, st)
<1>1. Trimmed(j) \in {"none", "response"} /\ (j.payload.status # "SUCCESS" \/ j.schema) \in BOOLEAN
  BY DEF Trimmed, Jobs, Payloads
<1>2. \/ c = st
      \/ c = [st EXCEPT !.text = "structured"]
      \/ c = [st EXCEPT !.text = "stream", !.partial = TRUE]
      \/ c = [st EXCEPT !.text = Trimmed(j),
                        !.partial = st.partial \/ j.payload.status # "SUCCESS" \/ j.schema]
  BY DEF CarryText
<1> HIDE DEF c
<1> SUFFICES WellNamed(c) /\ c.state = st.state /\ c.reason = st.reason /\ c.signin = st.signin
  BY DEF c
<1>3. CASE c = st BY <1>3
<1>4. CASE c = [st EXCEPT !.text = "structured"] BY <1>4 DEF WellNamed, Answers
<1>5. CASE c = [st EXCEPT !.text = "stream", !.partial = TRUE]
  BY <1>5 DEF WellNamed, Answers
<1>6. ASSUME NEW t \in {"none", "response"}, NEW b \in BOOLEAN,
             c = [st EXCEPT !.text = t, !.partial = st.partial \/ b]
      PROVE  WellNamed(c) /\ c.state = st.state /\ c.reason = st.reason /\ c.signin = st.signin
  <2> DEFINE b2 == st.partial \/ b
  <2>1. b2 \in BOOLEAN OBVIOUS
  <2> HIDE DEF b2
  <2> QED BY <2>1, <1>6 DEF WellNamed, Answers
<1> QED BY <1>1, <1>2, <1>3, <1>4, <1>5, <1>6

\* agy's message is either a quota wall or a plain error.
LEMMA ClassifyIsReason ==
    ASSUME NEW msg
    PROVE  ClassifyAgyError(msg) \in Reasons
BY DEF ClassifyAgyError, Reasons

\* agy's structured line, the print-timeout relabelling and the sign-in check
\* never turn a failure into anything else.
LEMMA VerdictKeeps ==
    ASSUME NEW j \in Jobs, NEW st, WellNamed(st),
           st.state = "failed", ~st.signin
    PROVE  /\ WellNamed(AgysVerdict(j, st))
           /\ AgysVerdict(j, st).state = "failed"
<1> DEFINE a == ApplyAgyError(j, st)
           l == MarkLegacyPrintTimeout(j, a)
<1>1. j.stderr.retry \in {"unsaid", "yes", "no"}
  BY DEF Jobs, Stderrs
<1>2. WellNamed(a) /\ a.state = "failed" /\ ~a.signin
  BY <1>1 DEF ApplyAgyError, WellNamed, Answers, Reasons
<1>3. WellNamed(l) /\ l.state = "failed" /\ ~l.signin
  <2>1. l = a \/ (a.reason = "agy_error" /\ l = [a EXCEPT !.reason = "timeout"])
    BY DEF MarkLegacyPrintTimeout
  <2> HIDE DEF a, l
  <2>2. CASE l = a BY <1>2, <2>2
  <2>3. CASE a.reason = "agy_error" /\ l = [a EXCEPT !.reason = "timeout"]
    BY <1>2, <2>3 DEF WellNamed, Answers, Reasons
  <2> QED BY <2>1, <2>2, <2>3
<1>4. WellNamed(MarkSignInRequired(j, l)) /\ MarkSignInRequired(j, l).state = "failed"
  <2> DEFINE m == MarkSignInRequired(j, l)
  <2>1. m = l \/ (l.reason = "agy_error" /\ m = [l EXCEPT !.signin = TRUE])
    BY DEF MarkSignInRequired
  <2> HIDE DEF l, m
  <2> SUFFICES WellNamed(m) /\ m.state = "failed" BY DEF m
  <2>2. CASE m = l BY <1>3, <2>2
  <2>3. CASE l.reason = "agy_error" /\ m = [l EXCEPT !.signin = TRUE]
    BY <1>3, <2>3 DEF WellNamed, Answers
  <2> QED BY <2>1, <2>2, <2>3
<1> QED BY <1>4 DEF AgysVerdict

\* A terminal payload, whatever its status, gives a well-formed answer.
LEMMA ResultNamed ==
    ASSUME NEW j \in Jobs
    PROVE  /\ WellNamed(ApplyResult(j))
           /\ SchemaSuccessWithoutOutput(j) => ~ApplyResult(j).signin
<1> DEFINE e == Plain("failed", ClassifyAgyError(j.payload.error))
           d == Plain("done", "")
           f == Plain("failed", "agy_error")
           verdict == CASE j.payload.status = "ERROR" -> AgysVerdict(j, e)
                        [] j.payload.status = "SUCCESS" /\ ~SchemaSuccessWithoutOutput(j) -> d
                        [] j.payload.status = "" /\ j.payload.response # "none" /\ ~j.schema -> d
                        [] OTHER -> f
<1>1. WellNamed(AgysVerdict(j, e))
  <2>1. WellNamed(e) /\ e.state = "failed"
    BY ClassifyIsReason, PlainFailure
  <2>2. ~e.signin
    BY DEF Plain
  <2> QED BY <2>1, <2>2, VerdictKeeps
<1>2. WellNamed(d)
  BY PlainOther
<1>3. WellNamed(f)
  BY PlainFailure DEF Reasons
<1>4. WellNamed(verdict)
  <2> HIDE DEF d, e, f
  <2> QED BY <1>1, <1>2, <1>3
<1>5. SchemaSuccessWithoutOutput(j) => ~verdict.signin
  BY DEF SchemaSuccessWithoutOutput, Plain
<1>6. ApplyResult(j) = CarryText(j, verdict)
  BY DEF ApplyResult
<1> HIDE DEF verdict
<1> QED BY <1>4, <1>5, <1>6, CarryKeeps

\* So does a clean exit that left none.
LEMMA CleanExitNamed ==
    ASSUME NEW j \in Jobs
    PROVE  WellNamed(CleanExitWithoutPayload(j)) /\ ~CleanExitWithoutPayload(j).signin
<1> DEFINE u == Plain("failed", "unknown")
           f == Plain("failed", "agy_error")
           d == Plain("done", "")
           s == [d EXCEPT !.partial = StreamJSONRun(j)]
           st == CASE j.out = "unreadable" -> u
                   [] j.out # "unreadable" /\ j.schema -> f
                   [] OTHER -> s
<1>1. StreamJSONRun(j) \in BOOLEAN /\ j.schema \in BOOLEAN
  BY DEF StreamJSONRun, Jobs
<1>2. WellNamed(u) /\ ~u.signin /\ WellNamed(f) /\ ~f.signin
  BY PlainFailure DEF Reasons, Plain
<1>3. WellNamed(s) /\ ~s.signin
  <2>1. WellNamed(d) /\ ~d.signin
    BY PlainOther DEF Plain
  <2> HIDE DEF d
  <2> QED BY <1>1, <2>1 DEF WellNamed, Answers
<1>4. WellNamed(st) /\ ~st.signin
  <2> HIDE DEF u, f, s
  <2> QED BY <1>2, <1>3
<1>5. CleanExitWithoutPayload(j) =
        IF j.out # "text" THEN st
        ELSE [st EXCEPT !.text = "stream", !.partial = j.schema \/ StreamJSONRun(j)]
  BY DEF CleanExitWithoutPayload
<1> HIDE DEF st
<1> DEFINE t == [st EXCEPT !.text = "stream", !.partial = j.schema \/ StreamJSONRun(j)]
<1>6. WellNamed(t) /\ ~t.signin
  BY <1>1, <1>4 DEF WellNamed, Answers
<1> QED BY <1>4, <1>5, <1>6

\* An agy that ended the run early turns the answer into a failure with its own
\* reason, and takes a sign-in flag off nothing: an answer that is done, or that
\* failed for want of a structured output, has none.
LEMMA NoticesNamed ==
    ASSUME NEW j \in Jobs, NEW st, WellNamed(st),
           SchemaSuccessWithoutOutput(j) => ~st.signin,
           ~HasPayload(j) => ~st.signin
    PROVE  WellNamed(ApplyCleanExitNotices(j, st))
<1>1. CASE ApplyCleanExitNotices(j, st) = st
  BY <1>1
<1>2. CASE ApplyCleanExitNotices(j, st) # st
  <2>1. ~st.signin
    BY <1>2 DEF ApplyCleanExitNotices, WellNamed
  <2>2. WellNamed(MarkBackgroundAborted(st)) /\ WellNamed(MarkPrintTimeout(st))
    BY <2>1 DEF MarkBackgroundAborted, MarkPrintTimeout, WellNamed, Answers, Reasons
  <2> QED BY <1>2, <2>2 DEF ApplyCleanExitNotices
<1> QED BY <1>1, <1>2

\* What a clean exit, or a job recovered from its payload, is answered with.
LEMMA CleanNamed ==
    ASSUME NEW j \in Jobs
    PROVE  /\ HasPayload(j) => WellNamed(ApplyCleanExitNotices(j, ApplyResult(j)))
           /\ ~HasPayload(j) =>
                WellNamed(ApplyCleanExitNotices(j, CleanExitWithoutPayload(j)))
<1>1. SchemaSuccessWithoutOutput(j) => HasPayload(j)
  BY DEF SchemaSuccessWithoutOutput, HasPayload
<1> QED BY <1>1, ResultNamed, CleanExitNamed, NoticesNamed

\* A job whose supervisor vanished is given a state and, if it failed, a reason.
LEMMA RecoverNamed ==
    ASSUME NEW j \in Jobs
    PROVE  WellNamed(RecoverInterrupted(j))
<1> DEFINE u == Plain("failed", "unknown")
           i == Plain("failed", "interrupted")
           d == Plain("done", "")
           s == [d EXCEPT !.text = "stream", !.partial = TRUE]
<1>1. WellNamed(u) /\ WellNamed(i)
  BY PlainFailure DEF Reasons
<1>2. WellNamed(s)
  <2>1. WellNamed(d)
    BY PlainOther
  <2> HIDE DEF d
  <2> QED BY <2>1 DEF WellNamed, Answers
<1> HIDE DEF u, i, s
<1>3. RecoverInterrupted(j) =
        CASE HasPayload(j) -> ApplyCleanExitNotices(j, ApplyResult(j))
          [] ~HasPayload(j) /\ j.out = "unreadable" -> u
          [] ~HasPayload(j) /\ j.out = "text" -> s
          [] OTHER -> i
  BY DEF RecoverInterrupted, u, i, s
<1> QED BY <1>1, <1>2, <1>3, CleanNamed

\* A crash is a failure with agy's verdict on it.
LEMMA CrashedNamed ==
    ASSUME NEW j \in Jobs
    PROVE  WellNamed(Crashed(j)) /\ Crashed(j).state = "failed"
<1> DEFINE msg == IF HasPayload(j) /\ j.payload.error # "" THEN j.payload.error ELSE j.stderr.wording
           st == Plain("failed", ClassifyAgyError(msg))
<1>1. WellNamed(st) /\ st.state = "failed"
  <2>1. ClassifyAgyError(msg) \in Reasons
    BY ClassifyIsReason
  <2> HIDE DEF msg
  <2> QED BY <2>1, PlainFailure
<1>2. ~st.signin
  BY DEF Plain
<1>3. Crashed(j) = IF HasPayload(j) /\ j.payload.status = "SUCCESS" THEN st ELSE AgysVerdict(j, st)
  BY DEF Crashed
<1> HIDE DEF st
<1> QED BY <1>1, <1>2, <1>3, VerdictKeeps

\* Every other non-zero code fixes the state, which carrying the text keeps.
LEMMA ExitCodeNamed ==
    ASSUME NEW j \in Jobs, j.code # 0
    PROVE  /\ WellNamed(StatusFromExitCode(j))
           /\ StatusFromExitCode(j).state = StateForCode(j.code)
<1> DEFINE c == Plain("cancelled", "")
           t == Plain("failed", "timeout")
           s == Plain("failed", "spawn_failed")
           x == CASE j.code \in {ExitSIGTERM, ExitSIGINT} -> c
                  [] j.code = ExitTimeout -> t
                  [] j.code = ExitSpawnFail -> s
                  [] OTHER -> Crashed(j)
           st == CarryText(j, x)
<1>1. WellNamed(c) /\ c.state = "cancelled"
  BY PlainOther
<1>2. WellNamed(t) /\ t.state = "failed" /\ WellNamed(s) /\ s.state = "failed"
  BY PlainFailure DEF Reasons
<1>3. WellNamed(x) /\ x.state = StateForCode(j.code)
  <2> HIDE DEF c, t, s
  <2> QED BY <1>1, <1>2, CrashedNamed
        DEF StateForCode, ExitSIGTERM, ExitSIGINT, ExitTimeout, ExitSpawnFail
<1>4. WellNamed(st) /\ st.state = StateForCode(j.code)
  <2> HIDE DEF x
  <2> QED BY <1>3, CarryKeeps
<1>5. StatusFromExitCode(j) =
        IF j.code = ExitTimeout /\ st.text # "none" /\ j.stderr.expired
        THEN [st EXCEPT !.partial = TRUE]
        ELSE st
  BY DEF StatusFromExitCode
<1> HIDE DEF st
<1>6. WellNamed([st EXCEPT !.partial = TRUE]) /\ [st EXCEPT !.partial = TRUE].state = st.state
  BY <1>4 DEF WellNamed, Answers
<1> QED BY <1>4, <1>5, <1>6

\* Together: every answer is well formed, and its state is the one that the
\* code alone gives whenever State does not defer to Status.
LEMMA StatusNamed ==
    ASSUME NEW j \in Jobs
    PROVE  WellNamed(StatusOf(j)) /\ StateOf(j) = StatusOf(j).state
<1>1. CASE j.code = NoCode
  BY <1>1, RecoverNamed DEF StatusOf, StateOf
<1>2. CASE j.code # NoCode /\ j.code = 0
  <2>1. StatusFromExitCode(j) = ApplyCleanExitNotices(j,
            IF HasPayload(j) THEN ApplyResult(j) ELSE CleanExitWithoutPayload(j))
    BY <1>2 DEF StatusFromExitCode
  <2> QED BY <1>2, <2>1, CleanNamed DEF StatusOf, StateOf
<1>3. CASE j.code # NoCode /\ j.code # 0
  BY <1>3, ExitCodeNamed DEF StatusOf, StateOf
<1> QED BY <1>1, <1>2, <1>3

-----------------------------------------------------------------------------
(* Where an answer's text comes from.                                      *)

\* agy's authoritative result.
Final(j, st) ==
    /\ j.payload.status = "SUCCESS"
    /\ st.text = IF j.schema THEN "structured" ELSE "response"

\* carryText leaves no text unflagged but the authoritative result.
LEMMA CarryVouches ==
    ASSUME NEW j \in Jobs, NEW st, WellNamed(st), st.text = "none",
           CarryText(j, st).text # "none", ~CarryText(j, st).partial
    PROVE  /\ Final(j, CarryText(j, st))
           /\ j.schema => j.payload.structured
BY DEF CarryText, Trimmed, Final, WellNamed, Answers, Jobs, Payloads

\* agy's verdict on a failure comes before its text.
LEMMA VerdictTextless ==
    ASSUME NEW j \in Jobs, NEW reason \in Reasons
    PROVE  AgysVerdict(j, Plain("failed", reason)).text = "none"
<1> DEFINE st == Plain("failed", reason)
           a == ApplyAgyError(j, st)
           l == MarkLegacyPrintTimeout(j, a)
<1>1. st \in Answers /\ st.text = "none"
  BY PlainFailure DEF WellNamed
<1>2. a \in Answers /\ a.text = "none"
  <2>1. j.stderr.retry \in {"unsaid", "yes", "no"}
    BY DEF Jobs, Stderrs
  <2> HIDE DEF st
  <2> QED BY <1>1, <2>1 DEF ApplyAgyError, Answers, Reasons
<1>3. l \in Answers /\ l.text = "none"
  <2> HIDE DEF a
  <2> QED BY <1>2 DEF MarkLegacyPrintTimeout, Answers, Reasons
<1>4. MarkSignInRequired(j, l).text = "none"
  <2> HIDE DEF l
  <2> QED BY <1>3 DEF MarkSignInRequired, Answers
<1> QED BY <1>4 DEF AgysVerdict

\* A text taken from a payload as final is that of a run that is done.
LEMMA ResultVouches ==
    ASSUME NEW j \in Jobs, ApplyResult(j).text # "none", ~ApplyResult(j).partial
    PROVE  Final(j, ApplyResult(j)) /\ ApplyResult(j).state = "done"
<1> DEFINE e == AgysVerdict(j, Plain("failed", ClassifyAgyError(j.payload.error)))
           d == Plain("done", "")
           f == Plain("failed", "agy_error")
           verdict == CASE j.payload.status = "ERROR" -> e
                        [] j.payload.status = "SUCCESS" /\ ~SchemaSuccessWithoutOutput(j) -> d
                        [] j.payload.status = "" /\ j.payload.response # "none" /\ ~j.schema -> d
                        [] OTHER -> f
<1>1. WellNamed(e) /\ e.text = "none"
  <2> DEFINE p == Plain("failed", ClassifyAgyError(j.payload.error))
  <2>1. ClassifyAgyError(j.payload.error) \in Reasons
    BY ClassifyIsReason
  <2>2. WellNamed(p) /\ p.state = "failed" /\ ~p.signin
    BY <2>1, PlainFailure DEF Plain
  <2>3. e.text = "none"
    BY <2>1, VerdictTextless
  <2> HIDE DEF p
  <2>4. WellNamed(AgysVerdict(j, p))
    BY <2>2, VerdictKeeps
  <2> QED BY <2>3, <2>4 DEF p
<1>2. WellNamed(d) /\ d.text = "none" /\ d.state = "done"
  BY PlainOther
<1>3. WellNamed(f) /\ f.text = "none"
  BY PlainFailure DEF Reasons
<1>4. ApplyResult(j) = CarryText(j, verdict)
  BY DEF ApplyResult
<1>5. WellNamed(verdict) /\ verdict.text = "none"
  <2> HIDE DEF d, e, f
  <2> QED BY <1>1, <1>2, <1>3
<1>6. Final(j, CarryText(j, verdict)) /\ (j.schema => j.payload.structured)
  <2> HIDE DEF verdict
  <2> QED BY <1>4, <1>5, CarryVouches
<1>7. verdict.state = "done"
  <2> HIDE DEF d, e, f
  <2> QED BY <1>2, <1>6 DEF Final, SchemaSuccessWithoutOutput
<1>8. CarryText(j, verdict).state = "done"
  <2> HIDE DEF verdict
  <2> QED BY <1>5, <1>7, CarryKeeps
<1> HIDE DEF verdict
<1> QED BY <1>4, <1>6, <1>8

\* So is the streamed text of a clean exit, if it is called final at all: only
\* a directory of an older build has it complete.
LEMMA CleanExitVouches ==
    ASSUME NEW j \in Jobs,
           CleanExitWithoutPayload(j).text # "none", ~CleanExitWithoutPayload(j).partial
    PROVE  /\ j.payload.status = "absent" /\ ~j.streamed /\ ~j.schema
           /\ CleanExitWithoutPayload(j).state = "done"
<1> DEFINE u == Plain("failed", "unknown")
           f == Plain("failed", "agy_error")
           d == Plain("done", "")
           s == [d EXCEPT !.partial = StreamJSONRun(j)]
           st == CASE j.out = "unreadable" -> u
                   [] j.out # "unreadable" /\ j.schema -> f
                   [] OTHER -> s
           t == [st EXCEPT !.text = "stream", !.partial = j.schema \/ StreamJSONRun(j)]
<1>1. StreamJSONRun(j) \in BOOLEAN /\ j.schema \in BOOLEAN
  BY DEF StreamJSONRun, Jobs
<1>2. u \in Answers /\ u.text = "none" /\ f \in Answers /\ f.text = "none"
  BY PlainFailure DEF Reasons, WellNamed
<1>3. s \in Answers /\ s.text = "none" /\ s.state = "done"
  <2>1. d \in Answers /\ d.text = "none" /\ d.state = "done"
    BY PlainOther DEF WellNamed
  <2> HIDE DEF d
  <2> QED BY <1>1, <2>1 DEF Answers
<1>4. st \in Answers /\ st.text = "none"
      /\ (j.out # "unreadable" /\ ~j.schema => st.state = "done")
  <2> HIDE DEF u, f, s
  <2> QED BY <1>2, <1>3
<1>5. CleanExitWithoutPayload(j) = IF j.out # "text" THEN st ELSE t
  BY DEF CleanExitWithoutPayload
<1>6. t.state = st.state /\ t.partial = (j.schema \/ StreamJSONRun(j))
  <2> HIDE DEF st
  <2> QED BY <1>1, <1>4 DEF Answers
<1> HIDE DEF st, t
<1>7. j.out = "text" /\ CleanExitWithoutPayload(j) = t
  BY <1>4, <1>5
<1>8. ~j.schema /\ ~StreamJSONRun(j)
  BY <1>6, <1>7
<1> QED BY <1>4, <1>6, <1>7, <1>8 DEF StreamJSONRun

\* What is still called final once the notices were read was done before, and
\* neither notice was there.
LEMMA NoticesVouch ==
    ASSUME NEW j \in Jobs, NEW st, WellNamed(st),
           st.text # "none" /\ ~st.partial => st.state = "done",
           ApplyCleanExitNotices(j, st).text # "none", ~ApplyCleanExitNotices(j, st).partial
    PROVE  /\ ApplyCleanExitNotices(j, st) = st
           /\ ~j.stderr.aborted /\ ~j.stderr.expired
<1>1. MarkBackgroundAborted(st).partial = TRUE
  BY DEF MarkBackgroundAborted, WellNamed, Answers
<1>2. /\ MarkPrintTimeout(st).text = st.text
      /\ MarkPrintTimeout(st).partial = (st.text # "none")
  BY DEF MarkPrintTimeout, WellNamed, Answers
<1>3. ApplyCleanExitNotices(j, st) = st
  BY <1>1, <1>2 DEF ApplyCleanExitNotices
<1>4. st.state = "done"
  BY <1>3
<1> QED BY <1>1, <1>2, <1>3, <1>4 DEF ApplyCleanExitNotices

\* Vouched, of any answer.
VouchedFor(j, st) ==
    st.text # "none" /\ ~st.partial =>
        /\ \/ Final(j, st)
           \/ j.payload.status = "absent" /\ ~j.streamed /\ ~j.schema /\ j.code = 0
        /\ j.code \in {0, NoCode} => ~j.stderr.aborted
        /\ j.code \in {0, NoCode, ExitTimeout} => ~j.stderr.expired

\* A clean exit, or a job recovered from its payload.
LEMMA CleanVouches ==
    ASSUME NEW j \in Jobs, j.code \in {0, NoCode}
    PROVE  /\ HasPayload(j) =>
                VouchedFor(j, ApplyCleanExitNotices(j, ApplyResult(j)))
           /\ ~HasPayload(j) /\ j.code = 0 =>
                VouchedFor(j, ApplyCleanExitNotices(j, CleanExitWithoutPayload(j)))
<1>1. ASSUME HasPayload(j)
      PROVE  VouchedFor(j, ApplyCleanExitNotices(j, ApplyResult(j)))
  <2> DEFINE st == ApplyResult(j)
             n == ApplyCleanExitNotices(j, st)
  <2>1. SUFFICES ASSUME n.text # "none", ~n.partial
                 PROVE  Final(j, n) /\ ~j.stderr.aborted /\ ~j.stderr.expired
    BY DEF VouchedFor
  <2>2. WellNamed(st)
    BY ResultNamed
  <2>3. st.text # "none" /\ ~st.partial => Final(j, st) /\ st.state = "done"
    BY ResultVouches
  <2> HIDE DEF st
  <2>4. n = st /\ ~j.stderr.aborted /\ ~j.stderr.expired
    BY <2>1, <2>2, <2>3, NoticesVouch
  <2> QED BY <2>1, <2>3, <2>4
<1>2. ASSUME ~HasPayload(j), j.code = 0
      PROVE  VouchedFor(j, ApplyCleanExitNotices(j, CleanExitWithoutPayload(j)))
  <2> DEFINE st == CleanExitWithoutPayload(j)
             n == ApplyCleanExitNotices(j, st)
  <2>1. SUFFICES ASSUME n.text # "none", ~n.partial
                 PROVE  /\ j.payload.status = "absent" /\ ~j.streamed /\ ~j.schema
                        /\ ~j.stderr.aborted /\ ~j.stderr.expired
    BY <1>2 DEF VouchedFor
  <2>2. WellNamed(st)
    BY CleanExitNamed
  <2>3. st.text # "none" /\ ~st.partial =>
            /\ j.payload.status = "absent" /\ ~j.streamed /\ ~j.schema
            /\ st.state = "done"
    BY CleanExitVouches
  <2> HIDE DEF st
  <2>4. n = st /\ ~j.stderr.aborted /\ ~j.stderr.expired
    BY <2>1, <2>2, <2>3, NoticesVouch
  <2> QED BY <2>1, <2>3, <2>4
<1> QED BY <1>1, <1>2

\* Any other code: a timeout's text is flagged when agy's own timer won.
LEMMA ExitCodeVouches ==
    ASSUME NEW j \in Jobs, j.code \notin {0, NoCode}
    PROVE  VouchedFor(j, StatusFromExitCode(j))
<1> DEFINE c == Plain("cancelled", "")
           t == Plain("failed", "timeout")
           s == Plain("failed", "spawn_failed")
           x == CASE j.code \in {ExitSIGTERM, ExitSIGINT} -> c
                  [] j.code = ExitTimeout -> t
                  [] j.code = ExitSpawnFail -> s
                  [] OTHER -> Crashed(j)
           st == CarryText(j, x)
           r == StatusFromExitCode(j)
<1>1. WellNamed(c) /\ c.text = "none"
  BY PlainOther
<1>2. WellNamed(t) /\ t.text = "none" /\ WellNamed(s) /\ s.text = "none"
  BY PlainFailure DEF Reasons
<1>3. WellNamed(Crashed(j)) /\ Crashed(j).text = "none"
  <2> DEFINE msg == IF HasPayload(j) /\ j.payload.error # "" THEN j.payload.error
                    ELSE j.stderr.wording
             p == Plain("failed", ClassifyAgyError(msg))
  <2>1. ClassifyAgyError(msg) \in Reasons
    BY ClassifyIsReason
  <2>2. p.text = "none" /\ AgysVerdict(j, p).text = "none"
    <3> HIDE DEF msg
    <3> QED BY <2>1, PlainFailure, VerdictTextless
  <2>3. Crashed(j) = IF HasPayload(j) /\ j.payload.status = "SUCCESS" THEN p ELSE AgysVerdict(j, p)
    BY DEF Crashed
  <2> HIDE DEF p
  <2> QED BY <2>2, <2>3, CrashedNamed
<1>4. WellNamed(x) /\ x.text = "none"
  <2> HIDE DEF c, t, s
  <2> QED BY <1>1, <1>2, <1>3
<1>5. r = IF j.code = ExitTimeout /\ st.text # "none" /\ j.stderr.expired
          THEN [st EXCEPT !.partial = TRUE]
          ELSE st
  BY DEF StatusFromExitCode
<1>6. WellNamed(st) /\ (st.text # "none" /\ ~st.partial => Final(j, st))
  <2> HIDE DEF x
  <2> QED BY <1>4, CarryKeeps, CarryVouches
<1> HIDE DEF st, r
<1>7. [st EXCEPT !.partial = TRUE].partial = TRUE
  BY <1>6 DEF WellNamed, Answers
<1>8. r.text # "none" /\ ~r.partial => Final(j, r) /\ (j.code = ExitTimeout => ~j.stderr.expired)
  BY <1>5, <1>6, <1>7
<1> QED BY <1>8 DEF VouchedFor, r

\* Whatever the directory holds, its answer vouches for no more than agy did.
LEMMA StatusVouches ==
    ASSUME NEW j \in Jobs
    PROVE  VouchedFor(j, StatusOf(j))
<1>1. CASE j.code = NoCode
  <2>1. CASE HasPayload(j)
    BY <1>1, <2>1, CleanVouches DEF StatusOf, RecoverInterrupted
  <2>2. CASE ~HasPayload(j)
    <3> DEFINE u == Plain("failed", "unknown")
               i == Plain("failed", "interrupted")
               d == Plain("done", "")
               s == [d EXCEPT !.text = "stream", !.partial = TRUE]
    <3>1. u.text = "none" /\ i.text = "none"
      BY DEF Plain
    <3>2. s.partial = TRUE
      BY DEF Plain
    <3>3. StatusOf(j) = CASE j.out = "unreadable" -> u [] j.out = "text" -> s [] OTHER -> i
      BY <1>1, <2>2 DEF StatusOf, RecoverInterrupted
    <3> HIDE DEF u, i, s
    <3> QED BY <3>1, <3>2, <3>3 DEF VouchedFor
  <2> QED BY <2>1, <2>2
<1>2. CASE j.code # NoCode /\ j.code = 0
  <2>1. StatusFromExitCode(j) = ApplyCleanExitNotices(j,
            IF HasPayload(j) THEN ApplyResult(j) ELSE CleanExitWithoutPayload(j))
    BY <1>2 DEF StatusFromExitCode
  <2> QED BY <1>2, <2>1, CleanVouches DEF StatusOf
<1>3. CASE j.code # NoCode /\ j.code # 0
  BY <1>3, ExitCodeVouches DEF StatusOf
<1> QED BY <1>1, <1>2, <1>3

-----------------------------------------------------------------------------
(* What of a text an answer hands back.                                    *)

\* NoTextLost, of any answer.
Found(j, st) ==
    LET final == j.payload.status = "SUCCESS" /\ j.schema /\ j.payload.structured
    IN /\ final => st.text = "structured"
       /\ ~final /\ j.payload.response = "text" => st.text = "response"
       /\ j.out = "text" /\ j.payload.response = "none" => st.text # "none"

\* carryText takes the best there is.
LEMMA CarryFinds ==
    ASSUME NEW j \in Jobs, NEW st, WellNamed(st)
    PROVE  Found(j, CarryText(j, st))
BY DEF CarryText, Trimmed, Found, WellNamed, Answers

\* An answer from a payload is a verdict with the text carried over.
LEMMA ResultCarries ==
    ASSUME NEW j \in Jobs
    PROVE  \E st : WellNamed(st) /\ ApplyResult(j) = CarryText(j, st)
<1> DEFINE e == Plain("failed", ClassifyAgyError(j.payload.error))
           d == Plain("done", "")
           f == Plain("failed", "agy_error")
           verdict == CASE j.payload.status = "ERROR" -> AgysVerdict(j, e)
                        [] j.payload.status = "SUCCESS" /\ ~SchemaSuccessWithoutOutput(j) -> d
                        [] j.payload.status = "" /\ j.payload.response # "none" /\ ~j.schema -> d
                        [] OTHER -> f
<1>1. WellNamed(AgysVerdict(j, e))
  <2>1. WellNamed(e) /\ e.state = "failed" /\ ~e.signin
    BY ClassifyIsReason, PlainFailure DEF Plain
  <2> QED BY <2>1, VerdictKeeps
<1>2. WellNamed(d) /\ WellNamed(f)
  BY PlainOther, PlainFailure DEF Reasons
<1>3. WellNamed(verdict)
  <2> HIDE DEF d, e, f
  <2> QED BY <1>1, <1>2
<1>4. ApplyResult(j) = CarryText(j, verdict)
  BY DEF ApplyResult
<1> HIDE DEF verdict
<1> QED BY <1>3, <1>4

\* The notices of a clean exit take no text away.
LEMMA NoticesKeepText ==
    ASSUME NEW j \in Jobs, NEW st, WellNamed(st)
    PROVE  ApplyCleanExitNotices(j, st).text = st.text
<1>1. MarkBackgroundAborted(st).text = st.text /\ MarkPrintTimeout(st).text = st.text
  BY DEF MarkBackgroundAborted, MarkPrintTimeout, WellNamed, Answers
<1> QED BY <1>1 DEF ApplyCleanExitNotices

\* A payload's text survives a clean exit, and a job recovered from it.
LEMMA PayloadFound ==
    ASSUME NEW j \in Jobs
    PROVE  Found(j, ApplyCleanExitNotices(j, ApplyResult(j)))
<1>1. Found(j, ApplyResult(j)) /\ WellNamed(ApplyResult(j))
  BY ResultCarries, CarryFinds, ResultNamed
<1> QED BY <1>1, NoticesKeepText DEF Found

\* Without a payload there is only the stream.
LEMMA StreamFound ==
    ASSUME NEW j \in Jobs, ~HasPayload(j)
    PROVE  /\ Found(j, ApplyCleanExitNotices(j, CleanExitWithoutPayload(j)))
           /\ j.code = NoCode => Found(j, RecoverInterrupted(j))
<1>1. j.payload.status # "SUCCESS" /\ j.payload.response = "none"
  BY DEF HasPayload, Jobs, Payloads
<1>2. j.out = "text" => CleanExitWithoutPayload(j).text = "stream"
  <2> DEFINE st == CASE j.out = "unreadable" -> Plain("failed", "unknown")
                     [] j.out # "unreadable" /\ j.schema -> Plain("failed", "agy_error")
                     [] OTHER -> [Plain("done", "") EXCEPT !.partial = StreamJSONRun(j)]
  <2>1. CleanExitWithoutPayload(j) =
          IF j.out # "text" THEN st
          ELSE [st EXCEPT !.text = "stream", !.partial = j.schema \/ StreamJSONRun(j)]
    BY DEF CleanExitWithoutPayload
  <2>2. "text" \in DOMAIN st
    BY DEF Plain
  <2> HIDE DEF st
  <2> QED BY <2>1, <2>2
<1>3. j.out = "text" => RecoverInterrupted(j).text = "stream"
  BY DEF RecoverInterrupted, Plain
<1>4. WellNamed(CleanExitWithoutPayload(j))
  BY CleanExitNamed
<1> QED BY <1>1, <1>2, <1>3, <1>4, NoticesKeepText DEF Found

\* Any other code: the text is carried last.
LEMMA ExitCodeFound ==
    ASSUME NEW j \in Jobs, j.code # 0
    PROVE  Found(j, StatusFromExitCode(j))
<1> DEFINE c == Plain("cancelled", "")
           t == Plain("failed", "timeout")
           s == Plain("failed", "spawn_failed")
           x == CASE j.code \in {ExitSIGTERM, ExitSIGINT} -> c
                  [] j.code = ExitTimeout -> t
                  [] j.code = ExitSpawnFail -> s
                  [] OTHER -> Crashed(j)
           st == CarryText(j, x)
<1>1. WellNamed(c) /\ WellNamed(t) /\ WellNamed(s)
  BY PlainOther, PlainFailure DEF Reasons
<1>2. WellNamed(x)
  <2> HIDE DEF c, t, s
  <2> QED BY <1>1, CrashedNamed
<1>3. StatusFromExitCode(j) =
        IF j.code = ExitTimeout /\ st.text # "none" /\ j.stderr.expired
        THEN [st EXCEPT !.partial = TRUE]
        ELSE st
  BY DEF StatusFromExitCode
<1>4. Found(j, st) /\ WellNamed(st)
  <2> HIDE DEF x
  <2> QED BY <1>2, CarryFinds, CarryKeeps
<1> HIDE DEF st
<1>5. [st EXCEPT !.partial = TRUE].text = st.text
  BY <1>4 DEF WellNamed, Answers
<1> QED BY <1>3, <1>4, <1>5 DEF Found

\* Together.
LEMMA StatusFinds ==
    ASSUME NEW j \in Jobs
    PROVE  Found(j, StatusOf(j))
<1>1. CASE j.code = NoCode
  BY <1>1, PayloadFound, StreamFound DEF StatusOf, RecoverInterrupted
<1>2. CASE j.code # NoCode /\ j.code = 0
  BY <1>2, PayloadFound, StreamFound DEF StatusOf, StatusFromExitCode
<1>3. CASE j.code # NoCode /\ j.code # 0
  BY <1>3, ExitCodeFound DEF StatusOf
<1> QED BY <1>1, <1>2, <1>3

-----------------------------------------------------------------------------
(* When an answer names a quota wall.                                      *)

\* QuotaExact, of any answer.
Exact(j, st) == st.reason = "quota_exhausted" <=>
                    (j.payload.error = "quota" \/ j.stderr.exhausted)

\* agy's status word promotes, the relabelling of an old print timeout and the
\* sign-in flag leave a quota wall alone.
LEMMA VerdictExact ==
    ASSUME NEW j \in Jobs
    PROVE  Exact(j, AgysVerdict(j, Plain("failed", ClassifyAgyError(j.payload.error))))
<1> DEFINE reason == ClassifyAgyError(j.payload.error)
           st == Plain("failed", reason)
           a == ApplyAgyError(j, st)
           l == MarkLegacyPrintTimeout(j, a)
<1>1. reason \in {"quota_exhausted", "agy_error"}
      /\ (reason = "quota_exhausted" <=> j.payload.error = "quota")
  BY DEF ClassifyAgyError
<1> HIDE DEF reason
<1>2. st \in Answers /\ st.reason = reason
  BY <1>1, PlainFailure DEF WellNamed, Reasons
<1>3. a \in Answers /\ Exact(j, a)
  <2>1. j.stderr.retry \in {"unsaid", "yes", "no"}
    BY DEF Jobs, Stderrs
  <2> HIDE DEF st
  <2> QED BY <1>1, <1>2, <2>1 DEF ApplyAgyError, Exact, Answers, Reasons
<1>4. l \in Answers /\ Exact(j, l)
  <2> HIDE DEF a
  <2> QED BY <1>3 DEF MarkLegacyPrintTimeout, Exact, Answers, Reasons
<1>5. Exact(j, MarkSignInRequired(j, l))
  <2> HIDE DEF l
  <2> QED BY <1>4 DEF MarkSignInRequired, Exact, Answers
<1> QED BY <1>5 DEF AgysVerdict, reason

\* An error payload is told so on a clean exit, after a crash, and without an
\* exit code.
LEMMA StatusExact ==
    ASSUME NEW j \in Jobs, j.payload.status = "ERROR", j.payload.error # "",
           j.code \notin {ExitTimeout, ExitSpawnFail, ExitSIGINT, ExitSIGTERM}
    PROVE  Exact(j, StatusOf(j))
<1> DEFINE p == Plain("failed", ClassifyAgyError(j.payload.error))
           v == AgysVerdict(j, p)
           st == CarryText(j, v)
<1>1. HasPayload(j) /\ ~SchemaSuccessWithoutOutput(j)
  BY DEF HasPayload, SchemaSuccessWithoutOutput
<1>2. WellNamed(p) /\ p.state = "failed" /\ ~p.signin
  BY ClassifyIsReason, PlainFailure DEF Plain
<1>3. Exact(j, v) /\ ApplyResult(j) = st /\ Crashed(j) = v
  BY <1>1, VerdictExact DEF ApplyResult, Crashed
<1> HIDE DEF p
<1>4. WellNamed(v) /\ v.state = "failed"
  BY <1>2, VerdictKeeps
<1> HIDE DEF v
<1>5. WellNamed(st) /\ st.state = "failed" /\ Exact(j, st)
  BY <1>3, <1>4, CarryKeeps DEF Exact
<1>6. CASE j.code \in {0, NoCode}
  <2>1. StatusOf(j) = ApplyCleanExitNotices(j, ApplyResult(j))
    BY <1>1, <1>6 DEF StatusOf, StatusFromExitCode, RecoverInterrupted
  <2> HIDE DEF st
  <2>2. ApplyCleanExitNotices(j, st) = st
    BY <1>1, <1>5 DEF ApplyCleanExitNotices
  <2> QED BY <1>3, <1>5, <2>1, <2>2
<1>7. CASE j.code \notin {0, NoCode}
  <2>1. StatusOf(j) = st
    BY <1>3, <1>7 DEF StatusOf, StatusFromExitCode
  <2> QED BY <1>5, <2>1
<1> QED BY <1>6, <1>7

-----------------------------------------------------------------------------
(* The theorems.                                                           *)

\* An answer, once given, is what the directory is answered with.
Answered == job \in Jobs /\ (answer = Unread \/ answer = StatusOf(job))

\* What an answer is, in every state.
LEMMA AnsweredAlways == Spec => []Answered
<1>1. Init => Answered
  BY DEF Init, Answered
<1>2. Answered /\ [Status]_vars => Answered'
  BY DEF Answered, Status, vars
<1> QED BY <1>1, <1>2, PTL DEF Spec

\* A directory is always answered with a well-formed status: Status's doc lists
\* the states and reasons, and callers branch on them.
THEOREM OutcomeTypeOK == Spec => []TypeOK
<1>1. Answered => TypeOK
  BY StatusNamed DEF Answered, TypeOK, WellNamed
<1> QED BY <1>1, AnsweredAlways, PTL

\* State never disagrees with Status, for every exit code: the fast path of
\* status.go:803 and the full classification give one state.
THEOREM StateAgreement == Spec => []StateAgrees
<1>1. Answered => StateAgrees
  BY StatusNamed DEF Answered, StateAgrees
<1> QED BY <1>1, AnsweredAlways, PTL

\* A reason comes with, and only with, a failure, and agy's retry verdict and
\* the sign-in flag never stray from theirs.
THEOREM FailuresAreNamed == Spec => []FailureNamed
<1>1. Answered => FailureNamed
  BY StatusNamed DEF Answered, FailureNamed, WellNamed
<1> QED BY <1>1, AnsweredAlways, PTL

\* No text is called final but agy's authoritative result of a run it did not
\* end early, or the complete output of a directory of an older build.
THEOREM TextIsVouchedFor == Spec => []Vouched
<1>1. Answered => Vouched
  BY StatusVouches DEF Answered, Vouched, VouchedFor, Final
<1> QED BY <1>1, AnsweredAlways, PTL

\* However a run ended, what can be recovered of its text is handed back.
THEOREM TextIsFound == Spec => []NoTextLost
<1>1. Answered => NoTextLost
  BY StatusFinds DEF Answered, NoTextLost, Found
<1> QED BY <1>1, AnsweredAlways, PTL

\* A quota wall agy reports is named as one, and nothing else is, when the run
\* did not end in a timeout, a failed spawn or a cancel.
THEOREM QuotaWallsAreExact == Spec => []QuotaExact
<1>1. Answered => QuotaExact
  BY StatusExact DEF Answered, QuotaExact, Exact
<1> QED BY <1>1, AnsweredAlways, PTL

\* The tools' advice fits every answer the manager can give.
THEOREM AdviceAlwaysFits == Spec => []AdviceFits
<1>1. ASSUME NEW st, WellNamed(st), NEW id \in BOOLEAN
      PROVE  LET advice == Recovery(st, id)
             IN /\ advice # "" => st.text = "none" /\ st.state # "done"
                /\ advice \in {"continue", "wait, continue"} =>
                     st.retry # "no" /\ st.reason # "background_aborted" /\ ~st.signin
                /\ id /\ st.text = "none" /\ st.state # "done"
                   /\ st.reason # "background_aborted" => advice # ""
  BY <1>1 DEF Recovery, WellNamed, Answers
<1>2. Answered => AdviceFits
  BY <1>1, StatusNamed DEF Answered, AdviceFits
<1> QED BY <1>2, AnsweredAlways, PTL

-----------------------------------------------------------------------------
(* The stream.                                                             *)

\* What the code writes to the out file: the texts of the lines that have some.
Written == {l.event.step.delta : l \in {k \in Lines : Delta(k.event) # <<>>}}

\* The variables the reading depends on, and their shape.
Shapes ==
    /\ stream \in Seq(Lines) /\ ended \in {"open", "EOF", "torn"} /\ cut \in BOOLEAN
    /\ rest \in Nat /\ buf \in Nat /\ over \in BOOLEAN
    /\ at \in {"read", "next", "consume", "persist", "over"}
    /\ line \in [got : Nat, truncated : BOOLEAN, err : {"nil", "EOF", "torn"}]
    /\ malformed \in Nat /\ out \in Seq(Written) /\ faults \in Nat

\* The bytes of the last line, its terminator included, and those taken so far.
LastLine == stream[Len(stream)]
Bytes == IF cut THEN LastLine.len ELSE LastLine.len + 1
Taken == Bytes - rest

\* Within a line, the buffer is what was taken of it, up to the cap.
Within ==
    /\ at = "read" /\ stream # <<>>
    /\ Taken \in 0..LastLine.len
    /\ buf = (IF Taken > Cap THEN Cap ELSE Taken)
    /\ (over <=> Taken > Cap)
Between == rest = 0 /\ buf = 0 /\ ~over

\* What readLine returned tells the line's length, up to the cap.
Returned ==
    /\ line.got > 0 => /\ stream # <<>>
                       /\ line.got = (IF LastLine.len > Cap THEN Cap ELSE LastLine.len)
                       /\ (line.truncated <=> LastLine.len > Cap)
    /\ line.got = 0 => ~line.truncated

Reading ==
    /\ Within \/ Between
    /\ cut => ended # "open"
    /\ at = "next" => Returned
    /\ at = "consume" => stream # <<>> /\ Usable(LastLine)
    /\ line.got <= Cap

\* What was mirrored is what a reader of whole lines would have mirrored.
Mirrored ==
    /\ OfLast(Results, ResultOf, Nil, result)
    /\ OfLast(Named, ConversationIDOf, "", prog.conv)
    /\ OfLast(Steps, StepOf, NoStep, prog.step)
    /\ faults = 0 => InOrder /\ file = prog
Counted == malformed = Cardinality(Skipped)
Recorded ==
    at = "over" => /\ malformed > 0 => record.note # "none"
                   /\ result.has => record.result = result \/ record.note = "unwritten"

StreamInv == Shapes /\ Reading /\ Mirrored /\ Counted /\ Recorded

\* The sets of lines are finite.
LEMMA LinesFinite ==
    ASSUME Shapes
    PROVE  /\ Len(stream) \in Nat
           /\ IsFiniteSet(Done) /\ IsFiniteSet(Events) /\ IsFiniteSet(Skipped) /\ IsFiniteSet(Texts)
<1>1. Len(stream) \in Nat
  BY DEF Shapes
<1>2. IsFiniteSet(1..Len(stream)) /\ IsFiniteSet(1..(Len(stream) - 1))
  BY <1>1, FS_Interval
<1>3. IsFiniteSet(Done)
  BY <1>2 DEF Done
<1>4. Events \subseteq Done /\ Skipped \subseteq Done /\ Texts \subseteq Done
  BY DEF Events, Skipped, Texts
<1> QED BY <1>1, <1>3, <1>4, FS_Subset

\* While no further usable line is done, the mirror stays right as it is.
LEMMA MirrorStays ==
    ASSUME Mirrored, UNCHANGED mirror, faults' = 0 => faults = 0,
           Events' = Events, \A i \in Events : stream'[i] = stream[i]
    PROVE  Mirrored'
<1>1. Results' = Results /\ Named' = Named /\ Steps' = Steps /\ Texts' = Texts
  BY DEF Results, Named, Steps, Texts
<1>2. Results \subseteq Events /\ Named \subseteq Events /\ Steps \subseteq Events /\ Texts \subseteq Events
  BY DEF Results, Named, Steps, Texts
<1>3. result' = result /\ prog' = prog /\ out' = out /\ file' = file
  BY DEF mirror
<1>4. OfLast(Results, ResultOf, Nil, result)'
  BY <1>1, <1>2, <1>3 DEF Mirrored, OfLast
<1>5. OfLast(Named, ConversationIDOf, "", prog.conv)'
  BY <1>1, <1>2, <1>3 DEF Mirrored, OfLast
<1>6. OfLast(Steps, StepOf, NoStep, prog.step)'
  BY <1>1, <1>2, <1>3 DEF Mirrored, OfLast
<1>7. ASSUME faults' = 0 PROVE InOrder' /\ file' = prog'
  <2>1. InOrder /\ file = prog
    BY <1>7 DEF Mirrored
  <2>2. (Len(out) = Cardinality(Texts))'
    BY <2>1, <1>1, <1>3 DEF InOrder
  <2>3. ASSUME NEW i \in Texts'
        PROVE  (Delta(stream[i].event) = <<out[Nth(i)]>>)'
    <3>1. i \in Texts /\ stream'[i] = stream[i]
      BY <1>1, <1>2
    <3>2. Nth(i)' = Nth(i)
      BY <1>1 DEF Nth
    <3>3. Delta(stream[i].event) = <<out[Nth(i)]>>
      BY <2>1, <3>1 DEF InOrder
    <3>4. Delta(stream'[i].event) = <<out'[Nth(i)']>>
      BY <3>1, <3>2, <3>3, <1>3
    <3> QED BY <3>4
  <2>4. InOrder'
    BY <2>2, <2>3 DEF InOrder, Nth
  <2> QED BY <2>1, <2>4, <1>3
<1> QED BY <1>4, <1>5, <1>6, <1>7 DEF Mirrored

\* The same lines are done after a step.
LEMMA SameDone ==
    ASSUME Done' = Done, \A i \in Done : stream'[i] = stream[i]
    PROVE  /\ Events' = Events /\ Skipped' = Skipped
           /\ \A i \in Events : stream'[i] = stream[i]
BY DEF Events, Skipped

\* One more line is done, and it is not usable.
LEMMA OneMoreDone ==
    ASSUME NEW n, Done' = Done \cup {n}, UNCHANGED stream, ~Usable(stream[n])
    PROVE  /\ Events' = Events
           /\ \A i \in Events : stream'[i] = stream[i]
           /\ Unusable(stream[n]) => Skipped' = Skipped \cup {n}
           /\ ~Unusable(stream[n]) => Skipped' = Skipped
BY DEF Events, Skipped

\* While the last line is pending, the lines done are those before it.
LEMMA DoneBut ==
    ASSUME Shapes, Pending, stream # <<>>
    PROVE  /\ Done = 1..(Len(stream) - 1) /\ Len(stream) \in Nat \ {0}
           /\ Len(stream) \notin Done
           /\ 1..Len(stream) = Done \cup {Len(stream)}
           /\ LastLine \in Lines
BY DEF Done, Shapes, LastLine

\* An empty stream is mirrored by an empty directory.
LEMMA StreamStarts == StreamInit => StreamInv
<1> SUFFICES ASSUME StreamInit PROVE StreamInv
  OBVIOUS
<1>1. Shapes
  <2>1. line \in [got : Nat, truncated : BOOLEAN, err : {"nil", "EOF", "torn"}]
    BY DEF StreamInit
  <2>2. stream \in Seq(Lines) /\ out \in Seq(Written)
    BY DEF StreamInit
  <2> QED BY <2>1, <2>2 DEF StreamInit, Shapes
<1>2. Reading
  BY StreamAssumption DEF StreamInit, Reading, Between
<1>3. Done = {} /\ Events = {} /\ Skipped = {} /\ Texts = {}
  <2>1. Len(stream) = 0 /\ ~Pending
    BY DEF StreamInit, Pending
  <2> QED BY <2>1 DEF Done, Events, Skipped, Texts
<1>4. Mirrored
  BY <1>3, FS_EmptySet DEF StreamInit, Mirrored, OfLast, Results, Named, Steps, NoProgress, InOrder
<1>5. Counted
  BY <1>3, FS_EmptySet DEF StreamInit, Counted
<1>6. Recorded
  BY DEF StreamInit, Recorded
<1> QED BY <1>1, <1>2, <1>4, <1>5, <1>6 DEF StreamInv


\* A line written joins those to be done.
LEMMA EmitStep == ASSUME StreamInv, Emit PROVE StreamInv'
<1>0. Shapes /\ Reading /\ Mirrored /\ Counted /\ Recorded
  BY DEF StreamInv
<1> PICK l \in Lines :
      /\ stream' = Append(stream, l)
      /\ \/ rest' = l.len + 1 /\ UNCHANGED <<ended, cut>>
         \/ l.len > 0 /\ rest' = l.len /\ cut' = TRUE /\ ended' \in {"EOF", "torn"}
  BY DEF Emit
<1>1. l.len \in Nat
  BY StreamAssumption
<1>2. /\ ended = "open" /\ at = "read" /\ rest = 0 /\ buf = 0 /\ at' = "read" /\ buf' = 0
      /\ UNCHANGED <<over, line, malformed, prog, result, out, file, record, faults>>
  BY DEF Emit, mirror
<1>3. Shapes'
  <2>1. stream' \in Seq(Lines)
    BY <1>0 DEF Shapes
  <2>2. rest' \in Nat /\ ended' \in {"open", "EOF", "torn"}
    BY <1>1, <1>2
  <2>3. cut' \in BOOLEAN
    BY <1>0 DEF Shapes
  <2> QED BY <2>1, <2>2, <2>3, <1>0, <1>2 DEF Shapes
<1>4. stream \in Seq(Lines) /\ Len(stream) \in Nat /\ Len(stream') = Len(stream) + 1
      /\ stream'[Len(stream')] = l /\ \A i \in 1..Len(stream) : stream'[i] = stream[i]
  BY <1>0 DEF Shapes
<1>5. ~cut /\ ~over
  BY <1>0, <1>2, StreamAssumption DEF Reading, Within, Between, Shapes
<1>6. Reading'
  <2>1. stream' # <<>> /\ LastLine' = l
    BY <1>3, <1>4 DEF LastLine, Shapes
  <2>2. Bytes' - rest' = 0 /\ Taken' = 0
    BY <2>1, <1>1, <1>5 DEF Bytes, Taken
  <2>3. Within'
    BY <2>1, <2>2, <1>1, <1>2, <1>5, StreamAssumption DEF Within
  <2> QED BY <2>3, <1>0, <1>2, <1>5 DEF Reading
<1>7. ~Pending /\ Pending'
  BY <1>1, <1>2 DEF Pending
<1>8. Done' = Done /\ Done = 1..Len(stream)
  BY <1>4, <1>7 DEF Done
<1>9. Mirrored' /\ Counted'
  BY <1>0, <1>2, <1>4, <1>8, SameDone, MirrorStays DEF Counted, mirror
<1> QED BY <1>3, <1>6, <1>9, <1>2 DEF StreamInv, Recorded

\* The end of the pipe finishes no line by itself.
LEMMA CloseStep == ASSUME StreamInv, Close PROVE StreamInv'
<1>0. Shapes /\ Reading /\ Mirrored /\ Counted /\ Recorded
  BY DEF StreamInv
<1>1. /\ ended' \in {"EOF", "torn"}
      /\ UNCHANGED <<stream, cut, rest, buf, over, at, line, malformed, record, faults>>
      /\ UNCHANGED <<prog, result, out, file>>
  BY DEF Close, mirror
<1>2. Shapes' /\ Recorded'
  BY <1>0, <1>1 DEF Shapes, Recorded
<1>3. Reading'
  BY <1>0, <1>1 DEF Reading, Within, Between, Returned, Taken, Bytes, LastLine
<1>4. Done' = Done
  BY <1>1 DEF Done, Pending
<1>5. Mirrored' /\ Counted'
  BY <1>0, <1>1, <1>4, SameDone, MirrorStays DEF Counted, mirror
<1> QED BY <1>2, <1>3, <1>5 DEF StreamInv

\* One read of bufio: the buffer keeps what was taken, up to the cap, and a line
\* that ends was returned whole or marked as truncated.
LEMMA ReadSliceStep == ASSUME StreamInv, ReadSlice PROVE StreamInv'
<1>0. Shapes /\ Reading /\ Mirrored /\ Counted /\ Recorded
  BY DEF StreamInv
<1> DEFINE kept == IF Payload > Room THEN Cap ELSE buf + Payload
           truncated == over \/ Payload > Room
<1>1. /\ at = "read" /\ (rest > 0 \/ ended # "open") /\ rest' = rest - Slice
      /\ UNCHANGED <<stream, ended, cut, malformed, record, faults>>
      /\ UNCHANGED <<prog, result, out, file>>
      /\ IF More THEN buf' = kept /\ over' = truncated /\ UNCHANGED <<at, line>>
                 ELSE EndLine(kept, truncated)
  BY DEF ReadSlice, mirror
<1>2. /\ rest \in Nat /\ buf \in Nat /\ over \in BOOLEAN /\ cut \in BOOLEAN
      /\ Chunk \in Nat \ {0} /\ Cap \in Nat \ {0}
      /\ stream # <<>> => LastLine \in Lines /\ LastLine.len \in Nat
  BY <1>0, StreamAssumption DEF Shapes, LastLine
<1>3. /\ rest' \in Nat /\ Payload \in Nat /\ kept \in Nat /\ truncated \in BOOLEAN
  <2>1. Slice \in Nat /\ Slice <= rest /\ Payload \in Nat
    BY <1>2 DEF Slice, Payload, Terminated
  <2> QED BY <2>1, <1>1, <1>2 DEF Room
<1>4. Shapes'
  <2>1. CASE More
    BY <2>1, <1>0, <1>1, <1>3 DEF Shapes
  <2>2. CASE ~More
    <3>1. ~Terminated => ended \in {"EOF", "torn"}
      BY <2>2, <1>0, <1>1, <1>2 DEF More, Terminated, Shapes, Reading
    <3>2. (IF Terminated THEN "nil" ELSE ended) \in {"nil", "EOF", "torn"}
      BY <3>1
    <3>3. line' = [got |-> kept, truncated |-> truncated,
                   err |-> IF Terminated THEN "nil" ELSE ended]
          /\ at' = "next" /\ buf' = 0 /\ over' = FALSE
      BY <2>2, <1>1 DEF EndLine
    <3> HIDE DEF kept, truncated
    <3>4. line' \in [got : Nat, truncated : BOOLEAN, err : {"nil", "EOF", "torn"}]
      BY <3>2, <3>3, <1>3
    <3> QED BY <3>3, <3>4, <1>0, <1>1, <1>3 DEF Shapes
  <2> QED BY <2>1, <2>2
<1>5. LastLine' = LastLine /\ Bytes' = Bytes
  BY <1>1 DEF LastLine, Bytes
<1>6. CASE Within
  <2>1. /\ stream # <<>> /\ Taken \in 0..LastLine.len /\ LastLine \in Lines /\ LastLine.len \in Nat
        /\ buf = (IF Taken > Cap THEN Cap ELSE Taken) /\ (over <=> Taken > Cap)
        /\ rest = Bytes - Taken /\ Taken \in Int
        /\ Bytes = (IF cut THEN LastLine.len ELSE LastLine.len + 1)
    BY <1>6, <1>2 DEF Within, Taken, Bytes
  <2>2. CASE More
    <3>1. Payload = Slice /\ rest' = rest - Slice /\ Slice \in Nat /\ Slice > 0 /\ Taken + Slice <= LastLine.len
      BY <2>1, <2>2, <1>1, <1>2 DEF Payload, Terminated, Slice, More
    <3>2. Taken' = Taken + Slice
      BY <3>1, <2>1, <1>5, <1>2 DEF Taken
    <3>3. buf' = (IF Taken' > Cap THEN Cap ELSE Taken') /\ (over' <=> Taken' > Cap)
      <4>1. Taken \in Nat /\ Slice \in Nat /\ Cap \in Nat /\ Taken' = Taken + Slice /\ Payload = Slice
            /\ buf = (IF Taken > Cap THEN Cap ELSE Taken) /\ (over <=> Taken > Cap) /\ Room = Cap - buf
        BY <3>1, <3>2, <2>1, <1>2 DEF Room
      <4>2. kept = (IF Taken' > Cap THEN Cap ELSE Taken')
        BY <4>1, <3>1
      <4>3. truncated <=> Taken' > Cap
        BY <4>1, <3>1
      <4> QED BY <4>2, <4>3, <2>2, <1>1
    <3>4. Within'
      BY <3>1, <3>2, <3>3, <2>1, <2>2, <1>1, <1>2, <1>5 DEF Within
    <3>5. Reading'
      BY <3>4, <2>2, <1>0, <1>1 DEF Reading
    <3>6. Pending /\ Pending'
      <4>1. rest > 0 \/ buf > 0
        BY <2>1, <2>2, <1>2 DEF More
      <4>2. Taken' > 0 /\ buf' > 0
        BY <3>1, <3>2, <3>3, <2>1, <1>2
      <4> QED BY <4>1, <4>2 DEF Pending
    <3>7. Done' = Done
      BY <3>6, <1>1 DEF Done
    <3> QED BY <3>5, <3>7, <2>2, <1>0, <1>1, <1>4, SameDone, MirrorStays
            DEF StreamInv, Counted, Recorded, mirror
  <2>3. CASE ~More
    <3>1. Taken + Payload = LastLine.len /\ rest' = 0
      <4>1. rest <= Chunk /\ (rest = Chunk => ~cut) /\ Slice = rest
        BY <2>3, <1>2 DEF More, Slice
      <4>2. rest' = 0
        BY <4>1, <1>1, <1>2
      <4>3. Payload = IF rest > 0 /\ ~cut THEN rest - 1 ELSE rest
        BY <4>1, <1>2 DEF Payload, Terminated
      <4>4. ~cut => rest > 0
        BY <2>1
      <4> QED BY <4>2, <4>3, <4>4, <2>1, <1>2
    <3>2. kept = (IF LastLine.len > Cap THEN Cap ELSE LastLine.len) /\ (truncated <=> LastLine.len > Cap)
      BY <3>1, <2>1, <1>2, <1>3 DEF Room
    <3>3. line'.got = kept /\ line'.truncated = truncated /\ at' = "next" /\ buf' = 0 /\ over' = FALSE
      BY <2>3, <1>1 DEF EndLine
    <3> HIDE DEF kept, truncated
    <3>4. Returned'
      BY <3>2, <3>3, <2>1, <1>1, <1>2, <1>5 DEF Returned
    <3>5. line'.got <= Cap
      BY <3>2, <3>3, <2>1, <1>2
    <3>6. Reading'
      BY <3>1, <3>3, <3>4, <3>5, <1>0, <1>1 DEF Reading, Between
    <3>7. rest > 0 \/ buf > 0 \/ LastLine.len = 0
      BY <2>1, <1>2
    <3>8. CASE LastLine.len > 0
      <4>1. Pending /\ Pending'
        BY <3>1, <3>2, <3>3, <3>7, <3>8, <2>1, <1>2 DEF Pending
      <4>2. Done' = Done
        BY <4>1, <1>1 DEF Done
      <4> QED BY <4>2, <3>6, <3>3, <1>0, <1>1, <1>4, SameDone, MirrorStays
              DEF StreamInv, Counted, Recorded, mirror
    <3>9. CASE LastLine.len = 0
      <4>1. ~Pending' /\ Len(stream) \in Nat \ {0}
        BY <3>1, <3>2, <3>3, <3>9, <2>1, <1>0, <1>2 DEF Pending, Shapes
      <4>2. ~Usable(LastLine) /\ ~Unusable(LastLine)
        BY <3>9, <2>1, <1>2, StreamAssumption DEF Usable, Unusable
      <4>3. Done' = 1..Len(stream)
        BY <4>1, <1>1 DEF Done
      <4>4. Done' = Done \/ Done' = Done \cup {Len(stream)}
        BY <4>1, <4>3 DEF Done
      <4>5. Events' = Events /\ Skipped' = Skipped /\ \A i \in Events : stream'[i] = stream[i]
        BY <4>2, <4>4, <1>1, SameDone, OneMoreDone DEF LastLine
      <4> QED BY <4>5, <3>6, <3>3, <1>0, <1>1, <1>4, MirrorStays
              DEF StreamInv, Counted, Recorded, mirror
    <3> QED BY <3>8, <3>9, <2>1
  <2> QED BY <2>2, <2>3
<1>7. CASE ~Within
  <2>1. rest = 0 /\ buf = 0 /\ ~over /\ ended # "open"
    BY <1>7, <1>0, <1>1 DEF Reading, Between
  <2>2. ~More /\ ~Terminated /\ Slice = 0 /\ Payload = 0 /\ rest' = 0
    <3>1. Slice = 0 /\ ~Terminated /\ ~More
      BY <2>1, <1>2 DEF More, Terminated, Slice
    <3> QED BY <3>1, <2>1, <1>1, <1>2 DEF Payload
  <2>5. ~(Payload > Room)
    BY <2>1, <2>2, <1>2 DEF Room
  <2>6. kept = 0 /\ ~truncated
    BY <2>1, <2>2, <2>5
  <2>3. line'.got = 0 /\ ~line'.truncated /\ at' = "next" /\ buf' = 0 /\ over' = FALSE
    <3> HIDE DEF kept, truncated
    <3> QED BY <2>2, <2>6, <1>1 DEF EndLine
  <2>4. Reading'
    BY <2>2, <2>3, <1>0, <1>1, <1>2 DEF Reading, Between, Returned
  <2>7. ~Pending /\ ~Pending'
    BY <2>1, <2>2, <2>3, <1>1 DEF Pending
  <2>8. Done' = Done
    BY <2>7, <1>1 DEF Done
  <2> QED BY <2>8, <2>4, <2>3, <1>0, <1>1, <1>4, SameDone, MirrorStays
          DEF StreamInv, Counted, Recorded, mirror
<1> QED BY <1>6, <1>7

\* A line that yields no event is passed over, and counted unless it is blank.
LEMMA NextEventStep == ASSUME StreamInv, NextEvent PROVE StreamInv'
<1>0. Shapes /\ Reading /\ Mirrored /\ Counted /\ Recorded
  BY DEF StreamInv
<1>1. /\ at = "next" /\ (SkipBlank \/ SkipMalformed \/ Return)
      /\ UNCHANGED <<stream, ended, cut, rest, buf, over, line, record, faults>>
      /\ UNCHANGED <<prog, result, out, file>>
  BY DEF NextEvent, mirror
<1>2. /\ rest = 0 /\ buf = 0 /\ ~over /\ Returned
      /\ line.got \in Nat /\ line.truncated \in BOOLEAN
      /\ at' \in {"read", "persist", "consume"} /\ malformed' \in Nat
  BY <1>0, <1>1 DEF Reading, Within, Between, Shapes, SkipBlank, SkipMalformed, Return, Skip
<1>3. Shapes'
  BY <1>0, <1>1, <1>2 DEF Shapes
<1>4. /\ Chunk \in Nat \ {0} /\ Cap \in Nat \ {0} /\ Len(stream) \in Nat
      /\ stream # <<>> => LastLine \in Lines /\ LastLine.len \in Nat
      /\ stream # <<>> => Current = LastLine
  BY <1>0, StreamAssumption DEF Shapes, LastLine, Current
<1>5. (Between /\ (cut => ended # "open") /\ line.got <= Cap)' /\ Recorded'
  BY <1>0, <1>1, <1>2 DEF Reading, Between, Recorded
<1>6. CASE Return
  <2>1. line.got > 0 /\ ~line.truncated /\ Read = "event" /\ at' = "consume" /\ malformed' = malformed
    BY <1>6, <1>2 DEF Return, Read
  <2>2. stream # <<>> /\ LastLine.len <= Cap /\ line.got = LastLine.len /\ LastLine.is = "event"
    BY <2>1, <1>2, <1>4 DEF Returned, Read
  <2>3. Reading'
    BY <2>1, <2>2, <1>1, <1>5 DEF Reading, Usable, LastLine
  <2>4. Pending /\ Pending'
    BY <2>1, <1>1 DEF Pending
  <2>5. Done' = Done
    BY <2>4, <1>1 DEF Done
  <2> QED BY <2>1, <2>3, <2>5, <1>0, <1>1, <1>3, <1>5, SameDone, MirrorStays DEF StreamInv, Counted, mirror
<1>7. CASE ~Return
  <2>1. at' \in {"read", "persist"} /\ ~Pending'
    BY <1>7, <1>1, <1>2 DEF SkipBlank, SkipMalformed, Skip, Pending
  <2>2. Reading'
    BY <2>1, <1>5 DEF Reading
  <2>3. CASE line.got = 0
    <3>1. SkipBlank /\ malformed' = malformed
      BY <2>3, <1>1, <1>2, <1>7 DEF SkipBlank, SkipMalformed, Returned, Read
    <3>2. ~Pending
      BY <2>3, <1>1, <1>2 DEF Pending
    <3>3. Done' = Done
      BY <2>1, <3>2, <1>1 DEF Done
    <3> QED BY <3>1, <3>3, <2>2, <1>0, <1>1, <1>3, <1>5, SameDone, MirrorStays DEF StreamInv, Counted, mirror
  <2>4. CASE line.got > 0
    <3>1. /\ stream # <<>> /\ line.got = (IF LastLine.len > Cap THEN Cap ELSE LastLine.len)
          /\ (line.truncated <=> LastLine.len > Cap) /\ Pending
      BY <2>4, <1>1, <1>2 DEF Returned, Pending
    <3>2. /\ Done = 1..(Len(stream) - 1) /\ Len(stream) \notin Done
          /\ Done' = Done \cup {Len(stream)}
      BY <3>1, <2>1, <1>0, <1>1, <1>4, DoneBut DEF Done
    <3>3. stream[Len(stream)] = LastLine /\ UNCHANGED stream
      BY <1>1 DEF LastLine
    <3>4. CASE SkipBlank
      <4>1. ~line.truncated /\ LastLine.is = "blank" /\ LastLine.len <= Cap
        BY <3>1, <3>4, <2>4, <1>4 DEF SkipBlank, Read
      <4>2. ~Usable(LastLine) /\ ~Unusable(LastLine)
        BY <4>1, <1>4, <3>1 DEF Usable, Unusable
      <4>3. Mirrored' /\ Skipped' = Skipped
        BY <4>2, <3>2, <3>3, <1>0, <1>1, OneMoreDone, MirrorStays DEF mirror
      <4> QED BY <4>3, <3>4, <2>2, <1>0, <1>3, <1>5 DEF StreamInv, Counted, SkipBlank
    <3>5. CASE SkipMalformed
      <4>1. Unusable(LastLine) /\ ~Usable(LastLine)
        BY <3>1, <3>5, <2>4, <1>4, StreamAssumption DEF SkipMalformed, Read, Usable, Unusable
      <4>2. Mirrored' /\ Skipped' = Skipped \cup {Len(stream)}
        BY <4>1, <3>2, <3>3, <1>0, <1>1, OneMoreDone, MirrorStays DEF mirror
      <4>3. Len(stream) \notin Skipped /\ IsFiniteSet(Skipped)
        BY <3>2, <1>0, LinesFinite DEF Skipped
      <4>4. Cardinality(Skipped') = Cardinality(Skipped) + 1
        BY <4>2, <4>3, FS_AddElement
      <4> QED BY <4>2, <4>4, <3>5, <2>2, <1>0, <1>3, <1>5 DEF StreamInv, Counted, SkipMalformed
    <3> QED BY <3>4, <3>5, <1>1, <1>7
  <2> QED BY <2>3, <2>4, <1>2
<1> QED BY <1>6, <1>7

\* Recording the outcome changes nothing that was mirrored.
LEMMA PersistStep == ASSUME StreamInv, Persist PROVE StreamInv'
<1>0. Shapes /\ Reading /\ Mirrored /\ Counted /\ Recorded
  BY DEF StreamInv
<1>1. /\ at = "persist" /\ at' = "over"
      /\ UNCHANGED <<stream, ended, cut, rest, buf, over, line, malformed>>
      /\ UNCHANGED <<prog, result, out, file>>
      /\ faults' \in Nat /\ (faults' = 0 => faults = 0)
  BY <1>0 DEF Persist, reader, mirror, Failing, Shapes
<1>2. Recorded'
  BY <1>1 DEF Recorded, Persist
<1>3. Shapes' /\ Reading'
  BY <1>0, <1>1 DEF Shapes, Reading, Within, Between
<1>4. Done' = Done
  BY <1>1 DEF Done, Pending
<1> QED BY <1>0, <1>1, <1>2, <1>3, <1>4, SameDone, MirrorStays DEF StreamInv, Counted, mirror

\* An event consumed is the newest of the lines done, and what it says is mirrored.
LEMMA ConsumeStep == ASSUME StreamInv, Consume PROVE StreamInv'
<1>0. Shapes /\ Reading /\ Mirrored /\ Counted /\ Recorded
  BY DEF StreamInv
<1> DEFINE n == Len(stream)
           e == stream[n].event
<1>1. /\ at = "consume" /\ at' = "read"
      /\ UNCHANGED <<stream, ended, cut, rest, buf, over, line, malformed, record>>
  BY DEF Consume, reader
<1>2. stream # <<>> /\ Usable(LastLine) /\ Between /\ Pending /\ ~Pending' /\ ~Unusable(LastLine)
  <2>1. stream # <<>> /\ Usable(LastLine) /\ Between
    BY <1>0, <1>1 DEF Reading, Within
  <2>2. Pending /\ ~Pending'
    BY <2>1, <1>1 DEF Pending, Between
  <2>3. LastLine \in Lines
    BY <2>1, <1>0 DEF LastLine, Shapes
  <2>4. ~Unusable(LastLine)
    BY <2>1, <2>3, StreamAssumption DEF Usable, Unusable
  <2> QED BY <2>1, <2>2, <2>4
<1>3. Current = LastLine /\ LastLine = stream[n] /\ e = LastLine.event
  BY <1>2 DEF Current, LastLine
<1>4. PICK lost \in BOOLEAN, stale \in BOOLEAN :
      /\ prog' = Moved(prog, e)
      /\ result' = IF ResultOf(e).has THEN ResultOf(e) ELSE result
      /\ lost => Delta(e) # <<>>
      /\ Failing((IF lost THEN 1 ELSE 0) + (IF stale THEN 1 ELSE 0))
      /\ out' = IF lost THEN out ELSE out \o Delta(e)
      /\ file' = IF stale \/ prog' = prog THEN file ELSE prog'
  BY <1>3 DEF Consume
<1>5. faults' \in Nat /\ (faults' = 0 => faults = 0 /\ ~lost /\ ~stale)
  <2>1. faults \in Nat /\ faults' = faults + ((IF lost THEN 1 ELSE 0) + (IF stale THEN 1 ELSE 0))
    BY <1>0, <1>4 DEF Failing, Shapes
  <2> QED BY <2>1
<1>6. /\ n \in Nat \ {0} /\ Done = 1..(n - 1) /\ n \notin Done
      /\ Done' = Done \cup {n} /\ LastLine \in Lines
  <2>1. /\ Done = 1..(n - 1) /\ n \in Nat \ {0} /\ n \notin Done
        /\ 1..n = Done \cup {n} /\ LastLine \in Lines
    BY <1>0, <1>2, DoneBut
  <2>2. Done' = 1..n
    BY <1>1, <1>2 DEF Done
  <2> QED BY <2>1, <2>2
<1>7. \/ Delta(e) = <<>>
      \/ Delta(e) = <<e.step.delta>> /\ e.step.delta \in Written
  <2>1. CASE Delta(e) = <<>>
    BY <2>1
  <2>2. CASE Delta(e) # <<>>
    BY <2>2, <1>3, <1>6 DEF Delta, Written
  <2> QED BY <2>1, <2>2
<1> HIDE DEF n, e
<1>8. Shapes'
  <2>1. out \o Delta(e) \in Seq(Written)
    <3>1. out \in Seq(Written)
      BY <1>0 DEF Shapes
    <3>2. Delta(e) \in Seq(Written)
      <4>1. CASE Delta(e) = <<>>
        BY <4>1
      <4>2. CASE Delta(e) = <<e.step.delta>> /\ e.step.delta \in Written
        <5>1. ASSUME NEW d \in Written PROVE <<d>> \in Seq(Written)
          OBVIOUS
        <5> QED BY <4>2, <5>1
      <4> QED BY <1>7, <4>1, <4>2
    <3> QED BY <3>1, <3>2
  <2> QED BY <2>1, <1>0, <1>1, <1>4, <1>5 DEF Shapes
<1>9. Reading'
  BY <1>0, <1>1, <1>2 DEF Reading, Between
<1>10. Events' = Events \cup {n} /\ Skipped' = Skipped /\ \A i \in Events : i < n
  BY <1>1, <1>2, <1>3, <1>6 DEF Events, Skipped
<1>11. Counted' /\ Recorded'
  BY <1>0, <1>1, <1>10 DEF Counted, Recorded
<1>12. stream' = stream /\ stream[n].event = e
  BY <1>1 DEF e
<1>13. OfLast(Results, ResultOf, Nil, result)'
  <2>1. OfLast(Results, ResultOf, Nil, result) /\ n \in Nat
    BY <1>0, <1>6 DEF Mirrored
  <2>2. CASE ResultOf(e).has
    <3>1. Results' = Results \cup {n} /\ \A i \in Results : i <= n
      BY <2>2, <1>6, <1>10, <1>12 DEF Results, Events
    <3>2. result' = ResultOf(e)
      BY <2>2, <1>4
    <3> QED BY <2>1, <3>1, <3>2, <1>12 DEF OfLast
  <2>3. CASE ~ResultOf(e).has
    <3>1. Results' = Results /\ result' = result
      BY <2>3, <1>4, <1>10, <1>12 DEF Results
    <3> QED BY <2>1, <3>1, <1>12 DEF OfLast
  <2> QED BY <2>2, <2>3
<1>14. OfLast(Named, ConversationIDOf, "", prog.conv)'
  <2>1. OfLast(Named, ConversationIDOf, "", prog.conv) /\ n \in Nat
        /\ prog'.conv = IF ConversationIDOf(e) # "" THEN ConversationIDOf(e) ELSE prog.conv
    BY <1>0, <1>4, <1>6 DEF Mirrored, Moved
  <2>2. CASE ConversationIDOf(e) # ""
    <3>1. Named' = Named \cup {n}
      BY <2>2, <1>10, <1>12 DEF Named
    <3>2. \A i \in Named' : i <= n
      <4>1. \A i \in Events' : i <= n
        BY <1>6, <1>10 DEF Events
      <4>2. Named' \subseteq Events'
        BY DEF Named
      <4> QED BY <4>1, <4>2
    <3>3. n \in Named' /\ prog'.conv = ConversationIDOf(stream'[n].event)
      BY <2>1, <2>2, <3>1, <1>12
    <3> QED BY <3>2, <3>3 DEF OfLast
  <2>3. CASE ConversationIDOf(e) = ""
    <3>1. Named' = Named
      BY <2>3, <1>10, <1>12 DEF Named
    <3> QED BY <2>1, <2>3, <3>1, <1>12 DEF OfLast
  <2> QED BY <2>2, <2>3
<1>15. OfLast(Steps, StepOf, NoStep, prog.step)'
  <2>1. OfLast(Steps, StepOf, NoStep, prog.step) /\ n \in Nat
        /\ prog'.step = IF IsStep(e) THEN StepOf(e) ELSE prog.step
    BY <1>0, <1>4, <1>6 DEF Mirrored, Moved
  <2>2. CASE IsStep(e)
    <3>1. Steps' = Steps \cup {n} /\ \A i \in Steps : i <= n
      BY <2>2, <1>6, <1>10, <1>12 DEF Steps, Events
    <3> QED BY <2>1, <2>2, <3>1, <1>12 DEF OfLast
  <2>3. CASE ~IsStep(e)
    <3>1. Steps' = Steps
      BY <2>3, <1>10, <1>12 DEF Steps
    <3> QED BY <2>1, <2>3, <3>1, <1>12 DEF OfLast
  <2> QED BY <2>2, <2>3
<1>16. ASSUME faults' = 0 PROVE InOrder' /\ file' = prog'
  <2>1. InOrder /\ file = prog /\ out' = out \o Delta(e) /\ file' = prog'
    BY <1>0, <1>4, <1>5, <1>16 DEF Mirrored
  <2>2. CASE Delta(e) = <<>>
    <3>1. Texts' = Texts /\ out' = out
      BY <2>1, <2>2, <1>0, <1>10, <1>12 DEF Texts, Shapes
    <3>2. InOrder'
      BY <2>1, <3>1, <1>12 DEF InOrder, Nth
    <3> QED BY <2>1, <3>2
  <2>3. CASE Delta(e) # <<>>
    <3>1. Texts' = Texts \cup {n} /\ n \notin Texts /\ \A i \in Texts : i <= n
      BY <2>3, <1>6, <1>10, <1>12 DEF Texts, Events
    <3>2. IsFiniteSet(Texts)
      BY <1>0, LinesFinite
    <3>3. Cardinality(Texts') = Cardinality(Texts) + 1 /\ Cardinality(Texts) \in Nat
      BY <3>1, <3>2, FS_AddElement, FS_CardinalityType
    <3>4. Delta(e) = <<e.step.delta>> /\ out' = Append(out, e.step.delta) /\ out \in Seq(Written)
      BY <2>1, <2>3, <1>0, <1>7 DEF Shapes
    <3>5. Len(out) = Cardinality(Texts) /\ Len(out') = Cardinality(Texts')
      BY <2>1, <3>3, <3>4 DEF InOrder
    <3>6. ASSUME NEW i \in Texts'
          PROVE  (Delta(stream[i].event) = <<out[Nth(i)]>>)'
      <4>1. CASE i = n
        <5>1. {j \in Texts' : j <= i} = Texts'
          BY <4>1, <3>1, <1>6
        <5>2. Nth(i)' = Len(out')
          BY <5>1, <3>5 DEF Nth
        <5>3. out'[Len(out')] = e.step.delta
          BY <3>4
        <5> QED BY <5>2, <5>3, <4>1, <3>4, <1>12
      <4>2. CASE i # n
        <5>1. i \in Texts /\ i < n /\ i \in Nat
          BY <4>2, <3>1, <1>6, <1>10 DEF Texts, Events
        <5>2. {j \in Texts' : j <= i} = {j \in Texts : j <= i}
          BY <5>1, <3>1, <1>6
        <5>3. Nth(i)' = Nth(i)
          BY <5>2 DEF Nth
        <5>4. Nth(i) \in 1..Len(out)
          <6>1. i \in {j \in Texts : j <= i} /\ {j \in Texts : j <= i} \subseteq Texts
            BY <5>1
          <6>2. IsFiniteSet({j \in Texts : j <= i})
                /\ Cardinality({j \in Texts : j <= i}) <= Cardinality(Texts)
            BY <6>1, <3>2, FS_Subset
          <6>3. Cardinality({j \in Texts : j <= i}) \in Nat \ {0}
            BY <6>1, <6>2, FS_CardinalityType, FS_EmptySet
          <6> QED BY <6>2, <6>3, <3>3, <3>5 DEF Nth
        <5>5. out'[Nth(i)] = out[Nth(i)]
          BY <5>4, <3>4
        <5>6. Delta(stream[i].event) = <<out[Nth(i)]>>
          BY <5>1, <2>1 DEF InOrder
        <5>7. Delta(stream'[i].event) = <<out'[Nth(i)']>>
          BY <5>3, <5>5, <5>6, <1>12
        <5> QED BY <5>7
      <4> QED BY <4>1, <4>2
    <3>7. InOrder'
      BY <3>5, <3>6 DEF InOrder, Nth
    <3> QED BY <2>1, <3>7
  <2> QED BY <2>2, <2>3
<1>17. Mirrored'
  BY <1>13, <1>14, <1>15, <1>16 DEF Mirrored
<1> QED BY <1>8, <1>9, <1>11, <1>17 DEF StreamInv

\* The invariant is inductive.
LEMMA StreamStep == StreamInv /\ [StreamNext]_streamVars => StreamInv'
<1> SUFFICES ASSUME StreamInv, [StreamNext]_streamVars PROVE StreamInv'
  OBVIOUS
<1>1. CASE StreamNext
  BY <1>1, EmitStep, CloseStep, ReadSliceStep, NextEventStep, ConsumeStep, PersistStep DEF StreamNext
<1>2. CASE UNCHANGED streamVars
  <2>1. UNCHANGED <<stream, ended, cut, rest, buf, over, at, line, malformed>>
        /\ UNCHANGED <<prog, result, out, file>> /\ UNCHANGED <<record, faults>>
    BY <1>2 DEF streamVars
  <2>2. Shapes' /\ Recorded'
    BY <2>1 DEF StreamInv, Shapes, Recorded
  <2>3. Reading'
    BY <2>1 DEF StreamInv, Reading, Within, Between, Returned, Taken, Bytes, LastLine
  <2>4. Done' = Done
    BY <2>1 DEF Done, Pending
  <2> QED BY <2>1, <2>2, <2>3, <2>4, SameDone, MirrorStays DEF StreamInv, Counted, mirror
<1> QED BY <1>1, <1>2

\* The invariant gives the buffer its bound.
LEMMA FaithfulFromInv == StreamInv => StreamFaithful
<1> SUFFICES ASSUME StreamInv PROVE StreamFaithful
  OBVIOUS
<1>1. buf <= Cap
  BY StreamAssumption DEF StreamInv, Shapes, Reading, Within, Between
<1>2. line.got <= Cap
  BY DEF StreamInv, Reading
<1> QED BY <1>1, <1>2 DEF StreamInv, Mirrored, Counted, Recorded, StreamFaithful

\* StreamFaithful, for every stream, buffer size and cap: readLine, Next and
\* consumeStream lose no usable line, however it meets the buffer and the cap.
THEOREM StreamAlwaysFaithful == StreamSpec => []StreamFaithful
<1>1. StreamInit => StreamInv
  BY StreamStarts
<1>2. StreamInv /\ [StreamNext]_streamVars => StreamInv'
  BY StreamStep
<1>3. StreamInv => StreamFaithful
  BY FaithfulFromInv
<1> QED BY <1>1, <1>2, <1>3, PTL DEF StreamSpec
=============================================================================
