------------------------------ MODULE Outcome ------------------------------
(***************************************************************************)
(* What a finished job's directory is answered with: statusFromExitCode    *)
(* and recoverInterrupted of the manager, and the recovery advice of the   *)
(* tools.  A pure function of the exit code, agy's result payload, the     *)
(* streamed text and what agy's stderr says.                               *)
(*                                                                         *)
(* A message is its kind: what the quota, sign-in and print-timeout        *)
(* matchers tell apart.  A text is where it came from.                     *)
(***************************************************************************)
EXTENDS Integers

CONSTANTS
    Codes,      \* exit codes
    NoCode      \* no sentinel, and the supervisor is dead

ExitTimeout == 124
ExitSpawnFail == 127
ExitSIGINT == 130
ExitSIGTERM == 143

ASSUME CodesAreExits == Codes \subseteq Nat /\ NoCode \notin Nat

VARIABLES
    job,        \* what the directory holds
    answer      \* what Status made of it

vars == <<job, answer>>

Messages == {"", "other", "quota", "legacy", "signin"}

\* A result.json; "absent" and "corrupt" files have no payload.  A "blank"
\* response is one of newlines only, which are trimmed when it is handed back.
Payloads ==
    [status : {"ERROR", "SUCCESS", "", "new"}, response : {"none", "blank", "text"},
     structured : BOOLEAN, error : Messages]
    \cup [status : {"absent", "corrupt"}, response : {"none"}, structured : {FALSE}, error : {""}]

\* The stderr tail: its wording, the notices and the last AGY_ERROR line in it.
Stderrs ==
    [wording : {"other", "quota"}, aborted : BOOLEAN, expired : BOOLEAN, signin : BOOLEAN,
     retry : {"unsaid", "yes", "no"}, exhausted : BOOLEAN]
    \cup [wording : {"none"}, aborted : {FALSE}, expired : {FALSE}, signin : {FALSE},
          retry : {"unsaid"}, exhausted : {FALSE}]

\* schema: a json-schema run; streamed: not a legacy directory, as its args and
\* progress.json say; full: the run lasted its whole timeout.
Jobs ==
    [code : Codes \cup {NoCode}, payload : Payloads, out : {"none", "text", "unreadable"},
     stderr : Stderrs, schema : BOOLEAN, streamed : BOOLEAN, full : BOOLEAN]

Reasons == {"quota_exhausted", "timeout", "spawn_failed", "agy_error", "interrupted",
            "background_aborted", "unknown"}

Answers ==
    [state : {"done", "failed", "cancelled"}, reason : Reasons \cup {""},
     text : {"none", "structured", "response", "stream"}, partial : BOOLEAN,
     retry : {"unsaid", "yes", "no"}, signin : BOOLEAN]

Plain(state, reason) ==
    [state |-> state, reason |-> reason, text |-> "none", partial |-> FALSE,
     retry |-> "unsaid", signin |-> FALSE]

-----------------------------------------------------------------------------
(* The pieces.                                                             *)

HasPayload(j) == j.payload.status \notin {"absent", "corrupt"}

\* result.json existing at all shows that a stream was decoded.
StreamJSONRun(j) == j.streamed \/ j.payload.status # "absent"

SchemaSuccessWithoutOutput(j) ==
    j.schema /\ j.payload.status = "SUCCESS" /\ ~j.payload.structured

\* strings.TrimRight(res.Response, "\n").
Trimmed(j) == IF j.payload.response = "blank" THEN "none" ELSE "response"

\* Faulty variant: the payload's text counts as final whatever its status.
CarryVouched(j, st) ==
    IF j.schema /\ j.payload.status = "SUCCESS" /\ j.payload.structured
    THEN [st EXCEPT !.text = "structured"]
    ELSE IF j.payload.response # "none" THEN [st EXCEPT !.text = Trimmed(j)]
    ELSE IF j.out = "text" THEN [st EXCEPT !.text = "stream", !.partial = TRUE]
    ELSE st

\* Faulty variant: a run with a payload is never given its streamed text.
CarryPayloadOnly(j, st) ==
    IF j.payload.response # "none"
    THEN [st EXCEPT !.text = Trimmed(j),
                    !.partial = st.partial \/ j.payload.status # "SUCCESS" \/ j.schema]
    ELSE st

\* carryText: the authoritative result, then the payload's text, then the stream.
CarryText(j, st) ==
    IF j.schema /\ j.payload.status = "SUCCESS" /\ j.payload.structured
    THEN [st EXCEPT !.text = "structured"]
    ELSE IF j.payload.response # "none"
    THEN [st EXCEPT !.text = Trimmed(j),
                    !.partial = st.partial \/ j.payload.status # "SUCCESS" \/ j.schema]
    ELSE IF j.out = "text"
    THEN [st EXCEPT !.text = "stream", !.partial = TRUE]
    ELSE st

ClassifyAgyError(msg) == IF msg = "quota" THEN "quota_exhausted" ELSE "agy_error"

\* Faulty variant: agy's status word decides alone, and demotes.
DemoteQuota(j, st) ==
    [st EXCEPT !.retry = j.stderr.retry,
               !.reason = IF j.stderr.exhausted THEN "quota_exhausted" ELSE "agy_error"]

\* The AGY_ERROR line adds its verdict and can promote, never demote.
ApplyAgyError(j, st) ==
    [st EXCEPT !.retry = j.stderr.retry,
               !.reason = IF j.stderr.exhausted THEN "quota_exhausted" ELSE @]

MarkLegacyPrintTimeout(j, st) ==
    IF st.reason = "agy_error" /\ j.payload.status = "ERROR"
       /\ j.payload.error = "legacy" /\ j.full
    THEN [st EXCEPT !.reason = "timeout"]
    ELSE st

MarkSignInRequired(j, st) ==
    IF st.reason = "agy_error" /\ (j.payload.error = "signin" \/ j.stderr.signin)
    THEN [st EXCEPT !.signin = TRUE]
    ELSE st

\* The order in which both error paths ask them.
AgysVerdict(j, st) ==
    MarkSignInRequired(j, MarkLegacyPrintTimeout(j, ApplyAgyError(j, st)))

-----------------------------------------------------------------------------
(* The paths.                                                              *)

ApplyResult(j) ==
    LET p == j.payload
        verdict ==
          CASE p.status = "ERROR" -> AgysVerdict(j, Plain("failed", ClassifyAgyError(p.error)))
            [] p.status = "SUCCESS" /\ ~SchemaSuccessWithoutOutput(j) -> Plain("done", "")
            [] p.status = "" /\ p.response # "none" /\ ~j.schema -> Plain("done", "")
            [] OTHER -> Plain("failed", "agy_error")
    IN CarryText(j, verdict)

CleanExitWithoutPayload(j) ==
    LET st == CASE j.out = "unreadable" -> Plain("failed", "unknown")
                [] j.out # "unreadable" /\ j.schema -> Plain("failed", "agy_error")
                [] OTHER -> [Plain("done", "") EXCEPT !.partial = StreamJSONRun(j)]
    IN IF j.out # "text" THEN st
       ELSE [st EXCEPT !.text = "stream", !.partial = j.schema \/ StreamJSONRun(j)]

\* agy ended the run early although it vouched for it.
MarkBackgroundAborted(st) ==
    [st EXCEPT !.state = "failed", !.reason = "background_aborted", !.partial = TRUE]

MarkPrintTimeout(st) ==
    [st EXCEPT !.state = "failed", !.reason = "timeout", !.partial = (st.text # "none")]

\* A failure that has a more specific cause keeps it.
ApplyCleanExitNotices(j, st) ==
    LET vouched ==
          \/ st.state = "done"
          \/ SchemaSuccessWithoutOutput(j)
          \/ ~HasPayload(j) /\ j.schema /\ st.reason = "agy_error"
    IN CASE vouched /\ j.stderr.aborted -> MarkBackgroundAborted(st)
         [] vouched /\ ~j.stderr.aborted /\ j.stderr.expired -> MarkPrintTimeout(st)
         [] OTHER -> st

\* stateForCode.
StateForCode(c) ==
    CASE c = 0 -> "done"
      [] c \in {ExitSIGTERM, ExitSIGINT} -> "cancelled"
      [] OTHER -> "failed"

\* Any other exit code: agy's own message, or else its stderr, says why.
Crashed(j) ==
    LET msg == IF HasPayload(j) /\ j.payload.error # "" THEN j.payload.error ELSE j.stderr.wording
        st == Plain("failed", ClassifyAgyError(msg))
    IN IF HasPayload(j) /\ j.payload.status = "SUCCESS" THEN st ELSE AgysVerdict(j, st)

StatusFromExitCode(j) ==
    IF j.code = 0
    THEN ApplyCleanExitNotices(j, IF HasPayload(j) THEN ApplyResult(j)
                                  ELSE CleanExitWithoutPayload(j))
    ELSE LET st == CarryText(j,
               CASE j.code \in {ExitSIGTERM, ExitSIGINT} -> Plain("cancelled", "")
                 [] j.code = ExitTimeout -> Plain("failed", "timeout")
                 [] j.code = ExitSpawnFail -> Plain("failed", "spawn_failed")
                 [] OTHER -> Crashed(j))
         IN IF j.code = ExitTimeout /\ st.text # "none" /\ j.stderr.expired
            THEN [st EXCEPT !.partial = TRUE]
            ELSE st

\* No sentinel: the payload decides as on a clean exit, or else the stream.
RecoverInterrupted(j) ==
    CASE HasPayload(j) -> ApplyCleanExitNotices(j, ApplyResult(j))
      [] ~HasPayload(j) /\ j.out = "unreadable" -> Plain("failed", "unknown")
      [] ~HasPayload(j) /\ j.out = "text" ->
           [Plain("done", "") EXCEPT !.text = "stream", !.partial = TRUE]
      [] OTHER -> Plain("failed", "interrupted")

StatusOf(j) == IF j.code = NoCode THEN RecoverInterrupted(j) ELSE StatusFromExitCode(j)

\* Faulty variant: a clean exit is decided by its code, too.
StateFromCode(j) == IF j.code # NoCode THEN StateForCode(j.code) ELSE StatusOf(j).state

\* Manager.State, which agy_cancel reports.
StateOf(j) ==
    IF j.code \notin {0, NoCode} THEN StateForCode(j.code) ELSE StatusOf(j).state

\* Faulty variant: the continue hint is offered whenever there is a thread.
RecoveryAlways(st, id) ==
    IF st.reason = "quota_exhausted" /\ st.text = "none" THEN "wait"
    ELSE IF id /\ st.text = "none" THEN "continue" ELSE ""

\* toStatusOutput: what the caller of a run without text should do.
Recovery(st, id) ==
    CASE st.text # "none" -> ""
      [] st.text = "none" /\ st.reason = "quota_exhausted" ->
           IF st.retry = "no" \/ ~id THEN "wait" ELSE "wait, continue"
      [] st.text = "none" /\ st.reason # "quota_exhausted" /\ st.signin ->
           IF id THEN "sign in, continue" ELSE "sign in"
      [] st.text = "none" /\ id /\ ~st.signin /\ st.state \in {"failed", "cancelled"}
         /\ st.reason \notin {"quota_exhausted", "background_aborted"} ->
           IF st.retry = "no" THEN "fix" ELSE "continue"
      [] OTHER -> ""

-----------------------------------------------------------------------------
Unread == Plain("unread", "")

Init == job \in Jobs /\ answer = Unread

Status == answer = Unread /\ answer' = StatusOf(job) /\ UNCHANGED job

Spec == Init /\ [][Status]_vars

-----------------------------------------------------------------------------
(* Properties.                                                             *)

TypeOK == job \in Jobs /\ answer \in Answers \cup {Unread}

\* State, which skips most of the files, never disagrees with Status (State:
\* "Deferring here keeps State and Status from ever diverging").
StateAgrees == answer # Unread => StateOf(job) = answer.state

\* A text that is not called partial is agy's authoritative result of a run
\* that agy did not end early, or the complete output of a legacy directory.
Vouched ==
    answer # Unread /\ answer.text # "none" /\ ~answer.partial =>
        /\ \/ /\ job.payload.status = "SUCCESS"
              /\ answer.text = IF job.schema THEN "structured" ELSE "response"
           \/ job.payload.status = "absent" /\ ~job.streamed /\ ~job.schema /\ job.code = 0
        /\ job.code \in {0, NoCode} => ~job.stderr.aborted
        /\ job.code \in {0, NoCode, ExitTimeout} => ~job.stderr.expired

\* However the run ended, what can be recovered of its text is handed back, and
\* the authoritative result if there is one (Status.Result).  A blank response
\* is the exception: it hides the stream, and nothing is handed back.
NoTextLost ==
    LET final == job.payload.status = "SUCCESS" /\ job.schema /\ job.payload.structured
    IN answer # Unread =>
        /\ final => answer.text = "structured"
        /\ ~final /\ job.payload.response = "text" => answer.text = "response"
        /\ job.out = "text" /\ job.payload.response = "none" => answer.text # "none"

\* A reason is given with, and only with, a failure; a retry verdict only with
\* one, a sign-in flag only with an agy_error (Status's field comments).
FailureNamed ==
    answer # Unread =>
        /\ (answer.reason # "") <=> (answer.state = "failed")
        /\ answer.retry # "unsaid" => answer.state = "failed"
        /\ answer.signin => answer.reason = "agy_error"

\* A quota wall agy reports is never hidden by another verdict, nor claimed
\* without one: a caller is told to wait exactly if waiting can help.  A run that
\* ended in a timeout, a failed spawn or a cancel is reported as that and left out.
QuotaExact ==
    answer # Unread /\ job.payload.status = "ERROR" /\ job.payload.error # ""
    /\ job.code \notin {ExitTimeout, ExitSpawnFail, ExitSIGINT, ExitSIGTERM} =>
        (answer.reason = "quota_exhausted" <=>
            (job.payload.error = "quota" \/ job.stderr.exhausted))

\* Advice is only given where there is no text, never to continue a run that
\* would abort or fail the same way again, and always for a failed or cancelled
\* thread that can be continued (toStatusOutput).
AdviceFits ==
    answer # Unread => \A id \in BOOLEAN :
        LET advice == Recovery(answer, id)
        IN /\ advice # "" => answer.text = "none" /\ answer.state # "done"
           /\ advice \in {"continue", "wait, continue"} =>
                answer.retry # "no" /\ answer.reason # "background_aborted" /\ ~answer.signin
           /\ id /\ answer.text = "none" /\ answer.state # "done"
              /\ answer.reason # "background_aborted" => advice # ""
=============================================================================
