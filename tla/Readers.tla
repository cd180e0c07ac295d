------------------------------ MODULE Readers ------------------------------
(***************************************************************************)
(* The readers of one job's directory: Status, polled by agy_status,       *)
(* agy_wait and agy_run_sync (the tools), by wait-job and by hook-wait;    *)
(* AwaitConversationID; agy_cancel; and a garbage collection that removes  *)
(* the directory.  The supervisor is anything that keeps the contract of   *)
(* JobDir, which module Supervisor does.                                   *)
(*                                                                         *)
(* A reader looks at one file at a time and everybody else acts in         *)
(* between.  The job is on record with its PID.  A result.json is a        *)
(* SUCCESS with a response; what else it may say changes what an answer    *)
(* is called, not which files it comes from.                               *)
(***************************************************************************)
EXTENDS Integers

CONSTANTS
    Tools,      \* tool calls that return the job's status
    Hook,       \* the hook-wait process
    NoTool,     \* the hook was triggered by agy_run
    Ends,       \* bound: exit codes the supervisor writes
    Casts,      \* bound: the clients that act in one behaviour
    MaxText,    \* bound: text appended to out
    MaxSweeps   \* bound: garbage collections that reach the job

ASSUME NamesDistinct == Hook \notin Tools /\ NoTool \notin Tools

ASSUME EndsAreVerdicts ==
    Ends \subseteq {"zero", "nonzero", "crash", "cancelled", "timeout", "spawnfail"}

ASSUME CastsAreClients == Casts \subseteq SUBSET (Tools \cup {Hook, "await", "cancel", "sweep"})

ASSUME BoundsNat == MaxText \in Nat /\ MaxSweeps \in Nat

VARIABLES
    cast,       \* the clients that act; never changes
    named, text, payload, verdict, alive,   \* JobDir
    gone,       \* files a garbage collection has removed
    collected, dismissed,   \* marker files
    pc, idSeen, code,       \* per reader: the next file, and what it has read
    answer,     \* what its last Status returned
    await,      \* AwaitConversationID
    hook, trigger,  \* hook-wait: how far, and the tool call that started it
    cancel,     \* agy_cancel
    sweep, fresh, sweeps    \* gcEvaluate; it found the job unfinished

Readers == Tools \cup {Hook}
Files == {"meta", "progress", "out", "result", "exit"}

Job == INSTANCE JobDir

jobVars == <<named, text, payload, verdict, alive>>
marks == <<collected, dismissed>>
pollVars == <<pc, idSeen, code, answer>>
hookVars == <<hook, trigger>>
sweepVars == <<gone, sweep, fresh, sweeps>>
vars == <<cast, jobVars, marks, pollVars, await, hookVars, cancel, sweepVars>>

States == {"running", "done", "failed", "cancelled"}
\* The text: agy's own result, reconstructed from the stream, or none.
Answers == [state : States, text : {"whole", "partial", "nothing"}, id : BOOLEAN]
NoAnswer == [state |-> "running", text |-> "nothing", id |-> FALSE]

TypeOK ==
    /\ cast \in Casts
    /\ named \in BOOLEAN /\ payload \in BOOLEAN /\ alive \in BOOLEAN
    /\ text \in 0 .. MaxText
    /\ verdict \in Ends \cup {"none"}
    /\ gone \in SUBSET Files
    /\ collected \in BOOLEAN /\ dismissed \in BOOLEAN
    /\ pc \in [Readers -> {"idle", "load", "progress", "exit", "alive", "again",
                           "payload", "out", "running", "terminal", "error", "done"}]
    /\ idSeen \in [Readers -> BOOLEAN]
    /\ code \in [Readers -> Ends \cup {"none"}]
    /\ answer \in [Readers -> Answers]
    /\ await \in {"read", "exit", "again", "named", "unnamed", "expired"}
    /\ hook \in {"off", "short", "wait", "settle", "silent", "woke", "failed"}
    /\ trigger \in Tools \cup {NoTool}
    /\ cancel \in {"idle", "dismiss", "done"}
    /\ sweep \in {"idle", "exit", "alive", "again", "remove"}
    /\ fresh \in BOOLEAN /\ sweeps \in 0 .. MaxSweeps

Init ==
    /\ cast \in Casts
    /\ Job!Init
    /\ gone = {} /\ collected = FALSE /\ dismissed = FALSE
    /\ pc = [r \in Readers |-> "idle"]
    /\ idSeen = [r \in Readers |-> FALSE]
    /\ code = [r \in Readers |-> "none"]
    /\ answer = [r \in Readers |-> NoAnswer]
    /\ await = "read"
    /\ hook = "off" /\ trigger = NoTool
    /\ cancel = "idle"
    /\ sweep = "idle" /\ fresh = FALSE /\ sweeps = 0

\* The supervisor's writes.
SupervisorStep ==
    /\ Job!Next
    /\ text' <= MaxText /\ verdict' \in Ends \cup {"none"}
    /\ UNCHANGED <<cast, marks, pollVars, await, hookVars, cancel, sweepVars>>

-----------------------------------------------------------------------------
(* Status, one file at a time.                                             *)

NameVisible == named /\ "progress" \notin gone
ExitVisible == verdict # "none" /\ "exit" \notin gone
PayloadVisible == payload /\ "result" \notin gone
TextVisible == text > 0 /\ "out" \notin gone

\* statusFromExitCode, and recoverInterrupted when there is no exit code.
Outcome(c, has, txt) ==
    [state |-> CASE c = "zero" -> "done"
                 [] c = "cancelled" -> "cancelled"
                 [] c = "none" -> IF has \/ txt THEN "done" ELSE "failed"
                 [] OTHER -> "failed",
     text |-> IF has THEN "whole" ELSE IF txt THEN "partial" ELSE "nothing"]

At(r, where) == pc[r] = where
Goto(r, where) == pc' = [pc EXCEPT ![r] = where]
Conclude(r, o, id) ==
    /\ answer' = [answer EXCEPT ![r] = [state |-> o.state, text |-> o.text, id |-> id]]
    /\ Goto(r, "terminal")
    /\ idSeen' = [idSeen EXCEPT ![r] = FALSE]
    /\ code' = [code EXCEPT ![r] = "none"]
Reading == UNCHANGED <<cast, jobVars, marks, await, hookVars, cancel, sweepVars>>

Load(r) ==
    /\ At(r, "load")
    /\ Goto(r, IF "meta" \in gone THEN "error" ELSE "progress")
    /\ Reading /\ UNCHANGED <<idSeen, code, answer>>

ReadProgress(r) ==
    /\ At(r, "progress")
    /\ idSeen' = [idSeen EXCEPT ![r] = NameVisible]
    /\ Goto(r, "exit")
    /\ Reading /\ UNCHANGED <<code, answer>>

ReadExit(r) ==
    /\ At(r, "exit")
    /\ IF ExitVisible
       THEN code' = [code EXCEPT ![r] = verdict] /\ Goto(r, "payload")
       ELSE Goto(r, "alive") /\ UNCHANGED code
    /\ Reading /\ UNCHANGED <<idSeen, answer>>

CheckAlive(r) ==
    /\ At(r, "alive")
    /\ IF alive
       THEN /\ answer' = [answer EXCEPT ![r] = [NoAnswer EXCEPT !.id = idSeen[r]]]
            /\ idSeen' = [idSeen EXCEPT ![r] = FALSE]
            /\ Goto(r, "running")
       ELSE Goto(r, "again") /\ UNCHANGED <<answer, idSeen>>
    /\ Reading /\ UNCHANGED code

\* Faulty variant: a dead supervisor without a sentinel is polled on.
AgainForever(r) ==
    /\ At(r, "again")
    /\ IF ExitVisible
       THEN code' = [code EXCEPT ![r] = verdict] /\ Goto(r, "payload")
       ELSE Goto(r, "exit") /\ UNCHANGED code
    /\ Reading /\ UNCHANGED <<idSeen, answer>>

\* Faulty variant: no second look at the sentinel.
AgainSkipped(r) ==
    /\ At(r, "again")
    /\ code' = [code EXCEPT ![r] = "none"]
    /\ Goto(r, "payload")
    /\ Reading /\ UNCHANGED <<idSeen, answer>>

\* The supervisor may have written the sentinel and ended between the looks.
ReadAgain(r) ==
    /\ At(r, "again")
    /\ code' = [code EXCEPT ![r] = IF ExitVisible THEN verdict ELSE "none"]
    /\ Goto(r, "payload")
    /\ Reading /\ UNCHANGED <<idSeen, answer>>

\* result.json also names the conversation.
ReadPayload(r) ==
    /\ At(r, "payload")
    /\ IF PayloadVisible
       THEN Conclude(r, Outcome(code[r], TRUE, FALSE), TRUE)
       ELSE Goto(r, "out") /\ UNCHANGED <<answer, idSeen, code>>
    /\ Reading

ReadOut(r) ==
    /\ At(r, "out")
    /\ Conclude(r, Outcome(code[r], FALSE, TextVisible), idSeen[r])
    /\ Reading

PollStep(r) ==
    \/ Load(r) \/ ReadProgress(r) \/ ReadExit(r) \/ CheckAlive(r)
    \/ ReadAgain(r) \/ ReadPayload(r) \/ ReadOut(r)

-----------------------------------------------------------------------------
(* The tools.                                                              *)

Begin(t) ==
    /\ t \in cast /\ At(t, "idle") /\ Goto(t, "load")
    /\ Reading /\ UNCHANGED <<idSeen, code, answer>>

\* The next tick of WaitTerminal.
PollAgain(r) ==
    /\ At(r, "running") /\ Goto(r, "load")
    /\ Reading /\ UNCHANGED <<idSeen, code, answer>>

\* agy_status, or a wait whose deadline has passed.
ReturnRunning(t) ==
    /\ At(t, "running") /\ Goto(t, "done")
    /\ Reading /\ UNCHANGED <<idSeen, code, answer>>

\* Faulty variant: also a call that saw the job running leaves the marker.
OutcomeAlways(t) == At(t, "terminal") \/ At(t, "running")

\* The outcome is in hand.
OutcomeInHand(t) == At(t, "terminal")

\* Marker files are written best effort, and nowhere once the directory is gone.
MayMark(mark) == {mark} \cup IF gone = Files THEN {} ELSE {TRUE}

\* markCollected, before the response is sent.
ReturnOutcome(t) ==
    /\ OutcomeInHand(t)
    /\ collected' \in MayMark(collected)
    /\ Goto(t, "done")
    /\ UNCHANGED <<cast, jobVars, dismissed, await, hookVars, cancel, sweepVars,
                   idSeen, code, answer>>

ReturnError(t) ==
    /\ At(t, "error") /\ Goto(t, "done")
    /\ Reading /\ UNCHANGED <<idSeen, code, answer>>

\* agy_cancel: Cancel sends the signal, which the supervisor may answer with a
\* cancelled verdict at any time, or fails.
Cancel ==
    /\ "cancel" \in cast /\ cancel = "idle"
    /\ cancel' \in IF "meta" \in gone THEN {"done"} ELSE {"dismiss", "done"}
    /\ UNCHANGED <<cast, jobVars, marks, pollVars, await, hookVars, sweepVars>>

\* MarkDismissed is best effort too, and comes after the call to Cancel.
CancelDismiss ==
    /\ cancel = "dismiss" /\ cancel' = "done"
    /\ dismissed' \in MayMark(dismissed)
    /\ UNCHANGED <<cast, jobVars, collected, pollVars, await, hookVars, sweepVars>>

-----------------------------------------------------------------------------
(* AwaitConversationID, in agy_run.                                        *)

AwaitIdle == UNCHANGED <<cast, jobVars, marks, pollVars, hookVars, cancel, sweepVars>>

AwaitRead ==
    /\ "await" \in cast /\ await = "read"
    /\ await' = IF NameVisible THEN "named" ELSE "exit"
    /\ AwaitIdle

\* Not terminal: the next tick, or the budget is spent or the caller gone.
AwaitExit ==
    /\ await = "exit"
    /\ await' \in IF ExitVisible THEN {"again"} ELSE {"read", "expired"}
    /\ AwaitIdle

\* Faulty variant: the sentinel alone decides.
AwaitNoAgain ==
    /\ await = "again"
    /\ await' = "unnamed"
    /\ AwaitIdle

AwaitAgain ==
    /\ await = "again"
    /\ await' = IF NameVisible THEN "named" ELSE "unnamed"
    /\ AwaitIdle

-----------------------------------------------------------------------------
(* hook-wait.                                                              *)

HookIdle == UNCHANGED <<cast, jobVars, marks, idSeen, code, answer, await, cancel, sweepVars>>
HookEnd(how) == hook' = how /\ Goto(Hook, "done")

Terminal(r) == answer[r].state # "running"

\* Faulty variant: any response of agy_run_sync counts as delivered.
DeliveredAlways(t) == t # NoTool

\* A sync call returned the outcome in its own response.
DeliveredInline(t) == t # NoTool /\ Terminal(t)

\* The PostToolUse hook of agy_run, or of an agy_run_sync that has returned.
HookBegin(t) ==
    /\ Hook \in cast /\ hook = "off" /\ (t # NoTool => pc[t] = "done")
    /\ trigger' = t
    /\ hook' = IF t # NoTool /\ DeliveredInline(t) THEN "short" ELSE "wait"
    /\ Goto(Hook, "load")
    /\ HookIdle

\* The short cut needs both: delivered inline, and over on disk.
HookShort ==
    /\ hook = "short"
    /\ \/ At(Hook, "terminal") /\ HookEnd("silent")
       \/ pc[Hook] \in {"running", "error"} /\ hook' = "wait" /\ Goto(Hook, "load")
    /\ HookIdle /\ UNCHANGED trigger

HookTerminal ==
    /\ hook = "wait" /\ At(Hook, "terminal")
    /\ hook' = "settle"
    /\ HookIdle /\ UNCHANGED <<pc, trigger>>

\* The job cannot be read: stay out of the tool flow.
HookFails ==
    /\ hook = "wait" /\ At(Hook, "error")
    /\ HookEnd("failed")
    /\ HookIdle /\ UNCHANGED trigger

\* The timeout, which is looked at between polls.
HookTimeout ==
    /\ hook = "wait" /\ At(Hook, "running")
    /\ HookEnd("woke")
    /\ HookIdle /\ UNCHANGED trigger

\* Faulty variant: a dismissed job needs no wake however it ended.
SuppressedDismissed == collected \/ dismissed

\* waitSuppressed.
Suppressed == collected \/ (answer[Hook].state = "cancelled" /\ dismissed)

HookSuppress ==
    /\ hook = "settle" /\ Suppressed
    /\ HookEnd("silent")
    /\ HookIdle /\ UNCHANGED trigger

\* The grace is over.
HookWake ==
    /\ hook = "settle" /\ ~Suppressed
    /\ HookEnd("woke")
    /\ HookIdle /\ UNCHANGED trigger

\* SIGINT or SIGTERM: WaitTerminal looks at its context between polls, the
\* grace between checks.
HookInterrupt ==
    /\ \/ hook = "wait" /\ At(Hook, "running")
       \/ hook = "settle" /\ ~Suppressed
    /\ HookEnd("woke")
    /\ HookIdle /\ UNCHANGED trigger

HookStep ==
    \/ HookShort \/ HookTerminal \/ HookFails \/ HookSuppress \/ HookWake
    \/ PollStep(Hook) \/ (hook = "wait" /\ PollAgain(Hook))

-----------------------------------------------------------------------------
(* gcEvaluate, for a job older than the TTL.                               *)

SweepIdle == UNCHANGED <<cast, jobVars, pollVars, await, hookVars, cancel>>

\* meta.json is there and old enough.
SweepBegin ==
    /\ "sweep" \in cast /\ sweep = "idle" /\ sweeps < MaxSweeps /\ "meta" \notin gone
    /\ sweep' = "exit" /\ sweeps' = sweeps + 1
    /\ UNCHANGED <<gone, fresh, marks>> /\ SweepIdle

SweepExit ==
    /\ sweep = "exit"
    /\ sweep' = IF ExitVisible THEN "remove" ELSE "alive"
    /\ fresh' = ~ExitVisible
    /\ UNCHANGED <<gone, sweeps, marks>> /\ SweepIdle

SweepAlive ==
    /\ sweep = "alive"
    /\ sweep' = IF alive THEN "idle" ELSE "again"
    /\ UNCHANGED <<gone, fresh, sweeps, marks>> /\ SweepIdle

\* Faulty variant: no second look at the sentinel.
SweepNoAgain ==
    /\ sweep = "again"
    /\ sweep' = "remove"
    /\ UNCHANGED <<gone, fresh, sweeps, marks>> /\ SweepIdle

\* A job that has just finished is kept for this sweep.
SweepAgain ==
    /\ sweep = "again"
    /\ sweep' = IF ExitVisible THEN "idle" ELSE "remove"
    /\ UNCHANGED <<gone, fresh, sweeps, marks>> /\ SweepIdle

\* RemoveAll, in the order the directory lists its entries.
SweepRemove ==
    /\ sweep = "remove"
    /\ \/ \E f \in Files \ gone : gone' = gone \cup {f} /\ UNCHANGED <<sweep, marks>>
       \/ collected /\ collected' = FALSE /\ UNCHANGED <<gone, sweep, dismissed>>
       \/ dismissed /\ dismissed' = FALSE /\ UNCHANGED <<gone, sweep, collected>>
       \/ gone = Files /\ sweep' = "idle" /\ UNCHANGED <<gone, marks>>
    /\ UNCHANGED <<fresh, sweeps>> /\ SweepIdle

\* The collecting process dies, or a removal fails.
SweepStops ==
    /\ sweep # "idle" /\ sweep' = "idle"
    /\ UNCHANGED <<gone, fresh, sweeps, marks>> /\ SweepIdle

SweepStep == SweepExit \/ SweepAlive \/ SweepAgain \/ SweepRemove

-----------------------------------------------------------------------------
ToolStep(t) ==
    \/ PollStep(t) \/ PollAgain(t) \/ ReturnRunning(t) \/ ReturnOutcome(t) \/ ReturnError(t)

Next ==
    \/ SupervisorStep
    \/ \E t \in Tools : Begin(t) \/ ToolStep(t)
    \/ Cancel \/ CancelDismiss
    \/ AwaitRead \/ AwaitExit \/ AwaitAgain
    \/ \E t \in Tools \cup {NoTool} : HookBegin(t)
    \/ HookStep \/ HookTimeout \/ HookInterrupt
    \/ SweepBegin \/ SweepStep \/ SweepStops

Spec == Init /\ [][Next]_vars

\* hook-wait runs and its grace ends, and a supervisor that has written its
\* sentinel exits; nothing is promised of the run, the tools, the collection or
\* hook-wait's own timeout.
FairSpec ==
    /\ Spec
    /\ WF_vars(HookStep)
    /\ WF_vars(verdict # "none" /\ SupervisorStep)

-----------------------------------------------------------------------------
(* Properties.                                                             *)

\* The job's files are final: it is over for every reader.
Over == verdict # "none" \/ ~alive

\* Until a collection touches the files, every terminal answer is the one the
\* finished directory gives: nobody is told "interrupted" of a job that ended
\* properly, gets a partial text where a result exists, or an answer that a
\* later poll contradicts (Status, the second look at the sentinel).
AnswerFinal ==
    \A r \in Readers : Terminal(r) /\ gone = {} =>
        /\ Over
        /\ LET o == Outcome(verdict, payload, text > 0)
           IN answer[r].state = o.state /\ answer[r].text = o.text

\* AwaitConversationID only gives up on a finished job that never was named.
AwaitSound == await = "unnamed" /\ gone = {} => ~named

\* A collection never removes a job that runs, nor one that it
\* found unfinished and that has ended properly since, whose result nobody can
\* have read (gcEvaluate: "keep it this sweep").
SweepKeepsFresh ==
    sweep = "remove" => Over /\ (fresh /\ "exit" \notin gone => verdict = "none")

\* hook-wait is only silent if a tool has the outcome in hand, or the job
\* ended cancelled and a client asked for it (hook-wait: "a suppressed owed
\* wake is a lost result").
NoLostWake ==
    hook = "silent" =>
        \/ \E t \in Tools : Terminal(t) /\ pc[t] \in {"terminal", "done"}
        \/ answer[Hook].state = "cancelled" /\ cancel # "idle"

\* Once the job is over, hook-wait ends by itself, whichever way the job ended.
HookEnds ==
    hook \in {"short", "wait", "settle"} /\ Over ~> hook \in {"silent", "woke", "failed"}

-----------------------------------------------------------------------------
(* A claim of a comment that the code does not keep.                       *)

\* "a terminal job's id is already on disk and there is nothing left to wait
\* for": a terminal answer names the conversation if the job's files do.
TerminalNamed ==
    \A r \in Readers : Terminal(r) /\ gone = {} => (named => answer[r].id)
=============================================================================
