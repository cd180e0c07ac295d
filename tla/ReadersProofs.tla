--------------------------- MODULE ReadersProofs ---------------------------
(***************************************************************************)
(* Proofs about Readers, for any tools, exit codes, texts and collections. *)
(*                                                                         *)
(* The files of a job are final once it is over, so a reader that has seen *)
(* it over is held to them (Polls, Awaits, Sweeps) until a collection      *)
(* takes one of them away. What keeps hook-wait silent is a call that has  *)
(* returned with the outcome, or a cancel (Wakes).                         *)
(***************************************************************************)
EXTENDS Readers, TLAPS

\* A poll past the exit code has the verdict, past result.json that there is none.
Polls ==
    \A r \in Readers : gone = {} =>
        /\ pc[r] = "again" => ~alive
        /\ pc[r] \in {"payload", "out"} => Over /\ code[r] = verdict
        /\ pc[r] = "out" => ~payload

Awaits == await \in {"again", "unnamed"} /\ gone = {} => verdict # "none"

Sweeps ==
    /\ sweep = "again" => ~alive
    /\ sweep = "remove" /\ fresh => ~alive

Wakes ==
    /\ \A r \in Readers : pc[r] = "terminal" => Terminal(r)
    /\ collected => \E t \in Tools : Terminal(t) /\ pc[t] = "done"
    /\ dismissed => cancel # "idle"
    /\ hook = "short" => trigger \in Tools /\ Terminal(trigger) /\ pc[trigger] = "done"
    /\ hook = "settle" => pc[Hook] = "terminal"
    /\ hook \in {"silent", "woke", "failed"} => pc[Hook] = "done"

IInv == /\ TypeOK /\ Polls /\ Awaits /\ Sweeps /\ Wakes
        /\ AnswerFinal /\ AwaitSound /\ SweepKeepsFresh /\ NoLostWake
-----------------------------------------------------------------------------
(* The steps, each conjunct it can disturb in a step of its own.            *)

\* A marker file is left or not.
LEMMA MarkType ==
    ASSUME NEW mark \in BOOLEAN
    PROVE  MayMark(mark) \subseteq BOOLEAN
BY DEF MayMark

PCs == {"idle", "load", "progress", "exit", "alive", "again", "payload", "out", "running",
        "terminal", "error", "done"}

\* A reader goes from one file to the next.
LEMMA PCType ==
    ASSUME TypeOK, NEW r \in Readers, NEW s \in PCs
    PROVE  [pc EXCEPT ![r] = s] \in [Readers -> PCs]
BY DEF TypeOK, PCs

\* The supervisor writes and dies.
LEMMA SupervisorWrites == ASSUME IInv, SupervisorStep PROVE IInv'
<1> USE NamesDistinct DEF IInv
<1>f. UNCHANGED <<cast, gone, collected, dismissed, pc, idSeen, code, answer, await,
                 hook, trigger, cancel, sweep, fresh, sweeps>>
    BY DEF SupervisorStep, Job!Next, Job!Mirror, Job!Publish, Job!Conclude, Job!Die,
       Job!Verdicts, marks, pollVars, hookVars, sweepVars, jobVars
<1>1. TypeOK'
    <2>1. text' \in 0 .. MaxText
        BY BoundsNat DEF SupervisorStep, Job!Next, Job!Mirror, Job!Publish, Job!Conclude, Job!Die,
                         TypeOK
    <2>2. /\ verdict' \in Ends \cup {"none"}
          /\ named' \in BOOLEAN /\ payload' \in BOOLEAN /\ alive' \in BOOLEAN
        BY DEF SupervisorStep, Job!Next, Job!Mirror, Job!Publish, Job!Conclude, Job!Die, TypeOK
    <2> QED BY <1>f, <2>1, <2>2 DEF TypeOK
<1>2. Polls'
    BY <1>f DEF SupervisorStep, Job!Next, Job!Mirror, Job!Publish, Job!Conclude,
       Job!Die, Job!Verdicts, TypeOK, Polls, Over, Readers
<1>3. AnswerFinal'
    BY <1>f DEF SupervisorStep, Job!Next, Job!Mirror, Job!Publish, Job!Conclude,
       Job!Die, Job!Verdicts, TypeOK, Polls, AnswerFinal, Outcome, Over, Terminal,
       Readers
<1>4. Awaits'
    BY <1>f DEF SupervisorStep, Job!Next, Job!Mirror, Job!Publish, Job!Conclude,
       Job!Die, Job!Verdicts, TypeOK, Awaits
<1>5. AwaitSound'
    BY <1>f DEF SupervisorStep, Job!Next, Job!Mirror, Job!Publish, Job!Conclude,
       Job!Die, Job!Verdicts, TypeOK, Awaits, AwaitSound
<1>6. Sweeps'
    BY <1>f DEF SupervisorStep, Job!Next, Job!Mirror, Job!Publish, Job!Conclude,
       Job!Die, Job!Verdicts, TypeOK, Sweeps
<1>7. SweepKeepsFresh'
    BY <1>f DEF SupervisorStep, Job!Next, Job!Mirror, Job!Publish, Job!Conclude,
       Job!Die, Job!Verdicts, TypeOK, Sweeps, SweepKeepsFresh, Over
<1>8. Wakes' /\ NoLostWake'
    BY <1>f DEF Wakes, Terminal, NoLostWake
<1> QED BY <1>1, <1>2, <1>3, <1>4, <1>5, <1>6, <1>7, <1>8

\* A tool call begins, polls again or returns without the outcome.
LEMMA ToolMovesStep ==
    ASSUME IInv, NEW t \in Tools,
           Begin(t) \/ PollAgain(t) \/ ReturnRunning(t) \/ ReturnError(t)
    PROVE  IInv'
<1> USE NamesDistinct DEF IInv
<1>f. UNCHANGED <<cast, named, text, payload, verdict, alive, gone, collected,
                 dismissed, idSeen, code, answer, await, hook, trigger, cancel,
                 sweep, fresh, sweeps>>
    BY DEF Begin, PollAgain, ReturnRunning, ReturnError, Reading, marks, jobVars,
       sweepVars, hookVars, pollVars
<1>1. TypeOK'
    BY <1>f DEF Begin, PollAgain, ReturnRunning, ReturnError, At, Goto, TypeOK,
       Readers
<1>2. Polls'
    BY <1>f DEF Begin, PollAgain, ReturnRunning, ReturnError, At, Goto, TypeOK,
       Polls, Over, Readers
<1>3. Wakes'
    BY <1>f DEF Begin, PollAgain, ReturnRunning, ReturnError, At, Goto, TypeOK,
       Wakes, Terminal, Readers
<1>4. NoLostWake'
    BY <1>f DEF Begin, PollAgain, ReturnRunning, ReturnError, At, Goto, TypeOK,
       Wakes, NoLostWake, Terminal, Readers
<1>5. AnswerFinal' /\ Awaits' /\ AwaitSound' /\ Sweeps' /\ SweepKeepsFresh'
    BY <1>f DEF AnswerFinal, Over, Terminal, Awaits, AwaitSound, Sweeps,
       SweepKeepsFresh
<1> QED BY <1>1, <1>2, <1>3, <1>4, <1>5

\* A poll looks at a file and goes on.
LEMMA PollReadsStep ==
    ASSUME IInv, NEW r \in Readers,
           Load(r) \/ ReadProgress(r) \/ ReadExit(r) \/ ReadAgain(r)
    PROVE  IInv'
<1> USE NamesDistinct DEF IInv
<1>f. UNCHANGED <<cast, named, text, payload, verdict, alive, gone, collected,
                 dismissed, answer, await, hook, trigger, cancel, sweep, fresh,
                 sweeps>>
    BY DEF Load, ReadProgress, ReadExit, ReadAgain, Reading, marks, jobVars,
       sweepVars, hookVars, pollVars
<1>1. TypeOK'
    <2>1. \E s \in {"error", "progress", "exit", "payload", "alive"} :
             pc' = [pc EXCEPT ![r] = s]
        BY DEF Load, ReadProgress, ReadExit, ReadAgain, Goto
    <2>2. idSeen' = idSeen \/ idSeen' = [idSeen EXCEPT ![r] = NameVisible]
        BY DEF Load, ReadProgress, ReadExit, ReadAgain
    <2>3. code' = code \/ \E c \in Ends \cup {"none"} : code' = [code EXCEPT ![r] = c]
        BY DEF Load, ReadProgress, ReadExit, ReadAgain, TypeOK
    <2>4. NameVisible \in BOOLEAN BY DEF NameVisible, TypeOK
    <2>5. idSeen' \in [Readers -> BOOLEAN] BY <2>2, <2>4 DEF TypeOK
    <2>6. code' \in [Readers -> Ends \cup {"none"}] BY <2>3 DEF TypeOK
    <2>7. pc' \in [Readers -> PCs] BY <2>1, PCType DEF PCs
    <2> QED BY <1>f, <2>5, <2>6, <2>7 DEF TypeOK, PCs
<1>2. Polls'
    BY <1>f DEF Load, ReadProgress, ReadExit, ReadAgain, At, Goto, NameVisible,
       ExitVisible, TypeOK, Polls, Over, Readers
<1>3. Wakes'
    BY <1>f DEF Load, ReadProgress, ReadExit, ReadAgain, At, Goto, NameVisible,
       ExitVisible, TypeOK, Wakes, Terminal, Readers
<1>4. NoLostWake'
    BY <1>f DEF Load, ReadProgress, ReadExit, ReadAgain, At, Goto, NameVisible,
       ExitVisible, TypeOK, Wakes, NoLostWake, Terminal, Readers
<1>5. AnswerFinal' /\ Awaits' /\ AwaitSound' /\ Sweeps' /\ SweepKeepsFresh'
    BY <1>f DEF AnswerFinal, Over, Terminal, Awaits, AwaitSound, Sweeps,
       SweepKeepsFresh
<1> QED BY <1>1, <1>2, <1>3, <1>4, <1>5

\* A poll finds no exit code.
LEMMA CheckAliveStep == ASSUME IInv, NEW r \in Readers, CheckAlive(r) PROVE IInv'
<1> USE NamesDistinct DEF IInv
<1>f. UNCHANGED <<cast, named, text, payload, verdict, alive, gone, collected,
                 dismissed, code, await, hook, trigger, cancel, sweep, fresh,
                 sweeps>>
    BY DEF CheckAlive, Reading, marks, jobVars, sweepVars, hookVars, pollVars
<1>1. TypeOK'
    <2> DEFINE a == [NoAnswer EXCEPT !.id = idSeen[r]]
    <2>1. a \in Answers BY DEF NoAnswer, Answers, States, TypeOK
    <2>2. answer' = answer \/ answer' = [answer EXCEPT ![r] = a]
        BY DEF CheckAlive
    <2>3. idSeen' = idSeen \/ idSeen' = [idSeen EXCEPT ![r] = FALSE] BY DEF CheckAlive
    <2>4. \E s \in {"running", "again"} : pc' = [pc EXCEPT ![r] = s] BY DEF CheckAlive, Goto
    <2> HIDE DEF a
    <2>5. pc' \in [Readers -> PCs] BY <2>4, PCType DEF PCs
    <2>6. answer' \in [Readers -> Answers] BY <2>1, <2>2 DEF TypeOK
    <2>7. idSeen' \in [Readers -> BOOLEAN] BY <2>3 DEF TypeOK
    <2> QED BY <1>f, <2>5, <2>6, <2>7 DEF TypeOK, PCs
<1>2. Polls'
    BY <1>f DEF CheckAlive, At, Goto, NoAnswer, TypeOK, Polls, Over, Readers
<1>3. AnswerFinal'
    BY <1>f DEF CheckAlive, At, Goto, NoAnswer, TypeOK, Polls, AnswerFinal, Outcome,
       Over, Terminal, Readers
<1>4. Wakes'
    BY <1>f DEF CheckAlive, At, Goto, NoAnswer, TypeOK, Wakes, Terminal, Readers
<1>5. NoLostWake'
    BY <1>f DEF CheckAlive, At, Goto, NoAnswer, TypeOK, Wakes, NoLostWake, Terminal,
       Readers
<1>6. Awaits' /\ AwaitSound' /\ Sweeps' /\ SweepKeepsFresh'
    BY <1>f DEF Awaits, AwaitSound, Sweeps, SweepKeepsFresh, Over
<1> QED BY <1>1, <1>2, <1>3, <1>4, <1>5, <1>6

\* A poll that has the outcome.
LEMMA PollConcludesStep ==
    ASSUME IInv, NEW r \in Readers,
           ReadPayload(r) \/ ReadOut(r)
    PROVE  IInv'
<1> USE NamesDistinct DEF IInv
<1>f. UNCHANGED <<cast, named, text, payload, verdict, alive, gone, collected,
                 dismissed, await, hook, trigger, cancel, sweep, fresh, sweeps>>
    BY DEF ReadPayload, ReadOut, Reading, marks, jobVars, sweepVars, hookVars,
       Conclude, pollVars
<1>1. TypeOK'
    <2> DEFINE Told(has, txt, id) ==
                 LET o == Outcome(code[r], has, txt)
                 IN [state |-> o.state, text |-> o.text, id |-> id]
    <2>1. \A has, txt, id \in BOOLEAN : Told(has, txt, id) \in Answers
        BY DEF Outcome, Answers, States
    <2>2. idSeen[r] \in BOOLEAN /\ TextVisible \in BOOLEAN BY DEF TypeOK, TextVisible
    <2>3. \/ answer' = answer
          \/ answer' = [answer EXCEPT ![r] = Told(TRUE, FALSE, TRUE)]
          \/ answer' = [answer EXCEPT ![r] = Told(FALSE, TextVisible, idSeen[r])]
        BY DEF ReadPayload, ReadOut, Conclude
    <2> HIDE DEF Told
    <2>a. answer \in [Readers -> Answers] BY DEF TypeOK
    <2>b. Told(TRUE, FALSE, TRUE) \in Answers BY <2>1
    <2>c. Told(FALSE, TextVisible, idSeen[r]) \in Answers BY <2>1, <2>2
    <2>4. answer' \in [Readers -> Answers] BY <2>3, <2>a, <2>b, <2>c, Zenon
    <2>5. /\ idSeen' = idSeen \/ idSeen' = [idSeen EXCEPT ![r] = FALSE]
          /\ code' = code \/ code' = [code EXCEPT ![r] = "none"]
          /\ \E s \in {"terminal", "out"} : pc' = [pc EXCEPT ![r] = s]
        BY DEF ReadPayload, ReadOut, Conclude, Goto
    <2>6. pc' \in [Readers -> PCs] BY <2>5, PCType DEF PCs
    <2>7. idSeen' \in [Readers -> BOOLEAN] /\ code' \in [Readers -> Ends \cup {"none"}]
        BY <2>5 DEF TypeOK
    <2> QED BY <1>f, <2>4, <2>6, <2>7 DEF TypeOK, PCs
<1>2. Polls'
    BY <1>f DEF ReadPayload, ReadOut, At, Goto, Conclude, PayloadVisible,
       TextVisible, TypeOK, Polls, Over, Readers
<1>3. AnswerFinal'
    BY <1>f DEF ReadPayload, ReadOut, At, Goto, Conclude, PayloadVisible,
       TextVisible, TypeOK, Polls, AnswerFinal, Outcome, Over, Terminal, Readers
<1>4. Wakes'
    BY <1>f DEF ReadPayload, ReadOut, At, Goto, Conclude, PayloadVisible,
       TextVisible, TypeOK, Wakes, Terminal, Readers, Outcome
<1>5. NoLostWake'
    BY <1>f DEF ReadPayload, ReadOut, At, Goto, Conclude, PayloadVisible,
       TextVisible, TypeOK, Wakes, NoLostWake, Terminal, Readers
<1>6. Awaits' /\ AwaitSound' /\ Sweeps' /\ SweepKeepsFresh'
    BY <1>f DEF Awaits, AwaitSound, Sweeps, SweepKeepsFresh, Over
<1> QED BY <1>1, <1>2, <1>3, <1>4, <1>5, <1>6

\* A tool returns it and leaves the marker.
LEMMA ReturnOutcomeStep == ASSUME IInv, NEW t \in Tools, ReturnOutcome(t) PROVE IInv'
<1> USE NamesDistinct DEF IInv
<1>f. UNCHANGED <<cast, named, text, payload, verdict, alive, gone, dismissed,
                 idSeen, code, answer, await, hook, trigger, cancel, sweep, fresh,
                 sweeps>>
    BY DEF ReturnOutcome, jobVars, sweepVars, hookVars, marks, pollVars
<1>1. TypeOK'
    <2>1. collected' \in BOOLEAN BY MarkType DEF ReturnOutcome, TypeOK
    <2>2. pc' = [pc EXCEPT ![t] = "done"] BY DEF ReturnOutcome, Goto
    <2>3. t \in Readers BY DEF Readers
    <2>4. pc' \in [Readers -> PCs] BY <2>2, <2>3, PCType DEF PCs
    <2> QED BY <1>f, <2>1, <2>4 DEF TypeOK, PCs
<1>2. Polls'
    BY <1>f DEF ReturnOutcome, OutcomeInHand, At, Goto, TypeOK, Polls, Over, Readers
<1>3. Wakes'
    BY <1>f DEF ReturnOutcome, OutcomeInHand, At, Goto, TypeOK, Wakes, Terminal,
       Readers
<1>4. NoLostWake'
    BY <1>f DEF ReturnOutcome, OutcomeInHand, At, Goto, TypeOK, Wakes, NoLostWake,
       Terminal, Readers
<1>5. AnswerFinal' /\ Awaits' /\ AwaitSound' /\ Sweeps' /\ SweepKeepsFresh'
    BY <1>f DEF AnswerFinal, Over, Terminal, Awaits, AwaitSound, Sweeps,
       SweepKeepsFresh
<1> QED BY <1>1, <1>2, <1>3, <1>4, <1>5

\* agy_cancel.
LEMMA CancelsStep == ASSUME IInv, Cancel \/ CancelDismiss PROVE IInv'
<1> USE NamesDistinct DEF IInv
<1>f. UNCHANGED <<cast, named, text, payload, verdict, alive, gone, collected, pc,
                 idSeen, code, answer, await, hook, trigger, sweep, fresh, sweeps>>
    BY DEF Cancel, CancelDismiss, jobVars, marks, pollVars, hookVars, sweepVars
<1>1. TypeOK'
    <2>1. dismissed' \in BOOLEAN BY MarkType DEF Cancel, CancelDismiss, marks, TypeOK
    <2>2. cancel' \in {"dismiss", "done"} BY DEF Cancel, CancelDismiss
    <2> QED BY <1>f, <2>1, <2>2 DEF TypeOK
<1>2. Wakes'
    BY <1>f DEF Cancel, CancelDismiss, TypeOK, Wakes, Terminal, Readers
<1>3. NoLostWake'
    BY <1>f DEF Cancel, CancelDismiss, TypeOK, Wakes, NoLostWake, Terminal, Readers
<1>4. Polls' /\ AnswerFinal' /\ Awaits' /\ AwaitSound' /\ Sweeps' /\
      SweepKeepsFresh'
    BY <1>f DEF Polls, Over, AnswerFinal, Terminal, Awaits, AwaitSound, Sweeps,
       SweepKeepsFresh
<1> QED BY <1>1, <1>2, <1>3, <1>4

\* AwaitConversationID.
LEMMA AwaitingStep == ASSUME IInv, AwaitRead \/ AwaitExit \/ AwaitAgain PROVE IInv'
<1> USE NamesDistinct DEF IInv
<1>f. UNCHANGED <<cast, named, text, payload, verdict, alive, gone, collected,
                 dismissed, pc, idSeen, code, answer, hook, trigger, cancel, sweep,
                 fresh, sweeps>>
    BY DEF AwaitRead, AwaitExit, AwaitAgain, AwaitIdle, jobVars, marks, pollVars,
       hookVars, sweepVars
<1>1. TypeOK'
    BY <1>f DEF AwaitRead, AwaitExit, AwaitAgain, NameVisible, ExitVisible, TypeOK,
       Readers
<1>2. Awaits'
    BY <1>f DEF AwaitRead, AwaitExit, AwaitAgain, NameVisible, ExitVisible, TypeOK,
       Awaits
<1>3. AwaitSound'
    BY <1>f DEF AwaitRead, AwaitExit, AwaitAgain, NameVisible, ExitVisible, TypeOK,
       Awaits, AwaitSound
<1>4. Polls' /\ AnswerFinal' /\ Sweeps' /\ SweepKeepsFresh' /\ Wakes' /\ NoLostWake'
    BY <1>f DEF Polls, Over, AnswerFinal, Terminal, Sweeps, SweepKeepsFresh, Wakes,
       NoLostWake
<1> QED BY <1>1, <1>2, <1>3, <1>4

\* hook-wait.
LEMMA HookBeginStep ==
    ASSUME IInv, NEW t \in Tools \cup {NoTool},
           HookBegin(t)
    PROVE  IInv'
<1> USE NamesDistinct DEF IInv
<1>f. UNCHANGED <<cast, named, text, payload, verdict, alive, gone, collected,
                 dismissed, idSeen, code, answer, await, cancel, sweep, fresh,
                 sweeps>>
    BY DEF HookBegin, HookIdle, HookEnd, jobVars, marks, sweepVars, DeliveredInline,
       Terminal, pollVars, hookVars
<1>1. TypeOK'
    BY <1>f DEF HookBegin, HookEnd, At, Goto, DeliveredInline, Terminal, TypeOK,
       Readers
<1>2. Polls'
    BY <1>f DEF HookBegin, HookEnd, At, Goto, DeliveredInline, Terminal, TypeOK,
       Polls, Over, Readers
<1>3. Wakes'
    BY <1>f DEF HookBegin, HookEnd, At, Goto, DeliveredInline, Terminal, TypeOK,
       Wakes, Readers
<1>4. NoLostWake'
    BY <1>f DEF HookBegin, HookEnd, At, Goto, DeliveredInline, Terminal, TypeOK,
       Wakes, NoLostWake, Readers
<1>5. AnswerFinal' /\ Awaits' /\ AwaitSound' /\ Sweeps' /\ SweepKeepsFresh'
    BY <1>f DEF AnswerFinal, Over, Terminal, Awaits, AwaitSound, Sweeps,
       SweepKeepsFresh
<1> QED BY <1>1, <1>2, <1>3, <1>4, <1>5

LEMMA HookShortStep == ASSUME IInv, HookShort PROVE IInv'
<1> USE NamesDistinct DEF IInv
<1>f. UNCHANGED <<cast, named, text, payload, verdict, alive, gone, collected,
                 dismissed, idSeen, code, answer, await, trigger, cancel, sweep,
                 fresh, sweeps>>
    BY DEF HookShort, HookIdle, HookEnd, jobVars, marks, sweepVars, pollVars,
       hookVars
<1>1. TypeOK'
    BY <1>f DEF HookShort, HookEnd, At, Goto, TypeOK, Readers
<1>2. Polls'
    BY <1>f DEF HookShort, HookEnd, At, Goto, TypeOK, Polls, Over, Readers
<1>3. Wakes'
    BY <1>f DEF HookShort, HookEnd, At, Goto, TypeOK, Wakes, Terminal, Readers
<1>4. NoLostWake'
    BY <1>f DEF HookShort, HookEnd, At, Goto, TypeOK, Wakes, NoLostWake, Terminal,
       Readers
<1>5. AnswerFinal' /\ Awaits' /\ AwaitSound' /\ Sweeps' /\ SweepKeepsFresh'
    BY <1>f DEF AnswerFinal, Over, Terminal, Awaits, AwaitSound, Sweeps,
       SweepKeepsFresh
<1> QED BY <1>1, <1>2, <1>3, <1>4, <1>5

LEMMA HookTerminalStep == ASSUME IInv, HookTerminal PROVE IInv'
<1> USE NamesDistinct DEF IInv
<1>f. UNCHANGED <<cast, named, text, payload, verdict, alive, gone, collected,
                 dismissed, pc, idSeen, code, answer, await, trigger, cancel, sweep,
                 fresh, sweeps>>
    BY DEF HookTerminal, HookIdle, HookEnd, jobVars, marks, sweepVars, pollVars,
       hookVars
<1>1. TypeOK'
    BY <1>f DEF HookTerminal, HookEnd, At, Goto, TypeOK, Readers
<1>2. Wakes'
    BY <1>f DEF HookTerminal, HookEnd, At, Goto, TypeOK, Wakes, Terminal, Readers
<1>3. NoLostWake'
    BY <1>f DEF HookTerminal, HookEnd, At, Goto, TypeOK, Wakes, NoLostWake,
       Terminal, Readers
<1>4. Polls' /\ AnswerFinal' /\ Awaits' /\ AwaitSound' /\ Sweeps' /\
      SweepKeepsFresh'
    BY <1>f DEF Polls, Over, AnswerFinal, Terminal, Awaits, AwaitSound, Sweeps,
       SweepKeepsFresh
<1> QED BY <1>1, <1>2, <1>3, <1>4

LEMMA HookLeavesStep ==
    ASSUME IInv,
           HookFails \/ HookTimeout \/ HookSuppress \/ HookWake \/ HookInterrupt
    PROVE  IInv'
<1> USE NamesDistinct DEF IInv
<1>f. UNCHANGED <<cast, named, text, payload, verdict, alive, gone, collected,
                 dismissed, idSeen, code, answer, await, trigger, cancel, sweep,
                 fresh, sweeps>>
    BY DEF HookFails, HookTimeout, HookSuppress, HookWake, HookInterrupt, HookIdle,
       HookEnd, jobVars, marks, sweepVars, Suppressed, pollVars, hookVars
<1>1. TypeOK'
    BY <1>f DEF HookFails, HookTimeout, HookSuppress, HookWake, HookInterrupt,
       HookEnd, At, Goto, Suppressed, TypeOK, Readers
<1>2. Polls'
    BY <1>f DEF HookFails, HookTimeout, HookSuppress, HookWake, HookInterrupt,
       HookEnd, At, Goto, Suppressed, TypeOK, Polls, Over, Readers
<1>3. Wakes'
    BY <1>f DEF HookFails, HookTimeout, HookSuppress, HookWake, HookInterrupt,
       HookEnd, At, Goto, Suppressed, TypeOK, Wakes, Terminal, Readers
<1>4. NoLostWake'
    BY <1>f DEF HookFails, HookTimeout, HookSuppress, HookWake, HookInterrupt,
       HookEnd, At, Goto, Suppressed, TypeOK, Wakes, NoLostWake, Terminal, Readers
<1>5. AnswerFinal' /\ Awaits' /\ AwaitSound' /\ Sweeps' /\ SweepKeepsFresh'
    BY <1>f DEF AnswerFinal, Over, Terminal, Awaits, AwaitSound, Sweeps,
       SweepKeepsFresh
<1> QED BY <1>1, <1>2, <1>3, <1>4, <1>5

LEMMA HookPollsStep == ASSUME IInv, hook = "wait", PollAgain(Hook) PROVE IInv'
<1> USE NamesDistinct DEF IInv
<1>f. UNCHANGED <<cast, named, text, payload, verdict, alive, gone, collected,
                 dismissed, idSeen, code, answer, await, hook, trigger, cancel,
                 sweep, fresh, sweeps>>
    BY DEF PollAgain, Reading, marks, jobVars, sweepVars, hookVars, pollVars
<1>1. TypeOK'
    BY <1>f DEF PollAgain, At, Goto, TypeOK, Readers
<1>2. Polls'
    BY <1>f DEF PollAgain, At, Goto, TypeOK, Polls, Over, Readers
<1>3. Wakes'
    BY <1>f DEF PollAgain, At, Goto, TypeOK, Wakes, Terminal, Readers
<1>4. NoLostWake'
    BY <1>f DEF PollAgain, At, Goto, TypeOK, Wakes, NoLostWake, Terminal, Readers
<1>5. AnswerFinal' /\ Awaits' /\ AwaitSound' /\ Sweeps' /\ SweepKeepsFresh'
    BY <1>f DEF AnswerFinal, Over, Terminal, Awaits, AwaitSound, Sweeps,
       SweepKeepsFresh
<1> QED BY <1>1, <1>2, <1>3, <1>4, <1>5

\* A collection looks at the job.
LEMMA SweepLooksStep ==
    ASSUME IInv,
           SweepBegin \/ SweepExit \/ SweepAlive \/ SweepAgain \/ SweepStops
    PROVE  IInv'
<1> USE NamesDistinct DEF IInv
<1>f. UNCHANGED <<cast, named, text, payload, verdict, alive, gone, collected,
                 dismissed, pc, idSeen, code, answer, await, hook, trigger, cancel>>
    BY DEF SweepBegin, SweepExit, SweepAlive, SweepAgain, SweepStops, SweepIdle,
       jobVars, marks, pollVars, hookVars, sweepVars
<1>1. TypeOK'
    <2>1. sweep' \in {"idle", "exit", "alive", "again", "remove"}
        BY DEF SweepBegin, SweepExit, SweepAlive, SweepAgain, SweepStops
    <2>2. sweeps' \in 0 .. MaxSweeps
        BY BoundsNat DEF SweepBegin, SweepExit, SweepAlive, SweepAgain, SweepStops, TypeOK
    <2>3. fresh' \in BOOLEAN
        <3>1. fresh' = fresh \/ fresh' = ~ExitVisible
            BY DEF SweepBegin, SweepExit, SweepAlive, SweepAgain, SweepStops
        <3>2. ExitVisible \in BOOLEAN BY DEF ExitVisible
        <3> QED BY <3>1, <3>2 DEF TypeOK
    <2> QED BY <1>f, <2>1, <2>2, <2>3 DEF TypeOK
<1>2. Sweeps'
    <2>1. CASE SweepExit BY <1>f, <2>1 DEF SweepExit, Sweeps
    <2>2. CASE SweepBegin \/ SweepAlive \/ SweepAgain \/ SweepStops
        BY <1>f, <2>2 DEF SweepBegin, SweepAlive, SweepAgain, SweepStops, Sweeps
    <2> QED BY <2>1, <2>2
<1>3. SweepKeepsFresh'
    BY <1>f DEF SweepBegin, SweepExit, SweepAlive, SweepAgain, SweepStops,
       ExitVisible, TypeOK, Sweeps, SweepKeepsFresh, Over
<1>4. Polls' /\ AnswerFinal' /\ Awaits' /\ AwaitSound' /\ Wakes' /\ NoLostWake'
    BY <1>f DEF Polls, Over, AnswerFinal, Terminal, Awaits, AwaitSound, Wakes,
       NoLostWake
<1> QED BY <1>1, <1>2, <1>3, <1>4

\* It removes one file or marker.
LEMMA SweepRemoveStep == ASSUME IInv, SweepRemove PROVE IInv'
<1> USE NamesDistinct DEF IInv
<1>f. UNCHANGED <<cast, named, text, payload, verdict, alive, pc, idSeen, code,
                 answer, await, hook, trigger, cancel, fresh, sweeps>>
    BY DEF SweepRemove, SweepIdle, jobVars, marks, pollVars, hookVars, sweepVars
<1>1. TypeOK'
    <2>1. gone' \in SUBSET Files BY DEF SweepRemove, TypeOK
    <2>2. collected' \in BOOLEAN /\ dismissed' \in BOOLEAN
        <3>1. collected' = collected \/ collected' = FALSE BY DEF SweepRemove, marks
        <3>2. dismissed' = dismissed \/ dismissed' = FALSE BY DEF SweepRemove, marks
        <3> QED BY <3>1, <3>2 DEF TypeOK
    <2>3. sweep' \in {"idle", "remove"} BY DEF SweepRemove
    <2> QED BY <1>f, <2>1, <2>2, <2>3 DEF TypeOK
<1>2. Polls'
    BY <1>f DEF SweepRemove, TypeOK, Polls, Over, Readers
<1>3. AnswerFinal'
    BY <1>f DEF SweepRemove, TypeOK, Polls, AnswerFinal, Outcome, Over, Terminal,
       Readers
<1>4. Awaits'
    BY <1>f DEF SweepRemove, TypeOK, Awaits
<1>5. AwaitSound'
    BY <1>f DEF SweepRemove, TypeOK, Awaits, AwaitSound
<1>6. Sweeps'
    BY <1>f DEF SweepRemove, TypeOK, Sweeps
<1>7. SweepKeepsFresh'
    BY <1>f DEF SweepRemove, TypeOK, Sweeps, SweepKeepsFresh, Over
<1>8. Wakes'
    <2>1. (collected' => collected) /\ (dismissed' => dismissed)
        <3>1. collected' = collected \/ collected' = FALSE BY DEF SweepRemove, marks
        <3>2. dismissed' = dismissed \/ dismissed' = FALSE BY DEF SweepRemove, marks
        <3> QED BY <3>1, <3>2
    <2> QED BY <1>f, <2>1 DEF Wakes, Terminal
<1>9. NoLostWake'
    BY <1>f DEF NoLostWake, Terminal
<1> QED BY <1>1, <1>2, <1>3, <1>4, <1>5, <1>6, <1>7, <1>8, <1>9

-----------------------------------------------------------------------------
\* It holds at first.
LEMMA InvInit == Init => IInv
<1> SUFFICES ASSUME Init PROVE IInv
    OBVIOUS
<1> USE BoundsNat, NamesDistinct DEF Init, Job!Init, NoAnswer
<1>1. TypeOK
    <2>1. NoAnswer \in Answers BY DEF Answers, States
    <2>2. /\ pc \in [Readers -> {"idle"}] /\ idSeen \in [Readers -> BOOLEAN]
          /\ code \in [Readers -> {"none"}] /\ answer \in [Readers -> Answers]
        BY <2>1
    <2>3. text \in 0 .. MaxText /\ sweeps \in 0 .. MaxSweeps OBVIOUS
    <2> QED BY <2>2, <2>3 DEF TypeOK
<1>2. Polls /\ AnswerFinal BY DEF Polls, AnswerFinal, Terminal
<1>3. Awaits /\ AwaitSound /\ Sweeps /\ SweepKeepsFresh
    BY DEF Awaits, AwaitSound, Sweeps, SweepKeepsFresh
<1>4. Wakes /\ NoLostWake BY DEF Wakes, NoLostWake
<1> QED BY <1>1, <1>2, <1>3, <1>4 DEF IInv

\* Every step keeps it.
LEMMA InvNext == IInv /\ [Next]_vars => IInv'
<1> SUFFICES ASSUME IInv, [Next]_vars PROVE IInv'
    OBVIOUS
<1>1. CASE SupervisorStep BY <1>1, SupervisorWrites
<1>2. ASSUME NEW r \in Readers, PollStep(r) PROVE IInv'
    BY <1>2, PollReadsStep, CheckAliveStep, PollConcludesStep DEF PollStep
<1>3. ASSUME NEW t \in Tools, Begin(t) \/ ToolStep(t) PROVE IInv'
    <2>1. t \in Readers BY DEF Readers
    <2> QED BY <1>2, <1>3, <2>1, ToolMovesStep, ReturnOutcomeStep DEF ToolStep
<1>4. CASE Cancel \/ CancelDismiss BY <1>4, CancelsStep
<1>5. CASE AwaitRead \/ AwaitExit \/ AwaitAgain BY <1>5, AwaitingStep
<1>6. ASSUME NEW t \in Tools \cup {NoTool}, HookBegin(t) PROVE IInv'
    BY <1>6, HookBeginStep
<1>7. CASE HookStep \/ HookTimeout \/ HookInterrupt
    <2>1. Hook \in Readers BY DEF Readers
    <2> QED BY <1>2, <1>7, <2>1, HookShortStep, HookTerminalStep, HookLeavesStep, HookPollsStep
        DEF HookStep
<1>8. CASE SweepBegin \/ SweepStep \/ SweepStops
    BY <1>8, SweepLooksStep, SweepRemoveStep DEF SweepStep
<1>9. CASE UNCHANGED vars
    BY <1>9 DEF vars, jobVars, marks, pollVars, hookVars, sweepVars, IInv, TypeOK, Polls, Over,
                Awaits, Sweeps, Wakes, AnswerFinal, AwaitSound, SweepKeepsFresh, NoLostWake,
                Terminal
<1> QED BY <1>1, <1>3, <1>4, <1>5, <1>6, <1>7, <1>8, <1>9 DEF Next

-----------------------------------------------------------------------------
\* In every behaviour the readers and the job's files agree.
THEOREM Consistent == Spec => []IInv
<1>1. Init => IInv BY InvInit
<1>2. IInv /\ [Next]_vars => IInv' BY InvNext
<1> QED BY <1>1, <1>2, PTL DEF Spec

\* A terminal answer is the one the finished directory gives.
THEOREM AnswersAreFinal == Spec => []AnswerFinal
<1>1. IInv => AnswerFinal BY DEF IInv
<1> QED BY <1>1, Consistent, PTL

\* AwaitConversationID never gives up on a conversation that has a name.
THEOREM AwaitNeverMisses == Spec => []AwaitSound
<1>1. IInv => AwaitSound BY DEF IInv
<1> QED BY <1>1, Consistent, PTL

\* A collection removes neither a running job nor one it saw end.
THEOREM FreshIsKept == Spec => []SweepKeepsFresh
<1>1. IInv => SweepKeepsFresh BY DEF IInv
<1> QED BY <1>1, Consistent, PTL

\* hook-wait is silent only about an outcome somebody has or asked for.
THEOREM WakesAreOwed == Spec => []NoLostWake
<1>1. IInv => NoLostWake BY DEF IInv
<1> QED BY <1>1, Consistent, PTL
=============================================================================
