-------------------------- MODULE SupervisorProofs --------------------------
(***************************************************************************)
(* Proofs about Supervisor, for any number of events and of faults.        *)
(*                                                                         *)
(* The inductive invariant says, in the order of its conjuncts: what run   *)
(* has done by each point of its body (Phases); that only a cancel or the  *)
(* timer makes the terminating goroutine signal, which then keeps to the   *)
(* one it took, and only a SIGTERM the handler received makes it cancel    *)
(* (Causes); and how far the drain can have taken the files (Record).      *)
(***************************************************************************)
EXTENDS Supervisor, TLAPS

BeforeStart == {"boot", "files", "mark", "start"}
Draining == {"wait", "reaped", "drain", "closing"}
AfterWait == {"reaped", "drain", "closing", "persist", "sentinel"}
Ended == {"return", "gone"}

Phases ==
    /\ main \in BeforeStart => agy = "none" /\ killer = "off" /\ drain = "off"
    /\ main = "wait" => agy \in {"running", "dead"}
    /\ main \in AfterWait => agy = "reaped"
    /\ status = "none" <=> agy \in {"none", "running"}
    /\ drain = "reading" => main \in Draining
    /\ exit # "none" => main \in Ended
    /\ exit # "none" => agy \in {"none", "reaped"}

Causes ==
    /\ cancelled \/ sigBuf \/ fwd = "fired" => asked
    /\ killer \in {"terminate", "grace", "expired", "kill"} => timedOut \/ cancelled
    /\ killer = "select" \/ main \in BeforeStart => ~timedOut /\ ~cancelled
    /\ termed => timedOut \/ cancelled
    /\ killer \in {"grace", "expired", "kill"} /\ agy = "running" => termed
    /\ status = "sigkill" => termed

Record ==
    /\ out <= got
    /\ result => main \in {"sentinel"} \cup Ended
    /\ main \in {"boot", "files", "mark"} => progress = "absent"

IInv == TypeOK /\ Phases /\ Causes /\ Record /\ SentinelSound

-----------------------------------------------------------------------------
\* No step gives a flag another value than TRUE or FALSE.
LEMMA FlagsNext == TypeOK /\ [Next]_vars => Flags'
<1> SUFFICES ASSUME Flags, [Next]_vars PROVE Flags'
    BY DEF TypeOK
<1> USE DEF Flags, sigVars, killVars, agyVars, drainVars, fileVars
<1>1. CASE Arm
    BY <1>1 DEF Arm, Fault, NoFault
<1>2. CASE OpenFiles
    BY <1>2 DEF OpenFiles, Fault, NoFault
<1>3. CASE Mark
    BY <1>3 DEF Mark, Fault, NoFault
<1>4. CASE StartAgy
    BY <1>4 DEF StartAgy, Fault, NoFault
<1>5. CASE WaitReturns
    BY <1>5 DEF WaitReturns
<1>6. CASE CloseDone
    BY <1>6 DEF CloseDone
<1>7. CASE DrainReceived
    BY <1>7 DEF DrainReceived
<1>8. CASE DrainExpires
    BY <1>8 DEF DrainExpires
<1>9. CASE Persist
    BY <1>9 DEF Persist, Fault, NoFault
<1>10. CASE WriteSentinel
    BY <1>10 DEF WriteSentinel, Fault, NoFault, ResolveExitCode, RawCode
<1>11. CASE Return
    BY <1>11 DEF Return
<1>12. CASE KillerDone
    BY <1>12 DEF KillerDone
<1>13. CASE KillerCancel
    BY <1>13 DEF KillerCancel
<1>14. CASE Terminate
    BY <1>14 DEF Terminate
<1>15. CASE GraceExpires
    BY <1>15 DEF GraceExpires
<1>16. CASE Escalate
    BY <1>16 DEF Escalate
<1>17. CASE Kill
    BY <1>17 DEF Kill
<1>18. CASE KillerTimeout
    BY <1>18 DEF KillerTimeout
<1>19. CASE DrainRead
    BY <1>19 DEF DrainRead, Fault, NoFault, AppendDelta, IsInit, IsResult
<1>20. CASE DrainEnd
    BY <1>20 DEF DrainEnd
<1>21. CASE Forward
    BY <1>21, ZenonT(40) DEF Forward
<1>22. CASE Cancel
    BY <1>22 DEF Cancel, Deliver
<1>23. CASE CancelEarly
    BY <1>23 DEF CancelEarly
<1>24. CASE Crash
    BY <1>24 DEF Crash, Fault
<1>25. CASE Emit
    BY <1>25, ZenonT(40) DEF Emit
<1>26. CASE AgyExit
    BY <1>26 DEF AgyExit
<1>27. CASE Descendant
    BY <1>27, ZenonT(40) DEF Descendant
<1>28. CASE UNCHANGED vars
    BY <1>28 DEF vars
<1> QED BY <1>1, <1>2, <1>3, <1>4, <1>5, <1>6, <1>7, <1>8, <1>9, <1>10, <1>11, <1>12, <1>13, <1>14,
    <1>15, <1>16, <1>17, <1>18, <1>19, <1>20, <1>21, <1>22, <1>23, <1>24, <1>25, <1>26,
    <1>27, <1>28
    DEF Next, MainStep, KillerStep, DrainStep

\* It holds at first.
LEMMA InvInit == Init => IInv
<1> SUFFICES ASSUME Init PROVE IInv
    OBVIOUS
<1>flags. Flags BY DEF Init, Flags
<1>1. TypeOK BY <1>flags, BoundsNat DEF Init, TypeOK, Codes, Signals, OwnExits
<1>2. Phases BY DEF Init, Phases, BeforeStart, Draining, AfterWait, Ended
<1>3. Causes BY DEF Init, Causes
<1>4. Record BY DEF Init, Record
<1>5. SentinelSound BY DEF Init, SentinelSound
<1> QED BY <1>1, <1>2, <1>3, <1>4, <1>5 DEF IInv

\* Every step keeps it, action by action.
LEMMA InvNext == IInv /\ [Next]_vars => IInv'
<1> SUFFICES ASSUME IInv, [Next]_vars PROVE IInv'
    OBVIOUS
<1>flags. Flags' BY FlagsNext DEF IInv
<1> USE BoundsNat DEF IInv, TypeOK, Codes, Signals, OwnExits, Phases, Causes, Record, SentinelSound,
    BeforeStart, Draining, AfterWait, Ended,
    sigVars, killVars, agyVars, drainVars, fileVars
<1>1. CASE Arm
    BY <1>1, <1>flags DEF Arm, Fault, NoFault
<1>2. CASE OpenFiles
    BY <1>2, <1>flags DEF OpenFiles, Fault, NoFault
<1>3. CASE Mark
    BY <1>3, <1>flags DEF Mark, Fault, NoFault
<1>4. CASE StartAgy
  <2> USE <1>4 DEF StartAgy, Fault, NoFault
  <2>1. TypeOK'
    BY <1>flags
  <2>2. Phases'
    OBVIOUS
  <2>3. Causes' /\ Record'
    OBVIOUS
  <2>4. SentinelSound'
    <3>1. CASE main' = "wait"
      <4>1. exit' = "none"
        BY <3>1
      <4> QED BY <4>1
    <3>2. CASE main' = "return"
      <4>1. agy' = "none" /\ exit' \in {"none", "spawnfail"}
        BY <3>2
      <4> QED BY ONLY <4>1 DEF SentinelSound
    <3> QED BY <3>1, <3>2
  <2> QED BY <2>1, <2>2, <2>3, <2>4
<1>5. CASE WaitReturns
    BY <1>5, <1>flags DEF WaitReturns
<1>6. CASE CloseDone
    BY <1>6, <1>flags DEF CloseDone
<1>7. CASE DrainReceived
    BY <1>7, <1>flags DEF DrainReceived
<1>8. CASE DrainExpires
    BY <1>8, <1>flags DEF DrainExpires
<1>9. CASE Persist
    BY <1>9, <1>flags DEF Persist, Fault, NoFault
<1>10. CASE WriteSentinel
    BY <1>10, <1>flags DEF WriteSentinel, Fault, NoFault, ResolveExitCode, RawCode
<1>11. CASE Return
    BY <1>11, <1>flags DEF Return
<1>12. CASE KillerDone
    BY <1>12, <1>flags DEF KillerDone
<1>13. CASE KillerCancel
    BY <1>13, <1>flags DEF KillerCancel
<1>14. CASE Terminate
  <2> USE <1>14 DEF Terminate
  <2>1. TypeOK'
    BY <1>flags
  <2>2. Phases' /\ Record'
    OBVIOUS
  <2>3. Causes'
    <3>1. timedOut' \/ cancelled'
      OBVIOUS
    <3>2. agy' = "running" => termed'
      OBVIOUS
    <3>3. status' = "sigkill" => termed'
      OBVIOUS
    <3> QED BY <3>1, <3>2, <3>3
  <2>4. SentinelSound'
    <3>1. exit' = "none" \/ (agy' = "none" \/ agy' = "reaped")
      OBVIOUS
    <3>2. agy = "reaped" => (termed' <=> termed)
      OBVIOUS
    <3> QED BY <3>1, <3>2
  <2> QED BY <2>1, <2>2, <2>3, <2>4
<1>15. CASE GraceExpires
    BY <1>15, <1>flags DEF GraceExpires
<1>16. CASE Escalate
    BY <1>16, <1>flags DEF Escalate
<1>17. CASE Kill
    BY <1>17, <1>flags DEF Kill
<1>18. CASE KillerTimeout
    BY <1>18, <1>flags DEF KillerTimeout
<1>19. CASE DrainRead
    BY <1>19, <1>flags DEF DrainRead, Fault, NoFault, AppendDelta, IsInit, IsResult
<1>20. CASE DrainEnd
    BY <1>20, <1>flags DEF DrainEnd
<1>21. CASE Forward
    BY <1>21, <1>flags DEF Forward
<1>22. CASE Cancel
    BY <1>22, <1>flags DEF Cancel, Deliver
<1>23. CASE CancelEarly
    BY <1>23, <1>flags DEF CancelEarly
<1>24. CASE Crash
    BY <1>24, <1>flags DEF Crash, Fault
<1>25. CASE Emit
    BY <1>25, <1>flags DEF Emit
<1>26. CASE AgyExit
    BY <1>26, <1>flags DEF AgyExit
<1>27. CASE Descendant
    BY <1>27, <1>flags DEF Descendant
<1>28. CASE UNCHANGED vars
    BY <1>28, <1>flags DEF vars
<1> QED BY <1>1, <1>2, <1>3, <1>4, <1>5, <1>6, <1>7, <1>8, <1>9, <1>10, <1>11, <1>12, <1>13, <1>14,
    <1>15, <1>16, <1>17, <1>18, <1>19, <1>20, <1>21, <1>22, <1>23, <1>24, <1>25, <1>26,
    <1>27, <1>28
    DEF Next, MainStep, KillerStep, DrainStep

\* Every reachable state satisfies the invariant.
LEMMA Invariance == Spec => []IInv
BY InvInit, InvNext, PTL DEF Spec

-----------------------------------------------------------------------------
(* Steps of the supervisor and the files of the job.                       *)

\* Once the sentinel exists, run has returned and the drain has ended, so no
\* action that writes a file is enabled.
LEMMA LastStep == IInv /\ [Next]_vars => (exit # "none" => UNCHANGED fileVars)
<1> SUFFICES ASSUME IInv, [Next]_vars, exit # "none" PROVE UNCHANGED fileVars
    OBVIOUS
<1>1. main \in Ended /\ drain # "reading"
    BY DEF IInv, Phases, Ended, Draining
<1> USE <1>1 DEF Ended, sigVars, killVars, agyVars, drainVars, fileVars
<1>2. CASE MainStep
    BY <1>2 DEF MainStep, Arm, OpenFiles, Mark, StartAgy, WaitReturns, CloseDone,
        DrainReceived, DrainExpires, Persist, WriteSentinel, Return
<1>3. CASE KillerStep \/ KillerTimeout
    BY <1>3 DEF KillerStep, KillerTimeout, KillerDone, KillerCancel, Terminate,
        GraceExpires, Escalate, Kill
<1>4. CASE DrainStep
    BY <1>4 DEF DrainStep, DrainRead, DrainEnd
<1>5. CASE Forward \/ Cancel \/ CancelEarly \/ Crash
    BY <1>5 DEF Forward, Cancel, CancelEarly, Crash
<1>6. CASE Emit \/ AgyExit \/ Descendant
    BY <1>6 DEF Emit, AgyExit, Descendant
<1>7. CASE UNCHANGED vars
    BY <1>7 DEF vars
<1> QED BY <1>2, <1>3, <1>4, <1>5, <1>6, <1>7 DEF Next

\* Before the supervisor's end every resolved code is one a reader knows.
LEMMA ResolvedCode == TypeOK /\ status # "none" => ResolveExitCode \in Contract!Verdicts
BY DEF TypeOK, Signals, OwnExits, ResolveExitCode, RawCode, Contract!Verdicts

\* A decoded event is mirrored before the payload and the sentinel exist.
LEMMA MirrorStep ==
    ASSUME IInv, DrainRead
    PROVE Contract!Mirror \/ UNCHANGED Contract!jobVars
<1>1. main \in Draining BY DEF IInv, Phases, DrainRead
<1>2. exit = "none" /\ ~result /\ main # "gone"
    BY <1>1 DEF IInv, Phases, Record, Draining, Ended
<1>3. UNCHANGED <<main, result, exit>> BY DEF DrainRead
<1>4. got + 1 = 1 \/ UNCHANGED progress BY DEF DrainRead, IsInit
<1>5. CASE out' = out + 1 /\ UNCHANGED progress
    BY <1>2, <1>3, <1>5 DEF Contract!Mirror
<1>6. CASE progress' = "named" /\ UNCHANGED out
    BY <1>2, <1>3, <1>6 DEF Contract!Mirror, Contract!jobVars
<1>7. CASE UNCHANGED <<progress, out>>
    BY <1>3, <1>7 DEF Contract!jobVars
<1> QED BY <1>5, <1>6, <1>7 DEF DrainRead, AppendDelta, IsInit

\* Every step is a step of the contract, or one that readers cannot see.
LEMMA ContractStep == IInv /\ [Next]_vars => [Contract!Next]_(Contract!jobVars)
<1> SUFFICES ASSUME IInv, [Next]_vars PROVE [Contract!Next]_(Contract!jobVars)
    OBVIOUS
<1> USE DEF Contract!Next, Contract!jobVars, fileVars
<1>1. CASE Arm \/ OpenFiles \/ CancelEarly \/ Return \/ Crash
    BY <1>1 DEF Arm, OpenFiles, CancelEarly, Return, Crash, Contract!Die
<1>2. CASE Mark
    <2>1. progress = "absent" /\ progress' # "named"
        BY <1>2 DEF Mark, IInv, Record
    <2>2. UNCHANGED <<out, result, exit>> /\ main # "gone" /\ main' # "gone"
        BY <1>2 DEF Mark
    <2> QED BY <2>1, <2>2
<1>3. CASE StartAgy
    <2>1. exit = "none" BY <1>3 DEF StartAgy, IInv, Phases, Ended
    <2>2. UNCHANGED <<progress, out, result>> /\ main # "gone" /\ main' # "gone"
        BY <1>3 DEF StartAgy
    <2>3. exit' = "spawnfail" \/ UNCHANGED exit BY <1>3 DEF StartAgy
    <2> QED BY <2>1, <2>2, <2>3 DEF Contract!Conclude, Contract!Verdicts
<1>4. CASE Persist
    <2>1. exit = "none" /\ ~result BY <1>4 DEF Persist, IInv, Phases, Record, Ended
    <2>2. UNCHANGED <<progress, out, exit>> /\ main # "gone" /\ main' # "gone"
        BY <1>4 DEF Persist
    <2>3. gotResult \in BOOLEAN /\ result \in BOOLEAN BY DEF IInv, TypeOK, Flags
    <2>4. result' = TRUE \/ UNCHANGED result
        BY <1>4, <2>1, <2>3 DEF Persist
    <2> QED BY <2>1, <2>2, <2>4 DEF Contract!Publish
<1>5. CASE WriteSentinel
    <2>1. exit = "none" /\ status # "none"
        BY <1>5 DEF WriteSentinel, IInv, Phases, AfterWait, Ended
    <2>2. UNCHANGED <<progress, out, result>> /\ main # "gone" /\ main' # "gone"
        BY <1>5 DEF WriteSentinel
    <2>3. exit' = ResolveExitCode \/ UNCHANGED exit BY <1>5 DEF WriteSentinel
    <2> QED BY <2>1, <2>2, <2>3, ResolvedCode DEF IInv, Contract!Conclude
<1>6. CASE DrainRead
    BY <1>6, MirrorStep
<1>7. CASE WaitReturns \/ CloseDone \/ DrainReceived \/ DrainExpires
    BY <1>7 DEF WaitReturns, CloseDone, DrainReceived, DrainExpires
<1>8. CASE KillerStep \/ KillerTimeout
    BY <1>8 DEF KillerStep, KillerTimeout, KillerDone, KillerCancel, Terminate,
        GraceExpires, Escalate, Kill
<1>9. CASE DrainEnd \/ Forward \/ Cancel
    BY <1>9 DEF DrainEnd, Forward, Cancel
<1>10. CASE Emit \/ AgyExit \/ Descendant
    BY <1>10 DEF Emit, AgyExit, Descendant
<1>11. CASE UNCHANGED vars
    BY <1>11 DEF vars
<1> QED BY <1>1, <1>2, <1>3, <1>4, <1>5, <1>6, <1>7, <1>8, <1>9, <1>10, <1>11
    DEF Next, MainStep, DrainStep

\* The initial directory is the contract's.
LEMMA ContractInit == Init => Contract!Init
BY DEF Init, Contract!Init

-----------------------------------------------------------------------------
(* What the files hold when the sentinel appears.                          *)

\* The drain is behind agy, and has the result exactly when it has it all.
Decoded ==
    /\ main \in BeforeStart => got = 0
    /\ got <= sent
    /\ gotResult <=> finished /\ got = sent
    /\ finished => sent > 1
    /\ drain = "done" => agy \in {"dead", "reaped"}
    /\ expired => agy = "reaped"
    /\ drain = "done" /\ ~expired => got = sent
    /\ main \in {"persist", "sentinel"} => drain = "done"

\* As long as nothing has failed, the files mirror what is decoded.
Mirrored ==
    faults = 0 =>
        /\ main \notin {"boot", "files", "mark", "gone"} =>
              progress = IF got > 0 THEN "named" ELSE "marker"
        /\ out = IF got = 0 THEN 0 ELSE IF gotResult THEN got - 2 ELSE got - 1
        /\ main = "sentinel" => (result <=> gotResult)

RInv == IInv /\ Decoded /\ Mirrored /\ RecordComplete

\* The empty directory mirrors the empty stream.
LEMMA RecordInit == Init => RInv
<1> SUFFICES ASSUME Init PROVE RInv
    OBVIOUS
<1>1. Decoded BY DEF Init, Decoded
<1>2. Mirrored BY DEF Init, Mirrored
<1>3. RecordComplete BY DEF Init, RecordComplete
<1> QED BY <1>1, <1>2, <1>3, InvInit DEF RInv

\* Every step keeps it: only Emit and DrainRead move the stream, and the
\* steps of run that follow the drain leave it alone.
LEMMA RecordNext == RInv /\ [Next]_vars => RInv'
<1> SUFFICES ASSUME RInv, [Next]_vars PROVE (Decoded /\ Mirrored /\ RecordComplete)'
    BY InvNext DEF RInv
<1>flags. Flags BY DEF RInv, IInv, TypeOK
<1>type. /\ got \in Nat /\ sent \in Nat /\ out \in Nat /\ faults \in Nat
         /\ MaxEvents \in Nat
    BY BoundsNat DEF RInv, IInv, TypeOK
<1>phases. Phases BY DEF RInv, IInv
<1>record. Record BY DEF RInv, IInv
<1> USE <1>type, <1>phases, <1>record
    DEF RInv, Flags, Phases, Record, Decoded, Mirrored, RecordComplete,
    BeforeStart, Draining, AfterWait, Ended,
    sigVars, killVars, agyVars, drainVars, fileVars
<1>1. CASE Arm
    BY <1>1 DEF Arm, Fault, NoFault
<1>2. CASE OpenFiles
    BY <1>2 DEF OpenFiles, Fault, NoFault
<1>3. CASE Mark
    BY <1>3 DEF Mark, Fault, NoFault
<1>4. CASE StartAgy
    BY <1>4 DEF StartAgy, Fault, NoFault
<1>5. CASE WaitReturns
    BY <1>5 DEF WaitReturns
<1>6. CASE CloseDone
    BY <1>6 DEF CloseDone
<1>7. CASE DrainReceived
    BY <1>7 DEF DrainReceived
<1>8. CASE DrainExpires
    BY <1>8 DEF DrainExpires
<1>9. CASE Persist
    BY <1>9 DEF Persist, Fault, NoFault
<1>10. CASE WriteSentinel
    BY <1>10 DEF WriteSentinel, Fault, NoFault, ResolveExitCode, RawCode
<1>11. CASE Return
    BY <1>11 DEF Return
<1>12. CASE KillerDone
    BY <1>12 DEF KillerDone
<1>13. CASE KillerCancel
    BY <1>13 DEF KillerCancel
<1>14. CASE Terminate
    BY <1>14 DEF Terminate
<1>15. CASE GraceExpires
    BY <1>15 DEF GraceExpires
<1>16. CASE Escalate
    BY <1>16 DEF Escalate
<1>17. CASE Kill
    BY <1>17 DEF Kill
<1>18. CASE KillerTimeout
    BY <1>18 DEF KillerTimeout
<1>19. CASE DrainRead
    <2>1. got < sent /\ drain = "reading" /\ got' = got + 1 /\ ~gotResult
        BY <1>19 DEF DrainRead
    <2>2. UNCHANGED <<main, agy, drain, sent, finished, expired, result, exit>>
        BY <1>19 DEF DrainRead
    <2>3. gotResult' <=> finished /\ got' = sent
        BY <1>19, <2>1 DEF DrainRead, IsResult
    <2>4. Decoded'
        BY <2>1, <2>2, <2>3
    <2>5. exit = "none" /\ main # "sentinel" /\ main \notin BeforeStart
        BY <2>1
    <2>6. ASSUME faults' = 0 PROVE Mirrored'
        <3>1. faults = 0
            BY <1>19, <2>6, <1>type DEF DrainRead, Fault, NoFault
        <3>2. IF IsInit(got + 1) THEN progress' = "named" ELSE UNCHANGED progress
            BY <1>19, <2>6, <3>1 DEF DrainRead, Fault
        <3>3. IF ~IsInit(got + 1) /\ ~IsResult(got + 1) THEN AppendDelta ELSE UNCHANGED out
            BY <1>19, <2>6, <3>1 DEF DrainRead, Fault
        <3>4. IF got = 0 THEN progress' = "named" ELSE UNCHANGED progress
            BY <3>2 DEF IsInit
        <3>5. IF got # 0 /\ ~(finished /\ got' = sent) THEN out' = out + 1 ELSE UNCHANGED out
            BY <2>1, <3>3 DEF IsInit, IsResult, AppendDelta
        <3>6. progress = IF got > 0 THEN "named" ELSE "marker"
            BY <3>1, <2>1
        <3>7. progress' = IF got' > 0 THEN "named" ELSE "marker"
            BY <2>1, <3>4, <3>6
        <3>8. out = IF got = 0 THEN 0 ELSE got - 1
            BY <2>1, <3>1
        <3>9. finished => sent > 1
            OBVIOUS
        <3>10. out' = IF got' = 0 THEN 0 ELSE IF finished /\ got' = sent THEN got' - 2 ELSE got' - 1
            BY <2>1, <3>5, <3>8, <3>9
        <3>11. out' = IF got' = 0 THEN 0 ELSE IF gotResult' THEN got' - 2 ELSE got' - 1
            BY ONLY <2>3, <3>10
        <3>12. main' # "sentinel"
            BY ONLY <2>2, <2>5
        <3> QED BY ONLY <3>7, <3>11, <3>12 DEF Mirrored
    <2>7. Mirrored'
        <3>1. CASE faults' = 0 BY <2>6, <3>1
        <3>2. CASE faults' # 0 BY ONLY <3>2 DEF Mirrored
        <3> QED BY ONLY <3>1, <3>2
    <2> QED BY <2>2, <2>4, <2>5, <2>7
<1>20. CASE DrainEnd
    BY <1>20 DEF DrainEnd
<1>21. CASE Forward
    BY <1>21 DEF Forward
<1>22. CASE Cancel
    BY <1>22 DEF Cancel, Deliver
<1>23. CASE CancelEarly
    BY <1>23 DEF CancelEarly
<1>24. CASE Crash
    BY <1>24 DEF Crash, Fault
<1>25. CASE Emit
    <2>1. /\ agy = "running" /\ ~finished /\ sent' = sent + 1
          /\ sent = 0 => ~finished'
        BY <1>25 DEF Emit
    <2>2. UNCHANGED <<main, agy, drain, got, gotResult, expired, progress, out, result, exit,
                      faults>>
        BY <1>25 DEF Emit
    <2>3. Decoded'
        BY <2>1, <2>2
    <2>4. exit = "none"
        BY <2>1
    <2> QED BY <2>2, <2>3, <2>4
<1>26. CASE AgyExit
    BY <1>26 DEF AgyExit
<1>27. CASE Descendant
    BY <1>27 DEF Descendant
<1>28. CASE UNCHANGED vars
    BY <1>28 DEF vars
<1> QED BY <1>1, <1>2, <1>3, <1>4, <1>5, <1>6, <1>7, <1>8, <1>9, <1>10, <1>11, <1>12, <1>13, <1>14,
    <1>15, <1>16, <1>17, <1>18, <1>19, <1>20, <1>21, <1>22, <1>23, <1>24, <1>25, <1>26,
    <1>27, <1>28
    DEF Next, MainStep, KillerStep, DrainStep

-----------------------------------------------------------------------------
\* The variables keep their types, for any bounds.
THEOREM TypeCorrect == Spec => []TypeOK
<1>1. IInv => TypeOK BY DEF IInv
<1> QED BY <1>1, Invariance, PTL

\* The sentinel tells the truth about the end of the run: success only for a
\* clean exit, a termination of ours under its own name whatever agy died of,
\* and any other code with the cause it stands for or as agy's own
\* (resolveExitCode, signalExitCode).
THEOREM SentinelTruth == Spec => []SentinelSound
<1>1. IInv => SentinelSound BY DEF IInv
<1> QED BY <1>1, Invariance, PTL

\* A record that could be written is complete when the sentinel appears: all
\* of the stream unless drainGrace cut it off, and the result if it was read.
THEOREM RecordWhole == Spec => []RecordComplete
<1>1. Spec => []RInv BY RecordInit, RecordNext, PTL DEF Spec
<1>2. RInv => RecordComplete BY DEF RInv
<1> QED BY <1>1, <1>2, PTL

\* Nothing in the job directory changes after the sentinel: what lets every
\* reader take it for the end (persist before WriteExitCodeDir).
THEOREM SentinelLast == Spec => SentinelIsLast
<1>1. [][IInv /\ [Next]_vars]_vars => [][exit # "none" => UNCHANGED fileVars]_vars
    BY LastStep, PTL
<1> QED BY <1>1, Invariance, PTL DEF Spec, SentinelIsLast

\* The supervisor implements the contract of the job directory, whatever agy
\* emits and whatever fails.
THEOREM Implements == Spec => ImplementsJobDir
BY ContractInit, ContractStep, Invariance, PTL DEF Spec, ImplementsJobDir, Contract!Spec
=============================================================================
