----------------------------- MODULE Supervisor -----------------------------
(***************************************************************************)
(* One detached supervisor (agy-mcp run-job): the goroutine of run, the    *)
(* goroutine that terminates agy on a cancel or a timeout, the goroutine   *)
(* that drains agy's event stream into the job directory, the signal       *)
(* forwarder, and around them agy, a descendant that outlives agy's        *)
(* process group, and the manager that asks for a cancel.                  *)
(*                                                                         *)
(* Time is abstract: a timer may fire whenever it is armed.  The stream is *)
(* a count of events, the first of them agy's init event and the last,     *)
(* once the turn is finished, its terminal result.                         *)
(***************************************************************************)
EXTENDS Integers

CONSTANTS
    MaxEvents,  \* bound: events agy emits
    MaxFaults   \* bound: crashes of the supervisor and failing file operations

ASSUME BoundsNat == MaxEvents \in Nat /\ MaxFaults \in Nat

VARIABLES
    main,       \* the goroutine of run; "gone" when the process has ended
    fwd,        \* waitForCancel's goroutine; "fired" when it closed cancel
    sigBuf,     \* a SIGTERM waits in the signal channel
    killer,     \* the goroutine that terminates agy
    done,       \* closed once cmd.Wait has returned
    timedOut, cancelled,
    agy,        \* the agy process; "dead" until it is reaped
    status,     \* how agy ended
    termed,     \* agy's group was sent SIGTERM while agy ran
    holder,     \* a descendant outside the group holds the pipe's write end
    sent, finished,     \* events written to the pipe; the last is the result
    drain, got, gotResult,  \* consumeStream: events decoded, result among them
    expired,    \* drainGrace elapsed and the read end was closed
    progress, out, result, exit,    \* the files of the job directory
    asked,      \* history: a cancel reached the armed handler
    early,      \* history: a cancel killed the supervisor before that
    lateSignal, \* history: the group was signalled after agy was reaped
    faults

sigVars == <<fwd, sigBuf, asked, early>>
killVars == <<killer, timedOut, cancelled>>
agyVars == <<agy, status, termed, holder, sent, finished>>
drainVars == <<drain, got, gotResult>>
fileVars == <<progress, out, result, exit>>
vars == <<main, sigVars, killVars, done, agyVars, drainVars, expired,
          fileVars, lateSignal, faults>>

\* What the sentinel says: 0, 128+n for a signal, 130 or 143, 124, 127, or
\* another code.
Codes == {"zero", "nonzero", "crash", "cancelled", "timeout", "spawnfail"}

\* Signals agy may die of that the supervisor did not send as SIGKILL.
Signals == {"sigterm", "sigint", "crash"}

\* Codes agy may exit with.  Nothing keeps it from those the supervisor uses:
\* 124, 127, 143 (or 130), and 137 for any above 128 that looks like a signal.
OwnExits == {"zero", "nonzero", "exit124", "exit127", "exit137", "exit143"}

Flags ==
    /\ sigBuf \in BOOLEAN /\ done \in BOOLEAN
    /\ timedOut \in BOOLEAN /\ cancelled \in BOOLEAN
    /\ termed \in BOOLEAN /\ holder \in BOOLEAN /\ finished \in BOOLEAN
    /\ gotResult \in BOOLEAN /\ expired \in BOOLEAN /\ result \in BOOLEAN
    /\ asked \in BOOLEAN /\ early \in BOOLEAN /\ lateSignal \in BOOLEAN

\* Each variable holds a value the code can give it.
TypeOK ==
    /\ main \in {"boot", "files", "mark", "start", "wait", "reaped", "drain",
                 "closing", "persist", "sentinel", "return", "gone"}
    /\ fwd \in {"off", "starting", "waiting", "fired"}
    /\ killer \in {"off", "select", "terminate", "grace", "expired", "kill", "end"}
    /\ agy \in {"none", "running", "dead", "reaped"}
    /\ status \in {"none", "sigkill"} \cup Signals \cup OwnExits
    /\ drain \in {"off", "reading", "done"}
    /\ progress \in {"absent", "marker", "named"}
    /\ exit \in Codes \cup {"none"}
    /\ sent \in 0 .. MaxEvents /\ got \in 0 .. MaxEvents /\ out \in 0 .. MaxEvents
    /\ faults \in 0 .. MaxFaults
    /\ Flags

Init ==
    /\ main = "boot" /\ fwd = "off" /\ sigBuf = FALSE
    /\ killer = "off" /\ done = FALSE /\ timedOut = FALSE /\ cancelled = FALSE
    /\ agy = "none" /\ status = "none" /\ termed = FALSE /\ holder = FALSE
    /\ sent = 0 /\ finished = FALSE
    /\ drain = "off" /\ got = 0 /\ gotResult = FALSE /\ expired = FALSE
    /\ progress = "absent" /\ out = 0 /\ result = FALSE /\ exit = "none"
    /\ asked = FALSE /\ early = FALSE /\ lateSignal = FALSE
    /\ faults = 0

\* A file operation that may fail does so within the bound.
Fault == faults < MaxFaults /\ faults' = faults + 1
NoFault == UNCHANGED faults

-----------------------------------------------------------------------------
(* run, up to the start of agy.                                            *)

\* LoadDir, then waitForCancel before anything else.
Arm ==
    /\ main = "boot"
    /\ \/ main' = "files" /\ fwd' = "starting" /\ NoFault
       \/ main' = "gone" /\ UNCHANGED fwd /\ Fault
    /\ UNCHANGED <<sigBuf, asked, early, killVars, done, agyVars, drainVars, expired,
                   fileVars, lateSignal>>

\* out, err, /dev/null and the pipe; a failure leaves no sentinel.
OpenFiles ==
    /\ main = "files"
    /\ \/ main' = "mark" /\ NoFault
       \/ main' = "gone" /\ Fault
    /\ UNCHANGED <<sigVars, killVars, done, agyVars, drainVars, expired, fileVars, lateSignal>>

\* markStreamJSON, before the drain owns the file; its failure is only noted.
Mark ==
    /\ main = "mark"
    /\ main' = "start"
    /\ \/ progress' = "marker" /\ NoFault
       \/ UNCHANGED progress /\ Fault
    /\ UNCHANGED <<sigVars, killVars, done, agyVars, drainVars, expired, out, result,
                   exit, lateSignal>>

\* cmd.Start and the two goroutines; a failed start is a sentinel of its own.
StartAgy ==
    /\ main = "start"
    /\ \/ /\ main' = "wait" /\ agy' = "running" /\ killer' = "select" /\ drain' = "reading"
          /\ NoFault
          /\ UNCHANGED exit
       \/ /\ main' = "return"
          /\ \/ exit' = "spawnfail" /\ NoFault
             \/ UNCHANGED exit /\ Fault
          /\ UNCHANGED <<agy, killer, drain>>
    /\ UNCHANGED <<sigVars, timedOut, cancelled, done, status, termed, holder, sent, finished,
                   got, gotResult, expired, progress, out, result, lateSignal>>

-----------------------------------------------------------------------------
(* Cancellation: Manager.Cancel, or abortSpawn, sends SIGTERM.             *)

\* Faulty variant: a signal is lost unless the forwarder is receiving.
DeliverUnbuffered == sigBuf' = (sigBuf \/ fwd = "waiting")

\* signal.Notify never blocks: a second SIGTERM finds the buffer full.
Deliver == sigBuf' = TRUE

Cancel ==
    /\ main \notin {"boot", "return", "gone"}
    /\ Deliver
    /\ asked' = TRUE
    /\ UNCHANGED <<main, fwd, early, killVars, done, agyVars, drainVars, expired, fileVars,
                   lateSignal, faults>>

\* Without a handler SIGTERM has its default action.
CancelEarly ==
    /\ main = "boot"
    /\ main' = "gone" /\ early' = TRUE
    /\ UNCHANGED <<fwd, sigBuf, asked, killVars, done, agyVars, drainVars, expired, fileVars,
                   lateSignal, faults>>

Forward ==
    /\ main # "gone"
    /\ \/ fwd = "starting" /\ fwd' = "waiting" /\ UNCHANGED sigBuf
       \/ fwd = "waiting" /\ sigBuf /\ fwd' = "fired" /\ sigBuf' = FALSE
    /\ UNCHANGED <<main, asked, early, killVars, done, agyVars, drainVars, expired, fileVars,
                   lateSignal, faults>>

-----------------------------------------------------------------------------
(* The goroutine that terminates agy.  A select whose cases are both ready *)
(* takes either.                                                           *)

KillerDone ==
    /\ killer \in {"select", "grace", "expired"} /\ done
    /\ killer' = "end"
    /\ UNCHANGED <<main, sigVars, timedOut, cancelled, done, agyVars, drainVars, expired,
                   fileVars, lateSignal, faults>>

\* Each flag is closed before the group is signalled.
KillerCancel ==
    /\ killer = "select" /\ fwd = "fired"
    /\ cancelled' = TRUE /\ killer' = "terminate"
    /\ UNCHANGED <<main, sigVars, timedOut, done, agyVars, drainVars, expired, fileVars,
                   lateSignal, faults>>

KillerTimeout ==
    /\ killer = "select"
    /\ timedOut' = TRUE /\ killer' = "terminate"
    /\ UNCHANGED <<main, sigVars, cancelled, done, agyVars, drainVars, expired, fileVars,
                   lateSignal, faults>>

\* SIGTERM to the group, which agy may ignore.
Terminate ==
    /\ killer = "terminate"
    /\ killer' = "grace"
    /\ termed' = (termed \/ agy = "running")
    /\ lateSignal' = (lateSignal \/ agy = "reaped")
    /\ UNCHANGED <<main, sigVars, timedOut, cancelled, done, agy, status, holder, sent, finished,
                   drainVars, expired, fileVars, faults>>

\* Faulty variant: the grace passes and nothing follows SIGTERM.
GraceForgotten ==
    /\ killer = "grace"
    /\ killer' = "end"
    /\ UNCHANGED <<main, sigVars, timedOut, cancelled, done, agyVars, drainVars, expired,
                   fileVars, lateSignal, faults>>

GraceExpires ==
    /\ killer = "grace"
    /\ killer' = "expired"
    /\ UNCHANGED <<main, sigVars, timedOut, cancelled, done, agyVars, drainVars, expired,
                   fileVars, lateSignal, faults>>

\* The inner select: done was still open when it was looked at.
Escalate ==
    /\ killer = "expired" /\ ~done
    /\ killer' = "kill"
    /\ UNCHANGED <<main, sigVars, timedOut, cancelled, done, agyVars, drainVars, expired,
                   fileVars, lateSignal, faults>>

Kill ==
    /\ killer = "kill"
    /\ killer' = "end"
    /\ IF agy = "running"
       THEN agy' = "dead" /\ status' = "sigkill"
       ELSE UNCHANGED <<agy, status>>
    /\ lateSignal' = (lateSignal \/ agy = "reaped")
    /\ UNCHANGED <<main, sigVars, timedOut, cancelled, done, termed, holder, sent, finished,
                   drainVars, expired, fileVars, faults>>

-----------------------------------------------------------------------------
(* agy, and a descendant it leaves behind.                                 *)

Emit ==
    /\ agy = "running" /\ sent < MaxEvents /\ ~finished
    /\ sent' = sent + 1
    /\ finished' \in IF sent = 0 THEN {FALSE} ELSE BOOLEAN
    /\ UNCHANGED <<main, sigVars, killVars, done, agy, status, termed, holder, drainVars,
                   expired, fileVars, lateSignal, faults>>

\* agy ends by itself, by our SIGTERM, or by anybody's signal.
AgyExit ==
    /\ agy = "running"
    /\ agy' = "dead"
    /\ status' \in Signals \cup OwnExits
    /\ UNCHANGED <<main, sigVars, killVars, done, termed, holder, sent, finished, drainVars,
                   expired, fileVars, lateSignal, faults>>

Descendant ==
    /\ \/ agy = "running" /\ ~holder /\ holder' = TRUE
       \/ holder /\ holder' = FALSE
    /\ UNCHANGED <<main, sigVars, killVars, done, agy, status, termed, sent, finished,
                   drainVars, expired, fileVars, lateSignal, faults>>

-----------------------------------------------------------------------------
(* consumeStream.                                                          *)

IsInit(n) == n = 1
IsResult(n) == finished /\ n = sent

AppendDelta == out' = out + 1

\* One event is decoded and mirrored; the result is kept in memory.  A failing
\* write costs the mirrored copy only.  Lines the reader has buffered outlive a
\* closed read end.
DrainRead ==
    LET n == got + 1
    IN /\ drain = "reading" /\ got < sent
       /\ got' = n
       /\ gotResult' = (gotResult \/ IsResult(n))
       /\ \/ /\ IF IsInit(n) THEN progress' = "named" ELSE UNCHANGED progress
             /\ IF ~IsInit(n) /\ ~IsResult(n) THEN AppendDelta ELSE UNCHANGED out
             /\ NoFault
          \/ UNCHANGED <<progress, out>> /\ Fault
       /\ UNCHANGED <<main, sigVars, killVars, done, agyVars, drain, expired, result, exit,
                      lateSignal>>

\* EOF needs every holder of the write end to be gone; a closed read end fails.
DrainEnd ==
    /\ drain = "reading"
    /\ expired \/ (got = sent /\ agy \in {"dead", "reaped"} /\ ~holder)
    /\ drain' = "done"
    /\ UNCHANGED <<main, sigVars, killVars, done, agyVars, got, gotResult, expired, fileVars,
                   lateSignal, faults>>

-----------------------------------------------------------------------------
(* run, from cmd.Wait to the sentinel.                                     *)

\* Faulty variant: the pipe is closed as soon as agy is reaped, as Wait does
\* with a StdoutPipe.
WaitClosesPipe ==
    /\ main = "wait" /\ agy = "dead"
    /\ agy' = "reaped" /\ main' = "reaped" /\ drain' = "done"
    /\ UNCHANGED <<sigVars, killVars, done, status, termed, holder, sent, finished, got,
                   gotResult, expired, fileVars, lateSignal, faults>>

WaitReturns ==
    /\ main = "wait" /\ agy = "dead"
    /\ agy' = "reaped" /\ main' = "reaped"
    /\ UNCHANGED <<sigVars, killVars, done, status, termed, holder, sent, finished, drainVars,
                   expired, fileVars, lateSignal, faults>>

CloseDone ==
    /\ main = "reaped"
    /\ done' = TRUE /\ main' = "drain"
    /\ UNCHANGED <<sigVars, killVars, agyVars, drainVars, expired, fileVars, lateSignal, faults>>

DrainReceived ==
    /\ main \in {"drain", "closing"} /\ drain = "done"
    /\ main' = "persist"
    /\ UNCHANGED <<sigVars, killVars, done, agyVars, drainVars, expired, fileVars, lateSignal,
                   faults>>

\* Faulty variant: the drain is abandoned instead of released and awaited.
DrainAbandoned ==
    /\ main = "drain"
    /\ main' = "persist"
    /\ UNCHANGED <<sigVars, killVars, done, agyVars, drainVars, expired, fileVars, lateSignal,
                   faults>>

DrainExpires ==
    /\ main = "drain"
    /\ expired' = TRUE /\ main' = "closing"
    /\ UNCHANGED <<sigVars, killVars, done, agyVars, drainVars, fileVars, lateSignal, faults>>

\* Before the sentinel, which readers take for completion.
Persist ==
    /\ main = "persist"
    /\ main' = "sentinel"
    /\ \/ result' = gotResult /\ NoFault
       \/ gotResult /\ UNCHANGED result /\ Fault
    /\ UNCHANGED <<sigVars, killVars, done, agyVars, drainVars, expired, progress, out, exit,
                   lateSignal>>

\* The code of the wait status.  signalExitCode: SIGTERM and SIGINT are the
\* cancel codes, any other signal a failure.  A code agy exits with is passed
\* on, also one that is the supervisor's own.
RawCode ==
    CASE status \in {"sigterm", "sigint", "exit143"} -> "cancelled"
      [] status \in {"sigkill", "crash", "exit137"} -> "crash"
      [] status = "exit124" -> "timeout"
      [] status = "exit127" -> "spawnfail"
      [] OTHER -> status

\* Faulty variant: the overrides apply to a SIGTERM death only.
ResolveSigtermOnly ==
    IF status # "sigterm" THEN RawCode
    ELSE IF timedOut THEN "timeout"
    ELSE IF cancelled THEN "cancelled"
    ELSE RawCode

\* resolveExitCode: a termination of ours keeps its meaning even when it
\* escalated to SIGKILL, and a natural success is never mislabelled.
ResolveExitCode ==
    IF status = "zero" THEN RawCode
    ELSE IF timedOut THEN "timeout"
    ELSE IF cancelled THEN "cancelled"
    ELSE RawCode

WriteSentinel ==
    /\ main = "sentinel"
    /\ main' = "return"
    /\ \/ exit' = ResolveExitCode /\ NoFault
       \/ UNCHANGED exit /\ Fault
    /\ UNCHANGED <<sigVars, killVars, done, agyVars, drainVars, expired, progress, out, result,
                   lateSignal>>

\* The process ends, and its goroutines with it.
Return ==
    /\ main = "return"
    /\ main' = "gone" /\ killer' = "off" /\ drain' = "off"
    /\ UNCHANGED <<sigVars, timedOut, cancelled, done, agyVars, got, gotResult, expired,
                   fileVars, lateSignal, faults>>

\* The supervisor is killed; agy, in its own session, lives on.
Crash ==
    /\ main # "gone" /\ Fault
    /\ main' = "gone" /\ killer' = "off" /\ drain' = "off"
    /\ UNCHANGED <<sigVars, timedOut, cancelled, done, agyVars, got, gotResult, expired,
                   fileVars, lateSignal>>

-----------------------------------------------------------------------------
MainStep ==
    \/ Arm \/ OpenFiles \/ Mark \/ StartAgy
    \/ WaitReturns \/ CloseDone \/ DrainReceived \/ DrainExpires
    \/ Persist \/ WriteSentinel \/ Return

\* Everything the terminating goroutine does but for its timer.
KillerStep ==
    KillerDone \/ KillerCancel \/ Terminate \/ GraceExpires \/ Escalate \/ Kill

DrainStep == DrainRead \/ DrainEnd

Next ==
    \/ MainStep \/ KillerStep \/ KillerTimeout \/ DrainStep \/ Forward
    \/ Cancel \/ CancelEarly \/ Crash
    \/ Emit \/ AgyExit \/ Descendant

Spec == Init /\ [][Next]_vars

(***************************************************************************)
(* Goroutines are scheduled and timers fire.  Nothing is promised of agy,  *)
(* of its descendants or of the manager: agy may hang, ignore SIGTERM and  *)
(* leave the pipe open.  Once a cancel was asked for, the job's timeout is *)
(* not relied on any more.                                                 *)
(***************************************************************************)
FairSpec ==
    /\ Spec
    /\ WF_vars(MainStep) /\ WF_vars(KillerStep) /\ WF_vars(DrainStep) /\ WF_vars(Forward)
    /\ WF_vars(~asked /\ KillerTimeout)

-----------------------------------------------------------------------------
(* Properties.                                                             *)

\* The sentinel tells how the run ended.  Only a clean exit of agy is success.
\* A run the supervisor terminated before agy ended is reported as the timeout
\* or the cancel that terminated it, whatever agy died of.  Otherwise the code
\* is agy's, and each code that has a meaning of its own has that cause or is
\* one agy ended with by itself ("one exit sentinel covers both"); agy is gone
\* by then (resolveExitCode, signalExitCode).
SentinelSound ==
    exit # "none" =>
        IF agy = "none" THEN exit = "spawnfail" ELSE
        /\ agy = "reaped"
        /\ exit = "zero" <=> status = "zero"
        /\ termed /\ status # "zero" => exit = IF timedOut THEN "timeout" ELSE "cancelled"
        /\ exit = "timeout" => timedOut \/ status = "exit124"
        /\ exit = "cancelled" => \/ cancelled /\ asked
                                \/ status \in {"sigterm", "sigint", "exit143"}
        /\ exit = "spawnfail" => status = "exit127"
        /\ exit = "crash" => status \in {"crash", "exit137"}

\* Readers take the sentinel for the end: once it is there, no file of the
\* job changes again (outcome.persist before WriteExitCodeDir).
SentinelIsLast == [][exit # "none" => UNCHANGED fileVars]_vars

\* A run whose files could be written has all of its stream on disk when the
\* sentinel appears, up to what drainGrace cut off: the conversation id, every
\* delta, and the result if it was decoded (consumeStream, persist).
RecordComplete ==
    exit # "none" /\ agy = "reaped" /\ faults = 0 =>
        /\ ~expired => got = sent
        /\ result <=> finished /\ got = sent
        /\ progress = IF got > 0 THEN "named" ELSE "marker"
        /\ out = IF got = 0 THEN 0 ELSE IF result THEN got - 2 ELSE got - 1

\* Once agy runs, the sentinel is written whatever agy and its descendants do:
\* hang, ignore SIGTERM, hold the pipe (killGrace, drainGrace).
SentinelWritten == main = "wait" ~> exit # "none" \/ faults > 0

\* A cancel that reached the handler ends the job by itself, however early in
\* the startup it arrived (waitForCancel is armed before agy is started).
CancelHonoured == asked ~> exit # "none" \/ faults > 0

\* The readers' contract.
Contract == INSTANCE JobDir WITH
    named <- (progress = "named"), text <- out, payload <- result,
    verdict <- exit, alive <- (main # "gone")

\* The supervisor keeps the contract of the job directory: the stream, then
\* the payload, then the sentinel, then its own end.
ImplementsJobDir == Contract!Spec

-----------------------------------------------------------------------------
(* Claims of comments that the code does not keep: TLC refutes both when     *)
(* they are given as an INVARIANT beside MCSupervisor.cfg's constants.       *)

\* "Do not signal a process group that may have already been reaped (and
\* whose pgid could be recycled) once Wait has returned."
NoSignalAfterReap == ~lateSignal

\* "The supervisor then terminates agy and writes the exit-code sentinel, so
\* the job ends in a definite cancelled state": a cancel of a live supervisor
\* never ends the job without a sentinel.
CancelIsDefinite == main = "gone" /\ early => exit # "none"
=============================================================================
