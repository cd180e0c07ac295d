---------------------------- MODULE StreamReader ----------------------------
(* How a supervisor reads agy's event stream: the line reader over a bounded *)
(* buffer with a cap on a line's payload, the decoder that skips what it     *)
(* cannot use, and the consumer that mirrors the events into the job         *)
(* directory (streamjson/streamjson.go, supervisor/stream.go).               *)
EXTENDS Integers, Sequences, FiniteSets

CONSTANTS Lines,      \* the lines agy may write: [len, is, event]
          MaxLines,   \* lines of one stream
          Chunk,      \* bufio's buffer
          Cap,        \* maxLineBytes
          MaxFaults   \* failed writes to the job directory

ASSUME StreamAssumption ==
    /\ MaxLines \in Nat /\ Chunk \in Nat \ {0} /\ Cap \in Nat \ {0} /\ MaxFaults \in Nat
    /\ \A l \in Lines : /\ l.len \in Nat /\ l.is \in {"blank", "junk", "event"}
                        /\ l.len = 0 => l.is = "blank"

\* A payload pointer that is nil, and the line read when there is none.
Nil == [conv |-> "", has |-> FALSE]
NoLine == [len |-> 0, is |-> "blank", event |-> [kind |-> "", conv |-> "", step |-> Nil,
                                                result |-> Nil]]

VARIABLES stream,    \* the lines agy has written so far
          ended,     \* how the pipe ended: "open", "EOF", or "torn"
          cut,       \* the last line has no terminator
          rest,      \* bytes of the last line not read yet, its terminator included
          buf,       \* bytes of it that readLine has accumulated
          over,      \* readLine's truncated
          at,        \* "read", "next", "consume", "persist", "over"
          line,      \* readLine's results: [got, truncated, err]
          malformed, \* Reader.malformed
          prog,      \* consumeStream's progress: [conv, step]
          result,    \* outcome.result
          out,       \* the deltas appended to the out file
          file,      \* progress.json
          record,    \* what persist left: [note, result]
          faults

reader == <<stream, ended, cut, rest, buf, over, line, malformed>>
mirror == <<prog, result, out, file>>
streamVars == <<stream, ended, cut, rest, buf, over, at, line, malformed, prog, result, out,
                file, record, faults>>

NoStep == [index |-> 0, type |-> ""]
NoProgress == [conv |-> "", step |-> NoStep]

StreamInit ==
    /\ stream = <<>> /\ ended = "open" /\ cut = FALSE /\ rest = 0
    /\ buf = 0 /\ over = FALSE /\ at = "read"
    /\ line = [got |-> 0, truncated |-> FALSE, err |-> "nil"]
    /\ malformed = 0
    /\ prog = NoProgress /\ result = Nil /\ out = <<>> /\ file = NoProgress
    /\ record = [note |-> "none", result |-> Nil]
    /\ faults = 0

---------------------------------------------------------------------------
(* agy's side of the pipe.                                                 *)

\* agy writes a line; one cut off by the end of the stream has no terminator.
Emit ==
    /\ ended = "open" /\ at = "read" /\ rest = 0 /\ buf = 0 /\ Len(stream) < MaxLines
    /\ \E l \in Lines :
         /\ stream' = Append(stream, l)
         /\ \/ /\ rest' = l.len + 1
               /\ UNCHANGED <<ended, cut>>
            \/ /\ l.len > 0
               /\ rest' = l.len /\ cut' = TRUE
               /\ ended' \in {"EOF", "torn"}
    /\ UNCHANGED <<buf, over, at, line, malformed, mirror, record, faults>>

\* The pipe ends between two lines: agy exits, or the process group is torn down.
Close ==
    /\ ended = "open" /\ at = "read" /\ rest = 0 /\ buf = 0
    /\ ended' \in {"EOF", "torn"}
    /\ UNCHANGED <<stream, cut, rest, buf, over, at, line, malformed, mirror, record, faults>>

---------------------------------------------------------------------------
(* Reader.readLine, one read of bufio at a time. bufio hands out what it has *)
(* up to the terminator, a full buffer, or what was left when the pipe ended. *)

\* The bytes of one ReadSlice, whether they end the line, and the error.
Slice == IF rest > Chunk THEN Chunk ELSE rest
Terminated == rest > 0 /\ rest <= Chunk /\ ~cut
More == rest > Chunk \/ (rest = Chunk /\ cut)
Payload == IF Terminated THEN Slice - 1 ELSE Slice

\* Mutant of Room: the cap counts the line's terminator.
RoomForTerminator == Cap - buf - (IF Terminated THEN 1 ELSE 0)

Room == Cap - buf

EndLine(got, truncated) ==
    /\ at' = "next"
    /\ line' = [got |-> got, truncated |-> truncated,
                err |-> IF Terminated THEN "nil" ELSE ended]
    /\ buf' = 0 /\ over' = FALSE

ReadSlice ==
    /\ at = "read" /\ (rest > 0 \/ ended # "open")
    /\ rest' = rest - Slice
    /\ LET kept == IF Payload > Room THEN Cap ELSE buf + Payload
           truncated == over \/ Payload > Room
       IN IF More
          THEN /\ buf' = kept /\ over' = truncated
               /\ UNCHANGED <<at, line>>
          ELSE EndLine(kept, truncated)
    /\ UNCHANGED <<stream, ended, cut, malformed, mirror, record, faults>>

---------------------------------------------------------------------------
(* Reader.Next.                                                            *)

\* What the bytes readLine returned decode to: the line, if they are all of it.
Current == IF stream = <<>> THEN NoLine ELSE stream[Len(stream)]
Read == IF line.got = 0 THEN "blank"
        ELSE IF line.got = Current.len THEN Current.is
        ELSE IF Current.is = "blank" THEN "blank" ELSE "junk"

\* A line that yields no event; an error that came with it ends the stream.
Skip == at' = IF line.err = "nil" THEN "read" ELSE "persist"

\* Mutant of SkipBlank: padding at the end of the stream hides the error.
SkipBlankAlways ==
    /\ ~line.truncated /\ Read = "blank"
    /\ at' = "read"
    /\ UNCHANGED malformed

SkipBlank ==
    /\ ~line.truncated /\ Read = "blank"
    /\ Skip
    /\ UNCHANGED malformed

SkipMalformed ==
    /\ line.truncated \/ Read = "junk"
    /\ Skip
    /\ malformed' = malformed + 1

\* The event goes first; an error that came with it waits for the next read.
Return ==
    /\ ~line.truncated /\ Read = "event"
    /\ at' = "consume"
    /\ UNCHANGED malformed

NextEvent ==
    /\ at = "next"
    /\ SkipBlank \/ SkipMalformed \/ Return
    /\ UNCHANGED <<stream, ended, cut, rest, buf, over, line, mirror, record, faults>>

---------------------------------------------------------------------------
(* consumeStream and persist.                                              *)

ConversationIDOf(e) ==
    CASE e.conv # "" -> e.conv
      [] e.conv = "" /\ e.step.conv # "" -> e.step.conv
      [] OTHER -> e.result.conv

IsStep(e) == e.kind = "step_update" /\ e.step.has
StepOf(e) == [index |-> e.step.index, type |-> e.step.type]
Delta(e) == IF IsStep(e) /\ e.step.type = "agent_response" /\ e.step.delta # ""
            THEN <<e.step.delta>> ELSE <<>>
ResultOf(e) == IF e.kind = "result" THEN e.result ELSE Nil

Moved(p, e) ==
    [conv |-> IF ConversationIDOf(e) # "" THEN ConversationIDOf(e) ELSE p.conv,
     step |-> IF IsStep(e) THEN StepOf(e) ELSE p.step]

Failing(n) == faults + n <= MaxFaults /\ faults' = faults + n

\* Both writes are best effort: one that fails loses its delta, or leaves
\* progress.json as it was until something else changes.
Consume ==
    /\ at = "consume"
    /\ LET e == Current.event
       IN /\ prog' = Moved(prog, e)
          /\ result' = IF ResultOf(e).has THEN ResultOf(e) ELSE result
          /\ \E lost, stale \in BOOLEAN :
               /\ lost => Delta(e) # <<>>
               /\ stale => prog' # prog
               /\ Failing((IF lost THEN 1 ELSE 0) + (IF stale THEN 1 ELSE 0))
               /\ out' = IF lost THEN out ELSE out \o Delta(e)
               /\ file' = IF stale \/ prog' = prog THEN file ELSE prog'
    /\ at' = "read"
    /\ UNCHANGED <<reader, record>>

\* The note on stderr about skipped lines, then the result, or a note instead.
Persist ==
    /\ at = "persist"
    /\ at' = "over"
    /\ \/ /\ record' = [note |-> IF malformed > 0 THEN "skipped" ELSE "none",
                        result |-> result]
          /\ UNCHANGED faults
       \/ /\ result.has /\ Failing(1)
          /\ record' = [note |-> "unwritten", result |-> Nil]
    /\ UNCHANGED <<reader, mirror>>

---------------------------------------------------------------------------
StreamNext == Emit \/ Close \/ ReadSlice \/ NextEvent \/ Consume \/ Persist

StreamSpec == StreamInit /\ [][StreamNext]_streamVars

\* The supervisor's goroutine runs; nothing is assumed of agy.
FairStreamSpec == StreamSpec /\ WF_streamVars(ReadSlice \/ NextEvent \/ Consume \/ Persist)

---------------------------------------------------------------------------
(* Properties.                                                             *)

\* What a reader that holds whole lines would make of a line.
Usable(l) == l.is = "event" /\ l.len <= Cap
Unusable(l) == l.len > Cap \/ l.is = "junk"

\* The last line is still being read, decoded or consumed; the others are done.
Pending == rest > 0 \/ buf > 0 \/ (at = "next" /\ line.got > 0) \/ at = "consume"
Done == 1..(IF Pending THEN Len(stream) - 1 ELSE Len(stream))

\* The lines done that are usable, and among them those with a result, with a
\* conversation id, with a step, with text; and those that are skipped with a count.
Events == {i \in Done : Usable(stream[i])}
Results == {i \in Events : ResultOf(stream[i].event).has}
Named == {i \in Events : ConversationIDOf(stream[i].event) # ""}
Steps == {i \in Events : IsStep(stream[i].event)}
Texts == {i \in Events : Delta(stream[i].event) # <<>>}
Skipped == {i \in Done : Unusable(stream[i])}

\* v is what f makes of the last line of S, or none if S is empty.
OfLast(S, f(_), none, v) ==
    \/ S = {} /\ v = none
    \/ \E i \in S : (\A j \in S : j <= i) /\ v = f(stream[i].event)

\* The out file is the text of the lines that have some, in their order.
Nth(i) == Cardinality({j \in Texts : j <= i})
InOrder ==
    /\ Len(out) = Cardinality(Texts)
    /\ \A i \in Texts : Delta(stream[i].event) = <<out[Nth(i)]>>

\* Every usable line reaches the job directory, in order, whatever surrounds it:
\* over-long lines, garbage, padding, a stream cut mid-line; each line that does
\* not is counted; and no line makes the reader hold more than the cap ("one
\* unparseable line must not discard the events that follow it").
StreamFaithful ==
    /\ buf <= Cap /\ line.got <= Cap
    /\ OfLast(Results, ResultOf, Nil, result)
    /\ OfLast(Named, ConversationIDOf, "", prog.conv)
    /\ OfLast(Steps, StepOf, NoStep, prog.step)
    /\ faults = 0 => InOrder /\ file = prog
    /\ malformed = Cardinality(Skipped)
    /\ at = "over" =>
         /\ malformed > 0 => record.note # "none"
         /\ result.has => record.result = result \/ record.note = "unwritten"

\* The stream's end is noticed, on whatever line it comes, and the outcome is
\* recorded: the supervisor waits for it before it writes the sentinel.
ReaderEnds == ended # "open" ~> at = "over"
===========================================================================
