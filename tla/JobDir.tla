------------------------------- MODULE JobDir -------------------------------
(***************************************************************************)
(* What a job directory promises to everyone who reads it: the manager's   *)
(* Status, hook-wait, garbage collection, a continuation's scan.  It is    *)
(* the contract of jobstore's file list, seen from outside: the stream     *)
(* grows, then the terminal payload may appear, then the exit-code         *)
(* sentinel, then the supervisor is gone; nothing that has appeared        *)
(* changes again, and a supervisor can die between any two of these.       *)
(***************************************************************************)
EXTENDS Integers

VARIABLES
    named,      \* progress.json names the conversation
    text,       \* answer text appended to out so far
    payload,    \* result.json exists
    verdict,    \* what exit_code says, "none" while it does not exist
    alive       \* the supervisor process lives

jobVars == <<named, text, payload, verdict, alive>>

Verdicts == {"zero", "nonzero", "crash", "cancelled", "timeout", "spawnfail"}

Init ==
    /\ named = FALSE /\ text = 0 /\ payload = FALSE /\ verdict = "none"
    /\ alive = TRUE

\* The stream is mirrored as it arrives, until the payload is published.
Mirror ==
    /\ alive /\ verdict = "none" /\ ~payload
    /\ \/ ~named /\ named' = TRUE /\ UNCHANGED text
       \/ text' = text + 1 /\ UNCHANGED named
    /\ UNCHANGED <<payload, verdict, alive>>

Publish ==
    /\ alive /\ verdict = "none" /\ ~payload
    /\ payload' = TRUE
    /\ UNCHANGED <<named, text, verdict, alive>>

Conclude ==
    /\ alive /\ verdict = "none"
    /\ verdict' \in Verdicts
    /\ UNCHANGED <<named, text, payload, alive>>

Die ==
    /\ alive
    /\ alive' = FALSE
    /\ UNCHANGED <<named, text, payload, verdict>>

Next == Mirror \/ Publish \/ Conclude \/ Die

Spec == Init /\ [][Next]_jobVars
=============================================================================
