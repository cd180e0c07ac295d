---------------------------- MODULE Idempotency ----------------------------
(***************************************************************************)
(* At-most-once creation of a job: the calls of StartJob that carry one    *)
(* idempotency_key, made to the manager processes that share a state       *)
(* directory.  A call takes the creation claim, looks for a job already    *)
(* bound to the key, and creates one only if there is none; the job's      *)
(* meta.json is what a retry finds later.                                  *)
(*                                                                         *)
(* The job a call creates keeps the call's name.  Keys do not interact     *)
(* except through unreadable records, so one key is modelled.  Admission   *)
(* is one decision here: module Admission is about it.                     *)
(***************************************************************************)
EXTENDS Integers

CONSTANTS
    Procs,      \* agy-mcp processes sharing the state directory
    Calls,      \* StartJob calls with the key
    Requests,   \* normalized requests a call can make
    NoProc, NoCall, NoRequest,
    MaxCrashes, \* bound: manager processes killed
    MaxFaults   \* bound: failing operations

ASSUME NamesDistinct ==
    NoProc \notin Procs /\ NoCall \notin Calls /\ NoRequest \notin Requests

ASSUME BoundsNat == MaxCrashes \in Nat /\ MaxFaults \in Nat

VARIABLES
    up,         \* processes that run
    claimed,    \* processes whose idemKeys holds the key
    flock,      \* the process that holds the key's lock file
    pc, owner, want, todo,  \* per call: where it is, its process, its request,
                            \* the job ids findIdempotentJob has still to read
    answer,     \* what StartJob has decided to return
    reply,      \* the job a replay returns
    dir,        \* job directory: absent, without meta.json, PID 0, PID recorded
    sup,        \* the job's supervisor; "gone" once the run is over
    crashes, faults

claimVars == <<claimed, flock>>
callVars == <<owner, want>>
bounds == <<crashes, faults>>
vars == <<up, claimVars, pc, callVars, todo, answer, reply, dir, sup, bounds>>

\* The call holds the entry in idemKeys.
ClaimPCs == {"flock", "unclaim", "list", "look", "admit", "mkdir", "write", "spawn",
             "record", "abort", "unlock", "release"}
\* It holds the lock file as well.
LockPCs == ClaimPCs \ {"flock", "unclaim", "release"}

TypeOK ==
    /\ up \in SUBSET Procs
    /\ claimed \in SUBSET Procs
    /\ flock \in Procs \cup {NoProc}
    /\ pc \in [Calls -> {"idle", "claim", "done", "lost"} \cup ClaimPCs]
    /\ owner \in [Calls -> Procs \cup {NoProc}]
    /\ want \in [Calls -> Requests \cup {NoRequest}]
    /\ todo \in [Calls -> SUBSET Calls]
    /\ answer \in [Calls -> {"none", "busy", "conflict", "error", "replayed", "started"}]
    /\ reply \in [Calls -> Calls \cup {NoCall}]
    /\ dir \in [Calls -> {"absent", "bare", "created", "recorded"}]
    /\ sup \in [Calls -> {"none", "up", "gone"}]
    /\ crashes \in 0 .. MaxCrashes
    /\ faults \in 0 .. MaxFaults

Init ==
    /\ up = Procs
    /\ claimed = {}
    /\ flock = NoProc
    /\ pc = [c \in Calls |-> "idle"]
    /\ owner = [c \in Calls |-> NoProc]
    /\ want = [c \in Calls |-> NoRequest]
    /\ todo = [c \in Calls |-> {}]
    /\ answer = [c \in Calls |-> "none"]
    /\ reply = [c \in Calls |-> NoCall]
    /\ dir = [c \in Calls |-> "absent"]
    /\ sup = [c \in Calls |-> "none"]
    /\ crashes = 0
    /\ faults = 0

Fault == faults < MaxFaults /\ faults' = faults + 1 /\ UNCHANGED crashes
NoFault == UNCHANGED bounds

Go(c, where) == pc' = [pc EXCEPT ![c] = where]
Answer(c, a) == answer' = [answer EXCEPT ![c] = a]

\* The deferred releaseIdem runs before StartJob returns.
Finish(c, a) == Go(c, "unlock") /\ Answer(c, a)

-----------------------------------------------------------------------------
(* acquireIdempotency.                                                     *)

Call(c, p, q) ==
    /\ pc[c] = "idle" /\ p \in up
    /\ owner' = [owner EXCEPT ![c] = p]
    /\ want' = [want EXCEPT ![c] = q]
    /\ Go(c, "claim")
    /\ NoFault
    /\ UNCHANGED <<up, claimVars, todo, answer, reply, dir, sup>>

\* idemKeys, under its mutex.
Claim(c) ==
    /\ pc[c] = "claim"
    /\ IF owner[c] \in claimed
       THEN Go(c, "done") /\ Answer(c, "busy") /\ UNCHANGED claimed
       ELSE Go(c, "flock") /\ claimed' = claimed \cup {owner[c]} /\ UNCHANGED answer
    /\ NoFault
    /\ UNCHANGED <<up, flock, callVars, todo, reply, dir, sup>>

\* Faulty variant: the lock file is left out.
LockIgnored(p) == TRUE

\* flock without blocking.
LockFree(p) == flock = NoProc

\* A lock held elsewhere is "retry", a lock file that cannot be used, or one
\* this very process holds, is an error.
TryLock(c) ==
    /\ pc[c] = "flock"
    /\ \/ /\ LockFree(owner[c])
          /\ flock' = owner[c]
          /\ Go(c, "list") /\ NoFault
          /\ UNCHANGED answer
       \/ /\ ~LockFree(owner[c])
          /\ Go(c, "unclaim") /\ Answer(c, IF flock = owner[c] THEN "error" ELSE "busy")
          /\ NoFault
          /\ UNCHANGED flock
       \/ Go(c, "unclaim") /\ Answer(c, "error") /\ Fault /\ UNCHANGED flock
    /\ UNCHANGED <<up, claimed, callVars, todo, reply, dir, sup>>

\* Faulty variant: the entry stays when the lock file is busy.
UnclaimForgotten(c) ==
    /\ pc[c] = "unclaim"
    /\ Go(c, "done")
    /\ NoFault
    /\ UNCHANGED <<up, claimVars, callVars, todo, answer, reply, dir, sup>>

Unclaim(c) ==
    /\ pc[c] = "unclaim"
    /\ claimed' = claimed \ {owner[c]}
    /\ Go(c, "done")
    /\ NoFault
    /\ UNCHANGED <<up, flock, callVars, todo, answer, reply, dir, sup>>

-----------------------------------------------------------------------------
(* findIdempotentJob.                                                      *)

OnDisk == {j \in Calls : dir[j] # "absent"}

List(c) ==
    /\ pc[c] = "list"
    /\ \/ todo' = [todo EXCEPT ![c] = OnDisk] /\ Go(c, "look") /\ NoFault /\ UNCHANGED answer
       \/ Finish(c, "error") /\ Fault /\ UNCHANGED todo
    /\ UNCHANGED <<up, claimVars, callVars, reply, dir, sup>>

\* Store.Load succeeds.
Readable(j) == dir[j] \in {"created", "recorded"}

\* Faulty variant: a record is a job, with or without a supervisor's PID.
ReplayRemnants(j) == Readable(j)

\* A record that never got a PID is what a failed creation left behind.
Replayable(j) == dir[j] = "recorded"

\* One id.  A record that is unreadable, or gone since the listing, fails the
\* call; a different request under the key is refused before its PID is looked at.
Look(c, j) ==
    /\ pc[c] = "look" /\ j \in todo[c]
    /\ \/ /\ ~Readable(j)
          /\ Finish(c, "error") /\ NoFault
          /\ UNCHANGED <<todo, reply>>
       \/ /\ Readable(j) /\ want[j] # want[c]
          /\ Finish(c, "conflict") /\ NoFault
          /\ UNCHANGED <<todo, reply>>
       \/ /\ Readable(j) /\ want[j] = want[c] /\ ~Replayable(j)
          /\ todo' = [todo EXCEPT ![c] = @ \ {j}] /\ NoFault
          /\ UNCHANGED <<pc, answer, reply>>
       \/ /\ Readable(j) /\ want[j] = want[c] /\ Replayable(j)
          /\ reply' = [reply EXCEPT ![c] = j]
          /\ Finish(c, "replayed") /\ NoFault
          /\ UNCHANGED todo
       \/ Finish(c, "error") /\ Fault /\ UNCHANGED <<todo, reply>>
    /\ UNCHANGED <<up, claimVars, callVars, dir, sup>>

NotFound(c) ==
    /\ pc[c] = "look" /\ todo[c] = {}
    /\ Go(c, "admit")
    /\ NoFault
    /\ UNCHANGED <<up, claimVars, callVars, todo, answer, reply, dir, sup>>

-----------------------------------------------------------------------------
(* The rest of StartJob.                                                   *)

\* Priority, agy's binary, conversationLive and the gate, each of which may
\* refuse; a refusal creates nothing.
Admit(c) ==
    /\ pc[c] = "admit"
    /\ \/ Go(c, "mkdir") /\ UNCHANGED answer
       \/ Finish(c, "error")
    /\ NoFault
    /\ UNCHANGED <<up, claimVars, callVars, todo, reply, dir, sup>>

\* Store.Create: the directory, then meta.json with PID 0.
MakeDir(c) ==
    /\ pc[c] = "mkdir"
    /\ \/ /\ dir' = [dir EXCEPT ![c] = "bare"]
          /\ Go(c, "write") /\ NoFault
          /\ UNCHANGED answer
       \/ Finish(c, "error") /\ Fault /\ UNCHANGED dir
    /\ UNCHANGED <<up, claimVars, callVars, todo, reply, sup>>

\* Removal after a failure ignores its own: it leaves what it could not remove.
Removed(c, left) == dir' \in {[dir EXCEPT ![c] = d] : d \in {"absent"} \cup left}

WriteMeta(c) ==
    /\ pc[c] = "write"
    /\ \/ /\ dir' = [dir EXCEPT ![c] = "created"]
          /\ Go(c, "spawn") /\ NoFault
          /\ UNCHANGED answer
       \/ Removed(c, {"bare"}) /\ Finish(c, "error") /\ Fault
    /\ UNCHANGED <<up, claimVars, callVars, todo, reply, sup>>

Spawn(c) ==
    /\ pc[c] = "spawn"
    /\ \/ /\ sup' = [sup EXCEPT ![c] = "up"]
          /\ Go(c, "record") /\ NoFault
          /\ UNCHANGED <<answer, dir>>
       \/ /\ Removed(c, {"bare", "created"}) /\ Finish(c, "error") /\ Fault
          /\ UNCHANGED sup
    /\ UNCHANGED <<up, claimVars, callVars, todo, reply>>

\* Faulty variant: the claim is dropped on return, before the teardown.
AbortAtOnce(c) == Finish(c, "error")

\* abortSpawn takes over the claim; StartJob returns its error at once.
AbortLater(c) == Go(c, "abort") /\ Answer(c, "error")

RecordPid(c) ==
    /\ pc[c] = "record"
    /\ \/ /\ dir' = [dir EXCEPT ![c] = "recorded"]
          /\ Finish(c, "started") /\ NoFault
       \/ AbortLater(c) /\ Fault /\ UNCHANGED dir
    /\ UNCHANGED <<up, claimVars, callVars, todo, reply, sup>>

\* The goroutine of abortSpawn, once the supervisor it terminated is reaped.
AbortReaped(c) ==
    /\ pc[c] = "abort" /\ sup[c] = "gone"
    /\ \/ dir' = [dir EXCEPT ![c] = "absent"] /\ NoFault
       \/ Removed(c, {"bare", "created"}) /\ Fault
    /\ Go(c, "unlock")
    /\ UNCHANGED <<up, claimVars, callVars, todo, answer, reply, sup>>

\* Faulty variant: the entry goes first, and the lock file after it.
UnlockEntryFirst(c) ==
    /\ pc[c] = "unlock"
    /\ IF owner[c] \in claimed /\ flock = owner[c]
       THEN claimed' = claimed \ {owner[c]} /\ UNCHANGED <<pc, flock>>
       ELSE /\ flock' = IF flock = owner[c] THEN NoProc ELSE flock
            /\ Go(c, "done") /\ UNCHANGED claimed
    /\ NoFault
    /\ UNCHANGED <<up, callVars, todo, answer, reply, dir, sup>>

\* releaseIdempotency: the lock file, then the entry.
Unlock(c) ==
    /\ pc[c] = "unlock"
    /\ flock' = NoProc
    /\ Go(c, "release")
    /\ NoFault
    /\ UNCHANGED <<up, claimed, callVars, todo, answer, reply, dir, sup>>

\* Faulty variant: only a call that still holds the lock file drops its entry.
ReleaseOwned(c) ==
    /\ pc[c] = "release" /\ flock = owner[c]
    /\ claimed' = claimed \ {owner[c]}
    /\ Go(c, "done")
    /\ NoFault
    /\ UNCHANGED <<up, flock, callVars, todo, answer, reply, dir, sup>>

Release(c) ==
    /\ pc[c] = "release"
    /\ claimed' = claimed \ {owner[c]}
    /\ Go(c, "done")
    /\ NoFault
    /\ UNCHANGED <<up, flock, callVars, todo, answer, reply, dir, sup>>

-----------------------------------------------------------------------------
(* Around the calls.                                                       *)

SupervisorEnds(c) ==
    /\ sup[c] = "up"
    /\ sup' = [sup EXCEPT ![c] = "gone"]
    /\ NoFault
    /\ UNCHANGED <<up, claimVars, pc, callVars, todo, answer, reply, dir>>

\* gcEvaluate once the TTL has passed, which is far longer than a StartJob:
\* a recorded job whose supervisor is gone, any record without a PID, and an
\* orphan directory.
Collect(c) ==
    /\ pc[c] \in {"done", "lost"} /\ dir[c] # "absent"
    /\ dir[c] = "recorded" => sup[c] # "up"
    /\ dir' = [dir EXCEPT ![c] = "absent"]
    /\ NoFault
    /\ UNCHANGED <<up, claimVars, pc, callVars, todo, answer, reply, sup>>

\* The kernel drops the lock file of a killed process.
Crash(p) ==
    /\ p \in up /\ crashes < MaxCrashes
    /\ crashes' = crashes + 1
    /\ up' = up \ {p}
    /\ claimed' = claimed \ {p}
    /\ flock' = IF flock = p THEN NoProc ELSE flock
    /\ pc' = [c \in Calls |->
                 IF owner[c] = p /\ pc[c] \in {"claim"} \cup ClaimPCs THEN "lost" ELSE pc[c]]
    /\ UNCHANGED <<callVars, todo, answer, reply, dir, sup, faults>>

Restart(p) ==
    /\ p \notin up
    /\ up' = up \cup {p}
    /\ NoFault
    /\ UNCHANGED <<claimVars, pc, callVars, todo, answer, reply, dir, sup>>

-----------------------------------------------------------------------------
\* What a call does without waiting for anybody but the supervisor it aborts.
CallStep(c) ==
    \/ Claim(c) \/ TryLock(c) \/ Unclaim(c)
    \/ List(c) \/ (\E j \in Calls : Look(c, j)) \/ NotFound(c)
    \/ Admit(c) \/ MakeDir(c) \/ WriteMeta(c) \/ Spawn(c) \/ RecordPid(c)
    \/ AbortReaped(c) \/ Unlock(c) \/ Release(c)

Next ==
    \/ \E c \in Calls, p \in Procs, q \in Requests : Call(c, p, q)
    \/ \E c \in Calls : CallStep(c) \/ SupervisorEnds(c) \/ Collect(c)
    \/ \E p \in Procs : Crash(p) \/ Restart(p)

Spec == Init /\ [][Next]_vars

\* Calls are goroutines, and a supervisor that was sent SIGTERM ends.
FairSpec ==
    /\ Spec
    /\ \A c \in Calls : WF_vars(CallStep(c)) /\ WF_vars(pc[c] = "abort" /\ SupervisorEnds(c))

-----------------------------------------------------------------------------
(* Properties.                                                             *)

\* A supervisor whose manager died before its PID reached meta.json.
Unrecorded(c) == pc[c] = "lost" /\ dir[c] # "recorded"

\* The key is an at-most-once creation token: whatever retries, races and
\* failures there are, no two jobs of one key run together and no two are on
\* record, not even while a failed creation is torn down (claimIdempotency,
\* abortSpawn).
AtMostOnce ==
    \A c, d \in Calls : c # d =>
        /\ ~(dir[c] = "recorded" /\ dir[d] = "recorded")
        /\ sup[c] = "up" /\ sup[d] = "up" => Unrecorded(c) \/ Unrecorded(d)

\* A retry is only ever handed a job that was created by the same request and
\* did start, never the remnant of a failed creation (findIdempotentJob).
ReplayIsReal ==
    \A c \in Calls : reply[c] # NoCall =>
        /\ want[reply[c]] = want[c]
        /\ sup[reply[c]] # "none" /\ answer[reply[c]] = "started"

\* The entry in idemKeys keeps a process off its own lock file: the order of
\* releaseIdempotency.
NoSelfInflictedBusy ==
    \A c \in Calls : pc[c] = "flock" => flock # owner[c]

\* Nothing is left claimed by a process that runs: every call, also one that
\* fails anywhere, gives back the entry and the lock file.
ClaimExact ==
    /\ claimed = {owner[c] : c \in {d \in Calls : pc[d] \in ClaimPCs}}
    /\ flock # NoProc => \E c \in Calls : pc[c] \in LockPCs /\ owner[c] = flock
    /\ \A c, d \in Calls : pc[c] \in ClaimPCs /\ pc[d] \in ClaimPCs /\ owner[c] = owner[d]
          => c = d

\* The claim of every call is released, whichever step fails.
ClaimsReleased ==
    \A c \in Calls : pc[c] \in ClaimPCs ~> pc[c] \notin ClaimPCs

-----------------------------------------------------------------------------
(* A claim of a comment that the code does not keep.                       *)

\* "any claim-free record still at PID 0 is one whose creation failed ... It
\* represents a run that never started."
RemnantNeverRan ==
    \A c \in Calls : dir[c] = "created" /\ flock = NoProc => sup[c] # "up"
=============================================================================
