----------------------------- MODULE Admission -----------------------------
(***************************************************************************)
(* Admission of runs: the manager processes that share one state           *)
(* directory, their concurrency gates, the cross-process flock, the scan   *)
(* for a live conversation, the creation of a job and its detached         *)
(* supervisor, the release of a slot, and the restoration of the gate      *)
(* after a manager restart.                                                *)
(*                                                                         *)
(* A run is one call of StartJob; it becomes a job when its directory is   *)
(* created, and keeps its name here.  A request either continues a known   *)
(* conversation or is Fresh, in which case agy names the conversation      *)
(* while it runs and the supervisor records that name in progress.json.    *)
(***************************************************************************)
EXTENDS Integers, FiniteSets

CONSTANTS
    Procs,          \* agy-mcp processes sharing the state directory
    Runs,           \* StartJob calls
    OldConvs,       \* conversations that exist before any of the runs
    NewConvs,       \* names agy may give to a conversation it creates
    Fresh,          \* the request that names no conversation
    NoProc, NoConv, NoRun,
    Cap,            \* MaxConcurrentJobs of every process
    MaxCrashes,     \* bound: manager processes killed
    MaxSupCrashes,  \* bound: supervisors killed before their exit sentinel
    MaxUnreadable   \* bound: live jobs passed over because a read failed

Convs == OldConvs \cup NewConvs

ASSUME NamesDistinct ==
    /\ OldConvs \cap NewConvs = {}
    /\ Fresh \notin Convs /\ NoConv \notin Convs /\ Fresh # NoConv
    /\ NoProc \notin Procs /\ NoRun \notin Runs

\* newGate floors a non-positive cap to 1.
ASSUME CapPositive == Cap \in Nat \ {0}

ASSUME BoundsNat ==
    MaxCrashes \in Nat /\ MaxSupCrashes \in Nat /\ MaxUnreadable \in Nat

ASSUME RunsFinite == IsFiniteSet(Runs)

VARIABLES
    mgr,        \* process: "down", "restoring" (RestoreAndCollect) or "serving"
    inFlight,   \* gate: slots in use
    keys,       \* gate: conversations reserved in this process
    flock,      \* lock files: the process whose descriptor holds the flock
    restoreTodo, restoreCur,    \* ids RestoreAndCollect has still to look at
    watch,      \* watchRestored goroutines of a process, per job
    unrestored, \* history: live jobs restoration passed over, meta unreadable
    pc,         \* StartJob and, once it returned, its cleanup goroutine
    owner,      \* the process a run was requested from
    req,        \* the conversation the run continues, or Fresh
    todo, cur,  \* conversationLive: ids left, id whose progress is read next
    skipped,    \* history: live jobs the scan passed over as unreadable
    meta,       \* meta.json: none, created with PID 0, PID recorded
    named,      \* progress.json: the conversation id recorded by the supervisor
    exited,     \* exit_code sentinel written
    sup, agy,   \* the supervisor process and the agy process
    session,    \* the conversation agy drives
    blockers,   \* history: live jobs on the conversation when it was requested
    crashes, supCrashes, unreadable

gateVars == <<inFlight, keys>>
restoreVars == <<mgr, restoreTodo, restoreCur, watch, unrestored>>
scanVars == <<todo, cur, skipped>>
askVars == <<owner, req, blockers>>
diskVars == <<meta, named, exited>>
procVars == <<sup, agy, session>>
bounds == <<crashes, supCrashes, unreadable>>
vars == <<gateVars, flock, restoreVars, pc, scanVars, askVars, diskVars,
          procVars, bounds>>

ScanPCs == {"list", "scan", "progress"}
\* The run holds a gate slot.
GatePCs == {"lock", "rollback", "create", "spawn", "record", "wait", "abort",
            "unlock", "ungate"}
\* A continuation holds its conversation's flock.
LockPCs == {"create", "spawn", "record", "wait", "abort", "unlock"}
PCs == {"idle", "admit", "done", "lost"} \cup ScanPCs \cup GatePCs

TypeOK ==
    /\ mgr \in [Procs -> {"down", "restoring", "serving"}]
    /\ inFlight \in [Procs -> Nat]
    /\ keys \in [Procs -> SUBSET Convs]
    /\ flock \in [Convs -> Procs \cup {NoProc}]
    /\ restoreTodo \in [Procs -> SUBSET Runs]
    /\ restoreCur \in [Procs -> Runs \cup {NoRun}]
    /\ watch \in [Procs -> [Runs -> {"none", "watching", "ungate"}]]
    /\ unrestored \in [Procs -> SUBSET Runs]
    /\ pc \in [Runs -> PCs]
    /\ owner \in [Runs -> Procs \cup {NoProc}]
    /\ req \in [Runs -> Convs \cup {Fresh}]
    /\ todo \in [Runs -> SUBSET Runs]
    /\ cur \in [Runs -> Runs \cup {NoRun}]
    /\ skipped \in [Runs -> SUBSET Runs]
    /\ meta \in [Runs -> {"none", "created", "recorded"}]
    /\ named \in [Runs -> Convs \cup {NoConv}]
    /\ exited \in [Runs -> BOOLEAN]
    /\ sup \in [Runs -> {"none", "up", "gone"}]
    /\ agy \in [Runs -> {"none", "running", "gone"}]
    /\ session \in [Runs -> Convs \cup {NoConv}]
    /\ blockers \in [Runs -> SUBSET Runs]
    /\ crashes \in 0 .. MaxCrashes
    /\ supCrashes \in 0 .. MaxSupCrashes
    /\ unreadable \in 0 .. MaxUnreadable

Init ==
    /\ mgr = [p \in Procs |-> "down"]
    /\ inFlight = [p \in Procs |-> 0]
    /\ keys = [p \in Procs |-> {}]
    /\ flock = [c \in Convs |-> NoProc]
    /\ restoreTodo = [p \in Procs |-> {}]
    /\ restoreCur = [p \in Procs |-> NoRun]
    /\ watch = [p \in Procs |-> [r \in Runs |-> "none"]]
    /\ unrestored = [p \in Procs |-> {}]
    /\ pc = [r \in Runs |-> "idle"]
    /\ owner = [r \in Runs |-> NoProc]
    /\ req = [r \in Runs |-> Fresh]
    /\ todo = [r \in Runs |-> {}]
    /\ cur = [r \in Runs |-> NoRun]
    /\ skipped = [r \in Runs |-> {}]
    /\ meta = [r \in Runs |-> "none"]
    /\ named = [r \in Runs |-> NoConv]
    /\ exited = [r \in Runs |-> FALSE]
    /\ sup = [r \in Runs |-> "none"]
    /\ agy = [r \in Runs |-> "none"]
    /\ session = [r \in Runs |-> NoConv]
    /\ blockers = [r \in Runs |-> {}]
    /\ crashes = 0
    /\ supCrashes = 0
    /\ unreadable = 0

-----------------------------------------------------------------------------
(* What a reader of the job directory sees.                                *)

\* Job directories, as store.List returns them.
OnDisk == {r \in Runs : meta[r] # "none"}

\* processAlive: a recorded PID whose process is still the supervisor.
ProcessAlive(r) == meta[r] = "recorded" /\ sup[r] = "up"

\* Faulty variant: only the jobs of this boot of a serving manager count.
LiveJobOfServing(r) == ProcessAlive(r) /\ ~exited[r] /\ pc[r] # "lost"

\* A job the readers take for running: no sentinel and a live supervisor.
LiveJob(r) == ProcessAlive(r) /\ ~exited[r]

\* Jobs whose progress.json holds a conversation id.
Named == {j \in Runs : named[j] # NoConv}

\* Conversations a caller can name: the old ones, and those it read from
\* the progress of a job whose StartJob has returned its id.
Known == OldConvs \cup ({named[r] : r \in OnDisk \cap {q \in Runs : meta[q] = "recorded"}} \ {NoConv})

\* The bounded fault of this module: a file that is there cannot be read.
ReadFault == unreadable < MaxUnreadable /\ unreadable' = unreadable + 1

-----------------------------------------------------------------------------
(* StartJob.                                                               *)

\* Begin is a caller's request after normalizeRequest.  A fresh run skips the
\* scan: only a resolved conversation id is checked.
Begin(r, p, c) ==
    /\ pc[r] = "idle" /\ mgr[p] = "serving"
    /\ owner' = [owner EXCEPT ![r] = p]
    /\ req' = [req EXCEPT ![r] = c]
    /\ pc' = [pc EXCEPT ![r] = IF c = Fresh THEN "admit" ELSE "list"]
    /\ blockers' = [blockers EXCEPT ![r] =
                        {b \in Runs : LiveJob(b) /\ c # Fresh
                                      /\ (req[b] = c \/ named[b] = c)}]
    /\ UNCHANGED <<gateVars, flock, restoreVars, scanVars, diskVars, procVars, bounds>>

Refuse(r) == pc' = [pc EXCEPT ![r] = "done"]

ScanList(r) ==
    /\ pc[r] = "list"
    /\ \/ /\ todo' = [todo EXCEPT ![r] = OnDisk]
          /\ pc' = [pc EXCEPT ![r] = "scan"]
       \/ Refuse(r) /\ UNCHANGED todo       \* List failed: fail closed
    /\ UNCHANGED <<gateVars, flock, restoreVars, cur, skipped, askVars, diskVars, procVars, bounds>>

\* Load, ExitCode and processAlive of one id.  They are three reads of facts
\* that only ever change one way, so they agree with one instant among them.
\* A job whose meta.json cannot be read is passed over and only logged, "a
\* hole in the check": one that is not live is passed over anyway.
ScanJob(r, j) ==
    /\ pc[r] = "scan" /\ j \in todo[r]
    /\ \/ /\ ~LiveJob(j)
          /\ todo' = [todo EXCEPT ![r] = @ \ {j}]
          /\ UNCHANGED <<pc, cur, skipped, unreadable>>
       \/ /\ LiveJob(j) /\ ReadFault        \* Load failed
          /\ todo' = [todo EXCEPT ![r] = @ \ {j}]
          /\ skipped' = [skipped EXCEPT ![r] = @ \cup {j}]
          /\ UNCHANGED <<pc, cur>>
       \/ /\ LiveJob(j) /\ req[j] = req[r]
          /\ Refuse(r)
          /\ todo' = [todo EXCEPT ![r] = {}]
          /\ UNCHANGED <<cur, skipped, unreadable>>
       \/ /\ LiveJob(j) /\ req[j] # req[r]
          /\ pc' = [pc EXCEPT ![r] = "progress"]
          /\ cur' = [cur EXCEPT ![r] = j]
          /\ UNCHANGED <<todo, skipped, unreadable>>
    /\ UNCHANGED <<gateVars, flock, restoreVars, askVars, diskVars, procVars, crashes, supCrashes>>

\* A fresh run's conversation is only in its progress file.
ProgressNames(j, c) == named[j] = c

\* When Dir or ReadProgressDir fails the job looks like one that has named
\* nothing yet, and is passed over like a job on another conversation.
ScanProgress(r) ==
    /\ pc[r] = "progress"
    /\ cur' = [cur EXCEPT ![r] = NoRun]
    /\ \/ /\ ProgressNames(cur[r], req[r])
          /\ Refuse(r)
          /\ todo' = [todo EXCEPT ![r] = {}]
          /\ UNCHANGED <<skipped, unreadable>>
       \/ /\ \/ ~ProgressNames(cur[r], req[r]) /\ UNCHANGED <<skipped, unreadable>>
             \/ /\ cur[r] \in Named /\ ReadFault
                /\ skipped' = [skipped EXCEPT ![r] = @ \cup {cur[r]}]
          /\ pc' = [pc EXCEPT ![r] = "scan"]
          /\ todo' = [todo EXCEPT ![r] = @ \ {cur[r]}]
    /\ UNCHANGED <<gateVars, flock, restoreVars, askVars, diskVars, procVars, crashes, supCrashes>>

ScanDone(r) ==
    /\ pc[r] = "scan" /\ todo[r] = {}
    /\ pc' = [pc EXCEPT ![r] = "admit"]
    /\ UNCHANGED <<gateVars, flock, restoreVars, scanVars, askVars, diskVars, procVars, bounds>>

-----------------------------------------------------------------------------
(* The gate and the cross-process lock.                                    *)

Reserve(p, c) ==
    /\ inFlight' = [inFlight EXCEPT ![p] = @ + 1]
    /\ keys' = [keys EXCEPT ![p] = @ \cup ({c} \ {Fresh})]

\* gate.release: the counter is clamped at zero.
GateRelease(p, c) ==
    /\ inFlight' = [inFlight EXCEPT ![p] = IF @ > 0 THEN @ - 1 ELSE 0]
    /\ keys' = [keys EXCEPT ![p] = @ \ {c}]

KeyBusy(p, c) == c \in keys[p]
AtCap(p) == inFlight[p] >= Cap

\* admit, first half: gate.tryAcquire.
TryAcquire(r) ==
    LET p == owner[r] c == req[r]
    IN /\ pc[r] = "admit"
       /\ IF KeyBusy(p, c) \/ AtCap(p)
          THEN Refuse(r) /\ UNCHANGED gateVars
          ELSE /\ Reserve(p, c)
               /\ pc' = [pc EXCEPT ![r] = IF c = Fresh THEN "create" ELSE "lock"]
       /\ UNCHANGED <<flock, restoreVars, scanVars, askVars, diskVars, procVars, bounds>>

\* Faulty variant: every process locks a file of its own.
FlockFreeLocally(p, c) == flock[c] # p

\* flock with LOCK_NB succeeds: no process holds the key's lock file.
FlockFree(p, c) == flock[c] = NoProc

\* admit, second half: crossLock.tryLock.  Every other outcome (the key is
\* already held by this process, held by a sibling, or the lock file cannot
\* be used) rolls the gate back.
TryLock(r) ==
    LET p == owner[r] c == req[r]
    IN /\ pc[r] = "lock"
       /\ \/ /\ FlockFree(p, c)
             /\ flock' = [flock EXCEPT ![c] = p]
             /\ pc' = [pc EXCEPT ![r] = "create"]
          \/ /\ pc' = [pc EXCEPT ![r] = "rollback"]
             /\ UNCHANGED flock
       /\ UNCHANGED <<gateVars, restoreVars, scanVars, askVars, diskVars, procVars, bounds>>

Rollback(r) ==
    /\ pc[r] = "rollback"
    /\ GateRelease(owner[r], req[r])
    /\ Refuse(r)
    /\ UNCHANGED <<flock, restoreVars, scanVars, askVars, diskVars, procVars, bounds>>

-----------------------------------------------------------------------------
(* Creation of the job and of its supervisor.                              *)

\* newID or store.Create may fail, and Create removes what it began.
Create(r) ==
    /\ pc[r] = "create"
    /\ \/ /\ meta' = [meta EXCEPT ![r] = "created"]
          /\ pc' = [pc EXCEPT ![r] = "spawn"]
       \/ pc' = [pc EXCEPT ![r] = "unlock"] /\ UNCHANGED meta
    /\ UNCHANGED <<gateVars, flock, restoreVars, scanVars, askVars, named, exited, procVars, bounds>>

\* proc.StartDetached; on failure the directory is removed.
Spawn(r) ==
    /\ pc[r] = "spawn"
    /\ \/ /\ sup' = [sup EXCEPT ![r] = "up"]
          /\ pc' = [pc EXCEPT ![r] = "record"]
          /\ UNCHANGED meta
       \/ /\ meta' = [meta EXCEPT ![r] = "none"]
          /\ pc' = [pc EXCEPT ![r] = "unlock"]
          /\ UNCHANGED sup
    /\ UNCHANGED <<gateVars, flock, restoreVars, scanVars, askVars, named, exited, agy, session, bounds>>

\* UpdateMeta with the PID.  On failure abortSpawn terminates the supervisor
\* and waits for it in the background.
RecordPid(r) ==
    /\ pc[r] = "record"
    /\ \/ /\ meta' = [meta EXCEPT ![r] = "recorded"]
          /\ pc' = [pc EXCEPT ![r] = "wait"]
       \/ pc' = [pc EXCEPT ![r] = "abort"] /\ UNCHANGED meta
    /\ UNCHANGED <<gateVars, flock, restoreVars, scanVars, askVars, named, exited, procVars, bounds>>

\* Faulty variant: the release waits for the sentinel instead of the exit.
WaitSentinel(r) ==
    /\ pc[r] = "wait" /\ sup[r] = "gone" /\ exited[r]
    /\ pc' = [pc EXCEPT ![r] = "unlock"]
    /\ UNCHANGED <<gateVars, flock, restoreVars, scanVars, askVars, diskVars, procVars, bounds>>

\* cmd.Wait returned: the supervisor is gone and the release begins.
WaitReturns(r) ==
    /\ pc[r] = "wait" /\ sup[r] = "gone"
    /\ pc' = [pc EXCEPT ![r] = "unlock"]
    /\ UNCHANGED <<gateVars, flock, restoreVars, scanVars, askVars, diskVars, procVars, bounds>>

\* abortSpawn's goroutine: cmd.Wait, then store.Remove, then the release.
AbortReaped(r) ==
    /\ pc[r] = "abort" /\ sup[r] = "gone"
    /\ meta' = [meta EXCEPT ![r] = "none"]
    /\ pc' = [pc EXCEPT ![r] = "unlock"]
    /\ UNCHANGED <<gateVars, flock, restoreVars, scanVars, askVars, named, exited, procVars, bounds>>

\* crossLock.unlock: a no-op for a key this process does not hold.
UnlockedBy(p, c) == [k \in Convs |-> IF k = c /\ flock[k] = p THEN NoProc ELSE flock[k]]

\* Faulty variant: the gate first and the flock second, as in issue #81.
UnlockGateFirst(r) ==
    /\ pc[r] = "unlock"
    /\ IF KeyBusy(owner[r], req[r])
       THEN GateRelease(owner[r], req[r]) /\ UNCHANGED <<pc, flock>>
       ELSE /\ flock' = UnlockedBy(owner[r], req[r])
            /\ pc' = [pc EXCEPT ![r] = IF req[r] = Fresh THEN "ungate" ELSE "done"]
            /\ UNCHANGED gateVars
    /\ UNCHANGED <<restoreVars, scanVars, askVars, diskVars, procVars, bounds>>

\* releaseKey drops the flock first and the gate slot last.
Unlock(r) ==
    /\ pc[r] = "unlock"
    /\ flock' = UnlockedBy(owner[r], req[r])
    /\ pc' = [pc EXCEPT ![r] = "ungate"]
    /\ UNCHANGED <<gateVars, restoreVars, scanVars, askVars, diskVars, procVars, bounds>>

Ungate(r) ==
    /\ pc[r] = "ungate"
    /\ GateRelease(owner[r], req[r])
    /\ pc' = [pc EXCEPT ![r] = "done"]
    /\ UNCHANGED <<flock, restoreVars, scanVars, askVars, diskVars, procVars, bounds>>

-----------------------------------------------------------------------------
(* The supervisor and agy, as far as admission depends on them.            *)

\* agy is started on the requested conversation, or fails to start.
StartAgy(r) ==
    /\ sup[r] = "up" /\ agy[r] = "none"
    /\ \/ /\ agy' = [agy EXCEPT ![r] = "running"]
          /\ session' = [session EXCEPT ![r] = IF req[r] = Fresh THEN NoConv ELSE req[r]]
       \/ agy' = [agy EXCEPT ![r] = "gone"] /\ UNCHANGED session
    /\ UNCHANGED <<gateVars, flock, restoreVars, pc, scanVars, askVars, diskVars, sup, bounds>>

\* agy creates a conversation for a fresh run and picks a name of its own.
NameSession(r, c) ==
    /\ agy[r] = "running" /\ session[r] = NoConv
    /\ c \in NewConvs /\ \A q \in Runs : session[q] # c
    /\ session' = [session EXCEPT ![r] = c]
    /\ UNCHANGED <<gateVars, flock, restoreVars, pc, scanVars, askVars, diskVars, sup, agy, bounds>>

\* The drain writes the id of agy's init event to progress.json.  For a
\* continuation it repeats what meta.json says, and is left out.
RecordName(r) ==
    /\ sup[r] = "up" /\ ~exited[r] /\ req[r] = Fresh
    /\ session[r] # NoConv /\ named[r] = NoConv
    /\ named' = [named EXCEPT ![r] = session[r]]
    /\ UNCHANGED <<gateVars, flock, restoreVars, pc, scanVars, askVars, meta, exited, procVars, bounds>>

\* agy ends by itself, or is terminated on a cancel or a timeout.
AgyExit(r) ==
    /\ agy[r] = "running"
    /\ agy' = [agy EXCEPT ![r] = "gone"]
    /\ UNCHANGED <<gateVars, flock, restoreVars, pc, scanVars, askVars, diskVars, sup, session, bounds>>

\* The sentinel is the supervisor's last write, after agy is reaped.
WriteExit(r) ==
    /\ sup[r] = "up" /\ agy[r] = "gone" /\ ~exited[r]
    /\ exited' = [exited EXCEPT ![r] = TRUE]
    /\ UNCHANGED <<gateVars, flock, restoreVars, pc, scanVars, askVars, meta, named, procVars, bounds>>

SupervisorExit(r) ==
    /\ sup[r] = "up" /\ exited[r]
    /\ sup' = [sup EXCEPT ![r] = "gone"]
    /\ UNCHANGED <<gateVars, flock, restoreVars, pc, scanVars, askVars, diskVars, agy, session, bounds>>

\* The supervisor is killed, or gives up without a sentinel; on Linux agy, in
\* its own session, lives on.  abortSpawn's SIGTERM also kills a supervisor
\* that has not armed its handler yet, which is before it starts agy.
SupervisorCrash(r) ==
    /\ sup[r] = "up" /\ ~exited[r]
    /\ \/ supCrashes < MaxSupCrashes /\ supCrashes' = supCrashes + 1
       \/ pc[r] = "abort" /\ agy[r] = "none" /\ UNCHANGED supCrashes
    /\ sup' = [sup EXCEPT ![r] = "gone"]
    /\ UNCHANGED <<gateVars, flock, restoreVars, pc, scanVars, askVars, diskVars, agy, session, crashes, unreadable>>

-----------------------------------------------------------------------------
(* A manager starts, restores its gate, and dies.                          *)

\* RestoreAndCollect lists the directory once, before serving.
Start(p) ==
    /\ mgr[p] = "down"
    /\ mgr' = [mgr EXCEPT ![p] = "restoring"]
    /\ restoreTodo' = [restoreTodo EXCEPT ![p] = OnDisk]
    /\ UNCHANGED <<gateVars, flock, restoreCur, watch, unrestored, pc, scanVars, askVars, diskVars, procVars, bounds>>

\* Faulty variant: only jobs that have a conversation key are restored.
RestoreCheckKeyed(p, r) ==
    /\ mgr[p] = "restoring" /\ restoreCur[p] = NoRun /\ r \in restoreTodo[p]
    /\ restoreTodo' = [restoreTodo EXCEPT ![p] = @ \ {r}]
    /\ restoreCur' = [restoreCur EXCEPT ![p] = IF LiveJob(r) /\ req[r] # Fresh THEN r ELSE NoRun]
    /\ UNCHANGED unrestored
    /\ UNCHANGED <<gateVars, flock, mgr, watch, pc, scanVars, askVars, diskVars, procVars, bounds>>

\* restoreEvaluate, up to its last early return.  A live job whose meta.json
\* cannot be read is left out: "the one gap in this method's fail-closed
\* contract".
RestoreCheck(p, r) ==
    /\ mgr[p] = "restoring" /\ restoreCur[p] = NoRun /\ r \in restoreTodo[p]
    /\ restoreTodo' = [restoreTodo EXCEPT ![p] = @ \ {r}]
    /\ \/ /\ restoreCur' = [restoreCur EXCEPT ![p] = IF LiveJob(r) THEN r ELSE NoRun]
          /\ UNCHANGED <<unrestored, unreadable>>
       \/ /\ LiveJob(r) /\ ReadFault        \* metaErr
          /\ unrestored' = [unrestored EXCEPT ![p] = @ \cup {r}]
          /\ UNCHANGED restoreCur
    /\ UNCHANGED <<gateVars, flock, mgr, watch, pc, scanVars, askVars, diskVars, procVars, crashes, supCrashes>>

\* Faulty variant: a restored job holds its key but no slot.
ForceAdmitUncounted(p) ==
    LET r == restoreCur[p] c == req[restoreCur[p]]
    IN /\ mgr[p] = "restoring" /\ r # NoRun
       /\ restoreCur' = [restoreCur EXCEPT ![p] = NoRun]
       /\ keys' = [keys EXCEPT ![p] = @ \cup ({c} \ {Fresh})]
       /\ watch' = [watch EXCEPT ![p][r] = "watching"]
       /\ UNCHANGED <<inFlight, flock, mgr, restoreTodo, unrestored, pc, scanVars, askVars, diskVars, procVars, bounds>>

\* forceAdmit: the gate regardless of its cap, the flock best effort (it may
\* be held by a sibling, or the lock file may be unusable), then one watcher
\* per key.  No other goroutine of p can want this key meanwhile.
ForceAdmit(p) ==
    LET r == restoreCur[p] c == req[restoreCur[p]]
    IN /\ mgr[p] = "restoring" /\ r # NoRun
       /\ restoreCur' = [restoreCur EXCEPT ![p] = NoRun]
       /\ IF KeyBusy(p, c)
          THEN UNCHANGED <<gateVars, watch, flock>>
          ELSE /\ Reserve(p, c)
               /\ watch' = [watch EXCEPT ![p][r] = "watching"]
               /\ \/ /\ c # Fresh /\ FlockFree(p, c)
                     /\ flock' = [flock EXCEPT ![c] = p]
                  \/ UNCHANGED flock
       /\ UNCHANGED <<mgr, restoreTodo, unrestored, pc, scanVars, askVars, diskVars, procVars, bounds>>

Serve(p) ==
    /\ mgr[p] = "restoring" /\ restoreCur[p] = NoRun /\ restoreTodo[p] = {}
    /\ mgr' = [mgr EXCEPT ![p] = "serving"]
    /\ UNCHANGED <<gateVars, flock, restoreTodo, restoreCur, watch, unrestored, pc, scanVars, askVars, diskVars, procVars, bounds>>

\* Faulty variants: the watcher forgets the gate, or waits for a sentinel
\* that a killed supervisor never writes.
WatchUngateLeaks(p, r) ==
    /\ watch[p][r] = "ungate"
    /\ watch' = [watch EXCEPT ![p][r] = "none"]
    /\ UNCHANGED <<gateVars, flock, mgr, restoreTodo, restoreCur, unrestored, pc, scanVars, askVars, diskVars, procVars, bounds>>

WatchSentinelOnly(p, r) ==
    /\ watch[p][r] = "watching" /\ exited[r]
    /\ watch' = [watch EXCEPT ![p][r] = "ungate"]
    /\ flock' = UnlockedBy(p, req[r])
    /\ UNCHANGED <<gateVars, mgr, restoreTodo, restoreCur, unrestored, pc, scanVars, askVars, diskVars, procVars, bounds>>

\* watchRestored polls dead() and then runs releaseKey.
WatchDead(p, r) ==
    /\ watch[p][r] = "watching" /\ ~LiveJob(r)
    /\ watch' = [watch EXCEPT ![p][r] = "ungate"]
    /\ flock' = UnlockedBy(p, req[r])
    /\ UNCHANGED <<gateVars, mgr, restoreTodo, restoreCur, unrestored, pc, scanVars, askVars, diskVars, procVars, bounds>>

WatchUngate(p, r) ==
    /\ watch[p][r] = "ungate"
    /\ watch' = [watch EXCEPT ![p][r] = "none"]
    /\ GateRelease(p, req[r])
    /\ UNCHANGED <<flock, mgr, restoreTodo, restoreCur, unrestored, pc, scanVars, askVars, diskVars, procVars, bounds>>

\* The kernel drops every flock of the dead process; its goroutines are gone
\* and the detached supervisors live on.
Crash(p) ==
    /\ crashes < MaxCrashes /\ mgr[p] # "down"
    /\ crashes' = crashes + 1
    /\ mgr' = [mgr EXCEPT ![p] = "down"]
    /\ inFlight' = [inFlight EXCEPT ![p] = 0]
    /\ keys' = [keys EXCEPT ![p] = {}]
    /\ flock' = [c \in Convs |-> IF flock[c] = p THEN NoProc ELSE flock[c]]
    /\ restoreTodo' = [restoreTodo EXCEPT ![p] = {}]
    /\ restoreCur' = [restoreCur EXCEPT ![p] = NoRun]
    /\ watch' = [watch EXCEPT ![p] = [r \in Runs |-> "none"]]
    /\ unrestored' = [unrestored EXCEPT ![p] = {}]
    /\ pc' = [r \in Runs |-> IF owner[r] = p /\ pc[r] # "done" THEN "lost" ELSE pc[r]]
    /\ todo' = [r \in Runs |-> IF owner[r] = p THEN {} ELSE todo[r]]
    /\ cur' = [r \in Runs |-> IF owner[r] = p THEN NoRun ELSE cur[r]]
    /\ UNCHANGED <<skipped, askVars, diskVars, procVars, supCrashes, unreadable>>

-----------------------------------------------------------------------------
ManagerStep(r) ==
    \/ ScanList(r) \/ (\E j \in Runs : ScanJob(r, j)) \/ ScanProgress(r) \/ ScanDone(r)
    \/ TryAcquire(r) \/ TryLock(r) \/ Rollback(r)
    \/ Create(r) \/ Spawn(r) \/ RecordPid(r)
    \/ WaitReturns(r) \/ AbortReaped(r) \/ Unlock(r) \/ Ungate(r)

SupervisorStep(r) ==
    \/ StartAgy(r) \/ RecordName(r) \/ WriteExit(r) \/ SupervisorExit(r)

RestoreStep(p) ==
    \/ (\E r \in Runs : RestoreCheck(p, r)) \/ ForceAdmit(p) \/ Serve(p)

WatchStep(p, r) == WatchDead(p, r) \/ WatchUngate(p, r)

Next ==
    \/ \E r \in Runs, p \in Procs, c \in Known \cup {Fresh} : Begin(r, p, c)
    \/ \E r \in Runs : ManagerStep(r) \/ SupervisorStep(r) \/ AgyExit(r) \/ SupervisorCrash(r)
    \/ \E r \in Runs, c \in NewConvs : NameSession(r, c)
    \/ \E p \in Procs : Start(p) \/ RestoreStep(p) \/ Crash(p)
    \/ \E p \in Procs, r \in Runs : WatchStep(p, r)

Spec == Init /\ [][Next]_vars

(***************************************************************************)
(* Goroutines and processes are scheduled; agy ends because the supervisor *)
(* is there to enforce a hard timeout on it.  Callers, crashes             *)
(* and the start of a process are not promised.                            *)
(***************************************************************************)
Fairness ==
    /\ \A r \in Runs : /\ WF_vars(ManagerStep(r))
                       /\ WF_vars(SupervisorStep(r))
                       /\ WF_vars(sup[r] = "up" /\ AgyExit(r))
    /\ \A p \in Procs : WF_vars(RestoreStep(p))
    /\ \A p \in Procs, r \in Runs : WF_vars(WatchStep(p, r))

FairSpec == Spec /\ Fairness

-----------------------------------------------------------------------------
(* Properties.                                                             *)

\* agy drives a conversation under its supervisor, for a manager that is
\* still there to hold its lock.
Drives(r, c) == agy[r] = "running" /\ session[r] = c /\ sup[r] = "up" /\ pc[r] # "lost"

\* The one way past the check: the scan of continuation r could not read the
\* directory of the fresh run b that meanwhile has its conversation.
SkippedFresh(r, b) == req[b] = Fresh /\ b \in skipped[r]

\* Two attended agy sessions share a conversation only through that hole, which
\* the code leaves rather than refuse every continuation over one corrupt job:
\* never two continuations, in one process or in two, whatever the scan could
\* read, and never a continuation of a fresh run whose directory it could read
\* (README "What is still serialized is a conversation"; conversationLive,
\* admit).
ConversationExclusion ==
    \A r1, r2 \in Runs : \A c \in Convs :
        Drives(r1, c) /\ Drives(r2, c) =>
            r1 = r2 \/ SkippedFresh(r1, r2) \/ SkippedFresh(r2, r1)

\* Crashes or not, a run never gets to agy while a job that was live on its
\* conversation when the run was requested still runs, unless the scan met that
\* job and could not read its meta.json or progress.json (conversationLive).
ScanBlocksLiveJobs ==
    \A r \in Runs : \A b \in blockers[r] \ skipped[r] :
        agy[r] = "running" => ~(agy[b] = "running" /\ sup[b] = "up")

\* tryLock's guard "already held by this process" is never reached, because
\* releaseKey gives the gate key back after the flock (issue #81).
NoSelfInflictedBusy ==
    \A r \in Runs : pc[r] = "lock" => flock[req[r]] # owner[r]

\* The slots a process really uses: its own runs and its restored jobs.
SlotHolders(p) == {r \in Runs : owner[r] = p /\ pc[r] \in GatePCs}
Watched(p) == {r \in Runs : watch[p][r] # "none"}

\* Every path gives back exactly the slot, the key and the flock it took:
\* no failure, rollback, abort or restore leaks or returns one twice.
GateExact ==
    \A p \in Procs :
        /\ inFlight[p] = Cardinality(SlotHolders(p)) + Cardinality(Watched(p))
        /\ keys[p] = {req[r] : r \in SlotHolders(p) \cup Watched(p)} \ {Fresh}
        /\ \A c \in Convs : flock[c] = p =>
              \/ \E r \in SlotHolders(p) : req[r] = c /\ pc[r] \in LockPCs
              \/ \E r \in Watched(p) : req[r] = c /\ watch[p][r] = "watching"

\* A process admits a run only while fewer than Cap of the jobs it accounts
\* for have a live supervisor (gate.tryAcquire against forceAcquire).
LiveCounted(p) == {r \in SlotHolders(p) \cup Watched(p) : sup[r] = "up"}
AdmissionRespectsCap ==
    [][\A r \in Runs : sup[r] = "none" /\ sup'[r] = "up"
          => Cardinality(LiveCounted(owner[r])) < Cap]_vars

\* The job is the only one recorded on its conversation.
AloneOnKey(r) ==
    \A q \in Runs \ {r} : req[q] = req[r] => req[r] = Fresh \/ meta[q] # "recorded"

\* Once a process serves again, every job it had recorded and that still runs
\* occupies a slot, but for a job whose meta.json it could not read when it
\* restored its gate (restoreEvaluate, forceAdmit).  Two restored jobs on one
\* key share a watcher, and the first to end gives the key back: a job whose
\* conversation has another recorded job is left out.
RestoreCountsRecorded ==
    \A p \in Procs, r \in Runs :
        mgr[p] = "serving" /\ owner[r] = p /\ pc[r] = "lost" /\ LiveJob(r) /\ AloneOnKey(r)
            => r \in Watched(p) \cup unrestored[p]

\* Whatever happens to it, an admitted run gives its slot back (the wait and
\* abort goroutines, releaseKey), even if its supervisor was killed.
SlotsReturned ==
    \A r \in Runs : pc[r] \in GatePCs ~> pc[r] \notin GatePCs

\* A restored job's slot is given back once its supervisor is gone
\* (watchRestored), by sentinel or by death.
RestoredReturned ==
    \A p \in Procs, r \in Runs : watch[p][r] # "none" ~> watch[p][r] = "none"
=============================================================================
