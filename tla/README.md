# Verification of agy-mcp

TLA+ models of the concurrent core of agy-mcp, the TLC configurations that check
them on small instances, and TLAPS proofs of their main invariants for every
value of the constants. Every definition is translated from the Go source;
`PROJECT.json` maps each to the lines it stands for.

    tlc -config MCAdmissionCrash.cfg MCAdmission  # a run
    tlapm AdmissionProofs.tla                    # the proofs of a module

## 1. Inventory

agy-mcp serves MCP tools (`agy_run`, `agy_status`, `agy_wait`, `agy_cancel`, ...)
that start the `agy` command as a background job. Each job is driven by a
*detached supervisor process* (`agy-mcp run-job DIR`), which outlives the server
that started it. The state directory is shared by all server processes of a user;
there is no daemon and no database, only files, file locks and processes.

| Component (source) | State it keeps | Operations | Talks to |
|---|---|---|---|
| Admission: `manager/concurrency.go`, `admit.go`, `keylock*.go`, `manager.go` (StartJob, conversationLive, RestoreAndCollect, watchRestored) | per process: slots in use, reserved conversation keys, open lock descriptors; per job: cleanup or watcher goroutine | start a job, release its slot, restore the gate at start | lock files (other processes), job directories, supervisors |
| Idempotency: `admit.go`, `manager.go` (claimIdempotency, findIdempotentJob, abortSpawn), `requestkey.go` | per process: `idemKeys`; lock file per key; key and request hash in `meta.json` | claim, look up, create, release or hand to the teardown | lock files, job directories |
| Supervisor: `supervisor/*.go` | goroutines of one job, `done`/`cancel`/`drained` channels, `timedOut`, `cancelled` | start agy, mirror its stream, cancel, time out, write the sentinel | agy, its descendants, SIGTERM from the manager, the job directory |
| Job directory: `jobstore/store.go` | `meta.json`, `progress.json`, `out`, `err`, `result.json`, `exit_code`, markers | atomic replacement, append, removal | written by one supervisor and its manager, read by everybody |
| Status and outcome: `manager/status.go`, `agyerror.go` | none | classify a job from its files and its process | job directory |
| Garbage collection: `manager.go` (gcEvaluate) | none | remove directories past the TTL | job directory, liveness |
| Waiting clients: `wait.go`, `mcptools/await.go`, `run_sync.go`, `hookwait.go`, `waitcmd.go`, `collected.go` | deadline; collected and dismissed markers | poll until terminal | status |
| Quota: `quota.go` | per process: last snapshot, last failure, the probe in flight, a latch; a background refresher | `agy_usage`, refuse an optional run by the cache alone | agy, `agy_run` |
| agy version: `agyver/`, `config.go`, `manager.go` | the path found at startup; memo of the path already verified | find agy, verify its version | agy, every tool that runs it |
| Doctor: `doctor.go` | a memo of its own; its report | seven checks of one installation | agy, the state directory, the jobs |
| Stream decoding: `streamjson/`, `supervisor/stream.go` | bytes of the line being read, malformed count, progress and result so far | read a line, decode it, mirror it | agy's pipe, the job directory |
| Durable writes: `jobstore/store.go` | temp files, names renamed but not synced | replace a file, create a chain of directories | the kernel, other processes at the state root |
| Tool surface, config, hook input, models/agents/sessions, platform files, lint rules | none that outlives a call | parsing and formatting | |

**Hard behaviours.** Several server processes race on one directory; a fresh run
has no conversation name until agy reports it, so a continuation of it cannot be
excluded by a lock taken up front; a manager can die between any two steps of a
creation while the supervisor lives on, and must count it again after a restart;
a failed creation is torn down in the background after its call has returned; in
the supervisor four goroutines race with a timer, a signal and a process that may
ignore it, over a pipe a descendant may hold open for ever; a line of that pipe may be
longer than any buffer, broken, or cut; many calls share one probe of agy, which costs
quota when it goes wrong; agy is replaced while its version is being read; and the
power can fail between a rename and the fsync that makes it last.

**What makes each component correct.** Admission: agy never drives one
conversation twice, the cap is kept, every slot, key and lock is given back
exactly once. Idempotency: one key, at most one job; a retry only gets a real
one. Supervisor: the sentinel is truthful, comes last, comes whatever agy does,
and the record is complete before it. Readers: a verdict, once given, is right
and final; a live job is not removed. Quota: probes are never doubled or repeated too
early, an answer has a probe behind it, a refusal is the reading's own. Version gate:
only what was true is remembered. Stream: every usable line is mirrored, every other
counted. Durable writes: nothing is torn, nothing acknowledged is lost.

## 2. Modules

| Module | What it is |
|---|---|
| `Admission` | the processes sharing the directory: gate, lock, scan, creation, release, crash, restoration |
| `Idempotency` | the calls of one key: claim, lookup, creation, background teardown, GC, crash |
| `JobDir` | abstract: what a job directory promises to its readers |
| `Supervisor` | detailed: the goroutines of one supervisor with agy, a descendant and a canceller; implements `JobDir` |
| `Readers` | the readers of one directory: `Status` file by file, the waiters and markers, `agy_cancel`, hook-wait, a collection that removes the files; composed with `JobDir` |
| `Outcome` | what a finished directory is answered with: the classification of `status.go` and the advice of the tools, a pure function of exit code, payload, text and stderr |
| `QuotaReading` | pure: what a `/usage` reply means, and what a reading says of an optional run |
| `Quota` | the cache, the shared probe, the calls and the refresher of one process; extends `QuotaReading` |
| `DurableDir` | one job's directory chain and files under a kernel that writes back when it likes, failing operations and a power failure |
| `StreamReader` | the line reader, the decoder and the consumer of agy's stream, byte counts and all |
| `AgyVersion` | pure: which of the versions an output names is agy's |
| `AgyGate` | the gate with its memo in a server, and the doctor command, while agy and PATH change; extends `AgyVersion` |
| `AdmissionProofs`, `IdempotencyProofs`, `SupervisorProofs`, `ReadersProofs`, `OutcomeProofs`, `QuotaProofs`, `DurableDirProofs`, `AgyGateProofs` | the inductive invariants and the theorems of these modules; `OutcomeProofs` has those of `StreamReader` as well |
| `MCAdmission`, `MCIdempotency`, `MCSupervisor`, `MCReaders`, `MCOutcome`, `MCQuota`, `MCDurableDir`, `MCStreamReader`, `MCAgyGate` | instances for TLC: symmetry sets, replies, lines, agys |

Three modules compose others: `Readers` runs beside any behaviour of `JobDir`, which
`Supervisor` implements; `StreamReader` is the inside of `Supervisor`'s draining
goroutine, where a line is one event; `DurableDir` is the inside of the one-step file
writes of `Supervisor`, `Idempotency` and `Admission`.

### Admission

A *run* is one call of `StartJob`; after `Create` it is a job under the same name.
`pc` walks through the call and then through the cleanup goroutine it leaves:
`list`, `scan`, `progress` are `conversationLive` (one `List`, then one `Load` and
one progress read per id, other processes acting in between), `admit` is the gate's
`tryAcquire` under its mutex, `lock` is `tryLock`, `rollback` gives the gate slot back
if the lock failed, `create`/`spawn`/`record` are `store.Create`, `StartDetached` and
`UpdateMeta` with their failure paths, `wait` is the goroutine in `cmd.Wait`, `abort`
the one of `abortSpawn`, `unlock` and `ungate` the two halves of `releaseKey`. A fresh
run has an empty key: it takes a slot, and neither scan nor key nor lock. `lost`
marks a call whose process was killed.

The code passes over a job it cannot read: `conversationLive` one whose `meta.json` fails
to load, whose directory is unusable or whose `progress.json` cannot be read (it calls this
"a hole in the check"), `restoreEvaluate` one whose `meta.json` fails to load ("the one gap in
this method's fail-closed contract"). So do `ScanJob`, `ScanProgress` and `RestoreCheck`,
by a `ReadFault`; `skipped` and `unrestored` remember which live jobs it cost, and the
properties except exactly those: what a continuation of a fresh run may miss, never what
the gate and the lock hold by themselves. `MaxUnreadable` bounds the faults.

The gate's `inFlight` and `keys` are per process, `flock` is the kernel's. `Start`,
`RestoreCheck`, `ForceAdmit`, `Serve`, `WatchDead`, `WatchUngate` are
`RestoreAndCollect`, which finishes before a process serves, and `watchRestored`.
`Crash` kills a process; its descriptors close. agy, the supervisor's start and its
files are the steps `StartAgy` to `SupervisorCrash`, at the grain the managers see.

A caller can only continue a conversation it knows (`Known`): an old one, or the id
of a fresh run that has reached `progress.json` after its PID was recorded, which is
when `agy_run` and `agy_status` return it.

### Idempotency

One key. `claim`/`flock`/`unclaim` are `acquireIdempotency`, `list`/`look`
`findIdempotentJob` with one `Load` per step, `admit` the refusals between the lookup
and the creation (priority, agy's binary, conversation, gate), `mkdir`/`write` the two
steps of `store.Create`, `spawn`/`record` as above. A failure after the spawn goes to
`abort`: the call has returned its error, the claim belongs to the goroutine that
waits for the supervisor. `unlock`/`release` are `releaseIdempotency`. `dir` keeps
apart what the lookup tells apart: no directory, a directory without `meta.json`
(`bare`), a record with PID 0 (`created`) and one with a PID (`recorded`). `Removed`
may leave anything up to what was there, because the code ignores the error. A
request is a value: `requestkey.go` decides when two are equal.

### Supervisor and JobDir

`main` is `run` statement by statement, `killer` the goroutine that waits for
done, cancel or the timeout and then terminates, waits `killGrace` and kills; agy
may exit with any code, also one the supervisor uses itself (`OwnExits`: 124, 127, 130 or
143, 137), and die of anybody's signal (`Signals`), which `RawCode` turns into what the sentinel says;
`drain`
is `consumeStream`; `fwd` and `sigBuf` are `waitForCancel` with its one-slot signal
channel. agy emits an init event, deltas and one result, may stop at any point, ignore
SIGTERM, or leave a descendant that holds the pipe (`holder`). Timers fire at any
time they are armed. `faults` counts failing file operations and the supervisor's
own death.

`JobDir` is the contract readers rely on: the name and the text grow, then
`result.json`, then `exit_code`, then the process is gone, and nothing after the
sentinel. `Supervisor` implements it with `named <- progress = "named"`,
`text <- out`, `payload <- result`, `verdict <- exit`, `alive <- main # "gone"`.

### Readers

The writer is any behaviour of `JobDir` (`SupervisorStep`), so what holds here holds
for `Supervisor`, which implements it. `load`, `progress`, `exit`, `alive`, `again`,
`payload`, `out` are the looks of one `Status` call, in the code's order, with everybody
else acting in between; `running` and `terminal` are its two answers, `error` a missing
`meta.json`. A tool polls, returns, and marks the job collected when it has the outcome
in hand; one tool stands for `agy_status`, `agy_wait` and `agy_run_sync`, which differ
in their deadline. `hook` is `hook-wait`: the short cut after a sync call that
delivered inline (`short`), the wait (`wait`), the grace in which a marker may still
appear (`settle`), and its ends: silent, woken, or failed because the job cannot be
read. `sweep` is `gcEvaluate`, which looks at the sentinel, the process and the
sentinel again and then removes the files one at a time, in any order; it can stop
halfway. `gone` are the removed files. An answer keeps its state, whether its text is
agy's own, reconstructed or missing, and whether it names the conversation; the
result payload is a SUCCESS with a response.

### Outcome

`Readers` shows when an answer is given; `Outcome` shows which. `job` is one
finished directory, `Status` the one step: it is answered. `StatusOf` is built the way
`status.go` is, one operator per function: `ApplyResult`, `CleanExitWithoutPayload` and
`RecoverInterrupted` decide, `AgysVerdict` lets agy's `AGY_ERROR` line, the old
print-timeout report and the sign-in check qualify an error, `CarryText` attaches the
text and says whether it is final, `ApplyCleanExitNotices` takes a verdict back when
stderr shows that agy ended the run early. `StateOf` is `Manager.State`, which
`agy_cancel` reports and which must not disagree although it reads only the sentinel,
and `Recovery` the advice of `toStatusOutput`. A message is its kind, a text its
origin. A response of newlines only is a kind of its own: it counts as a text where
the code looks at the payload and is empty once trimmed.

### Quota

A *probe* is one `quotaFlight`: `probes` keeps them in the order they started, with
phase, times and outcome, `inflight` is the one the cache points to. `Usage` is
`Manager.Usage` up to its wait, under the mutex: the model-turn latch, the fresh
snapshot, the error backoff, joining a flight or starting one, in that order. `FetchEnds` is
`fetchQuota` with its deadline and what it leaves in the cache, whose goroutine then
closes `done` in a step of its own (`CloseDone`), between which another call may start the
next probe. `Deliver` hands a waiter the outcome of the probe it joined, `GiveUp` a caller
whose context ended. `Refresh` is `runUsageRefresher`, `EndCtx` the shutdown. `QuotaDecision`
and its helpers in `QuotaReading` are `agy_run`'s check of an optional run: trusted
age, refilled windows, the tightest bucket of its own group, and the two
thresholds. An envelope is the
fields the decoder looks at; a disabled bucket and a renamed field are among its kinds.

### DurableDir

`dir` is the chain from the state root to the job; `MakeDirs` and `SyncParent` are
`MkdirAllDurable`, which syncs the parents of what it finds missing. A file has the
version a reader sees (`vis`) and the set a power failure may leave (`may`): a rename
adds to it, a directory fsync reduces it to what is seen. `WriteTemp`, `SyncTemp`,
`Rename`, `Publish` are `writeFileAtomic` and its durable form, and `WriteFails` its
error paths. The manager
writes `meta.json` twice (record and PID), the supervisor its progress, `result.json` and
`exit_code`. `RivalMakes` is another process that creates the state root first and has
not synced it. `PowerFails` picks one of `may` for every file and any suffix of the
unsynced levels to lose, and ends every process. `Sweep` is `gcEvaluate` on what is left once
the TTL has passed, with or without a `meta.json`; one that cannot be read it leaves.

### StreamReader

A stream is a sequence of lines given by their length, whether they decode, and the
fields the consumer reads. `ReadSlice` is one round of `readLine`'s loop over bufio's
buffer, with what it drops past the cap; `NextEvent` is `Reader.Next`, which skips blank
lines, counts what it cannot use and reports the end; `Consume` is `consumeStream`'s
switch with its writes, `Persist` what it leaves when the stream is over. agy
writes a line when the last one has been read, and may close, or be cut, in the middle
of one. `StreamFaithful` compares the result with a reader that is handed whole lines: the
numbers of the lines that are done (`Done`), the usable ones among them (`Events`), and
those of each kind say what the mirror must hold. `StreamInit` and `StreamSpec` have names
of their own because `OutcomeProofs` extends this module and `Outcome`.

### AgyGate and AgyVersion

`Resolve`, `Lock`, `Probed` are `agyBinaryChecked`: the binary's path, the memo under its
mutex, then `readAgyVersion`, during which the mutex is held and agy may be replaced.
`Cancelled` is a caller that leaves. `Doctor` has one disjunct per check, each looking at
the installation as it is then, in a process with a memo of its own. `Install`, `Repath` and
`JobEnds` are the world. An agy is the version it has, the output it prints for it, and
whether it hangs; `Told` says what is assumed of that output. `AgyVersion` folds the
candidates of an output as `agyver.Parse` does; the two regular expressions are the
fields of a triple.

## 3. Runs

| Run | Bounds | Checks |
|---|---|---|
| `admission_crash` | 2 processes, 2 runs, an old and a new conversation, cap 1, 2 manager crashes, 1 supervisor crash, 1 unreadable file (then at most one crash) | exclusion of agy sessions, the scan, the cap, across crashes and restoration |
| `admission_live` | 1 process, 2 runs, 2 manager crashes, 1 supervisor crash, 2 unreadable files, fairness | exact accounting, restoration, no self-inflicted busy; slots and watchers end |
| `supervisor` | 3 events, 1 fault, fairness | truthful and complete sentinel; refinement of `JobDir`; the sentinel comes, a cancel ends the job by itself |
| `idempotency` | 2 processes, 2 calls, 2 requests, 1 crash, 2 faults, fairness | at most one job, replays, claims and their release |
| `readers` | 1 tool, hook-wait, 2 collections, 1 piece of text, 3 exit codes, fairness of hook-wait | answers are final, wakes are not lost, a fresh result is not removed, hook-wait ends |
| `outcome` | every payload, stderr tail and text; the four codes the manager names, 0, 1 and no sentinel | `State` agrees with `Status`, no text is lost or wrongly final, quota walls and advice are right |
| `quota` | 2 calls, 2 probes, the refresher, clock 3, 4 kinds of reply, fairness | probes spaced and never after a model turn, answers backed by a probe, refusals exact, calls return |
| `durable` | 3 directories, 1 progress file, 2 faults, a rival at the root, fairness of the sweep | no torn file, nothing acknowledged is lost, no remnant stays |
| `stream` | 3 lines of 12 kinds, buffer 2, cap 5, 1 failed write, fairness of the goroutine | the mirror is the stream's usable lines, and the reader ends |
| `agy_gate` | 2 calls and a doctor, 2 paths, 5 agys, 4 state directories, 2 changes | verdicts and the report are true of what was there |
| `idempotency_remnant`, `terminal_unnamed` | smallest that show it | a sentence of the sources the code does not keep (section 6) |

**Why the bounds are enough to be of interest.** Two processes are what locks and
restoration are about, and each can be the sibling of the other. Two runs on a
conversation are the fresh run that creates it and its continuation, or two
competing continuations of an old one; with cap 1 the cap bites as well. What three
runs could add is left to the proofs, which hold for any number. Two crashes let both managers die, or
one die twice. One unreadable file is one job a scan or a restoration misses, two let
the scan miss one and a restoration another. In `admission_crash` the state constraint
`FewFaults` allows the unreadable file beside at most one killed process; the proofs
bound neither. Two calls of a key are the original and a retry that races with it,
comes after it or meets its remains; two requests give a conflict; two faults let a
creation fail and its removal fail as well. Three events are init, a delta and the
result. `MCCasts` bounds which clients act in the same
behaviour of `readers`: the tool, hook-wait and a cancel are together because the
markers connect them; the collection meets each kind of reader on its own. Two
collections are needed for one that stops halfway and one that meets its leavings.
`outcome` is exhaustive over kinds: 3.9 million directories, of which code 1 stands for
all codes the manager does not name. In `quota`, two probes are the first and one that
must be spaced from it, or the one after a model turn, which must not be; the clock
passes every age, the backoff and both reset times; the readings tie two windows, mix
groups and disable a bucket. In `durable`, three levels are the state root, `jobs/` and
the job, and two faults a failed write and a failed removal. In `stream` the lines lie
on both sides of the buffer and the cap, and three of them put every kind between two
others. In `agy_gate` two changes are a replacement and its undoing, and each agy's
output is misleading in its own way. Its state constraint `Apart` looks at the calls and the
doctor in turn: the two processes share nothing but the installation and the jobs,
which neither changes, so no property can tell the interleavings apart.
Symmetry is used only in `admission_crash` and `agy_gate`, which check no liveness.
Deadlock is not checked: all calls made and all jobs over is a legitimate end.

**Fairness.** Goroutines and processes are scheduled (weak fairness of each run's,
call's or goroutine's steps). In `Admission` agy ends while its supervisor lives,
because the supervisor enforces a hard timeout; `Supervisor` is where that itself is
checked, with no promise from agy at all. Its timers fire, except that the job's
timeout is only relied on while nobody has asked for a cancel, so that a cancel must
suffice. In `Readers` only hook-wait is promised to run, not its timeout, and a
supervisor that has written the sentinel exits. A supervisor that was sent SIGTERM by
`abortSpawn` ends. In `Quota` a probe ends, because it has a deadline of its own, and the
goroutines and the ticker run; no caller gives up and no time passes by promise. In
`DurableDir` only the TTL passes and the periodic sweep comes. In `StreamReader` only the
supervisor's goroutine runs; agy may never write or close. No caller, crash or
restart is promised anywhere.

## 4. Proofs

For all sets of processes, runs, calls, tools and requests, all caps, ages, thresholds,
replies, outputs, streams, buffer sizes, depths and bounds. The assumptions are those named in the modules: the constants that stand
for "none" are not members of the sets they are added to, old and new conversations
differ, the cap is positive (`newGate` floors it), ages and backoff are positive, the
thresholds are percents in order (`config.Resolve`), the bounds are naturals,
`Runs` is finite, an envelope is a sequence of groups of buckets, an output of agy a
sequence of lines of triples, and a line of a stream without a byte is blank.
`TypeCorrect` of a module is the type invariant; it is inside every
inductive invariant (the `Shapes` of the stream and the `TypeOK` of the gate as well) and
not a run of its own.

* **`AdmissionProofs`**: `TypeCorrect`, `Exclusion` (`ConversationExclusion`),
  `ScanSound` (`ScanBlocksLiveJobs`), `NoSelfBusy`. Exclusion is not inductive: a
  continuation of a fresh run's conversation is kept out neither by the gate nor by the
  lock, which the fresh run never took. The argument is that the id can only be asked
  for once it stands in `progress.json` (`Requested`), so the fresh run is then among
  the request's `blockers`; a blocker stays in the scan's list until it is seen, has
  ended or proves unreadable (`Scanned`); between two continuations the gate key excludes within a
  process and the lock across processes (`Gate`, `Locks`). The counting properties,
  `SlotsExact` (`GateExact`), `RestoresRecorded` (`RestoreCountsRecorded`) and `CapRespected`
  (`AdmissionRespectsCap`), rest on a second invariant, `CInv`: `Counted` ties the number
  of slots to the cardinality of their holders, `Reserved` each key to one of them,
  `Within` says that only restoration passes the cap, and `Restoring` and `Restored` which
  recorded jobs a process that starts has looked at already. Most steps only move a run
  between two places where it holds its slot (`SlotsSame`, `GateStill`); the few that take
  or give back one are counted.
* **`IdempotencyProofs`**: `TypeCorrect`, `Once` (`AtMostOnce`), `RealReplay`,
  `NoSelfBusy`, `Exact` (`ClaimExact`). The heart is `Searched`: while a call holds the
  lock, every job on record is either still in its list or the call is not creating;
  the lock has one holder (`Claims`, `Locks`), so nothing is recorded meanwhile, and a
  teardown keeps the lock until its supervisor is gone (`Phases`).
* **`SupervisorProofs`**: `TypeCorrect`, `SentinelTruth` (`SentinelSound`), `RecordWhole`
  (`RecordComplete`), `SentinelLast` (`SentinelIsLast`) and `Implements`
  (`ImplementsJobDir`). `Phases` ties the files to the point `run` has reached,
  `Causes` says that the supervisor only signals agy after a timeout or a received cancel,
  and then keeps to the one it took: so a run that was sent SIGTERM before it ended is
  reported as that, and any other code is agy's own.
* **`ReadersProofs`**: `AnswersAreFinal` (`AnswerFinal`), `AwaitNeverMisses` (`AwaitSound`),
  `FreshIsKept` (`SweepKeepsFresh`), `WakesAreOwed` (`NoLostWake`). An answer is put together
  from looks at different times, so `Polls` says what each look is worth once the
  job is over: after the sentinel the files no longer change, so the verdict in hand is
  the file's until a collection takes one away. `Awaits` and `Sweeps` hold the two other
  readers to it, and `Wakes` traces a silent hook-wait back to a tool that returned with
  the outcome, or to a cancel.
* **`OutcomeProofs`**: `OutcomeTypeOK`, `StateAgreement` (`StateAgrees`), `TextIsVouchedFor`
  (`Vouched`), `FailuresAreNamed` (`FailureNamed`), `AdviceAlwaysFits` (`AdviceFits`),
  `TextIsFound` (`NoTextLost`) and `QuotaWallsAreExact` (`QuotaExact`), for
  every set of exit codes. There is one step, so the work is in the lemmas: `WellNamed`
  is what each piece keeps of an answer, and `VouchedFor` follows because a text is
  only attached unflagged by `CarryText`, and then the verdict is `done`, which is what
  lets the notices take it back. `Found` follows the text, and `Exact` the wall, through
  the pieces in the same way. `StreamAlwaysFaithful` (`StreamFaithful`) is about the stream
  that gives the payload. `Reading` follows the bytes: within a line the buffer is what
  was taken of it up to the cap and `over` says whether that is less, for any buffer
  size; so a returned length tells a whole line from a cut one, and the terminator is
  never counted. Then a step either leaves the lines done as they are, or adds one: if it
  is not usable nothing is mirrored (`OneMoreDone`, `MirrorStays`), and if it is, it is the
  last of its kinds and the next text of the out file (`ConsumeStep`).
* **`QuotaProofs`**: `TypeCorrect`, `SpacedAlways` (`ProbesSpaced`), `NeverAfterTurn`
  (`NoProbeAfterTurn`), `HonestAlways` (`AnswerHonest`). A call decides by what the cache
  remembers, the properties speak of the probes: `Remembered` ties the two, `OneRuns`
  says that only the last probe can run and is the one in flight, `Times` that nothing
  lies in the future. `JoinedCall` carries a call over its wait, so that what it reads
  afterwards is an answer to its own question (`HonestCall`). `RefusalAlways`
  (`RefusalExact`) is about data: `groupQuota`'s loop keeps the binding bucket of a
  group, which exists and is a minimum (`BindingExists`, `LevelExact`), and the decoder's two
  loops keep the shape of a reading (`CarriedShape`, `KeptShape`), so that testing one
  bucket against the thresholds is testing them all.
* **`DurableDirProofs`**: `NeverTornAlways` (`NeverTorn`), `SurvivesAlways`
  (`AcknowledgedSurvives`). `Whole`: only synced data is renamed. `Rooted`: no file is
  written before its directories are on the disk. `OneWriter`: each file has one writer,
  whose versions grow. `Kept`: nothing older than what was acknowledged may still come back.
* **`AgyGateProofs`**: `ParseExact`, `VerdictAlways` (`VerdictSound`), `DoctorAlways`
  (`DoctorHonest`). `ParseExact` is a fact about every output: the loop of `agyver.Parse` ends
  with the first usable candidate of the best tier, so what `Told` assumes of an output
  makes the verdict one about agy's own version (`VerdictExact`). The invariant keeps what a
  call saw of its path from the moment it resolved it (`KnownCall`), which is what lets
  agy be replaced while it is being read; for the doctor, `Memo` says that what it
  remembers was fit during its run, and `Undisturbed` what each check so far is worth
  as long as nothing has changed.

**Loops over data.** `Carried`, `Kept` and `Parse` fold over a sequence. The library's
induction theorems take an operator and cannot be used, so `QuotaProofs` and `AgyGateProofs`
have a few lemmas that do the induction with sets: a set of naturals with 0 and the
successor of each member is all of them (`NatSet`, from the well-foundedness of `<`), so
the iterates of a fold exist (`FoldExists`), and a fact about a fold is the set of
lengths for which it holds. Both modules state these lemmas, as neither extends the
other. `StreamFaithful` needs none: its reference is a set of line numbers that grows
with the steps.

Each inductive invariant was checked as an invariant of its component's run before it was
proved.

**Only model-checked:** liveness (`SlotsReturned`, `RestoredReturned`,
`SentinelWritten`, `CancelHonoured`, `ClaimsReleased`, `HookEnds`, `UsageReturns`,
`OrphanReaped`, `ReaderEnds`), which is out of the prover's reach. Every safety invariant and
every action property of a passing run is a theorem.

## 5. Abstractions

* The Linux build: `flock` is taken without blocking and dropped at process death,
  rename replaces, the supervisor gets SIGTERM.
* In `Admission` a recorded live supervisor is always found alive: `processAlive` reads
  `/proc`, whose failure would be one more way to pass over a job. A sentinel that cannot
  be read makes a finished job look live as long as its supervisor is there, which
  only refuses or counts more.
* `Readers` has files that vanish, not reads that fail for a moment.
* Outside `DurableDir` a write of a file happens whole or not at all, and only processes
  crash; `DurableDir` takes the write apart and adds the power failure.
* `AcknowledgedSurvives` excepts what the code cannot promise: a directory fsync the
  kernel refuses is ignored by design, and so is a state root another process has made
  and not yet synced (section 6). The markers are written like `progress.json`.
* The memo of the version gate is keyed by the path and never looks again, by design:
  `VerdictSound` asks that the path *was* fit in the life of the server.
* `Told` is an assumption about agy: its version is what its output says first in the
  strongest framing. `agyver.go:317` names an output for which that fails (a bare number
  before the version, none on a line of its own); what the gate says of such an agy is
  about the wrong number, and no property covers it.
* In `StreamReader` a line is emitted when the last one has been read: the kernel's pipe
  buffer only delays, and a read end that is closed loses nothing written. Lines that were
  written and not read when `drainGrace` ends are `Supervisor`'s business
  (`RecordComplete`). A read error of the pipe other than its end is a torn end, and the
  note about malformed lines on stderr is always written.
* Quota fractions are whole percents; a group is a Gemini group or not, the wording of
  its name and label is left out. One process: the cache is not shared.
* A mutex-protected section is one step. File reads of a scan or a lookup are a step
  each.
* GC acts only on records of calls that are over, because the TTL (hours) is far
  longer than a `StartJob`.
* `Outcome` leaves the matching of agy's wording to kinds of messages, and the byte
  windows of the stderr tail, redaction, elapsed times and agy's accounting out;
  its notices, `AGY_ERROR` line and wording vary independently.
* One conversation scan per request, one key: different keys only meet in `OnDisk`.

## 6. What the code does not keep

Two runs end in a violation, each of a sentence in the sources:

* `idempotency_remnant`: a manager killed between starting a supervisor and recording
  its PID leaves a running job at PID 0, and a retry of its key starts a second run
  (`manager.go:479` calls such a record a failed creation). By the same path no restart
  restores the job (`manager.go:1053` says it does): in `Admission` it is why
  `RestoreCountsRecorded` speaks of jobs with a recorded PID only.
* `terminal_unnamed`: `Status` reads the conversation id before the sentinel and not
  again, so a run named and finished in between is terminal without its id, which
  `wait.go:27` excludes. `AwaitConversationID` has the second look that is missing.

Two more are stated in `Supervisor` and refuted by TLC when given as an INVARIANT beside
the constants of `MCSupervisor.cfg`, with windows too short to matter in practice:

* `NoSignalAfterReap`: agy's group may be signalled after agy was reaped
  (`supervisor.go:353` says not to).
* `CancelIsDefinite`: a cancel before the handler is armed ends the supervisor without a
  sentinel (`cancel.go:7` promises a definite cancelled state).

Consequences that contradict no clear sentence, found while modelling:

* a process that starts also counts the running jobs of a sibling that still serves, and
  two restored jobs of one key share one watcher (`manager.go:1103`);
* a fresh run whose `meta.json` or `progress.json` cannot be read can be continued while it runs,
  and a live job whose `meta.json` cannot be read holds no slot after a restart; the comments
  at `manager.go:426` and `manager.go:1083` accept both (`SkippedFresh`, `unrestored`);
* an agy that exits with 124, 127, 130 or 143 by itself, or dies of another's SIGTERM or
  SIGINT, leaves the sentinel of a timeout, a failed spawn or a cancel (`SentinelSound` says
  which causes each code has);
* a killed supervisor frees the slot while its agy runs on;
* a payload whose response is newlines only hides the streamed text (`NoTextLost`
  excludes it);
* a process that finds the state root made by another does not sync its parent, so its
  first acknowledged job can be lost with the root (`store.go:367`);
* a collection takes a job past its TTL whose PID was never recorded for dead
  (`manager.go:967`), and removes files one by one, so that a `Status` of another process
  can see a directory half gone (`status.go:277`).

## 7. Not modelled

* **Conversation cache and sessions**: they read files agy writes, whose layout this
  repository does not determine; `continue_latest` is resolved before the modelled
  calls begin.
* **The tool surface** beyond what it does with a job or a reading: argument checks,
  formatting, request normalisation and the SDK's transport are single functions without state.
* **`list_agents` and the models listing** beyond doctor's use of it: one command, one parse.
* **Parsing** of flags, durations, environment and hook input; MaxJobs, TTL and timeouts
  are constants or nondeterminism.
* **The matching of agy's wording** (regular expressions, byte windows, redaction) in
  `agyerror.go` and `agyver.go`: kinds of messages and fields of outputs stand for it.
* **Windows and unsupported platforms**, **lint rules and test fixtures**
  (`testutil/fakeagy.go`): the models follow the Linux build of the program.
* Not stated: an abstract conversation mutex that `Admission` would implement.
  `ConversationExclusion` is its safety part, proved; its fairness does not hold, since
  a refused caller is not queued.
