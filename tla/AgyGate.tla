------------------------------ MODULE AgyGate ------------------------------
(* The version gate every use of agy passes in a server process, with its   *)
(* memo, and the `agy-mcp doctor` command, a process of its own that reads  *)
(* the same installation (manager/manager.go, manager/doctor.go,            *)
(* config/config.go). Meanwhile agy is installed, upgraded, downgraded or   *)
(* removed, PATH changes, and a job ends.                                   *)
EXTENDS AgyVersion

CONSTANTS Callers,     \* tool calls that are about to run agy
          Paths,       \* where an agy may be installed
          Binaries,    \* the agys: [version, out, hangs, listing]
          Ancestors,   \* state dirs: what is at the path and at each of its parents
          NoPath, Absent,
          MaxChanges   \* changes of the installation

\* The version agy has is the one its output says first in the strongest framing;
\* one whose output says none counts as no version at all.  This is an assumption
\* about agy: a bare number before the version, on output that gives the version
\* no line of its own, "remains unresolvable" (agyver.Parse) and is not covered.
Told(b) ==
    LET cs == AllCandidates(b.out)
        usable == {i \in 1..Len(cs) : Usable(cs[i].triple)}
    IN \/ usable = {} /\ b.version = NoVersion.version
       \/ \E i \in usable :
            /\ cs[i].triple.version = b.version
            /\ \A j \in usable : cs[j].tier < cs[i].tier \/ (cs[j].tier = cs[i].tier /\ j >= i)

ASSUME GateAssumption == /\ \A b \in Binaries : b.out \in Seq(Line) /\ (b.hangs \/ Told(b))
                         /\ Absent \notin Binaries /\ NoPath \notin Paths
                         /\ MaxChanges \in Nat

VARIABLES installed,  \* per path, the agy there or Absent
          agyPath,    \* Config.AgyPath, NoPath when startup found none
          lookup,     \* where PATH leads, NoPath for nowhere
          verified,   \* the server's m.verifiedAgy
          holder,     \* who holds m.verifyMu
          caller,     \* the tool calls
          doctor,     \* the doctor command
          job,        \* the job of the store that doctor looks at
          changes,
          wasFit      \* history: the paths at which an agy passed for fit at some time

vars == <<installed, agyPath, lookup, verified, holder, caller, doctor, job, changes, wasFit>>
world == <<installed, agyPath, lookup, job, changes, wasFit>>

Nobody == "nobody"
Idle == [pc |-> "idle", path |-> NoPath, raw |-> Absent, answer |-> "none", saw |-> {}]

Checks == {"binary", "version", "reach", "adc", "dir", "config", "jobs"}

\* config.Resolve: a path given explicitly, or where PATH leads at startup.
Executable(p) == p # NoPath /\ installed[p] # Absent
AtStartup == {p \in Paths : Executable(p)} \cup (IF Executable(lookup) THEN {} ELSE {NoPath})

\* Config.AgyBinary: the path found at startup, or a lookup now.
AgyBinary(configured) ==
    IF configured # NoPath THEN configured
    ELSE IF Executable(lookup) THEN lookup
    ELSE NoPath

\* What must be so of an agy that is run.
Fit(b) == b # Absent /\ ~b.hangs /\ AtLeast(b.version, Required)
FitPaths == {p \in Paths : Fit(installed[p])}

\* The doctor starts with what the manager of a new process starts with.
Patient == [pc |-> "idle", report |-> [k \in Checks |-> "none"], agyPath |-> NoPath,
            memo |-> NoPath, version |-> NoVersion, slow |-> FALSE, adc |-> FALSE,
            wasFit |-> {}, since |-> 0]

Init ==
    /\ installed \in [Paths -> Binaries \cup {Absent}]
    /\ lookup \in Paths \cup {NoPath}
    /\ agyPath \in AtStartup
    /\ verified = NoPath /\ holder = Nobody
    /\ caller = [c \in Callers |-> Idle]
    /\ doctor = Patient
    /\ job = "unseen"
    /\ changes = 0
    /\ wasFit = FitPaths

\* What readAgyVersion of an agy ends with: its output, or why there is none.
\* Any probe may reach its deadline, and one that hangs does, whatever it printed.
Readings(b) == IF b = Absent THEN {"missing"}
               ELSE IF b.hangs THEN {"timeout"}
               ELSE {"output", "timeout"}

\* agyver.Parse of the output, and the floor.
Verdict(b) == IF ~Parses(b.out) THEN "unparsed"
              ELSE IF AtLeast(Parse(b.out).version, Required) THEN "ok" ELSE "old"

---------------------------------------------------------------------------
(* agyBinaryChecked, in the server.                                        *)

Resolve(c) ==
    /\ caller[c].pc = "idle"
    /\ caller' = [caller EXCEPT ![c] =
         IF AgyBinary(agyPath) = NoPath
         THEN [@ EXCEPT !.pc = "done", !.answer = "missing", !.saw = {FALSE}]
         ELSE [@ EXCEPT !.pc = "lock", !.path = AgyBinary(agyPath),
                        !.saw = {Fit(installed[AgyBinary(agyPath)])}]]
    /\ UNCHANGED <<world, verified, holder, doctor>>

\* Under verifyMu: the memo answers, or agy is run while the lock is held.
Lock(c) ==
    /\ caller[c].pc = "lock" /\ holder = Nobody
    /\ \/ /\ verified = caller[c].path
          /\ caller' = [caller EXCEPT ![c].pc = "done", ![c].answer = "ok"]
          /\ UNCHANGED holder
       \/ /\ verified # caller[c].path
          /\ holder' = c
          /\ caller' = [caller EXCEPT ![c].pc = "probe", ![c].raw = installed[caller[c].path]]
    /\ UNCHANGED <<world, verified, doctor>>

Answer(c, answer) ==
    /\ caller' = [caller EXCEPT ![c].pc = "done", ![c].answer = answer, ![c].raw = Absent]
    /\ holder' = Nobody

\* The probe is over; only success is remembered.
Probed(c) ==
    /\ caller[c].pc = "probe"
    /\ \E reading \in Readings(caller[c].raw) :
         LET answer == IF reading = "output" THEN Verdict(caller[c].raw) ELSE reading
         IN /\ Answer(c, answer)
            /\ verified' = IF answer = "ok" THEN caller[c].path ELSE verified
    /\ UNCHANGED <<world, doctor>>

\* The caller goes away, which also ends the probe, whatever agy printed.
Cancelled(c) ==
    /\ caller[c].pc = "probe"
    /\ Answer(c, "cancelled")
    /\ UNCHANGED <<world, verified, doctor>>

---------------------------------------------------------------------------
(* Doctor: its checks in their order, on a Manager of its own.             *)

DoctorStarts ==
    /\ doctor.pc = "idle"
    /\ \E p \in AtStartup :
         doctor' = [doctor EXCEPT !.pc = "binary", !.agyPath = p,
                                  !.wasFit = FitPaths, !.since = changes]
    /\ UNCHANGED <<world, verified, holder, caller>>

Resolved == AgyBinary(doctor.agyPath)

\* A check's result and where it leads.
Reported(k, status, pc) == [doctor EXCEPT !.pc = pc, !.report[k] = status]
PassIf(p) == IF p THEN "Pass" ELSE "Fail"

CheckAgyBinary ==
    /\ doctor.pc = "binary"
    /\ doctor' = Reported("binary", PassIf(Resolved # NoPath), "version")
    /\ UNCHANGED <<world, verified, holder, caller>>

\* One `agy --version` of doctor: what came of it.
Probes == IF Resolved = NoPath THEN {"missing"} ELSE Readings(installed[Resolved])
Passed(reading) == reading = "output" /\ Verdict(installed[Resolved]) = "ok"

\* Mutant of CheckAgyVersion: the path is remembered whatever was found.
PrimeAlways ==
    /\ doctor.pc = "version"
    /\ \E reading \in Probes :
         doctor' = [Reported("version", PassIf(Passed(reading)), "reach")
                    EXCEPT !.slow = (reading = "timeout"), !.memo = Resolved]
    /\ UNCHANGED <<world, verified, holder, caller>>

\* Passes only on a version read and high enough, and then remembers the path.
CheckAgyVersion ==
    /\ doctor.pc = "version"
    /\ \E reading \in Probes :
         doctor' = [Reported("version", PassIf(Passed(reading)), "reach") EXCEPT
                    !.slow = (reading = "timeout"),
                    !.memo = IF Passed(reading) THEN Resolved ELSE @,
                    !.version = IF Passed(reading) THEN Parse(installed[Resolved].out) ELSE @]
    /\ UNCHANGED <<world, verified, holder, caller>>

\* ListModels first passes the gate, by the memo or by one more probe.
CheckAgyReachable ==
    /\ doctor.pc = "reach"
    /\ \/ /\ Resolved # NoPath /\ doctor.memo = Resolved
          /\ doctor' = [doctor EXCEPT !.pc = "listing"]
       \/ /\ Resolved = NoPath \/ doctor.memo # Resolved
          /\ \E reading \in Probes :
               doctor' = IF Passed(reading)
                         THEN [doctor EXCEPT !.pc = "listing", !.memo = Resolved]
                         ELSE [Reported("reach", "Fail", "adc")
                               EXCEPT !.slow = @ \/ reading = "timeout"]
    /\ UNCHANGED <<world, verified, holder, caller>>

\* decodeModelsEnvelope trusts a successful envelope of this command with a list.
Listed(l) == l.exits /\ l.parses /\ l.success /\ l.named /\ l.models
Lists(b) == b # Absent /\ ~b.hangs /\ Listed(b.listing)

\* The listing is that of the agy that is there by now, or reaches its deadline.
ListModels ==
    /\ doctor.pc = "listing"
    /\ \E inTime \in BOOLEAN :
         doctor' = [Reported("reach", PassIf(inTime /\ Lists(installed[doctor.memo])), "adc")
                    EXCEPT !.slow = @ \/ ~inTime]
    /\ UNCHANGED <<world, verified, holder, caller>>

ADCLoadFix == Version(1, 4, 7)

\* A leftover that agy does not read, or an agy too old for what is switched on.
ADCCaveat(adc, useADC) ==
    \/ ~adc /\ useADC
    \/ /\ adc /\ doctor.version.tier # TierNone
       /\ ~AtLeast(doctor.version.version, ADCLoadFix)

CheckADCEnv ==
    /\ doctor.pc = "adc"
    /\ \E adc, useADC \in BOOLEAN :
         doctor' = [Reported("adc", IF ADCCaveat(adc, useADC) THEN "Warn" ELSE "Pass", "dir")
                    EXCEPT !.adc = adc]
    /\ UNCHANGED <<world, verified, holder, caller>>

\* The nearest of the parents that exists; the root always does.
NearestExisting(dirs) ==
    LET found == {i \in 2..Len(dirs) : dirs[i] # "absent"}
    IN CHOOSE i \in found : \A j \in found : i <= j

\* Usable as it is, or to be created below a directory that can be written.
Writable(dirs) ==
    /\ dirs # <<>>
    /\ \/ dirs[1] = "writable"
       \/ dirs[1] = "absent" /\ dirs[NearestExisting(dirs)] = "writable"

CheckStateDir ==
    /\ doctor.pc = "dir"
    /\ \E dirs \in Ancestors : doctor' = Reported("dir", PassIf(Writable(dirs)), "config")
    /\ UNCHANGED <<world, verified, holder, caller>>

\* Where the settings come from is told, never judged.
CheckConfigSources ==
    /\ doctor.pc = "config"
    /\ doctor' = Reported("config", "Pass", "jobs")
    /\ UNCHANGED <<world, verified, holder, caller>>

\* checkStaleJobs: a store that cannot be listed fails, a directory without a
\* readable record is stale, and of any other job the sentinel is looked for
\* before its process is.
CheckSentinel ==
    /\ doctor.pc = "jobs"
    /\ \/ /\ doctor' = Reported("jobs", "Fail", "done")
          /\ UNCHANGED job
       \/ /\ job' \in {"none", "finished", "unreadable"}
          /\ doctor' = Reported("jobs", IF job' = "unreadable" THEN "Warn" ELSE "Pass", "done")
       \/ /\ job' \in {"running", "dead"}
          /\ doctor' = [doctor EXCEPT !.pc = "alive"]
    /\ UNCHANGED <<installed, agyPath, lookup, changes, wasFit, verified, holder, caller>>

CheckAlive ==
    /\ doctor.pc = "alive"
    /\ doctor' = Reported("jobs", IF job = "running" THEN "Pass" ELSE "Warn", "done")
    /\ UNCHANGED <<world, verified, holder, caller>>

Doctor == \/ DoctorStarts \/ CheckAgyBinary \/ CheckAgyVersion \/ CheckAgyReachable
          \/ ListModels \/ CheckADCEnv \/ CheckStateDir \/ CheckConfigSources
          \/ CheckSentinel \/ CheckAlive

\* DoctorReport.OK: a warning is no failure.
OK == \A k \in Checks : doctor.report[k] # "Fail"

---------------------------------------------------------------------------
(* The world around the two processes.                                     *)

\* agy is put where it was not, replaced, or taken away.
Install(p, b) ==
    /\ changes < MaxChanges /\ b # installed[p]
    /\ changes' = changes + 1
    /\ installed' = [installed EXCEPT ![p] = b]
    /\ LET fit == IF Fit(b) THEN {p} ELSE {}
       IN /\ wasFit' = wasFit \cup fit
          /\ doctor' = [doctor EXCEPT !.wasFit = @ \cup fit]
    /\ caller' = [c \in Callers |-> [caller[c] EXCEPT
                    !.saw = IF caller[c].pc \in {"lock", "probe"} /\ caller[c].path = p
                            THEN @ \cup {Fit(b)} ELSE @]]
    /\ UNCHANGED <<agyPath, lookup, verified, holder, job>>

Repath(p) ==
    /\ changes < MaxChanges /\ p # lookup
    /\ changes' = changes + 1
    /\ lookup' = p
    /\ UNCHANGED <<installed, agyPath, verified, holder, caller, doctor, job, wasFit>>

JobEnds ==
    /\ job = "running"
    /\ job' \in {"finished", "dead"}
    /\ UNCHANGED <<installed, agyPath, lookup, verified, holder, caller, doctor, changes,
                   wasFit>>

Next ==
    \/ \E c \in Callers : Resolve(c) \/ Lock(c) \/ Probed(c) \/ Cancelled(c)
    \/ Doctor
    \/ \E p \in Paths : \E b \in Binaries \cup {Absent} : Install(p, b)
    \/ \E p \in Paths \cup {NoPath} : Repath(p)
    \/ JobEnds

Spec == Init /\ [][Next]_vars

---------------------------------------------------------------------------
(* Properties.                                                             *)

\* A call is let through only to a path where, in the life of this server, an
\* agy was that answers and is new enough; and it is refused for what agy is only
\* if that was so of its path during this very call: "Only success is cached".
\* Other versions agy prints beside its own do not decide, as far as Told goes.
VerdictSound ==
    /\ verified # NoPath => verified \in wasFit
    /\ \A c \in Callers :
         /\ caller[c].answer = "ok" => caller[c].path \in wasFit
         /\ caller[c].answer \in {"missing", "unparsed", "old"} => FALSE \in caller[c].saw

\* The report tells of the installation during its run: no check passes an agy
\* that was unfit throughout; when nothing changed and nothing was slow the two
\* checks of agy pass exactly if a call would; no running job is called stale.
DoctorHonest ==
    LET b == installed[Resolved]
        r == doctor.report
    IN /\ "Pass" \in {r["version"], r["reach"]} => doctor.memo \in doctor.wasFit
       /\ doctor.pc = "done" =>
            /\ r["jobs"] = "Warn" => job # "running"
            /\ (changes = doctor.since /\ ~doctor.slow) =>
                 /\ r["version"] = "Pass" <=> (Resolved # NoPath /\ Fit(b))
                 /\ r["reach"] = "Pass" <=> (Resolved # NoPath /\ Fit(b) /\ Lists(b))
                 /\ r["adc"] = "Warn" /\ doctor.adc => ~AtLeast(b.version, ADCLoadFix)
                 /\ OK => (Resolved # NoPath /\ Fit(b))
===========================================================================
