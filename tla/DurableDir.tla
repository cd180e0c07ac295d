----------------------------- MODULE DurableDir -----------------------------
(* What of one job survives a power failure: the creation of its directory *)
(* and of the directories above it, the writes of its files by temp file,  *)
(* fsync, rename and directory fsync, and the collection of what is left   *)
(* (jobstore/store.go, manager.go). The kernel may write back a directory  *)
(* entry or a file's data at any time, and need not before an fsync.       *)
EXTENDS Integers, FiniteSets

CONSTANTS Depth,        \* directories from the state root down to the job's
          MaxProgress,  \* progress files a supervisor writes
          MaxFaults,    \* operations that fail with an error
          Rival         \* another process may create the state root first

ASSUME DepthAssumption == /\ Depth \in Nat \ {0} /\ MaxProgress \in Nat
                          /\ MaxFaults \in Nat /\ Rival \in BOOLEAN

Levels == 1..Depth
Files == {"meta", "progress", "result", "exit"}
DurableFiles == {"meta", "result", "exit"}
Writers == {"manager", "supervisor"}

\* A file's content is its version; 0 is no file, -1 what a torn write leaves.
Torn == -1
NoFile == [ver |-> 0, synced |-> TRUE]

VARIABLES dir,      \* per level: "absent", "cached", "durable", or "removed"
          vis,      \* the files as a reader sees them
          may,      \* the entries a power failure may leave on the disk
          wr,       \* each writer's writeFileAtomic in progress
          manager,  \* the creating call's place
          missing,  \* levels whose parents MkdirAllDurable still has to sync
          supervisor,
          progress, \* progress files written so far
          rival,    \* "none", "made", "synced"
          acked,    \* per file: the version whose write has returned nil
          power,    \* "on" or "failed"
          faults,
          unsynced, \* a best-effort directory fsync has failed
          aged      \* the TTL has passed

vars == <<dir, vis, may, wr, manager, missing, supervisor, progress, rival, acked,
          power, faults, unsynced, aged>>

NoWrite == [step |-> "none", file |-> "meta", ver |-> 0, synced |-> FALSE]

Init ==
    /\ dir = [l \in Levels |-> "absent"]
    /\ vis = [f \in Files |-> NoFile]
    /\ may = [f \in Files |-> {NoFile}]
    /\ wr = [w \in Writers |-> NoWrite]
    /\ manager = "mkdir" /\ supervisor = "none"
    /\ missing = {} /\ progress = 0 /\ rival = "none"
    /\ acked = [f \in Files |-> 0]
    /\ power = "on" /\ faults = 0 /\ unsynced = FALSE /\ aged = FALSE

Present(l) == dir[l] \in {"cached", "durable"}
JobDirPresent == Present(Depth)

Fault == /\ faults < MaxFaults
         /\ faults' = faults + 1

---------------------------------------------------------------------------
(* writeFileAtomic and writeFileAtomicDurable.                             *)

Begin(w, f, v) == wr' = [wr EXCEPT ![w] = [step |-> "temp", file |-> f, ver |-> v,
                                           synced |-> FALSE]]

At(w, step) == power = "on" /\ wr[w].step = step

\* CreateTemp and Write: the data is in the page cache.
WriteTemp(w) ==
    /\ At(w, "temp") /\ JobDirPresent
    /\ wr' = [wr EXCEPT ![w].step = "written"]
    /\ UNCHANGED <<dir, vis, may, manager, missing, supervisor, progress, rival, acked,
                   power, faults, unsynced, aged>>

\* Mutant: writeFileAtomic without the fsync of the temp file.
RenameUnsynced(w) ==
    /\ At(w, "written") /\ JobDirPresent
    /\ wr' = [wr EXCEPT ![w].step = "synced"]
    /\ UNCHANGED <<dir, vis, may, manager, missing, supervisor, progress, rival, acked,
                   power, faults, unsynced, aged>>

\* Sync, Close and Chmod.
SyncTemp(w) ==
    /\ At(w, "written")
    /\ wr' = [wr EXCEPT ![w].step = "synced", ![w].synced = TRUE]
    /\ UNCHANGED <<dir, vis, may, manager, missing, supervisor, progress, rival, acked,
                   power, faults, unsynced, aged>>

\* The rename publishes the file; the entry may stay in memory.
Rename(w) ==
    /\ At(w, "synced") /\ JobDirPresent
    /\ LET new == [ver |-> wr[w].ver, synced |-> wr[w].synced]
       IN /\ vis' = [vis EXCEPT ![wr[w].file] = new]
          /\ may' = [may EXCEPT ![wr[w].file] = @ \cup {new}]
    /\ wr' = [wr EXCEPT ![w].step = "renamed"]
    /\ UNCHANGED <<dir, manager, missing, supervisor, progress, rival, acked,
                   power, faults, unsynced, aged>>

\* The write returns nil: at once for progress.json, for the others after an
\* fsync of the directory, which takes every entry to the disk or is given up.
Publish(w) ==
    /\ At(w, "renamed")
    /\ IF wr[w].file \notin DurableFiles
       THEN UNCHANGED <<may, faults, unsynced>>
       ELSE \/ /\ may' = [f \in Files |-> {vis[f]}]
               /\ UNCHANGED <<faults, unsynced>>
            \/ /\ Fault /\ unsynced' = TRUE
               /\ UNCHANGED may
    /\ acked' = [acked EXCEPT ![wr[w].file] = wr[w].ver]
    /\ wr' = [wr EXCEPT ![w] = NoWrite]
    /\ manager' = IF w # "manager" THEN manager
                  ELSE IF wr[w].ver = 1 THEN "spawn" ELSE "served"
    /\ supervisor' = IF w # "supervisor" THEN supervisor
                     ELSE IF wr[w].file = "exit" THEN "over" ELSE supervisor
    /\ UNCHANGED <<dir, vis, missing, progress, rival, power, aged>>

\* A step before the rename fails, as it must when the directory is gone; the
\* temp file is removed. Only the manager's writes matter to their caller.
WriteFails(w) ==
    /\ power = "on" /\ wr[w].step \in {"temp", "written", "synced"}
    /\ IF JobDirPresent THEN Fault ELSE UNCHANGED faults
    /\ wr' = [wr EXCEPT ![w] = NoWrite]
    /\ manager' = IF w = "manager" THEN "remove" ELSE manager
    /\ supervisor' = IF w # "supervisor" THEN supervisor
                     ELSE IF wr[w].file = "exit" THEN "over" ELSE supervisor
    /\ UNCHANGED <<dir, vis, may, missing, progress, rival, acked, power, unsynced, aged>>

---------------------------------------------------------------------------
(* Store.Create with MkdirAllDurable, and the start of the supervisor.     *)

Absents == {l \in Levels : ~Present(l)}

\* missingAncestors and MkdirAll, which may stop halfway down.
MakeDirs ==
    /\ power = "on" /\ manager = "mkdir"
    /\ \/ /\ dir' = [l \in Levels |-> IF Present(l) THEN dir[l] ELSE "cached"]
          /\ missing' = Absents
          /\ manager' = "syncdirs"
          /\ UNCHANGED faults
       \/ \E made \in SUBSET Absents :
             /\ made # Absents /\ \A l \in Absents, m \in made : l < m => l \in made
             /\ dir' = [l \in Levels |-> IF l \in made THEN "cached" ELSE dir[l]]
             /\ manager' = "failed"
             /\ Fault
             /\ UNCHANGED missing
    /\ UNCHANGED <<vis, may, wr, supervisor, progress, rival, acked, power, unsynced, aged>>

Topmost == CHOOSE l \in missing : \A m \in missing : l <= m

\* Mutant: MkdirAllDurable that syncs the parent of the deepest directory only.
DeepestAlone == IF missing = {} THEN Depth ELSE CHOOSE l \in missing : \A m \in missing : l >= m
SyncDeepest ==
    /\ power = "on" /\ manager = "syncdirs" /\ missing # {}
    /\ missing' = {}
    /\ dir' = [dir EXCEPT ![DeepestAlone] = "durable"]
    /\ UNCHANGED <<vis, may, wr, manager, supervisor, progress, rival, acked, power,
                   faults, unsynced, aged>>

\* The parent of the topmost directory still missing an fsync.
SyncParent ==
    /\ power = "on" /\ manager = "syncdirs" /\ missing # {}
    /\ missing' = missing \ {Topmost}
    /\ \/ /\ dir' = [dir EXCEPT ![Topmost] = "durable"]
          /\ UNCHANGED <<faults, unsynced>>
       \/ /\ Fault /\ unsynced' = TRUE
          /\ UNCHANGED dir
    /\ UNCHANGED <<vis, may, wr, manager, supervisor, progress, rival, acked, power, aged>>

WriteMeta ==
    /\ power = "on" /\ manager = "syncdirs" /\ missing = {}
    /\ Begin("manager", "meta", 1)
    /\ manager' = "create"
    /\ UNCHANGED <<dir, vis, may, missing, supervisor, progress, rival, acked,
                   power, faults, unsynced, aged>>

\* StartDetached, then UpdateMeta with the PID.
Spawn ==
    /\ power = "on" /\ manager = "spawn"
    /\ \/ /\ Begin("manager", "meta", 2)
          /\ manager' = "record" /\ supervisor' = "run"
          /\ UNCHANGED faults
       \/ /\ Fault
          /\ manager' = "remove"
          /\ UNCHANGED <<wr, supervisor>>
    /\ UNCHANGED <<dir, vis, may, missing, progress, rival, acked, power, unsynced, aged>>

\* RemoveAll of a failed creation, after its supervisor (if any) was ended; its
\* error is ignored. Nothing is fsynced: a power failure may bring back any of it.
RemoveFailed ==
    /\ power = "on" /\ manager = "remove"
    /\ manager' = "failed"
    /\ supervisor' = IF supervisor = "none" THEN "none" ELSE "over"
    /\ wr' = [wr EXCEPT !["supervisor"] = NoWrite]
    /\ \/ /\ dir' = [dir EXCEPT ![Depth] = "removed"]
          /\ vis' = [f \in Files |-> NoFile]
          /\ may' = [f \in Files |-> may[f] \cup {NoFile}]
          /\ acked' = [f \in Files |-> 0]
          /\ UNCHANGED faults
       \/ /\ Fault
          /\ UNCHANGED <<dir, vis, may, acked>>
    /\ UNCHANGED <<missing, progress, rival, power, unsynced, aged>>

---------------------------------------------------------------------------
(* The supervisor: progress, then the payload if agy gave one, then the    *)
(* sentinel.                                                               *)
SupervisorFree == /\ power = "on" /\ wr["supervisor"].step = "none"

WriteProgress ==
    /\ SupervisorFree /\ supervisor = "run" /\ progress < MaxProgress
    /\ progress' = progress + 1
    /\ Begin("supervisor", "progress", progress + 1)
    /\ UNCHANGED <<dir, vis, may, manager, missing, supervisor, rival, acked,
                   power, faults, unsynced, aged>>

WriteResult ==
    /\ SupervisorFree /\ supervisor = "run"
    /\ supervisor' = "exit"
    /\ Begin("supervisor", "result", 1)
    /\ UNCHANGED <<dir, vis, may, manager, missing, progress, rival, acked,
                   power, faults, unsynced, aged>>

WriteExit ==
    /\ SupervisorFree /\ supervisor \in {"run", "exit"}
    /\ supervisor' = "exiting"
    /\ Begin("supervisor", "exit", 1)
    /\ UNCHANGED <<dir, vis, may, manager, missing, progress, rival, acked,
                   power, faults, unsynced, aged>>

---------------------------------------------------------------------------
(* Another server process creates the shared state root, by the same code.  *)
RivalMakes ==
    /\ Rival /\ power = "on" /\ rival = "none" /\ Depth > 1 /\ ~Present(1)
    /\ rival' = "made"
    /\ dir' = [dir EXCEPT ![1] = "cached"]
    /\ UNCHANGED <<vis, may, wr, manager, missing, supervisor, progress, acked,
                   power, faults, unsynced, aged>>

RivalSyncs ==
    /\ power = "on" /\ rival = "made"
    /\ rival' = "synced"
    /\ dir' = [dir EXCEPT ![1] = "durable"]
    /\ UNCHANGED <<vis, may, wr, manager, missing, supervisor, progress, acked,
                   power, faults, unsynced, aged>>

---------------------------------------------------------------------------
(* The power fails; what was only in memory may be gone, and a file whose   *)
(* data was not synced may be torn.                                        *)
OnDisk(file) == {file} \cup (IF file.synced THEN {} ELSE {[ver |-> Torn, synced |-> TRUE]})

Surviving(f) == UNION {OnDisk(e) : e \in may[f]}

PowerFails ==
    /\ power = "on"
    /\ power' = "failed"
    /\ \E kept \in SUBSET Levels :
         /\ {l \in Levels : dir[l] = "durable" /\ \A m \in 1..l : dir[m] = "durable"} \subseteq kept
         /\ \A l \in kept : dir[l] # "absent" /\ \A m \in 1..l : m \in kept
         /\ dir' = [l \in Levels |-> IF l \in kept THEN "durable" ELSE "absent"]
         /\ IF Depth \in kept
            THEN vis' \in {v \in [Files -> UNION {Surviving(f) : f \in Files}] :
                             \A f \in Files : v[f] \in Surviving(f)}
            ELSE vis' = [f \in Files |-> NoFile]
    /\ may' = [f \in Files |-> {vis'[f]}]
    /\ wr' = [w \in Writers |-> NoWrite]
    /\ manager' = "gone" /\ supervisor' = "gone"
    /\ UNCHANGED <<missing, progress, rival, acked, faults, unsynced, aged>>

---------------------------------------------------------------------------
(* gcEvaluate of a job nobody drives any more. A directory without meta.json *)
(* goes by its age, a meta.json that cannot be read keeps it, and a record   *)
(* past the TTL goes because its process is not alive.                      *)
Over == manager \in {"failed", "gone"} /\ supervisor \in {"none", "over", "gone"}

Age ==
    /\ Over /\ ~aged
    /\ aged' = TRUE
    /\ UNCHANGED <<dir, vis, may, wr, manager, missing, supervisor, progress, rival, acked,
                   power, faults, unsynced>>

\* Mutant: GarbageCollect that skips a directory without a meta.json.
SweepRecorded ==
    /\ aged /\ JobDirPresent /\ vis["meta"].ver > 0
    /\ dir' = [dir EXCEPT ![Depth] = "removed"]
    /\ vis' = [f \in Files |-> NoFile]
    /\ may' = [f \in Files |-> may[f] \cup {NoFile}]
    /\ acked' = [f \in Files |-> 0]
    /\ UNCHANGED <<wr, manager, missing, supervisor, progress, rival, power, faults,
                   unsynced, aged>>

Sweep ==
    /\ aged /\ JobDirPresent /\ vis["meta"].ver # Torn
    /\ dir' = [dir EXCEPT ![Depth] = "removed"]
    /\ vis' = [f \in Files |-> NoFile]
    /\ may' = [f \in Files |-> may[f] \cup {NoFile}]
    /\ acked' = [f \in Files |-> 0]
    /\ UNCHANGED <<wr, manager, missing, supervisor, progress, rival, power, faults,
                   unsynced, aged>>

Next ==
    \/ MakeDirs \/ SyncParent \/ WriteMeta \/ Spawn \/ RemoveFailed
    \/ WriteProgress \/ WriteResult \/ WriteExit
    \/ \E w \in Writers : WriteTemp(w) \/ SyncTemp(w) \/ Rename(w) \/ Publish(w) \/ WriteFails(w)
    \/ RivalMakes \/ RivalSyncs
    \/ PowerFails
    \/ Age \/ Sweep

Spec == Init /\ [][Next]_vars

\* Sweeps come periodically and time passes; nothing else is relied on.
FairSpec == Spec /\ WF_vars(Age) /\ WF_vars(Sweep)

---------------------------------------------------------------------------
(* Properties.                                                             *)

\* A file that is there is whole, whatever the power failure kept: "a crash
\* mid-write leaves either the previous contents or none, never a torn mix".
NeverTorn == \A f \in Files : vis[f].ver # Torn

\* What a write of meta.json, result.json or exit_code acknowledged is still
\* there after the power comes back, the PID included, unless a directory fsync
\* was refused or another process had made the state root and not yet synced it.
AcknowledgedSurvives ==
    (power = "failed" /\ ~unsynced /\ rival # "made") =>
        \A f \in DurableFiles : vis[f].ver >= acked[f]

\* A directory nobody drives any more does not stay for ever: not one whose
\* creation failed before meta.json, nor one a power failure left without it.
OrphanReaped == (Over /\ JobDirPresent) ~> ~JobDirPresent
===========================================================================
