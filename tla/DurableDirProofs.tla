-------------------------- MODULE DurableDirProofs --------------------------
(***************************************************************************)
(* Proofs about DurableDir, for any depth of the job directory, any number *)
(* of progress files, failed operations and power failures.                *)
(*                                                                         *)
(* That no file is torn needs only that every entry that may reach the     *)
(* disk was synced before it was renamed (Whole). That an acknowledged     *)
(* write survives also needs that its directories were synced before the   *)
(* first file was written (Rooted), that nothing older than what was       *)
(* acknowledged may still reach the disk (Kept), and that a file has one   *)
(* writer whose versions grow (OneWriter).                                 *)
(***************************************************************************)
EXTENDS DurableDir, TLAPS

Entry == [ver : Int, synced : BOOLEAN]
Write == [step : {"none", "temp", "written", "synced", "renamed"}, file : Files,
          ver : Nat, synced : BOOLEAN]

TypeOK ==
    /\ dir \in [Levels -> {"absent", "cached", "durable", "removed"}]
    /\ vis \in [Files -> Entry]
    /\ may \in [Files -> SUBSET Entry]
    /\ wr \in [Writers -> Write]
    /\ missing \subseteq Levels /\ progress \in Nat
    /\ acked \in [Files -> Nat]
    /\ unsynced \in BOOLEAN /\ aged \in BOOLEAN

\* Who runs: a supervisor only beside a call that got as far as starting one,
\* and nobody once the power has failed.
Phases ==
    /\ power \in {"on", "failed"}
    /\ manager \in {"mkdir", "syncdirs", "create", "spawn", "record", "served", "remove",
                    "failed", "gone"}
    /\ supervisor \in {"none", "run", "exit", "exiting", "over", "gone"}
    /\ power = "failed" <=> manager = "gone"
    /\ supervisor = "gone" => power = "failed"
    /\ manager \in {"mkdir", "syncdirs", "create", "spawn"} => supervisor = "none"
    /\ supervisor \in {"run", "exit", "exiting"} => manager \in {"record", "served", "remove"}
    /\ aged => Over

\* Only synced data is ever renamed into place.
Whole ==
    /\ \A f \in Files : vis[f] \in may[f]
    /\ \A f \in Files : \A e \in may[f] : e.synced /\ e.ver >= 0
    /\ \A w \in Writers : wr[w].step \in {"synced", "renamed"} => wr[w].synced

\* meta.json is the manager's, the other files the supervisor's.
OneWriter ==
    /\ wr["manager"].step # "none" =>
         /\ wr["manager"].file = "meta"
         /\ manager \in {"create", "record"}
         /\ wr["manager"].ver = IF manager = "create" THEN 1 ELSE 2
    /\ wr["supervisor"].step # "none" =>
         /\ wr["supervisor"].file # "meta"
         /\ supervisor \in {"run", "exit", "exiting"}
         /\ wr["supervisor"].file # "progress" => wr["supervisor"].ver = 1
    /\ \A w \in Writers : wr[w].step = "renamed" => vis[wr[w].file].ver = wr[w].ver
    /\ acked["meta"] <= 2 /\ acked["result"] <= 1 /\ acked["exit"] <= 1
    /\ manager \in {"mkdir", "syncdirs", "create"} => \A f \in Files : acked[f] = 0

\* The entry of a level is on the disk, but for a root another process made.
Anchored(l) == dir[l] = "durable" \/ (l = 1 /\ rival = "made") \/ unsynced

\* The directory was made and synced, and has not been taken away.
Stands == \/ manager \in {"create", "spawn", "record", "served", "remove"}
          \/ manager = "failed" /\ \E f \in Files : acked[f] # 0

\* No file is written before its directories were synced.
Rooted ==
    /\ manager = "mkdir" => \A l \in Levels : dir[l] = "cached" => l = 1 /\ rival = "made"
    /\ manager = "syncdirs" =>
         \A l \in Levels : Present(l) /\ (l \in missing \/ Anchored(l))
    /\ Stands => \A l \in Levels : Present(l) /\ Anchored(l)

\* Nothing older than an acknowledged write can come back.
Kept == (power = "on" /\ ~unsynced) =>
           \A f \in DurableFiles : \A e \in may[f] : e.ver >= acked[f]

IInv == TypeOK /\ Phases /\ Whole /\ OneWriter /\ Rooted /\ Kept /\ AcknowledgedSurvives
-----------------------------------------------------------------------------
(* The steps, each conjunct it can disturb in a step of its own.            *)

LEMMA MakeDirsStep == ASSUME IInv, MakeDirs PROVE IInv'
<1> USE DEF IInv
<1>1. TypeOK'
    BY DEF MakeDirs, Fault, Absents, TypeOK, Write, Entry, Writers, Files
<1>2. Phases'
    BY DEF MakeDirs, Fault, Absents, Phases, Over
<1>3. OneWriter'
    BY DEF MakeDirs, Fault, Absents, TypeOK, Write, Entry, OneWriter, Phases,
       Writers, Files
<1>4. Rooted'
    BY DEF MakeDirs, Fault, Absents, TypeOK, Phases, OneWriter, Rooted, Stands,
       Anchored, Present
<1>5. Whole' /\ Kept' /\ AcknowledgedSurvives'
    BY DEF MakeDirs, Whole, Kept, AcknowledgedSurvives
<1> QED BY <1>1, <1>2, <1>3, <1>4, <1>5

LEMMA SyncParentStep == ASSUME IInv, SyncParent PROVE IInv'
<1> USE DEF IInv
<1>1. TypeOK'
    BY DEF SyncParent, Fault, TypeOK, Write, Entry, Writers, Files
<1>2. Rooted'
    BY DEF SyncParent, Fault, TypeOK, Phases, OneWriter, Rooted, Stands, Anchored,
       Present
<1>3. Kept'
    BY DEF SyncParent, Fault, TypeOK, Write, Entry, Phases, OneWriter, Whole,
       Kept, DurableFiles, Files
<1>4. AcknowledgedSurvives'
    BY DEF SyncParent, Fault, Phases, AcknowledgedSurvives
<1>5. Phases' /\ Whole' /\ OneWriter'
    BY DEF SyncParent, Phases, Over, Whole, OneWriter
<1> QED BY <1>1, <1>2, <1>3, <1>4, <1>5

LEMMA WriteMetaStep == ASSUME IInv, WriteMeta PROVE IInv'
<1> USE DEF IInv
<1>1. TypeOK'
    BY DEF WriteMeta, Begin, TypeOK, Write, Entry, Writers, Files
<1>2. Phases'
    BY DEF WriteMeta, Begin, Phases, Over
<1>3. Whole'
    BY DEF WriteMeta, Begin, TypeOK, Write, Entry, Whole, Writers, Files
<1>4. OneWriter'
    BY DEF WriteMeta, Begin, TypeOK, Write, Entry, OneWriter, Phases, Writers,
       Files
<1>5. Rooted'
    BY DEF WriteMeta, Begin, TypeOK, Phases, OneWriter, Rooted, Stands, Anchored,
       Present
<1>6. Kept' /\ AcknowledgedSurvives'
    BY DEF WriteMeta, Kept, AcknowledgedSurvives
<1> QED BY <1>1, <1>2, <1>3, <1>4, <1>5, <1>6

LEMMA SpawnStep == ASSUME IInv, Spawn PROVE IInv'
<1> USE DEF IInv
<1>1. TypeOK'
    <2> DEFINE m == [step |-> "temp", file |-> "meta", ver |-> 2, synced |-> FALSE]
    <2>1. m \in Write BY DEF Write, Files
    <2>2. wr' = wr \/ wr' = [wr EXCEPT !["manager"] = m]
        BY DEF Spawn, Begin
    <2>3. wr' \in [Writers -> Write] BY <2>1, <2>2 DEF TypeOK, Writers
    <2> QED BY <2>3 DEF Spawn, TypeOK
<1>2. Phases'
    BY DEF Spawn, Begin, Fault, Phases, Over
<1>3. Whole'
    BY DEF Spawn, Begin, Fault, TypeOK, Write, Entry, Whole, Writers, Files
<1>4. OneWriter'
    BY DEF Spawn, Begin, Fault, TypeOK, Write, Entry, OneWriter, Phases, Writers,
       Files
<1>5. Rooted'
    BY DEF Spawn, Begin, Fault, TypeOK, Phases, OneWriter, Rooted, Stands,
       Anchored, Present
<1>6. Kept' /\ AcknowledgedSurvives'
    BY DEF Spawn, Kept, AcknowledgedSurvives
<1> QED BY <1>1, <1>2, <1>3, <1>4, <1>5, <1>6

LEMMA RemoveFailedStep == ASSUME IInv, RemoveFailed PROVE IInv'
<1> USE DEF IInv
<1>1. TypeOK'
    <2>1. NoFile \in Entry /\ NoWrite \in Write
        BY DEF NoFile, Entry, NoWrite, Write, Files
    <2>2. wr' \in [Writers -> Write] BY <2>1 DEF RemoveFailed, TypeOK
    <2>3. /\ vis' \in [Files -> Entry] /\ may' \in [Files -> SUBSET Entry]
          /\ acked' \in [Files -> Nat]
          /\ dir' \in [Levels -> {"absent", "cached", "durable", "removed"}]
        BY <2>1 DEF RemoveFailed, TypeOK
    <2> QED BY <2>2, <2>3 DEF RemoveFailed, TypeOK
<1>2. Phases'
    BY DEF RemoveFailed, Fault, NoWrite, NoFile, Phases, Over
<1>3. Whole'
    BY DEF RemoveFailed, Fault, NoWrite, NoFile, TypeOK, Write, Entry, Whole,
       Writers, Files
<1>4. OneWriter'
    BY DEF RemoveFailed, Fault, NoWrite, NoFile, TypeOK, Write, Entry, OneWriter,
       Phases, Writers, Files
<1>5. Rooted'
    BY DEF RemoveFailed, Fault, NoWrite, NoFile, TypeOK, Phases, OneWriter,
       Rooted, Stands, Anchored, Present
<1>6. Kept'
    BY DEF RemoveFailed, Fault, NoWrite, NoFile, TypeOK, Write, Entry, Phases,
       OneWriter, Whole, Kept, DurableFiles, Files
<1>7. AcknowledgedSurvives'
    BY DEF RemoveFailed, Fault, NoWrite, NoFile, Phases, AcknowledgedSurvives
<1> QED BY <1>1, <1>2, <1>3, <1>4, <1>5, <1>6, <1>7

LEMMA WriteProgressStep == ASSUME IInv, WriteProgress PROVE IInv'
<1> USE DEF IInv
<1>1. TypeOK'
    BY DEF WriteProgress, SupervisorFree, Begin, TypeOK, Write, Entry, Writers,
       Files
<1>2. Whole'
    BY DEF WriteProgress, SupervisorFree, Begin, TypeOK, Write, Entry, Whole,
       Writers, Files
<1>3. OneWriter'
    BY DEF WriteProgress, SupervisorFree, Begin, TypeOK, Write, Entry, OneWriter,
       Phases, Writers, Files
<1>4. Phases' /\ Rooted' /\ Kept' /\ AcknowledgedSurvives'
    BY DEF WriteProgress, Phases, Over, Rooted, Stands, Anchored, Present, Kept,
       AcknowledgedSurvives
<1> QED BY <1>1, <1>2, <1>3, <1>4

LEMMA WriteResultStep == ASSUME IInv, WriteResult PROVE IInv'
<1> USE DEF IInv
<1>1. TypeOK'
    BY DEF WriteResult, SupervisorFree, Begin, TypeOK, Write, Entry, Writers,
       Files
<1>2. Phases'
    BY DEF WriteResult, SupervisorFree, Begin, Phases, Over
<1>3. Whole'
    BY DEF WriteResult, SupervisorFree, Begin, TypeOK, Write, Entry, Whole,
       Writers, Files
<1>4. OneWriter'
    BY DEF WriteResult, SupervisorFree, Begin, TypeOK, Write, Entry, OneWriter,
       Phases, Writers, Files
<1>5. Rooted' /\ Kept' /\ AcknowledgedSurvives'
    BY DEF WriteResult, Rooted, Stands, Anchored, Present, Kept,
       AcknowledgedSurvives
<1> QED BY <1>1, <1>2, <1>3, <1>4, <1>5

LEMMA WriteExitStep == ASSUME IInv, WriteExit PROVE IInv'
<1> USE DEF IInv
<1>1. TypeOK'
    BY DEF WriteExit, SupervisorFree, Begin, TypeOK, Write, Entry, Writers, Files
<1>2. Phases'
    BY DEF WriteExit, SupervisorFree, Begin, Phases, Over
<1>3. Whole'
    BY DEF WriteExit, SupervisorFree, Begin, TypeOK, Write, Entry, Whole, Writers,
       Files
<1>4. OneWriter'
    BY DEF WriteExit, SupervisorFree, Begin, TypeOK, Write, Entry, OneWriter,
       Phases, Writers, Files
<1>5. Rooted' /\ Kept' /\ AcknowledgedSurvives'
    BY DEF WriteExit, Rooted, Stands, Anchored, Present, Kept,
       AcknowledgedSurvives
<1> QED BY <1>1, <1>2, <1>3, <1>4, <1>5

LEMMA WriteTempStep == ASSUME IInv, NEW w \in Writers, WriteTemp(w) PROVE IInv'
<1> USE DEF IInv
<1>1. TypeOK'
    BY DEF WriteTemp, At, TypeOK, Write, Entry, Writers, Files
<1>2. Whole'
    BY DEF WriteTemp, At, TypeOK, Write, Entry, Whole, Writers, Files
<1>3. OneWriter'
    BY DEF WriteTemp, At, TypeOK, Write, Entry, OneWriter, Phases, Writers, Files
<1>4. Phases' /\ Rooted' /\ Kept' /\ AcknowledgedSurvives'
    BY DEF WriteTemp, Phases, Over, Rooted, Stands, Anchored, Present, Kept,
       AcknowledgedSurvives
<1> QED BY <1>1, <1>2, <1>3, <1>4

LEMMA SyncTempStep == ASSUME IInv, NEW w \in Writers, SyncTemp(w) PROVE IInv'
<1> USE DEF IInv
<1>1. TypeOK'
    <2>1. wr[w] \in Write /\ wr \in [Writers -> Write] BY DEF TypeOK
    <2>2. wr' = [wr EXCEPT ![w] = wr'[w]] /\ wr'[w] \in Write
        BY <2>1 DEF SyncTemp, At, Write
    <2>3. wr' \in [Writers -> Write] BY <2>1, <2>2
    <2> QED BY <2>3 DEF SyncTemp, TypeOK
<1>2. Whole'
    BY DEF SyncTemp, At, TypeOK, Write, Entry, Whole, Writers, Files
<1>3. OneWriter'
    BY DEF SyncTemp, At, TypeOK, Write, Entry, OneWriter, Phases, Writers, Files
<1>4. Phases' /\ Rooted' /\ Kept' /\ AcknowledgedSurvives'
    BY DEF SyncTemp, Phases, Over, Rooted, Stands, Anchored, Present, Kept,
       AcknowledgedSurvives
<1> QED BY <1>1, <1>2, <1>3, <1>4

LEMMA RenameStep == ASSUME IInv, NEW w \in Writers, Rename(w) PROVE IInv'
<1> USE DEF IInv
<1>1. TypeOK'
    BY DEF Rename, At, TypeOK, Write, Entry, Writers, Files
<1>2. Whole'
    BY DEF Rename, At, TypeOK, Write, Entry, Whole, Writers, Files
<1>3. OneWriter'
    BY DEF Rename, At, TypeOK, Write, Entry, OneWriter, Phases, Writers, Files
<1>4. Kept'
    BY DEF Rename, At, TypeOK, Write, Entry, Phases, OneWriter, Whole, Kept,
       DurableFiles, Files, Writers
<1>5. AcknowledgedSurvives'
    BY DEF Rename, At, Phases, AcknowledgedSurvives
<1>6. Phases' /\ Rooted'
    BY DEF Rename, Phases, Over, Rooted, Stands, Anchored, Present
<1> QED BY <1>1, <1>2, <1>3, <1>4, <1>5, <1>6

LEMMA PublishStep == ASSUME IInv, NEW w \in Writers, Publish(w) PROVE IInv'
<1> USE DEF IInv
<1>1. TypeOK'
    <2>1. NoWrite \in Write BY DEF NoWrite, Write, Files
    <2>2. wr[w] \in Write BY DEF TypeOK
    <2>3. /\ wr' \in [Writers -> Write] /\ acked' \in [Files -> Nat]
        BY <2>1, <2>2 DEF Publish, TypeOK, Write
    <2>4. may' \in [Files -> SUBSET Entry]
        <3>1. may' = may \/ may' = [f \in Files |-> {vis[f]}] BY DEF Publish
        <3> QED BY <3>1 DEF TypeOK
    <2>5. unsynced' \in BOOLEAN
        <3>1. unsynced' = unsynced \/ unsynced' = TRUE BY Zenon DEF Publish
        <3> QED BY <3>1 DEF TypeOK
    <2> QED BY <2>3, <2>4, <2>5 DEF Publish, TypeOK
<1>2. Phases'
    BY DEF Publish, At, Fault, NoWrite, Phases, Over, OneWriter, Writers
<1>3. Whole'
    BY DEF Publish, At, Fault, NoWrite, TypeOK, Write, Entry, Whole, Writers,
       Files
<1>4. OneWriter'
    BY DEF Publish, At, Fault, NoWrite, TypeOK, Write, Entry, OneWriter, Phases,
       Writers, Files
<1>5. Rooted'
    BY DEF Publish, At, Fault, NoWrite, TypeOK, Phases, OneWriter, Rooted, Stands,
       Anchored, Present, Writers
<1>6. Kept'
    BY DEF Publish, At, Fault, NoWrite, TypeOK, Write, Entry, Phases, OneWriter,
       Whole, Kept, DurableFiles, Files
<1>7. AcknowledgedSurvives'
    BY DEF Publish, At, Fault, NoWrite, Phases, AcknowledgedSurvives
<1> QED BY <1>1, <1>2, <1>3, <1>4, <1>5, <1>6, <1>7

LEMMA WriteFailsStep == ASSUME IInv, NEW w \in Writers, WriteFails(w) PROVE IInv'
<1> USE DEF IInv
<1>1. TypeOK'
    BY DEF WriteFails, At, Fault, NoWrite, TypeOK, Write, Entry, Writers, Files
<1>2. Phases'
    BY DEF WriteFails, At, Fault, NoWrite, Phases, Over, OneWriter, Writers
<1>3. Whole'
    BY DEF WriteFails, At, Fault, NoWrite, TypeOK, Write, Entry, Whole, Writers,
       Files
<1>4. OneWriter'
    BY DEF WriteFails, At, Fault, NoWrite, TypeOK, Write, Entry, OneWriter,
       Phases, Writers, Files
<1>5. Rooted'
    BY DEF WriteFails, At, Fault, NoWrite, TypeOK, Phases, OneWriter, Rooted,
       Stands, Anchored, Present
<1>6. Kept' /\ AcknowledgedSurvives'
    BY DEF WriteFails, Kept, AcknowledgedSurvives
<1> QED BY <1>1, <1>2, <1>3, <1>4, <1>5, <1>6

LEMMA RivalMakesStep == ASSUME IInv, RivalMakes PROVE IInv'
<1> USE DEF IInv
<1>1. TypeOK'
    BY DEF RivalMakes, TypeOK, Write, Entry, Writers, Files
<1>2. Rooted'
    BY DEF RivalMakes, TypeOK, Phases, OneWriter, Rooted, Stands, Anchored,
       Present
<1>3. AcknowledgedSurvives'
    BY DEF RivalMakes, Phases, AcknowledgedSurvives
<1>4. Phases' /\ Whole' /\ OneWriter' /\ Kept'
    BY DEF RivalMakes, Phases, Over, Whole, OneWriter, Kept
<1> QED BY <1>1, <1>2, <1>3, <1>4

LEMMA RivalSyncsStep == ASSUME IInv, RivalSyncs PROVE IInv'
<1> USE DEF IInv
<1>1. TypeOK'
    BY DEF RivalSyncs, TypeOK, Write, Entry, Writers, Files
<1>2. Rooted'
    BY DEF RivalSyncs, TypeOK, Phases, OneWriter, Rooted, Stands, Anchored,
       Present
<1>3. AcknowledgedSurvives'
    BY DEF RivalSyncs, Phases, AcknowledgedSurvives
<1>4. Phases' /\ Whole' /\ OneWriter' /\ Kept'
    BY DEF RivalSyncs, Phases, Over, Whole, OneWriter, Kept
<1> QED BY <1>1, <1>2, <1>3, <1>4

\* What a power failure leaves: of each file an entry that was whole, and one that
\* might have been there if every directory of the path was synced.
LEMMA SurvivorsType ==
    ASSUME IInv, PowerFails
    PROVE  /\ vis' \in [Files -> Entry]
           /\ \A f \in Files : vis'[f].synced /\ vis'[f].ver >= 0
           /\ (\A l \in Levels : dir[l] = "durable") => \A f \in Files : vis'[f] \in may[f]
<1>1. \A f \in Files : Surviving(f) = may[f]
    <2> SUFFICES ASSUME NEW f \in Files PROVE Surviving(f) = may[f]
        OBVIOUS
    <2>1. \A e \in may[f] : OnDisk(e) = {e} BY DEF IInv, Whole, OnDisk
    <2> QED BY <2>1 DEF Surviving
<1>2. \A f \in Files : may[f] \subseteq Entry BY DEF IInv, TypeOK
<1>3. \A f \in Files : \A e \in may[f] : e.synced /\ e.ver >= 0 BY DEF IInv, Whole
<1>4. PICK kept \in SUBSET Levels :
        /\ {l \in Levels : dir[l] = "durable" /\ \A m \in 1..l : dir[m] = "durable"}
             \subseteq kept
        /\ IF Depth \in kept
           THEN vis' \in {v \in [Files -> UNION {Surviving(f) : f \in Files}] :
                            \A f \in Files : v[f] \in Surviving(f)}
           ELSE vis' = [f \in Files |-> NoFile]
    BY DEF PowerFails
<1>5. CASE Depth \in kept
    <2> DEFINE All == UNION {Surviving(f) : f \in Files}
    <2>0. /\ vis' \in [Files -> All]
          /\ \A f \in Files : vis'[f] \in Surviving(f)
        BY <1>4, <1>5
    <2> HIDE DEF All
    <2>1. \A f \in Files : vis'[f] \in may[f] BY <1>1, <2>0
    <2>2. \A f \in Files : vis'[f] \in Entry BY <1>2, <2>1
    <2>3. vis' \in [Files -> Entry] BY <2>0, <2>2
    <2> QED BY <1>3, <2>1, <2>3
<1>6. CASE Depth \notin kept
    <2>1. vis' = [f \in Files |-> NoFile] BY <1>4, <1>6
    <2>2. ~\A l \in Levels : dir[l] = "durable"
        <3>1. Depth \in Levels /\ \A m \in 1..Depth : m \in Levels
            BY DepthAssumption DEF Levels
        <3> QED BY <1>4, <1>6, <3>1
    <2> QED BY <2>1, <2>2 DEF NoFile, Entry
<1> QED BY <1>5, <1>6

LEMMA PowerFailsStep == ASSUME IInv, PowerFails PROVE IInv'
<1> USE DEF IInv
<1>1. TypeOK'
    <2>1. vis' \in [Files -> Entry] /\ may' = [f \in Files |-> {vis'[f]}]
        BY SurvivorsType DEF PowerFails
    <2>2. dir' \in [Levels -> {"absent", "cached", "durable", "removed"}]
        BY DEF PowerFails
    <2>3. wr' \in [Writers -> Write] BY DEF PowerFails, NoWrite, Write, Files
    <2> QED BY <2>1, <2>2, <2>3 DEF PowerFails, TypeOK
<1>2. Phases'
    BY DEF PowerFails, NoWrite, Phases, Over
<1>3. Whole'
    <2>1. \A f \in Files : /\ vis'[f].synced /\ vis'[f].ver >= 0
                           /\ may'[f] = {vis'[f]}
        BY SurvivorsType DEF PowerFails
    <2>2. \A w \in Writers : wr'[w].step = "none" BY DEF PowerFails, NoWrite
    <2> QED BY <2>1, <2>2 DEF Whole
<1>4. OneWriter'
    BY DEF PowerFails, NoWrite, TypeOK, Write, Entry, OneWriter, Phases, Writers,
       Files
<1>5. Rooted'
    BY DEF PowerFails, NoWrite, TypeOK, Phases, OneWriter, Rooted, Stands,
       Anchored, Present
<1>6. Kept'
    BY DEF PowerFails, NoWrite, TypeOK, Write, Entry, Phases, OneWriter, Whole,
       Kept, DurableFiles, Files
<1>7. AcknowledgedSurvives'
    <2> SUFFICES ASSUME ~unsynced, rival # "made", NEW f \in DurableFiles
                 PROVE  vis'[f].ver >= acked[f]
        BY DEF PowerFails, AcknowledgedSurvives
    <2>1. f \in Files /\ acked[f] \in Nat BY DEF DurableFiles, Files, TypeOK
    <2>2. CASE acked[f] = 0 BY <2>1, <2>2, SurvivorsType
    <2>3. CASE acked[f] # 0
        <3>1. Stands BY <2>1, <2>3 DEF PowerFails, Phases, OneWriter, Stands
        <3>2. \A l \in Levels : dir[l] = "durable" BY <3>1 DEF Rooted, Anchored
        <3>3. vis'[f] \in may[f] BY <2>1, <3>2, SurvivorsType
        <3>4. power = "on" BY DEF PowerFails
        <3> QED BY <3>3, <3>4 DEF Kept
    <2> QED BY <2>2, <2>3
<1> QED BY <1>1, <1>2, <1>3, <1>4, <1>5, <1>6, <1>7

LEMMA AgeStep == ASSUME IInv, Age PROVE IInv'
<1> USE DEF IInv
<1>1. TypeOK'
    BY DEF Age, TypeOK, Write, Entry, Writers, Files
<1>2. Phases'
    BY DEF Age, Phases, Over
<1>3. Whole' /\ OneWriter' /\ Rooted' /\ Kept' /\ AcknowledgedSurvives'
    BY DEF Age, Whole, OneWriter, Rooted, Stands, Anchored, Present, Kept,
       AcknowledgedSurvives
<1> QED BY <1>1, <1>2, <1>3

LEMMA SweepStep == ASSUME IInv, Sweep PROVE IInv'
<1> USE DEF IInv
<1>1. TypeOK'
    <2>1. NoFile \in Entry BY DEF NoFile, Entry
    <2>2. /\ vis' \in [Files -> Entry] /\ may' \in [Files -> SUBSET Entry]
          /\ acked' \in [Files -> Nat]
          /\ dir' \in [Levels -> {"absent", "cached", "durable", "removed"}]
        BY <2>1 DEF Sweep, TypeOK
    <2> QED BY <2>2 DEF Sweep, TypeOK
<1>2. Whole'
    BY DEF Sweep, NoFile, TypeOK, Write, Entry, Whole, Writers, Files
<1>3. OneWriter'
    BY DEF Sweep, NoFile, TypeOK, Write, Entry, OneWriter, Phases, Writers, Files,
       Over
<1>4. Rooted'
    BY DEF Sweep, NoFile, TypeOK, Phases, OneWriter, Rooted, Stands, Anchored,
       Present, Over
<1>5. Kept'
    BY DEF Sweep, NoFile, TypeOK, Write, Entry, Phases, OneWriter, Whole, Kept,
       DurableFiles, Files
<1>6. AcknowledgedSurvives'
    BY DEF Sweep, NoFile, Phases, AcknowledgedSurvives, DurableFiles, Files,
       TypeOK
<1>7. Phases'
    BY DEF Sweep, Phases, Over
<1> QED BY <1>1, <1>2, <1>3, <1>4, <1>5, <1>6, <1>7

-----------------------------------------------------------------------------
\* It holds at first.
LEMMA InvInit == Init => IInv
<1> SUFFICES ASSUME Init PROVE IInv
    OBVIOUS
<1>1. TypeOK
    <2>1. NoFile \in Entry /\ NoWrite \in Write
        BY DEF NoFile, NoWrite, Entry, Write, Files
    <2>2. /\ vis \in [Files -> Entry] /\ may \in [Files -> SUBSET Entry]
          /\ wr \in [Writers -> Write] /\ acked \in [Files -> Nat]
        BY <2>1 DEF Init
    <2> QED BY <2>2 DEF Init, TypeOK
<1>2. Phases /\ OneWriter BY DEF Init, Phases, OneWriter, NoWrite, Writers, Files
<1>3. Whole BY DEF Init, Whole, NoFile, NoWrite, Writers, Files
<1>4. Rooted BY DEF Init, Rooted, Stands
<1>5. Kept /\ AcknowledgedSurvives
    BY DEF Init, Kept, AcknowledgedSurvives, NoFile, Files, DurableFiles
<1> QED BY <1>1, <1>2, <1>3, <1>4, <1>5 DEF IInv

\* Every step keeps it.
LEMMA InvNext == IInv /\ [Next]_vars => IInv'
<1> SUFFICES ASSUME IInv, [Next]_vars PROVE IInv'
    OBVIOUS
<1>1. CASE MakeDirs \/ SyncParent \/ WriteMeta \/ Spawn \/ RemoveFailed
    BY <1>1, MakeDirsStep, SyncParentStep, WriteMetaStep, SpawnStep, RemoveFailedStep
<1>2. CASE WriteProgress \/ WriteResult \/ WriteExit
    BY <1>2, WriteProgressStep, WriteResultStep, WriteExitStep
<1>3. ASSUME NEW w \in Writers,
             WriteTemp(w) \/ SyncTemp(w) \/ Rename(w) \/ Publish(w) \/ WriteFails(w)
      PROVE  IInv'
    BY <1>3, WriteTempStep, SyncTempStep, RenameStep, PublishStep, WriteFailsStep
<1>4. CASE RivalMakes \/ RivalSyncs \/ PowerFails \/ Age \/ Sweep
    BY <1>4, RivalMakesStep, RivalSyncsStep, PowerFailsStep, AgeStep, SweepStep
<1>5. CASE UNCHANGED vars
    BY <1>5 DEF vars, IInv, TypeOK, Phases, Over, Whole, OneWriter, Rooted, Stands, Anchored,
                Present, Kept, AcknowledgedSurvives
<1> QED BY <1>1, <1>2, <1>3, <1>4, <1>5 DEF Next

-----------------------------------------------------------------------------
\* In every behaviour the files, the writes in progress and the directories agree.
THEOREM Consistent == Spec => []IInv
<1>1. Init => IInv BY InvInit
<1>2. IInv /\ [Next]_vars => IInv' BY InvNext
<1> QED BY <1>1, <1>2, PTL DEF Spec

\* A file that is there is whole, whenever the power fails.
THEOREM NeverTornAlways == Spec => []NeverTorn
<1>1. IInv => NeverTorn
    <2> SUFFICES ASSUME IInv, NEW f \in Files PROVE vis[f].ver # Torn
        BY DEF NeverTorn
    <2>1. vis[f].ver >= 0 BY DEF IInv, Whole
    <2> QED BY <2>1 DEF Torn
<1> QED BY <1>1, Consistent, PTL

\* What a durable write acknowledged is there after a power failure, unless a
\* directory fsync was refused or the root was another process's and not synced.
THEOREM SurvivesAlways == Spec => []AcknowledgedSurvives
<1>1. IInv => AcknowledgedSurvives BY DEF IInv
<1> QED BY <1>1, Consistent, PTL
=============================================================================
