-------------------------- MODULE AdmissionProofs --------------------------
(***************************************************************************)
(* Proofs about Admission, for any number of processes, runs and           *)
(* conversations, any cap and any number of crashes.                       *)
(*                                                                         *)
(* The inductive invariant says, in the order of its conjuncts: how far    *)
(* the processes and files of a job can be, given where its StartJob is    *)
(* (Progress); which conversation agy can drive (Sessions); who reserves a *)
(* gate key and who holds a flock (Gate, Locks); what the scan has         *)
(* established (Scanned); and that a caller can only name a fresh run's    *)
(* conversation if the scan would see that run (Requested).  A second      *)
(* invariant, CInv, adds what the slots of a gate are counted for.         *)
(***************************************************************************)
EXTENDS Admission, FiniteSetTheorems, TLAPS

Progress ==
    \A r \in Runs :
        /\ pc[r] # "idle" => owner[r] \in Procs
        /\ pc[r] \in ScanPCs \cup {"lock", "rollback"} => req[r] # Fresh
        /\ sup[r] # "none" => pc[r] \in {"record", "wait", "abort", "unlock", "ungate", "done", "lost"}
        /\ sup[r] = "up" => pc[r] \in {"record", "wait", "abort", "lost"}
        /\ meta[r] = "recorded" => pc[r] \in {"wait", "unlock", "ungate", "done", "lost"}
        /\ meta[r] # "none" => pc[r] \in {"spawn", "record", "wait", "abort", "unlock", "ungate", "done", "lost"}
        /\ agy[r] # "none" => sup[r] # "none"
        /\ exited[r] => agy[r] = "gone"
        /\ pc[r] = "progress" => /\ cur[r] \in Runs /\ pc[cur[r]] # "idle"
                                /\ req[cur[r]] # req[r]
        /\ \A p \in Procs : watch[p][r] # "none" \/ restoreCur[p] = r => pc[r] # "idle"

Sessions ==
    \A r \in Runs :
        /\ agy[r] = "none" => session[r] = NoConv
        /\ agy[r] = "running" /\ req[r] # Fresh => session[r] = req[r]
        /\ session[r] # NoConv /\ req[r] # Fresh => session[r] = req[r]
        /\ session[r] # NoConv /\ req[r] = Fresh => session[r] \in NewConvs
        /\ named[r] # NoConv => named[r] = session[r] /\ req[r] = Fresh
        /\ \A q \in Runs : req[r] = Fresh /\ req[q] = Fresh
              /\ session[r] # NoConv /\ session[q] = session[r] => q = r

Gate ==
    /\ \A r \in Runs : pc[r] \in GatePCs /\ req[r] # Fresh => req[r] \in keys[owner[r]]
    /\ \A p \in Procs, r \in Runs :
          watch[p][r] # "none" /\ req[r] # Fresh => req[r] \in keys[p]
    /\ \A r, q \in Runs : pc[r] \in GatePCs /\ pc[q] \in GatePCs
          /\ owner[r] = owner[q] /\ req[r] = req[q] /\ req[r] # Fresh => r = q
    /\ \A p \in Procs : \A r, q \in Runs : watch[p][r] # "none" /\ watch[p][q] # "none"
          /\ req[r] = req[q] /\ req[r] # Fresh => r = q
    /\ \A p \in Procs : \A r, q \in Runs : watch[p][r] # "none"
          /\ pc[q] \in GatePCs /\ owner[q] = p /\ req[r] = req[q] => req[r] = Fresh

Locks ==
    /\ \A r \in Runs : pc[r] \in LockPCs /\ req[r] # Fresh => flock[req[r]] = owner[r]
    /\ \A c \in Convs : flock[c] # NoProc =>
          \/ \E r \in Runs : pc[r] \in LockPCs /\ req[r] = c /\ owner[r] = flock[c]
          \/ \E r \in Runs : watch[flock[c]][r] = "watching" /\ req[r] = c

Scanned ==
    \A r \in Runs : \A b \in blockers[r] :
        /\ meta[b] = "recorded" /\ req[r] # Fresh
        /\ req[b] = req[r] \/ named[b] = req[r]
        /\ LiveJob(b) /\ b \notin skipped[r] =>
              /\ pc[r] \in {"scan", "progress"} => b \in todo[r]
              /\ pc[r] \in ScanPCs \cup {"done", "lost"}
              /\ sup[r] = "none"

Requested ==
    \A q \in Runs : req[q] \in NewConvs =>
        /\ \E r \in Runs : named[r] = req[q]
        /\ \A r \in Runs : req[r] = Fresh /\ session[r] = req[q] =>
              r \in blockers[q] \/ sup[r] # "up" \/ exited[r]

IInv == TypeOK /\ Progress /\ Sessions /\ Gate /\ Locks /\ Scanned /\ Requested

-----------------------------------------------------------------------------
\* Conversations a caller knows are conversations.
LEMMA KnownConvs == TypeOK => Known \subseteq Convs
BY DEF TypeOK, Known, Convs, OnDisk

\* The initial state and every step are type correct.
LEMMA TypeInit == Init => TypeOK
BY NamesDistinct, BoundsNat DEF Init, TypeOK, PCs, ScanPCs, GatePCs

\* A release leaves a natural number of slots, even when none was taken.
LEMMA ReleaseType ==
    ASSUME NEW p, NEW c, inFlight \in [Procs -> Nat], GateRelease(p, c)
    PROVE inFlight' \in [Procs -> Nat]
<1>1. CASE p \in Procs BY <1>1 DEF GateRelease
<1>2. CASE p \notin Procs BY <1>2 DEF GateRelease
<1> QED BY <1>1, <1>2

\* The proof takes the actions one by one, and of each only the variables
\* it changes.
LEMMA TypeNext == TypeOK /\ [Next]_vars => TypeOK'
<1> SUFFICES ASSUME TypeOK, [Next]_vars PROVE TypeOK'
    OBVIOUS
<1>mgr. mgr \in [Procs -> {"down", "restoring", "serving"}] BY DEF TypeOK
<1>inFlight. inFlight \in [Procs -> Nat] BY DEF TypeOK
<1>keys. keys \in [Procs -> SUBSET Convs] BY DEF TypeOK
<1>flock. flock \in [Convs -> Procs \cup {NoProc}] BY DEF TypeOK
<1>restoreTodo. restoreTodo \in [Procs -> SUBSET Runs] BY DEF TypeOK
<1>restoreCur. restoreCur \in [Procs -> Runs \cup {NoRun}] BY DEF TypeOK
<1>watch. watch \in [Procs -> [Runs -> {"none", "watching", "ungate"}]] BY DEF TypeOK
<1>unrestored. unrestored \in [Procs -> SUBSET Runs] BY DEF TypeOK
<1>pc. pc \in [Runs -> PCs] BY DEF TypeOK
<1>owner. owner \in [Runs -> Procs \cup {NoProc}] BY DEF TypeOK
<1>req. req \in [Runs -> Convs \cup {Fresh}] BY DEF TypeOK
<1>todo. todo \in [Runs -> SUBSET Runs] BY DEF TypeOK
<1>cur. cur \in [Runs -> Runs \cup {NoRun}] BY DEF TypeOK
<1>skipped. skipped \in [Runs -> SUBSET Runs] BY DEF TypeOK
<1>meta. meta \in [Runs -> {"none", "created", "recorded"}] BY DEF TypeOK
<1>named. named \in [Runs -> Convs \cup {NoConv}] BY DEF TypeOK
<1>exited. exited \in [Runs -> BOOLEAN] BY DEF TypeOK
<1>sup. sup \in [Runs -> {"none", "up", "gone"}] BY DEF TypeOK
<1>agy. agy \in [Runs -> {"none", "running", "gone"}] BY DEF TypeOK
<1>session. session \in [Runs -> Convs \cup {NoConv}] BY DEF TypeOK
<1>blockers. blockers \in [Runs -> SUBSET Runs] BY DEF TypeOK
<1>crashes. crashes \in 0 .. MaxCrashes BY DEF TypeOK
<1>supCrashes. supCrashes \in 0 .. MaxSupCrashes BY DEF TypeOK
<1>unreadable. unreadable \in 0 .. MaxUnreadable BY DEF TypeOK
<1>1. ASSUME NEW r \in Runs, NEW p \in Procs, NEW c \in Known \cup {Fresh}, Begin(r, p, c) PROVE
    TypeOK'
    <2>owner. owner' \in [Runs -> Procs \cup {NoProc}]
        BY <1>1, <1>owner DEF Begin
    <2>req. req' \in [Runs -> Convs \cup {Fresh}]
        BY <1>1, <1>req, KnownConvs DEF Begin
    <2>pc. pc' \in [Runs -> PCs]
        BY <1>1, <1>pc DEF Begin, PCs, ScanPCs, GatePCs
    <2>blockers. blockers' \in [Runs -> SUBSET Runs]
        BY <1>1, <1>blockers DEF Begin
    <2>u. UNCHANGED <<mgr, inFlight, keys, flock, restoreTodo, restoreCur, watch, todo, cur,
        meta, named, exited, sup, agy, session, crashes, supCrashes, unrestored, skipped,
        unreadable>>
        BY <1>1 DEF Begin, gateVars, restoreVars, scanVars, askVars, diskVars, procVars, bounds
    <2> QED BY <2>u, <2>owner, <2>req, <2>pc, <2>blockers DEF TypeOK
<1>2. ASSUME NEW r \in Runs, ScanList(r) PROVE TypeOK'
    <2>todo. todo' \in [Runs -> SUBSET Runs]
        BY <1>2, <1>todo DEF ScanList, OnDisk
    <2>pc. pc' \in [Runs -> PCs]
        BY <1>2, <1>pc DEF ScanList, Refuse, PCs, ScanPCs, GatePCs
    <2>u. UNCHANGED <<mgr, inFlight, keys, flock, restoreTodo, restoreCur, watch, owner, req,
        cur, meta, named, exited, sup, agy, session, blockers, crashes, supCrashes, unrestored,
        skipped, unreadable>>
        BY <1>2 DEF ScanList, gateVars, restoreVars, scanVars, askVars, diskVars, procVars,
            bounds
    <2> QED BY <2>u, <2>todo, <2>pc DEF TypeOK
<1>3. ASSUME NEW r \in Runs, NEW j \in Runs, ScanJob(r, j) PROVE TypeOK'
    <2>todo. todo' \in [Runs -> SUBSET Runs]
        BY <1>3, <1>todo DEF ScanJob
    <2>cur. cur' \in [Runs -> Runs \cup {NoRun}]
        BY <1>3, <1>cur DEF ScanJob
    <2>pc. pc' \in [Runs -> PCs]
        BY <1>3, <1>pc DEF ScanJob, Refuse, PCs, ScanPCs, GatePCs
    <2>skipped. skipped' \in [Runs -> SUBSET Runs]
        BY <1>3, <1>skipped DEF ScanJob
    <2>unreadable. unreadable' \in 0 .. MaxUnreadable
        BY <1>3, <1>unreadable, BoundsNat DEF ScanJob, ReadFault
    <2>u. UNCHANGED <<mgr, inFlight, keys, flock, restoreTodo, restoreCur, watch, owner, req,
        meta, named, exited, sup, agy, session, blockers, crashes, supCrashes, unrestored>>
        BY <1>3 DEF ScanJob, gateVars, restoreVars, scanVars, askVars, diskVars, procVars,
            bounds
    <2> QED BY <2>u, <2>skipped, <2>unreadable, <2>todo, <2>cur, <2>pc DEF TypeOK
<1>4. ASSUME NEW r \in Runs, ScanProgress(r) PROVE TypeOK'
    <2>todo. todo' \in [Runs -> SUBSET Runs]
        BY <1>4, <1>todo DEF ScanProgress
    <2>cur. cur' \in [Runs -> Runs \cup {NoRun}]
        BY <1>4, <1>cur DEF ScanProgress
    <2>pc. pc' \in [Runs -> PCs]
        BY <1>4, <1>pc DEF ScanProgress, Refuse, PCs, ScanPCs, GatePCs
    <2>skipped. skipped' \in [Runs -> SUBSET Runs]
        BY <1>4, <1>skipped DEF ScanProgress, Named
    <2>unreadable. unreadable' \in 0 .. MaxUnreadable
        BY <1>4, <1>unreadable, BoundsNat DEF ScanProgress, ReadFault
    <2>u. UNCHANGED <<mgr, inFlight, keys, flock, restoreTodo, restoreCur, watch, owner, req,
        meta, named, exited, sup, agy, session, blockers, crashes, supCrashes, unrestored>>
        BY <1>4 DEF ScanProgress, gateVars, restoreVars, scanVars, askVars, diskVars, procVars,
            bounds
    <2> QED BY <2>u, <2>skipped, <2>unreadable, <2>todo, <2>cur, <2>pc DEF TypeOK
<1>5. ASSUME NEW r \in Runs, ScanDone(r) PROVE TypeOK'
    <2>pc. pc' \in [Runs -> PCs]
        BY <1>5, <1>pc DEF ScanDone, PCs, ScanPCs, GatePCs
    <2>u. UNCHANGED <<mgr, inFlight, keys, flock, restoreTodo, restoreCur, watch, owner, req,
        todo, cur, meta, named, exited, sup, agy, session, blockers, crashes, supCrashes,
        unrestored, skipped, unreadable>>
        BY <1>5 DEF ScanDone, gateVars, restoreVars, scanVars, askVars, diskVars, procVars,
            bounds
    <2> QED BY <2>u, <2>pc DEF TypeOK
<1>6. ASSUME NEW r \in Runs, TryAcquire(r) PROVE TypeOK'
    <2>inFlight. inFlight' \in [Procs -> Nat]
        BY <1>6, <1>inFlight DEF TryAcquire, Reserve, gateVars
    <2>keys. keys' \in [Procs -> SUBSET Convs]
        BY <1>6, <1>keys, <1>req DEF TryAcquire, Reserve, gateVars
    <2>pc. pc' \in [Runs -> PCs]
        BY <1>6, <1>pc DEF TryAcquire, Refuse, PCs, ScanPCs, GatePCs
    <2>u. UNCHANGED <<mgr, flock, restoreTodo, restoreCur, watch, owner, req, todo, cur, meta,
        named, exited, sup, agy, session, blockers, crashes, supCrashes, unrestored, skipped,
        unreadable>>
        BY <1>6 DEF TryAcquire, gateVars, restoreVars, scanVars, askVars, diskVars, procVars,
            bounds
    <2> QED BY <2>u, <2>inFlight, <2>keys, <2>pc DEF TypeOK
<1>7. ASSUME NEW r \in Runs, TryLock(r) PROVE TypeOK'
    <2>flock. flock' \in [Convs -> Procs \cup {NoProc}]
        BY <1>7, <1>flock, <1>owner DEF TryLock
    <2>pc. pc' \in [Runs -> PCs]
        BY <1>7, <1>pc DEF TryLock, PCs, ScanPCs, GatePCs
    <2>u. UNCHANGED <<mgr, inFlight, keys, restoreTodo, restoreCur, watch, owner, req, todo,
        cur, meta, named, exited, sup, agy, session, blockers, crashes, supCrashes, unrestored,
        skipped, unreadable>>
        BY <1>7 DEF TryLock, gateVars, restoreVars, scanVars, askVars, diskVars, procVars,
            bounds
    <2> QED BY <2>u, <2>flock, <2>pc DEF TypeOK
<1>8. ASSUME NEW r \in Runs, Rollback(r) PROVE TypeOK'
    <2>inFlight. inFlight' \in [Procs -> Nat]
        BY <1>8, <1>inFlight, ReleaseType DEF Rollback
    <2>keys. keys' \in [Procs -> SUBSET Convs]
        BY <1>8, <1>keys DEF Rollback, GateRelease
    <2>pc. pc' \in [Runs -> PCs]
        BY <1>8, <1>pc DEF Rollback, Refuse, PCs, ScanPCs, GatePCs
    <2>u. UNCHANGED <<mgr, flock, restoreTodo, restoreCur, watch, owner, req, todo, cur, meta,
        named, exited, sup, agy, session, blockers, crashes, supCrashes, unrestored, skipped,
        unreadable>>
        BY <1>8 DEF Rollback, gateVars, restoreVars, scanVars, askVars, diskVars, procVars,
            bounds
    <2> QED BY <2>u, <2>inFlight, <2>keys, <2>pc DEF TypeOK
<1>9. ASSUME NEW r \in Runs, Create(r) PROVE TypeOK'
    <2>meta. meta' \in [Runs -> {"none", "created", "recorded"}]
        BY <1>9, <1>meta DEF Create
    <2>pc. pc' \in [Runs -> PCs]
        BY <1>9, <1>pc DEF Create, PCs, ScanPCs, GatePCs
    <2>u. UNCHANGED <<mgr, inFlight, keys, flock, restoreTodo, restoreCur, watch, owner, req,
        todo, cur, named, exited, sup, agy, session, blockers, crashes, supCrashes, unrestored,
        skipped, unreadable>>
        BY <1>9 DEF Create, gateVars, restoreVars, scanVars, askVars, diskVars, procVars, bounds
    <2> QED BY <2>u, <2>meta, <2>pc DEF TypeOK
<1>10. ASSUME NEW r \in Runs, Spawn(r) PROVE TypeOK'
    <2>meta. meta' \in [Runs -> {"none", "created", "recorded"}]
        BY <1>10, <1>meta DEF Spawn
    <2>sup. sup' \in [Runs -> {"none", "up", "gone"}]
        BY <1>10, <1>sup DEF Spawn
    <2>pc. pc' \in [Runs -> PCs]
        BY <1>10, <1>pc DEF Spawn, PCs, ScanPCs, GatePCs
    <2>u. UNCHANGED <<mgr, inFlight, keys, flock, restoreTodo, restoreCur, watch, owner, req,
        todo, cur, named, exited, agy, session, blockers, crashes, supCrashes, unrestored,
        skipped, unreadable>>
        BY <1>10 DEF Spawn, gateVars, restoreVars, scanVars, askVars, diskVars, procVars, bounds
    <2> QED BY <2>u, <2>meta, <2>sup, <2>pc DEF TypeOK
<1>11. ASSUME NEW r \in Runs, RecordPid(r) PROVE TypeOK'
    <2>meta. meta' \in [Runs -> {"none", "created", "recorded"}]
        BY <1>11, <1>meta DEF RecordPid
    <2>pc. pc' \in [Runs -> PCs]
        BY <1>11, <1>pc DEF RecordPid, PCs, ScanPCs, GatePCs
    <2>u. UNCHANGED <<mgr, inFlight, keys, flock, restoreTodo, restoreCur, watch, owner, req,
        todo, cur, named, exited, sup, agy, session, blockers, crashes, supCrashes, unrestored,
        skipped, unreadable>>
        BY <1>11 DEF RecordPid, gateVars, restoreVars, scanVars, askVars, diskVars, procVars,
            bounds
    <2> QED BY <2>u, <2>meta, <2>pc DEF TypeOK
<1>12. ASSUME NEW r \in Runs, WaitReturns(r) PROVE TypeOK'
    <2>pc. pc' \in [Runs -> PCs]
        BY <1>12, <1>pc DEF WaitReturns, PCs, ScanPCs, GatePCs
    <2>u. UNCHANGED <<mgr, inFlight, keys, flock, restoreTodo, restoreCur, watch, owner, req,
        todo, cur, meta, named, exited, sup, agy, session, blockers, crashes, supCrashes,
        unrestored, skipped, unreadable>>
        BY <1>12 DEF WaitReturns, gateVars, restoreVars, scanVars, askVars, diskVars, procVars,
            bounds
    <2> QED BY <2>u, <2>pc DEF TypeOK
<1>13. ASSUME NEW r \in Runs, AbortReaped(r) PROVE TypeOK'
    <2>meta. meta' \in [Runs -> {"none", "created", "recorded"}]
        BY <1>13, <1>meta DEF AbortReaped
    <2>pc. pc' \in [Runs -> PCs]
        BY <1>13, <1>pc DEF AbortReaped, PCs, ScanPCs, GatePCs
    <2>u. UNCHANGED <<mgr, inFlight, keys, flock, restoreTodo, restoreCur, watch, owner, req,
        todo, cur, named, exited, sup, agy, session, blockers, crashes, supCrashes, unrestored,
        skipped, unreadable>>
        BY <1>13 DEF AbortReaped, gateVars, restoreVars, scanVars, askVars, diskVars, procVars,
            bounds
    <2> QED BY <2>u, <2>meta, <2>pc DEF TypeOK
<1>14. ASSUME NEW r \in Runs, Unlock(r) PROVE TypeOK'
    <2>flock. flock' \in [Convs -> Procs \cup {NoProc}]
        BY <1>14, <1>flock DEF Unlock, UnlockedBy
    <2>pc. pc' \in [Runs -> PCs]
        BY <1>14, <1>pc DEF Unlock, PCs, ScanPCs, GatePCs
    <2>u. UNCHANGED <<mgr, inFlight, keys, restoreTodo, restoreCur, watch, owner, req, todo,
        cur, meta, named, exited, sup, agy, session, blockers, crashes, supCrashes, unrestored,
        skipped, unreadable>>
        BY <1>14 DEF Unlock, gateVars, restoreVars, scanVars, askVars, diskVars, procVars,
            bounds
    <2> QED BY <2>u, <2>flock, <2>pc DEF TypeOK
<1>15. ASSUME NEW r \in Runs, Ungate(r) PROVE TypeOK'
    <2>inFlight. inFlight' \in [Procs -> Nat]
        BY <1>15, <1>inFlight, ReleaseType DEF Ungate
    <2>keys. keys' \in [Procs -> SUBSET Convs]
        BY <1>15, <1>keys DEF Ungate, GateRelease
    <2>pc. pc' \in [Runs -> PCs]
        BY <1>15, <1>pc DEF Ungate, PCs, ScanPCs, GatePCs
    <2>u. UNCHANGED <<mgr, flock, restoreTodo, restoreCur, watch, owner, req, todo, cur, meta,
        named, exited, sup, agy, session, blockers, crashes, supCrashes, unrestored, skipped,
        unreadable>>
        BY <1>15 DEF Ungate, gateVars, restoreVars, scanVars, askVars, diskVars, procVars,
            bounds
    <2> QED BY <2>u, <2>inFlight, <2>keys, <2>pc DEF TypeOK
<1>16. ASSUME NEW r \in Runs, StartAgy(r) PROVE TypeOK'
    <2>agy. agy' \in [Runs -> {"none", "running", "gone"}]
        BY <1>16, <1>agy DEF StartAgy
    <2>session. session' \in [Runs -> Convs \cup {NoConv}]
        BY <1>16, <1>session, <1>req DEF StartAgy
    <2>u. UNCHANGED <<mgr, inFlight, keys, flock, restoreTodo, restoreCur, watch, pc, owner,
        req, todo, cur, meta, named, exited, sup, blockers, crashes, supCrashes, unrestored,
        skipped, unreadable>>
        BY <1>16 DEF StartAgy, gateVars, restoreVars, scanVars, askVars, diskVars, procVars,
            bounds
    <2> QED BY <2>u, <2>agy, <2>session DEF TypeOK
<1>17. ASSUME NEW r \in Runs, NEW c \in NewConvs, NameSession(r, c) PROVE TypeOK'
    <2>session. session' \in [Runs -> Convs \cup {NoConv}]
        BY <1>17, <1>session DEF NameSession, Convs
    <2>u. UNCHANGED <<mgr, inFlight, keys, flock, restoreTodo, restoreCur, watch, pc, owner,
        req, todo, cur, meta, named, exited, sup, agy, blockers, crashes, supCrashes,
        unrestored, skipped, unreadable>>
        BY <1>17 DEF NameSession, gateVars, restoreVars, scanVars, askVars, diskVars, procVars,
            bounds
    <2> QED BY <2>u, <2>session DEF TypeOK
<1>18. ASSUME NEW r \in Runs, RecordName(r) PROVE TypeOK'
    <2>named. named' \in [Runs -> Convs \cup {NoConv}]
        BY <1>18, <1>named, <1>session DEF RecordName
    <2>u. UNCHANGED <<mgr, inFlight, keys, flock, restoreTodo, restoreCur, watch, pc, owner,
        req, todo, cur, meta, exited, sup, agy, session, blockers, crashes, supCrashes,
        unrestored, skipped, unreadable>>
        BY <1>18 DEF RecordName, gateVars, restoreVars, scanVars, askVars, diskVars, procVars,
            bounds
    <2> QED BY <2>u, <2>named DEF TypeOK
<1>19. ASSUME NEW r \in Runs, AgyExit(r) PROVE TypeOK'
    <2>agy. agy' \in [Runs -> {"none", "running", "gone"}]
        BY <1>19, <1>agy DEF AgyExit
    <2>u. UNCHANGED <<mgr, inFlight, keys, flock, restoreTodo, restoreCur, watch, pc, owner,
        req, todo, cur, meta, named, exited, sup, session, blockers, crashes, supCrashes,
        unrestored, skipped, unreadable>>
        BY <1>19 DEF AgyExit, gateVars, restoreVars, scanVars, askVars, diskVars, procVars,
            bounds
    <2> QED BY <2>u, <2>agy DEF TypeOK
<1>20. ASSUME NEW r \in Runs, WriteExit(r) PROVE TypeOK'
    <2>exited. exited' \in [Runs -> BOOLEAN]
        BY <1>20, <1>exited DEF WriteExit
    <2>u. UNCHANGED <<mgr, inFlight, keys, flock, restoreTodo, restoreCur, watch, pc, owner,
        req, todo, cur, meta, named, sup, agy, session, blockers, crashes, supCrashes,
        unrestored, skipped, unreadable>>
        BY <1>20 DEF WriteExit, gateVars, restoreVars, scanVars, askVars, diskVars, procVars,
            bounds
    <2> QED BY <2>u, <2>exited DEF TypeOK
<1>21. ASSUME NEW r \in Runs, SupervisorExit(r) PROVE TypeOK'
    <2>sup. sup' \in [Runs -> {"none", "up", "gone"}]
        BY <1>21, <1>sup DEF SupervisorExit
    <2>u. UNCHANGED <<mgr, inFlight, keys, flock, restoreTodo, restoreCur, watch, pc, owner,
        req, todo, cur, meta, named, exited, agy, session, blockers, crashes, supCrashes,
        unrestored, skipped, unreadable>>
        BY <1>21 DEF SupervisorExit, gateVars, restoreVars, scanVars, askVars, diskVars,
            procVars, bounds
    <2> QED BY <2>u, <2>sup DEF TypeOK
<1>22. ASSUME NEW r \in Runs, SupervisorCrash(r) PROVE TypeOK'
    <2>sup. sup' \in [Runs -> {"none", "up", "gone"}]
        BY <1>22, <1>sup DEF SupervisorCrash
    <2>supCrashes. supCrashes' \in 0 .. MaxSupCrashes
        BY <1>22, <1>supCrashes, BoundsNat DEF SupervisorCrash
    <2>u. UNCHANGED <<mgr, inFlight, keys, flock, restoreTodo, restoreCur, watch, pc, owner,
        req, todo, cur, meta, named, exited, agy, session, blockers, crashes, unrestored,
        skipped, unreadable>>
        BY <1>22 DEF SupervisorCrash, gateVars, restoreVars, scanVars, askVars, diskVars,
            procVars, bounds
    <2> QED BY <2>u, <2>sup, <2>supCrashes DEF TypeOK
<1>23. ASSUME NEW p \in Procs, Start(p) PROVE TypeOK'
    <2>mgr. mgr' \in [Procs -> {"down", "restoring", "serving"}]
        BY <1>23, <1>mgr DEF Start
    <2>restoreTodo. restoreTodo' \in [Procs -> SUBSET Runs]
        BY <1>23, <1>restoreTodo DEF Start, OnDisk
    <2>u. UNCHANGED <<inFlight, keys, flock, restoreCur, watch, pc, owner, req, todo, cur, meta,
        named, exited, sup, agy, session, blockers, crashes, supCrashes, unrestored, skipped,
        unreadable>>
        BY <1>23 DEF Start, gateVars, restoreVars, scanVars, askVars, diskVars, procVars, bounds
    <2> QED BY <2>u, <2>mgr, <2>restoreTodo DEF TypeOK
<1>24. ASSUME NEW p \in Procs, NEW r \in Runs, RestoreCheck(p, r) PROVE TypeOK'
    <2>restoreTodo. restoreTodo' \in [Procs -> SUBSET Runs]
        BY <1>24, <1>restoreTodo DEF RestoreCheck
    <2>restoreCur. restoreCur' \in [Procs -> Runs \cup {NoRun}]
        BY <1>24, <1>restoreCur DEF RestoreCheck
    <2>unrestored. unrestored' \in [Procs -> SUBSET Runs]
        BY <1>24, <1>unrestored DEF RestoreCheck
    <2>unreadable. unreadable' \in 0 .. MaxUnreadable
        BY <1>24, <1>unreadable, BoundsNat DEF RestoreCheck, ReadFault
    <2>u. UNCHANGED <<mgr, inFlight, keys, flock, watch, pc, owner, req, todo, cur, meta, named,
        exited, sup, agy, session, blockers, crashes, supCrashes, skipped>>
        BY <1>24 DEF RestoreCheck, gateVars, restoreVars, scanVars, askVars, diskVars, procVars,
            bounds
    <2> QED BY <2>u, <2>unrestored, <2>unreadable, <2>restoreTodo, <2>restoreCur DEF TypeOK
<1>25. ASSUME NEW p \in Procs, ForceAdmit(p) PROVE TypeOK'
    <2>restoreCur. restoreCur' \in [Procs -> Runs \cup {NoRun}]
        BY <1>25, <1>restoreCur DEF ForceAdmit
    <2>inFlight. inFlight' \in [Procs -> Nat]
        BY <1>25, <1>inFlight DEF ForceAdmit, Reserve, gateVars
    <2>keys. keys' \in [Procs -> SUBSET Convs]
        BY <1>25, <1>keys, <1>req, <1>restoreCur DEF ForceAdmit, Reserve, gateVars
    <2>watch. watch' \in [Procs -> [Runs -> {"none", "watching", "ungate"}]]
        BY <1>25, <1>watch, <1>restoreCur DEF ForceAdmit
    <2>flock. flock' \in [Convs -> Procs \cup {NoProc}]
        BY <1>25, <1>flock DEF ForceAdmit
    <2>u. UNCHANGED <<mgr, restoreTodo, pc, owner, req, todo, cur, meta, named, exited, sup,
        agy, session, blockers, crashes, supCrashes, unrestored, skipped, unreadable>>
        BY <1>25 DEF ForceAdmit, gateVars, restoreVars, scanVars, askVars, diskVars, procVars,
            bounds
    <2> QED BY <2>u, <2>restoreCur, <2>inFlight, <2>keys, <2>watch, <2>flock DEF TypeOK
<1>26. ASSUME NEW p \in Procs, Serve(p) PROVE TypeOK'
    <2>mgr. mgr' \in [Procs -> {"down", "restoring", "serving"}]
        BY <1>26, <1>mgr DEF Serve
    <2>u. UNCHANGED <<inFlight, keys, flock, restoreTodo, restoreCur, watch, pc, owner, req,
        todo, cur, meta, named, exited, sup, agy, session, blockers, crashes, supCrashes,
        unrestored, skipped, unreadable>>
        BY <1>26 DEF Serve, gateVars, restoreVars, scanVars, askVars, diskVars, procVars, bounds
    <2> QED BY <2>u, <2>mgr DEF TypeOK
<1>27. ASSUME NEW p \in Procs, Crash(p) PROVE TypeOK'
    <2>crashes. crashes' \in 0 .. MaxCrashes
        BY <1>27, <1>crashes, BoundsNat DEF Crash
    <2>mgr. mgr' \in [Procs -> {"down", "restoring", "serving"}]
        BY <1>27, <1>mgr DEF Crash
    <2>inFlight. inFlight' \in [Procs -> Nat]
        BY <1>27, <1>inFlight DEF Crash
    <2>keys. keys' \in [Procs -> SUBSET Convs]
        BY <1>27, <1>keys DEF Crash
    <2>flock. flock' \in [Convs -> Procs \cup {NoProc}]
        BY <1>27, <1>flock DEF Crash
    <2>restoreTodo. restoreTodo' \in [Procs -> SUBSET Runs]
        BY <1>27, <1>restoreTodo DEF Crash
    <2>restoreCur. restoreCur' \in [Procs -> Runs \cup {NoRun}]
        BY <1>27, <1>restoreCur DEF Crash
    <2>watch. watch' \in [Procs -> [Runs -> {"none", "watching", "ungate"}]]
        BY <1>27, <1>watch DEF Crash
    <2>pc. pc' \in [Runs -> PCs]
        BY <1>27, <1>pc DEF Crash, PCs, ScanPCs, GatePCs
    <2>todo. todo' \in [Runs -> SUBSET Runs]
        BY <1>27, <1>todo DEF Crash
    <2>cur. cur' \in [Runs -> Runs \cup {NoRun}]
        BY <1>27, <1>cur DEF Crash
    <2>unrestored. unrestored' \in [Procs -> SUBSET Runs]
        BY <1>27, <1>unrestored DEF Crash
    <2>u. UNCHANGED <<owner, req, meta, named, exited, sup, agy, session, blockers, supCrashes,
        skipped, unreadable>>
        BY <1>27 DEF Crash, gateVars, restoreVars, scanVars, askVars, diskVars, procVars, bounds
    <2> QED BY <2>u, <2>unrestored, <2>crashes, <2>mgr, <2>inFlight, <2>keys, <2>flock, <2>restoreTodo,
        <2>restoreCur, <2>watch, <2>pc, <2>todo, <2>cur DEF TypeOK
<1>28. ASSUME NEW p \in Procs, NEW r \in Runs, WatchDead(p, r) PROVE TypeOK'
    <2>watch. watch' \in [Procs -> [Runs -> {"none", "watching", "ungate"}]]
        BY <1>28, <1>watch DEF WatchDead
    <2>flock. flock' \in [Convs -> Procs \cup {NoProc}]
        BY <1>28, <1>flock DEF WatchDead, UnlockedBy
    <2>u. UNCHANGED <<mgr, inFlight, keys, restoreTodo, restoreCur, pc, owner, req, todo, cur,
        meta, named, exited, sup, agy, session, blockers, crashes, supCrashes, unrestored,
        skipped, unreadable>>
        BY <1>28 DEF WatchDead, gateVars, restoreVars, scanVars, askVars, diskVars, procVars,
            bounds
    <2> QED BY <2>u, <2>watch, <2>flock DEF TypeOK
<1>29. ASSUME NEW p \in Procs, NEW r \in Runs, WatchUngate(p, r) PROVE TypeOK'
    <2>watch. watch' \in [Procs -> [Runs -> {"none", "watching", "ungate"}]]
        BY <1>29, <1>watch DEF WatchUngate
    <2>inFlight. inFlight' \in [Procs -> Nat]
        BY <1>29, <1>inFlight DEF WatchUngate, GateRelease
    <2>keys. keys' \in [Procs -> SUBSET Convs]
        BY <1>29, <1>keys DEF WatchUngate, GateRelease
    <2>u. UNCHANGED <<mgr, flock, restoreTodo, restoreCur, pc, owner, req, todo, cur, meta,
        named, exited, sup, agy, session, blockers, crashes, supCrashes, unrestored, skipped,
        unreadable>>
        BY <1>29 DEF WatchUngate, gateVars, restoreVars, scanVars, askVars, diskVars, procVars,
            bounds
    <2> QED BY <2>u, <2>watch, <2>inFlight, <2>keys DEF TypeOK
<1>30. CASE UNCHANGED vars BY <1>30 DEF TypeOK, vars, gateVars, restoreVars, scanVars, askVars,
    diskVars, procVars, bounds
<1> QED BY <1>1, <1>2, <1>3, <1>4, <1>5, <1>6, <1>7, <1>8, <1>9, <1>10, <1>11, <1>12, <1>13,
    <1>14, <1>15, <1>16, <1>17, <1>18, <1>19, <1>20, <1>21, <1>22, <1>23, <1>24, <1>25, <1>26,
    <1>27, <1>28, <1>29, <1>30
    DEF Next, ManagerStep, SupervisorStep, RestoreStep, WatchStep

-----------------------------------------------------------------------------
\* The invariant is inductive.  Each action has one step, and under it one
\* step per part it can disturb; frame covers the parts it cannot.
LEMMA InvNext == IInv /\ [Next]_vars => IInv'
<1> SUFFICES ASSUME IInv, [Next]_vars PROVE IInv'
    OBVIOUS
<1>type. TypeOK /\ TypeOK' BY TypeNext DEF IInv
<1>Progress. Progress BY DEF IInv
<1>Sessions. Sessions BY DEF IInv
<1>Gate. Gate BY DEF IInv
<1>Locks. Locks BY DEF IInv
<1>Scanned. Scanned BY DEF IInv
<1>Requested. Requested BY DEF IInv
<1>keys. keys \in [Procs -> SUBSET Convs] BY <1>type DEF TypeOK
<1>flock. flock \in [Convs -> Procs \cup {NoProc}] BY <1>type DEF TypeOK
<1>restoreCur. restoreCur \in [Procs -> Runs \cup {NoRun}] BY <1>type DEF TypeOK
<1>watch. watch \in [Procs -> [Runs -> {"none", "watching", "ungate"}]] BY <1>type DEF TypeOK
<1>pc. pc \in [Runs -> PCs] BY <1>type DEF TypeOK
<1>owner. owner \in [Runs -> Procs \cup {NoProc}] BY <1>type DEF TypeOK
<1>req. req \in [Runs -> Convs \cup {Fresh}] BY <1>type DEF TypeOK
<1>todo. todo \in [Runs -> SUBSET Runs] BY <1>type DEF TypeOK
<1>cur. cur \in [Runs -> Runs \cup {NoRun}] BY <1>type DEF TypeOK
<1>meta. meta \in [Runs -> {"none", "created", "recorded"}] BY <1>type DEF TypeOK
<1>named. named \in [Runs -> Convs \cup {NoConv}] BY <1>type DEF TypeOK
<1>exited. exited \in [Runs -> BOOLEAN] BY <1>type DEF TypeOK
<1>sup. sup \in [Runs -> {"none", "up", "gone"}] BY <1>type DEF TypeOK
<1>agy. agy \in [Runs -> {"none", "running", "gone"}] BY <1>type DEF TypeOK
<1>session. session \in [Runs -> Convs \cup {NoConv}] BY <1>type DEF TypeOK
<1>skipped. skipped \in [Runs -> SUBSET Runs] BY <1>type DEF TypeOK
<1>blockers. blockers \in [Runs -> SUBSET Runs] BY <1>type DEF TypeOK
<1>1. ASSUME NEW r \in Runs, NEW p \in Procs, NEW c \in Known \cup {Fresh}, Begin(r, p, c) PROVE
    IInv'
    <2>u. UNCHANGED <<mgr, inFlight, keys, flock, restoreTodo, restoreCur, watch, todo, cur,
        meta, named, exited, sup, agy, session, crashes, supCrashes, unrestored, skipped,
        unreadable>>
        BY <1>1 DEF Begin, gateVars, restoreVars, scanVars, askVars, diskVars, procVars, bounds
    <2>idle. /\ pc[r] = "idle" /\ sup[r] = "none" /\ meta[r] = "none"
             /\ agy[r] = "none" /\ session[r] = NoConv /\ named[r] = NoConv
        BY <1>1, <1>Progress, <1>Sessions, <1>sup, <1>meta, <1>agy DEF Begin, Progress, Sessions
    <2>unwatched. \A k \in Procs : watch[k][r] = "none"
        BY <1>1, <1>Progress DEF Begin, Progress
    <2>new. /\ req' = [req EXCEPT ![r] = c] /\ owner' = [owner EXCEPT ![r] = p]
            /\ pc'[r] \in {"admit", "list"} /\ (c # Fresh => pc'[r] = "list")
            /\ \A q \in Runs \ {r} : pc'[q] = pc[q]
        BY <1>1, <1>pc DEF Begin
    <2>blockers. /\ blockers'[r] =
                        {b \in Runs : LiveJob(b) /\ c # Fresh /\ (req[b] = c \/ named[b] = c)}
                 /\ \A q \in Runs \ {r} : blockers'[q] = blockers[q]
        BY <1>1, <1>blockers DEF Begin
    <2>Progress. Progress'
        BY <1>1, <2>u, <1>Progress, <1>pc, <1>owner, <1>req DEF Progress, Begin, ScanPCs,
            GatePCs, LockPCs
    <2>Sessions. Sessions'
        BY <2>u, <2>idle, <2>new, <1>Sessions, <1>req, NamesDistinct DEF Sessions
    <2>Gate. Gate'
        BY <2>u, <2>idle, <2>unwatched, <2>new, <1>Gate, <1>req, <1>owner, <1>Progress DEF Gate,
            GatePCs, Progress
    <2>Locks. Locks'
        <3>1. \A q \in Runs : pc'[q] \in LockPCs => q # r
            BY <2>new DEF LockPCs
        <3>2. \A q \in Runs : pc[q] \in LockPCs => q # r
            BY <2>idle DEF LockPCs
        <3>3. \A c1 \in Convs : flock[c1] # NoProc => flock[c1] \in Procs
            BY <1>flock
        <3> QED BY <3>1, <3>2, <3>3, <2>u, <2>unwatched, <2>new, <1>Locks, <1>req, <1>owner DEF
            Locks
    <2>Scanned. Scanned'
        <3> SUFFICES ASSUME NEW q \in Runs, NEW b \in blockers'[q] PROVE
                /\ meta'[b] = "recorded" /\ req'[q] # Fresh
                /\ req'[b] = req'[q] \/ named'[b] = req'[q]
                /\ LiveJob(b)' /\ b \notin skipped'[q] =>
                      /\ pc'[q] \in {"scan", "progress"} => b \in todo'[q]
                      /\ pc'[q] \in ScanPCs \cup {"done", "lost"}
                      /\ sup'[q] = "none"
            BY DEF Scanned
        <3>1. CASE q = r
            BY <3>1, <2>u, <2>idle, <2>new, <2>blockers, <1>req DEF LiveJob, ProcessAlive,
                ScanPCs
        <3>2. CASE q # r
            BY <3>2, <2>u, <2>idle, <2>new, <2>blockers, <1>req, <1>blockers, <1>Scanned DEF
                Scanned, LiveJob, ProcessAlive
        <3> QED BY <3>1, <3>2
    <2>Requested. Requested'
        <3> SUFFICES ASSUME NEW q \in Runs, req'[q] \in NewConvs
                     PROVE /\ \E s \in Runs : named'[s] = req'[q]
                           /\ \A s \in Runs : req'[s] = Fresh /\ session'[s] = req'[q] =>
                                 s \in blockers'[q] \/ sup'[s] # "up" \/ exited'[s]
            BY DEF Requested
        <3>1. CASE q = r
            <4>1. c \in NewConvs /\ c # Fresh /\ c # NoConv
                BY <3>1, <2>new, <1>req, NamesDistinct DEF Convs
            <4>2. PICK s \in Runs : meta[s] = "recorded" /\ named[s] = c
                BY <4>1, NamesDistinct DEF Known, OnDisk
            <4>3. \A t \in Runs : req'[t] = Fresh /\ session[t] = c => t = s
                BY <4>1, <4>2, <2>new, <2>idle, <1>req, <1>Sessions DEF Sessions
            <4> QED BY <4>1, <4>2, <4>3, <3>1, <2>u, <2>new, <2>blockers, <1>req DEF LiveJob,
                ProcessAlive
        <3>2. CASE q # r
            <4>1. req[q] \in NewConvs /\ req'[q] = req[q] /\ req[q] # NoConv
                BY <3>2, <2>new, <1>req, NamesDistinct DEF Convs
            <4> QED BY <4>1, <3>2, <2>u, <2>new, <2>idle, <2>blockers, <1>req, <1>Requested DEF
                Requested
        <3> QED BY <3>1, <3>2
    <2> QED BY <1>type, <2>Progress, <2>Sessions, <2>Gate, <2>Locks, <2>Scanned, <2>Requested
        DEF IInv
<1>2. ASSUME NEW r \in Runs, ScanList(r) PROVE IInv'
    <2>u. UNCHANGED <<mgr, inFlight, keys, flock, restoreTodo, restoreCur, watch, owner, req,
        cur, meta, named, exited, sup, agy, session, blockers, crashes, supCrashes, unrestored,
        skipped, unreadable>>
        BY <1>2 DEF ScanList, gateVars, restoreVars, scanVars, askVars, diskVars, procVars,
            bounds
    <2>Progress. Progress'
        BY <1>2, <2>u, <1>Progress, <1>pc DEF Progress, ScanList, Refuse, ScanPCs, GatePCs,
            LockPCs
    <2>Gate. Gate'
        BY <1>2, <2>u, <1>Gate, <1>pc DEF Gate, ScanList, Refuse, ScanPCs, GatePCs, LockPCs
    <2>Locks. Locks'
        BY <1>2, <2>u, <1>Locks, <1>pc DEF Locks, ScanList, Refuse, ScanPCs, GatePCs, LockPCs
    <2>Scanned. Scanned'
        <3>1. todo'[r] = OnDisk \/ pc'[r] = "done"
            BY <1>2, <1>todo, <1>pc DEF ScanList, Refuse
        <3>2. pc[r] = "list" /\ pc'[r] \in {"scan", "done"} /\ \A q \in Runs \ {r} : pc'[q] = pc[q] /\ todo'[q] = todo[q]
            BY <1>2, <1>todo, <1>pc DEF ScanList, Refuse
        <3> QED BY <3>1, <3>2, <2>u, <1>Scanned, <1>blockers DEF Scanned, OnDisk, LiveJob,
            ProcessAlive, ScanPCs
    <2>frame. Sessions' /\ Requested'
        BY <2>u, <1>Sessions, <1>Requested DEF Sessions, Requested
    <2> QED BY <1>type, <2>Progress, <2>Gate, <2>Locks, <2>Scanned, <2>frame DEF IInv
<1>3. ASSUME NEW r \in Runs, NEW j \in Runs, ScanJob(r, j) PROVE IInv'
    <2>u. UNCHANGED <<mgr, inFlight, keys, flock, restoreTodo, restoreCur, watch, owner, req,
        meta, named, exited, sup, agy, session, blockers, crashes, supCrashes, unrestored>>
        BY <1>3 DEF ScanJob, gateVars, restoreVars, scanVars, askVars, diskVars, procVars,
            bounds
    <2>Progress. Progress'
        <3>1. pc[r] = "scan" /\ pc'[r] \in {"scan", "done", "progress"} /\ \A q \in Runs \ {r} : pc'[q] = pc[q] /\ cur'[q] = cur[q]
            BY <1>3, <1>pc, <1>cur DEF ScanJob, Refuse
        <3>2. pc'[r] = "progress" => cur'[r] = j /\ meta[j] = "recorded" /\ req[j] # req[r]
            BY <1>3, <1>pc, <1>cur DEF ScanJob, Refuse, LiveJob, ProcessAlive
        <3>3. meta[j] = "recorded" => pc[j] \in {"wait", "unlock", "ungate", "done", "lost"}
            BY <1>Progress DEF Progress
        <3> QED BY <3>1, <3>2, <3>3, <2>u, <1>Progress DEF Progress, ScanPCs
    <2>Gate. Gate'
        BY <1>3, <2>u, <1>Gate, <1>pc DEF Gate, ScanJob, Refuse, ScanPCs, GatePCs, LockPCs
    <2>Locks. Locks'
        BY <1>3, <2>u, <1>Locks, <1>pc DEF Locks, ScanJob, Refuse, ScanPCs, GatePCs, LockPCs
    <2>Scanned. Scanned'
        BY <1>3, <2>u, <1>Scanned, <1>pc, <1>todo, <1>skipped DEF Scanned, ScanJob, Refuse, ScanPCs,
            GatePCs, LockPCs, ProcessAlive, LiveJob
    <2>frame. Sessions' /\ Requested'
        BY <2>u, <1>Sessions, <1>Requested DEF Sessions, Requested
    <2> QED BY <1>type, <2>Progress, <2>Gate, <2>Locks, <2>Scanned, <2>frame DEF IInv
<1>4. ASSUME NEW r \in Runs, ScanProgress(r) PROVE IInv'
    <2>u. UNCHANGED <<mgr, inFlight, keys, flock, restoreTodo, restoreCur, watch, owner, req,
        meta, named, exited, sup, agy, session, blockers, crashes, supCrashes, unrestored>>
        BY <1>4 DEF ScanProgress, gateVars, restoreVars, scanVars, askVars, diskVars, procVars,
            bounds
    <2>Progress. Progress'
        BY <1>4, <2>u, <1>Progress, <1>pc, <1>cur DEF Progress, ScanProgress, Refuse,
            ProgressNames, ScanPCs, GatePCs, LockPCs
    <2>Gate. Gate'
        BY <1>4, <2>u, <1>Gate, <1>pc DEF Gate, ScanProgress, Refuse, ProgressNames, ScanPCs,
            GatePCs, LockPCs
    <2>Locks. Locks'
        BY <1>4, <2>u, <1>Locks, <1>pc DEF Locks, ScanProgress, Refuse, ProgressNames, ScanPCs,
            GatePCs, LockPCs
    <2>Scanned. Scanned'
        <3>1. pc[r] = "progress" /\ \A q \in Runs \ {r} : pc'[q] = pc[q] /\ todo'[q] = todo[q]
            BY <1>4, <1>todo, <1>pc DEF ScanProgress, Refuse
        <3>2. \/ pc'[r] = "done"
              \/ /\ pc'[r] = "scan" /\ todo'[r] = todo[r] \ {cur[r]}
                 /\ named[cur[r]] # req[r] \/ cur[r] \in skipped'[r]
            BY <1>4, <1>todo, <1>pc, <1>skipped DEF ScanProgress, Refuse, ProgressNames
        <3>4. \A q \in Runs : skipped[q] \subseteq skipped'[q]
            BY <1>4, <1>skipped DEF ScanProgress
        <3>3. req[cur[r]] # req[r]
            BY <3>1, <1>Progress DEF Progress
        <3> QED BY <3>1, <3>2, <3>3, <3>4, <2>u, <1>Scanned, <1>blockers DEF Scanned, LiveJob,
            ProcessAlive, ScanPCs
    <2>frame. Sessions' /\ Requested'
        BY <2>u, <1>Sessions, <1>Requested DEF Sessions, Requested
    <2> QED BY <1>type, <2>Progress, <2>Gate, <2>Locks, <2>Scanned, <2>frame DEF IInv
<1>5. ASSUME NEW r \in Runs, ScanDone(r) PROVE IInv'
    <2>u. UNCHANGED <<mgr, inFlight, keys, flock, restoreTodo, restoreCur, watch, owner, req,
        todo, cur, meta, named, exited, sup, agy, session, blockers, crashes, supCrashes,
        unrestored, skipped, unreadable>>
        BY <1>5 DEF ScanDone, gateVars, restoreVars, scanVars, askVars, diskVars, procVars,
            bounds
    <2>Progress. Progress'
        BY <1>5, <2>u, <1>Progress, <1>pc DEF Progress, ScanDone, ScanPCs, GatePCs, LockPCs
    <2>Gate. Gate'
        BY <1>5, <2>u, <1>Gate, <1>pc DEF Gate, ScanDone, ScanPCs, GatePCs, LockPCs
    <2>Locks. Locks'
        BY <1>5, <2>u, <1>Locks, <1>pc DEF Locks, ScanDone, ScanPCs, GatePCs, LockPCs
    <2>Scanned. Scanned'
        BY <1>5, <2>u, <1>Scanned, <1>pc DEF Scanned, ScanDone, ScanPCs, GatePCs, LockPCs,
            ProcessAlive, LiveJob
    <2>frame. Sessions' /\ Requested'
        BY <2>u, <1>Sessions, <1>Requested DEF Sessions, Requested
    <2> QED BY <1>type, <2>Progress, <2>Gate, <2>Locks, <2>Scanned, <2>frame DEF IInv
<1>6. ASSUME NEW r \in Runs, TryAcquire(r) PROVE IInv'
    <2>u. UNCHANGED <<mgr, flock, restoreTodo, restoreCur, watch, owner, req, todo, cur, meta,
        named, exited, sup, agy, session, blockers, crashes, supCrashes, unrestored, skipped,
        unreadable>>
        BY <1>6 DEF TryAcquire, gateVars, restoreVars, scanVars, askVars, diskVars, procVars,
            bounds
    <2>Progress. Progress'
        <3>1. /\ pc[r] = "admit" /\ \A q \in Runs \ {r} : pc'[q] = pc[q]
              /\ pc'[r] \in {"done", "create", "lock"}
              /\ pc'[r] = "lock" => req[r] # Fresh
            BY <1>6, <1>pc DEF TryAcquire, Refuse
        <3> QED BY <3>1, <2>u, <1>Progress DEF Progress, ScanPCs
    <2>Gate. Gate'
        <3>1. CASE pc'[r] = "done"
            <4>1. keys' = keys /\ \A q \in Runs \ {r} : pc'[q] = pc[q]
                BY <3>1, <1>6, <1>pc DEF TryAcquire, Reserve, Refuse, gateVars
            <4> QED BY <3>1, <4>1, <2>u, <1>Gate DEF Gate, GatePCs
        <3>2. CASE pc'[r] # "done"
            <4>1. /\ pc[r] = "admit" /\ req[r] \notin keys[owner[r]]
                  /\ keys' = [keys EXCEPT ![owner[r]] = @ \cup ({req[r]} \ {Fresh})]
                  /\ \A q \in Runs \ {r} : pc'[q] = pc[q]
                BY <3>2, <1>6, <1>pc DEF TryAcquire, Reserve, Refuse, KeyBusy
            <4>2. owner[r] \in Procs
                BY <4>1, <1>Progress DEF Progress
            <4>3. /\ \A k \in Procs \ {owner[r]} : keys'[k] = keys[k]
                  /\ keys'[owner[r]] = keys[owner[r]] \cup ({req[r]} \ {Fresh})
                BY <4>1, <4>2, <1>keys
            <4> QED BY <4>1, <4>2, <4>3, <2>u, <1>Gate, <1>Progress DEF Gate, GatePCs, Progress
        <3> QED BY <3>1, <3>2
    <2>Locks. Locks'
        BY <1>6, <2>u, <1>Locks, <1>pc DEF Locks, TryAcquire, Reserve, KeyBusy, Refuse, ScanPCs,
            GatePCs, LockPCs
    <2>Scanned. Scanned'
        BY <1>6, <2>u, <1>Scanned, <1>pc DEF Scanned, TryAcquire, Reserve, KeyBusy, Refuse,
            ScanPCs, GatePCs, LockPCs, ProcessAlive, LiveJob
    <2>frame. Sessions' /\ Requested'
        BY <2>u, <1>Sessions, <1>Requested DEF Sessions, Requested
    <2> QED BY <1>type, <2>Progress, <2>Gate, <2>Locks, <2>Scanned, <2>frame DEF IInv
<1>7. ASSUME NEW r \in Runs, TryLock(r) PROVE IInv'
    <2>u. UNCHANGED <<mgr, inFlight, keys, restoreTodo, restoreCur, watch, owner, req, todo,
        cur, meta, named, exited, sup, agy, session, blockers, crashes, supCrashes, unrestored,
        skipped, unreadable>>
        BY <1>7 DEF TryLock, gateVars, restoreVars, scanVars, askVars, diskVars, procVars,
            bounds
    <2>lock. /\ pc[r] = "lock" /\ req[r] # Fresh /\ owner[r] \in Procs
             /\ \A q \in Runs \ {r} : pc'[q] = pc[q]
        BY <1>7, <1>pc, <1>Progress DEF TryLock, Progress
    <2>got. \/ /\ pc'[r] = "create" /\ flock[req[r]] = NoProc /\ flock'[req[r]] = owner[r]
               /\ \A c \in Convs \ {req[r]} : flock'[c] = flock[c]
            \/ pc'[r] = "rollback" /\ flock' = flock
        BY <1>7, <2>lock, <1>pc, <1>flock, <1>req DEF TryLock, FlockFree
    <2>Progress. Progress'
        BY <1>7, <2>u, <1>Progress, <1>pc DEF Progress, TryLock, FlockFree, ScanPCs, GatePCs,
            LockPCs
    <2>Gate. Gate'
        BY <1>7, <2>u, <1>Gate, <1>pc DEF Gate, TryLock, FlockFree, ScanPCs, GatePCs, LockPCs
    <2>Locks. Locks'
        BY <2>u, <2>lock, <2>got, <1>req, <1>Progress, <1>Locks, NamesDistinct DEF Locks,
            LockPCs, Progress
    <2>Scanned. Scanned'
        BY <1>7, <2>u, <1>Scanned, <1>pc DEF Scanned, TryLock, FlockFree, ScanPCs, GatePCs,
            LockPCs, ProcessAlive, LiveJob
    <2>frame. Sessions' /\ Requested'
        BY <2>u, <1>Sessions, <1>Requested DEF Sessions, Requested
    <2> QED BY <1>type, <2>Progress, <2>Gate, <2>Locks, <2>Scanned, <2>frame DEF IInv
<1>8. ASSUME NEW r \in Runs, Rollback(r) PROVE IInv'
    <2>u. UNCHANGED <<mgr, flock, restoreTodo, restoreCur, watch, owner, req, todo, cur, meta,
        named, exited, sup, agy, session, blockers, crashes, supCrashes, unrestored, skipped,
        unreadable>>
        BY <1>8 DEF Rollback, gateVars, restoreVars, scanVars, askVars, diskVars, procVars,
            bounds
    <2>Progress. Progress'
        BY <1>8, <2>u, <1>Progress, <1>pc DEF Progress, Rollback, GateRelease, Refuse, ScanPCs,
            GatePCs, LockPCs
    <2>Gate. Gate'
        BY <1>8, <2>u, <1>Gate, <1>pc, <1>keys DEF Gate, Rollback, GateRelease, Refuse, ScanPCs,
            GatePCs, LockPCs
    <2>Locks. Locks'
        BY <1>8, <2>u, <1>Locks, <1>pc DEF Locks, Rollback, GateRelease, Refuse, ScanPCs,
            GatePCs, LockPCs
    <2>Scanned. Scanned'
        BY <1>8, <2>u, <1>Scanned, <1>pc DEF Scanned, Rollback, GateRelease, Refuse, ScanPCs,
            GatePCs, LockPCs, ProcessAlive, LiveJob
    <2>frame. Sessions' /\ Requested'
        BY <2>u, <1>Sessions, <1>Requested DEF Sessions, Requested
    <2> QED BY <1>type, <2>Progress, <2>Gate, <2>Locks, <2>Scanned, <2>frame DEF IInv
<1>9. ASSUME NEW r \in Runs, Create(r) PROVE IInv'
    <2>u. UNCHANGED <<mgr, inFlight, keys, flock, restoreTodo, restoreCur, watch, owner, req,
        todo, cur, named, exited, sup, agy, session, blockers, crashes, supCrashes, unrestored,
        skipped, unreadable>>
        BY <1>9 DEF Create, gateVars, restoreVars, scanVars, askVars, diskVars, procVars, bounds
    <2>Progress. Progress'
        BY <1>9, <2>u, <1>Progress, <1>pc, <1>meta DEF Progress, Create, ScanPCs, GatePCs,
            LockPCs
    <2>Gate. Gate'
        BY <1>9, <2>u, <1>Gate, <1>pc DEF Gate, Create, ScanPCs, GatePCs, LockPCs
    <2>Locks. Locks'
        BY <1>9, <2>u, <1>Locks, <1>pc DEF Locks, Create, ScanPCs, GatePCs, LockPCs
    <2>Scanned. Scanned'
        <3>1. pc[r] = "create" /\ meta[r] # "recorded"
            BY <1>9, <1>Progress DEF Create, Progress
        <3>2. /\ pc'[r] \notin ScanPCs \cup {"admit"}
              /\ \A q \in Runs \ {r} : pc'[q] = pc[q] /\ meta'[q] = meta[q] /\ sup'[q] = sup[q]
            BY <1>9, <2>u, <1>pc, <1>meta, <1>sup DEF Create, ScanPCs
        <3> QED BY <3>1, <3>2, <2>u, <1>Scanned, <1>blockers DEF Scanned, LiveJob, ProcessAlive,
            ScanPCs
    <2>frame. Sessions' /\ Requested'
        BY <2>u, <1>Sessions, <1>Requested DEF Sessions, Requested
    <2> QED BY <1>type, <2>Progress, <2>Gate, <2>Locks, <2>Scanned, <2>frame DEF IInv
<1>10. ASSUME NEW r \in Runs, Spawn(r) PROVE IInv'
    <2>u. UNCHANGED <<mgr, inFlight, keys, flock, restoreTodo, restoreCur, watch, owner, req,
        todo, cur, named, exited, agy, session, blockers, crashes, supCrashes, unrestored,
        skipped, unreadable>>
        BY <1>10 DEF Spawn, gateVars, restoreVars, scanVars, askVars, diskVars, procVars, bounds
    <2>Progress. Progress'
        BY <1>10, <2>u, <1>Progress, <1>pc, <1>sup, <1>meta DEF Progress, Spawn, ScanPCs,
            GatePCs, LockPCs
    <2>Gate. Gate'
        BY <1>10, <2>u, <1>Gate, <1>pc DEF Gate, Spawn, ScanPCs, GatePCs, LockPCs
    <2>Locks. Locks'
        BY <1>10, <2>u, <1>Locks, <1>pc DEF Locks, Spawn, ScanPCs, GatePCs, LockPCs
    <2>Scanned. Scanned'
        <3>1. pc[r] = "spawn" /\ meta[r] # "recorded"
            BY <1>10, <1>Progress DEF Spawn, Progress
        <3>2. /\ pc'[r] \notin ScanPCs \cup {"admit"}
              /\ \A q \in Runs \ {r} : pc'[q] = pc[q] /\ meta'[q] = meta[q] /\ sup'[q] = sup[q]
            BY <1>10, <2>u, <1>pc, <1>meta, <1>sup DEF Spawn, ScanPCs
        <3> QED BY <3>1, <3>2, <2>u, <1>Scanned, <1>blockers DEF Scanned, LiveJob, ProcessAlive,
            ScanPCs
    <2>Requested. Requested'
        <3>1. session[r] = NoConv /\ \A q \in Runs \ {r} : sup'[q] = sup[q]
            BY <1>10, <1>Progress, <1>Sessions, <1>sup, <1>agy DEF Spawn, Progress, Sessions
        <3> QED BY <3>1, <2>u, <1>Requested, NamesDistinct DEF Requested, Convs
    <2>frame. Sessions'
        BY <2>u, <1>Sessions DEF Sessions
    <2> QED BY <1>type, <2>Progress, <2>Gate, <2>Locks, <2>Scanned, <2>Requested, <2>frame DEF
        IInv
<1>11. ASSUME NEW r \in Runs, RecordPid(r) PROVE IInv'
    <2>u. UNCHANGED <<mgr, inFlight, keys, flock, restoreTodo, restoreCur, watch, owner, req,
        todo, cur, named, exited, sup, agy, session, blockers, crashes, supCrashes, unrestored,
        skipped, unreadable>>
        BY <1>11 DEF RecordPid, gateVars, restoreVars, scanVars, askVars, diskVars, procVars,
            bounds
    <2>Progress. Progress'
        BY <1>11, <2>u, <1>Progress, <1>pc, <1>meta DEF Progress, RecordPid, ScanPCs, GatePCs,
            LockPCs
    <2>Gate. Gate'
        BY <1>11, <2>u, <1>Gate, <1>pc DEF Gate, RecordPid, ScanPCs, GatePCs, LockPCs
    <2>Locks. Locks'
        BY <1>11, <2>u, <1>Locks, <1>pc DEF Locks, RecordPid, ScanPCs, GatePCs, LockPCs
    <2>Scanned. Scanned'
        <3>1. pc[r] = "record" /\ meta[r] # "recorded"
            BY <1>11, <1>Progress DEF RecordPid, Progress
        <3>2. /\ pc'[r] \notin ScanPCs \cup {"admit"}
              /\ \A q \in Runs \ {r} : pc'[q] = pc[q] /\ meta'[q] = meta[q] /\ sup'[q] = sup[q]
            BY <1>11, <2>u, <1>pc, <1>meta, <1>sup DEF RecordPid, ScanPCs
        <3> QED BY <3>1, <3>2, <2>u, <1>Scanned, <1>blockers DEF Scanned, LiveJob, ProcessAlive,
            ScanPCs
    <2>frame. Sessions' /\ Requested'
        BY <2>u, <1>Sessions, <1>Requested DEF Sessions, Requested
    <2> QED BY <1>type, <2>Progress, <2>Gate, <2>Locks, <2>Scanned, <2>frame DEF IInv
<1>12. ASSUME NEW r \in Runs, WaitReturns(r) PROVE IInv'
    <2>u. UNCHANGED <<mgr, inFlight, keys, flock, restoreTodo, restoreCur, watch, owner, req,
        todo, cur, meta, named, exited, sup, agy, session, blockers, crashes, supCrashes,
        unrestored, skipped, unreadable>>
        BY <1>12 DEF WaitReturns, gateVars, restoreVars, scanVars, askVars, diskVars, procVars,
            bounds
    <2>Progress. Progress'
        BY <1>12, <2>u, <1>Progress, <1>pc DEF Progress, WaitReturns, ScanPCs, GatePCs, LockPCs
    <2>Gate. Gate'
        BY <1>12, <2>u, <1>Gate, <1>pc DEF Gate, WaitReturns, ScanPCs, GatePCs, LockPCs
    <2>Locks. Locks'
        BY <1>12, <2>u, <1>Locks, <1>pc DEF Locks, WaitReturns, ScanPCs, GatePCs, LockPCs
    <2>Scanned. Scanned'
        BY <1>12, <2>u, <1>Scanned, <1>pc DEF Scanned, WaitReturns, ScanPCs, GatePCs, LockPCs,
            ProcessAlive, LiveJob
    <2>frame. Sessions' /\ Requested'
        BY <2>u, <1>Sessions, <1>Requested DEF Sessions, Requested
    <2> QED BY <1>type, <2>Progress, <2>Gate, <2>Locks, <2>Scanned, <2>frame DEF IInv
<1>13. ASSUME NEW r \in Runs, AbortReaped(r) PROVE IInv'
    <2>u. UNCHANGED <<mgr, inFlight, keys, flock, restoreTodo, restoreCur, watch, owner, req,
        todo, cur, named, exited, sup, agy, session, blockers, crashes, supCrashes, unrestored,
        skipped, unreadable>>
        BY <1>13 DEF AbortReaped, gateVars, restoreVars, scanVars, askVars, diskVars, procVars,
            bounds
    <2>Progress. Progress'
        BY <1>13, <2>u, <1>Progress, <1>pc, <1>meta DEF Progress, AbortReaped, ScanPCs, GatePCs,
            LockPCs
    <2>Gate. Gate'
        BY <1>13, <2>u, <1>Gate, <1>pc DEF Gate, AbortReaped, ScanPCs, GatePCs, LockPCs
    <2>Locks. Locks'
        BY <1>13, <2>u, <1>Locks, <1>pc DEF Locks, AbortReaped, ScanPCs, GatePCs, LockPCs
    <2>Scanned. Scanned'
        <3>1. pc[r] = "abort" /\ meta[r] # "recorded"
            BY <1>13, <1>Progress DEF AbortReaped, Progress
        <3>2. /\ pc'[r] \notin ScanPCs \cup {"admit"}
              /\ \A q \in Runs \ {r} : pc'[q] = pc[q] /\ meta'[q] = meta[q] /\ sup'[q] = sup[q]
            BY <1>13, <2>u, <1>pc, <1>meta, <1>sup DEF AbortReaped, ScanPCs
        <3> QED BY <3>1, <3>2, <2>u, <1>Scanned, <1>blockers DEF Scanned, LiveJob, ProcessAlive,
            ScanPCs
    <2>frame. Sessions' /\ Requested'
        BY <2>u, <1>Sessions, <1>Requested DEF Sessions, Requested
    <2> QED BY <1>type, <2>Progress, <2>Gate, <2>Locks, <2>Scanned, <2>frame DEF IInv
<1>14. ASSUME NEW r \in Runs, Unlock(r) PROVE IInv'
    <2>u. UNCHANGED <<mgr, inFlight, keys, restoreTodo, restoreCur, watch, owner, req, todo,
        cur, meta, named, exited, sup, agy, session, blockers, crashes, supCrashes, unrestored,
        skipped, unreadable>>
        BY <1>14 DEF Unlock, gateVars, restoreVars, scanVars, askVars, diskVars, procVars,
            bounds
    <2>unlock. /\ pc[r] = "unlock" /\ pc'[r] = "ungate"
               /\ \A q \in Runs \ {r} : pc'[q] = pc[q]
        BY <1>14, <1>pc DEF Unlock
    <2>free. \A c \in Convs : flock'[c] = IF c = req[r] /\ flock[c] = owner[r] THEN NoProc ELSE flock[c]
        BY <1>14 DEF Unlock, UnlockedBy
    <2>Progress. Progress'
        BY <1>14, <2>u, <1>Progress, <1>pc DEF Progress, Unlock, UnlockedBy, ScanPCs, GatePCs,
            LockPCs
    <2>Gate. Gate'
        BY <1>14, <2>u, <1>Gate, <1>pc DEF Gate, Unlock, UnlockedBy, ScanPCs, GatePCs, LockPCs
    <2>Locks. Locks'
        BY <2>u, <2>unlock, <2>free, <1>req, <1>Gate, <1>Locks DEF Locks, Gate, LockPCs, GatePCs
    <2>Scanned. Scanned'
        BY <1>14, <2>u, <1>Scanned, <1>pc DEF Scanned, Unlock, UnlockedBy, ScanPCs, GatePCs,
            LockPCs, ProcessAlive, LiveJob
    <2>frame. Sessions' /\ Requested'
        BY <2>u, <1>Sessions, <1>Requested DEF Sessions, Requested
    <2> QED BY <1>type, <2>Progress, <2>Gate, <2>Locks, <2>Scanned, <2>frame DEF IInv
<1>15. ASSUME NEW r \in Runs, Ungate(r) PROVE IInv'
    <2>u. UNCHANGED <<mgr, flock, restoreTodo, restoreCur, watch, owner, req, todo, cur, meta,
        named, exited, sup, agy, session, blockers, crashes, supCrashes, unrestored, skipped,
        unreadable>>
        BY <1>15 DEF Ungate, gateVars, restoreVars, scanVars, askVars, diskVars, procVars,
            bounds
    <2>Progress. Progress'
        BY <1>15, <2>u, <1>Progress, <1>pc DEF Progress, Ungate, GateRelease, ScanPCs, GatePCs,
            LockPCs
    <2>Gate. Gate'
        BY <1>15, <2>u, <1>Gate, <1>pc, <1>keys DEF Gate, Ungate, GateRelease, ScanPCs, GatePCs,
            LockPCs
    <2>Locks. Locks'
        BY <1>15, <2>u, <1>Locks, <1>pc DEF Locks, Ungate, GateRelease, ScanPCs, GatePCs,
            LockPCs
    <2>Scanned. Scanned'
        BY <1>15, <2>u, <1>Scanned, <1>pc DEF Scanned, Ungate, GateRelease, ScanPCs, GatePCs,
            LockPCs, ProcessAlive, LiveJob
    <2>frame. Sessions' /\ Requested'
        BY <2>u, <1>Sessions, <1>Requested DEF Sessions, Requested
    <2> QED BY <1>type, <2>Progress, <2>Gate, <2>Locks, <2>Scanned, <2>frame DEF IInv
<1>16. ASSUME NEW r \in Runs, StartAgy(r) PROVE IInv'
    <2>u. UNCHANGED <<mgr, inFlight, keys, flock, restoreTodo, restoreCur, watch, pc, owner,
        req, todo, cur, meta, named, exited, sup, blockers, crashes, supCrashes, unrestored,
        skipped, unreadable>>
        BY <1>16 DEF StartAgy, gateVars, restoreVars, scanVars, askVars, diskVars, procVars,
            bounds
    <2>Progress. Progress'
        BY <1>16, <2>u, <1>Progress, <1>agy DEF Progress, StartAgy, ScanPCs, GatePCs, LockPCs
    <2>Sessions. Sessions'
        BY <1>16, <2>u, <1>Sessions, <1>agy, <1>session DEF Sessions, StartAgy
    <2>Requested. Requested'
        <3>1. /\ req[r] = Fresh => session'[r] = NoConv
              /\ \A q \in Runs \ {r} : session'[q] = session[q]
            BY <1>16, <1>session, <1>Sessions DEF StartAgy, Sessions
        <3> QED BY <3>1, <2>u, <1>Requested, NamesDistinct DEF Requested, Convs
    <2>frame. Gate' /\ Locks' /\ Scanned'
        BY <2>u, <1>Gate, <1>Locks, <1>Scanned DEF Gate, Locks, Scanned, ProcessAlive, LiveJob
    <2> QED BY <1>type, <2>Progress, <2>Sessions, <2>Requested, <2>frame DEF IInv
<1>17. ASSUME NEW r \in Runs, NEW c \in NewConvs, NameSession(r, c) PROVE IInv'
    <2>u. UNCHANGED <<mgr, inFlight, keys, flock, restoreTodo, restoreCur, watch, pc, owner,
        req, todo, cur, meta, named, exited, sup, agy, blockers, crashes, supCrashes,
        unrestored, skipped, unreadable>>
        BY <1>17 DEF NameSession, gateVars, restoreVars, scanVars, askVars, diskVars, procVars,
            bounds
    <2>new. /\ req[r] = Fresh /\ agy[r] = "running" /\ session[r] = NoConv
            /\ session'[r] = c /\ \A q \in Runs \ {r} : session'[q] = session[q]
        BY <1>17, <1>session, <1>req, <1>Sessions, NamesDistinct DEF NameSession, Sessions
    <2>unused. c \in NewConvs /\ c # NoConv /\ \A q \in Runs : session[q] # c /\ named[q] # c
        BY <1>17, <1>Sessions, NamesDistinct DEF NameSession, Sessions, Convs
    <2>Sessions. Sessions'
        BY <2>u, <2>new, <2>unused, <1>Sessions DEF Sessions
    <2>Requested. Requested'
        BY <2>u, <2>new, <2>unused, <1>Requested DEF Requested
    <2>frame. Progress' /\ Gate' /\ Locks' /\ Scanned'
        BY <2>u, <1>Progress, <1>Gate, <1>Locks, <1>Scanned DEF Progress, Gate, Locks, Scanned,
            ProcessAlive, LiveJob
    <2> QED BY <1>type, <2>Sessions, <2>Requested, <2>frame DEF IInv
<1>18. ASSUME NEW r \in Runs, RecordName(r) PROVE IInv'
    <2>u. UNCHANGED <<mgr, inFlight, keys, flock, restoreTodo, restoreCur, watch, pc, owner,
        req, todo, cur, meta, exited, sup, agy, session, blockers, crashes, supCrashes,
        unrestored, skipped, unreadable>>
        BY <1>18 DEF RecordName, gateVars, restoreVars, scanVars, askVars, diskVars, procVars,
            bounds
    <2>new. /\ req[r] = Fresh /\ named[r] = NoConv
            /\ \A q \in Runs \ {r} : named'[q] = named[q]
        BY <1>18, <1>named DEF RecordName
    <2>req. \A q \in Runs : req[q] # NoConv
        BY <1>req, NamesDistinct
    <2>Sessions. Sessions'
        BY <1>18, <2>u, <1>Sessions, <1>named DEF Sessions, RecordName
    <2>Scanned. Scanned'
        BY <2>u, <2>new, <2>req, <1>blockers, <1>Scanned DEF Scanned, LiveJob, ProcessAlive
    <2>Requested. Requested'
        BY <2>u, <2>new, <2>req, <1>Requested DEF Requested
    <2>frame. Progress' /\ Gate' /\ Locks'
        BY <2>u, <1>Progress, <1>Gate, <1>Locks DEF Progress, Gate, Locks
    <2> QED BY <1>type, <2>Sessions, <2>Scanned, <2>Requested, <2>frame DEF IInv
<1>19. ASSUME NEW r \in Runs, AgyExit(r) PROVE IInv'
    <2>u. UNCHANGED <<mgr, inFlight, keys, flock, restoreTodo, restoreCur, watch, pc, owner,
        req, todo, cur, meta, named, exited, sup, session, blockers, crashes, supCrashes,
        unrestored, skipped, unreadable>>
        BY <1>19 DEF AgyExit, gateVars, restoreVars, scanVars, askVars, diskVars, procVars,
            bounds
    <2>Progress. Progress'
        BY <1>19, <2>u, <1>Progress, <1>agy DEF Progress, AgyExit, ScanPCs, GatePCs, LockPCs
    <2>Sessions. Sessions'
        BY <1>19, <2>u, <1>Sessions, <1>agy DEF Sessions, AgyExit
    <2>frame. Gate' /\ Locks' /\ Scanned' /\ Requested'
        BY <2>u, <1>Gate, <1>Locks, <1>Scanned, <1>Requested DEF Gate, Locks, Scanned,
            Requested, ProcessAlive, LiveJob
    <2> QED BY <1>type, <2>Progress, <2>Sessions, <2>frame DEF IInv
<1>20. ASSUME NEW r \in Runs, WriteExit(r) PROVE IInv'
    <2>u. UNCHANGED <<mgr, inFlight, keys, flock, restoreTodo, restoreCur, watch, pc, owner,
        req, todo, cur, meta, named, sup, agy, session, blockers, crashes, supCrashes,
        unrestored, skipped, unreadable>>
        BY <1>20 DEF WriteExit, gateVars, restoreVars, scanVars, askVars, diskVars, procVars,
            bounds
    <2>Progress. Progress'
        BY <1>20, <2>u, <1>Progress, <1>exited DEF Progress, WriteExit, ScanPCs, GatePCs,
            LockPCs
    <2>Scanned. Scanned'
        BY <1>20, <2>u, <1>Scanned, <1>exited DEF Scanned, WriteExit, ScanPCs, GatePCs, LockPCs,
            ProcessAlive, LiveJob
    <2>Requested. Requested'
        BY <1>20, <2>u, <1>Requested, <1>exited DEF Requested, WriteExit
    <2>frame. Sessions' /\ Gate' /\ Locks'
        BY <2>u, <1>Sessions, <1>Gate, <1>Locks DEF Sessions, Gate, Locks
    <2> QED BY <1>type, <2>Progress, <2>Scanned, <2>Requested, <2>frame DEF IInv
<1>21. ASSUME NEW r \in Runs, SupervisorExit(r) PROVE IInv'
    <2>u. UNCHANGED <<mgr, inFlight, keys, flock, restoreTodo, restoreCur, watch, pc, owner,
        req, todo, cur, meta, named, exited, agy, session, blockers, crashes, supCrashes,
        unrestored, skipped, unreadable>>
        BY <1>21 DEF SupervisorExit, gateVars, restoreVars, scanVars, askVars, diskVars,
            procVars, bounds
    <2>Progress. Progress'
        BY <1>21, <2>u, <1>Progress, <1>sup DEF Progress, SupervisorExit, ScanPCs, GatePCs,
            LockPCs
    <2>Scanned. Scanned'
        BY <1>21, <2>u, <1>Scanned, <1>sup DEF Scanned, SupervisorExit, ScanPCs, GatePCs,
            LockPCs, ProcessAlive, LiveJob
    <2>Requested. Requested'
        BY <1>21, <2>u, <1>Requested, <1>sup DEF Requested, SupervisorExit
    <2>frame. Sessions' /\ Gate' /\ Locks'
        BY <2>u, <1>Sessions, <1>Gate, <1>Locks DEF Sessions, Gate, Locks
    <2> QED BY <1>type, <2>Progress, <2>Scanned, <2>Requested, <2>frame DEF IInv
<1>22. ASSUME NEW r \in Runs, SupervisorCrash(r) PROVE IInv'
    <2>u. UNCHANGED <<mgr, inFlight, keys, flock, restoreTodo, restoreCur, watch, pc, owner,
        req, todo, cur, meta, named, exited, agy, session, blockers, crashes, unrestored,
        skipped, unreadable>>
        BY <1>22 DEF SupervisorCrash, gateVars, restoreVars, scanVars, askVars, diskVars,
            procVars, bounds
    <2>Progress. Progress'
        BY <1>22, <2>u, <1>Progress, <1>sup DEF Progress, SupervisorCrash, ScanPCs, GatePCs,
            LockPCs
    <2>Scanned. Scanned'
        BY <1>22, <2>u, <1>Scanned, <1>sup DEF Scanned, SupervisorCrash, ScanPCs, GatePCs,
            LockPCs, ProcessAlive, LiveJob
    <2>Requested. Requested'
        BY <1>22, <2>u, <1>Requested, <1>sup DEF Requested, SupervisorCrash
    <2>frame. Sessions' /\ Gate' /\ Locks'
        BY <2>u, <1>Sessions, <1>Gate, <1>Locks DEF Sessions, Gate, Locks
    <2> QED BY <1>type, <2>Progress, <2>Scanned, <2>Requested, <2>frame DEF IInv
<1>23. ASSUME NEW p \in Procs, Start(p) PROVE IInv'
    <2>u. UNCHANGED <<inFlight, keys, flock, restoreCur, watch, pc, owner, req, todo, cur, meta,
        named, exited, sup, agy, session, blockers, crashes, supCrashes, unrestored, skipped,
        unreadable>>
        BY <1>23 DEF Start, gateVars, restoreVars, scanVars, askVars, diskVars, procVars, bounds
    <2>frame. Progress' /\ Sessions' /\ Gate' /\ Locks' /\ Scanned' /\ Requested'
        BY <2>u, <1>Progress, <1>Sessions, <1>Gate, <1>Locks, <1>Scanned, <1>Requested DEF
            Progress, Sessions, Gate, Locks, Scanned, Requested, ProcessAlive, LiveJob
    <2> QED BY <1>type, <2>frame DEF IInv
<1>24. ASSUME NEW p \in Procs, NEW r \in Runs, RestoreCheck(p, r) PROVE IInv'
    <2>u. UNCHANGED <<mgr, inFlight, keys, flock, watch, pc, owner, req, todo, cur, meta, named,
        exited, sup, agy, session, blockers, crashes, supCrashes, skipped>>
        BY <1>24 DEF RestoreCheck, gateVars, restoreVars, scanVars, askVars, diskVars, procVars,
            bounds
    <2>Progress. Progress'
        <3>1. meta[r] = "recorded" => pc[r] # "idle"
            BY <1>Progress DEF Progress
        <3> QED BY <3>1, <1>24, <2>u, <1>Progress, <1>restoreCur, NamesDistinct
            DEF Progress, RestoreCheck, LiveJob, ProcessAlive
    <2>frame. Sessions' /\ Gate' /\ Locks' /\ Scanned' /\ Requested'
        BY <2>u, <1>Sessions, <1>Gate, <1>Locks, <1>Scanned, <1>Requested DEF Sessions, Gate,
            Locks, Scanned, Requested, ProcessAlive, LiveJob
    <2> QED BY <1>type, <2>Progress, <2>frame DEF IInv
<1>25. ASSUME NEW p \in Procs, ForceAdmit(p) PROVE IInv'
    <2>u. UNCHANGED <<mgr, restoreTodo, pc, owner, req, todo, cur, meta, named, exited, sup,
        agy, session, blockers, crashes, supCrashes, unrestored, skipped, unreadable>>
        BY <1>25 DEF ForceAdmit, gateVars, restoreVars, scanVars, askVars, diskVars, procVars,
            bounds
    <2> DEFINE r == restoreCur[p]
    <2>r. r \in Runs
        BY <1>25, <1>restoreCur DEF ForceAdmit
    <2>norun. restoreCur'[p] = NoRun /\ \A k \in Procs \ {p} : restoreCur'[k] = restoreCur[k]
        BY <1>25, <1>restoreCur DEF ForceAdmit
    <2>busy. CASE req[r] \in keys[p]
        <3>1. UNCHANGED <<keys, watch, flock>>
            BY <1>25, <2>busy DEF ForceAdmit, KeyBusy, gateVars
        <3>2. Progress'
            BY <3>1, <2>u, <2>norun, <1>Progress, NamesDistinct DEF Progress
        <3>3. Sessions' /\ Gate' /\ Locks' /\ Scanned' /\ Requested'
            BY <3>1, <2>u, <1>Sessions, <1>Gate, <1>Locks, <1>Scanned, <1>Requested
            DEF Sessions, Gate, Locks, Scanned, Requested, LiveJob, ProcessAlive
        <3> QED BY <1>type, <3>2, <3>3 DEF IInv
    <2>free. CASE req[r] \notin keys[p]
        <3>watch. /\ watch'[p][r] = "watching"
                  /\ \A k \in Procs, q \in Runs : k # p \/ q # r => watch'[k][q] = watch[k][q]
            BY <1>25, <2>r, <2>free, <1>watch DEF ForceAdmit, KeyBusy
        <3>keys. /\ keys'[p] = keys[p] \cup ({req[r]} \ {Fresh})
                 /\ \A k \in Procs \ {p} : keys'[k] = keys[k]
            BY <1>25, <2>free, <1>keys DEF ForceAdmit, KeyBusy, Reserve
        <3>flock. \/ /\ req[r] # Fresh /\ flock[req[r]] = NoProc /\ flock'[req[r]] = p
                     /\ \A c \in Convs \ {req[r]} : flock'[c] = flock[c]
                  \/ flock' = flock
            BY <1>25, <2>r, <2>free, <1>flock, <1>req DEF ForceAdmit, KeyBusy, FlockFree
        <3>Progress. Progress'
            BY <3>watch, <2>norun, <2>u, <1>Progress, NamesDistinct DEF Progress
        <3>Gate. Gate'
            BY <3>watch, <3>keys, <2>u, <2>r, <2>free, <1>Gate, <1>Progress DEF Gate, GatePCs,
                Progress
        <3>Locks. Locks'
            BY <3>watch, <3>flock, <2>u, <2>r, <2>free, <1>req, <1>flock, <1>Progress, <1>Gate,
                <1>Locks, NamesDistinct
            DEF Locks, LockPCs, Progress, Gate
        <3>frame. Sessions' /\ Scanned' /\ Requested'
            BY <2>u, <1>Sessions, <1>Scanned, <1>Requested DEF Sessions, Scanned, Requested,
                ProcessAlive, LiveJob
        <3> QED BY <1>type, <3>Progress, <3>Gate, <3>Locks, <3>frame DEF IInv
    <2> QED BY <2>busy, <2>free
<1>26. ASSUME NEW p \in Procs, Serve(p) PROVE IInv'
    <2>u. UNCHANGED <<inFlight, keys, flock, restoreTodo, restoreCur, watch, pc, owner, req,
        todo, cur, meta, named, exited, sup, agy, session, blockers, crashes, supCrashes,
        unrestored, skipped, unreadable>>
        BY <1>26 DEF Serve, gateVars, restoreVars, scanVars, askVars, diskVars, procVars, bounds
    <2>frame. Progress' /\ Sessions' /\ Gate' /\ Locks' /\ Scanned' /\ Requested'
        BY <2>u, <1>Progress, <1>Sessions, <1>Gate, <1>Locks, <1>Scanned, <1>Requested DEF
            Progress, Sessions, Gate, Locks, Scanned, Requested, ProcessAlive, LiveJob
    <2> QED BY <1>type, <2>frame DEF IInv
<1>27. ASSUME NEW p \in Procs, Crash(p) PROVE IInv'
    <2>u. UNCHANGED <<owner, req, meta, named, exited, sup, agy, session, blockers, supCrashes,
        skipped, unreadable>>
        BY <1>27 DEF Crash, gateVars, restoreVars, scanVars, askVars, diskVars, procVars, bounds
    <2>Progress. Progress'
        <3>1. \A q \in Runs : pc'[q] = IF owner[q] = p /\ pc[q] # "done" THEN "lost" ELSE pc[q]
            BY <1>27 DEF Crash
        <3>2. \A q \in Runs : cur'[q] = IF owner[q] = p THEN NoRun ELSE cur[q]
            BY <1>27 DEF Crash
        <3>3. /\ watch'[p] = [q \in Runs |-> "none"] /\ restoreCur'[p] = NoRun
              /\ \A k \in Procs \ {p} : watch'[k] = watch[k] /\ restoreCur'[k] = restoreCur[k]
            BY <1>27, <1>watch, <1>restoreCur DEF Crash
        <3>4. \A q \in Runs : pc[q] # "idle" => pc'[q] # "idle"
            BY <3>1
        <3> QED BY <3>1, <3>2, <3>3, <3>4, <2>u, <1>Progress, NamesDistinct DEF Progress,
            ScanPCs
    <2>Gate. Gate'
        BY <1>27, <2>u, <1>Gate, <1>pc, <1>keys, <1>watch DEF Gate, Crash, ScanPCs, GatePCs,
            LockPCs
    <2>Locks. Locks'
        <3>1. \A c \in Convs : flock'[c] = IF flock[c] = p THEN NoProc ELSE flock[c]
            BY <1>27 DEF Crash
        <3>2. \A q \in Runs : pc'[q] = IF owner[q] = p /\ pc[q] # "done" THEN "lost" ELSE pc[q]
            BY <1>27 DEF Crash
        <3>3. \A k \in Procs \ {p} : watch'[k] = watch[k]
            BY <1>27, <1>watch DEF Crash
        <3> QED BY <3>1, <3>2, <3>3, <2>u, <1>req, <1>flock, <1>Locks DEF Locks, LockPCs
    <2>Scanned. Scanned'
        BY <1>27, <2>u, <1>Scanned, <1>pc, <1>todo DEF Scanned, Crash, ScanPCs, GatePCs,
            LockPCs, ProcessAlive, LiveJob
    <2>frame. Sessions' /\ Requested'
        BY <2>u, <1>Sessions, <1>Requested DEF Sessions, Requested
    <2> QED BY <1>type, <2>Progress, <2>Gate, <2>Locks, <2>Scanned, <2>frame DEF IInv
<1>28. ASSUME NEW p \in Procs, NEW r \in Runs, WatchDead(p, r) PROVE IInv'
    <2>u. UNCHANGED <<mgr, inFlight, keys, restoreTodo, restoreCur, pc, owner, req, todo, cur,
        meta, named, exited, sup, agy, session, blockers, crashes, supCrashes, unrestored,
        skipped, unreadable>>
        BY <1>28 DEF WatchDead, gateVars, restoreVars, scanVars, askVars, diskVars, procVars,
            bounds
    <2>Progress. Progress'
        BY <1>28, <2>u, <1>Progress, <1>watch DEF Progress, WatchDead, UnlockedBy, ScanPCs,
            GatePCs, LockPCs
    <2>Gate. Gate'
        BY <1>28, <2>u, <1>Gate, <1>watch DEF Gate, WatchDead, UnlockedBy, ScanPCs, GatePCs,
            LockPCs
    <2>Locks. Locks'
        <3>1. \A c \in Convs : flock'[c] = IF c = req[r] /\ flock[c] = p THEN NoProc ELSE flock[c]
            BY <1>28 DEF WatchDead, UnlockedBy
        <3>2. /\ watch[p][r] = "watching"
              /\ \A k \in Procs, q \in Runs : k # p \/ q # r => watch'[k][q] = watch[k][q]
            BY <1>28, <1>watch DEF WatchDead
        <3> QED BY <3>1, <3>2, <2>u, <1>req, <1>flock, <1>Gate, <1>Locks DEF Locks, Gate,
            LockPCs, GatePCs
    <2>frame. Sessions' /\ Scanned' /\ Requested'
        BY <2>u, <1>Sessions, <1>Scanned, <1>Requested DEF Sessions, Scanned, Requested,
            ProcessAlive, LiveJob
    <2> QED BY <1>type, <2>Progress, <2>Gate, <2>Locks, <2>frame DEF IInv
<1>29. ASSUME NEW p \in Procs, NEW r \in Runs, WatchUngate(p, r) PROVE IInv'
    <2>u. UNCHANGED <<mgr, flock, restoreTodo, restoreCur, pc, owner, req, todo, cur, meta,
        named, exited, sup, agy, session, blockers, crashes, supCrashes, unrestored, skipped,
        unreadable>>
        BY <1>29 DEF WatchUngate, gateVars, restoreVars, scanVars, askVars, diskVars, procVars,
            bounds
    <2>Progress. Progress'
        BY <1>29, <2>u, <1>Progress, <1>watch DEF Progress, WatchUngate, GateRelease, ScanPCs,
            GatePCs, LockPCs
    <2>Gate. Gate'
        BY <1>29, <2>u, <1>Gate, <1>keys, <1>watch DEF Gate, WatchUngate, GateRelease, ScanPCs,
            GatePCs, LockPCs
    <2>Locks. Locks'
        BY <1>29, <2>u, <1>Locks, <1>watch DEF Locks, WatchUngate, GateRelease, ScanPCs,
            GatePCs, LockPCs
    <2>frame. Sessions' /\ Scanned' /\ Requested'
        BY <2>u, <1>Sessions, <1>Scanned, <1>Requested DEF Sessions, Scanned, Requested,
            ProcessAlive, LiveJob
    <2> QED BY <1>type, <2>Progress, <2>Gate, <2>Locks, <2>frame DEF IInv
<1>30. CASE UNCHANGED vars
    <2>u. UNCHANGED <<mgr, inFlight, keys, flock, restoreTodo, restoreCur, watch, pc, owner,
        req, todo, cur, meta, named, exited, sup, agy, session, blockers, crashes, supCrashes,
        unrestored, skipped, unreadable>>
        BY <1>30 DEF vars, gateVars, restoreVars, scanVars, askVars, diskVars, procVars, bounds
    <2> QED BY <2>u, <1>type, <1>Progress, <1>Sessions, <1>Gate, <1>Locks, <1>Scanned,
        <1>Requested DEF IInv, Progress, Sessions, Gate, Locks, Scanned, Requested,
        ProcessAlive, LiveJob
<1> QED BY <1>1, <1>2, <1>3, <1>4, <1>5, <1>6, <1>7, <1>8, <1>9, <1>10, <1>11, <1>12, <1>13,
    <1>14, <1>15, <1>16, <1>17, <1>18, <1>19, <1>20, <1>21, <1>22, <1>23, <1>24, <1>25, <1>26,
    <1>27, <1>28, <1>29, <1>30
    DEF Next, ManagerStep, SupervisorStep, RestoreStep, WatchStep

\* It holds at first, and so always.
LEMMA InvInit == Init => IInv
<1> SUFFICES ASSUME Init PROVE IInv
    OBVIOUS
<1>type. TypeOK BY TypeInit
<1>1. Progress BY NamesDistinct DEF Init, Progress, ScanPCs
<1>2. Sessions BY DEF Init, Sessions
<1>3. Gate BY DEF Init, Gate, GatePCs
<1>4. Locks BY DEF Init, Locks, LockPCs
<1>5. Scanned BY DEF Init, Scanned
<1>6. Requested BY NamesDistinct DEF Init, Requested, Convs
<1> QED BY <1>type, <1>1, <1>2, <1>3, <1>4, <1>5, <1>6 DEF IInv

\* Every reachable state satisfies the invariant.
LEMMA Invariance == Spec => []IInv
BY InvInit, InvNext, PTL DEF Spec

-----------------------------------------------------------------------------
(* What the invariant implies.                                             *)

\* A blocker that is still live has kept the run from its supervisor.
LEMMA InvScan == IInv => ScanBlocksLiveJobs
<1> SUFFICES ASSUME IInv, NEW r \in Runs, NEW b \in blockers[r] \ skipped[r],
                    agy[r] = "running", agy[b] = "running", sup[b] = "up"
             PROVE FALSE
    BY DEF ScanBlocksLiveJobs
<1>1. b \in Runs BY DEF IInv, TypeOK
<1>2. sup[r] # "none" /\ ~exited[b] BY <1>1 DEF IInv, Progress
<1>3. LiveJob(b) BY <1>1, <1>2 DEF IInv, Scanned, LiveJob, ProcessAlive
<1> QED BY <1>2, <1>3 DEF IInv, Scanned

\* Who holds a flock also holds, or held before it, the key in its gate.
LEMMA InvBusy == IInv => NoSelfInflictedBusy
<1> SUFFICES ASSUME IInv, NEW r \in Runs, pc[r] = "lock", flock[req[r]] = owner[r]
             PROVE FALSE
    BY DEF NoSelfInflictedBusy
<1>1. req[r] \in Convs /\ req[r] # Fresh /\ owner[r] \in Procs /\ owner[r] # NoProc
    BY NamesDistinct DEF IInv, TypeOK, Progress
<1>2. pc[r] \in GatePCs /\ pc[r] \notin LockPCs BY DEF GatePCs, LockPCs
<1>3. CASE \E q \in Runs : pc[q] \in LockPCs /\ req[q] = req[r] /\ owner[q] = owner[r]
    <2>1. PICK q \in Runs : pc[q] \in LockPCs /\ req[q] = req[r] /\ owner[q] = owner[r]
        BY <1>3
    <2>2. pc[q] \in GatePCs BY <2>1 DEF GatePCs, LockPCs
    <2> QED BY <1>1, <1>2, <2>1, <2>2 DEF IInv, Gate
<1>4. CASE \E q \in Runs : watch[owner[r]][q] = "watching" /\ req[q] = req[r]
    BY <1>1, <1>2, <1>4 DEF IInv, Gate
<1> QED BY <1>1, <1>3, <1>4 DEF IInv, Locks

\* A run that drives a conversation still holds what it was admitted with.
LEMMA DrivesLocked ==
    ASSUME IInv, NEW r \in Runs, NEW c \in Convs, Drives(r, c)
    PROVE /\ pc[r] \in LockPCs /\ pc[r] \in GatePCs
          /\ c # NoConv /\ session[r] = c /\ agy[r] = "running"
          /\ req[r] = c \/ req[r] = Fresh
BY NamesDistinct DEF IInv, Progress, Sessions, Drives, LockPCs, GatePCs

\* A fresh run and a continuation of what it became run together only if the
\* scan could not read the fresh run: the caller learned the name from the fresh
\* run's progress, so the scan, or the end of the fresh run, came before the
\* continuation's agy.
LEMMA FreshVsContinued ==
    ASSUME IInv, NEW r \in Runs, NEW q \in Runs, NEW c \in Convs,
           Drives(r, c), Drives(q, c), req[r] = Fresh, req[q] = c
    PROVE SkippedFresh(q, r)
<1>1. c \in NewConvs /\ sup[r] = "up" /\ agy[r] = "running" /\ agy[q] = "running"
    BY DrivesLocked DEF IInv, Sessions, Drives
<1>2. ~exited[r] BY <1>1 DEF IInv, Progress
<1>3. r \in blockers[q] BY <1>1, <1>2, DrivesLocked DEF IInv, Requested
<1>4. ScanBlocksLiveJobs BY InvScan
<1> QED BY <1>1, <1>3, <1>4 DEF ScanBlocksLiveJobs, SkippedFresh

\* Two continuations meet at the flock, two fresh runs get two names, and a
\* fresh run and a continuation are kept apart by the scan if it can read.
LEMMA InvExclusion == IInv => ConversationExclusion
<1> SUFFICES ASSUME IInv, NEW r \in Runs, NEW q \in Runs, NEW c \in Convs,
                    Drives(r, c), Drives(q, c)
             PROVE r = q \/ SkippedFresh(r, q) \/ SkippedFresh(q, r)
    BY DEF ConversationExclusion
<1>fresh. c # Fresh BY NamesDistinct
<1>1. CASE req[r] = c /\ req[q] = c
    <2>1. flock[c] = owner[r] /\ flock[c] = owner[q]
        BY <1>1, <1>fresh, DrivesLocked DEF IInv, Locks
    <2> QED BY <1>1, <1>fresh, <2>1, DrivesLocked, ZenonT(40) DEF IInv, Gate
<1>2. CASE req[r] = Fresh /\ req[q] = Fresh
    BY <1>2, DrivesLocked DEF IInv, Sessions
<1>3. CASE req[r] = Fresh /\ req[q] = c
    BY <1>3, FreshVsContinued
<1>4. CASE req[r] = c /\ req[q] = Fresh
    BY <1>4, FreshVsContinued
<1> QED BY <1>1, <1>2, <1>3, <1>4, DrivesLocked

-----------------------------------------------------------------------------
(***************************************************************************)
(* Counting.  A second invariant, on top of the first: the manager's own   *)
(* goroutines run only while it serves (Serving); a slot for every holder  *)
(* and every watched job, a key only of one of them (Counted, Reserved);   *)
(* what RestoreAndCollect has left to look at, has taken up and watches    *)
(* (Restoring); no holder past the cap, which only restoration may pass    *)
(* (Within); and where a recorded job of a crashed process is, until the   *)
(* process that restarted serves, or that its meta.json was unreadable     *)
(* (Restored).                                                             *)
(***************************************************************************)
Serving ==
    \A r \in Runs : pc[r] \notin {"idle", "done", "lost"} => mgr[owner[r]] = "serving"

Counted ==
    \A p \in Procs : inFlight[p] = Cardinality(SlotHolders(p)) + Cardinality(Watched(p))

Reserved ==
    \A p \in Procs : \A c \in keys[p] :
        \E r \in SlotHolders(p) \cup Watched(p) : req[r] = c

Restoring ==
    \A p \in Procs, r \in Runs :
        /\ mgr[p] = "down" => watch[p][r] = "none"
        /\ r \in restoreTodo[p] \/ restoreCur[p] = r => mgr[p] = "restoring"
        /\ watch[p][r] # "none" => r \notin restoreTodo[p] /\ r # restoreCur[p]
        /\ restoreCur[p] = r => r \notin restoreTodo[p]
        /\ watch[p][r] # "none" \/ restoreCur[p] = r => meta[r] = "recorded"
        /\ watch[p][r] = "ungate" => ~LiveJob(r)

Within ==
    \A p \in Procs : SlotHolders(p) # {} => inFlight[p] <= Cap

Restored ==
    \A p \in Procs, r \in Runs :
        owner[r] = p /\ pc[r] = "lost" /\ LiveJob(r) /\ AloneOnKey(r) /\ mgr[p] # "down"
            => r \in restoreTodo[p] \/ restoreCur[p] = r \/ watch[p][r] # "none"
               \/ r \in unrestored[p]

CInv == IInv /\ Serving /\ Counted /\ Reserved /\ Restoring /\ Within /\ Restored

\* No step forgets a recorded job, brings one back to life, or renames a
\* run that has been requested.
Kept ==
    /\ \A r \in Runs : meta[r] = "recorded" =>
          meta'[r] = "recorded" /\ (LiveJob(r)' => LiveJob(r))
    /\ \A r \in Runs : pc[r] # "idle" => owner'[r] = owner[r] /\ req'[r] = req[r]
    /\ \A r \in Runs : pc[r] = "lost" => pc'[r] = "lost" /\ meta'[r] = meta[r]
    /\ \A r \in Runs : pc'[r] = "lost" => pc[r] = "lost" \/ mgr'[owner'[r]] = "down"

\* The step takes and gives back no slot and no key.
SlotsSame ==
    /\ UNCHANGED gateVars
    /\ \A r \in Runs : /\ pc'[r] \in GatePCs <=> pc[r] \in GatePCs
                       /\ pc[r] \in GatePCs => owner'[r] = owner[r]
    /\ \A p \in Procs, r \in Runs : watch'[p][r] # "none" <=> watch[p][r] # "none"

SlotsMove ==
    \/ \E r \in Runs : TryAcquire(r) \/ Rollback(r) \/ Ungate(r)
    \/ \E p \in Procs : ForceAdmit(p) \/ Crash(p)
    \/ \E p \in Procs, r \in Runs : WatchUngate(p, r)

RestoreMoves ==
    \/ \E p \in Procs : Start(p) \/ RestoreStep(p) \/ Crash(p)
    \/ \E p \in Procs, r \in Runs : WatchStep(p, r)

\* What each action leaves alone.
LEMMA Framed ==
    ASSUME IInv, Serving, [Next]_vars
    PROVE  /\ Kept /\ Serving'
           /\ SlotsSame \/ SlotsMove
           /\ UNCHANGED restoreVars \/ RestoreMoves
<1>mgr. mgr \in [Procs -> {"down", "restoring", "serving"}] BY DEF IInv, TypeOK
<1>watch. watch \in [Procs -> [Runs -> {"none", "watching", "ungate"}]] BY DEF IInv, TypeOK
<1>pc. pc \in [Runs -> PCs] BY DEF IInv, TypeOK
<1>owner. owner \in [Runs -> Procs \cup {NoProc}] BY DEF IInv, TypeOK
<1>req. req \in [Runs -> Convs \cup {Fresh}] BY DEF IInv, TypeOK
<1>meta. meta \in [Runs -> {"none", "created", "recorded"}] BY DEF IInv, TypeOK
<1>exited. exited \in [Runs -> BOOLEAN] BY DEF IInv, TypeOK
<1>sup. sup \in [Runs -> {"none", "up", "gone"}] BY DEF IInv, TypeOK
<1>Progress. Progress BY DEF IInv
<1>1. ASSUME NEW r \in Runs, NEW p \in Procs, NEW c \in Known \cup {Fresh}, Begin(r, p, c) PROVE
    Kept /\ Serving' /\ (SlotsSame \/ SlotsMove) /\ (UNCHANGED restoreVars \/ RestoreMoves)
    <2>u. UNCHANGED <<mgr, inFlight, keys, flock, restoreTodo, restoreCur, watch, todo, cur,
        meta, named, exited, sup, agy, session, crashes, supCrashes, unrestored, skipped,
        unreadable>>
        BY <1>1 DEF Begin, gateVars, restoreVars, scanVars, askVars, diskVars, procVars,
            bounds
    <2>Kept. Kept
        BY <1>1, <2>u, <1>pc, <1>owner, <1>req, <1>Progress DEF Kept, Progress, LiveJob,
            ProcessAlive, Begin
    <2>Serving. Serving'
        BY <1>1, <2>u, <1>pc, <1>owner, <1>req, <1>Progress DEF Serving, Progress, Begin
    <2>s. SlotsSame
        BY <1>1, <2>u, <1>pc, <1>owner, <1>req DEF SlotsSame, gateVars, GatePCs, Begin
    <2>m. UNCHANGED restoreVars
        BY <2>u DEF restoreVars
    <2> QED BY <2>Kept, <2>Serving, <2>s, <2>m
<1>2. ASSUME NEW r \in Runs, ScanList(r) PROVE
    Kept /\ Serving' /\ (SlotsSame \/ SlotsMove) /\ (UNCHANGED restoreVars \/ RestoreMoves)
    <2>u. UNCHANGED <<mgr, inFlight, keys, flock, restoreTodo, restoreCur, watch, owner, req,
        cur, meta, named, exited, sup, agy, session, blockers, crashes, supCrashes, unrestored,
        skipped, unreadable>>
        BY <1>2 DEF ScanList, gateVars, restoreVars, scanVars, askVars, diskVars, procVars,
            bounds
    <2>Kept. Kept
        BY <1>2, <2>u, <1>pc, <1>Progress DEF Kept, Progress, LiveJob, ProcessAlive,
            ScanList, Refuse
    <2>Serving. Serving'
        BY <1>2, <2>u, <1>pc, <1>Progress DEF Serving, Progress, ScanList, Refuse
    <2>s. SlotsSame
        BY <1>2, <2>u, <1>pc DEF SlotsSame, gateVars, GatePCs, ScanList, Refuse
    <2>m. UNCHANGED restoreVars
        BY <2>u DEF restoreVars
    <2> QED BY <2>Kept, <2>Serving, <2>s, <2>m
<1>3. ASSUME NEW r \in Runs, NEW j \in Runs, ScanJob(r, j) PROVE
    Kept /\ Serving' /\ (SlotsSame \/ SlotsMove) /\ (UNCHANGED restoreVars \/ RestoreMoves)
    <2>u. UNCHANGED <<mgr, inFlight, keys, flock, restoreTodo, restoreCur, watch, owner, req,
        meta, named, exited, sup, agy, session, blockers, crashes, supCrashes, unrestored>>
        BY <1>3 DEF ScanJob, gateVars, restoreVars, scanVars, askVars, diskVars, procVars,
            bounds
    <2>Kept. Kept
        BY <1>3, <2>u, <1>pc, <1>Progress DEF Kept, Progress, LiveJob, ProcessAlive,
            ScanJob, Refuse
    <2>Serving. Serving'
        BY <1>3, <2>u, <1>pc, <1>Progress DEF Serving, Progress, ScanJob, Refuse
    <2>s. SlotsSame
        BY <1>3, <2>u, <1>pc DEF SlotsSame, gateVars, GatePCs, ScanJob, Refuse
    <2>m. UNCHANGED restoreVars
        BY <2>u DEF restoreVars
    <2> QED BY <2>Kept, <2>Serving, <2>s, <2>m
<1>4. ASSUME NEW r \in Runs, ScanProgress(r) PROVE
    Kept /\ Serving' /\ (SlotsSame \/ SlotsMove) /\ (UNCHANGED restoreVars \/ RestoreMoves)
    <2>u. UNCHANGED <<mgr, inFlight, keys, flock, restoreTodo, restoreCur, watch, owner, req,
        meta, named, exited, sup, agy, session, blockers, crashes, supCrashes, unrestored>>
        BY <1>4 DEF ScanProgress, gateVars, restoreVars, scanVars, askVars, diskVars,
            procVars, bounds
    <2>Kept. Kept
        BY <1>4, <2>u, <1>pc, <1>Progress DEF Kept, Progress, LiveJob, ProcessAlive,
            ScanProgress, Refuse
    <2>Serving. Serving'
        BY <1>4, <2>u, <1>pc, <1>Progress DEF Serving, Progress, ScanProgress, Refuse
    <2>s. SlotsSame
        BY <1>4, <2>u, <1>pc DEF SlotsSame, gateVars, GatePCs, ScanProgress, Refuse
    <2>m. UNCHANGED restoreVars
        BY <2>u DEF restoreVars
    <2> QED BY <2>Kept, <2>Serving, <2>s, <2>m
<1>5. ASSUME NEW r \in Runs, ScanDone(r) PROVE
    Kept /\ Serving' /\ (SlotsSame \/ SlotsMove) /\ (UNCHANGED restoreVars \/ RestoreMoves)
    <2>u. UNCHANGED <<mgr, inFlight, keys, flock, restoreTodo, restoreCur, watch, owner, req,
        todo, cur, meta, named, exited, sup, agy, session, blockers, crashes, supCrashes,
        unrestored, skipped, unreadable>>
        BY <1>5 DEF ScanDone, gateVars, restoreVars, scanVars, askVars, diskVars, procVars,
            bounds
    <2>Kept. Kept
        BY <1>5, <2>u, <1>pc, <1>Progress DEF Kept, Progress, LiveJob, ProcessAlive,
            ScanDone
    <2>Serving. Serving'
        BY <1>5, <2>u, <1>pc, <1>Progress DEF Serving, Progress, ScanDone
    <2>s. SlotsSame
        BY <1>5, <2>u, <1>pc DEF SlotsSame, gateVars, GatePCs, ScanDone
    <2>m. UNCHANGED restoreVars
        BY <2>u DEF restoreVars
    <2> QED BY <2>Kept, <2>Serving, <2>s, <2>m
<1>6. ASSUME NEW r \in Runs, TryAcquire(r) PROVE
    Kept /\ Serving' /\ (SlotsSame \/ SlotsMove) /\ (UNCHANGED restoreVars \/ RestoreMoves)
    <2>u. UNCHANGED <<mgr, flock, restoreTodo, restoreCur, watch, owner, req, todo, cur, meta,
        named, exited, sup, agy, session, blockers, crashes, supCrashes, unrestored, skipped,
        unreadable>>
        BY <1>6 DEF TryAcquire, gateVars, restoreVars, scanVars, askVars, diskVars,
            procVars, bounds
    <2>Kept. Kept
        BY <1>6, <2>u, <1>pc, <1>Progress DEF Kept, Progress, LiveJob, ProcessAlive,
            TryAcquire, Refuse
    <2>Serving. Serving'
        BY <1>6, <2>u, <1>pc, <1>Progress DEF Serving, Progress, TryAcquire, Refuse
    <2>s. SlotsMove
        BY <1>6 DEF SlotsMove
    <2>m. UNCHANGED restoreVars
        BY <2>u DEF restoreVars
    <2> QED BY <2>Kept, <2>Serving, <2>s, <2>m
<1>7. ASSUME NEW r \in Runs, TryLock(r) PROVE
    Kept /\ Serving' /\ (SlotsSame \/ SlotsMove) /\ (UNCHANGED restoreVars \/ RestoreMoves)
    <2>u. UNCHANGED <<mgr, inFlight, keys, restoreTodo, restoreCur, watch, owner, req, todo,
        cur, meta, named, exited, sup, agy, session, blockers, crashes, supCrashes, unrestored,
        skipped, unreadable>>
        BY <1>7 DEF TryLock, gateVars, restoreVars, scanVars, askVars, diskVars, procVars,
            bounds
    <2>Kept. Kept
        BY <1>7, <2>u, <1>pc, <1>Progress DEF Kept, Progress, LiveJob, ProcessAlive, TryLock
    <2>Serving. Serving'
        BY <1>7, <2>u, <1>pc, <1>Progress DEF Serving, Progress, TryLock
    <2>s. SlotsSame
        BY <1>7, <2>u, <1>pc DEF SlotsSame, gateVars, GatePCs, TryLock
    <2>m. UNCHANGED restoreVars
        BY <2>u DEF restoreVars
    <2> QED BY <2>Kept, <2>Serving, <2>s, <2>m
<1>8. ASSUME NEW r \in Runs, Rollback(r) PROVE
    Kept /\ Serving' /\ (SlotsSame \/ SlotsMove) /\ (UNCHANGED restoreVars \/ RestoreMoves)
    <2>u. UNCHANGED <<mgr, flock, restoreTodo, restoreCur, watch, owner, req, todo, cur, meta,
        named, exited, sup, agy, session, blockers, crashes, supCrashes, unrestored, skipped,
        unreadable>>
        BY <1>8 DEF Rollback, gateVars, restoreVars, scanVars, askVars, diskVars, procVars,
            bounds
    <2>Kept. Kept
        BY <1>8, <2>u, <1>pc, <1>Progress DEF Kept, Progress, LiveJob, ProcessAlive,
            Rollback, Refuse
    <2>Serving. Serving'
        BY <1>8, <2>u, <1>pc, <1>Progress DEF Serving, Progress, Rollback, Refuse
    <2>s. SlotsMove
        BY <1>8 DEF SlotsMove
    <2>m. UNCHANGED restoreVars
        BY <2>u DEF restoreVars
    <2> QED BY <2>Kept, <2>Serving, <2>s, <2>m
<1>9. ASSUME NEW r \in Runs, Create(r) PROVE
    Kept /\ Serving' /\ (SlotsSame \/ SlotsMove) /\ (UNCHANGED restoreVars \/ RestoreMoves)
    <2>u. UNCHANGED <<mgr, inFlight, keys, flock, restoreTodo, restoreCur, watch, owner, req,
        todo, cur, named, exited, sup, agy, session, blockers, crashes, supCrashes, unrestored,
        skipped, unreadable>>
        BY <1>9 DEF Create, gateVars, restoreVars, scanVars, askVars, diskVars, procVars,
            bounds
    <2>Kept. Kept
        BY <1>9, <2>u, <1>pc, <1>meta, <1>Progress DEF Kept, Progress, LiveJob,
            ProcessAlive, Create
    <2>Serving. Serving'
        BY <1>9, <2>u, <1>pc, <1>meta, <1>Progress DEF Serving, Progress, Create
    <2>s. SlotsSame
        BY <1>9, <2>u, <1>pc, <1>meta DEF SlotsSame, gateVars, GatePCs, Create
    <2>m. UNCHANGED restoreVars
        BY <2>u DEF restoreVars
    <2> QED BY <2>Kept, <2>Serving, <2>s, <2>m
<1>10. ASSUME NEW r \in Runs, Spawn(r) PROVE
    Kept /\ Serving' /\ (SlotsSame \/ SlotsMove) /\ (UNCHANGED restoreVars \/ RestoreMoves)
    <2>u. UNCHANGED <<mgr, inFlight, keys, flock, restoreTodo, restoreCur, watch, owner, req,
        todo, cur, named, exited, agy, session, blockers, crashes, supCrashes, unrestored,
        skipped, unreadable>>
        BY <1>10 DEF Spawn, gateVars, restoreVars, scanVars, askVars, diskVars, procVars,
            bounds
    <2>Kept. Kept
        BY <1>10, <2>u, <1>pc, <1>meta, <1>sup, <1>Progress DEF Kept, Progress, LiveJob,
            ProcessAlive, Spawn
    <2>Serving. Serving'
        BY <1>10, <2>u, <1>pc, <1>meta, <1>sup, <1>Progress DEF Serving, Progress, Spawn
    <2>s. SlotsSame
        BY <1>10, <2>u, <1>pc, <1>meta, <1>sup DEF SlotsSame, gateVars, GatePCs, Spawn
    <2>m. UNCHANGED restoreVars
        BY <2>u DEF restoreVars
    <2> QED BY <2>Kept, <2>Serving, <2>s, <2>m
<1>11. ASSUME NEW r \in Runs, RecordPid(r) PROVE
    Kept /\ Serving' /\ (SlotsSame \/ SlotsMove) /\ (UNCHANGED restoreVars \/ RestoreMoves)
    <2>u. UNCHANGED <<mgr, inFlight, keys, flock, restoreTodo, restoreCur, watch, owner, req,
        todo, cur, named, exited, sup, agy, session, blockers, crashes, supCrashes, unrestored,
        skipped, unreadable>>
        BY <1>11 DEF RecordPid, gateVars, restoreVars, scanVars, askVars, diskVars,
            procVars, bounds
    <2>Kept. Kept
        BY <1>11, <2>u, <1>pc, <1>meta, <1>Progress DEF Kept, Progress, LiveJob,
            ProcessAlive, RecordPid
    <2>Serving. Serving'
        BY <1>11, <2>u, <1>pc, <1>meta, <1>Progress DEF Serving, Progress, RecordPid
    <2>s. SlotsSame
        BY <1>11, <2>u, <1>pc, <1>meta DEF SlotsSame, gateVars, GatePCs, RecordPid
    <2>m. UNCHANGED restoreVars
        BY <2>u DEF restoreVars
    <2> QED BY <2>Kept, <2>Serving, <2>s, <2>m
<1>12. ASSUME NEW r \in Runs, WaitReturns(r) PROVE
    Kept /\ Serving' /\ (SlotsSame \/ SlotsMove) /\ (UNCHANGED restoreVars \/ RestoreMoves)
    <2>u. UNCHANGED <<mgr, inFlight, keys, flock, restoreTodo, restoreCur, watch, owner, req,
        todo, cur, meta, named, exited, sup, agy, session, blockers, crashes, supCrashes,
        unrestored, skipped, unreadable>>
        BY <1>12 DEF WaitReturns, gateVars, restoreVars, scanVars, askVars, diskVars,
            procVars, bounds
    <2>Kept. Kept
        BY <1>12, <2>u, <1>pc, <1>Progress DEF Kept, Progress, LiveJob, ProcessAlive,
            WaitReturns
    <2>Serving. Serving'
        BY <1>12, <2>u, <1>pc, <1>Progress DEF Serving, Progress, WaitReturns
    <2>s. SlotsSame
        BY <1>12, <2>u, <1>pc DEF SlotsSame, gateVars, GatePCs, WaitReturns
    <2>m. UNCHANGED restoreVars
        BY <2>u DEF restoreVars
    <2> QED BY <2>Kept, <2>Serving, <2>s, <2>m
<1>13. ASSUME NEW r \in Runs, AbortReaped(r) PROVE
    Kept /\ Serving' /\ (SlotsSame \/ SlotsMove) /\ (UNCHANGED restoreVars \/ RestoreMoves)
    <2>u. UNCHANGED <<mgr, inFlight, keys, flock, restoreTodo, restoreCur, watch, owner, req,
        todo, cur, named, exited, sup, agy, session, blockers, crashes, supCrashes, unrestored,
        skipped, unreadable>>
        BY <1>13 DEF AbortReaped, gateVars, restoreVars, scanVars, askVars, diskVars,
            procVars, bounds
    <2>Kept. Kept
        BY <1>13, <2>u, <1>pc, <1>meta, <1>Progress DEF Kept, Progress, LiveJob,
            ProcessAlive, AbortReaped
    <2>Serving. Serving'
        BY <1>13, <2>u, <1>pc, <1>meta, <1>Progress DEF Serving, Progress, AbortReaped
    <2>s. SlotsSame
        BY <1>13, <2>u, <1>pc, <1>meta DEF SlotsSame, gateVars, GatePCs, AbortReaped
    <2>m. UNCHANGED restoreVars
        BY <2>u DEF restoreVars
    <2> QED BY <2>Kept, <2>Serving, <2>s, <2>m
<1>14. ASSUME NEW r \in Runs, Unlock(r) PROVE
    Kept /\ Serving' /\ (SlotsSame \/ SlotsMove) /\ (UNCHANGED restoreVars \/ RestoreMoves)
    <2>u. UNCHANGED <<mgr, inFlight, keys, restoreTodo, restoreCur, watch, owner, req, todo,
        cur, meta, named, exited, sup, agy, session, blockers, crashes, supCrashes, unrestored,
        skipped, unreadable>>
        BY <1>14 DEF Unlock, gateVars, restoreVars, scanVars, askVars, diskVars, procVars,
            bounds
    <2>Kept. Kept
        BY <1>14, <2>u, <1>pc, <1>Progress DEF Kept, Progress, LiveJob, ProcessAlive, Unlock
    <2>Serving. Serving'
        BY <1>14, <2>u, <1>pc, <1>Progress DEF Serving, Progress, Unlock
    <2>s. SlotsSame
        BY <1>14, <2>u, <1>pc DEF SlotsSame, gateVars, GatePCs, Unlock
    <2>m. UNCHANGED restoreVars
        BY <2>u DEF restoreVars
    <2> QED BY <2>Kept, <2>Serving, <2>s, <2>m
<1>15. ASSUME NEW r \in Runs, Ungate(r) PROVE
    Kept /\ Serving' /\ (SlotsSame \/ SlotsMove) /\ (UNCHANGED restoreVars \/ RestoreMoves)
    <2>u. UNCHANGED <<mgr, flock, restoreTodo, restoreCur, watch, owner, req, todo, cur, meta,
        named, exited, sup, agy, session, blockers, crashes, supCrashes, unrestored, skipped,
        unreadable>>
        BY <1>15 DEF Ungate, gateVars, restoreVars, scanVars, askVars, diskVars, procVars,
            bounds
    <2>Kept. Kept
        BY <1>15, <2>u, <1>pc, <1>Progress DEF Kept, Progress, LiveJob, ProcessAlive, Ungate
    <2>Serving. Serving'
        BY <1>15, <2>u, <1>pc, <1>Progress DEF Serving, Progress, Ungate
    <2>s. SlotsMove
        BY <1>15 DEF SlotsMove
    <2>m. UNCHANGED restoreVars
        BY <2>u DEF restoreVars
    <2> QED BY <2>Kept, <2>Serving, <2>s, <2>m
<1>16. ASSUME NEW r \in Runs, StartAgy(r) PROVE
    Kept /\ Serving' /\ (SlotsSame \/ SlotsMove) /\ (UNCHANGED restoreVars \/ RestoreMoves)
    <2>u. UNCHANGED <<mgr, inFlight, keys, flock, restoreTodo, restoreCur, watch, pc, owner,
        req, todo, cur, meta, named, exited, sup, blockers, crashes, supCrashes, unrestored,
        skipped, unreadable>>
        BY <1>16 DEF StartAgy, gateVars, restoreVars, scanVars, askVars, diskVars, procVars,
            bounds
    <2>Kept. Kept
        BY <1>16, <2>u, <1>Progress DEF Kept, Progress, LiveJob, ProcessAlive, StartAgy
    <2>Serving. Serving'
        BY <1>16, <2>u, <1>Progress DEF Serving, Progress, StartAgy
    <2>s. SlotsSame
        BY <1>16, <2>u DEF SlotsSame, gateVars, GatePCs, StartAgy
    <2>m. UNCHANGED restoreVars
        BY <2>u DEF restoreVars
    <2> QED BY <2>Kept, <2>Serving, <2>s, <2>m
<1>17. ASSUME NEW r \in Runs, NEW c \in NewConvs, NameSession(r, c) PROVE
    Kept /\ Serving' /\ (SlotsSame \/ SlotsMove) /\ (UNCHANGED restoreVars \/ RestoreMoves)
    <2>u. UNCHANGED <<mgr, inFlight, keys, flock, restoreTodo, restoreCur, watch, pc, owner,
        req, todo, cur, meta, named, exited, sup, agy, blockers, crashes, supCrashes,
        unrestored, skipped, unreadable>>
        BY <1>17 DEF NameSession, gateVars, restoreVars, scanVars, askVars, diskVars,
            procVars, bounds
    <2>Kept. Kept
        BY <1>17, <2>u, <1>Progress DEF Kept, Progress, LiveJob, ProcessAlive, NameSession
    <2>Serving. Serving'
        BY <1>17, <2>u, <1>Progress DEF Serving, Progress, NameSession
    <2>s. SlotsSame
        BY <1>17, <2>u DEF SlotsSame, gateVars, GatePCs, NameSession
    <2>m. UNCHANGED restoreVars
        BY <2>u DEF restoreVars
    <2> QED BY <2>Kept, <2>Serving, <2>s, <2>m
<1>18. ASSUME NEW r \in Runs, RecordName(r) PROVE
    Kept /\ Serving' /\ (SlotsSame \/ SlotsMove) /\ (UNCHANGED restoreVars \/ RestoreMoves)
    <2>u. UNCHANGED <<mgr, inFlight, keys, flock, restoreTodo, restoreCur, watch, pc, owner,
        req, todo, cur, meta, exited, sup, agy, session, blockers, crashes, supCrashes,
        unrestored, skipped, unreadable>>
        BY <1>18 DEF RecordName, gateVars, restoreVars, scanVars, askVars, diskVars,
            procVars, bounds
    <2>Kept. Kept
        BY <1>18, <2>u, <1>Progress DEF Kept, Progress, LiveJob, ProcessAlive, RecordName
    <2>Serving. Serving'
        BY <1>18, <2>u, <1>Progress DEF Serving, Progress, RecordName
    <2>s. SlotsSame
        BY <1>18, <2>u DEF SlotsSame, gateVars, GatePCs, RecordName
    <2>m. UNCHANGED restoreVars
        BY <2>u DEF restoreVars
    <2> QED BY <2>Kept, <2>Serving, <2>s, <2>m
<1>19. ASSUME NEW r \in Runs, AgyExit(r) PROVE
    Kept /\ Serving' /\ (SlotsSame \/ SlotsMove) /\ (UNCHANGED restoreVars \/ RestoreMoves)
    <2>u. UNCHANGED <<mgr, inFlight, keys, flock, restoreTodo, restoreCur, watch, pc, owner,
        req, todo, cur, meta, named, exited, sup, session, blockers, crashes, supCrashes,
        unrestored, skipped, unreadable>>
        BY <1>19 DEF AgyExit, gateVars, restoreVars, scanVars, askVars, diskVars, procVars,
            bounds
    <2>Kept. Kept
        BY <1>19, <2>u, <1>Progress DEF Kept, Progress, LiveJob, ProcessAlive, AgyExit
    <2>Serving. Serving'
        BY <1>19, <2>u, <1>Progress DEF Serving, Progress, AgyExit
    <2>s. SlotsSame
        BY <1>19, <2>u DEF SlotsSame, gateVars, GatePCs, AgyExit
    <2>m. UNCHANGED restoreVars
        BY <2>u DEF restoreVars
    <2> QED BY <2>Kept, <2>Serving, <2>s, <2>m
<1>20. ASSUME NEW r \in Runs, WriteExit(r) PROVE
    Kept /\ Serving' /\ (SlotsSame \/ SlotsMove) /\ (UNCHANGED restoreVars \/ RestoreMoves)
    <2>u. UNCHANGED <<mgr, inFlight, keys, flock, restoreTodo, restoreCur, watch, pc, owner,
        req, todo, cur, meta, named, sup, agy, session, blockers, crashes, supCrashes,
        unrestored, skipped, unreadable>>
        BY <1>20 DEF WriteExit, gateVars, restoreVars, scanVars, askVars, diskVars,
            procVars, bounds
    <2>Kept. Kept
        BY <1>20, <2>u, <1>exited, <1>Progress DEF Kept, Progress, LiveJob, ProcessAlive,
            WriteExit
    <2>Serving. Serving'
        BY <1>20, <2>u, <1>exited, <1>Progress DEF Serving, Progress, WriteExit
    <2>s. SlotsSame
        BY <1>20, <2>u, <1>exited DEF SlotsSame, gateVars, GatePCs, WriteExit
    <2>m. UNCHANGED restoreVars
        BY <2>u DEF restoreVars
    <2> QED BY <2>Kept, <2>Serving, <2>s, <2>m
<1>21. ASSUME NEW r \in Runs, SupervisorExit(r) PROVE
    Kept /\ Serving' /\ (SlotsSame \/ SlotsMove) /\ (UNCHANGED restoreVars \/ RestoreMoves)
    <2>u. UNCHANGED <<mgr, inFlight, keys, flock, restoreTodo, restoreCur, watch, pc, owner,
        req, todo, cur, meta, named, exited, agy, session, blockers, crashes, supCrashes,
        unrestored, skipped, unreadable>>
        BY <1>21 DEF SupervisorExit, gateVars, restoreVars, scanVars, askVars, diskVars,
            procVars, bounds
    <2>Kept. Kept
        BY <1>21, <2>u, <1>sup, <1>Progress DEF Kept, Progress, LiveJob, ProcessAlive,
            SupervisorExit
    <2>Serving. Serving'
        BY <1>21, <2>u, <1>sup, <1>Progress DEF Serving, Progress, SupervisorExit
    <2>s. SlotsSame
        BY <1>21, <2>u, <1>sup DEF SlotsSame, gateVars, GatePCs, SupervisorExit
    <2>m. UNCHANGED restoreVars
        BY <2>u DEF restoreVars
    <2> QED BY <2>Kept, <2>Serving, <2>s, <2>m
<1>22. ASSUME NEW r \in Runs, SupervisorCrash(r) PROVE
    Kept /\ Serving' /\ (SlotsSame \/ SlotsMove) /\ (UNCHANGED restoreVars \/ RestoreMoves)
    <2>u. UNCHANGED <<mgr, inFlight, keys, flock, restoreTodo, restoreCur, watch, pc, owner,
        req, todo, cur, meta, named, exited, agy, session, blockers, crashes, unrestored,
        skipped, unreadable>>
        BY <1>22 DEF SupervisorCrash, gateVars, restoreVars, scanVars, askVars, diskVars,
            procVars, bounds
    <2>Kept. Kept
        BY <1>22, <2>u, <1>sup, <1>Progress DEF Kept, Progress, LiveJob, ProcessAlive,
            SupervisorCrash
    <2>Serving. Serving'
        BY <1>22, <2>u, <1>sup, <1>Progress DEF Serving, Progress, SupervisorCrash
    <2>s. SlotsSame
        BY <1>22, <2>u, <1>sup DEF SlotsSame, gateVars, GatePCs, SupervisorCrash
    <2>m. UNCHANGED restoreVars
        BY <2>u DEF restoreVars
    <2> QED BY <2>Kept, <2>Serving, <2>s, <2>m
<1>23. ASSUME NEW p \in Procs, Start(p) PROVE
    Kept /\ Serving' /\ (SlotsSame \/ SlotsMove) /\ (UNCHANGED restoreVars \/ RestoreMoves)
    <2>u. UNCHANGED <<inFlight, keys, flock, restoreCur, watch, pc, owner, req, todo, cur, meta,
        named, exited, sup, agy, session, blockers, crashes, supCrashes, unrestored, skipped,
        unreadable>>
        BY <1>23 DEF Start, gateVars, restoreVars, scanVars, askVars, diskVars, procVars,
            bounds
    <2>Kept. Kept
        BY <1>23, <2>u, <1>mgr, <1>Progress DEF Kept, Progress, LiveJob, ProcessAlive, Start
    <2>Serving. Serving'
        BY <1>23, <2>u, <1>mgr, <1>Progress DEF Serving, Progress, Start
    <2>s. SlotsSame
        BY <1>23, <2>u, <1>mgr DEF SlotsSame, gateVars, GatePCs, Start
    <2>m. RestoreMoves
        BY <1>23 DEF RestoreMoves, RestoreStep, WatchStep
    <2> QED BY <2>Kept, <2>Serving, <2>s, <2>m
<1>24. ASSUME NEW p \in Procs, NEW r \in Runs, RestoreCheck(p, r) PROVE
    Kept /\ Serving' /\ (SlotsSame \/ SlotsMove) /\ (UNCHANGED restoreVars \/ RestoreMoves)
    <2>u. UNCHANGED <<mgr, inFlight, keys, flock, watch, pc, owner, req, todo, cur, meta, named,
        exited, sup, agy, session, blockers, crashes, supCrashes, skipped>>
        BY <1>24 DEF RestoreCheck, gateVars, restoreVars, scanVars, askVars, diskVars,
            procVars, bounds
    <2>Kept. Kept
        BY <1>24, <2>u, <1>Progress DEF Kept, Progress, LiveJob, ProcessAlive, RestoreCheck
    <2>Serving. Serving'
        BY <1>24, <2>u, <1>Progress DEF Serving, Progress, RestoreCheck
    <2>s. SlotsSame
        BY <1>24, <2>u DEF SlotsSame, gateVars, GatePCs, RestoreCheck
    <2>m. RestoreMoves
        BY <1>24 DEF RestoreMoves, RestoreStep, WatchStep
    <2> QED BY <2>Kept, <2>Serving, <2>s, <2>m
<1>25. ASSUME NEW p \in Procs, ForceAdmit(p) PROVE
    Kept /\ Serving' /\ (SlotsSame \/ SlotsMove) /\ (UNCHANGED restoreVars \/ RestoreMoves)
    <2>u. UNCHANGED <<mgr, restoreTodo, pc, owner, req, todo, cur, meta, named, exited, sup,
        agy, session, blockers, crashes, supCrashes, unrestored, skipped, unreadable>>
        BY <1>25 DEF ForceAdmit, gateVars, restoreVars, scanVars, askVars, diskVars,
            procVars, bounds
    <2>Kept. Kept
        BY <1>25, <2>u, <1>watch, <1>Progress DEF Kept, Progress, LiveJob, ProcessAlive,
            ForceAdmit
    <2>Serving. Serving'
        BY <1>25, <2>u, <1>watch, <1>Progress DEF Serving, Progress, ForceAdmit
    <2>s. SlotsMove
        BY <1>25 DEF SlotsMove
    <2>m. RestoreMoves
        BY <1>25 DEF RestoreMoves, RestoreStep, WatchStep
    <2> QED BY <2>Kept, <2>Serving, <2>s, <2>m
<1>26. ASSUME NEW p \in Procs, Serve(p) PROVE
    Kept /\ Serving' /\ (SlotsSame \/ SlotsMove) /\ (UNCHANGED restoreVars \/ RestoreMoves)
    <2>u. UNCHANGED <<inFlight, keys, flock, restoreTodo, restoreCur, watch, pc, owner, req,
        todo, cur, meta, named, exited, sup, agy, session, blockers, crashes, supCrashes,
        unrestored, skipped, unreadable>>
        BY <1>26 DEF Serve, gateVars, restoreVars, scanVars, askVars, diskVars, procVars,
            bounds
    <2>Kept. Kept
        BY <1>26, <2>u, <1>mgr, <1>Progress DEF Kept, Progress, LiveJob, ProcessAlive, Serve
    <2>Serving. Serving'
        BY <1>26, <2>u, <1>mgr, <1>Progress DEF Serving, Progress, Serve
    <2>s. SlotsSame
        BY <1>26, <2>u, <1>mgr DEF SlotsSame, gateVars, GatePCs, Serve
    <2>m. RestoreMoves
        BY <1>26 DEF RestoreMoves, RestoreStep, WatchStep
    <2> QED BY <2>Kept, <2>Serving, <2>s, <2>m
<1>27. ASSUME NEW p \in Procs, Crash(p) PROVE
    Kept /\ Serving' /\ (SlotsSame \/ SlotsMove) /\ (UNCHANGED restoreVars \/ RestoreMoves)
    <2>u. UNCHANGED <<owner, req, meta, named, exited, sup, agy, session, blockers, supCrashes,
        skipped, unreadable>>
        BY <1>27 DEF Crash, gateVars, restoreVars, scanVars, askVars, diskVars, procVars,
            bounds
    <2>Kept. Kept
        BY <1>27, <2>u, <1>mgr, <1>watch, <1>pc, <1>Progress DEF Kept, Progress, LiveJob,
            ProcessAlive, Crash
    <2>Serving. Serving'
        BY <1>27, <2>u, <1>mgr, <1>watch, <1>pc, <1>Progress DEF Serving, Progress, Crash
    <2>s. SlotsMove
        BY <1>27 DEF SlotsMove
    <2>m. RestoreMoves
        BY <1>27 DEF RestoreMoves, RestoreStep, WatchStep
    <2> QED BY <2>Kept, <2>Serving, <2>s, <2>m
<1>28. ASSUME NEW p \in Procs, NEW r \in Runs, WatchDead(p, r) PROVE
    Kept /\ Serving' /\ (SlotsSame \/ SlotsMove) /\ (UNCHANGED restoreVars \/ RestoreMoves)
    <2>u. UNCHANGED <<mgr, inFlight, keys, restoreTodo, restoreCur, pc, owner, req, todo, cur,
        meta, named, exited, sup, agy, session, blockers, crashes, supCrashes, unrestored,
        skipped, unreadable>>
        BY <1>28 DEF WatchDead, gateVars, restoreVars, scanVars, askVars, diskVars,
            procVars, bounds
    <2>Kept. Kept
        BY <1>28, <2>u, <1>watch, <1>Progress DEF Kept, Progress, LiveJob, ProcessAlive,
            WatchDead
    <2>Serving. Serving'
        BY <1>28, <2>u, <1>watch, <1>Progress DEF Serving, Progress, WatchDead
    <2>s. SlotsSame
        BY <1>28, <2>u, <1>watch DEF SlotsSame, gateVars, GatePCs, WatchDead
    <2>m. RestoreMoves
        BY <1>28 DEF RestoreMoves, RestoreStep, WatchStep
    <2> QED BY <2>Kept, <2>Serving, <2>s, <2>m
<1>29. ASSUME NEW p \in Procs, NEW r \in Runs, WatchUngate(p, r) PROVE
    Kept /\ Serving' /\ (SlotsSame \/ SlotsMove) /\ (UNCHANGED restoreVars \/ RestoreMoves)
    <2>u. UNCHANGED <<mgr, flock, restoreTodo, restoreCur, pc, owner, req, todo, cur, meta,
        named, exited, sup, agy, session, blockers, crashes, supCrashes, unrestored, skipped,
        unreadable>>
        BY <1>29 DEF WatchUngate, gateVars, restoreVars, scanVars, askVars, diskVars,
            procVars, bounds
    <2>Kept. Kept
        BY <1>29, <2>u, <1>watch, <1>Progress DEF Kept, Progress, LiveJob, ProcessAlive,
            WatchUngate
    <2>Serving. Serving'
        BY <1>29, <2>u, <1>watch, <1>Progress DEF Serving, Progress, WatchUngate
    <2>s. SlotsMove
        BY <1>29 DEF SlotsMove
    <2>m. RestoreMoves
        BY <1>29 DEF RestoreMoves, RestoreStep, WatchStep
    <2> QED BY <2>Kept, <2>Serving, <2>s, <2>m
<1>30. CASE UNCHANGED vars
    <2>u. UNCHANGED <<mgr, inFlight, keys, restoreTodo, restoreCur, watch, pc, owner, req, meta,
        exited, sup, unrestored>>
        BY <1>30 DEF vars, gateVars, restoreVars, scanVars, askVars, diskVars, procVars, bounds
    <2> QED BY <2>u DEF Kept, Serving, SlotsSame, gateVars, restoreVars, LiveJob, ProcessAlive
<1> QED BY <1>1, <1>2, <1>3, <1>4, <1>5, <1>6, <1>7, <1>8, <1>9, <1>10, <1>11, <1>12, <1>13,
    <1>14, <1>15, <1>16, <1>17, <1>18, <1>19, <1>20, <1>21, <1>22, <1>23, <1>24, <1>25, <1>26,
    <1>27, <1>28, <1>29, <1>30
    DEF Next, ManagerStep, SupervisorStep, RestoreStep, WatchStep

\* The sets a gate counts are finite.
LEMMA CountFinite ==
    \A p : /\ IsFiniteSet(SlotHolders(p)) /\ Cardinality(SlotHolders(p)) \in Nat
           /\ IsFiniteSet(Watched(p)) /\ Cardinality(Watched(p)) \in Nat
BY RunsFinite, FS_Subset, FS_CardinalityType DEF SlotHolders, Watched

\* A gate whose holders, watched jobs, slots and keys stay as they are stays
\* exact.
LEMMA GateStill ==
    ASSUME IInv, Kept, NEW p \in Procs,
           SlotHolders(p)' = SlotHolders(p), Watched(p)' = Watched(p),
           inFlight'[p] = inFlight[p], keys'[p] = keys[p],
           Counted, Reserved, Within
    PROVE  /\ inFlight'[p] = Cardinality(SlotHolders(p)') + Cardinality(Watched(p)')
           /\ \A c \in keys'[p] : \E r \in SlotHolders(p)' \cup Watched(p)' : req'[r] = c
           /\ SlotHolders(p)' # {} => inFlight'[p] <= Cap
<1>1. \A r \in SlotHolders(p) \cup Watched(p) : req'[r] = req[r]
    BY DEF IInv, Progress, Kept, SlotHolders, Watched, GatePCs
<1> QED BY <1>1 DEF Counted, Reserved, Within

\* The end of a run gives back its slot and its key, and no other key.
LEMMA GateLeft ==
    ASSUME IInv, Kept, Counted, Reserved, Within,
           NEW r \in Runs, pc[r] \in GatePCs, pc' = [pc EXCEPT ![r] = "done"],
           GateRelease(owner[r], req[r]), UNCHANGED <<owner, req, watch>>
    PROVE  Counted' /\ Reserved' /\ Within'
<1> DEFINE o == owner[r]
<1>type. /\ inFlight \in [Procs -> Nat] /\ keys \in [Procs -> SUBSET Convs]
         /\ pc \in [Runs -> PCs]
    BY DEF IInv, TypeOK
<1>o. o \in Procs BY DEF IInv, Progress, GatePCs
<1>w. \A p \in Procs : Watched(p)' = Watched(p) BY DEF Watched
<1>h. /\ r \in SlotHolders(o) /\ SlotHolders(o)' = SlotHolders(o) \ {r}
      /\ \A p \in Procs \ {o} : SlotHolders(p)' = SlotHolders(p)
    BY <1>type DEF SlotHolders, GatePCs
<1>c. Cardinality(SlotHolders(o) \ {r}) = Cardinality(SlotHolders(o)) - 1
    BY <1>h, CountFinite, FS_RemoveElement
<1>i. /\ inFlight'[o] = inFlight[o] - 1 /\ keys'[o] = keys[o] \ {req[r]}
      /\ \A p \in Procs \ {o} : inFlight'[p] = inFlight[p] /\ keys'[p] = keys[p]
    <2>1. inFlight[o] > 0
        <3>1. Cardinality(SlotHolders(o)) # 0 BY <1>h, CountFinite, FS_EmptySet
        <3> QED BY <3>1, <1>o, CountFinite DEF Counted
    <2> QED BY <2>1, <1>type, <1>o DEF GateRelease
<1>1. ASSUME NEW p \in Procs
      PROVE  /\ inFlight'[p] = Cardinality(SlotHolders(p)') + Cardinality(Watched(p)')
             /\ \A c \in keys'[p] : \E q \in SlotHolders(p)' \cup Watched(p)' : req'[q] = c
             /\ SlotHolders(p)' # {} => inFlight'[p] <= Cap
    <2>1. CASE p = o
        <3>1. inFlight'[o] = Cardinality(SlotHolders(o)') + Cardinality(Watched(o)')
            BY <1>w, <1>h, <1>c, <1>i, <1>o, CountFinite DEF Counted
        <3>2. \A c \in keys'[o] : \E q \in SlotHolders(o)' \cup Watched(o)' : req'[q] = c
            BY <1>w, <1>h, <1>i, <1>o DEF Reserved
        <3>3. inFlight'[o] <= Cap
            BY <1>h, <1>i, <1>o, <1>type, CapPositive DEF Within
        <3> QED BY <2>1, <3>1, <3>2, <3>3
    <2>2. CASE p # o
        BY <2>2, <1>w, <1>h, <1>i, GateStill
    <2> QED BY <2>1, <2>2
<1> QED BY <1>1 DEF Counted, Reserved, Within

\* Every step keeps slots and keys in step with their holders.
LEMMA CountingNext ==
    ASSUME IInv, Serving, Counted, Reserved, Restoring, Within, [Next]_vars
    PROVE  Counted' /\ Reserved' /\ Within'
<1>Kept. Kept BY Framed
<1>type. /\ inFlight \in [Procs -> Nat] /\ keys \in [Procs -> SUBSET Convs]
         /\ pc \in [Runs -> PCs] /\ req \in [Runs -> Convs \cup {Fresh}]
         /\ watch \in [Procs -> [Runs -> {"none", "watching", "ungate"}]]
    BY DEF IInv, TypeOK
<1>1. CASE SlotsSame
    <2>1. ASSUME NEW p \in Procs
          PROVE  SlotHolders(p)' = SlotHolders(p) /\ Watched(p)' = Watched(p)
        BY <1>1 DEF SlotsSame, SlotHolders, Watched
    <2> QED BY <2>1, <1>1, <1>Kept, GateStill DEF SlotsSame, gateVars, Counted, Reserved, Within
<1>2. ASSUME NEW r \in Runs, TryAcquire(r) PROVE Counted' /\ Reserved' /\ Within'
    <2> DEFINE o == owner[r]
    <2>u. UNCHANGED <<owner, req, watch>> BY <1>2 DEF TryAcquire, restoreVars, askVars
    <2>w. \A p \in Procs : Watched(p)' = Watched(p) BY <2>u DEF Watched
    <2>o. o \in Procs /\ pc[r] = "admit" BY <1>2 DEF IInv, Progress, TryAcquire
    <2>1. CASE pc'[r] = "done"
        <3>1. UNCHANGED gateVars /\ \A q \in Runs \ {r} : pc'[q] = pc[q]
            BY <1>2, <1>type, <2>1 DEF TryAcquire, Refuse
        <3>2. \A p \in Procs : SlotHolders(p)' = SlotHolders(p)
            BY <3>1, <2>1, <2>o, <2>u DEF SlotHolders, GatePCs
        <3> QED BY <3>1, <3>2, <2>w, <1>Kept, GateStill DEF gateVars, Counted, Reserved, Within
    <2>2. CASE pc'[r] # "done"
        <3>1. /\ Reserve(o, req[r]) /\ inFlight[o] < Cap /\ pc'[r] \in GatePCs
              /\ \A q \in Runs \ {r} : pc'[q] = pc[q]
            BY <1>2, <1>type, <2>2, <2>o, CapPositive DEF TryAcquire, Refuse, AtCap, GatePCs
        <3>h. /\ r \notin SlotHolders(o) /\ SlotHolders(o)' = SlotHolders(o) \cup {r}
              /\ \A p \in Procs \ {o} : SlotHolders(p)' = SlotHolders(p)
            BY <3>1, <2>o, <2>u DEF SlotHolders, GatePCs
        <3>c. Cardinality(SlotHolders(o) \cup {r}) = Cardinality(SlotHolders(o)) + 1
            BY <3>h, CountFinite, FS_AddElement
        <3>i. /\ inFlight'[o] = inFlight[o] + 1 /\ keys'[o] = keys[o] \cup ({req[r]} \ {Fresh})
              /\ \A p \in Procs \ {o} : inFlight'[p] = inFlight[p] /\ keys'[p] = keys[p]
            BY <3>1, <1>type, <2>o DEF Reserve
        <3>2. ASSUME NEW p \in Procs
              PROVE  /\ inFlight'[p] = Cardinality(SlotHolders(p)') + Cardinality(Watched(p)')
                     /\ \A c \in keys'[p] : \E q \in SlotHolders(p)' \cup Watched(p)' : req'[q] = c
                     /\ SlotHolders(p)' # {} => inFlight'[p] <= Cap
            <4>1. CASE p = o
                <5>1. inFlight'[o] = Cardinality(SlotHolders(o)') + Cardinality(Watched(o)')
                    BY <2>w, <2>u, <2>o, <3>h, <3>c, <3>i, CountFinite DEF Counted
                <5>2. \A c \in keys'[o] : \E q \in SlotHolders(o)' \cup Watched(o)' : req'[q] = c
                    BY <2>w, <2>u, <2>o, <3>h, <3>i DEF Reserved
                <5>3. inFlight'[o] <= Cap BY <3>1, <3>i, <2>o, <1>type, CapPositive
                <5> QED BY <4>1, <2>u, <5>1, <5>2, <5>3
            <4>2. CASE p # o
                BY <4>2, <2>w, <3>h, <3>i, <1>Kept, GateStill
            <4> QED BY <4>1, <4>2
        <3> QED BY <3>2 DEF Counted, Reserved, Within
    <2> QED BY <2>1, <2>2
<1>3. ASSUME NEW r \in Runs, Rollback(r) \/ Ungate(r) PROVE Counted' /\ Reserved' /\ Within'
    <2>1. /\ pc[r] \in GatePCs /\ pc' = [pc EXCEPT ![r] = "done"]
          /\ GateRelease(owner[r], req[r]) /\ UNCHANGED <<owner, req, watch>>
        BY <1>3 DEF Rollback, Ungate, Refuse, GatePCs, restoreVars, askVars
    <2> QED BY <2>1, <1>Kept, GateLeft
<1>4. ASSUME NEW p \in Procs, ForceAdmit(p) PROVE Counted' /\ Reserved' /\ Within'
    <2> DEFINE r == restoreCur[p]
    <2>u. UNCHANGED <<owner, req, pc>> BY <1>4 DEF ForceAdmit, askVars
    <2>r. r \in Runs /\ watch[p][r] = "none" /\ mgr[p] = "restoring"
        BY <1>4 DEF ForceAdmit, Restoring, IInv, TypeOK
    <2>none. SlotHolders(p) = {}
        BY <2>r DEF Serving, SlotHolders, GatePCs
    <2>h. \A k \in Procs : SlotHolders(k)' = SlotHolders(k) BY <2>u DEF SlotHolders
    <2>1. CASE KeyBusy(p, req[r])
        <3>1. UNCHANGED <<inFlight, keys, watch>> BY <1>4, <2>1 DEF ForceAdmit, gateVars
        <3>2. \A k \in Procs : Watched(k)' = Watched(k) BY <3>1 DEF Watched
        <3> QED BY <3>1, <3>2, <2>h, <1>Kept, GateStill DEF Counted, Reserved, Within
    <2>2. CASE ~KeyBusy(p, req[r])
        <3>1. Reserve(p, req[r]) /\ watch' = [watch EXCEPT ![p][r] = "watching"]
            BY <1>4, <2>2 DEF ForceAdmit
        <3>w. /\ r \notin Watched(p) /\ Watched(p)' = Watched(p) \cup {r}
              /\ \A k \in Procs \ {p} : Watched(k)' = Watched(k)
            BY <3>1, <2>r, <1>type DEF Watched
        <3>c. Cardinality(Watched(p) \cup {r}) = Cardinality(Watched(p)) + 1
            BY <3>w, CountFinite, FS_AddElement
        <3>i. /\ inFlight'[p] = inFlight[p] + 1 /\ keys'[p] = keys[p] \cup ({req[r]} \ {Fresh})
              /\ \A k \in Procs \ {p} : inFlight'[k] = inFlight[k] /\ keys'[k] = keys[k]
            BY <3>1, <1>type DEF Reserve
        <3>2. ASSUME NEW k \in Procs
              PROVE  /\ inFlight'[k] = Cardinality(SlotHolders(k)') + Cardinality(Watched(k)')
                     /\ \A c \in keys'[k] : \E q \in SlotHolders(k)' \cup Watched(k)' : req'[q] = c
                     /\ SlotHolders(k)' # {} => inFlight'[k] <= Cap
            <4>1. CASE k = p
                <5>1. inFlight'[p] = Cardinality(SlotHolders(p)') + Cardinality(Watched(p)')
                    BY <2>h, <3>w, <3>c, <3>i, CountFinite DEF Counted
                <5>2. \A c \in keys'[p] : \E q \in SlotHolders(p)' \cup Watched(p)' : req'[q] = c
                    BY <2>h, <2>u, <3>w, <3>i DEF Reserved
                <5>3. SlotHolders(p)' = {} BY <2>h, <2>none
                <5> QED BY <4>1, <5>1, <5>2, <5>3
            <4>2. CASE k # p
                BY <4>2, <2>h, <3>w, <3>i, <1>Kept, GateStill
            <4> QED BY <4>1, <4>2
        <3> QED BY <3>2 DEF Counted, Reserved, Within
    <2> QED BY <2>1, <2>2
<1>5. ASSUME NEW p \in Procs, Crash(p) PROVE Counted' /\ Reserved' /\ Within'
    <2>u. UNCHANGED <<owner, req>> BY <1>5 DEF Crash, askVars
    <2>p. /\ inFlight'[p] = 0 /\ keys'[p] = {}
          /\ \A k \in Procs \ {p} : /\ inFlight'[k] = inFlight[k] /\ keys'[k] = keys[k]
                                    /\ watch'[k] = watch[k]
          /\ \A q \in Runs : watch'[p][q] = "none"
          /\ \A q \in Runs : pc'[q] = IF owner[q] = p /\ pc[q] # "done" THEN "lost" ELSE pc[q]
        BY <1>5, <1>type DEF Crash
    <2>e. SlotHolders(p)' = {} /\ Watched(p)' = {}
        BY <2>u, <2>p DEF SlotHolders, Watched, GatePCs
    <2>k. \A k \in Procs \ {p} : SlotHolders(k)' = SlotHolders(k) /\ Watched(k)' = Watched(k)
        BY <2>u, <2>p DEF SlotHolders, Watched, GatePCs
    <2>1. ASSUME NEW k \in Procs
          PROVE  /\ inFlight'[k] = Cardinality(SlotHolders(k)') + Cardinality(Watched(k)')
                 /\ \A c \in keys'[k] : \E q \in SlotHolders(k)' \cup Watched(k)' : req'[q] = c
                 /\ SlotHolders(k)' # {} => inFlight'[k] <= Cap
        <3>1. CASE k = p BY <3>1, <2>p, <2>e, FS_EmptySet
        <3>2. CASE k # p BY <3>2, <2>p, <2>k, <1>Kept, GateStill
        <3> QED BY <3>1, <3>2
    <2> QED BY <2>1 DEF Counted, Reserved, Within
<1>6. ASSUME NEW p \in Procs, NEW r \in Runs, WatchUngate(p, r)
      PROVE Counted' /\ Reserved' /\ Within'
    <2>u. UNCHANGED <<owner, req, pc>> BY <1>6 DEF WatchUngate, askVars
    <2>h. \A k \in Procs : SlotHolders(k)' = SlotHolders(k) BY <2>u DEF SlotHolders
    <2>w. /\ r \in Watched(p) /\ Watched(p)' = Watched(p) \ {r}
          /\ \A k \in Procs \ {p} : Watched(k)' = Watched(k)
        BY <1>6, <1>type DEF WatchUngate, Watched
    <2>c. Cardinality(Watched(p) \ {r}) = Cardinality(Watched(p)) - 1
        BY <2>w, CountFinite, FS_RemoveElement
    <2>i. /\ inFlight'[p] = inFlight[p] - 1 /\ keys'[p] = keys[p] \ {req[r]}
          /\ \A k \in Procs \ {p} : inFlight'[k] = inFlight[k] /\ keys'[k] = keys[k]
        <3>1. Cardinality(Watched(p)) # 0 BY <2>w, CountFinite, FS_EmptySet
        <3>2. inFlight[p] > 0 BY <3>1, CountFinite DEF Counted
        <3> QED BY <3>2, <1>6, <1>type DEF WatchUngate, GateRelease
    <2>1. ASSUME NEW k \in Procs
          PROVE  /\ inFlight'[k] = Cardinality(SlotHolders(k)') + Cardinality(Watched(k)')
                 /\ \A c \in keys'[k] : \E q \in SlotHolders(k)' \cup Watched(k)' : req'[q] = c
                 /\ SlotHolders(k)' # {} => inFlight'[k] <= Cap
        <3>1. CASE k = p
            <4>1. inFlight'[p] = Cardinality(SlotHolders(p)') + Cardinality(Watched(p)')
                BY <2>h, <2>w, <2>c, <2>i, CountFinite DEF Counted
            <4>2. \A c \in keys'[p] : \E q \in SlotHolders(p)' \cup Watched(p)' : req'[q] = c
                BY <2>h, <2>u, <2>w, <2>i DEF Reserved
            <4>3. SlotHolders(p)' # {} => inFlight'[p] <= Cap
                BY <2>h, <2>i, <1>type, CapPositive DEF Within
            <4> QED BY <3>1, <4>1, <4>2, <4>3
        <3>2. CASE k # p BY <3>2, <2>h, <2>w, <2>i, <1>Kept, GateStill
        <3> QED BY <3>1, <3>2
    <2> QED BY <2>1 DEF Counted, Reserved, Within
<1> QED BY <1>1, <1>2, <1>3, <1>4, <1>5, <1>6, Framed DEF SlotsMove

\* What restoration knows of a job stays true: a job it looks at or watches
\* is recorded, and one whose watcher let the flock go has ended.
LEMMA RestoringNext ==
    ASSUME IInv, Serving, Restoring, [Next]_vars
    PROVE  Restoring'
<1>Kept. Kept BY Framed
<1>type. /\ mgr \in [Procs -> {"down", "restoring", "serving"}]
         /\ restoreTodo \in [Procs -> SUBSET Runs]
         /\ restoreCur \in [Procs -> Runs \cup {NoRun}] /\ NoRun \notin Runs
         /\ watch \in [Procs -> [Runs -> {"none", "watching", "ungate"}]]
    BY NamesDistinct DEF IInv, TypeOK
<1>0. CASE UNCHANGED restoreVars
    BY <1>0, <1>Kept DEF Restoring, Kept, restoreVars
<1>1. ASSUME NEW p \in Procs, Start(p) PROVE Restoring'
    <2>u. UNCHANGED <<restoreCur, watch>> BY <1>1 DEF Start
    <2>1. /\ mgr[p] = "down" /\ mgr'[p] = "restoring" /\ restoreTodo'[p] \subseteq Runs
          /\ \A k \in Procs \ {p} : mgr'[k] = mgr[k] /\ restoreTodo'[k] = restoreTodo[k]
        BY <1>1, <1>type DEF Start, OnDisk
    <2> QED BY <2>u, <2>1, <1>Kept DEF Restoring, Kept
<1>2. ASSUME NEW p \in Procs, NEW r \in Runs, RestoreCheck(p, r) PROVE Restoring'
    <2>u. UNCHANGED <<mgr, watch>> BY <1>2 DEF RestoreCheck
    <2>1. /\ mgr[p] = "restoring" /\ restoreCur[p] = NoRun /\ r \in restoreTodo[p]
          /\ restoreTodo'[p] = restoreTodo[p] \ {r}
          /\ (restoreCur'[p] = r /\ meta[r] = "recorded") \/ restoreCur'[p] = NoRun
          /\ \A k \in Procs \ {p} : /\ restoreCur'[k] = restoreCur[k]
                                    /\ restoreTodo'[k] = restoreTodo[k]
        BY <1>2, <1>type DEF RestoreCheck, LiveJob, ProcessAlive
    <2> QED BY <2>u, <2>1, <1>type, <1>Kept DEF Restoring, Kept
<1>3. ASSUME NEW p \in Procs, ForceAdmit(p) PROVE Restoring'
    <2>u. UNCHANGED <<mgr, restoreTodo>> BY <1>3 DEF ForceAdmit
    <2>1. /\ mgr[p] = "restoring" /\ restoreCur[p] # NoRun /\ restoreCur'[p] = NoRun
          /\ \A k \in Procs \ {p} : restoreCur'[k] = restoreCur[k]
          /\ watch'[p][restoreCur[p]] = "watching" \/ watch' = watch
          /\ \A k \in Procs, q \in Runs : k # p \/ q # restoreCur[p] => watch'[k][q] = watch[k][q]
        BY <1>3, <1>type DEF ForceAdmit
    <2> QED BY <2>u, <2>1, <1>type, <1>Kept DEF Restoring, Kept
<1>4. ASSUME NEW p \in Procs, Serve(p) PROVE Restoring'
    <2>u. UNCHANGED <<restoreTodo, restoreCur, watch>> BY <1>4 DEF Serve
    <2>1. /\ mgr'[p] = "serving" /\ restoreCur[p] = NoRun /\ restoreTodo[p] = {}
          /\ \A k \in Procs \ {p} : mgr'[k] = mgr[k]
        BY <1>4, <1>type DEF Serve
    <2> QED BY <2>u, <2>1, <1>type, <1>Kept DEF Restoring, Kept
<1>5. ASSUME NEW p \in Procs, Crash(p) PROVE Restoring'
    <2>1. /\ \A q \in Runs : watch'[p][q] = "none"
          /\ restoreTodo'[p] = {} /\ restoreCur'[p] = NoRun
          /\ \A k \in Procs \ {p} : /\ mgr'[k] = mgr[k] /\ restoreTodo'[k] = restoreTodo[k]
                                    /\ restoreCur'[k] = restoreCur[k] /\ watch'[k] = watch[k]
        BY <1>5, <1>type DEF Crash
    <2> QED BY <2>1, <1>type, <1>Kept DEF Restoring, Kept
<1>6. ASSUME NEW p \in Procs, NEW r \in Runs, WatchDead(p, r) \/ WatchUngate(p, r)
      PROVE Restoring'
    <2>u. UNCHANGED <<mgr, restoreTodo, restoreCur>> BY <1>6 DEF WatchDead, WatchUngate
    <2>1. /\ watch[p][r] # "none"
          /\ watch'[p][r] = "none" \/ (watch'[p][r] = "ungate" /\ ~LiveJob(r))
          /\ \A k \in Procs, q \in Runs : k # p \/ q # r => watch'[k][q] = watch[k][q]
        BY <1>6, <1>type DEF WatchDead, WatchUngate
    <2> QED BY <2>u, <2>1, <1>Kept DEF Restoring, Kept
<1> QED BY <1>0, <1>1, <1>2, <1>3, <1>4, <1>5, <1>6, Framed
    DEF RestoreMoves, RestoreStep, WatchStep

\* A job that is alone on its conversation was alone before.
LEMMA AloneBefore ==
    ASSUME IInv, Kept, NEW r \in Runs, pc[r] # "idle", AloneOnKey(r)'
    PROVE  AloneOnKey(r)
BY DEF AloneOnKey, Kept, IInv, Progress

\* The jobs a process lost in a crash are restored before it serves again.
\* forceAdmit passes a job over only for another recorded one on its key.
LEMMA RestoredNext ==
    ASSUME IInv, Serving, Reserved, Restoring, Restored, [Next]_vars
    PROVE  Restored'
<1>Kept. Kept BY Framed
<1>type. /\ mgr \in [Procs -> {"down", "restoring", "serving"}]
         /\ restoreTodo \in [Procs -> SUBSET Runs]
         /\ restoreCur \in [Procs -> Runs \cup {NoRun}] /\ NoRun \notin Runs
         /\ watch \in [Procs -> [Runs -> {"none", "watching", "ungate"}]]
         /\ unrestored \in [Procs -> SUBSET Runs]
    BY NamesDistinct DEF IInv, TypeOK
<1> SUFFICES ASSUME NEW k \in Procs, NEW q \in Runs,
                    owner'[q] = k, pc'[q] = "lost", LiveJob(q)', AloneOnKey(q)', mgr'[k] # "down"
             PROVE  q \in restoreTodo'[k] \/ restoreCur'[k] = q \/ watch'[k][q] # "none"
                \/ q \in unrestored'[k]
    BY DEF Restored
<1>lost. owner[q] = k /\ pc[q] = "lost" /\ meta[q] = "recorded" /\ LiveJob(q)
    <2>1. pc[q] = "lost" BY <1>Kept DEF Kept
    <2>2. owner[q] = k /\ meta[q] = "recorded"
        BY <2>1, <1>Kept DEF Kept, LiveJob, ProcessAlive
    <2> QED BY <2>1, <2>2, <1>Kept DEF Kept
<1>alone. AloneOnKey(q) BY <1>lost, <1>Kept, AloneBefore
<1>was. mgr[k] # "down" => q \in restoreTodo[k] \/ restoreCur[k] = q \/ watch[k][q] # "none"
                \/ q \in unrestored[k]
    BY <1>lost, <1>alone DEF Restored
<1>0. CASE UNCHANGED restoreVars
    BY <1>0, <1>was DEF restoreVars
<1>1. ASSUME NEW p \in Procs, Start(p)
      PROVE  q \in restoreTodo'[k] \/ restoreCur'[k] = q \/ watch'[k][q] # "none"
                \/ q \in unrestored'[k]
    <2>1. CASE k = p BY <2>1, <1>1, <1>type, <1>lost DEF Start, OnDisk
    <2>2. CASE k # p BY <2>2, <1>1, <1>type, <1>was DEF Start
    <2> QED BY <2>1, <2>2
<1>2. ASSUME NEW p \in Procs, NEW r \in Runs, RestoreCheck(p, r)
      PROVE  q \in restoreTodo'[k] \/ restoreCur'[k] = q \/ watch'[k][q] # "none"
                \/ q \in unrestored'[k]
    BY <1>2, <1>type, <1>lost, <1>was DEF RestoreCheck
<1>3. ASSUME NEW p \in Procs, ForceAdmit(p)
      PROVE  q \in restoreTodo'[k] \/ restoreCur'[k] = q \/ watch'[k][q] # "none"
                \/ q \in unrestored'[k]
    <2>1. CASE k = p /\ q = restoreCur[p]
        <3>1. ~KeyBusy(p, req[q])
            <4> SUFFICES ASSUME req[q] \in keys[p] PROVE FALSE
                BY DEF KeyBusy
            <4>1. mgr[p] = "restoring" BY <1>3 DEF ForceAdmit
            <4>2. PICK s \in Runs : watch[p][s] # "none" /\ req[s] = req[q]
                BY <4>1 DEF Reserved, Serving, SlotHolders, Watched, GatePCs
            <4>3. s # q /\ meta[s] = "recorded" BY <4>2, <2>1 DEF Restoring
            <4>4. req[q] # Fresh BY NamesDistinct DEF IInv, TypeOK
            <4> QED BY <4>2, <4>3, <4>4, <1>alone DEF AloneOnKey
        <3> QED BY <3>1, <2>1, <1>3, <1>type DEF ForceAdmit
    <2>2. CASE k # p \/ q # restoreCur[p]
        BY <2>2, <1>3, <1>type, <1>was DEF ForceAdmit
    <2> QED BY <2>1, <2>2
<1>4. ASSUME NEW p \in Procs, Serve(p)
      PROVE  q \in restoreTodo'[k] \/ restoreCur'[k] = q \/ watch'[k][q] # "none"
                \/ q \in unrestored'[k]
    BY <1>4, <1>type, <1>was DEF Serve
<1>5. ASSUME NEW p \in Procs, Crash(p)
      PROVE  q \in restoreTodo'[k] \/ restoreCur'[k] = q \/ watch'[k][q] # "none"
                \/ q \in unrestored'[k]
    BY <1>5, <1>type, <1>was DEF Crash
<1>6. ASSUME NEW p \in Procs, NEW r \in Runs, WatchDead(p, r) \/ WatchUngate(p, r)
      PROVE  q \in restoreTodo'[k] \/ restoreCur'[k] = q \/ watch'[k][q] # "none"
                \/ q \in unrestored'[k]
    <2>1. k # p \/ q # r => watch'[k][q] = watch[k][q]
        BY <1>6, <1>type DEF WatchDead, WatchUngate
    <2>2. CASE k = p /\ q = r
        <3>1. WatchDead(p, r) => FALSE BY <2>2, <1>lost DEF WatchDead
        <3>2. WatchUngate(p, r) => FALSE
            BY <2>2, <1>lost DEF WatchUngate, Restoring
        <3> QED BY <3>1, <3>2, <1>6
    <2>3. UNCHANGED <<mgr, restoreTodo, restoreCur, unrestored>>
        BY <1>6 DEF WatchDead, WatchUngate
    <2> QED BY <2>1, <2>2, <2>3, <1>was
<1> QED BY <1>0, <1>1, <1>2, <1>3, <1>4, <1>5, <1>6, Framed
    DEF RestoreMoves, RestoreStep, WatchStep

\* The counting invariant holds at first, and every step keeps it.
LEMMA CountInit == Init => CInv
<1> SUFFICES ASSUME Init PROVE CInv
    OBVIOUS
<1>1. IInv BY InvInit
<1>2. \A p \in Procs : SlotHolders(p) = {} /\ Watched(p) = {}
    BY DEF Init, SlotHolders, Watched, GatePCs
<1>3. Counted /\ Reserved /\ Within
    <2>1. \A p \in Procs : inFlight[p] = 0 /\ keys[p] = {} BY DEF Init
    <2>2. Counted BY <1>2, <2>1, FS_EmptySet DEF Counted
    <2> QED BY <1>2, <2>1, <2>2 DEF Reserved, Within
<1>4. Serving /\ Restoring /\ Restored
    BY NamesDistinct DEF Init, Serving, Restoring, Restored
<1> QED BY <1>1, <1>3, <1>4 DEF CInv

LEMMA CountNext == CInv /\ [Next]_vars => CInv'
BY InvNext, Framed, CountingNext, RestoringNext, RestoredNext DEF CInv

LEMMA Counting == Spec => []CInv
BY CountInit, CountNext, PTL DEF Spec

-----------------------------------------------------------------------------
(* What the counting invariant implies.                                    *)

\* Slots, keys and flocks are exactly those of the holders.
LEMMA CountExact == CInv => GateExact
<1> SUFFICES ASSUME CInv, NEW p \in Procs
             PROVE  /\ inFlight[p] = Cardinality(SlotHolders(p)) + Cardinality(Watched(p))
                    /\ keys[p] = {req[r] : r \in SlotHolders(p) \cup Watched(p)} \ {Fresh}
                    /\ \A c \in Convs : flock[c] = p =>
                          \/ \E r \in SlotHolders(p) : req[r] = c /\ pc[r] \in LockPCs
                          \/ \E r \in Watched(p) : req[r] = c /\ watch[p][r] = "watching"
    BY DEF GateExact
<1>1. keys[p] \subseteq Convs /\ p # NoProc BY NamesDistinct DEF CInv, IInv, TypeOK
<1>2. keys[p] = {req[r] : r \in SlotHolders(p) \cup Watched(p)} \ {Fresh}
    <2>1. ASSUME NEW c \in keys[p] PROVE c \in {req[r] : r \in SlotHolders(p) \cup Watched(p)} \ {Fresh}
        BY <1>1, NamesDistinct DEF CInv, Reserved
    <2>2. ASSUME NEW r \in SlotHolders(p) \cup Watched(p), req[r] # Fresh PROVE req[r] \in keys[p]
        BY <2>2 DEF CInv, IInv, Gate, SlotHolders, Watched
    <2> QED BY <2>1, <2>2
<1>3. ASSUME NEW c \in Convs, flock[c] = p
      PROVE  \/ \E r \in SlotHolders(p) : req[r] = c /\ pc[r] \in LockPCs
             \/ \E r \in Watched(p) : req[r] = c /\ watch[p][r] = "watching"
    BY <1>1, <1>3 DEF CInv, IInv, Locks, SlotHolders, Watched, LockPCs, GatePCs
<1> QED BY <1>2, <1>3 DEF CInv, Counted

\* Once it serves, a process watches every job it had recorded.
LEMMA CountRestored == CInv => RestoreCountsRecorded
BY DEF CInv, Restored, Restoring, RestoreCountsRecorded, Watched

\* A supervisor is started by a holder that was admitted below the cap, and
\* it is not itself one of the live jobs counted.
LEMMA SpawnBelowCap ==
    ASSUME CInv, NEW r \in Runs, Spawn(r), sup[r] = "none"
    PROVE  Cardinality(LiveCounted(owner[r])) < Cap
<1> DEFINE o == owner[r]
           S == SlotHolders(o) \cup Watched(o)
<1>1. r \in SlotHolders(o) /\ o \in Procs
    BY DEF Spawn, SlotHolders, GatePCs, CInv, IInv, Progress
<1>2. inFlight[o] <= Cap /\ inFlight[o] = Cardinality(SlotHolders(o)) + Cardinality(Watched(o))
    BY <1>1 DEF CInv, Within, Counted
<1>3. /\ IsFiniteSet(S) /\ Cardinality(S) \in Nat /\ Cardinality(S) <= inFlight[o]
    <2>1. IsFiniteSet(S) /\ Cardinality(S) =
            Cardinality(SlotHolders(o)) + Cardinality(Watched(o))
                - Cardinality(SlotHolders(o) \cap Watched(o))
        BY CountFinite, FS_Union
    <2>2. Cardinality(SlotHolders(o) \cap Watched(o)) \in Nat
        BY CountFinite, FS_Intersection, FS_CardinalityType
    <2>3. Cardinality(S) \in Nat BY <2>1, FS_CardinalityType
    <2> QED BY <2>1, <2>2, <2>3, <1>2, CountFinite
<1>4. IsFiniteSet(S \ {r}) /\ Cardinality(S \ {r}) = Cardinality(S) - 1
    BY <1>1, <1>3, FS_RemoveElement
<1>5. LiveCounted(o) \subseteq S \ {r} BY DEF LiveCounted
<1>6. Cardinality(LiveCounted(o)) \in Nat /\ Cardinality(LiveCounted(o)) <= Cardinality(S \ {r})
    BY <1>4, <1>5, FS_Subset, FS_CardinalityType
<1>7. inFlight[o] \in Nat BY <1>1 DEF CInv, IInv, TypeOK
<1> QED BY <1>2, <1>3, <1>4, <1>6, <1>7, CapPositive

\* Spawn is the only step that starts a supervisor, and it starts its own.
LEMMA OnlySpawn ==
    ASSUME TypeOK, [Next]_vars, NEW q \in Runs, sup[q] = "none", sup'[q] = "up"
    PROVE  Spawn(q)
<1>sup. sup \in [Runs -> {"none", "up", "gone"}] BY DEF TypeOK
<1>1. sup' # sup OBVIOUS
<1>2. ASSUME NEW r \in Runs, ManagerStep(r) PROVE Spawn(r)
    BY <1>1, <1>2 DEF ManagerStep, ScanList, ScanJob, ScanProgress, ScanDone, TryAcquire, TryLock,
        Rollback, Create, RecordPid, WaitReturns, AbortReaped, Unlock, Ungate, procVars
<1>3. ASSUME NEW r \in Runs, SupervisorStep(r) PROVE SupervisorExit(r)
    BY <1>1, <1>3 DEF SupervisorStep, StartAgy, RecordName, WriteExit, procVars
<1>4. ASSUME NEW p \in Procs, RestoreStep(p) PROVE FALSE
    BY <1>1, <1>4 DEF RestoreStep, RestoreCheck, ForceAdmit, Serve, procVars
<1>5. ASSUME NEW p \in Procs, NEW r \in Runs, WatchStep(p, r) PROVE FALSE
    BY <1>1, <1>5 DEF WatchStep, WatchDead, WatchUngate, procVars
<1>6. \/ \E r \in Runs : Spawn(r)
      \/ \E r \in Runs : SupervisorExit(r) \/ SupervisorCrash(r)
    BY <1>1, <1>2, <1>3, <1>4, <1>5
    DEF Next, Begin, AgyExit, NameSession, Start, Crash, vars, procVars
<1>7. ASSUME NEW r \in Runs, SupervisorExit(r) \/ SupervisorCrash(r) PROVE FALSE
    BY <1>7, <1>sup DEF SupervisorExit, SupervisorCrash
<1>8. ASSUME NEW r \in Runs, Spawn(r) PROVE r = q
    BY <1>8, <1>sup DEF Spawn
<1> QED BY <1>6, <1>7, <1>8

\* The counting invariant makes every admission respect the cap.
LEMMA CountCap == CInv /\ [Next]_vars =>
    [\A r \in Runs : sup[r] = "none" /\ sup'[r] = "up"
        => Cardinality(LiveCounted(owner[r])) < Cap]_vars
BY SpawnBelowCap, OnlySpawn DEF CInv, IInv

-----------------------------------------------------------------------------
\* The variables keep their types, whatever the constants.
THEOREM TypeCorrect == Spec => []TypeOK
BY TypeInit, TypeNext, PTL DEF Spec

\* Two attended agy sessions never drive one conversation, unless one is a fresh
\* run and the other's scan could not read its directory: what the gate, the
\* flock and conversationLive promise together, for any number of processes,
\* runs and unreadable files.
THEOREM Exclusion == Spec => []ConversationExclusion
BY Invariance, InvExclusion, PTL

\* No run reaches agy past a job that was live on its conversation, unless its
\* scan met that job and could not read it, whatever crashes happen in between
\* (conversationLive).
THEOREM ScanSound == Spec => []ScanBlocksLiveJobs
BY Invariance, InvScan, PTL

\* The release order of issue #81: a process that reserves a key in its gate
\* never finds the flock of that key held by itself.
THEOREM NoSelfBusy == Spec => []NoSelfInflictedBusy
BY Invariance, InvBusy, PTL

\* No failure, rollback, abort, crash or restoration leaks a slot, a key or a
\* flock, or gives one back twice.
THEOREM SlotsExact == Spec => []GateExact
BY Counting, CountExact, PTL

\* Every job a process recorded before it was killed, and that still runs, is
\* counted again before the process serves, or its meta.json could not be read
\* (restoreEvaluate).
THEOREM RestoresRecorded == Spec => []RestoreCountsRecorded
BY Counting, CountRestored, PTL

\* No supervisor is started while Cap live ones are counted, however many
\* jobs restoration forced past the cap.
THEOREM CapRespected == Spec => AdmissionRespectsCap
BY Counting, CountCap, PTL DEF Spec, AdmissionRespectsCap
=============================================================================
