------------------------- MODULE IdempotencyProofs -------------------------
(***************************************************************************)
(* Proofs about Idempotency, for any number of processes, calls and        *)
(* requests, and any number of crashes and faults.                         *)
(*                                                                         *)
(* The inductive invariant says, in the order of its conjuncts: how far a  *)
(* job can be, given where its call is (Phases); that the entry and the    *)
(* lock file each have one holder (Claims, Locks); that a call which holds *)
(* the lock either has every job on record still to read or has found none *)
(* (Searched); and that a replay was handed a real job (ReplayIsReal).      *)
(***************************************************************************)
EXTENDS Idempotency, TLAPS

Creating == {"admit", "mkdir", "write", "spawn", "record", "abort"}
Over == {"unlock", "release", "done", "lost"}

Phases ==
    \A c \in Calls :
        /\ pc[c] # "idle" => owner[c] \in Procs
        /\ pc[c] = "idle" => reply[c] = NoCall
        /\ sup[c] # "none" => pc[c] \in {"record", "abort"} \cup Over
        /\ pc[c] \in {"record", "abort"} => sup[c] # "none"
        /\ answer[c] = "started" => pc[c] \in Over
        /\ dir[c] = "recorded" => answer[c] = "started" /\ sup[c] # "none"
        /\ sup[c] = "up" => pc[c] \in {"record", "abort", "lost"} \/ dir[c] = "recorded"

Claims ==
    /\ \A c \in Calls : pc[c] \in ClaimPCs => owner[c] \in claimed
    /\ \A p \in claimed : \E c \in Calls : pc[c] \in ClaimPCs /\ owner[c] = p
    /\ \A c, d \in Calls : pc[c] \in ClaimPCs /\ pc[d] \in ClaimPCs /\ owner[c] = owner[d]
          => c = d

Locks ==
    /\ \A c \in Calls : pc[c] \in LockPCs => flock = owner[c]
    /\ flock # NoProc => \E c \in Calls : pc[c] \in LockPCs /\ owner[c] = flock

Searched ==
    /\ \A c, j \in Calls : dir[j] = "recorded" =>
          /\ pc[c] = "look" => j \in todo[c]
          /\ pc[c] \notin Creating
    /\ \A c, d \in Calls : dir[c] = "recorded" /\ dir[d] = "recorded" => c = d

IInv == TypeOK /\ Phases /\ Claims /\ Locks /\ Searched /\ ReplayIsReal

-----------------------------------------------------------------------------
\* It holds at first.
LEMMA InvInit == Init => IInv
<1> SUFFICES ASSUME Init PROVE IInv
    OBVIOUS
<1>1. TypeOK BY BoundsNat DEF Init, TypeOK
<1>2. Phases /\ Searched /\ ReplayIsReal
    BY NamesDistinct DEF Init, Phases, Searched, ReplayIsReal, Creating
<1>3. Claims /\ Locks
    BY DEF Init, Claims, Locks, ClaimPCs, LockPCs
<1> QED BY <1>1, <1>2, <1>3 DEF IInv

\* Every step keeps the invariant, action by action.
LEMMA InvNext == IInv /\ [Next]_vars => IInv'
<1> SUFFICES ASSUME TypeOK, Phases, Claims, Locks, Searched, ReplayIsReal, [Next]_vars
             PROVE IInv'
    BY DEF IInv
<1> USE NamesDistinct, BoundsNat
<1>dom. /\ DOMAIN pc = Calls /\ DOMAIN owner = Calls /\ DOMAIN want = Calls
        /\ DOMAIN todo = Calls /\ DOMAIN answer = Calls /\ DOMAIN reply = Calls
        /\ DOMAIN dir = Calls /\ DOMAIN sup = Calls
    BY DEF TypeOK
<1>one. ASSUME NEW c \in Calls, NEW d \in Calls, pc[c] \in LockPCs, pc[d] \in LockPCs
        PROVE c = d
    BY <1>one DEF Locks, Claims, LockPCs, ClaimPCs
<1>1. ASSUME NEW c \in Calls, NEW p \in Procs, NEW q \in Requests, Call(c, p, q) PROVE IInv'
    <2>f. /\ pc[c] = "idle"
          /\ pc' = [pc EXCEPT ![c] = "claim"]
          /\ owner' = [owner EXCEPT ![c] = p]
          /\ want' = [want EXCEPT ![c] = q]
          /\ UNCHANGED <<up, claimed, flock, todo, answer, reply, dir, sup, crashes, faults>>
        BY <1>1 DEF Call, NoFault, Go, claimVars, callVars, bounds
    <2>1. TypeOK'
        BY <2>f, <1>dom DEF TypeOK, ClaimPCs, OnDisk
    <2>2. Phases'
        BY <2>f, <1>dom DEF Phases, Over
    <2>3. Claims'
        BY <2>f, <1>dom DEF Claims, ClaimPCs
    <2>4. Locks'
        BY <2>f, <1>dom DEF Locks, LockPCs, ClaimPCs
    <2>5. Searched'
        BY <2>f, <1>dom DEF Searched, Creating, OnDisk
    <2>6. ReplayIsReal'
        BY <2>f, <1>dom DEF ReplayIsReal, Phases, Over
    <2> QED BY <2>1, <2>2, <2>3, <2>4, <2>5, <2>6 DEF IInv
<1>2. ASSUME NEW c \in Calls, Claim(c) PROVE IInv'
    <2>1. ASSUME pc[c] = "claim",
                 pc' = [pc EXCEPT ![c] = "done"],
                 answer' = [answer EXCEPT ![c] = "busy"],
                 UNCHANGED <<up, claimed, flock, owner, want, todo, reply, dir, sup, crashes,
                     faults>>
          PROVE IInv'
        <3>1. TypeOK'
            BY <2>1, <1>dom DEF TypeOK, ClaimPCs, OnDisk
        <3>2. Phases'
            BY <2>1, <1>dom DEF Phases, Over
        <3>3. Claims'
            BY <2>1, <1>dom DEF Claims, ClaimPCs
        <3>4. Locks'
            BY <2>1, <1>dom DEF Locks, LockPCs, ClaimPCs
        <3>5. Searched'
            BY <2>1, <1>dom DEF Searched, Creating, OnDisk
        <3>6. ReplayIsReal'
            BY <2>1, <1>dom DEF ReplayIsReal, Phases, Over
        <3> QED BY <3>1, <3>2, <3>3, <3>4, <3>5, <3>6 DEF IInv
    <2>2. ASSUME pc[c] = "claim",
                 owner[c] \notin claimed,
                 claimed' = claimed \cup {owner[c]},
                 pc' = [pc EXCEPT ![c] = "flock"],
                 UNCHANGED <<up, flock, owner, want, todo, answer, reply, dir, sup, crashes,
                     faults>>
          PROVE IInv'
        <3>1. TypeOK'
            <4>1. owner[c] \in Procs BY <2>2 DEF Phases
            <4> QED BY <2>2, <4>1, <1>dom DEF TypeOK, ClaimPCs
        <3>2. Phases'
            BY <2>2, <1>dom DEF Phases, Over
        <3>3. Claims'
            BY <2>2, <1>dom DEF Claims, ClaimPCs
        <3>4. Locks'
            BY <2>2, <1>dom DEF Locks, LockPCs, ClaimPCs
        <3>5. Searched'
            BY <2>2, <1>dom DEF Searched, Creating, OnDisk
        <3>6. ReplayIsReal'
            BY <2>2 DEF ReplayIsReal
        <3> QED BY <3>1, <3>2, <3>3, <3>4, <3>5, <3>6 DEF IInv
    <2> QED BY <1>2, <2>1, <2>2 DEF Claim, NoFault, Go, Answer, claimVars, callVars, bounds
<1>3. ASSUME NEW c \in Calls, TryLock(c) PROVE IInv'
    <2>1. ASSUME pc[c] = "flock",
                 flock = NoProc,
                 flock' = owner[c],
                 pc' = [pc EXCEPT ![c] = "list"],
                 UNCHANGED <<up, claimed, owner, want, todo, answer, reply, dir, sup, crashes,
                     faults>>
          PROVE IInv'
        <3>1. TypeOK'
            BY <2>1, <1>dom DEF TypeOK, ClaimPCs, OnDisk
        <3>2. Phases'
            BY <2>1, <1>dom DEF Phases, Over
        <3>3. Claims'
            BY <2>1, <1>dom DEF Claims, ClaimPCs
        <3>4. Locks'
            <4>1. ASSUME NEW d \in Calls PROVE pc[d] \notin LockPCs
                BY <2>1, <4>1 DEF Phases, Locks, LockPCs, ClaimPCs
            <4>2. owner[c] \in Procs /\ pc'[c] = "list" /\ \A d \in Calls \ {c} : pc'[d] = pc[d]
                BY <2>1, <1>dom DEF Phases
            <4> QED BY <2>1, <4>1, <4>2 DEF Locks, LockPCs, ClaimPCs
        <3>5. Searched'
            BY <2>1, <1>dom DEF Searched, Creating, OnDisk
        <3>6. ReplayIsReal'
            BY <2>1 DEF ReplayIsReal
        <3> QED BY <3>1, <3>2, <3>3, <3>4, <3>5, <3>6 DEF IInv
    <2>2. ASSUME pc[c] = "flock",
                 pc' = [pc EXCEPT ![c] = "unclaim"],
                 answer' = [answer EXCEPT ![c] = "error"],
                 UNCHANGED <<up, claimed, flock, owner, want, todo, reply, dir, sup, crashes,
                     faults>>
          PROVE IInv'
        <3>1. TypeOK'
            BY <2>2, <1>dom DEF TypeOK, ClaimPCs, OnDisk
        <3>2. Phases'
            BY <2>2, <1>dom DEF Phases, Over
        <3>3. Claims'
            BY <2>2, <1>dom DEF Claims, ClaimPCs
        <3>4. Locks'
            BY <2>2, <1>dom DEF Locks, LockPCs, ClaimPCs
        <3>5. Searched'
            BY <2>2, <1>dom DEF Searched, Creating, OnDisk
        <3>6. ReplayIsReal'
            BY <2>2, <1>dom DEF ReplayIsReal, Phases, Over
        <3> QED BY <3>1, <3>2, <3>3, <3>4, <3>5, <3>6 DEF IInv
    <2>3. ASSUME pc[c] = "flock",
                 pc' = [pc EXCEPT ![c] = "unclaim"],
                 answer' = [answer EXCEPT ![c] = "busy"],
                 UNCHANGED <<up, claimed, flock, owner, want, todo, reply, dir, sup, crashes,
                     faults>>
          PROVE IInv'
        <3>1. TypeOK'
            BY <2>3, <1>dom DEF TypeOK, ClaimPCs, OnDisk
        <3>2. Phases'
            BY <2>3, <1>dom DEF Phases, Over
        <3>3. Claims'
            BY <2>3, <1>dom DEF Claims, ClaimPCs
        <3>4. Locks'
            BY <2>3, <1>dom DEF Locks, LockPCs, ClaimPCs
        <3>5. Searched'
            BY <2>3, <1>dom DEF Searched, Creating, OnDisk
        <3>6. ReplayIsReal'
            BY <2>3, <1>dom DEF ReplayIsReal, Phases, Over
        <3> QED BY <3>1, <3>2, <3>3, <3>4, <3>5, <3>6 DEF IInv
    <2>4. ASSUME pc[c] = "flock",
                 faults < MaxFaults,
                 pc' = [pc EXCEPT ![c] = "unclaim"],
                 answer' = [answer EXCEPT ![c] = "error"],
                 faults' = faults + 1,
                 UNCHANGED <<up, claimed, flock, owner, want, todo, reply, dir, sup, crashes>>
          PROVE IInv'
        <3>1. TypeOK'
            BY <2>4, <1>dom DEF TypeOK, ClaimPCs, OnDisk
        <3>2. Phases'
            BY <2>4, <1>dom DEF Phases, Over
        <3>3. Claims'
            BY <2>4, <1>dom DEF Claims, ClaimPCs
        <3>4. Locks'
            BY <2>4, <1>dom DEF Locks, LockPCs, ClaimPCs
        <3>5. Searched'
            BY <2>4, <1>dom DEF Searched, Creating, OnDisk
        <3>6. ReplayIsReal'
            BY <2>4, <1>dom DEF ReplayIsReal, Phases, Over
        <3> QED BY <3>1, <3>2, <3>3, <3>4, <3>5, <3>6 DEF IInv
    <2> QED BY <1>3, <2>1, <2>2, <2>3, <2>4 DEF TryLock, LockFree, Fault, NoFault, Go, Answer,
        claimVars, callVars, bounds
<1>4. ASSUME NEW c \in Calls, Unclaim(c) PROVE IInv'
    <2>f. /\ pc[c] = "unclaim"
          /\ claimed' = claimed \ {owner[c]}
          /\ pc' = [pc EXCEPT ![c] = "done"]
          /\ UNCHANGED <<up, flock, owner, want, todo, answer, reply, dir, sup, crashes,
              faults>>
        BY <1>4 DEF Unclaim, NoFault, Go, claimVars, callVars, bounds
    <2>1. TypeOK'
        BY <2>f, <1>dom DEF TypeOK, ClaimPCs, OnDisk
    <2>2. Phases'
        BY <2>f, <1>dom DEF Phases, Over
    <2>3. Claims'
        BY <2>f, <1>dom DEF Claims, ClaimPCs
    <2>4. Locks'
        BY <2>f, <1>dom DEF Locks, LockPCs, ClaimPCs
    <2>5. Searched'
        BY <2>f, <1>dom DEF Searched, Creating, OnDisk
    <2>6. ReplayIsReal'
        BY <2>f DEF ReplayIsReal
    <2> QED BY <2>1, <2>2, <2>3, <2>4, <2>5, <2>6 DEF IInv
<1>5. ASSUME NEW c \in Calls, List(c) PROVE IInv'
    <2>1. ASSUME pc[c] = "list",
                 pc' = [pc EXCEPT ![c] = "look"],
                 todo' = [todo EXCEPT ![c] = OnDisk],
                 UNCHANGED <<up, claimed, flock, owner, want, answer, reply, dir, sup,
                     crashes, faults>>
          PROVE IInv'
        <3>1. TypeOK'
            BY <2>1, <1>dom DEF TypeOK, ClaimPCs, OnDisk
        <3>2. Phases'
            BY <2>1, <1>dom DEF Phases, Over
        <3>3. Claims'
            BY <2>1, <1>dom DEF Claims, ClaimPCs
        <3>4. Locks'
            BY <2>1, <1>dom DEF Locks, LockPCs, ClaimPCs
        <3>5. Searched'
            BY <2>1, <1>dom DEF Searched, Creating, OnDisk
        <3>6. ReplayIsReal'
            BY <2>1 DEF ReplayIsReal
        <3> QED BY <3>1, <3>2, <3>3, <3>4, <3>5, <3>6 DEF IInv
    <2>2. ASSUME pc[c] = "list",
                 faults < MaxFaults,
                 pc' = [pc EXCEPT ![c] = "unlock"],
                 answer' = [answer EXCEPT ![c] = "error"],
                 faults' = faults + 1,
                 UNCHANGED <<up, claimed, flock, owner, want, todo, reply, dir, sup, crashes>>
          PROVE IInv'
        <3>1. TypeOK'
            BY <2>2, <1>dom DEF TypeOK, ClaimPCs, OnDisk
        <3>2. Phases'
            BY <2>2, <1>dom DEF Phases, Over
        <3>3. Claims'
            BY <2>2, <1>dom DEF Claims, ClaimPCs
        <3>4. Locks'
            BY <2>2, <1>dom DEF Locks, LockPCs, ClaimPCs
        <3>5. Searched'
            BY <2>2, <1>dom DEF Searched, Creating, OnDisk
        <3>6. ReplayIsReal'
            BY <2>2, <1>dom DEF ReplayIsReal, Phases, Over
        <3> QED BY <3>1, <3>2, <3>3, <3>4, <3>5, <3>6 DEF IInv
    <2> QED BY <1>5, <2>1, <2>2 DEF List, Fault, NoFault, Go, Answer, Finish, claimVars,
        callVars, bounds
<1>6. ASSUME NEW c \in Calls, NEW j \in Calls, Look(c, j) PROVE IInv'
    <2>1. ASSUME pc[c] = "look",
                 pc' = [pc EXCEPT ![c] = "unlock"],
                 answer' = [answer EXCEPT ![c] = "error"],
                 UNCHANGED <<up, claimed, flock, owner, want, todo, reply, dir, sup, crashes,
                     faults>>
          PROVE IInv'
        <3>1. TypeOK'
            BY <2>1, <1>dom DEF TypeOK, ClaimPCs, OnDisk
        <3>2. Phases'
            BY <2>1, <1>dom DEF Phases, Over
        <3>3. Claims'
            BY <2>1, <1>dom DEF Claims, ClaimPCs
        <3>4. Locks'
            BY <2>1, <1>dom DEF Locks, LockPCs, ClaimPCs
        <3>5. Searched'
            BY <2>1, <1>dom DEF Searched, Creating, OnDisk
        <3>6. ReplayIsReal'
            BY <2>1, <1>dom DEF ReplayIsReal, Phases, Over
        <3> QED BY <3>1, <3>2, <3>3, <3>4, <3>5, <3>6 DEF IInv
    <2>2. ASSUME pc[c] = "look",
                 pc' = [pc EXCEPT ![c] = "unlock"],
                 answer' = [answer EXCEPT ![c] = "conflict"],
                 UNCHANGED <<up, claimed, flock, owner, want, todo, reply, dir, sup, crashes,
                     faults>>
          PROVE IInv'
        <3>1. TypeOK'
            BY <2>2, <1>dom DEF TypeOK, ClaimPCs, OnDisk
        <3>2. Phases'
            BY <2>2, <1>dom DEF Phases, Over
        <3>3. Claims'
            BY <2>2, <1>dom DEF Claims, ClaimPCs
        <3>4. Locks'
            BY <2>2, <1>dom DEF Locks, LockPCs, ClaimPCs
        <3>5. Searched'
            BY <2>2, <1>dom DEF Searched, Creating, OnDisk
        <3>6. ReplayIsReal'
            BY <2>2, <1>dom DEF ReplayIsReal, Phases, Over
        <3> QED BY <3>1, <3>2, <3>3, <3>4, <3>5, <3>6 DEF IInv
    <2>3. ASSUME pc[c] = "look",
                 dir[j] # "recorded",
                 todo' = [todo EXCEPT ![c] = todo[c] \ {j}],
                 UNCHANGED <<up, claimed, flock, pc, owner, want, answer, reply, dir, sup,
                     crashes, faults>>
          PROVE IInv'
        <3>1. TypeOK'
            BY <2>3, <1>dom DEF TypeOK, ClaimPCs, OnDisk
        <3>2. Phases'
            BY <2>3 DEF Phases
        <3>3. Claims'
            BY <2>3 DEF Claims
        <3>4. Locks'
            BY <2>3 DEF Locks
        <3>5. Searched'
            BY <2>3, <1>dom DEF Searched, Creating, OnDisk
        <3>6. ReplayIsReal'
            BY <2>3 DEF ReplayIsReal
        <3> QED BY <3>1, <3>2, <3>3, <3>4, <3>5, <3>6 DEF IInv
    <2>4. ASSUME pc[c] = "look",
                 dir[j] = "recorded",
                 want[j] = want[c],
                 pc' = [pc EXCEPT ![c] = "unlock"],
                 answer' = [answer EXCEPT ![c] = "replayed"],
                 reply' = [reply EXCEPT ![c] = j],
                 UNCHANGED <<up, claimed, flock, owner, want, todo, dir, sup, crashes,
                     faults>>
          PROVE IInv'
        <3>1. TypeOK'
            BY <2>4, <1>dom DEF TypeOK, ClaimPCs, OnDisk
        <3>2. Phases'
            BY <2>4, <1>dom DEF Phases, Over
        <3>3. Claims'
            BY <2>4, <1>dom DEF Claims, ClaimPCs
        <3>4. Locks'
            BY <2>4, <1>dom DEF Locks, LockPCs, ClaimPCs
        <3>5. Searched'
            BY <2>4, <1>dom DEF Searched, Creating, OnDisk
        <3>6. ReplayIsReal'
            BY <2>4, <1>dom DEF ReplayIsReal, Phases, Over
        <3> QED BY <3>1, <3>2, <3>3, <3>4, <3>5, <3>6 DEF IInv
    <2>5. ASSUME pc[c] = "look",
                 faults < MaxFaults,
                 pc' = [pc EXCEPT ![c] = "unlock"],
                 answer' = [answer EXCEPT ![c] = "error"],
                 faults' = faults + 1,
                 UNCHANGED <<up, claimed, flock, owner, want, todo, reply, dir, sup, crashes>>
          PROVE IInv'
        <3>1. TypeOK'
            BY <2>5, <1>dom DEF TypeOK, ClaimPCs, OnDisk
        <3>2. Phases'
            BY <2>5, <1>dom DEF Phases, Over
        <3>3. Claims'
            BY <2>5, <1>dom DEF Claims, ClaimPCs
        <3>4. Locks'
            BY <2>5, <1>dom DEF Locks, LockPCs, ClaimPCs
        <3>5. Searched'
            BY <2>5, <1>dom DEF Searched, Creating, OnDisk
        <3>6. ReplayIsReal'
            BY <2>5, <1>dom DEF ReplayIsReal, Phases, Over
        <3> QED BY <3>1, <3>2, <3>3, <3>4, <3>5, <3>6 DEF IInv
    <2> QED BY <1>6, <2>1, <2>2, <2>3, <2>4, <2>5 DEF Look, Readable, Replayable, Fault,
        NoFault, Go, Answer, Finish, claimVars, callVars, bounds
<1>7. ASSUME NEW c \in Calls, NotFound(c) PROVE IInv'
    <2>f. /\ pc[c] = "look"
          /\ todo[c] = {}
          /\ pc' = [pc EXCEPT ![c] = "admit"]
          /\ UNCHANGED <<up, claimed, flock, owner, want, todo, answer, reply, dir, sup,
              crashes, faults>>
        BY <1>7 DEF NotFound, NoFault, Go, claimVars, callVars, bounds
    <2>1. TypeOK'
        BY <2>f, <1>dom DEF TypeOK, ClaimPCs, OnDisk
    <2>2. Phases'
        BY <2>f, <1>dom DEF Phases, Over
    <2>3. Claims'
        BY <2>f, <1>dom DEF Claims, ClaimPCs
    <2>4. Locks'
        BY <2>f, <1>dom DEF Locks, LockPCs, ClaimPCs
    <2>5. Searched'
        BY <2>f, <1>dom DEF Searched, Creating, OnDisk
    <2>6. ReplayIsReal'
        BY <2>f DEF ReplayIsReal
    <2> QED BY <2>1, <2>2, <2>3, <2>4, <2>5, <2>6 DEF IInv
<1>8. ASSUME NEW c \in Calls, Admit(c) PROVE IInv'
    <2>1. ASSUME pc[c] = "admit",
                 pc' = [pc EXCEPT ![c] = "mkdir"],
                 UNCHANGED <<up, claimed, flock, owner, want, todo, answer, reply, dir, sup,
                     crashes, faults>>
          PROVE IInv'
        <3>1. TypeOK'
            BY <2>1, <1>dom DEF TypeOK, ClaimPCs, OnDisk
        <3>2. Phases'
            BY <2>1, <1>dom DEF Phases, Over
        <3>3. Claims'
            BY <2>1, <1>dom DEF Claims, ClaimPCs
        <3>4. Locks'
            BY <2>1, <1>dom DEF Locks, LockPCs, ClaimPCs
        <3>5. Searched'
            BY <2>1, <1>dom DEF Searched, Creating, OnDisk
        <3>6. ReplayIsReal'
            BY <2>1 DEF ReplayIsReal
        <3> QED BY <3>1, <3>2, <3>3, <3>4, <3>5, <3>6 DEF IInv
    <2>2. ASSUME pc[c] = "admit",
                 pc' = [pc EXCEPT ![c] = "unlock"],
                 answer' = [answer EXCEPT ![c] = "error"],
                 UNCHANGED <<up, claimed, flock, owner, want, todo, reply, dir, sup, crashes,
                     faults>>
          PROVE IInv'
        <3>1. TypeOK'
            BY <2>2, <1>dom DEF TypeOK, ClaimPCs, OnDisk
        <3>2. Phases'
            BY <2>2, <1>dom DEF Phases, Over
        <3>3. Claims'
            BY <2>2, <1>dom DEF Claims, ClaimPCs
        <3>4. Locks'
            BY <2>2, <1>dom DEF Locks, LockPCs, ClaimPCs
        <3>5. Searched'
            BY <2>2, <1>dom DEF Searched, Creating, OnDisk
        <3>6. ReplayIsReal'
            BY <2>2, <1>dom DEF ReplayIsReal, Phases, Over
        <3> QED BY <3>1, <3>2, <3>3, <3>4, <3>5, <3>6 DEF IInv
    <2> QED BY <1>8, <2>1, <2>2 DEF Admit, NoFault, Go, Answer, Finish, claimVars, callVars,
        bounds
<1>9. ASSUME NEW c \in Calls, MakeDir(c) PROVE IInv'
    <2>1. ASSUME pc[c] = "mkdir",
                 pc' = [pc EXCEPT ![c] = "write"],
                 dir' = [dir EXCEPT ![c] = "bare"],
                 UNCHANGED <<up, claimed, flock, owner, want, todo, answer, reply, sup,
                     crashes, faults>>
          PROVE IInv'
        <3>1. TypeOK'
            BY <2>1, <1>dom DEF TypeOK, ClaimPCs, OnDisk
        <3>2. Phases'
            BY <2>1, <1>dom DEF Phases, Over
        <3>3. Claims'
            BY <2>1, <1>dom DEF Claims, ClaimPCs
        <3>4. Locks'
            BY <2>1, <1>dom DEF Locks, LockPCs, ClaimPCs
        <3>5. Searched'
            BY <2>1, <1>dom DEF Searched, Creating, OnDisk
        <3>6. ReplayIsReal'
            BY <2>1 DEF ReplayIsReal
        <3> QED BY <3>1, <3>2, <3>3, <3>4, <3>5, <3>6 DEF IInv
    <2>2. ASSUME pc[c] = "mkdir",
                 faults < MaxFaults,
                 pc' = [pc EXCEPT ![c] = "unlock"],
                 answer' = [answer EXCEPT ![c] = "error"],
                 faults' = faults + 1,
                 UNCHANGED <<up, claimed, flock, owner, want, todo, reply, dir, sup, crashes>>
          PROVE IInv'
        <3>1. TypeOK'
            BY <2>2, <1>dom DEF TypeOK, ClaimPCs, OnDisk
        <3>2. Phases'
            BY <2>2, <1>dom DEF Phases, Over
        <3>3. Claims'
            BY <2>2, <1>dom DEF Claims, ClaimPCs
        <3>4. Locks'
            BY <2>2, <1>dom DEF Locks, LockPCs, ClaimPCs
        <3>5. Searched'
            BY <2>2, <1>dom DEF Searched, Creating, OnDisk
        <3>6. ReplayIsReal'
            BY <2>2, <1>dom DEF ReplayIsReal, Phases, Over
        <3> QED BY <3>1, <3>2, <3>3, <3>4, <3>5, <3>6 DEF IInv
    <2> QED BY <1>9, <2>1, <2>2 DEF MakeDir, Fault, NoFault, Go, Answer, Finish, claimVars,
        callVars, bounds
<1>10. ASSUME NEW c \in Calls, WriteMeta(c) PROVE IInv'
    <2>1. ASSUME pc[c] = "write",
                 pc' = [pc EXCEPT ![c] = "spawn"],
                 dir' = [dir EXCEPT ![c] = "created"],
                 UNCHANGED <<up, claimed, flock, owner, want, todo, answer, reply, sup,
                     crashes, faults>>
          PROVE IInv'
        <3>1. TypeOK'
            BY <2>1, <1>dom DEF TypeOK, ClaimPCs, OnDisk
        <3>2. Phases'
            BY <2>1, <1>dom DEF Phases, Over
        <3>3. Claims'
            BY <2>1, <1>dom DEF Claims, ClaimPCs
        <3>4. Locks'
            BY <2>1, <1>dom DEF Locks, LockPCs, ClaimPCs
        <3>5. Searched'
            BY <2>1, <1>dom DEF Searched, Creating, OnDisk
        <3>6. ReplayIsReal'
            BY <2>1 DEF ReplayIsReal
        <3> QED BY <3>1, <3>2, <3>3, <3>4, <3>5, <3>6 DEF IInv
    <2>2. ASSUME pc[c] = "write",
                 faults < MaxFaults,
                 pc' = [pc EXCEPT ![c] = "unlock"],
                 answer' = [answer EXCEPT ![c] = "error"],
                 dir' \in {[dir EXCEPT ![c] = d] : d \in {"absent", "bare"}},
                 faults' = faults + 1,
                 UNCHANGED <<up, claimed, flock, owner, want, todo, reply, sup, crashes>>
          PROVE IInv'
        <3>1. TypeOK'
            BY <2>2, <1>dom DEF TypeOK, ClaimPCs, OnDisk
        <3>2. Phases'
            BY <2>2, <1>dom DEF Phases, Over
        <3>3. Claims'
            BY <2>2, <1>dom DEF Claims, ClaimPCs
        <3>4. Locks'
            BY <2>2, <1>dom DEF Locks, LockPCs, ClaimPCs
        <3>5. Searched'
            BY <2>2, <1>dom DEF Searched, Creating, OnDisk
        <3>6. ReplayIsReal'
            BY <2>2, <1>dom DEF ReplayIsReal, Phases, Over
        <3> QED BY <3>1, <3>2, <3>3, <3>4, <3>5, <3>6 DEF IInv
    <2> QED BY <1>10, <2>1, <2>2 DEF WriteMeta, Removed, Fault, NoFault, Go, Answer, Finish,
        claimVars, callVars, bounds
<1>11. ASSUME NEW c \in Calls, Spawn(c) PROVE IInv'
    <2>1. ASSUME pc[c] = "spawn",
                 pc' = [pc EXCEPT ![c] = "record"],
                 sup' = [sup EXCEPT ![c] = "up"],
                 UNCHANGED <<up, claimed, flock, owner, want, todo, answer, reply, dir,
                     crashes, faults>>
          PROVE IInv'
        <3>1. TypeOK'
            BY <2>1, <1>dom DEF TypeOK, ClaimPCs, OnDisk
        <3>2. Phases'
            BY <2>1, <1>dom DEF Phases, Over
        <3>3. Claims'
            BY <2>1, <1>dom DEF Claims, ClaimPCs
        <3>4. Locks'
            BY <2>1, <1>dom DEF Locks, LockPCs, ClaimPCs
        <3>5. Searched'
            BY <2>1, <1>dom DEF Searched, Creating, OnDisk
        <3>6. ReplayIsReal'
            BY <2>1, <1>dom DEF ReplayIsReal, Phases, Over
        <3> QED BY <3>1, <3>2, <3>3, <3>4, <3>5, <3>6 DEF IInv
    <2>2. ASSUME pc[c] = "spawn",
                 faults < MaxFaults,
                 pc' = [pc EXCEPT ![c] = "unlock"],
                 answer' = [answer EXCEPT ![c] = "error"],
                 dir' \in {[dir EXCEPT ![c] = d] : d \in {"absent", "bare", "created"}},
                 faults' = faults + 1,
                 UNCHANGED <<up, claimed, flock, owner, want, todo, reply, sup, crashes>>
          PROVE IInv'
        <3>1. TypeOK'
            BY <2>2, <1>dom DEF TypeOK, ClaimPCs, OnDisk
        <3>2. Phases'
            BY <2>2, <1>dom DEF Phases, Over
        <3>3. Claims'
            BY <2>2, <1>dom DEF Claims, ClaimPCs
        <3>4. Locks'
            BY <2>2, <1>dom DEF Locks, LockPCs, ClaimPCs
        <3>5. Searched'
            BY <2>2, <1>dom DEF Searched, Creating, OnDisk
        <3>6. ReplayIsReal'
            BY <2>2, <1>dom DEF ReplayIsReal, Phases, Over
        <3> QED BY <3>1, <3>2, <3>3, <3>4, <3>5, <3>6 DEF IInv
    <2> QED BY <1>11, <2>1, <2>2 DEF Spawn, Removed, Fault, NoFault, Go, Answer, Finish,
        claimVars, callVars, bounds
<1>12. ASSUME NEW c \in Calls, RecordPid(c) PROVE IInv'
    <2>1. ASSUME pc[c] = "record",
                 pc' = [pc EXCEPT ![c] = "unlock"],
                 answer' = [answer EXCEPT ![c] = "started"],
                 dir' = [dir EXCEPT ![c] = "recorded"],
                 UNCHANGED <<up, claimed, flock, owner, want, todo, reply, sup, crashes,
                     faults>>
          PROVE IInv'
        <3>1. TypeOK'
            BY <2>1, <1>dom DEF TypeOK, ClaimPCs, OnDisk
        <3>2. Phases'
            BY <2>1, <1>dom DEF Phases, Over
        <3>3. Claims'
            BY <2>1, <1>dom DEF Claims, ClaimPCs
        <3>4. Locks'
            BY <2>1, <1>dom DEF Locks, LockPCs, ClaimPCs
        <3>5. Searched'
            <4>1. \A k \in Calls : pc[k] \in LockPCs => k = c
                BY <2>1, <1>one DEF LockPCs, ClaimPCs
            <4>2. \A k \in Calls : pc'[k] # "look" /\ pc'[k] \notin Creating
                BY <2>1, <4>1, <1>dom DEF LockPCs, ClaimPCs, Creating
            <4>3. \A k \in Calls : dir'[k] = "recorded" => k = c
                BY <2>1, <1>dom DEF Searched, Creating
            <4> QED BY <4>2, <4>3 DEF Searched
        <3>6. ReplayIsReal'
            BY <2>1, <1>dom DEF ReplayIsReal, Phases, Over
        <3> QED BY <3>1, <3>2, <3>3, <3>4, <3>5, <3>6 DEF IInv
    <2>2. ASSUME pc[c] = "record",
                 faults < MaxFaults,
                 pc' = [pc EXCEPT ![c] = "abort"],
                 answer' = [answer EXCEPT ![c] = "error"],
                 faults' = faults + 1,
                 UNCHANGED <<up, claimed, flock, owner, want, todo, reply, dir, sup, crashes>>
          PROVE IInv'
        <3>1. TypeOK'
            BY <2>2, <1>dom DEF TypeOK, ClaimPCs, OnDisk
        <3>2. Phases'
            BY <2>2, <1>dom DEF Phases, Over
        <3>3. Claims'
            BY <2>2, <1>dom DEF Claims, ClaimPCs
        <3>4. Locks'
            BY <2>2, <1>dom DEF Locks, LockPCs, ClaimPCs
        <3>5. Searched'
            BY <2>2, <1>dom DEF Searched, Creating, OnDisk
        <3>6. ReplayIsReal'
            BY <2>2, <1>dom DEF ReplayIsReal, Phases, Over
        <3> QED BY <3>1, <3>2, <3>3, <3>4, <3>5, <3>6 DEF IInv
    <2> QED BY <1>12, <2>1, <2>2 DEF RecordPid, AbortLater, Fault, NoFault, Go, Answer,
        Finish, claimVars, callVars, bounds
<1>13. ASSUME NEW c \in Calls, AbortReaped(c) PROVE IInv'
    <2>1. ASSUME pc[c] = "abort",
                 sup[c] = "gone",
                 pc' = [pc EXCEPT ![c] = "unlock"],
                 dir' = [dir EXCEPT ![c] = "absent"],
                 UNCHANGED <<up, claimed, flock, owner, want, todo, answer, reply, sup,
                     crashes, faults>>
          PROVE IInv'
        <3>1. TypeOK'
            BY <2>1, <1>dom DEF TypeOK, ClaimPCs, OnDisk
        <3>2. Phases'
            BY <2>1, <1>dom DEF Phases, Over
        <3>3. Claims'
            BY <2>1, <1>dom DEF Claims, ClaimPCs
        <3>4. Locks'
            BY <2>1, <1>dom DEF Locks, LockPCs, ClaimPCs
        <3>5. Searched'
            BY <2>1, <1>dom DEF Searched, Creating, OnDisk
        <3>6. ReplayIsReal'
            BY <2>1 DEF ReplayIsReal
        <3> QED BY <3>1, <3>2, <3>3, <3>4, <3>5, <3>6 DEF IInv
    <2>2. ASSUME pc[c] = "abort",
                 sup[c] = "gone",
                 faults < MaxFaults,
                 pc' = [pc EXCEPT ![c] = "unlock"],
                 dir' \in {[dir EXCEPT ![c] = d] : d \in {"absent", "bare", "created"}},
                 faults' = faults + 1,
                 UNCHANGED <<up, claimed, flock, owner, want, todo, answer, reply, sup,
                     crashes>>
          PROVE IInv'
        <3>1. TypeOK'
            BY <2>2, <1>dom DEF TypeOK, ClaimPCs, OnDisk
        <3>2. Phases'
            BY <2>2, <1>dom DEF Phases, Over
        <3>3. Claims'
            BY <2>2, <1>dom DEF Claims, ClaimPCs
        <3>4. Locks'
            BY <2>2, <1>dom DEF Locks, LockPCs, ClaimPCs
        <3>5. Searched'
            BY <2>2, <1>dom DEF Searched, Creating, OnDisk
        <3>6. ReplayIsReal'
            BY <2>2 DEF ReplayIsReal
        <3> QED BY <3>1, <3>2, <3>3, <3>4, <3>5, <3>6 DEF IInv
    <2> QED BY <1>13, <2>1, <2>2 DEF AbortReaped, Removed, Fault, NoFault, Go, claimVars,
        callVars, bounds
<1>14. ASSUME NEW c \in Calls, Unlock(c) PROVE IInv'
    <2>f. /\ pc[c] = "unlock"
          /\ flock' = NoProc
          /\ pc' = [pc EXCEPT ![c] = "release"]
          /\ UNCHANGED <<up, claimed, owner, want, todo, answer, reply, dir, sup, crashes,
              faults>>
        BY <1>14 DEF Unlock, NoFault, Go, claimVars, callVars, bounds
    <2>1. TypeOK'
        BY <2>f, <1>dom DEF TypeOK, ClaimPCs, OnDisk
    <2>2. Phases'
        BY <2>f, <1>dom DEF Phases, Over
    <2>3. Claims'
        BY <2>f, <1>dom DEF Claims, ClaimPCs
    <2>4. Locks'
        <3>1. \A k \in Calls : pc[k] \in LockPCs => k = c
            BY <2>f, <1>one DEF LockPCs, ClaimPCs
        <3>2. \A k \in Calls : pc'[k] \notin LockPCs
            BY <2>f, <3>1, <1>dom DEF LockPCs, ClaimPCs
        <3> QED BY <2>f, <3>2 DEF Locks
    <2>5. Searched'
        BY <2>f, <1>dom DEF Searched, Creating, OnDisk
    <2>6. ReplayIsReal'
        BY <2>f DEF ReplayIsReal
    <2> QED BY <2>1, <2>2, <2>3, <2>4, <2>5, <2>6 DEF IInv
<1>15. ASSUME NEW c \in Calls, Release(c) PROVE IInv'
    <2>f. /\ pc[c] = "release"
          /\ claimed' = claimed \ {owner[c]}
          /\ pc' = [pc EXCEPT ![c] = "done"]
          /\ UNCHANGED <<up, flock, owner, want, todo, answer, reply, dir, sup, crashes,
              faults>>
        BY <1>15 DEF Release, NoFault, Go, claimVars, callVars, bounds
    <2>1. TypeOK'
        BY <2>f, <1>dom DEF TypeOK, ClaimPCs, OnDisk
    <2>2. Phases'
        BY <2>f, <1>dom DEF Phases, Over
    <2>3. Claims'
        BY <2>f, <1>dom DEF Claims, ClaimPCs
    <2>4. Locks'
        BY <2>f, <1>dom DEF Locks, LockPCs, ClaimPCs
    <2>5. Searched'
        BY <2>f, <1>dom DEF Searched, Creating, OnDisk
    <2>6. ReplayIsReal'
        BY <2>f DEF ReplayIsReal
    <2> QED BY <2>1, <2>2, <2>3, <2>4, <2>5, <2>6 DEF IInv
<1>16. ASSUME NEW c \in Calls, SupervisorEnds(c) PROVE IInv'
    <2>f. /\ sup[c] = "up"
          /\ sup' = [sup EXCEPT ![c] = "gone"]
          /\ UNCHANGED <<up, claimed, flock, pc, owner, want, todo, answer, reply, dir,
              crashes, faults>>
        BY <1>16 DEF SupervisorEnds, NoFault, claimVars, callVars, bounds
    <2>1. TypeOK'
        BY <2>f, <1>dom DEF TypeOK, ClaimPCs, OnDisk
    <2>2. Phases'
        BY <2>f, <1>dom DEF Phases, Over
    <2>3. Claims'
        BY <2>f DEF Claims
    <2>4. Locks'
        BY <2>f DEF Locks
    <2>5. Searched'
        BY <2>f DEF Searched
    <2>6. ReplayIsReal'
        BY <2>f, <1>dom DEF ReplayIsReal, Phases, Over
    <2> QED BY <2>1, <2>2, <2>3, <2>4, <2>5, <2>6 DEF IInv
<1>17. ASSUME NEW c \in Calls, Collect(c) PROVE IInv'
    <2>f. /\ pc[c] \in {"done", "lost"}
          /\ dir[c] = "recorded" => sup[c] # "up"
          /\ dir' = [dir EXCEPT ![c] = "absent"]
          /\ UNCHANGED <<up, claimed, flock, pc, owner, want, todo, answer, reply, sup,
              crashes, faults>>
        BY <1>17 DEF Collect, NoFault, claimVars, callVars, bounds
    <2>1. TypeOK'
        BY <2>f, <1>dom DEF TypeOK, ClaimPCs, OnDisk
    <2>2. Phases'
        BY <2>f, <1>dom DEF Phases, Over
    <2>3. Claims'
        BY <2>f DEF Claims
    <2>4. Locks'
        BY <2>f DEF Locks
    <2>5. Searched'
        BY <2>f, <1>dom DEF Searched, Creating, OnDisk
    <2>6. ReplayIsReal'
        BY <2>f DEF ReplayIsReal
    <2> QED BY <2>1, <2>2, <2>3, <2>4, <2>5, <2>6 DEF IInv
<1>18. ASSUME NEW p \in Procs, Crash(p) PROVE IInv'
    <2>f. /\ crashes < MaxCrashes
          /\ up' = up \ {p}
          /\ claimed' = claimed \ {p}
          /\ flock' = IF flock = p THEN NoProc ELSE flock
          /\ pc' = [c \in Calls |-> IF owner[c] = p /\ pc[c] \in {"claim"} \cup ClaimPCs THEN "lost" ELSE pc[c]]
          /\ crashes' = crashes + 1
          /\ UNCHANGED <<owner, want, todo, answer, reply, dir, sup, faults>>
        BY <1>18 DEF Crash, claimVars, callVars, bounds
    <2>1. TypeOK'
        BY <2>f, <1>dom DEF TypeOK, ClaimPCs, OnDisk
    <2>2. Phases'
        BY <2>f, <1>dom DEF Phases, Over
    <2>3. Claims'
        BY <2>f, <1>dom DEF Claims, ClaimPCs
    <2>4. Locks'
        BY <2>f, <1>dom DEF Locks, LockPCs, ClaimPCs
    <2>5. Searched'
        BY <2>f, <1>dom DEF Searched, Creating, OnDisk
    <2>6. ReplayIsReal'
        BY <2>f DEF ReplayIsReal
    <2> QED BY <2>1, <2>2, <2>3, <2>4, <2>5, <2>6 DEF IInv
<1>19. ASSUME NEW p \in Procs, Restart(p) PROVE IInv'
    <2>f. /\ up' = up \cup {p}
          /\ UNCHANGED <<claimed, flock, pc, owner, want, todo, answer, reply, dir, sup,
              crashes, faults>>
        BY <1>19 DEF Restart, NoFault, claimVars, callVars, bounds
    <2>1. TypeOK'
        BY <2>f, <1>dom DEF TypeOK, ClaimPCs, OnDisk
    <2>2. Phases'
        BY <2>f DEF Phases
    <2>3. Claims'
        BY <2>f DEF Claims
    <2>4. Locks'
        BY <2>f DEF Locks
    <2>5. Searched'
        BY <2>f DEF Searched
    <2>6. ReplayIsReal'
        BY <2>f DEF ReplayIsReal
    <2> QED BY <2>1, <2>2, <2>3, <2>4, <2>5, <2>6 DEF IInv
<1>20. CASE UNCHANGED vars
    <2>f. UNCHANGED <<up, claimed, flock, pc, owner, want, todo, answer, reply, dir, sup,
        crashes, faults>>
        BY <1>20 DEF vars, claimVars, callVars, bounds
    <2>1. TypeOK' BY <2>f DEF TypeOK
    <2>2. Phases' BY <2>f DEF Phases
    <2>3. Claims' BY <2>f DEF Claims
    <2>4. Locks' BY <2>f DEF Locks
    <2>5. Searched' BY <2>f DEF Searched
    <2>6. ReplayIsReal' BY <2>f DEF ReplayIsReal
    <2> QED BY <2>1, <2>2, <2>3, <2>4, <2>5, <2>6 DEF IInv
<1> QED BY <1>1, <1>2, <1>3, <1>4, <1>5, <1>6, <1>7, <1>8, <1>9, <1>10, <1>11, <1>12, <1>13, <1>14,
    <1>15, <1>16, <1>17, <1>18, <1>19, <1>20 DEF Next, CallStep

\* Every reachable state satisfies the invariant.
LEMMA Invariance == Spec => []IInv
BY InvInit, InvNext, PTL DEF Spec

-----------------------------------------------------------------------------
(* What the invariant implies.                                             *)

\* Two jobs that both run without being orphans are each being created or on
\* record; only one call can create, and it has found no record.
LEMMA InvOnce == IInv => AtMostOnce
<1> SUFFICES ASSUME IInv, NEW c \in Calls, NEW d \in Calls, c # d
             PROVE /\ ~(dir[c] = "recorded" /\ dir[d] = "recorded")
                   /\ sup[c] = "up" /\ sup[d] = "up" => Unrecorded(c) \/ Unrecorded(d)
    BY DEF AtMostOnce
<1>1. ~(dir[c] = "recorded" /\ dir[d] = "recorded")
    BY DEF IInv, Searched
<1>2. ASSUME NEW k \in Calls, sup[k] = "up", ~Unrecorded(k)
      PROVE pc[k] \in {"record", "abort"} \/ dir[k] = "recorded"
    BY <1>2 DEF IInv, Phases, Unrecorded
<1>3. pc[c] \in {"record", "abort"} => pc[d] \notin {"record", "abort"}
    BY DEF IInv, Locks, Claims, ClaimPCs, LockPCs
<1>4. ASSUME NEW k \in Calls, NEW j \in Calls, pc[k] \in {"record", "abort"}
      PROVE dir[j] # "recorded"
    BY <1>4 DEF IInv, Searched, Creating
<1> QED BY <1>1, <1>2, <1>3, <1>4

\* A call that tries the lock is the only holder of its process's entry, so
\* the lock is not its own process's.
LEMMA InvBusy == IInv => NoSelfInflictedBusy
<1> SUFFICES ASSUME IInv, NEW c \in Calls, pc[c] = "flock", flock = owner[c]
             PROVE FALSE
    BY DEF NoSelfInflictedBusy
<1>1. flock # NoProc BY NamesDistinct DEF IInv, Phases
<1>2. PICK d \in Calls : pc[d] \in LockPCs /\ owner[d] = flock
    BY <1>1 DEF IInv, Locks
<1>3. c = d BY <1>2 DEF IInv, Claims, ClaimPCs, LockPCs
<1> QED BY <1>2, <1>3 DEF LockPCs

\* The entries and the lock file have exactly the calls that hold them.
LEMMA InvExact == IInv => ClaimExact
<1> SUFFICES ASSUME IInv PROVE ClaimExact
    OBVIOUS
<1>1. claimed = {owner[c] : c \in {d \in Calls : pc[d] \in ClaimPCs}}
    BY DEF IInv, Claims
<1>2. flock # NoProc => \E c \in Calls : pc[c] \in LockPCs /\ owner[c] = flock
    BY DEF IInv, Locks
<1> QED BY <1>1, <1>2 DEF IInv, Claims, ClaimExact

-----------------------------------------------------------------------------
\* The variables keep their types, whatever the constants.
THEOREM TypeCorrect == Spec => []TypeOK
<1>1. IInv => TypeOK BY DEF IInv
<1> QED BY <1>1, Invariance, PTL

\* One key, one job: no two jobs of a key are on record or run together, but
\* for a supervisor whose manager died before it recorded its PID.
THEOREM Once == Spec => []AtMostOnce
BY Invariance, InvOnce, PTL

\* A replay returns a job of the same request that did start.
THEOREM RealReplay == Spec => []ReplayIsReal
<1>1. IInv => ReplayIsReal BY DEF IInv
<1> QED BY <1>1, Invariance, PTL

\* A process never meets its own claim on the lock file.
THEOREM NoSelfBusy == Spec => []NoSelfInflictedBusy
BY Invariance, InvBusy, PTL

\* No path leaks or doubles a claim.
THEOREM Exact == Spec => []ClaimExact
BY Invariance, InvExact, PTL
=============================================================================
