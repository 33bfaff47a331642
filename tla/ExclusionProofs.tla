--------------------------- MODULE ExclusionProofs ---------------------------
(***************************************************************************)
(* Who may act.  The directory lock is exclusive, is kept and implements   *)
(* Mutex on every platform and wherever processes die, until somebody      *)
(* empties a living process's gate, which does not happen where no process *)
(* dies under the gate and rename or rm keep off a directory in use; every *)
(* call of the lock advances.  Of the controllers that bid for an orphaned *)
(* run one recovers it.  Boots that are two minutes apart are told apart,  *)
(* so that no lease of an old boot is taken for one of the present boot.   *)
(***************************************************************************)
EXTENDS DirLock, OrphanBids, SequenceTheorems, FiniteSetTheorems, TLAPS

LEMMA DirsFact == /\ "gate" \in Dirs /\ "lock" \in Dirs
                  /\ \A r \in Removals : RemovedDir(r) \in Dirs
  BY DEF Dirs, Removals, RemovedDir

LEMMA InitType == Init => TypeOK
  <1>1. Init => robbed \in BOOLEAN
    BY Zenon DEF Init
  <1> QED
    BY <1>1, DirLockAssumption DEF Init, TypeOK, Labels, Goals, Removals

\* Every step of every process keeps every variable in its type, whatever
\* the platform and wherever processes die.
LEMMA StepType == TypeOK /\ [Next]_vars => TypeOK'
  <1> SUFFICES ASSUME TypeOK, [Next]_vars PROVE TypeOK'
    OBVIOUS
  <1> USE DirLockAssumption, DirsFact DEF TypeOK
  <1>1. CASE UNCHANGED vars
    BY <1>1 DEF vars
  <1>2. ASSUME NEW p \in Procs, Call(p) PROVE TypeOK'
    BY <1>2 DEF Call, At, Goto, Labels, Goals
  <1>3. ASSUME NEW p \in Procs, FinishWork(p) PROVE TypeOK'
    BY <1>3 DEF FinishWork, At, Goto, Labels, Goals
  <1>4. ASSUME NEW p \in Procs, CreateGate(p) PROVE TypeOK'
    BY <1>4 DEF CreateGate, CreateOwned, At, Goto, Labels
  <1>5. ASSUME NEW p \in Procs, ReadGate(p) PROVE TypeOK'
    BY <1>5 DEF ReadGate, NextGateAttempt, At, Goto, Labels
  <1>6. ASSUME NEW p \in Procs, CheckGate(p) PROVE TypeOK'
    BY <1>6 DEF CheckGate, NextGateAttempt, At, Goto, Labels, Removals
  <1>7. ASSUME NEW p \in Procs, CreateLock(p) PROVE TypeOK'
    BY <1>7 DEF CreateLock, CreateOwned, LeaveGate, At, Goto, Labels, Goals
  <1>8. ASSUME NEW p \in Procs, ReadLock(p) PROVE TypeOK'
    BY <1>8 DEF ReadLock, LeaveGate, At, Goto, Labels, Goals, Removals
  <1>9. ASSUME NEW p \in Procs, RecreateLock(p) PROVE TypeOK'
    BY <1>9 DEF RecreateLock, CreateOwned, LeaveGate, At, Goto, Labels, Goals
  <1>10. ASSUME NEW p \in Procs, CheckLock(p) PROVE TypeOK'
    BY <1>10 DEF CheckLock, At, Goto, Labels, Removals
  <1>11. ASSUME NEW p \in Procs, CheckOwnGate(p) PROVE TypeOK'
    BY <1>11 DEF CheckOwnGate, GateLeft, AfterGate, At, Goto, Labels, Goals, Removals
  <1>12. ASSUME NEW p \in Procs, Unlink(p) PROVE TypeOK'
    BY <1>12 DEF Unlink, At, Goto, Labels
  <1>15. ASSUME NEW p \in Procs, StatGate(p) \/ StatLock(p) PROVE TypeOK'
    BY <1>15 DEF StatGate, StatLock, LeaveGate, At, Goto, Labels, Goals
  <1>13. ASSUME NEW p \in Procs, Rmdir(p) PROVE TypeOK'
    <2>1. exists' \in SUBSET Dirs
      BY <1>13 DEF Rmdir
    <2>2. /\ at' \in [Procs -> Labels]
          /\ goal' \in [Procs -> Goals]
          /\ gateTry' \in [Procs -> Nat]
          /\ lockTry' \in [Procs -> Nat]
          /\ rmTry' \in [Procs -> Nat]
      BY <1>13 DEF Rmdir, AfterRm, NextGateAttempt, LeaveGate, GateLeft, AfterGate,
                   Goto, Labels, Goals
    <2> QED
      BY <1>13, <2>1, <2>2 DEF Rmdir
  <1>14. ASSUME NEW p \in Procs, Crash(p) PROVE TypeOK'
    BY <1>14 DEF Crash
  <1> QED
    BY <1>1, <1>2, <1>3, <1>4, <1>5, <1>6, <1>7, <1>8, <1>9, <1>10, <1>11,
       <1>12, <1>13, <1>14, <1>15 DEF Next, Step

\* TypeOK holds of every behaviour: the protocol of lock.ts never leaves its
\* labels, its counters stay natural numbers and metadata names a process.
THEOREM TypeCorrect == Spec => []TypeOK
  BY InitType, StepType, PTL DEF Spec

-----------------------------------------------------------------------------

LEMMA InitInv == Init => LockInv
  <1> SUFFICES ASSUME Init PROVE LockInv
    OBVIOUS
  <1>1. TypeOK
    BY InitType
  <1> QED
    BY <1>1, DirLockAssumption
    DEF Init, LockInv, HoldsGate, AtLock, Owns, RmJustified, Leaving, Dirs

\* One process is at work on the lock at a time.
LEMMA OneAtLock ==
  ASSUME LockInv, ~robbed, NEW p \in alive, NEW q \in alive, HoldsGate(p), HoldsGate(q)
  PROVE  p = q
  BY DEF LockInv

LEMMA StepInv == LockInv /\ [Next]_vars => LockInv'
  <1> SUFFICES ASSUME LockInv, [Next]_vars PROVE LockInv'
    OBVIOUS
  <1>t. TypeOK /\ TypeOK'
    BY StepType DEF LockInv
  <1> USE <1>t, DirLockAssumption, DirsFact
  <1>1. CASE UNCHANGED vars
    BY <1>1 DEF vars, LockInv, TypeOK, HoldsGate, AtLock, Owns, RmJustified, Leaving,
                Stale
  <1>2. ASSUME NEW p \in Procs, Call(p) PROVE LockInv'
    BY <1>2 DEF Call, At, Goto, TypeOK, LockInv, HoldsGate, AtLock, Owns, RmJustified,
                Leaving, Stale
  <1>3. ASSUME NEW p \in Procs, FinishWork(p) PROVE LockInv'
    BY <1>3 DEF FinishWork, At, Goto, TypeOK, LockInv, HoldsGate, AtLock, Owns,
                RmJustified, Leaving, Stale
  <1>4. ASSUME NEW p \in Procs, CreateGate(p) PROVE LockInv'
    BY <1>4 DEF CreateGate, CreateOwned, CanCreate, At, Goto, TypeOK, LockInv,
                HoldsGate, AtLock, Owns, RmJustified, Leaving, Stale, Dirs
  <1>5. ASSUME NEW p \in Procs, ReadGate(p) PROVE LockInv'
    BY <1>5 DEF ReadGate, NextGateAttempt, At, Goto, TypeOK, LockInv, HoldsGate,
                AtLock, Owns, RmJustified, Leaving, Stale
  <1>6. ASSUME NEW p \in Procs, CheckGate(p) PROVE LockInv'
    BY <1>6 DEF CheckGate, NextGateAttempt, At, Goto, TypeOK, LockInv, HoldsGate,
                AtLock, Owns, RmJustified, Leaving, Stale
  <1>7. ASSUME NEW p \in Procs, CreateLock(p) \/ RecreateLock(p) PROVE LockInv'
    BY <1>7, OneAtLock
    DEF CreateLock, RecreateLock, CreateOwned, CanCreate, LeaveGate, At, Goto, TypeOK,
        LockInv, HoldsGate, AtLock, Owns, RmJustified, Leaving, Stale, Dirs
  <1>8. ASSUME NEW p \in Procs, StatGate(p) \/ StatLock(p) PROVE LockInv'
    BY <1>8 DEF StatGate, StatLock, LeaveGate, At, Goto, TypeOK, LockInv, HoldsGate,
                AtLock, Owns, RmJustified, Leaving, Stale
  <1>9. ASSUME NEW p \in Procs, ReadLock(p) PROVE LockInv'
    BY <1>9 DEF ReadLock, LeaveGate, At, Goto, TypeOK, LockInv, HoldsGate, AtLock,
                Owns, RmJustified, Leaving, Stale
  <1>10. ASSUME NEW p \in Procs, CheckLock(p) PROVE LockInv'
    BY <1>10 DEF CheckLock, At, Goto, TypeOK, LockInv, HoldsGate, AtLock, Owns,
                 RmJustified, Leaving, Stale
  <1>11. ASSUME NEW p \in Procs, CheckOwnGate(p) PROVE LockInv'
    BY <1>11 DEF CheckOwnGate, GateLeft, AfterGate, At, Goto, TypeOK, LockInv,
                 HoldsGate, AtLock, Owns, RmJustified, Leaving, Stale
  <1>12. ASSUME NEW p \in Procs, Unlink(p) PROVE LockInv'
    <2> DEFINE d == RemovedDir(removing[p])
    <2>1. /\ p \in alive /\ at[p] = "unlink"
          /\ at' = [at EXCEPT ![p] = "rmdir"]
          /\ meta' = [meta EXCEPT ![d] = NoOwner]
          /\ robbed' = (robbed \/ Robs(p))
          /\ UNCHANGED <<alive, exists, goal, removing>>
      BY <1>12 DEF Unlink, At, Goto
    <2>2. \A e \in Dirs : e \notin exists' => meta'[e] = NoOwner
      BY <2>1 DEF LockInv, TypeOK
    <2> SUFFICES ASSUME ~robbed', NEW q \in alive
                 PROVE  /\ HoldsGate(q)' => meta'["gate"] = q
                        /\ Owns(q)' => meta'["lock"] = q
                        /\ goal'[q] = "enter" => Leaving(q)'
                        /\ RmJustified(q)'
      BY <2>1, <2>2 DEF LockInv
    <2>3. /\ ~robbed /\ q \in Procs /\ p \in Procs
          /\ HoldsGate(q) => meta["gate"] = q
          /\ HoldsGate(p) => meta["gate"] = p
          /\ Owns(q) => meta["lock"] = q
          /\ goal[q] = "enter" => Leaving(q)
          /\ RmJustified(q) /\ RmJustified(p)
      BY <2>1 DEF LockInv, TypeOK
    <2>4. CASE removing[p] \in {"staleGate", "ownGate"}
      <3>1. d = "gate" /\ meta'["lock"] = meta["lock"] /\ meta["gate"] \notin alive \ {p}
        BY <2>1, <2>4 DEF RemovedDir, Robs, TypeOK
      <3> QED
        BY <2>1, <2>3, <2>4, <3>1
        DEF HoldsGate, AtLock, Owns, RmJustified, Leaving, Stale, TypeOK
    <2>5. CASE removing[p] \in {"staleLock", "ownLock"}
      <3>1. d = "lock" /\ meta'["gate"] = meta["gate"] /\ HoldsGate(p)
        BY <2>1, <2>5 DEF RemovedDir, TypeOK, HoldsGate, AtLock
      <3>2. q # p => ~HoldsGate(q)
        BY <2>3, <3>1
      <3>3. Owns(q) => q # p /\ meta["lock"] # q
        BY <2>1, <2>3, <2>5, <3>1 DEF RmJustified, Stale, Owns, Leaving
      <3> QED
        BY <2>1, <2>3, <2>5, <3>1, <3>2, <3>3
        DEF HoldsGate, AtLock, Owns, RmJustified, Leaving, Stale, TypeOK
    <2> QED
      BY <2>1, <2>4, <2>5 DEF TypeOK, Removals
  <1>13. ASSUME NEW p \in Procs, Rmdir(p) PROVE LockInv'
    BY <1>13 DEF Rmdir, AfterRm, NextGateAttempt, LeaveGate, GateLeft, AfterGate, At,
                 Goto, TypeOK, LockInv, HoldsGate, AtLock, Owns, RmJustified, Leaving,
                 Stale, Dirs, RemovedDir, Removals
  <1>14. ASSUME NEW p \in Procs, Crash(p) PROVE LockInv'
    BY <1>14 DEF Crash, TypeOK, LockInv, HoldsGate, AtLock, Owns, RmJustified, Leaving,
                 Stale
  <1> QED
    BY <1>1, <1>2, <1>3, <1>4, <1>5, <1>6, <1>7, <1>8, <1>9, <1>10, <1>11,
       <1>12, <1>13, <1>14 DEF Next, Step

\* LockInv is an invariant of the protocol on every platform and wherever processes
\* die: until somebody empties a living process's gate, the gate names whoever is at
\* work on the lock, the lock names whoever has got it, and each removal of a lock is
\* of a dead process's, or of its own.
THEOREM LockInvariant == Spec => []LockInv
  BY InitInv, StepInv, PTL DEF Spec

LEMMA InvExclusion ==
  ASSUME LockInv
  PROVE  MutualExclusion /\ LockKept /\ AtLockSerializes
  <1>1. ~robbed => \A p \in Working : "lock" \in exists /\ meta["lock"] = p
    BY DirLockAssumption, DirsFact DEF LockInv, Working, Owns, TypeOK
  <1> QED
    BY <1>1, OneAtLock DEF MutualExclusion, LockKept, AtLockSerializes, Working, HoldsGate,
                           LockInv, TypeOK

\* Two callers of withDirectoryLock never run their functions at once, on any platform
\* and wherever processes die, until somebody empties a living process's gate.
THEOREM Exclusion == Spec => []MutualExclusion
  BY LockInvariant, InvExclusion, PTL

\* Until then no two living processes are at work on the lock at once: the gate
\* serializes acquire, release and reclamation (lock.ts:205).
THEOREM AtLockExclusion == Spec => []AtLockSerializes
  BY LockInvariant, InvExclusion, PTL

\* Until then nobody takes the lock away from a caller whose function is running.
THEOREM LockIsKept == Spec => []LockKept
  BY LockInvariant, InvExclusion, PTL

-----------------------------------------------------------------------------

\* A step that leaves the lock's metadata and the set of running functions alone is
\* a stutter of Mutex.
LEMMA Stutter ==
  UNCHANGED <<alive, meta["lock"], Working>> => [AbstractLock!Next]_(AbstractLock!vars)
  BY DEF AbstractLock!vars

LEMMA RefineStep ==
  LockInv /\ [Next]_vars => [~robbed' => AbstractLock!Next]_(AbstractLock!vars)
  <1> SUFFICES ASSUME LockInv, [Next]_vars, ~robbed'
               PROVE  [AbstractLock!Next]_(AbstractLock!vars)
    OBVIOUS
  <1>t. TypeOK
    BY DEF LockInv
  <1> USE <1>t, DirLockAssumption, DirsFact
  <1>1. CASE UNCHANGED vars
    BY <1>1, Stutter DEF vars, Working
  <1>r. ASSUME Next PROVE ~robbed
    BY <1>r DEF Next, Step, Call, FinishWork, CreateGate, StatGate, ReadGate, CheckGate,
                CreateLock, StatLock, ReadLock, RecreateLock, CheckLock, CheckOwnGate,
                Unlink, Rmdir, Crash
  <1>i. ASSUME Next, NEW p \in alive
        PROVE  /\ Owns(p) => meta["lock"] = p
               /\ goal[p] = "enter" => Leaving(p)
               /\ RmJustified(p)
    BY <1>i, <1>r DEF LockInv
  <1>2. ASSUME NEW p \in Procs,
               \/ Call(p) \/ CreateGate(p) \/ StatGate(p) \/ ReadGate(p) \/ CheckGate(p)
               \/ StatLock(p) \/ ReadLock(p) \/ CheckLock(p)
        PROVE  UNCHANGED <<alive, meta["lock"], Working>>
    BY <1>2 DEF Call, CreateGate, CreateOwned, StatGate, ReadGate, NextGateAttempt,
                CheckGate, StatLock, ReadLock, LeaveGate, CheckLock, At, Goto, TypeOK,
                Working
  <1>8. ASSUME NEW p \in Procs, FinishWork(p) PROVE AbstractLock!Finish(p)
    BY <1>8 DEF FinishWork, At, Goto, TypeOK, Working, AbstractLock!Finish
  <1>9. ASSUME NEW p \in Procs, CreateLock(p) \/ RecreateLock(p)
        PROVE  AbstractLock!Acquire(p) \/ UNCHANGED <<alive, meta["lock"], Working>>
    BY <1>9 DEF CreateLock, RecreateLock, CreateOwned, CanCreate, LeaveGate, At, Goto,
                TypeOK, LockInv, Working, AbstractLock!Acquire
  <1>10. ASSUME NEW p \in Procs, CheckOwnGate(p) \/ Rmdir(p)
         PROVE  AbstractLock!Begin(p) \/ UNCHANGED <<alive, meta["lock"], Working>>
    <2>1. p \in alive /\ UNCHANGED <<alive, meta>>
      BY <1>10 DEF CheckOwnGate, Rmdir, At
    <2>2. at[p] # "work"
      BY <1>10 DEF CheckOwnGate, Rmdir, At
    <2>3. at'[p] = "work" => goal[p] = "enter"
      BY <1>10 DEF CheckOwnGate, Rmdir, AfterRm, NextGateAttempt, LeaveGate, GateLeft,
                   AfterGate, At, Goto, TypeOK
    <2>4. \A q \in Procs : q # p => at'[q] = at[q]
      BY <1>10 DEF CheckOwnGate, Rmdir, AfterRm, NextGateAttempt, LeaveGate, GateLeft,
                   AfterGate, At, Goto, TypeOK
    <2>5. CASE at'[p] # "work"
      BY <2>1, <2>2, <2>4, <2>5 DEF Working, TypeOK
    <2>6. CASE at'[p] = "work"
      <3>1. meta["lock"] = p
        BY <1>i, <1>10, <2>1, <2>3, <2>6 DEF Owns, Next, Step
      <3>2. Working' = Working \cup {p}
        BY <2>1, <2>4, <2>6 DEF Working, TypeOK
      <3> QED
        BY <2>1, <3>1, <3>2 DEF AbstractLock!Begin
    <2> QED
      BY <2>5, <2>6
  <1>11. ASSUME NEW p \in Procs, Unlink(p)
         PROVE  \/ \E q \in Procs : AbstractLock!Release(q)
                \/ UNCHANGED <<alive, meta["lock"], Working>>
    <2>1. UNCHANGED <<alive, Working>>
      BY <1>11 DEF Unlink, At, Goto, TypeOK, Working
    <2>2. CASE RemovedDir(removing[p]) = "gate"
      BY <1>11, <2>1, <2>2 DEF Unlink, TypeOK
    <2>3. CASE RemovedDir(removing[p]) = "lock"
      <3>0. /\ p \in alive /\ at[p] = "unlink" /\ RmJustified(p)
            /\ removing[p] \in {"staleLock", "ownLock"}
        BY <1>i, <1>11, <2>3 DEF Unlink, At, RemovedDir, TypeOK, Removals, Next, Step
      <3>1. /\ meta["lock"] \in Procs /\ meta'["lock"] = NoOwner
            /\ meta["lock"] \in alive => meta["lock"] = p
        BY <1>11, <2>3, <3>0 DEF Unlink, RmJustified, Stale, TypeOK
      <3>2. meta["lock"] \notin Working
        BY <3>0, <3>1 DEF Working
      <3> QED
        BY <2>1, <3>1, <3>2 DEF AbstractLock!Release
    <2> QED
      BY <2>2, <2>3 DEF RemovedDir
  <1>12. ASSUME NEW p \in Procs, Crash(p) PROVE AbstractLock!Die(p)
    BY <1>12 DEF Crash, Working, AbstractLock!Die
  <1> QED
    BY <1>1, <1>2, <1>8, <1>9, <1>10, <1>11, <1>12, Stutter
    DEF Next, Step, AbstractLock!Next

\* withDirectoryLock implements the abstract lock until somebody empties a living
\* process's gate: a caller's function runs only while the caller owns the lock, and
\* only a dead owner loses it.
THEOREM RefinesMutex == Spec => ImplementsMutex
  <1>1. Init => AbstractLock!Init
    BY DEF Init, AbstractLock!Init, Working, Dirs
  <1>2. LockInv /\ [Next]_vars => [~robbed' => AbstractLock!Next]_(AbstractLock!vars)
    BY RefineStep
  <1> QED
    BY <1>1, <1>2, LockInvariant, PTL DEF Spec, ImplementsMutex

-----------------------------------------------------------------------------
(* Where the gate is respected.                                            *)

LEMMA GateStep ==
  ASSUME GateSafe, LockInv, GateInv, [Next]_vars
  PROVE  GateInv'
  <1>t. TypeOK /\ TypeOK'
    BY StepType DEF LockInv
  <1> USE <1>t, DirLockAssumption, DirsFact
  <1>1. CASE UNCHANGED vars
    BY <1>1 DEF vars, GateInv, GateOwner, GateHeld, GateSerializes, InGate, HoldsGate,
                AtLock
  <1>2. ASSUME NEW p \in Procs,
               \/ Call(p) \/ FinishWork(p) \/ StatGate(p) \/ ReadGate(p) \/ CheckGate(p)
        PROVE  GateInv'
    BY <1>2 DEF Call, FinishWork, StatGate, ReadGate, NextGateAttempt, CheckGate, Stale,
                At, Goto, TypeOK, GateInv, GateOwner, GateHeld, GateSerializes, InGate,
                HoldsGate, AtLock
  <1>3. ASSUME NEW p \in Procs, CreateGate(p) PROVE GateInv'
    BY <1>3 DEF CreateGate, CreateOwned, CanCreate, At, Goto, TypeOK, LockInv, GateInv,
                GateOwner, GateHeld, GateSerializes, InGate, HoldsGate, AtLock
  <1>4. ASSUME NEW p \in Procs, CreateLock(p) \/ RecreateLock(p) PROVE GateInv'
    BY <1>4 DEF CreateLock, RecreateLock, CreateOwned, LeaveGate, At, Goto, TypeOK,
                GateInv, GateOwner, GateHeld, GateSerializes, InGate, HoldsGate, AtLock
  <1>5. ASSUME NEW p \in Procs, StatLock(p) \/ ReadLock(p) \/ CheckLock(p) PROVE GateInv'
    BY <1>5 DEF StatLock, ReadLock, CheckLock, LeaveGate, At, Goto, TypeOK,
                GateInv, GateOwner, GateHeld, GateSerializes, InGate, HoldsGate, AtLock
  <1>6. ASSUME NEW p \in Procs, CheckOwnGate(p) PROVE GateInv'
    BY <1>6 DEF CheckOwnGate, GateLeft, AfterGate, At, Goto, TypeOK, LockInv, GateInv,
                GateOwner, GateHeld, GateSerializes, InGate, HoldsGate, AtLock
  <1>7. ASSUME NEW p \in Procs, Unlink(p) PROVE GateInv'
    <2>1. p \in alive /\ at[p] = "unlink" /\ removing[p] # "staleGate"
      BY <1>7 DEF Unlink, At, GateInv
    <2>2. ~Robs(p)
      BY <2>1 DEF Robs, GateInv, RemovedDir
    <2>3. ~robbed'
      BY <1>7, <2>2 DEF Unlink, GateInv
    <2> QED
      BY <1>7, <2>1, <2>3 DEF Unlink, At, Goto, TypeOK, GateInv, GateOwner, GateHeld,
         GateSerializes, InGate, HoldsGate, AtLock, RemovedDir, Removals, Dirs
  <1>8. ASSUME NEW p \in Procs, Rmdir(p) PROVE GateInv'
    <2>1. p \in alive /\ at[p] = "rmdir" /\ removing[p] # "staleGate"
          /\ UNCHANGED <<alive, meta, removing, robbed>>
          /\ \A q \in Procs : q # p => at'[q] = at[q]
          /\ at'[p] \notin {"checkGate", "rmdir"}
      BY <1>8 DEF Rmdir, At, GateInv, AfterRm, LeaveGate, GateLeft, AfterGate, Goto, TypeOK
    <2>2. CASE AtLock(p)
      <3>1. /\ RemovedDir(removing[p]) = "lock" /\ meta["lock"] = NoOwner
            /\ removing[p] # "ownGate"
        BY <2>1, <2>2 DEF AtLock, RemovedDir, LockInv, GateInv, RmJustified
      <3>2. at'[p] \in {"checkOwnGate", "recreateLock"}
            /\ ("gate" \in exists => "gate" \in exists')
        BY <1>8, <2>1, <3>1 DEF Rmdir, AfterRm, LeaveGate, Goto, TypeOK
      <3> QED
        BY <2>1, <2>2, <3>1, <3>2 DEF TypeOK, GateInv, GateOwner, GateHeld,
           GateSerializes, InGate, HoldsGate, AtLock
    <2>3. CASE ~AtLock(p)
      <3>1. removing[p] = "ownGate" /\ ~HoldsGate(p)
        BY <2>1, <2>3 DEF AtLock, HoldsGate, TypeOK, Removals
      <3>2. meta["gate"] # NoOwner => RenameOverEmpty
        BY <2>1, <3>1 DEF GateInv, GateHeld, InGate, GateOwner, GateSerializes, HoldsGate,
           AtLock
      <3>3. /\ at'[p] \in {"work", "createGate", "idle"}
            /\ ~RenameOverEmpty => exists' = exists \ {"gate"}
        BY <1>8, <2>1, <3>1, <3>2 DEF Rmdir, AfterRm, GateLeft, AfterGate, GateSafe,
           Goto, TypeOK, RemovedDir
      <3> QED
        BY <2>1, <3>1, <3>2, <3>3 DEF TypeOK, GateInv, GateOwner, GateHeld,
           GateSerializes, InGate, HoldsGate, AtLock
    <2> QED BY <2>2, <2>3
  <1>9. ASSUME NEW p \in Procs, Crash(p) PROVE GateInv'
    BY <1>9 DEF Crash, GateSafe, TypeOK, GateInv, GateOwner, GateHeld, GateSerializes,
                InGate, HoldsGate, AtLock
  <1> QED
    BY <1>1, <1>2, <1>3, <1>4, <1>5, <1>6, <1>7, <1>8, <1>9 DEF Next, Step

\* Where no process dies under the gate, and rename refuses an emptied directory or rm
\* does not retry, nobody ever empties a living process's gate: what the other theorems
\* say of the lock holds there for good.  lock.ts retries five times, so on POSIX this
\* says what its removals lack.
THEOREM GateRespectedHolds == GateSafe => (Spec => []GateRespected)
  <1> SUFFICES ASSUME GateSafe PROVE Spec => []GateRespected
    OBVIOUS
  <1>1. Init => GateInv
    BY DirLockAssumption, DirsFact
    DEF Init, GateInv, GateOwner, GateSerializes, InGate
  <1>2. LockInv /\ GateInv /\ [Next]_vars => GateInv'
    BY GateStep
  <1>3. GateInv => GateRespected
    BY DEF GateInv, GateRespected
  <1> QED
    BY <1>1, <1>2, <1>3, LockInvariant, PTL DEF Spec

-----------------------------------------------------------------------------
(* Calls end.                                                              *)

AtGate(p) ==
  \/ at[p] \in {"createGate", "statGate", "readGate", "checkGate"}
  \/ at[p] \in {"unlink", "rmdir"} /\ removing[p] = "staleGate"

\* No attempt is under way beyond the last.
CountInv ==
  \A p \in Procs :
    /\ at[p] # "idle" => lockTry[p] < LockAttempts
    /\ AtGate(p) => gateTry[p] < GateAttempts
    /\ at[p] \in {"unlink", "rmdir"} => rmTry[p] <= RmRetries

LEMMA CountStep ==
  ASSUME TypeOK, CountInv, [Next]_vars
  PROVE  CountInv'
  <1> USE DirLockAssumption
  <1>1. CASE UNCHANGED vars
    BY <1>1 DEF vars, CountInv, AtGate
  <1>2. ASSUME NEW p \in Procs,
               \/ Call(p) \/ FinishWork(p) \/ CreateGate(p) \/ StatGate(p) \/ ReadGate(p)
               \/ CheckGate(p) \/ CreateLock(p) \/ StatLock(p) \/ ReadLock(p)
               \/ RecreateLock(p) \/ CheckLock(p) \/ Unlink(p)
        PROVE  CountInv'
    BY <1>2 DEF Call, FinishWork, CreateGate, StatGate, ReadGate, NextGateAttempt,
                CheckGate, CreateLock, StatLock, ReadLock, RecreateLock, CheckLock, Unlink,
                LeaveGate, At, Goto, TypeOK, CountInv, AtGate
  <1>3. ASSUME NEW p \in Procs, CheckOwnGate(p) PROVE CountInv'
    BY <1>3 DEF CheckOwnGate, GateLeft, AfterGate, At, Goto, TypeOK, CountInv, AtGate
  <1>4. ASSUME NEW p \in Procs, Rmdir(p) PROVE CountInv'
    BY <1>4 DEF Rmdir, AfterRm, NextGateAttempt, LeaveGate, GateLeft, AfterGate, At, Goto,
                TypeOK, CountInv, AtGate, Removals
  <1>5. ASSUME NEW p \in Procs, Crash(p) PROVE CountInv'
    BY <1>5 DEF Crash, CountInv, AtGate
  <1> QED
    BY <1>1, <1>2, <1>3, <1>4, <1>5 DEF Next, Step

\* What an attempt fewer leaves.
LEMMA OneFewer ==
  ASSUME NEW n \in Int, NEW c \in Int
  PROVE  (n - 1) * c = n * c - c /\ n * c \in Int /\ (n - 1) * c \in Int
  OBVIOUS

LEMMA CallNumbers ==
  /\ RmCalls \in Nat /\ RmCalls = 2 * RmRetries + 2
  /\ GateCalls \in Nat /\ GateCalls = 4 + RmCalls
  /\ LeaveCalls \in Nat /\ LeaveCalls = 1 + RmCalls
  /\ LockCalls \in Nat /\ LockCalls = 4 + RmCalls + LeaveCalls
  /\ AttemptCalls \in Nat
  /\ AttemptCalls = (GateAttempts - 1) * GateCalls + GateCalls + LockCalls
  <1>1. /\ RmCalls \in Nat /\ RmCalls = 2 * RmRetries + 2
        /\ GateCalls \in Nat /\ GateCalls = 4 + RmCalls
        /\ LeaveCalls \in Nat /\ LeaveCalls = 1 + RmCalls
        /\ LockCalls \in Nat /\ LockCalls = 4 + RmCalls + LeaveCalls
    BY DirLockAssumption DEF RmCalls, GateCalls, LeaveCalls, LockCalls
  <1>2. /\ (GateAttempts - 1) * GateCalls = GateAttempts * GateCalls - GateCalls
        /\ GateAttempts * GateCalls \in Nat
    BY <1>1, OneFewer, DirLockAssumption
  <1> QED
    BY <1>1, <1>2 DEF AttemptCalls

LEMMA RemainingFalls ==
  ASSUME TypeOK, TypeOK', CountInv, NEW p \in Procs, Step(p)
  PROVE  Remaining(p)' < Remaining(p)
  <1>n. /\ RmRetries \in Nat /\ LockAttempts \in Nat /\ GateAttempts \in Nat
        /\ lockTry[p] \in Nat /\ gateTry[p] \in Nat /\ rmTry[p] \in Nat
        /\ at[p] \in Labels /\ removing[p] \in Removals /\ goal[p] \in Goals
    BY DirLockAssumption DEF TypeOK
  <1>c. /\ at[p] # "idle" => lockTry[p] < LockAttempts
        /\ AtGate(p) => gateTry[p] < GateAttempts
        /\ at[p] \in {"unlink", "rmdir"} => rmTry[p] <= RmRetries
    BY DEF CountInv
  <1>k. /\ LaterAttempts(p) \in Int /\ LaterTries(p) \in Int
        /\ at[p] # "idle" => LaterAttempts(p) \in Nat
        /\ AtGate(p) => LaterTries(p) \in Nat
    BY <1>n, <1>c, CallNumbers DEF LaterAttempts, LaterTries
  <1>l. /\ lockTry'[p] = lockTry[p] => LaterAttempts(p)' = LaterAttempts(p)
        /\ gateTry'[p] = gateTry[p] => LaterTries(p)' = LaterTries(p)
    BY DEF LaterAttempts, LaterTries
  <1>m. ASSUME gateTry'[p] = gateTry[p] + 1
        PROVE  LaterTries(p)' = LaterTries(p) - GateCalls
    <2> DEFINE k == GateAttempts - gateTry[p] - 1
    <2>1. k \in Int /\ GateCalls \in Int /\ GateAttempts - (gateTry[p] + 1) - 1 = k - 1
      BY <1>n, CallNumbers
    <2>2. LaterTries(p) = k * GateCalls /\ LaterTries(p)' = (k - 1) * GateCalls
      BY <1>m, <2>1 DEF LaterTries
    <2> HIDE DEF k
    <2> QED BY <2>1, <2>2, OneFewer
  <1>o. ASSUME lockTry'[p] = lockTry[p] + 1
        PROVE  LaterAttempts(p)' = LaterAttempts(p) - AttemptCalls
    <2> DEFINE k == LockAttempts - lockTry[p] - 1
    <2>1. k \in Int /\ AttemptCalls \in Int /\ LockAttempts - (lockTry[p] + 1) - 1 = k - 1
      BY <1>n, CallNumbers
    <2>2. LaterAttempts(p) = k * AttemptCalls /\ LaterAttempts(p)' = (k - 1) * AttemptCalls
      BY <1>o, <2>1 DEF LaterAttempts
    <2> HIDE DEF k
    <2> QED BY <2>1, <2>2, OneFewer
  <1>z. gateTry'[p] = 0 => LaterTries(p)' = AttemptCalls - LockCalls - GateCalls
    BY <1>n, CallNumbers DEF LaterTries
  <1>p. p \in Procs /\ p \in DOMAIN at /\ p \in DOMAIN goal /\ p \in DOMAIN removing
        /\ p \in DOMAIN gateTry /\ p \in DOMAIN lockTry /\ p \in DOMAIN rmTry
    BY DEF TypeOK
  <1> USE <1>n, <1>c, <1>k, <1>l, <1>m, <1>o, <1>p, CallNumbers
  <1>1. CASE CreateGate(p) \/ StatGate(p)
    <2>1. /\ at[p] \in {"createGate", "statGate"}
          /\ at'[p] \in {"statGate", "readGate", "createLock", "checkLock", "idle"}
          /\ at[p] = "statGate" => at'[p] \in {"readGate", "idle"}
          /\ UNCHANGED <<lockTry, gateTry>>
      BY <1>1 DEF CreateGate, StatGate, At, Goto
    <2> QED
      BY <2>1 DEF Remaining, LeftAtGate, LeftAtLock, InGate, AtGate
  <1>2. CASE ReadGate(p) \/ CheckGate(p)
    <2>1. /\ at[p] \in {"readGate", "checkGate"}
          /\ UNCHANGED lockTry
          /\ \/ at[p] = "readGate" /\ at'[p] = "checkGate" /\ gateTry' = gateTry
             \/ /\ at[p] = "checkGate" /\ at'[p] = "unlink" /\ gateTry' = gateTry
                /\ removing'[p] = "staleGate" /\ rmTry'[p] = 0
             \/ at'[p] \in {"createGate", "idle"} /\ gateTry'[p] = gateTry[p] + 1
      BY <1>2 DEF ReadGate, CheckGate, NextGateAttempt, At, Goto
    <2> QED
      BY <2>1 DEF Remaining, LeftAtGate, InGate, AtGate, RmLeft
  <1>3. CASE CreateLock(p) \/ StatLock(p) \/ ReadLock(p) \/ RecreateLock(p) \/ CheckLock(p)
    <2>1. /\ UNCHANGED lockTry
          /\ \/ at[p] = "createLock" /\ at'[p] \in {"statLock", "readLock", "checkOwnGate"}
             \/ at[p] = "statLock" /\ at'[p] \in {"readLock", "checkOwnGate"}
             \/ at[p] \in {"readLock", "recreateLock", "checkLock"} /\ at'[p] = "checkOwnGate"
             \/ /\ at[p] \in {"readLock", "checkLock"} /\ at'[p] = "unlink"
                /\ removing'[p] \in {"staleLock", "ownLock"} /\ rmTry'[p] = 0
      BY <1>3 DEF CreateLock, StatLock, ReadLock, RecreateLock, CheckLock, LeaveGate, At, Goto
    <2> QED
      BY <2>1 DEF Remaining, LeftAtLock, InGate, RmLeft
  <1>4. CASE Unlink(p)
    <2>1. /\ at[p] = "unlink" /\ at'[p] = "rmdir"
          /\ UNCHANGED <<lockTry, gateTry, removing, rmTry>>
      BY <1>4 DEF Unlink, At, Goto
    <2> QED
      BY <2>1 DEF Remaining, LeftAtLock, LeftAtGate, InGate, RmLeft
  <1>g. ASSUME GateLeft(p)
        PROVE  /\ at'[p] = "createGate" => Remaining(p)' = LaterAttempts(p)
               /\ at'[p] # "createGate" => Remaining(p)' = 0
    <2>1. /\ at'[p] \in {"work", "createGate", "idle"} /\ gateTry'[p] = 0
          /\ at'[p] = "createGate" => lockTry'[p] = lockTry[p] + 1
      BY <1>g DEF GateLeft, AfterGate, Goto
    <2>2. CASE at'[p] = "createGate"
      <3>1. Remaining(p)' = LaterAttempts(p)' + LeftAtGate(p)'
        BY <2>2 DEF Remaining, InGate
      <3>2. LeftAtGate(p)' = LaterTries(p)' + LockCalls + GateCalls
        BY <2>2 DEF LeftAtGate
      <3> QED
        BY <1>z, <2>1, <2>2, <3>1, <3>2
    <2>3. CASE at'[p] # "createGate"
      BY <2>1, <2>3 DEF Remaining
    <2> QED
      BY <2>2, <2>3
  <1>5. CASE CheckOwnGate(p)
    <2>1. CASE GateLeft(p)
      BY <1>5, <1>g, <2>1 DEF CheckOwnGate, At, Remaining, LeftAtLock, InGate
    <2>2. CASE ~GateLeft(p)
      <3>1. /\ at[p] = "checkOwnGate" /\ at'[p] = "unlink" /\ removing'[p] = "ownGate"
            /\ rmTry'[p] = 0 /\ UNCHANGED lockTry
        BY <1>5, <2>2 DEF CheckOwnGate, At, Goto
      <3> QED
        BY <3>1 DEF Remaining, LeftAtLock, InGate, RmLeft
    <2> QED BY <2>1, <2>2
  <1>6. CASE Rmdir(p)
    <2>1. at[p] = "rmdir" /\ removing' = removing
      BY <1>6 DEF Rmdir, At
    <2>2. \/ /\ rmTry[p] < RmRetries /\ rmTry'[p] = rmTry[p] + 1 /\ at'[p] = "unlink"
             /\ UNCHANGED <<lockTry, gateTry>>
          \/ /\ removing[p] = "staleGate" /\ at'[p] \in {"createGate", "idle"}
             /\ gateTry'[p] = gateTry[p] + 1 /\ lockTry' = lockTry
          \/ /\ removing[p] \in {"staleLock", "ownLock"} /\ lockTry' = lockTry
             /\ at'[p] \in {"checkOwnGate", "recreateLock"}
          \/ removing[p] = "ownGate" /\ GateLeft(p)
      BY <1>6 DEF Rmdir, AfterRm, NextGateAttempt, LeaveGate, Goto
    <2>3. CASE removing[p] = "ownGate" /\ GateLeft(p)
      BY <2>1, <2>3, <1>g DEF Remaining, LeftAtLock, InGate, RmLeft
    <2>4. CASE ~(removing[p] = "ownGate" /\ GateLeft(p))
      BY <2>1, <2>2, <2>4 DEF Remaining, LeftAtLock, LeftAtGate, InGate, AtGate, RmLeft
    <2> QED BY <2>3, <2>4
  <1> QED
    BY <1>1, <1>2, <1>3, <1>4, <1>5, <1>6 DEF Step

\* Every file system call of acquire or release brings its caller nearer to the end of
\* its call: with no bound but the attempts and retries of lock.ts, on every platform
\* and whatever others do, a call that goes on ends.
THEOREM CallAdvancesHolds == Spec => CallAdvances
  <1>1. Init => CountInv
    BY DEF Init, CountInv, AtGate
  <1>2. TypeOK /\ CountInv /\ [Next]_vars => CountInv'
    BY CountStep
  <1>3. ASSUME TypeOK, TypeOK', CountInv
        PROVE  [\A p \in Procs : Step(p) => Remaining(p)' < Remaining(p)]_vars
    BY <1>3, RemainingFalls
  <1> QED
    BY <1>1, <1>2, <1>3, TypeCorrect, PTL DEF Spec, CallAdvances

-----------------------------------------------------------------------------
(* Directories without metadata.                                           *)

\* A process that is not about to remove a directory does not take the last remover
\* of one from it.
LEMMA OthersRemove ==
  ASSUME TypeOK, NoOrphanDirectory, NEW p \in Procs, at[p] # "rmdir",
         \A q \in Procs : q # p => at'[q] = at[q] /\ removing'[q] = removing[q],
         \A d \in exists' : meta'[d] = NoOwner => d \in exists /\ meta[d] = NoOwner
  PROVE  NoOrphanDirectory'
<1> SUFFICES ASSUME NEW d \in exists', meta'[d] = NoOwner
             PROVE  \E q \in Procs : at'[q] = "rmdir" /\ RemovedDir(removing'[q]) = d
  BY DEF NoOrphanDirectory
<1>1. PICK q \in Procs : at[q] = "rmdir" /\ RemovedDir(removing[q]) = d
  BY DEF NoOrphanDirectory
<1> QED BY <1>1

LEMMA OrphanStep == TypeOK /\ NoOrphanDirectory /\ [Next]_vars => NoOrphanDirectory'
<1> SUFFICES ASSUME TypeOK, NoOrphanDirectory, [Next]_vars PROVE NoOrphanDirectory'
  OBVIOUS
<1> USE DirLockAssumption, DirsFact
<1>1. CASE UNCHANGED vars
  BY <1>1 DEF vars, NoOrphanDirectory
<1>2. ASSUME NEW p \in Procs,
             \/ Call(p) \/ FinishWork(p) \/ StatGate(p) \/ ReadGate(p) \/ CheckGate(p)
             \/ StatLock(p) \/ ReadLock(p) \/ CheckLock(p) \/ CheckOwnGate(p)
      PROVE  NoOrphanDirectory'
  <2>1. /\ at[p] # "rmdir" /\ UNCHANGED <<exists, meta>>
        /\ \A q \in Procs : q # p => at'[q] = at[q] /\ removing'[q] = removing[q]
    BY <1>2 DEF Call, FinishWork, StatGate, ReadGate, CheckGate, StatLock, ReadLock,
                CheckLock, CheckOwnGate, NextGateAttempt, LeaveGate, GateLeft, At, Goto, TypeOK
  <2> QED BY <2>1, OthersRemove
<1>3. ASSUME NEW p \in Procs, CreateGate(p) \/ CreateLock(p) \/ RecreateLock(p)
      PROVE  NoOrphanDirectory'
  <2>1. /\ at[p] # "rmdir"
        /\ \A q \in Procs : q # p => at'[q] = at[q] /\ removing'[q] = removing[q]
    BY <1>3 DEF CreateGate, CreateLock, RecreateLock, LeaveGate, At, Goto, TypeOK
  <2>2. \/ UNCHANGED <<exists, meta>>
        \/ \E d \in Dirs : CreateOwned(p, d)
    BY <1>3 DEF CreateGate, CreateLock, RecreateLock
  <2>3. \A d \in exists' : meta'[d] = NoOwner => d \in exists /\ meta[d] = NoOwner
    BY <2>2 DEF CreateOwned, TypeOK
  <2> QED BY <2>1, <2>3, OthersRemove
<1>4. ASSUME NEW p \in Procs, Unlink(p) PROVE NoOrphanDirectory'
  <2>1. /\ at[p] = "unlink" /\ at' = [at EXCEPT ![p] = "rmdir"]
        /\ meta' = [meta EXCEPT ![RemovedDir(removing[p])] = NoOwner]
        /\ UNCHANGED <<exists, removing>>
    BY <1>4 DEF Unlink, At, Goto
  <2> SUFFICES ASSUME NEW d \in exists', meta'[d] = NoOwner
               PROVE  \E q \in Procs : at'[q] = "rmdir" /\ RemovedDir(removing'[q]) = d
    BY DEF NoOrphanDirectory
  <2>2. CASE d = RemovedDir(removing[p])
    BY <2>1, <2>2 DEF TypeOK
  <2>3. CASE d # RemovedDir(removing[p])
    <3>1. d \in exists /\ meta[d] = NoOwner
      BY <2>1, <2>3 DEF TypeOK
    <3>2. PICK q \in Procs : at[q] = "rmdir" /\ RemovedDir(removing[q]) = d
      BY <3>1 DEF NoOrphanDirectory
    <3> QED BY <2>1, <3>2 DEF TypeOK
  <2> QED BY <2>2, <2>3
<1>5. ASSUME NEW p \in Procs, Rmdir(p) PROVE NoOrphanDirectory'
  <2> DEFINE gone == RemovedDir(removing[p])
  <2>1. /\ at[p] = "rmdir" /\ UNCHANGED <<meta, removing>>
        /\ \A q \in Procs : q # p => at'[q] = at[q]
        /\ exists' = exists \ {gone} \/ (exists' = exists /\ meta[gone] # NoOwner)
    BY <1>5 DEF Rmdir, AfterRm, NextGateAttempt, LeaveGate, GateLeft, At, Goto, TypeOK
  <2> SUFFICES ASSUME NEW d \in exists', meta'[d] = NoOwner
               PROVE  \E q \in Procs : at'[q] = "rmdir" /\ RemovedDir(removing'[q]) = d
    BY DEF NoOrphanDirectory
  <2>2. d \in exists /\ meta[d] = NoOwner /\ d # gone
    BY <2>1
  <2>3. PICK q \in Procs : at[q] = "rmdir" /\ RemovedDir(removing[q]) = d
    BY <2>2 DEF NoOrphanDirectory
  <2> QED BY <2>1, <2>2, <2>3
<1>6. ASSUME NEW p \in Procs, Crash(p) PROVE NoOrphanDirectory'
  BY <1>6 DEF Crash, NoOrphanDirectory
<1> QED
  BY <1>1, <1>2, <1>3, <1>4, <1>5, <1>6 DEF Next, Step

\* On every platform, and wherever processes die: a directory that names no owner, and
\* so can never be reclaimed, is one whose removal was begun and not ended (lock.ts's
\* rm -r unlinks before it removes).
THEOREM NoOrphanHolds == Spec => []NoOrphanDirectory
<1>1. Init => NoOrphanDirectory
  BY DEF Init, NoOrphanDirectory
<1> QED BY <1>1, OrphanStep, TypeCorrect, PTL DEF Spec

-----------------------------------------------------------------------------
(* Bids.                                                                   *)

\* No more than BidLimit bids are kept.
LEMMA NewestAre ==
  ASSUME NEW t \in Seq(Bid)
  PROVE  Newest(t) \in Seq(Bid) /\ Len(Newest(t)) <= BidLimit
<1>1. Len(t) \in Nat /\ BidLimit \in Nat \ {0}
  BY BidsAssumption
<1>2. CASE Len(t) > BidLimit
  <2> DEFINE m == Len(t) - BidLimit + 1
  <2>1. m \in Int /\ m >= 1 /\ m <= Len(t) /\ Len(t) - m + 1 = BidLimit
    BY <1>1, <1>2
  <2>2. Newest(t) = SubSeq(t, m, Len(t))
    BY <1>2 DEF Newest
  <2> HIDE DEF m
  <2>3. \A i \in m..Len(t) : t[i] \in Bid
    BY <1>1, <2>1
  <2>4. /\ SubSeq(t, m, Len(t)) \in Seq(Bid)
        /\ Len(SubSeq(t, m, Len(t))) = Len(t) - m + 1
    BY <1>1, <2>1, <2>3, SubSeqProperties
  <2> QED BY <1>1, <2>1, <2>2, <2>4
<1>3. CASE ~(Len(t) > BidLimit)
  BY <1>1, <1>3 DEF Newest
<1> QED BY <1>2, <1>3

\* The run was recovered by nobody, or by the one who released it.
OneRecovered ==
  /\ status = "orphaned" => recovered = {}
  /\ \E c : recovered \subseteq {c}

BidsInv == BidsTypeOK /\ OneRecovered

LEMMA InitBids ==
  ASSUME BidsInit
  PROVE  BidsInv
<1>1. bids = <<>> /\ Len(bids) = 0 /\ bids \in Seq(Bid) /\ Len(bids) <= BidLimit
  BY BidsAssumption DEF BidsInit
<1>2. BidsTypeOK
  BY <1>1, BidsAssumption DEF BidsInit, BidsTypeOK
<1>3. OneRecovered
  BY DEF BidsInit, OneRecovered
<1> QED BY <1>2, <1>3 DEF BidsInv

\* The mutation of a bid changes bids and winners, and never the lease's status.
LEMMA SubmitKeeps ==
  ASSUME BidsInv, NEW c \in Controllers, Submit(c)
  PROVE  BidsInv'
<1> DEFINE b == [controller |-> c, priority |-> Priority[c], at |-> stamp[c]]
           t == Append(bids, b)
<1>1. /\ status = "orphaned" /\ bids' = Newest(t)
      /\ status' = status /\ stamp' = stamp /\ recovered' = recovered
      /\ clock' = clock /\ crashes' = crashes
      /\ \/ pc' = [pc EXCEPT ![c] = "won"] /\ won' = won \cup {c}
         \/ pc' = [pc EXCEPT ![c] = "lost"] /\ won' = won
  BY DEF Submit, Proceed
<1>2. BidsTypeOK /\ OneRecovered
  BY DEF BidsInv
<1>3. b \in Bid
  BY <1>2, BidsAssumption DEF BidsTypeOK, Bid
<1> HIDE DEF b
<1>4. t \in Seq(Bid)
  BY <1>2, <1>3, AppendProperties DEF BidsTypeOK
<1> HIDE DEF t
<1>5. bids' \in Seq(Bid) /\ Len(bids') <= BidLimit
  BY <1>1, <1>4, NewestAre
<1>6. pc' \in [Controllers -> {"idle", "bidding", "won", "lost", "done", "failed", "crashed"}]
      /\ won' \in SUBSET Controllers
  BY <1>1, <1>2 DEF BidsTypeOK
<1>7. BidsTypeOK'
  BY <1>1, <1>2, <1>5, <1>6 DEF BidsTypeOK
<1>8. OneRecovered'
  BY <1>1, <1>2 DEF OneRecovered
<1> QED BY <1>7, <1>8 DEF BidsInv

\* A recovery or another end clears the bids; whoever recovers is the first.
LEMMA EndKeeps ==
  ASSUME BidsInv,
         EndedElsewhere \/ \E c \in Controllers : Recover(c)
  PROVE  BidsInv'
<1>1. BidsTypeOK /\ OneRecovered
  BY DEF BidsInv
<1>2. /\ status = "orphaned" /\ status' = "released" /\ bids' = <<>> /\ stamp' = stamp
      /\ won' = won /\ clock' = clock /\ crashes' = crashes
  BY DEF EndedElsewhere, Recover
<1>3. \/ pc' = pc /\ recovered' = recovered
      \/ \E c \in Controllers : /\ pc[c] = "won" /\ pc' = [pc EXCEPT ![c] = "done"]
                                /\ recovered' = recovered \cup {c}
  BY DEF EndedElsewhere, Recover, Proceed
<1>4. bids' \in Seq(Bid) /\ Len(bids') = 0 /\ Len(bids') <= BidLimit
  <2>1. BidLimit \in Nat
    BY BidsAssumption
  <2>2. <<>> \in Seq(Bid) /\ Len(<<>>) = 0
    BY EmptySeq
  <2> QED BY <1>2, <2>1, <2>2
<1>5. BidsTypeOK'
  BY <1>1, <1>2, <1>3, <1>4 DEF BidsTypeOK
<1>8. OneRecovered'
  BY <1>1, <1>2, <1>3 DEF OneRecovered
<1> QED BY <1>5, <1>8 DEF BidsInv

\* The other steps leave bids, winners and the lease alone.
LEMMA OtherKeeps ==
  ASSUME BidsInv,
         \/ Tick \/ UNCHANGED bidsVars
         \/ \E c \in Controllers : Stamp(c) \/ Refused(c) \/ ControllerDies(c)
  PROVE  BidsInv'
<1>1. BidsTypeOK /\ OneRecovered
  BY DEF BidsInv
<1>2. status' = status /\ bids' = bids /\ won' = won /\ recovered' = recovered
  BY DEF Tick, Stamp, Refused, ControllerDies, bidsVars
<1>3. BidsTypeOK'
  <2>1. CASE Tick
    <3>1. clock' \in 0..MaxClock /\ stamp' = stamp /\ pc' = pc /\ crashes' = crashes
      BY <1>1, <2>1, BidsAssumption DEF Tick, BidsTypeOK
    <3> QED BY <1>1, <1>2, <3>1 DEF BidsTypeOK
  <2>2. ASSUME NEW c \in Controllers, Stamp(c) PROVE BidsTypeOK'
    BY <1>1, <1>2, <2>2 DEF Stamp, Proceed, BidsTypeOK
  <2>3. ASSUME NEW c \in Controllers, Refused(c) PROVE BidsTypeOK'
    BY <1>1, <1>2, <2>3 DEF Refused, Proceed, BidsTypeOK
  <2>4. ASSUME NEW c \in Controllers, ControllerDies(c) PROVE BidsTypeOK'
    <3>1. crashes' \in 0..MaxDeaths
      BY <1>1, <2>4, BidsAssumption DEF ControllerDies, BidsTypeOK
    <3> QED BY <1>1, <1>2, <2>4, <3>1 DEF ControllerDies, Proceed, BidsTypeOK
  <2>5. CASE UNCHANGED bidsVars
    BY <1>1, <2>5 DEF bidsVars, BidsTypeOK
  <2> QED BY <2>1, <2>2, <2>3, <2>4, <2>5
<1>4. OneRecovered'
  BY <1>1, <1>2 DEF OneRecovered
<1> QED BY <1>3, <1>4 DEF BidsInv

\* The inductive invariant of the bids, for any controllers, priorities, ids, clock,
\* deaths and number of bids kept.
THEOREM BidsInvariant == BidsSpec => []BidsInv
<1>1. BidsInv /\ [BidsNext]_bidsVars => BidsInv'
  <2> SUFFICES ASSUME BidsInv, [BidsNext]_bidsVars PROVE BidsInv'
    OBVIOUS
  <2> QED BY SubmitKeeps, EndKeeps, OtherKeeps DEF BidsNext
<1> QED BY <1>1, InitBids, PTL DEF BidsSpec

\* However many controllers are told that they have won, one at most recovers the run:
\* the recovery looks at the lease again, and releases it in the same mutation.
THEOREM RecoveredOnceHolds == BidsSpec => []RecoveredOnce
<1>1. BidsInv => RecoveredOnce
  <2> SUFFICES ASSUME BidsInv PROVE Cardinality(recovered) <= 1
    BY DEF RecoveredOnce
  <2>1. PICK c : recovered \subseteq {c}
    BY DEF BidsInv, OneRecovered
  <2>2. IsFiniteSet({c}) /\ Cardinality({c}) = 1
    BY FS_Singleton
  <2>3. Cardinality(recovered) <= Cardinality({c})
    BY <2>1, <2>2, FS_Subset
  <2> QED BY <2>2, <2>3
<1> QED BY <1>1, BidsInvariant, PTL

-----------------------------------------------------------------------------
(* Boots.                                                                  *)

CONSTANTS Processes, Minute, MaxDelay, None
VARIABLES bootTime, now, bootMinute

\* Processes that compute the identity of their boot, on the same clock.
Boot == INSTANCE BootId

\* A minute is the most a process may spend between its two readings.
Prompt == MaxDelay <= Minute

BootType ==
  /\ clock \in Int /\ bootTime \in Int /\ bootTime <= clock
  /\ now \in [Processes -> Int \union {None}]
  /\ bootMinute \in [Processes -> [boot : Int, id : Int] \union {None}]

\* What a process has read lies in its boot, and not too far back.
ReadingsInTime ==
  \A p \in Processes : now[p] # None =>
    /\ now[p] <= clock /\ clock - now[p] <= MaxDelay

\* The identity is the boot's time, or up to MaxDelay before it, rounded.
IdentityNearBoot ==
  \A p \in Processes : bootMinute[p] # None =>
    \E read \in Int :
      /\ read <= bootMinute[p].boot /\ bootMinute[p].boot - read <= MaxDelay
      /\ bootMinute[p].id = Boot!Rounded(read)

BootIdInv == BootType /\ ReadingsInTime /\ IdentityNearBoot

\* Rounding moves a time by half a minute at most.
LEMMA RoundedBounds ==
  ASSUME Boot!ConstantsOk, NEW x \in Int
  PROVE  /\ Boot!Rounded(x) \in Int
         /\ 2 * Minute * Boot!Rounded(x) <= 2 * x + Minute
         /\ 2 * x + Minute < 2 * Minute * Boot!Rounded(x) + 2 * Minute
<1> DEFINE n == 2 * x + Minute
           m == 2 * Minute
<1>1. n \in Int /\ m \in Int /\ m > 0  BY DEF Boot!ConstantsOk
<1>2. n \div m \in Int /\ m * (n \div m) <= n /\ n < m * (n \div m) + m
  <2> HIDE DEF n, m
  <2>1. n \div m \in Int /\ n % m \in 0..(m - 1) /\ n = m * (n \div m) + (n % m)
    BY <1>1, Z3
  <2> QED  BY <1>1, <2>1
<1> QED  BY <1>2 DEF Boot!Rounded

\* Times two half minutes apart are rounded to different minutes.
LEMMA RoundedApart ==
  ASSUME Boot!ConstantsOk, NEW x \in Int, NEW y \in Int, x + Minute <= y
  PROVE  Boot!Rounded(x) # Boot!Rounded(y)
<1>1. SUFFICES ASSUME Boot!Rounded(x) = Boot!Rounded(y) PROVE FALSE
  OBVIOUS
<1>2. 2 * Minute * Boot!Rounded(x) \in Int
  BY RoundedBounds DEF Boot!ConstantsOk
<1>3. 2 * y + Minute < 2 * Minute * Boot!Rounded(x) + 2 * Minute
  BY <1>1, RoundedBounds
<1>4. 2 * Minute * Boot!Rounded(x) <= 2 * x + Minute
  BY RoundedBounds
<1> QED  BY <1>2, <1>3, <1>4 DEF Boot!ConstantsOk

LEMMA InitBootId ==
  ASSUME Boot!ConstantsOk, Boot!Init
  PROVE  BootIdInv
BY DEF Boot!ConstantsOk, Boot!Init, BootIdInv, BootType, ReadingsInTime, IdentityNearBoot

\* The one step that makes an identity: the process's reading is in time, and
\* the uptime counts from the boot it runs in.
LEMMA ReadUptimeBootId ==
  ASSUME Boot!ConstantsOk, BootIdInv, NEW p \in Processes, Boot!ReadUptime(p)
  PROVE  BootIdInv'
<1> DEFINE read == now[p] - (clock - bootTime)
<1>1. now[p] \in Int /\ clock \in Int /\ bootTime \in Int /\ MaxDelay \in Int
  BY DEF Boot!ConstantsOk, BootIdInv, BootType, Boot!ReadUptime
<1>2. read \in Int /\ read <= bootTime /\ bootTime - read <= MaxDelay
  BY <1>1 DEF BootIdInv, ReadingsInTime, Boot!ReadUptime
<1>3. Boot!Rounded(read) \in Int
  BY <1>2, RoundedBounds
<1>4. /\ bootMinute' = [bootMinute EXCEPT ![p] = [boot |-> bootTime, id |-> Boot!Rounded(read)]]
      /\ now' = [now EXCEPT ![p] = None] /\ clock' = clock /\ bootTime' = bootTime
  BY DEF Boot!ReadUptime
<1>5. BootType'
  BY <1>1, <1>3, <1>4 DEF BootIdInv, BootType
<1>6. ReadingsInTime'
  BY <1>4 DEF BootIdInv, BootType, ReadingsInTime
<1>7. IdentityNearBoot'
  <2> HIDE DEF read
  <2> SUFFICES ASSUME NEW q \in Processes, bootMinute'[q] # None
               PROVE  \E r \in Int :
                        /\ r <= bootMinute'[q].boot /\ bootMinute'[q].boot - r <= MaxDelay
                        /\ bootMinute'[q].id = Boot!Rounded(r)
    BY <1>4 DEF IdentityNearBoot, Boot!Rounded
  <2>1. CASE q = p
    <3>1. bootMinute'[q].boot = bootTime /\ bootMinute'[q].id = Boot!Rounded(read)
      BY <2>1, <1>4 DEF BootIdInv, BootType
    <3> QED  BY <3>1, <1>2
  <2>2. CASE q # p
    BY <2>2, <1>4 DEF BootIdInv, BootType, IdentityNearBoot
  <2> QED  BY <2>1, <2>2
<1> QED  BY <1>5, <1>6, <1>7 DEF BootIdInv

LEMMA StepBootId ==
  ASSUME Boot!ConstantsOk, BootIdInv, [Boot!Next]_Boot!vars
  PROVE  BootIdInv'
<1>1. CASE Boot!Tick
  <2>1. BootType'  BY <1>1 DEF BootIdInv, BootType, Boot!Tick
  <2>2. ReadingsInTime'
    BY <1>1 DEF Boot!ConstantsOk, BootIdInv, BootType, ReadingsInTime, Boot!Tick
  <2>3. IdentityNearBoot'
    BY <1>1 DEF BootIdInv, IdentityNearBoot, Boot!Tick
  <2> QED  BY <2>1, <2>2, <2>3 DEF BootIdInv
<1>2. CASE Boot!Reboot
  <2>1. BootType' /\ ReadingsInTime'
    BY <1>2 DEF BootIdInv, BootType, ReadingsInTime, Boot!Reboot
  <2>2. IdentityNearBoot'
    BY <1>2 DEF BootIdInv, IdentityNearBoot, Boot!Reboot
  <2> QED  BY <2>1, <2>2 DEF BootIdInv
<1>3. ASSUME NEW p \in Processes, Boot!ReadClock(p) PROVE BootIdInv'
  <2>1. BootType'
    BY <1>3 DEF BootIdInv, BootType, Boot!ReadClock
  <2>2. ReadingsInTime'
    BY <1>3 DEF Boot!ConstantsOk, BootIdInv, BootType, ReadingsInTime, Boot!ReadClock
  <2>3. IdentityNearBoot'
    BY <1>3 DEF BootIdInv, IdentityNearBoot, Boot!ReadClock
  <2> QED  BY <2>1, <2>2, <2>3 DEF BootIdInv
<1>4. CASE UNCHANGED Boot!vars
  BY <1>4 DEF BootIdInv, BootType, ReadingsInTime, IdentityNearBoot, Boot!vars
<1> QED  BY <1>1, <1>2, <1>3, <1>4, ReadUptimeBootId DEF Boot!Next

\* Two boots apart by two minutes give identities of times a minute apart.
LEMMA NearBootsToldApart ==
  ASSUME Boot!ConstantsOk, Prompt, BootIdInv
  PROVE  Boot!BootsToldApart
<1> SUFFICES ASSUME NEW p \in Processes, NEW q \in Processes,
                    bootMinute[p] # None, bootMinute[q] # None,
                    bootMinute[p].boot + 2 * Minute <= bootMinute[q].boot
             PROVE  bootMinute[p].id # bootMinute[q].id
  BY DEF Boot!BootsToldApart
<1> DEFINE P == bootMinute[p].boot
           Q == bootMinute[q].boot
<1>1. PICK x \in Int : x <= P /\ P - x <= MaxDelay /\ bootMinute[p].id = Boot!Rounded(x)
  BY DEF BootIdInv, IdentityNearBoot
<1>2. PICK y \in Int : y <= Q /\ Q - y <= MaxDelay /\ bootMinute[q].id = Boot!Rounded(y)
  BY DEF BootIdInv, IdentityNearBoot
<1>3. P \in Int /\ Q \in Int /\ P + 2 * Minute <= Q
  BY DEF BootIdInv, BootType
<1>4. x + Minute <= y
  <2> HIDE DEF P, Q
  <2> QED  BY <1>1, <1>2, <1>3 DEF Boot!ConstantsOk, Prompt
<1> QED  BY <1>1, <1>2, <1>4, RoundedApart

\* The identities of boots two minutes apart differ, for every number of
\* processes and every length of the run: no lease of an earlier boot is
\* taken for one of the current boot (currentBootId).
THEOREM BootsToldApartHolds ==
  ASSUME Boot!ConstantsOk, Prompt
  PROVE  Boot!Spec => []Boot!BootsToldApart
<1>1. Boot!Init => BootIdInv  BY InitBootId
<1>2. BootIdInv /\ [Boot!Next]_Boot!vars => BootIdInv'  BY StepBootId
<1>3. BootIdInv => Boot!BootsToldApart  BY NearBootsToldApart
<1> QED  BY <1>1, <1>2, <1>3, PTL DEF Boot!Spec

=============================================================================
