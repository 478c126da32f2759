-------------------------- MODULE LoaderLockProofs --------------------------
(***************************************************************************)
(* Proofs about the loader locks of both builds, for any set of threads    *)
(* and any nesting of guards.  Of the futex lock only safety is proved:    *)
(* FreeLockIsTaken does not hold of it.                                    *)
(***************************************************************************)
EXTENDS StdLoaderLock, TLAPS

VARIABLE seen   \* of the futex lock

\* The lock of the no_std build, over the same variables.
Futex == INSTANCE FutexLoaderLock
-----------------------------------------------------------------------------
(* The std lock.                                                           *)

\* The inductive step: a step of any thread keeps Inv.
LEMMA StdInvStep == Inv /\ [Next]_vars => Inv'
<1> SUFFICES ASSUME Inv, [Next]_vars
             PROVE  Inv'
  OBVIOUS
<1> USE NoOwnerAssumption, MaxGuardsAssumption DEF Inv, TypeOK, DepthCountsGuards, PC
<1>1. ASSUME NEW t \in Threads, CallLock(t)
      PROVE  Inv'
  BY <1>1 DEF CallLock
<1>2. ASSUME NEW t \in Threads, CallUnlock(t)
      PROVE  Inv'
  BY <1>2 DEF CallUnlock
<1>3. ASSUME NEW t \in Threads, SpuriousWake(t)
      PROVE  Inv'
  BY <1>3 DEF SpuriousWake
<1>4. ASSUME NEW t \in Threads, LockWait(t)
      PROVE  Inv'
  BY <1>4 DEF LockWait
<1>5. ASSUME NEW t \in Threads, LockTake(t)
      PROVE  Inv'
  BY <1>5 DEF LockTake
<1>6. ASSUME NEW t \in Threads, UnlockInner(t)
      PROVE  Inv'
  BY <1>6 DEF UnlockInner
<1>7. ASSUME NEW t \in Threads, UnlockOuter(t)
      PROVE  Inv'
  BY <1>7 DEF UnlockOuter, Waiters
<1>8. CASE UNCHANGED vars
  BY <1>8 DEF vars
<1>9. QED
  BY <1>1, <1>2, <1>3, <1>4, <1>5, <1>6, <1>7, <1>8 DEF Next, Step

\* The bookkeeping of the std lock is consistent in every reachable state: the
\* depth is the number of guards of the one thread that holds any.
THEOREM StdInvariant == Spec => []Inv
<1>1. Init => Inv
  BY NoOwnerAssumption DEF Init, Inv, TypeOK, DepthCountsGuards, PC
<1>2. QED
  BY <1>1, StdInvStep, PTL DEF Spec

\* Two threads never hold guards of the std lock at the same time.
THEOREM StdMutualExclusion == Spec => []MutualExclusion
<1>1. Inv => MutualExclusion
  BY DEF Inv, DepthCountsGuards, MutualExclusion
<1>2. QED
  BY <1>1, StdInvariant, PTL

\* One notify_one per release is enough (unlock, Condvar::wait): whenever the lock is
\* free and threads sleep on the Condvar, some thread is awake inside lock().
THEOREM StdNoLostWakeup == Spec => []NoLostWakeup
<1>1. Init => NoLostWakeup
  BY DEF Init, NoLostWakeup, Waiters
<1>2. Inv /\ NoLostWakeup /\ [Next]_vars => NoLostWakeup'
  <2> SUFFICES ASSUME Inv, NoLostWakeup, [Next]_vars,
                      owner' = NoOwner, NEW w \in Threads, pc'[w] = "wait"
               PROVE  \E t \in Threads : pc'[t] = "lock"
    BY DEF NoLostWakeup, Waiters
  <2>0. pc \in [Threads -> PC]
    BY DEF Inv, TypeOK
  <2>1. ASSUME NEW t \in Threads, CallLock(t) \/ SpuriousWake(t)
        PROVE  pc'[t] = "lock"
    BY <2>1, <2>0 DEF CallLock, SpuriousWake
  <2>2. ASSUME NEW t \in Threads, CallUnlock(t) \/ UnlockInner(t)
        PROVE  FALSE
    BY <2>2, NoOwnerAssumption
       DEF CallUnlock, UnlockInner, Inv, TypeOK, DepthCountsGuards
  <2>3. ASSUME NEW t \in Threads, LockWait(t) \/ LockTake(t)
        PROVE  FALSE
    BY <2>3, NoOwnerAssumption DEF LockWait, LockTake
  <2>4. ASSUME NEW t \in Threads, UnlockOuter(t)
        PROVE  \E u \in Threads : pc'[u] = "lock"
    <3>1. w \in Waiters
      BY <2>4, <2>0 DEF UnlockOuter, Waiters
    <3>2. PICK u \in Waiters : pc' = [pc EXCEPT ![t] = "idle", ![u] = "lock"]
      BY <2>4, <3>1 DEF UnlockOuter
    <3>3. QED
      BY <3>2, <2>0 DEF Waiters
  <2>5. CASE UNCHANGED vars
    BY <2>5 DEF vars, NoLostWakeup, Waiters
  <2>6. QED
    BY <2>1, <2>2, <2>3, <2>4, <2>5 DEF Next, Step
<1>3. QED
  BY <1>1, <1>2, StdInvariant, PTL DEF Spec

\* Every behaviour of the std lock is a behaviour of the reentrant lock.
THEOREM StdRefinement == Spec => RefinesReentrantLock
<1>1. Init => Abstract!Init
  BY DEF Init, Abstract!Init
<1>2. Inv /\ [Next]_vars => [Abstract!Next]_Abstract!lockVars
  <2> SUFFICES ASSUME Inv, [Next]_vars
               PROVE  [Abstract!Next]_Abstract!lockVars
    OBVIOUS
  <2> USE NoOwnerAssumption DEF Inv, TypeOK, DepthCountsGuards, Abstract!lockVars
  <2>1. ASSUME NEW t \in Threads, LockTake(t)
        PROVE  Abstract!Acquire(t)
    BY <2>1 DEF LockTake, Abstract!Acquire
  <2>2. ASSUME NEW t \in Threads, UnlockInner(t) \/ UnlockOuter(t)
        PROVE  Abstract!Release(t)
    BY <2>2 DEF UnlockInner, UnlockOuter, Abstract!Release
  <2>3. ASSUME NEW t \in Threads,
               CallLock(t) \/ CallUnlock(t) \/ SpuriousWake(t) \/ LockWait(t)
        PROVE  UNCHANGED Abstract!lockVars
    BY <2>3 DEF CallLock, CallUnlock, SpuriousWake, LockWait
  <2>4. CASE UNCHANGED vars
    BY <2>4 DEF vars
  <2>5. QED
    BY <2>1, <2>2, <2>3, <2>4 DEF Next, Step, Abstract!Next
<1>3. QED
  BY <1>1, <1>2, StdInvariant, PTL DEF Spec, RefinesReentrantLock, Abstract!Spec

-----------------------------------------------------------------------------
(* The futex lock.                                                         *)

\* The inductive step: an access of any thread keeps Inv.
LEMMA FutexInvStep == Futex!Inv /\ [Futex!Next]_Futex!vars => Futex!Inv'
<1> SUFFICES ASSUME Futex!Inv, [Futex!Next]_Futex!vars
             PROVE  Futex!Inv'
  OBVIOUS
<1> USE NoOwnerAssumption, MaxGuardsAssumption
       DEF Futex!Inv, Futex!TypeOK, Futex!OwnerAlone, Futex!PC, Futex!Goto
<1>1. ASSUME NEW t \in Threads, Futex!CallLock(t)
      PROVE  Futex!Inv'
  BY <1>1 DEF Futex!CallLock
<1>2. ASSUME NEW t \in Threads, Futex!CallUnlock(t)
      PROVE  Futex!Inv'
  BY <1>2 DEF Futex!CallUnlock
<1>3. ASSUME NEW t \in Threads, Futex!Interrupted(t)
      PROVE  Futex!Inv'
  BY <1>3 DEF Futex!Interrupted
<1>4. ASSUME NEW t \in Threads, Futex!Load(t)
      PROVE  Futex!Inv'
  BY <1>4 DEF Futex!Load
<1>5. ASSUME NEW t \in Threads, Futex!IncDepth(t)
      PROVE  Futex!Inv'
  BY <1>5 DEF Futex!IncDepth
<1>6. ASSUME NEW t \in Threads, Futex!CasOk(t)
      PROVE  Futex!Inv'
  BY <1>6 DEF Futex!CasOk
<1>7. ASSUME NEW t \in Threads, Futex!CasFail(t)
      PROVE  Futex!Inv'
  BY <1>7 DEF Futex!CasFail
<1>8. ASSUME NEW t \in Threads, Futex!StoreDepth(t)
      PROVE  Futex!Inv'
  BY <1>8 DEF Futex!StoreDepth
<1>9. ASSUME NEW t \in Threads, Futex!FutexWait(t)
      PROVE  Futex!Inv'
  BY <1>9 DEF Futex!FutexWait
<1>10. ASSUME NEW t \in Threads, Futex!DecDepth(t)
       PROVE  Futex!Inv'
  BY <1>10 DEF Futex!DecDepth
<1>11. ASSUME NEW t \in Threads, Futex!ClearOwner(t)
       PROVE  Futex!Inv'
  BY <1>11 DEF Futex!ClearOwner
<1>12. ASSUME NEW t \in Threads, Futex!FutexWake(t)
       PROVE  Futex!Inv'
  BY <1>12 DEF Futex!FutexWake, Futex!Asleep
<1>13. CASE UNCHANGED Futex!vars
  BY <1>13 DEF Futex!vars
<1>14. QED
  BY <1>1, <1>2, <1>3, <1>4, <1>5, <1>6, <1>7, <1>8, <1>9, <1>10, <1>11,
     <1>12, <1>13 DEF Futex!Next, Futex!Step

\* In every reachable state only the thread named by the owner word touches the
\* depth, and the depth counts its guards.
THEOREM FutexInvariant == Futex!Spec => []Futex!Inv
<1>1. Futex!Init => Futex!Inv
  BY NoOwnerAssumption DEF Futex!Init, Futex!Inv, Futex!TypeOK, Futex!OwnerAlone, Futex!PC
<1>2. QED
  BY <1>1, FutexInvStep, PTL DEF Futex!Spec

\* Two threads never hold guards of the futex lock at the same time.
THEOREM FutexMutualExclusion == Futex!Spec => []Futex!MutualExclusion
<1>1. Futex!Inv => Futex!MutualExclusion
  BY DEF Futex!Inv, Futex!OwnerAlone, Futex!MutualExclusion
<1>2. QED
  BY <1>1, FutexInvariant, PTL

\* Every behaviour of the futex lock is a behaviour of the reentrant lock: the
\* lock is taken by the compare_exchange and freed by the store of 0.
THEOREM FutexRefinement == Futex!Spec => Futex!RefinesReentrantLock
<1>1. Futex!Init => Futex!Abstract!Init
  BY DEF Futex!Init, Futex!Abstract!Init, Futex!AbstractDepth
<1>2. Futex!Inv /\ [Futex!Next]_Futex!vars => [Futex!Abstract!Next]_Futex!Abstract!lockVars
  <2> SUFFICES ASSUME Futex!Inv, [Futex!Next]_Futex!vars
               PROVE  [Futex!Abstract!Next]_Futex!Abstract!lockVars
    OBVIOUS
  <2> USE NoOwnerAssumption
      DEF Futex!Inv, Futex!TypeOK, Futex!OwnerAlone, Futex!AbstractDepth, Futex!Abstract!lockVars, Futex!Goto
  <2>1. ASSUME NEW t \in Threads, Futex!CasOk(t)
        PROVE  Futex!Abstract!Acquire(t)
    BY <2>1 DEF Futex!CasOk, Futex!Abstract!Acquire
  <2>2. ASSUME NEW t \in Threads, Futex!IncDepth(t)
        PROVE  Futex!Abstract!Acquire(t)
    BY <2>2 DEF Futex!IncDepth, Futex!Abstract!Acquire
  <2>3. ASSUME NEW t \in Threads, Futex!ClearOwner(t)
        PROVE  Futex!Abstract!Release(t)
    BY <2>3 DEF Futex!ClearOwner, Futex!Abstract!Release
  <2>4. ASSUME NEW t \in Threads, Futex!DecDepth(t)
        PROVE  Futex!Abstract!Release(t) \/ UNCHANGED Futex!Abstract!lockVars
    BY <2>4 DEF Futex!DecDepth, Futex!Abstract!Release
  <2>5. ASSUME NEW t \in Threads, Futex!StoreDepth(t)
        PROVE  UNCHANGED Futex!Abstract!lockVars
    BY <2>5 DEF Futex!StoreDepth
  <2>6. ASSUME NEW t \in Threads,
               \/ Futex!CallLock(t) \/ Futex!CallUnlock(t) \/ Futex!Interrupted(t) \/ Futex!Load(t)
               \/ Futex!CasFail(t) \/ Futex!FutexWait(t) \/ Futex!FutexWake(t)
        PROVE  UNCHANGED Futex!Abstract!lockVars
    BY <2>6 DEF Futex!CallLock, Futex!CallUnlock, Futex!Interrupted, Futex!Load, Futex!CasFail,
                Futex!FutexWait, Futex!FutexWake
  <2>7. CASE UNCHANGED Futex!vars
    BY <2>7 DEF Futex!vars
  <2>8. QED
    BY <2>1, <2>2, <2>3, <2>4, <2>5, <2>6, <2>7 DEF Futex!Next, Futex!Step, Futex!Abstract!Next
<1>3. QED
  BY <1>1, <1>2, FutexInvariant, PTL DEF Futex!Spec, Futex!RefinesReentrantLock, Futex!Abstract!Spec
=============================================================================
