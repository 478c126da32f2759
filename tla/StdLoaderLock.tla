---------------------------- MODULE StdLoaderLock ----------------------------
(***************************************************************************)
(* The loader lock of the std build: a Mutex around (owner, depth) and a   *)
(* Condvar `available` (registry/loader_lock.rs, `mod imp` for std).       *)
(*                                                                         *)
(* Every access to the state is inside the Mutex, and Condvar::wait        *)
(* releases the Mutex and sleeps in one step, so one critical section is   *)
(* one action.  A thread asleep in Condvar::wait has pc = "wait"; a        *)
(* notified (or spuriously woken) one is back at the head of the while     *)
(* loop, pc = "lock".                                                      *)
(***************************************************************************)
EXTENDS Naturals

CONSTANTS Threads,     \* the threads of the process
          NoOwner,     \* LockState::owner = None
          MaxGuards    \* bound: guards a thread holds at once

ASSUME NoOwnerAssumption == NoOwner \notin Threads

ASSUME MaxGuardsAssumption == MaxGuards \in Nat

VARIABLES owner,   \* LockState::owner
          depth,   \* LockState::depth
          pc,      \* where each thread is in lock() and unlock()
          guards   \* how many LoaderGuards each thread holds

vars == <<owner, depth, pc, guards>>

PC == {"idle", "lock", "wait", "unlock"}

Init ==
    /\ owner = NoOwner
    /\ depth = 0
    /\ pc = [t \in Threads |-> "idle"]
    /\ guards = [t \in Threads |-> 0]

Waiters == {t \in Threads : pc[t] = "wait"}

\* A caller enters lock().
CallLock(t) ==
    /\ pc[t] = "idle"
    /\ guards[t] < MaxGuards
    /\ pc' = [pc EXCEPT ![t] = "lock"]
    /\ UNCHANGED <<owner, depth, guards>>

\* Mutant: sleeps whenever it is not the owner, even if the lock is free.
MutantLockWait(t) ==
    /\ pc[t] = "lock"
    /\ owner # t
    /\ pc' = [pc EXCEPT ![t] = "wait"]
    /\ UNCHANGED <<owner, depth, guards>>

\* The while condition holds: another thread owns the lock, wait on `available`.
LockWait(t) ==
    /\ pc[t] = "lock"
    /\ owner \notin {NoOwner, t}
    /\ pc' = [pc EXCEPT ![t] = "wait"]
    /\ UNCHANGED <<owner, depth, guards>>

\* The while condition is false: become (or stay) the owner, return a guard.
LockTake(t) ==
    /\ pc[t] = "lock"
    /\ owner \in {NoOwner, t}
    /\ owner' = t
    /\ depth' = depth + 1
    /\ guards' = [guards EXCEPT ![t] = @ + 1]
    /\ pc' = [pc EXCEPT ![t] = "idle"]

\* Condvar::wait may return without a notification.
SpuriousWake(t) ==
    /\ pc[t] = "wait"
    /\ pc' = [pc EXCEPT ![t] = "lock"]
    /\ UNCHANGED <<owner, depth, guards>>

\* A caller drops a guard; LoaderGuard is not Send, so it is the thread that took it.
CallUnlock(t) ==
    /\ pc[t] = "idle"
    /\ guards[t] > 0
    /\ pc' = [pc EXCEPT ![t] = "unlock"]
    /\ UNCHANGED <<owner, depth, guards>>

\* Mutant: the owner is reset by every unlock().
MutantUnlockInner(t) ==
    /\ pc[t] = "unlock"
    /\ depth > 1
    /\ depth' = depth - 1
    /\ owner' = NoOwner
    /\ guards' = [guards EXCEPT ![t] = @ - 1]
    /\ pc' = [pc EXCEPT ![t] = "idle"]

\* unlock() of an inner guard: only the depth changes.
UnlockInner(t) ==
    /\ pc[t] = "unlock"
    /\ depth > 1
    /\ depth' = depth - 1
    /\ guards' = [guards EXCEPT ![t] = @ - 1]
    /\ pc' = [pc EXCEPT ![t] = "idle"]
    /\ UNCHANGED owner

\* Mutant: notify_one is forgotten.
MutantUnlockOuter(t) ==
    /\ pc[t] = "unlock"
    /\ depth = 1
    /\ depth' = 0
    /\ owner' = NoOwner
    /\ guards' = [guards EXCEPT ![t] = @ - 1]
    /\ pc' = [pc EXCEPT ![t] = "idle"]

\* unlock() of the outermost guard: the lock becomes free and notify_one wakes
\* one of the waiters, if there is one.
UnlockOuter(t) ==
    /\ pc[t] = "unlock"
    /\ depth = 1
    /\ depth' = 0
    /\ owner' = NoOwner
    /\ guards' = [guards EXCEPT ![t] = @ - 1]
    /\ \/ /\ Waiters = {}
          /\ pc' = [pc EXCEPT ![t] = "idle"]
       \/ \E w \in Waiters : pc' = [pc EXCEPT ![t] = "idle", ![w] = "lock"]

\* The steps lock() and unlock() take by themselves once called.
Step(t) == LockWait(t) \/ LockTake(t) \/ UnlockInner(t) \/ UnlockOuter(t)

Next == \E t \in Threads :
    CallLock(t) \/ CallUnlock(t) \/ SpuriousWake(t) \/ Step(t)

Spec == Init /\ [][Next]_vars

\* A running thread is scheduled again.  Nothing says when a caller drops its
\* guard, nor that a sleeper wakes unless it is notified.
FairSpec == Spec /\ \A t \in Threads : WF_vars(Step(t))
-----------------------------------------------------------------------------
TypeOK ==
    /\ owner \in Threads \cup {NoOwner}
    /\ depth \in Nat
    /\ pc \in [Threads -> PC]
    /\ guards \in [Threads -> Nat]

\* The lock excludes: two threads never hold guards at the same time, so the
\* registry behind it is accessed by one thread (the SAFETY comment of Registry).
MutualExclusion ==
    \A t, u \in Threads : guards[t] > 0 /\ guards[u] > 0 => t = u

\* The depth is exactly the number of guards of the owner, and only the owner
\* has any: the debug_assert and the checked_sub of unlock() never fail, and the
\* lock is never freed under an outer guard.
DepthCountsGuards ==
    /\ \A t \in Threads : guards[t] > 0 => owner = t /\ depth = guards[t]
    /\ owner = NoOwner => depth = 0
    /\ owner # NoOwner => depth > 0 /\ depth = guards[owner]
    /\ \A t \in Threads : pc[t] = "unlock" => guards[t] > 0

\* notify_one suffices: while the lock is free and somebody sleeps on the Condvar,
\* some thread is awake inside lock() and will take it, and notify when it is done.
NoLostWakeup ==
    owner = NoOwner /\ Waiters # {} => \E t \in Threads : pc[t] = "lock"

\* A thread inside lock() while the lock is free does not leave it free forever.
FreeLockIsTaken ==
    (owner = NoOwner /\ \E t \in Threads : pc[t] \in {"lock", "wait"})
        ~> owner # NoOwner

\* The std lock implements the reentrant lock.
Abstract == INSTANCE ReentrantLock

RefinesReentrantLock == Abstract!Spec

\* Inductive invariant of the safety proofs.
Inv == TypeOK /\ DepthCountsGuards
=============================================================================
