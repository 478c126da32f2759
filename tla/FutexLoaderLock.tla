--------------------------- MODULE FutexLoaderLock ---------------------------
(***************************************************************************)
(* The loader lock of the no_std build: two atomics and the futex system   *)
(* call (registry/loader_lock.rs, `mod imp` for no_std).                   *)
(*                                                                         *)
(* One atomic access or one system call is one action.  Memory orders: the *)
(* owner is stored with Release and read or exchanged with Acquire, and    *)
(* depth is touched only by the owner, so interleavings of the accesses    *)
(* cover the executions.                                                   *)
(***************************************************************************)
EXTENDS Naturals

CONSTANTS Threads,     \* the threads of the process, by their tid
          NoOwner,     \* the owner word 0
          MaxGuards    \* bound: guards a thread holds at once

ASSUME NoOwnerAssumption == NoOwner \notin Threads

ASSUME MaxGuardsAssumption == MaxGuards \in Nat

VARIABLES owner,   \* LoaderLock::owner, the futex word
          depth,   \* LoaderLock::depth
          pc,      \* the next access of each thread
          seen,    \* the local variable `owner` of lock()
          guards   \* how many LoaderGuards each thread holds

vars == <<owner, depth, pc, seen, guards>>

\* lock(): load, cas, store | inc, wait (about to call FUTEX_WAIT), asleep;
\* unlock(): dec, clear, wake.
PC == {"idle", "load", "cas", "store", "inc", "wait", "asleep",
       "dec", "clear", "wake"}

Init ==
    /\ owner = NoOwner
    /\ depth = 0
    /\ pc = [t \in Threads |-> "idle"]
    /\ seen = [t \in Threads |-> NoOwner]
    /\ guards = [t \in Threads |-> 0]

Asleep == {t \in Threads : pc[t] = "asleep"}

Goto(t, l) == pc' = [pc EXCEPT ![t] = l]

\* A caller enters lock().
CallLock(t) ==
    /\ pc[t] = "idle"
    /\ guards[t] < MaxGuards
    /\ Goto(t, "load")
    /\ UNCHANGED <<owner, depth, seen, guards>>

\* owner.load(Acquire) and the tests on the loaded value.
Load(t) ==
    /\ pc[t] = "load"
    /\ seen' = [seen EXCEPT ![t] = owner]
    /\ Goto(t, CASE owner = t -> "inc"
                 [] owner = NoOwner -> "cas"
                 [] OTHER -> "wait")
    /\ UNCHANGED <<owner, depth, guards>>

\* Reentry: depth.fetch_update(checked_add), return a guard.
IncDepth(t) ==
    /\ pc[t] = "inc"
    /\ depth' = depth + 1
    /\ guards' = [guards EXCEPT ![t] = @ + 1]
    /\ Goto(t, "idle")
    /\ UNCHANGED <<owner, seen>>

\* compare_exchange(0, current) succeeds ...
CasOk(t) ==
    /\ pc[t] = "cas"
    /\ owner = NoOwner
    /\ owner' = t
    /\ Goto(t, "store")
    /\ UNCHANGED <<depth, seen, guards>>

\* ... or fails; the loop then waits on the value it loaded before, which is 0.
CasFail(t) ==
    /\ pc[t] = "cas"
    /\ owner # NoOwner
    /\ Goto(t, "wait")
    /\ UNCHANGED <<owner, depth, seen, guards>>

\* depth.store(1), return a guard.
StoreDepth(t) ==
    /\ pc[t] = "store"
    /\ depth' = 1
    /\ guards' = [guards EXCEPT ![t] = @ + 1]
    /\ Goto(t, "idle")
    /\ UNCHANGED <<owner, seen>>

\* FUTEX_WAIT_PRIVATE: the kernel compares the word with the expected value and
\* sleeps, or returns EAGAIN, in one step; lock() loops either way.
FutexWait(t) ==
    /\ pc[t] = "wait"
    /\ Goto(t, IF owner = seen[t] THEN "asleep" ELSE "load")
    /\ UNCHANGED <<owner, depth, seen, guards>>

\* FUTEX_WAIT may also return because of a signal.
Interrupted(t) ==
    /\ pc[t] = "asleep"
    /\ Goto(t, "load")
    /\ UNCHANGED <<owner, depth, seen, guards>>

\* A caller drops a guard; LoaderGuard is not Send, so it is the thread that took it.
CallUnlock(t) ==
    /\ pc[t] = "idle"
    /\ guards[t] > 0
    /\ Goto(t, "dec")
    /\ UNCHANGED <<owner, depth, seen, guards>>

\* Mutant: off by one, the owner is cleared when one guard is left.
MutantDecDepth(t) ==
    /\ pc[t] = "dec"
    /\ depth' = depth - 1
    /\ guards' = [guards EXCEPT ![t] = @ - 1]
    /\ Goto(t, IF depth' <= 1 THEN "clear" ELSE "idle")
    /\ UNCHANGED <<owner, seen>>

\* depth.fetch_sub(1): the outermost guard goes on to free the lock.
DecDepth(t) ==
    /\ pc[t] = "dec"
    /\ depth' = depth - 1
    /\ guards' = [guards EXCEPT ![t] = @ - 1]
    /\ Goto(t, IF depth = 1 THEN "clear" ELSE "idle")
    /\ UNCHANGED <<owner, seen>>

\* owner.store(0, Release).
ClearOwner(t) ==
    /\ pc[t] = "clear"
    /\ owner' = NoOwner
    /\ Goto(t, "wake")
    /\ UNCHANGED <<depth, seen, guards>>

\* FUTEX_WAKE_PRIVATE of one waiter, if there is one.
FutexWake(t) ==
    /\ pc[t] = "wake"
    /\ \/ Asleep = {} /\ Goto(t, "idle")
       \/ \E w \in Asleep : pc' = [pc EXCEPT ![t] = "idle", ![w] = "load"]
    /\ UNCHANGED <<owner, depth, seen, guards>>

\* The steps lock() and unlock() take by themselves once called.
Step(t) ==
    \/ Load(t) \/ IncDepth(t) \/ CasOk(t) \/ CasFail(t) \/ StoreDepth(t)
    \/ FutexWait(t) \/ DecDepth(t) \/ ClearOwner(t) \/ FutexWake(t)

Next == \E t \in Threads :
    CallLock(t) \/ CallUnlock(t) \/ Interrupted(t) \/ Step(t)

Spec == Init /\ [][Next]_vars

\* A running thread is scheduled again.  Nothing says when a caller drops its
\* guard, nor that a signal arrives.
FairSpec == Spec /\ \A t \in Threads : WF_vars(Step(t))
-----------------------------------------------------------------------------
TypeOK ==
    /\ owner \in Threads \cup {NoOwner}
    /\ depth \in Nat
    /\ pc \in [Threads -> PC]
    /\ seen \in [Threads -> Threads \cup {NoOwner}]
    /\ guards \in [Threads -> Nat]

\* The lock excludes: two threads never hold guards at the same time, so the
\* registry behind it is accessed by one thread (the SAFETY comment of Registry).
MutualExclusion ==
    \A t, u \in Threads : guards[t] > 0 /\ guards[u] > 0 => t = u

\* Only the owner holds guards or stands between taking the word and clearing it;
\* the depth is the number of its guards.  So the Relaxed accesses of depth are
\* never concurrent and the two debug_asserts of unlock() hold.
OwnerAlone ==
    /\ \A t \in Threads :
         guards[t] > 0 \/ pc[t] \in {"inc", "store", "dec", "clear"} => owner = t
    /\ owner = NoOwner => depth = 0
    /\ owner # NoOwner => depth = guards[owner]
    /\ owner # NoOwner /\ depth = 0 => pc[owner] \in {"store", "clear"}
    /\ \A t \in Threads : pc[t] \in {"inc", "dec"} => guards[t] > 0
    /\ \A t \in Threads : pc[t] \in {"store", "clear"} => guards[t] = 0

\* The owner word is set before the depth and cleared after it: while the owner
\* is between the two accesses it holds the lock once.
AbstractDepth ==
    IF owner # NoOwner /\ depth = 0 THEN 1 ELSE depth

\* The futex lock implements the reentrant lock.
Abstract == INSTANCE ReentrantLock WITH depth <- AbstractDepth

RefinesReentrantLock == Abstract!Spec

\* A thread inside lock() while the lock is free does not leave it free forever.
FreeLockIsTaken ==
    (owner = NoOwner
        /\ \E t \in Threads : pc[t] \in {"load", "cas", "wait", "asleep"})
        ~> owner # NoOwner

\* Inductive invariant of the safety proofs.
Inv == TypeOK /\ OwnerAlone
=============================================================================
