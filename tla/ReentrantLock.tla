---------------------------- MODULE ReentrantLock ----------------------------
(***************************************************************************)
(* What the loader lock promises to the registry: at most one thread owns  *)
(* it, the owner may take it again, and it becomes free when the owner has *)
(* dropped as many guards as it took.  StdLoaderLock and FutexLoaderLock   *)
(* (the two bodies of `mod imp` in registry/loader_lock.rs) implement this *)
(* specification; Registry uses it.                                        *)
(***************************************************************************)
EXTENDS Naturals

CONSTANTS Threads,   \* the threads of the process
          NoOwner    \* the value of `owner` while the lock is free

VARIABLES owner,     \* the owning thread, or NoOwner
          depth      \* how many guards the owner holds

lockVars == <<owner, depth>>

Init == owner = NoOwner /\ depth = 0

\* Registry::lock: returns only once the calling thread owns the lock.
Acquire(t) ==
    /\ owner \in {NoOwner, t}
    /\ owner' = t
    /\ depth' = depth + 1

\* Drop of a LoaderGuard.
Release(t) ==
    /\ owner = t
    /\ depth > 0
    /\ depth' = depth - 1
    /\ owner' = IF depth = 1 THEN NoOwner ELSE owner

Next == \E t \in Threads : Acquire(t) \/ Release(t)

Spec == Init /\ [][Next]_lockVars
=============================================================================
