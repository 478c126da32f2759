------------------------------ MODULE Registry ------------------------------
(***************************************************************************)
(* The process-wide registry (registry/manager.rs) and the calls that go   *)
(* through it: dlopen, dlclose, dladdr, dl_iterate_phdr, the thread        *)
(* destructors of __cxa_thread_atexit_impl, and the drop of library        *)
(* handles.  Threads interleave, and the code the loader calls back        *)
(* (IFUNC resolvers, constructors, finalizers, dl_iterate_phdr callbacks,  *)
(* destructors) may call the loader again on the same thread.              *)
(*                                                                         *)
(* A critical section of the loader lock with no user code inside is one   *)
(* action.  A call during which user code runs leaves a frame on its       *)
(* thread's stack; frames that keep the lock are the `LockKinds`.          *)
(*                                                                         *)
(* LinkContext, LoadResult and UnloadGroup belong to the elf_loader crate: *)
(* they are modelled from the way the registry uses them.  A module is     *)
(* named by the file it comes from; a file that is unloaded and loaded     *)
(* again is the same element of Modules.                                   *)
(***************************************************************************)
EXTENDS Integers, FiniteSets, Sequences

CONSTANTS Threads,      \* threads that call the loader
          NoOwner,      \* the loader lock is free
          Modules,      \* ELF objects that are or may be loaded
          Preloaded,    \* the objects registered before the first dlopen
          Main,         \* the first of them, what dlopen(NULL) opens
          Deps,         \* Deps[m]: the DT_NEEDED entries of m, resolved
          Aliased,      \* modules some caller opens by a name that is no key
          Apis,         \* which dlopen callers use: "c", "rust" or both
          OpenFlagSets, \* the promotable flags callers pass to dlopen
          MaxFrames,    \* bound: calls in progress on one thread
          MaxLeases,    \* bound: leases callers keep at once
          MaxAdds       \* bound: objects ever loaded

Flags == {"GLOBAL", "NODELETE"}

\* S has the dependencies of its members.
Closed(S) == \A m \in S : Deps[m] \subseteq S

ASSUME ModulesAssumption ==
    /\ Deps \in [Modules -> SUBSET Modules]
    /\ Preloaded \subseteq Modules
    /\ Main \in Preloaded
    /\ Closed(Preloaded)
    /\ OpenFlagSets \subseteq SUBSET Flags
    /\ Apis \subseteq {"c", "rust"}
    /\ NoOwner \notin Threads

ASSUME FiniteAssumption ==
    /\ IsFiniteSet(Modules)
    /\ {MaxFrames, MaxLeases, MaxAdds} \subseteq Nat

VARIABLES committed,  \* LinkContext: the modules that are loaded and visible
          acq,        \* LinkContext: outstanding acquisitions (leases) of each
          pinned,     \* LinkContext: modules whose lease was given to pin()
          global,     \* LinkContext: the global scope
          meta,       \* LinkContext: the OpenFlags stored with each module
          handles,    \* Manager::handles: leases kept per C handle
          libs,       \* leases of the OpenedLibrary values of Rust callers
          dtors,      \* <<t, m>>: t will run a destructor that keeps m
          adds, subs, \* Manager::adds, Manager::subs
          left,       \* history: modules that failed loads left behind, ...
          swept,      \* ... and modules, counted in adds, that they took along
          stack,      \* the calls in progress on each thread, innermost first
          owner, depth \* the loader lock

ctxVars  == <<committed, acq, pinned, global, meta>>
lockVars == <<owner, depth>>
vars == <<committed, acq, pinned, global, meta, handles, libs, dtors, adds, subs,
          left, swept, stack, owner, depth>>
-----------------------------------------------------------------------------
(* LinkContext *)

\* The load group of S: everything reachable from S through dependencies.
Group(S) ==
    {m \in Modules : \A C \in SUBSET Modules : S \subseteq C /\ Closed(C) => m \in C}

\* What must stay loaded for leases a and pins p.
Retained(a, p) == Group({m \in Modules : a[m] > 0} \cup p)

\* LinkContext::acquire of every module of S.
Acquire(S) == acq' = [m \in Modules |-> IF m \in S THEN acq[m] + 1 ELSE acq[m]]

-----------------------------------------------------------------------------
(* Calls in progress *)

Kinds == {"relocate", "init", "opened", "temp", "iter", "drop", "dtor", "fini"}

LockKinds == {"relocate", "init", "iter", "drop"}

\* The frames in which user code runs.
UserKinds == {"relocate", "init", "iter", "dtor", "fini"}

Frame == [kind : Kinds, root : Modules, mods : SUBSET Modules,
          flags : SUBSET Flags, api : {"c", "rust"}]

NewFrame(k, r, ms, fs, a) ==
    [kind |-> k, root |-> r, mods |-> ms, flags |-> fs, api |-> a]

Top(t) == Head(stack[t])

In(t, k) == stack[t] # <<>> /\ Top(t).kind = k

Push(f, s) == <<f>> \o s

SetStack(t, s) == stack' = [stack EXCEPT ![t] = s]

\* User code is running on t.
InUserCode(t) == stack[t] # <<>> => Top(t).kind \in UserKinds

CanLock(t) == owner \in {NoOwner, t}

\* User code on t calls the loader and gets the lock.
Call(t) == InUserCode(t) /\ Len(stack[t]) < MaxFrames /\ CanLock(t)

\* A guard is kept beyond this step ...
Lock(t) == owner' = t /\ depth' = depth + 1

\* ... and dropped.
Unlock(t) ==
    /\ depth' = depth - 1
    /\ owner' = IF depth = 1 THEN NoOwner ELSE t
-----------------------------------------------------------------------------
(* Manager *)

\* Mutant: the global scope is not told of the unloading.
MutantReleaseStale(t, m, rest) ==
    LET a    == [acq EXCEPT ![m] = @ - 1]
        gone == committed \ Retained(a, pinned)
    IN  /\ acq[m] > 0
        /\ acq' = a
        /\ committed' = committed \ gone
        /\ meta' = [x \in Modules |-> IF x \in gone THEN {} ELSE meta[x]]
        /\ subs' = subs + Cardinality(gone)
        /\ SetStack(t, IF gone = {} THEN rest
                       ELSE Push(NewFrame("fini", m, gone, {}, "rust"), rest))
        /\ UNCHANGED global

\* Manager::release: give one lease of m back.  Whatever no lease and no pin
\* retains any more leaves the context, is counted in subs, and its finalizers
\* run when the UnloadGroup is dropped, after the lock of this call is released:
\* a "fini" frame on top of `rest`, the calls that t returns to.  The `expect` of
\* release, that the lease is an outstanding one, is the conjunct acq[m] > 0.
Release(t, m, rest) ==
    LET a    == [acq EXCEPT ![m] = @ - 1]
        gone == committed \ Retained(a, pinned)
    IN  /\ acq[m] > 0
        /\ acq' = a
        /\ committed' = committed \ gone
        /\ global' = global \ gone
        /\ meta' = [x \in Modules |-> IF x \in gone THEN {} ELSE meta[x]]
        /\ subs' = subs + Cardinality(gone)
        /\ SetStack(t, IF gone = {} THEN rest
                       ELSE Push(NewFrame("fini", m, gone, {}, "rust"), rest))

\* An OpenedLibrary of m goes to the caller: a C dlopen still has to register
\* the handle, a Rust caller keeps the value.  s: the calls t returns to.
Opened(t, m, fs, api, s) ==
    \/ /\ api = "c"
       /\ SetStack(t, Push(NewFrame("opened", m, {}, fs, api), s))
       /\ UNCHANGED libs
    \/ /\ api = "rust"
       /\ libs' = [libs EXCEPT ![m] = @ + 1]
       /\ SetStack(t, s)

\* The bound on the leases callers keep.
Room ==
    Cardinality(dtors)
      + Cardinality(UNION {{m} \X (1 .. handles[m] + libs[m]) : m \in Modules})
        < MaxLeases

\* Mutant: only the module itself becomes global.
MutantPromoteGlobal(m, fs) ==
    global' = IF "GLOBAL" \in fs THEN global \cup {m} ELSE global

\* LinkContext::promote_global: m and its load group join the global scope.
PromoteGlobal(m, fs) ==
    global' = IF "GLOBAL" \in fs THEN global \cup Group({m}) ELSE global

\* Manager::promote: the promotable flags are added to those of m, a module that
\* becomes NODELETE is pinned.
Promote(m, fs) ==
    /\ meta' = [meta EXCEPT ![m] = @ \cup fs]
    /\ PromoteGlobal(m, fs)
    /\ pinned' = IF "NODELETE" \in fs \ meta[m] THEN pinned \cup {m} ELSE pinned

\* open_existing: the request is the key or an alias of a loaded module.  The
\* NOLOAD path (resolve_committed, promote, open_module) has the same effect.
OpenExisting(t, m, fs, api) ==
    /\ Call(t) /\ Room
    /\ m \in committed
    /\ Promote(m, fs)
    /\ Acquire({m})
    /\ Opened(t, m, fs, api, stack[t])
    /\ UNCHANGED <<committed, handles, dtors, adds, subs, owner, depth, left,
                   swept>>

\* open_main: the first module in load order, without flags.
OpenMain(t, api) ==
    /\ Call(t) /\ Room
    /\ Main \in committed
    /\ Acquire({Main})
    /\ Opened(t, Main, {}, api, stack[t])
    /\ UNCHANGED <<committed, pinned, global, meta, handles, dtors, adds, subs,
                   owner, depth, left, swept>>

\* The request is a new name of a loaded module (a symbolic link, another path):
\* open_existing misses, the linker recognises the file while it prepares the
\* load, and open_load gets a root lease and no new module.
OpenAlias(t, m, fs, api) ==
    /\ Call(t) /\ Room
    /\ m \in committed \cap Aliased
    /\ PromoteGlobal(m, fs)
    /\ Acquire({m})
    /\ Opened(t, m, fs, api, stack[t])
    /\ UNCHANGED <<committed, pinned, meta, handles, dtors, adds, subs, owner,
                   depth, left, swept>>
-----------------------------------------------------------------------------
(* open_with: a library that is not loaded yet *)

\* prepare_load maps the root and its missing dependencies; the lock is kept and
\* the borrow of the Manager dropped before relocation, which may run user code.
BeginLoad(t, r, fs, api) ==
    /\ Call(t) /\ Room
    /\ r \notin committed
    /\ LET new == Group({r}) \ committed
       IN  /\ adds + left + Cardinality(new) <= MaxAdds
           /\ SetStack(t, Push(NewFrame("relocate", r, new, fs, api), stack[t]))
    /\ Lock(t)
    /\ UNCHANGED <<ctxVars, handles, libs, dtors, adds, subs, left, swept>>

\* Mutant: the error path forgets the guard.
MutantFailLoad(t) ==
    /\ In(t, "relocate")
    /\ SetStack(t, Tail(stack[t]))
    /\ UNCHANGED <<ctxVars, handles, libs, dtors, adds, subs, owner, depth,
                   left, swept>>

\* relocate or publish fails: the mapped objects are dropped, nothing is visible.
FailLoad(t) ==
    /\ In(t, "relocate")
    /\ SetStack(t, Tail(stack[t]))
    /\ Unlock(t)
    /\ UNCHANGED <<ctxVars, handles, libs, dtors, adds, subs, left, swept>>

\* publish: the new modules enter the context, with a lease on the root.  It is
\* refused (FailLoad) if a nested call loaded one of them in the meantime, or
\* unloaded a dependency.
Publish(t) ==
    /\ In(t, "relocate")
    /\ Top(t).mods \cap committed = {}
    /\ Group({Top(t).root}) \subseteq committed \cup Top(t).mods
    /\ committed' = committed \cup Top(t).mods
    /\ Acquire({Top(t).root})
    /\ SetStack(t, Push([Top(t) EXCEPT !.kind = "init"], Tail(stack[t])))
    /\ UNCHANGED <<pinned, global, meta, handles, libs, dtors, adds, subs,
                   owner, depth, left, swept>>

\* before_init or initialize fails and the load is rolled back.  Either the rollback
\* gives the root's lease back, and what nothing retains any more leaves the context:
\* a module that a constructor's nested dlopen leased or pinned stays.  Or it fails
\* itself (`rollback.err()`): the context keeps the load, and the lease, which nobody
\* can give back, is as good as a pin.  open_load does not run: adds and subs are not
\* told of what stays, nor of what goes with the load.
RollbackLoad(t) ==
    /\ In(t, "init")
    /\ LET r    == Top(t).root
           new  == Top(t).mods
           a    == [acq EXCEPT ![r] = @ - 1]
           gone == committed \ Retained(a, pinned)
       IN  /\ acq[r] > 0
           /\ acq' = a
           /\ \/ /\ committed' = committed \ gone
                 /\ global' = global \ gone
                 /\ meta' = [m \in Modules |-> IF m \in gone THEN {} ELSE meta[m]]
                 /\ left' = left + Cardinality(new \ gone)
                 /\ swept' = swept + Cardinality(gone \ new)
                 /\ UNCHANGED pinned
              \/ /\ pinned' = pinned \cup {r}
                 /\ left' = left + Cardinality(new)
                 /\ UNCHANGED <<committed, global, meta, swept>>
    /\ SetStack(t, Tail(stack[t]))
    /\ Unlock(t)
    /\ UNCHANGED <<handles, libs, dtors, adds, subs>>

\* Mutant: one load counts once, whatever it brought in.
MutantFinishLoad(t) ==
    /\ In(t, "init")
    /\ LET r   == Top(t).root
           new == Top(t).mods
           fs  == Top(t).flags
       IN  /\ new \subseteq committed
           /\ adds' = adds + 1
           /\ meta' = [m \in Modules |-> IF m \in new THEN fs ELSE meta[m]]
           /\ pinned' = IF "NODELETE" \in fs THEN pinned \cup new ELSE pinned
           /\ PromoteGlobal(r, fs)
           /\ Opened(t, r, fs, Top(t).api, Tail(stack[t]))
    /\ Unlock(t)
    /\ UNCHANGED <<committed, acq, handles, dtors, subs, left, swept>>

\* initialize returns and open_load runs: the new modules are counted, given the
\* flags of this dlopen, pinned if it says NODELETE, and the root is promoted.
\* The `expect`s of open_load are the conjunct new \subseteq committed.
FinishLoad(t) ==
    /\ In(t, "init")
    /\ LET r   == Top(t).root
           new == Top(t).mods
           fs  == Top(t).flags
       IN  /\ new \subseteq committed
           /\ adds' = adds + Cardinality(new)
           /\ meta' = [m \in Modules |-> IF m \in new THEN fs ELSE meta[m]]
           /\ pinned' = IF "NODELETE" \in fs THEN pinned \cup new ELSE pinned
           /\ PromoteGlobal(r, fs)
           /\ Opened(t, r, fs, Top(t).api, Tail(stack[t]))
    /\ Unlock(t)
    /\ UNCHANGED <<committed, acq, handles, dtors, subs, left, swept>>
-----------------------------------------------------------------------------
(* Handles and leases *)

\* Mutant: a handle that is open already does not keep the lease of this dlopen.
MutantRegisterHandle(t) ==
    /\ In(t, "opened")
    /\ CanLock(t)
    /\ handles' = [handles EXCEPT ![Top(t).root] = 1]
    /\ SetStack(t, Tail(stack[t]))
    /\ UNCHANGED <<ctxVars, libs, dtors, adds, subs, owner, depth, left, swept>>

\* register_handle: the link map's address is the handle; each dlopen of an open
\* handle keeps a lease of its own.
RegisterHandle(t) ==
    /\ In(t, "opened")
    /\ CanLock(t)
    /\ handles' = [handles EXCEPT ![Top(t).root] = @ + 1]
    /\ SetStack(t, Tail(stack[t]))
    /\ UNCHANGED <<ctxVars, libs, dtors, adds, subs, owner, depth, left, swept>>

\* dlclose of an open handle; of any other value it fails and changes nothing.
CloseHandle(t, m) ==
    /\ Call(t)
    /\ handles[m] > 0
    /\ handles' = [handles EXCEPT ![m] = @ - 1]
    /\ Release(t, m, stack[t])
    /\ UNCHANGED <<pinned, libs, dtors, adds, owner, depth, left, swept>>

\* The last clone of a Rust ElfLibrary (or of a DlInfo) is dropped.
DropLibrary(t, m) ==
    /\ Call(t)
    /\ libs[m] > 0
    /\ libs' = [libs EXCEPT ![m] = @ - 1]
    /\ Release(t, m, stack[t])
    /\ UNCHANGED <<pinned, handles, dtors, adds, owner, depth, left, swept>>

\* ElfLibrary::dladdr: library_by_addr gives the caller an OpenedLibrary.
LibraryByAddr(t, m) ==
    /\ Call(t) /\ Room
    /\ m \in committed
    /\ Acquire({m})
    /\ libs' = [libs EXCEPT ![m] = @ + 1]
    /\ UNCHANGED <<committed, pinned, global, meta, handles, dtors, adds, subs,
                   stack, owner, depth, left, swept>>

\* A lease the call itself gives back before it returns: C dladdr, and
\* register_thread_destructor when __cxa_thread_atexit_impl fails.
TakeTemporary(t, m) ==
    /\ Call(t)
    /\ m \in committed
    /\ Acquire({m})
    /\ SetStack(t, Push(NewFrame("temp", m, {}, {}, "c"), stack[t]))
    /\ UNCHANGED <<committed, pinned, global, meta, handles, libs, dtors, adds,
                   subs, owner, depth, left, swept>>

\* Mutant: the lease is forgotten, not dropped.
MutantDropTemporary(t) ==
    /\ In(t, "temp")
    /\ CanLock(t)
    /\ SetStack(t, Tail(stack[t]))
    /\ UNCHANGED <<ctxVars, handles, libs, dtors, adds, subs, owner, depth,
                   left, swept>>

DropTemporary(t) ==
    /\ In(t, "temp")
    /\ CanLock(t)
    /\ Release(t, Top(t).root, Tail(stack[t]))
    /\ UNCHANGED <<pinned, handles, libs, dtors, adds, owner, depth, left,
                   swept>>
-----------------------------------------------------------------------------
(* dl_iterate_phdr *)

\* Mutant: the snapshot is taken, the guard dropped, the callbacks run unlocked.
MutantIterate(t) ==
    /\ Call(t)
    /\ Acquire(committed)
    /\ SetStack(t, Push(NewFrame("iter", Main, committed, {}, "c"), stack[t]))
    /\ UNCHANGED <<committed, pinned, global, meta, handles, libs, dtors, adds,
                   subs, owner, depth, left, swept>>

\* for_each_phdr: library_snapshot takes a lease on every loaded module; the
\* callbacks run with the lock kept.
Iterate(t) ==
    /\ Call(t)
    /\ Acquire(committed)
    /\ SetStack(t, Push(NewFrame("iter", Main, committed, {}, "c"), stack[t]))
    /\ Lock(t)
    /\ UNCHANGED <<committed, pinned, global, meta, handles, libs, dtors, adds,
                   subs, left, swept>>

\* The last callback, or one that returned nonzero, is done.
EndCallbacks(t) ==
    /\ In(t, "iter")
    /\ SetStack(t, Push([Top(t) EXCEPT !.kind = "drop"], Tail(stack[t])))
    /\ UNCHANGED <<ctxVars, handles, libs, dtors, adds, subs, owner, depth,
                   left, swept>>

\* `libraries` is dropped before the guard: the leases go one by one, and the
\* finalizers of a module that only the snapshot kept run under the lock.
DropSnapshot(t) ==
    /\ In(t, "drop")
    /\ \E m \in Top(t).mods :
         Release(t, m, Push([Top(t) EXCEPT !.mods = @ \ {m}], Tail(stack[t])))
    /\ UNCHANGED <<pinned, handles, libs, dtors, adds, owner, depth, left,
                   swept>>

EndIterate(t) ==
    /\ In(t, "drop")
    /\ Top(t).mods = {}
    /\ SetStack(t, Tail(stack[t]))
    /\ Unlock(t)
    /\ UNCHANGED <<ctxVars, handles, libs, dtors, adds, subs, left, swept>>
-----------------------------------------------------------------------------
(* Thread destructors and finalizers *)

\* register_thread_destructor: the record holds a lease of the module.  Bound:
\* one pending destructor of a module per thread.
RegisterDestructor(t, m) ==
    /\ Call(t) /\ Room
    /\ m \in committed
    /\ <<t, m>> \notin dtors
    /\ Acquire({m})
    /\ dtors' = dtors \cup {<<t, m>>}
    /\ UNCHANGED <<committed, pinned, global, meta, handles, libs, adds, subs,
                   stack, owner, depth, left, swept>>

\* Mutant: the lease is given back before the destructor runs.
MutantRunDestructor(t, m) ==
    /\ stack[t] = <<>>
    /\ <<t, m>> \in dtors
    /\ CanLock(t)
    /\ dtors' = dtors \ {<<t, m>>}
    /\ Release(t, m, Push(NewFrame("dtor", m, {}, {}, "c"), <<>>))
    /\ UNCHANGED <<pinned, handles, libs, adds, owner, depth, left, swept>>

\* run_thread_destructor, called when the thread exits.
RunDestructor(t, m) ==
    /\ stack[t] = <<>>
    /\ <<t, m>> \in dtors
    /\ dtors' = dtors \ {<<t, m>>}
    /\ SetStack(t, <<NewFrame("dtor", m, {}, {}, "c")>>)
    /\ UNCHANGED <<ctxVars, handles, libs, adds, subs, owner, depth, left,
                   swept>>

\* The destructor returned, its record is dropped.
EndDestructor(t) ==
    /\ In(t, "dtor")
    /\ CanLock(t)
    /\ Release(t, Top(t).root, Tail(stack[t]))
    /\ UNCHANGED <<pinned, handles, libs, dtors, adds, owner, depth, left,
                   swept>>

\* The finalizers of an UnloadGroup are done and its mappings are gone.
EndFinalizers(t) ==
    /\ In(t, "fini")
    /\ SetStack(t, Tail(stack[t]))
    /\ UNCHANGED <<ctxVars, handles, libs, dtors, adds, subs, owner, depth,
                   left, swept>>
-----------------------------------------------------------------------------
\* The registration of the preloaded objects is over: each was inserted with the
\* flags GLOBAL and NODELETE, counted, promoted and pinned (register_loaded).
Init ==
    /\ committed = Preloaded
    /\ acq = [m \in Modules |-> 0]
    /\ pinned = Preloaded
    /\ global = Preloaded
    /\ meta = [m \in Modules |-> IF m \in Preloaded THEN Flags ELSE {}]
    /\ handles = [m \in Modules |-> 0]
    /\ libs = [m \in Modules |-> 0]
    /\ dtors = {}
    /\ adds = Cardinality(Preloaded)
    /\ subs = 0
    /\ left = 0
    /\ swept = 0
    /\ stack = [t \in Threads |-> <<>>]
    /\ owner = NoOwner
    /\ depth = 0

\* What user code on t may do.
UserCall(t) ==
    \/ \E api \in Apis :
         \/ OpenMain(t, api)
         \/ \E m \in Modules \ {Main}, fs \in OpenFlagSets :
              \/ OpenExisting(t, m, fs, api)
              \/ OpenAlias(t, m, fs, api)
              \/ BeginLoad(t, m, fs, api)
    \/ \E m \in Modules : CloseHandle(t, m) \/ DropLibrary(t, m)
    \/ \E m \in Modules \ {Main} :
         \/ LibraryByAddr(t, m) \/ TakeTemporary(t, m)
         \/ RegisterDestructor(t, m) \/ RunDestructor(t, m)
    \/ Iterate(t)

\* How the innermost call of t goes on.
Continue(t) ==
    \/ FailLoad(t) \/ Publish(t) \/ RollbackLoad(t) \/ FinishLoad(t)
    \/ RegisterHandle(t) \/ DropTemporary(t)
    \/ EndCallbacks(t) \/ DropSnapshot(t) \/ EndIterate(t)
    \/ EndDestructor(t) \/ EndFinalizers(t)

Next == \E t \in Threads : UserCall(t) \/ Continue(t)

Spec == Init /\ [][Next]_vars

\* The code that the loader calls back with the lock held returns, however often
\* it calls the loader meanwhile: every nesting level is strongly fair by itself.
\* Nothing is assumed of a thread that waits for the lock.
FairSpec ==
    /\ Spec
    /\ \A t \in Threads : \A n \in 1 .. MaxFrames + 1 :
         SF_vars(owner = t /\ Len(stack[t]) = n /\ Continue(t))
-----------------------------------------------------------------------------
(* Properties *)

TypeOK ==
    /\ committed \in SUBSET Modules
    /\ acq \in [Modules -> Nat]
    /\ pinned \in SUBSET Modules
    /\ global \in SUBSET Modules
    /\ meta \in [Modules -> SUBSET Flags]
    /\ handles \in [Modules -> Nat]
    /\ libs \in [Modules -> Nat]
    /\ dtors \in SUBSET (Threads \X Modules)
    /\ adds \in Nat
    /\ subs \in Nat
    /\ left \in Nat
    /\ swept \in Nat
    /\ stack \in [Threads -> Seq(Frame)]
    /\ owner \in Threads \cup {NoOwner}
    /\ depth \in Int

\* The leases frame f holds.
FrameHolds(f, m) ==
    CASE f.kind \in {"init", "opened", "temp", "dtor"} -> f.root = m
      [] f.kind \in {"iter", "drop"} -> m \in f.mods
      [] OTHER -> FALSE

Positions == UNION {{<<t, i>> : i \in DOMAIN stack[t]} : t \in Threads}

\* The state is well typed, and no lease is lost or given back twice: the
\* acquisitions LinkContext counts for a module are those of the handle table, of
\* Rust callers, of pending destructors and of the calls in progress on all threads
\* (ModuleLease::drop, into_inner).
LeaseConservation ==
    /\ TypeOK
    /\ \A m \in Modules :
         acq[m] = handles[m] + libs[m]
                  + Cardinality({t \in Threads : <<t, m>> \in dtors})
                  + Cardinality({p \in Positions : FrameHolds(stack[p[1]][p[2]], m)})

\* The modules somebody still holds, by the registry's own books: an open handle, a
\* Rust caller's value, a pending destructor, a call in progress.
Held ==
    {m \in Modules :
       \/ handles[m] + libs[m] > 0
       \/ \E t \in Threads : <<t, m>> \in dtors
       \/ \E p \in Positions : FrameHolds(stack[p[1]][p[2]], m)}

\* Loaded are exactly the modules that somebody holds or that are pinned, and what
\* they need: a library does not outlive the last dlclose, drop, destructor or failed
\* dlopen that concerns it, and nothing goes while anybody holds it (every lease that
\* register_handle, into_lease and the Drop of ModuleLease pass on is given back).
LoadedIsHeld == committed = Group(Held \cup pinned)

\* The global scope names loaded modules only.
GlobalLoaded == global \subseteq committed

\* What a call in progress works on stays loaded, whatever user code closes
\* meanwhile: a group whose constructors run, the snapshot of dl_iterate_phdr, the
\* module of a running destructor (the expects of open_load).
FramesStayLoaded ==
    \A p \in Positions : LET f == stack[p[1]][p[2]] IN
        /\ f.kind \in {"init", "iter", "drop"} => f.mods \subseteq committed
        /\ f.kind \in {"init", "opened", "temp", "dtor"} => f.root \in committed

\* Published modules open_load has not seen yet.
Uncounted ==
    UNION {stack[p[1]][p[2]].mods :
             p \in {q \in Positions : stack[q[1]][q[2]].kind = "init"}}

\* adds and subs, which dl_iterate_phdr reports, account for the loaded modules, except
\* that a module is not in adds while constructors of its load run, that what a failed
\* load leaves behind is never in adds, and that what it takes along is never in subs.
CountersMatch ==
    (adds + left) - (subs + swept) = Cardinality(committed) - Cardinality(Uncounted)

\* The flags stored with a module are honoured: NODELETE means pinned, GLOBAL
\* means that it and its load group are in the global scope.
FlagsHonoured ==
    \A m \in Modules :
        /\ "NODELETE" \in meta[m] => m \in pinned
        /\ "GLOBAL" \in meta[m] => Group({m}) \subseteq global

\* The registry uses the lock as ReentrantLock allows.
ReentrantLockOfCalls == INSTANCE ReentrantLock

UsesReentrantLock == ReentrantLockOfCalls!Spec

\* The loader lock does not stay taken: every path out of dlopen and
\* dl_iterate_phdr, the failing ones included, gives its guard back, and a thread
\* that holds the lock never waits for another thread inside the loader.
LockIsReleased == owner # NoOwner ~> owner = NoOwner

\* A flag given to a loaded module (by a dlopen of it) is not taken away again
\* while it stays loaded.
FlagsKept ==
    [][\A m \in committed \cap committed' : meta[m] \subseteq meta'[m]]_vars

\* A dlopen with RTLD_NODELETE that succeeded has pinned the module it returns.
NodeleteObeyed ==
    \A t \in Threads :
        In(t, "opened") /\ "NODELETE" \in Top(t).flags => Top(t).root \in pinned
-----------------------------------------------------------------------------
(* The inductive invariant of the proofs *)

\* Loaded are exactly the modules that LinkContext's leases and pins retain.
ExactlyRetained == committed = Retained(acq, pinned)

\* A load brings in its root, and nothing outside the load group of the root.
GoodFrame ==
    {f \in Frame : f.kind \in {"relocate", "init"} =>
                     f.root \in f.mods /\ f.mods \subseteq Group({f.root})}

LoadsTheirGroup == stack \in [Threads -> Seq(GoodFrame)]

Inv ==
    /\ TypeOK
    /\ LoadsTheirGroup
    /\ ExactlyRetained
    /\ GlobalLoaded
    /\ FlagsHonoured

\* Where the frames of the set H are on the stacks stk.
At(stk, H) ==
    {p \in UNION {{<<t, i>> : i \in DOMAIN stk[t]} : t \in Threads} :
       stk[p[1]][p[2]] \in H}

\* The frames that hold a lease of m, that keep the lock, and that have published m
\* and are not counted yet.
Holding(m) == {f \in Frame : FrameHolds(f, m)}

Locking == {f \in Frame : f.kind \in LockKinds}

Bringing(m) == {f \in Frame : f.kind = "init" /\ m \in f.mods}

\* Only finitely many destructors are pending and calls in progress.
FiniteBooks == IsFiniteSet(dtors) /\ IsFiniteSet(At(stack, Frame))

\* The lock is held once for every call that keeps it, all of them of the owner.
GuardsMatchFrames ==
    /\ depth = Cardinality(At(stack, Locking))
    /\ \A p \in At(stack, Locking) : p[1] = owner
    /\ owner = NoOwner <=> depth = 0

\* A module is brought in by one load at a time.
OneLoadEach == \A m \in Modules : Cardinality(At(stack, Bringing(m))) <= 1

FullInv ==
    /\ Inv
    /\ FiniteBooks
    /\ LeaseConservation
    /\ GuardsMatchFrames
    /\ OneLoadEach
    /\ CountersMatch
=============================================================================
