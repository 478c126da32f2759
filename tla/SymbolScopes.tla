---------------------------- MODULE SymbolScopes ----------------------------
(***************************************************************************)
(* The scopes that dlsym searches (registry/manager.rs): the global scope  *)
(* for RTLD_DEFAULT, the scope an open handle keeps, and what follows the  *)
(* caller's module for RTLD_NEXT.  Order decides which definition of a     *)
(* symbol a caller gets, so the scopes are sequences here.                 *)
(*                                                                         *)
(* Each action is a critical section of the loader lock.  Leases are       *)
(* counted in module Registry; here a module is open or not.               *)
(***************************************************************************)
EXTENDS Integers, Sequences, FiniteSets, SequencesExt

CONSTANTS Modules,
          Initial,    \* the objects of the process, as dl_iterate_phdr reports them
          Needed,     \* Needed[m]: the DT_NEEDED entries of m, in their order
          Names,      \* symbol names
          Defines,    \* Defines[m]: the symbols m exports
          None,       \* no module: symbol not found
          RTLD_DEFAULT, RTLD_NEXT  \* the handles that are none

ASSUME ScopesAssumption ==
    /\ IsFiniteSet(Modules)
    /\ Initial \in Seq(Modules)
    /\ \A j, k \in DOMAIN Initial : j # k => Initial[j] # Initial[k]
    /\ Needed \in [Modules -> Seq(Modules)]
    /\ Defines \in [Modules -> SUBSET Names]
    /\ {None, RTLD_DEFAULT, RTLD_NEXT} \cap Modules = {}
    /\ RTLD_DEFAULT # RTLD_NEXT

VARIABLES loaded,   \* LinkContext::load_order
          deps,     \* the dependencies recorded with each module
          global,   \* LinkContext::global_scope
          scope,    \* OpenedLibrary::scope of each open handle; <<>>: not open
          phase     \* "register": the constructor init() is running; "run"

vars == <<loaded, deps, global, scope, phase>>

In(m, s) == m \in Range(s)

\* t behind s, each module of it where it comes first and if s does not have it.
Extend(s, t) ==
    LET To[k \in 0 .. Len(t)] ==
          IF k = 0 THEN s
          ELSE IF In(t[k], To[k - 1]) THEN To[k - 1] ELSE Append(To[k - 1], t[k])
    IN  To[Len(t)]

\* The modules of s that are in kept, in the order of s.
Retain(s, kept) ==
    LET Upto[k \in 0 .. Len(s)] ==
          IF k = 0 THEN <<>>
          ELSE IF s[k] \in kept THEN Append(Upto[k - 1], s[k]) ELSE Upto[k - 1]
    IN  Upto[Len(s)]

\* Mutant: only direct dependencies.
MutantLoadGroup(r, d) == Extend(<<r>>, d[r])

\* LinkContext::load_group along the edges d, breadth first: the dependencies of each
\* module of the group, in its order, go to the end.
LoadGroup(r, d) ==
    LET Visit(queue, n) == IF n > Len(queue) THEN queue ELSE Extend(queue, d[queue[n]])
        Queue[n \in 0 .. Cardinality(Modules)] ==
          IF n = 0 THEN <<r>> ELSE Visit(Queue[n - 1], n)
    IN  Queue[Cardinality(Modules)]

\* Mutant: the promoted group goes before the scope.
MutantPromoteGlobal(g, r, d) == Extend(LoadGroup(r, d), g)

\* LinkContext::promote_global: the group of r joins the scope g at its end.
PromoteGlobal(g, r, d) == Extend(g, LoadGroup(r, d))
-----------------------------------------------------------------------------
Init ==
    /\ loaded = <<>>
    /\ deps = [m \in Modules |-> <<>>]
    /\ global = <<>>
    /\ scope = [m \in Modules |-> <<>>]
    /\ phase = "register"

\* register_loaded, called by dl_iterate_phdr for each object of the process: only
\* the needed objects that are registered already become its dependencies.
RegisterLoaded ==
    /\ phase = "register"
    /\ Len(loaded) < Len(Initial)
    /\ LET m == Initial[Len(loaded) + 1]
           d == [deps EXCEPT ![m] = Retain(Needed[m], Range(loaded))]
       IN  /\ deps' = d
           /\ loaded' = Append(loaded, m)
           /\ global' = PromoteGlobal(global, m, d)
    /\ UNCHANGED <<scope, phase>>

EndRegister ==
    /\ phase = "register"
    /\ Len(loaded) = Len(Initial)
    /\ phase' = "run"
    /\ UNCHANGED <<loaded, deps, global, scope>>

\* dlopen of a module that is not loaded: it comes with the needed modules that
\* are not loaded either.  g: RTLD_GLOBAL is given.  publish, the constructors and
\* open_load are one step: the loader lock is held from the first to the last, so that
\* no other thread finds the scopes in between; what constructors may do to a module
\* that is published and not promoted yet is in module Registry.
OpenNew(r, g) ==
    /\ phase = "run"
    /\ ~ In(r, loaded)
    /\ LET group == LoadGroup(r, [m \in Modules |-> IF In(m, loaded) THEN deps[m] ELSE Needed[m]])
           d     == [m \in Modules |->
                       IF In(m, group) /\ ~ In(m, loaded) THEN Needed[m] ELSE deps[m]]
       IN  /\ deps' = d
           /\ loaded' = Extend(loaded, group)
           /\ global' = IF g THEN PromoteGlobal(global, r, d) ELSE global
           /\ scope' = [scope EXCEPT ![r] = LoadGroup(r, d)]
    /\ UNCHANGED phase

\* dlopen of a loaded module (dlopen(NULL): the first one, without RTLD_GLOBAL).  A
\* handle that is open keeps the scope it has.
OpenLoaded(m, g) ==
    /\ phase = "run"
    /\ In(m, loaded)
    /\ global' = IF g THEN PromoteGlobal(global, m, deps) ELSE global
    /\ scope' = IF scope[m] = <<>> THEN [scope EXCEPT ![m] = LoadGroup(m, deps)] ELSE scope
    /\ UNCHANGED <<loaded, deps, phase>>

\* The last lease of m is given back: what neither an open module nor an object of
\* the process (pinned) needs any more is unloaded.
Close(m) ==
    /\ phase = "run"
    /\ scope[m] # <<>>
    /\ LET roots == Range(Initial) \cup {n \in Modules \ {m} : scope[n] # <<>>}
           kept  == UNION {Range(LoadGroup(n, deps)) : n \in roots}
       IN  /\ loaded' = Retain(loaded, kept)
           /\ global' = Retain(global, kept)
           /\ scope' = [scope EXCEPT ![m] = <<>>]
           /\ deps' = [n \in Modules |-> IF n \in kept THEN deps[n] ELSE <<>>]
    /\ UNCHANGED phase

Next ==
    \/ RegisterLoaded
    \/ EndRegister
    \/ \E m \in Modules, g \in BOOLEAN :
         OpenNew(m, g) \/ OpenLoaded(m, g)
    \/ \E m \in Modules : Close(m)

Spec == Init /\ [][Next]_vars
-----------------------------------------------------------------------------
(* dlsym *)

\* The first module of s that exports n.
First(s, n) ==
    LET hits == {k \in DOMAIN s : n \in Defines[s[k]]}
    IN  IF hits = {} THEN None ELSE s[CHOOSE k \in hits : \A j \in hits : k <= j]

\* RTLD_DEFAULT
global_find(n) == First(global, n)

Position(s, m) == CHOOSE k \in DOMAIN s : s[k] = m

\* Mutant: the caller's module is not skipped.
MutantNextFind(caller, n) ==
    IF ~ In(caller, loaded) THEN None
    ELSE LET s == IF In(caller, global) THEN global ELSE LoadGroup(caller, deps)
         IN  First(SubSeq(s, Position(s, caller), Len(s)), n)

\* RTLD_NEXT: behind the caller's module in the global scope, or in the caller's own
\* group if it is not global.
next_find(caller, n) ==
    IF ~ In(caller, loaded) THEN None
    ELSE LET s == IF In(caller, global) THEN global ELSE LoadGroup(caller, deps)
         IN  First(SubSeq(s, Position(s, caller) + 1, Len(s)), n)

\* A handle.
handle_find(h, n) == First(scope[h], n)

\* The module whose definition dlsym returns to code of the module `caller`.
dlsym(h, n, caller) ==
    CASE h = RTLD_DEFAULT -> global_find(n)
      [] h = RTLD_NEXT -> next_find(caller, n)
      [] OTHER -> handle_find(h, n)
-----------------------------------------------------------------------------
TypeOK ==
    /\ loaded \in Seq(Modules)
    /\ deps \in [Modules -> Seq(Modules)]
    /\ global \in Seq(Modules)
    /\ scope \in [Modules -> Seq(Modules)]
    /\ phase \in {"register", "run"}
    /\ \A s \in {loaded, global} \cup {scope[m] : m \in Modules} :
         Cardinality(Range(s)) = Len(s)

\* What RTLD_DEFAULT answers for a symbol stays as it is while the module that was
\* found is loaded, whatever is opened, promoted and closed meanwhile: two lookups,
\* or a lookup and a lazy binding, agree.
DefaultStable ==
    [][\A n \in Names :
         (global_find(n) # None /\ global_find(n) \in Range(loaded')) =>
           global_find(n)' = global_find(n)]_vars

\* The modules a call of n passes through if every definition hands it on to the
\* one that RTLD_NEXT finds, followed by None where the way ends.
Wrappers(n) ==
    LET Way[k \in 0 .. Cardinality(Modules)] ==
          IF k = 0 THEN <<global_find(n)>>
          ELSE IF Last(Way[k - 1]) = None THEN Way[k - 1]
          ELSE Append(Way[k - 1], next_find(Last(Way[k - 1]), n))
    IN  Way[Cardinality(Modules)]

\* Interposition works: starting at RTLD_DEFAULT's answer, RTLD_NEXT leads through
\* every definition of the global scope once and then ends.
WrappersReachAll ==
    \A n \in Names :
        /\ Range(Wrappers(n)) = {m \in Range(global) : n \in Defines[m]} \cup {None}
        /\ Len(Wrappers(n)) = Cardinality(Range(Wrappers(n)))

\* The state is well typed, dlsym returns definitions of loaded modules only, and
\* the scope of a handle of a module that dlopen loaded has the modules that one
\* needs, directly or through others that dlopen loaded.
HandleReaches ==
    /\ TypeOK
    /\ \A h \in Modules \cup {RTLD_DEFAULT, RTLD_NEXT}, n \in Names, caller \in Modules :
         dlsym(h, n, caller) \in Range(loaded) \cup {None}
    /\ \A h \in Modules \ Range(Initial) : \A m \in Range(scope[h]) \ Range(Initial) :
         Range(Needed[m]) \subseteq Range(scope[h])

\* The scope of every open handle is the dependency group of its module: with a
\* module it has the modules that one needs, as far as they are loaded.
DependencyGroup ==
    \A h \in Modules : \A m \in Range(scope[h]) :
        Range(Needed[m]) \cap Range(loaded) \subseteq Range(scope[h])
=============================================================================
