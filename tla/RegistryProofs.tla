--------------------------- MODULE RegistryProofs ---------------------------
(***************************************************************************)
(* Proofs about the registry, for any threads, any modules and dependency  *)
(* graph (cycles included) and any nesting of calls.                       *)
(***************************************************************************)
EXTENDS Registry, FiniteSetTheorems, FunctionTheorems, SequenceTheorems, TLAPS

-----------------------------------------------------------------------------
(* Load groups *)

\* A group contains the modules it is the group of.
LEMMA GroupContains ==
    ASSUME NEW S \in SUBSET Modules
    PROVE  S \subseteq Group(S) /\ Group(S) \subseteq Modules
BY DEF Group

\* A group has the dependencies of its members.
LEMMA GroupClosed ==
    ASSUME NEW S \in SUBSET Modules
    PROVE  Closed(Group(S))
<1> SUFFICES ASSUME NEW m \in Group(S), NEW d \in Deps[m]
             PROVE  d \in Group(S)
  BY DEF Closed
<1>1. d \in Modules
  BY ModulesAssumption DEF Group
<1>2. ASSUME NEW C \in SUBSET Modules, S \subseteq C, Closed(C)
      PROVE  d \in C
  <2>1. m \in C
    BY <1>2 DEF Group
  <2>2. QED
    BY <2>1, <1>2 DEF Closed
<1>3. QED
  BY <1>1, <1>2 DEF Group

\* A group is the least closed set around its modules.
LEMMA GroupLeast ==
    ASSUME NEW S, NEW C \in SUBSET Modules, S \subseteq C, Closed(C)
    PROVE  Group(S) \subseteq C
BY DEF Group

\* A group that starts inside another one stays inside it.
LEMMA GroupInside ==
    ASSUME NEW S \in SUBSET Modules, NEW T \in SUBSET Modules, S \subseteq Group(T)
    PROVE  Group(S) \subseteq Group(T)
BY GroupLeast, GroupClosed, GroupContains

\* The group of a union is the union of the groups.
LEMMA GroupUnion ==
    ASSUME NEW S \in SUBSET Modules, NEW T \in SUBSET Modules
    PROVE  Group(S \cup T) = Group(S) \cup Group(T)
<1>1. Group(S) \cup Group(T) \subseteq Group(S \cup T)
  BY GroupInside, GroupContains
<1>2. Closed(Group(S) \cup Group(T))
  BY GroupClosed DEF Closed
<1>3. Group(S \cup T) \subseteq Group(S) \cup Group(T)
  BY <1>2, GroupLeast, GroupContains
<1>4. QED
  BY <1>1, <1>3

\* What is retained: roots included, closed, and never more for fewer leases.
LEMMA RetainedFacts ==
    ASSUME NEW a \in [Modules -> Nat], NEW p \in SUBSET Modules
    PROVE  /\ Retained(a, p) \in SUBSET Modules
           /\ p \subseteq Retained(a, p)
           /\ \A m \in Modules : a[m] > 0 => m \in Retained(a, p)
           /\ Closed(Retained(a, p))
<1> DEFINE R == {m \in Modules : a[m] > 0} \cup p
<1>1. R \in SUBSET Modules
  OBVIOUS
<1>2. QED
  BY <1>1, GroupContains, GroupClosed DEF Retained

\* One more lease of m adds the group of m to what is retained.
LEMMA RetainedAcquire ==
    ASSUME NEW a \in [Modules -> Nat], NEW b \in [Modules -> Nat],
           NEW p \in SUBSET Modules, NEW S \in SUBSET Modules,
           b = [m \in Modules |-> IF m \in S THEN a[m] + 1 ELSE a[m]]
    PROVE  Retained(b, p) = Retained(a, p) \cup Group(S)
<1>1. {m \in Modules : b[m] > 0} \cup p = ({m \in Modules : a[m] > 0} \cup p) \cup S
  OBVIOUS
<1>2. ({m \in Modules : a[m] > 0} \cup p) \in SUBSET Modules
  OBVIOUS
<1>3. QED
  BY <1>1, <1>2, GroupUnion DEF Retained

\* A lease given back never adds anything.
LEMMA RetainedRelease ==
    ASSUME NEW a \in [Modules -> Nat], NEW m \in Modules, a[m] > 0,
           NEW p \in SUBSET Modules
    PROVE  /\ [a EXCEPT ![m] = @ - 1] \in [Modules -> Nat]
           /\ Retained([a EXCEPT ![m] = @ - 1], p) \subseteq Retained(a, p)
<1> DEFINE b == [a EXCEPT ![m] = @ - 1]
<1>1. b \in [Modules -> Nat]
  OBVIOUS
<1>2. {x \in Modules : b[x] > 0} \cup p \subseteq Retained(a, p)
  BY RetainedFacts
<1>3. QED
  BY <1>1, <1>2, GroupInside DEF Retained

\* A pin on what is retained already retains nothing more.
LEMMA RetainedPin ==
    ASSUME NEW a \in [Modules -> Nat], NEW p \in SUBSET Modules,
           NEW S \in SUBSET Retained(a, p)
    PROVE  Retained(a, p \cup S) = Retained(a, p)
<1> DEFINE R == {x \in Modules : a[x] > 0} \cup p
<1>1. S \in SUBSET Modules /\ R \in SUBSET Modules
  BY RetainedFacts
<1>2. Group(R \cup S) = Group(R) \cup Group(S)
  BY <1>1, GroupUnion
<1>3. Group(S) \subseteq Group(R)
  BY <1>1, GroupInside DEF Retained
<1>4. R \cup S = {x \in Modules : a[x] > 0} \cup (p \cup S)
  OBVIOUS
<1>5. QED
  BY <1>2, <1>3, <1>4 DEF Retained
-----------------------------------------------------------------------------
(* The three parts of the invariant: the context, the counters, the stacks *)

CtxInv ==
    /\ committed \in SUBSET Modules
    /\ acq \in [Modules -> Nat]
    /\ pinned \in SUBSET Modules
    /\ global \in SUBSET Modules
    /\ meta \in [Modules -> SUBSET Flags]
    /\ ExactlyRetained
    /\ GlobalLoaded
    /\ FlagsHonoured

BookInv ==
    /\ handles \in [Modules -> Nat]
    /\ libs \in [Modules -> Nat]
    /\ dtors \in SUBSET (Threads \X Modules)
    /\ adds \in Nat
    /\ subs \in Nat
    /\ left \in Nat
    /\ swept \in Nat
    /\ owner \in Threads \cup {NoOwner}
    /\ depth \in Int

\* A sequence of good frames is a sequence of frames.
LEMMA InvParts == Inv <=> CtxInv /\ BookInv /\ LoadsTheirGroup
<1>1. Seq(GoodFrame) \subseteq Seq(Frame)
  BY SeqMonotonic DEF GoodFrame
<1>2. LoadsTheirGroup => stack \in [Threads -> Seq(Frame)]
  BY <1>1 DEF LoadsTheirGroup
<1>3. QED
  BY <1>2 DEF Inv, TypeOK, CtxInv, BookInv

\* Frames pushed and popped.
LEMMA StackFacts ==
    ASSUME NEW s \in Seq(GoodFrame)
    PROVE  /\ \A f \in GoodFrame : Push(f, s) \in Seq(GoodFrame)
           /\ s # <<>> => Head(s) \in GoodFrame /\ Tail(s) \in Seq(GoodFrame)
<1>1. ASSUME NEW f \in GoodFrame
      PROVE  Push(f, s) \in Seq(GoodFrame)
  BY <1>1 DEF Push
<1>2. s # <<>> => Head(s) \in GoodFrame /\ Tail(s) \in Seq(GoodFrame)
  OBVIOUS
<1>3. QED
  BY <1>1, <1>2

\* A count of modules is a natural number.
LEMMA CountNat ==
    ASSUME NEW S \in SUBSET Modules
    PROVE  Cardinality(S) \in Nat
BY FiniteAssumption, FS_Subset, FS_CardinalityType

\* Modules go together, when a lease of m is given back.
GivesBack(m) ==
    LET a    == [acq EXCEPT ![m] = @ - 1]
        gone == committed \ Retained(a, pinned)
    IN  /\ acq[m] > 0
        /\ acq' = a
        /\ committed' = committed \ gone
        /\ global' = global \ gone
        /\ meta' = [x \in Modules |-> IF x \in gone THEN {} ELSE meta[x]]
        /\ UNCHANGED pinned

\* Giving a lease back keeps the context consistent.
LEMMA GiveBackCtx ==
    ASSUME CtxInv, NEW m \in Modules, GivesBack(m)
    PROVE  CtxInv'
<1> DEFINE a == [acq EXCEPT ![m] = @ - 1]
           gone == committed \ Retained(a, pinned)
<1>1. /\ acq[m] > 0
      /\ acq' = a
      /\ committed' = committed \ gone
      /\ global' = global \ gone
      /\ meta' = [x \in Modules |-> IF x \in gone THEN {} ELSE meta[x]]
      /\ UNCHANGED pinned
  BY DEF GivesBack
<1>2. /\ a \in [Modules -> Nat]
      /\ Retained(a, pinned) \subseteq Retained(acq, pinned)
  BY <1>1, RetainedRelease DEF CtxInv
<1>3. committed' = Retained(a, pinned)
  BY <1>1, <1>2 DEF CtxInv, ExactlyRetained
<1>4. Closed(committed')
  BY <1>2, <1>3, RetainedFacts DEF CtxInv
<1>5. /\ committed' \in SUBSET Modules /\ acq' \in [Modules -> Nat]
      /\ pinned' \in SUBSET Modules /\ global' \in SUBSET Modules
      /\ meta' \in [Modules -> SUBSET Flags]
  BY <1>1, <1>2 DEF CtxInv
<1>6. ExactlyRetained' /\ GlobalLoaded'
  BY <1>1, <1>3 DEF CtxInv, ExactlyRetained, GlobalLoaded
<1>7. ASSUME NEW x \in Modules, "GLOBAL" \in meta'[x]
      PROVE  Group({x}) \subseteq global'
  <2>1. x \notin gone /\ "GLOBAL" \in meta[x]
    BY <1>1, <1>7
  <2>2. Group({x}) \subseteq global
    BY <2>1 DEF CtxInv, FlagsHonoured
  <2>3. x \in committed'
    BY <2>1, <2>2, <1>1, GroupContains DEF CtxInv, GlobalLoaded
  <2>4. Group({x}) \subseteq committed'
    BY <2>3, <1>4, <1>5, GroupLeast
  <2>5. QED
    BY <2>2, <2>4, <1>1
<1>8. ASSUME NEW x \in Modules, "NODELETE" \in meta'[x]
      PROVE  x \in pinned'
  BY <1>1, <1>8 DEF CtxInv, FlagsHonoured
<1>9. FlagsHonoured'
  BY <1>7, <1>8 DEF FlagsHonoured
<1>10. QED
  BY <1>5, <1>6, <1>9 DEF CtxInv

\* In particular when release unloads what nothing retains any more.
LEMMA ReleaseCtx ==
    ASSUME CtxInv, NEW t, NEW m \in Modules, NEW rest,
           Release(t, m, rest), UNCHANGED pinned
    PROVE  CtxInv'
<1>1. GivesBack(m)
  BY DEF Release, GivesBack
<1>2. QED
  BY <1>1, GiveBackCtx

\* A lease of loaded modules keeps the context consistent.
LEMMA AcquireCtx ==
    ASSUME CtxInv, NEW S \in SUBSET committed, Acquire(S),
           UNCHANGED <<committed, pinned, global, meta>>
    PROVE  CtxInv'
<1>1. acq' = [m \in Modules |-> IF m \in S THEN acq[m] + 1 ELSE acq[m]]
  BY DEF Acquire
<1>2. acq' \in [Modules -> Nat]
  BY <1>1 DEF CtxInv
<1>3. Retained(acq', pinned) = Retained(acq, pinned) \cup Group(S)
  <2>1. /\ S \in SUBSET Modules /\ pinned \in SUBSET Modules
        /\ acq \in [Modules -> Nat]
    BY DEF CtxInv
  <2>2. QED
    BY <1>1, <1>2, <2>1, RetainedAcquire
<1>4. Group(S) \subseteq committed
  BY RetainedFacts, GroupLeast DEF CtxInv, ExactlyRetained
<1>5. ExactlyRetained'
  BY <1>3, <1>4 DEF CtxInv, ExactlyRetained
<1>6. QED
  BY <1>2, <1>5 DEF CtxInv, GlobalLoaded, FlagsHonoured

\* A lease that comes with flags: promotion pins what the lease retains, and puts
\* a whole load group into the global scope.
LEMMA PromoteCtx ==
    ASSUME CtxInv, NEW m \in committed, NEW fs \in SUBSET Flags,
           Promote(m, fs), Acquire({m}), UNCHANGED committed
    PROVE  CtxInv'
<1> DEFINE g == Group({m})
<1>1. /\ meta' = [meta EXCEPT ![m] = @ \cup fs]
      /\ global' = IF "GLOBAL" \in fs THEN global \cup g ELSE global
      /\ pinned' = IF "NODELETE" \in fs \ meta[m] THEN pinned \cup {m} ELSE pinned
      /\ acq' = [x \in Modules |-> IF x \in {m} THEN acq[x] + 1 ELSE acq[x]]
  BY DEF Promote, PromoteGlobal, Acquire
<1>2. /\ m \in Modules /\ committed \in SUBSET Modules
      /\ acq \in [Modules -> Nat] /\ pinned \in SUBSET Modules
      /\ global \in SUBSET committed /\ meta \in [Modules -> SUBSET Flags]
  BY DEF CtxInv, GlobalLoaded
<1>3. acq' \in [Modules -> Nat] /\ pinned' \in SUBSET Modules
  BY <1>1, <1>2
<1>4. g \subseteq committed
  BY <1>2, RetainedFacts, GroupLeast DEF CtxInv, ExactlyRetained
<1>5. Retained(acq', pinned) = committed
  BY <1>1, <1>2, <1>3, <1>4, RetainedAcquire DEF CtxInv, ExactlyRetained
<1>6. Retained(acq', pinned') = committed
  <2>1. CASE pinned' = pinned
    BY <2>1, <1>5
  <2>2. CASE pinned' = pinned \cup {m}
    BY <2>2, <1>2, <1>3, <1>5, RetainedPin
  <2>3. QED
    BY <2>1, <2>2, <1>1
<1>7. /\ meta' \in [Modules -> SUBSET Flags]
      /\ global' \in SUBSET committed
  BY <1>1, <1>2, <1>4
<1>8. ASSUME NEW x \in Modules, "GLOBAL" \in meta'[x]
      PROVE  Group({x}) \subseteq global'
  <2>1. CASE "GLOBAL" \in meta[x]
    BY <2>1, <1>1 DEF CtxInv, FlagsHonoured
  <2>2. CASE "GLOBAL" \notin meta[x]
    BY <2>2, <1>1, <1>2, <1>8
  <2>3. QED
    BY <2>1, <2>2
<1>9. ASSUME NEW x \in Modules, "NODELETE" \in meta'[x]
      PROVE  x \in pinned'
  <2>1. CASE "NODELETE" \in meta[x]
    BY <2>1, <1>1 DEF CtxInv, FlagsHonoured
  <2>2. CASE "NODELETE" \notin meta[x]
    BY <2>2, <1>1, <1>2, <1>9
  <2>3. QED
    BY <2>1, <2>2
<1>10. FlagsHonoured'
  BY <1>8, <1>9 DEF FlagsHonoured
<1>11. QED
  BY <1>1, <1>2, <1>3, <1>6, <1>7, <1>10
     DEF CtxInv, ExactlyRetained, GlobalLoaded

\* A new name for a loaded module: a lease, and at most a wider global scope.
LEMMA AliasCtx ==
    ASSUME CtxInv, NEW m \in committed, NEW fs,
           PromoteGlobal(m, fs), Acquire({m}), UNCHANGED <<committed, pinned, meta>>
    PROVE  CtxInv'
<1>1. /\ acq' = [x \in Modules |-> IF x \in {m} THEN acq[x] + 1 ELSE acq[x]]
      /\ global \subseteq global'
      /\ global' \subseteq global \cup Group({m})
  BY DEF Acquire, PromoteGlobal
<1>2. /\ m \in Modules /\ acq \in [Modules -> Nat] /\ pinned \in SUBSET Modules
      /\ committed \in SUBSET Modules
  BY DEF CtxInv
<1>3. acq' \in [Modules -> Nat]
  BY <1>1, <1>2
<1>4. Group({m}) \subseteq committed
  BY <1>2, RetainedFacts, GroupLeast DEF CtxInv, ExactlyRetained
<1>5. Retained(acq', pinned) = committed
  BY <1>1, <1>2, <1>3, <1>4, RetainedAcquire DEF CtxInv, ExactlyRetained
<1>6. FlagsHonoured'
  BY <1>1 DEF CtxInv, FlagsHonoured
<1>7. global' \subseteq committed
  BY <1>1, <1>4 DEF CtxInv, GlobalLoaded
<1>8. QED
  BY <1>2, <1>3, <1>5, <1>6, <1>7 DEF CtxInv, ExactlyRetained, GlobalLoaded

\* The innermost call of a thread is a good frame.
LEMMA TopFacts ==
    ASSUME LoadsTheirGroup, NEW t \in Threads, stack[t] # <<>>
    PROVE  /\ stack[t] \in Seq(GoodFrame)
           /\ Top(t) \in GoodFrame
           /\ Tail(stack[t]) \in Seq(GoodFrame)
BY StackFacts DEF LoadsTheirGroup, Top

\* What a load works on.
LEMMA LoadFacts ==
    ASSUME LoadsTheirGroup, NEW t \in Threads, In(t, "relocate") \/ In(t, "init")
    PROVE  /\ Top(t).root \in Modules
           /\ Top(t).mods \in SUBSET Modules
           /\ Top(t).flags \in SUBSET Flags
           /\ Top(t).root \in Top(t).mods
           /\ Top(t).mods \subseteq Group({Top(t).root})
BY TopFacts DEF In, GoodFrame, Frame

\* publish: what the new lease retains is what was published.
LEMMA PublishCtx ==
    ASSUME CtxInv, LoadsTheirGroup, NEW t \in Threads, Publish(t)
    PROVE  CtxInv'
<1> DEFINE r == Top(t).root
           new == Top(t).mods
<1>1. /\ In(t, "relocate")
      /\ Group({r}) \subseteq committed \cup new
      /\ committed' = committed \cup new
      /\ acq' = [x \in Modules |-> IF x \in {r} THEN acq[x] + 1 ELSE acq[x]]
      /\ UNCHANGED <<pinned, global, meta>>
  BY DEF Publish, Acquire
<1>2. /\ r \in Modules /\ new \in SUBSET Modules /\ new \subseteq Group({r})
  BY <1>1, LoadFacts
<1>3. /\ acq \in [Modules -> Nat] /\ pinned \in SUBSET Modules
      /\ committed \in SUBSET Modules
  BY DEF CtxInv
<1> HIDE DEF r, new
<1>4. acq' \in [Modules -> Nat]
  BY <1>1, <1>2, <1>3
<1>5. Retained(acq', pinned) = committed \cup Group({r})
  BY <1>1, <1>2, <1>3, <1>4, RetainedAcquire DEF CtxInv, ExactlyRetained
<1>6. Retained(acq', pinned) = committed'
  BY <1>1, <1>2, <1>5
<1>7. QED
  BY <1>1, <1>2, <1>3, <1>4, <1>6 DEF CtxInv, ExactlyRetained, GlobalLoaded, FlagsHonoured

\* A failed initialization leaves the context as consistent as it was, whether the
\* load is taken back or stays with a lease that nobody has.
LEMMA RollbackCtx ==
    ASSUME CtxInv, LoadsTheirGroup, NEW t \in Threads, RollbackLoad(t)
    PROVE  CtxInv'
<1> DEFINE r == Top(t).root
           a == [acq EXCEPT ![r] = @ - 1]
<1>1. /\ In(t, "init")
      /\ acq[r] > 0
      /\ acq' = a
      /\ \/ GivesBack(r)
         \/ pinned' = pinned \cup {r} /\ UNCHANGED <<committed, global, meta>>
  BY DEF RollbackLoad, GivesBack
<1>2. r \in Modules
  BY <1>1, LoadFacts
<1>3. CASE GivesBack(r)
  BY <1>2, <1>3, GiveBackCtx
<1>4. CASE pinned' = pinned \cup {r} /\ UNCHANGED <<committed, global, meta>>
  <2> HIDE DEF r
  <2>1. /\ acq \in [Modules -> Nat] /\ pinned \in SUBSET Modules
        /\ committed = Retained(acq, pinned)
    BY DEF CtxInv, ExactlyRetained
  <2>2. a \in [Modules -> Nat]
    BY <1>1, <1>2, <2>1, RetainedRelease
  <2>3. Retained(a, pinned \cup {r}) = committed
    <3>1. ({m \in Modules : a[m] > 0} \cup (pinned \cup {r})) =
            ({m \in Modules : acq[m] > 0} \cup pinned) \cup {r}
      BY <1>1, <1>2, <2>1
    <3>2. r \in Retained(acq, pinned)
      BY <1>1, <1>2, <2>1, RetainedFacts
    <3>3. Retained(acq, pinned \cup {r}) = committed
      BY <2>1, <3>2, RetainedPin
    <3>4. QED
      BY <3>1, <3>3 DEF Retained
  <2>4. CtxInv' <=> /\ a \in [Modules -> Nat] /\ pinned \cup {r} \in SUBSET Modules
                    /\ committed = Retained(a, pinned \cup {r})
                    /\ committed \in SUBSET Modules /\ global \in SUBSET Modules
                    /\ meta \in [Modules -> SUBSET Flags]
                    /\ global \subseteq committed
                    /\ \A m \in Modules :
                         /\ "NODELETE" \in meta[m] => m \in pinned \cup {r}
                         /\ "GLOBAL" \in meta[m] => Group({m}) \subseteq global
    BY <1>1, <1>4 DEF CtxInv, ExactlyRetained, GlobalLoaded, FlagsHonoured
  <2>5. QED
    BY <1>2, <2>1, <2>2, <2>3, <2>4 DEF CtxInv, GlobalLoaded, FlagsHonoured
<1>5. QED
  BY <1>1, <1>3, <1>4

\* open_load overwrites the flags of the new modules; what it pins and makes
\* global covers what it writes.
LEMMA FinishCtx ==
    ASSUME CtxInv, LoadsTheirGroup, NEW t \in Threads, FinishLoad(t)
    PROVE  CtxInv'
<1> DEFINE r == Top(t).root
           new == Top(t).mods
           fs == Top(t).flags
<1>1. /\ In(t, "init")
      /\ new \subseteq committed
      /\ meta' = [m \in Modules |-> IF m \in new THEN fs ELSE meta[m]]
      /\ pinned' = IF "NODELETE" \in fs THEN pinned \cup new ELSE pinned
      /\ global' = IF "GLOBAL" \in fs THEN global \cup Group({r}) ELSE global
      /\ UNCHANGED <<committed, acq>>
  BY DEF FinishLoad, PromoteGlobal
<1>2. /\ r \in Modules /\ new \in SUBSET Modules /\ fs \in SUBSET Flags
      /\ new \subseteq Group({r})
  BY <1>1, LoadFacts
<1>3. r \in committed
  BY <1>1, LoadFacts
<1> HIDE DEF r, new, fs
<1>4. /\ committed \in SUBSET Modules /\ acq \in [Modules -> Nat]
      /\ pinned \in SUBSET Modules /\ global \in SUBSET committed
      /\ meta \in [Modules -> SUBSET Flags]
      /\ committed = Retained(acq, pinned)
  BY DEF CtxInv, GlobalLoaded, ExactlyRetained
<1>5. Group({r}) \subseteq committed
  BY <1>3, <1>4, RetainedFacts, GroupLeast
<1>6. Retained(acq, pinned') = committed
  <2>1. CASE "NODELETE" \in fs
    BY <2>1, <1>1, <1>4, RetainedPin
  <2>2. CASE "NODELETE" \notin fs
    BY <2>2, <1>1, <1>4
  <2>3. QED
    BY <2>1, <2>2
<1>7. /\ global' \in SUBSET committed
      /\ meta' \in [Modules -> SUBSET Flags]
      /\ pinned' \in SUBSET Modules
  BY <1>1, <1>2, <1>4, <1>5
<1>8. ASSUME NEW x \in Modules, "GLOBAL" \in meta'[x]
      PROVE  Group({x}) \subseteq global'
  <2>1. CASE x \in new
    <3>1. "GLOBAL" \in fs
      BY <2>1, <1>1, <1>8
    <3>2. Group({x}) \subseteq Group({r})
      BY <2>1, <1>2, GroupInside
    <3>3. QED
      BY <3>1, <3>2, <1>1
  <2>2. CASE x \notin new
    BY <2>2, <1>1, <1>8 DEF CtxInv, FlagsHonoured
  <2>3. QED
    BY <2>1, <2>2
<1>9. ASSUME NEW x \in Modules, "NODELETE" \in meta'[x]
      PROVE  x \in pinned'
  BY <1>1, <1>9 DEF CtxInv, FlagsHonoured
<1>10. FlagsHonoured'
  BY <1>8, <1>9 DEF FlagsHonoured
<1>11. QED
  BY <1>1, <1>4, <1>6, <1>7, <1>10 DEF CtxInv, ExactlyRetained, GlobalLoaded
-----------------------------------------------------------------------------
(* Every step *)

\* No step makes the context inconsistent.
LEMMA CtxStep ==
    ASSUME CtxInv, BookInv, LoadsTheirGroup, NEW t \in Threads,
           UserCall(t) \/ Continue(t)
    PROVE  CtxInv'
<1>1. ASSUME NEW api \in Apis, OpenMain(t, api)
      PROVE  CtxInv'
  BY <1>1, AcquireCtx DEF OpenMain
<1>2. ASSUME NEW api \in Apis, NEW m \in Modules, NEW fs \in OpenFlagSets,
             OpenExisting(t, m, fs, api)
      PROVE  CtxInv'
  BY <1>2, PromoteCtx, ModulesAssumption DEF OpenExisting
<1>3. ASSUME NEW api \in Apis, NEW m \in Modules, NEW fs \in OpenFlagSets,
             OpenAlias(t, m, fs, api)
      PROVE  CtxInv'
  BY <1>3, AliasCtx DEF OpenAlias
<1>4. ASSUME UNCHANGED ctxVars
      PROVE  CtxInv'
  BY <1>4 DEF ctxVars, CtxInv, ExactlyRetained, GlobalLoaded, FlagsHonoured
<1>5. ASSUME NEW m \in Modules, NEW rest, Release(t, m, rest), UNCHANGED pinned
      PROVE  CtxInv'
  BY <1>5, ReleaseCtx
<1>6. ASSUME NEW S \in SUBSET committed, Acquire(S),
             UNCHANGED <<committed, pinned, global, meta>>
      PROVE  CtxInv'
  BY <1>6, AcquireCtx
<1>7. CASE UserCall(t)
  <2>1. CASE \E m \in Modules : CloseHandle(t, m) \/ DropLibrary(t, m)
    BY <2>1, <1>5 DEF CloseHandle, DropLibrary
  <2>2. CASE \E m \in Modules : LibraryByAddr(t, m) \/ TakeTemporary(t, m)
                                  \/ RegisterDestructor(t, m)
    <3>1. PICK m \in committed : Acquire({m})
                                  /\ UNCHANGED <<committed, pinned, global, meta>>
      BY <2>2 DEF LibraryByAddr, TakeTemporary, RegisterDestructor
    <3>2. QED
      BY <3>1, <1>6
  <2>3. CASE \E m \in Modules : RunDestructor(t, m)
    BY <2>3, <1>4 DEF RunDestructor
  <2>4. CASE Iterate(t)
    BY <2>4, <1>6 DEF Iterate
  <2>5. CASE \E api \in Apis, m \in Modules, fs \in OpenFlagSets : BeginLoad(t, m, fs, api)
    BY <2>5, <1>4 DEF BeginLoad
  <2>6. QED
    BY <1>7, <1>1, <1>2, <1>3, <2>1, <2>2, <2>3, <2>4, <2>5 DEF UserCall
<1>8. CASE Continue(t)
  <2>1. CASE FailLoad(t) \/ RegisterHandle(t) \/ EndCallbacks(t) \/ EndIterate(t)
             \/ EndFinalizers(t)
    BY <2>1, <1>4 DEF FailLoad, RegisterHandle, EndCallbacks, EndIterate, EndFinalizers
  <2>2. CASE Publish(t)
    BY <2>2, PublishCtx DEF Publish
  <2>3. CASE RollbackLoad(t)
    BY <2>3, RollbackCtx
  <2>4. CASE FinishLoad(t)
    BY <2>4, FinishCtx
  <2>5. CASE DropTemporary(t) \/ EndDestructor(t)
    <3>1. Top(t).root \in Modules
      BY <2>5, TopFacts DEF DropTemporary, EndDestructor, In, GoodFrame, Frame
    <3>2. QED
      BY <2>5, <3>1, <1>5 DEF DropTemporary, EndDestructor
  <2>6. CASE DropSnapshot(t)
    <3>1. Top(t).mods \in SUBSET Modules
      BY <2>6, TopFacts DEF DropSnapshot, In, GoodFrame, Frame
    <3>2. QED
      BY <2>6, <3>1, <1>5 DEF DropSnapshot
  <2>7. QED
    BY <1>8, <2>1, <2>2, <2>3, <2>4, <2>5, <2>6 DEF Continue
<1>9. QED
  BY <1>7, <1>8

\* A frame that is not a load is good whatever it works on.
LEMMA OtherFrame ==
    ASSUME NEW k \in Kinds \ {"relocate", "init"}, NEW r \in Modules,
           NEW ms \in SUBSET Modules, NEW fs \in SUBSET Flags, NEW a \in {"c", "rust"}
    PROVE  NewFrame(k, r, ms, fs, a) \in GoodFrame
BY DEF NewFrame, GoodFrame, Frame

\* One thread's stack is replaced.
LEMMA SetGood ==
    ASSUME LoadsTheirGroup, NEW t \in Threads, NEW s \in Seq(GoodFrame), SetStack(t, s)
    PROVE  LoadsTheirGroup'
BY DEF LoadsTheirGroup, SetStack

\* An OpenedLibrary is handed over.
LEMMA OpenedStack ==
    ASSUME LoadsTheirGroup, NEW t \in Threads, NEW m \in Modules,
           NEW fs \in SUBSET Flags, NEW api \in {"c", "rust"},
           NEW s \in Seq(GoodFrame), Opened(t, m, fs, api, s)
    PROVE  LoadsTheirGroup'
<1>1. NewFrame("opened", m, {}, fs, api) \in GoodFrame
  BY OtherFrame DEF Kinds
<1>2. Push(NewFrame("opened", m, {}, fs, api), s) \in Seq(GoodFrame)
  BY <1>1, StackFacts
<1>3. QED
  BY <1>2, SetGood DEF Opened

\* A lease is given back, finalizers may follow.
LEMMA ReleaseStack ==
    ASSUME CtxInv, LoadsTheirGroup, NEW t \in Threads, NEW m \in Modules,
           NEW s \in Seq(GoodFrame), Release(t, m, s)
    PROVE  LoadsTheirGroup'
<1> DEFINE gone == committed \ Retained([acq EXCEPT ![m] = @ - 1], pinned)
           f == NewFrame("fini", m, gone, {}, "rust")
<1>1. f \in GoodFrame
  BY OtherFrame DEF Kinds, CtxInv
<1>2. Push(f, s) \in Seq(GoodFrame)
  BY <1>1, StackFacts
<1>3. SetStack(t, IF gone = {} THEN s ELSE Push(f, s))
  BY DEF Release
<1>4. QED
  BY <1>2, <1>3, SetGood

\* Every load in progress brings in its root and part of the root's group.
LEMMA StackStep ==
    ASSUME CtxInv, BookInv, LoadsTheirGroup, NEW t \in Threads,
           UserCall(t) \/ Continue(t)
    PROVE  LoadsTheirGroup'
<1> USE ModulesAssumption
<1>1. stack[t] \in Seq(GoodFrame)
  BY DEF LoadsTheirGroup
<1>2. committed \in SUBSET Modules
  BY DEF CtxInv
<1>3. ASSUME NEW api \in Apis, OpenMain(t, api)
      PROVE  LoadsTheirGroup'
  BY <1>3, <1>1, OpenedStack DEF OpenMain
<1>4. ASSUME NEW api \in Apis, NEW m \in Modules, NEW fs \in OpenFlagSets,
             OpenExisting(t, m, fs, api) \/ OpenAlias(t, m, fs, api)
      PROVE  LoadsTheirGroup'
  <2>1. Opened(t, m, fs, api, stack[t])
    BY <1>4 DEF OpenExisting, OpenAlias
  <2>2. QED
    BY <2>1, <1>1, OpenedStack
<1>5. ASSUME NEW api \in Apis, NEW r \in Modules, NEW fs \in OpenFlagSets,
             BeginLoad(t, r, fs, api)
      PROVE  LoadsTheirGroup'
  <2> DEFINE f == NewFrame("relocate", r, Group({r}) \ committed, fs, api)
  <2>1. r \in Group({r}) /\ Group({r}) \subseteq Modules
    BY GroupContains
  <2>2. f \in GoodFrame
    BY <1>5, <2>1 DEF BeginLoad, NewFrame, GoodFrame, Frame, Kinds
  <2>3. Push(f, stack[t]) \in Seq(GoodFrame)
    BY <2>2, <1>1, StackFacts
  <2>4. QED
    BY <1>5, <2>3, SetGood DEF BeginLoad
<1>6. ASSUME NEW m \in Modules, CloseHandle(t, m) \/ DropLibrary(t, m)
      PROVE  LoadsTheirGroup'
  BY <1>6, <1>1, ReleaseStack DEF CloseHandle, DropLibrary
<1>7. ASSUME NEW m \in Modules, LibraryByAddr(t, m) \/ RegisterDestructor(t, m)
      PROVE  LoadsTheirGroup'
  BY <1>7 DEF LibraryByAddr, RegisterDestructor, LoadsTheirGroup
<1>8. ASSUME NEW m \in Modules, TakeTemporary(t, m)
      PROVE  LoadsTheirGroup'
  <2>1. NewFrame("temp", m, {}, {}, "c") \in GoodFrame
    BY OtherFrame DEF Kinds
  <2>2. Push(NewFrame("temp", m, {}, {}, "c"), stack[t]) \in Seq(GoodFrame)
    BY <2>1, <1>1, StackFacts
  <2>3. QED
    BY <1>8, <2>2, SetGood DEF TakeTemporary
<1>9. ASSUME NEW m \in Modules, RunDestructor(t, m)
      PROVE  LoadsTheirGroup'
  <2>1. NewFrame("dtor", m, {}, {}, "c") \in GoodFrame
    BY OtherFrame DEF Kinds
  <2>2. <<NewFrame("dtor", m, {}, {}, "c")>> \in Seq(GoodFrame)
    BY <2>1
  <2>3. QED
    BY <1>9, <2>2, SetGood DEF RunDestructor
<1>10. CASE Iterate(t)
  <2>1. NewFrame("iter", Main, committed, {}, "c") \in GoodFrame
    BY <1>2, OtherFrame DEF Kinds
  <2>2. Push(NewFrame("iter", Main, committed, {}, "c"), stack[t]) \in Seq(GoodFrame)
    BY <2>1, <1>1, StackFacts
  <2>3. QED
    BY <1>10, <2>2, SetGood DEF Iterate
<1>11. CASE UserCall(t)
  BY <1>11, <1>3, <1>4, <1>5, <1>6, <1>7, <1>8, <1>9, <1>10 DEF UserCall
<1>12. ASSUME Continue(t)
       PROVE  /\ stack[t] # <<>>
              /\ Top(t) \in GoodFrame
              /\ Tail(stack[t]) \in Seq(GoodFrame)
  <2>1. stack[t] # <<>>
    BY <1>12 DEF Continue, In, FailLoad, Publish, RollbackLoad, FinishLoad,
         RegisterHandle, DropTemporary, EndCallbacks, DropSnapshot, EndIterate,
         EndDestructor, EndFinalizers
  <2>2. QED
    BY <2>1, TopFacts
<1>13. CASE Continue(t)
  <2>1. CASE FailLoad(t) \/ RollbackLoad(t) \/ RegisterHandle(t) \/ EndIterate(t)
             \/ EndFinalizers(t)
    BY <2>1, <1>12, <1>13, SetGood
       DEF FailLoad, RollbackLoad, RegisterHandle, EndIterate, EndFinalizers
  <2>2. CASE Publish(t)
    <3>1. [Top(t) EXCEPT !.kind = "init"] \in GoodFrame
      BY <2>2, <1>12, <1>13 DEF Publish, In, GoodFrame, Frame, Kinds
    <3>2. QED
      BY <2>2, <3>1, <1>12, <1>13, StackFacts, SetGood DEF Publish
  <2>3. CASE FinishLoad(t)
    <3>1. Top(t).root \in Modules /\ Top(t).flags \in SUBSET Flags
          /\ Top(t).api \in {"c", "rust"}
      BY <1>12, <1>13 DEF GoodFrame, Frame
    <3>2. QED
      BY <2>3, <3>1, <1>12, <1>13, OpenedStack DEF FinishLoad
  <2>4. CASE DropTemporary(t) \/ EndDestructor(t)
    <3>1. Top(t).root \in Modules
      BY <1>12, <1>13 DEF GoodFrame, Frame
    <3>2. QED
      BY <2>4, <3>1, <1>12, <1>13, ReleaseStack DEF DropTemporary, EndDestructor
  <2>5. CASE EndCallbacks(t)
    <3>1. [Top(t) EXCEPT !.kind = "drop"] \in GoodFrame
      BY <1>12, <1>13 DEF GoodFrame, Frame, Kinds
    <3>2. QED
      BY <2>5, <3>1, <1>12, <1>13, StackFacts, SetGood DEF EndCallbacks
  <2>6. CASE DropSnapshot(t)
    <3>1. PICK m \in Top(t).mods :
            Release(t, m, Push([Top(t) EXCEPT !.mods = @ \ {m}], Tail(stack[t])))
      BY <2>6 DEF DropSnapshot
    <3>2. m \in Modules
      BY <1>12, <1>13 DEF GoodFrame, Frame
    <3>3. [Top(t) EXCEPT !.mods = @ \ {m}] \in GoodFrame
      BY <2>6, <1>12, <1>13 DEF DropSnapshot, In, GoodFrame, Frame
    <3>4. Push([Top(t) EXCEPT !.mods = @ \ {m}], Tail(stack[t])) \in Seq(GoodFrame)
      BY <3>3, <1>12, <1>13, StackFacts
    <3>5. QED
      BY <3>1, <3>2, <3>4, ReleaseStack
  <2>7. QED
    BY <1>13, <2>1, <2>2, <2>3, <2>4, <2>5, <2>6 DEF Continue
<1>14. QED
  BY <1>11, <1>13

\* What Release counts, a natural number of modules.
LEMMA ReleaseCounts ==
    ASSUME CtxInv, BookInv, NEW t, NEW m, NEW rest, Release(t, m, rest)
    PROVE  subs' \in Nat
<1> DEFINE gone == committed \ Retained([acq EXCEPT ![m] = @ - 1], pinned)
<1>1. Cardinality(gone) \in Nat
  BY CountNat DEF CtxInv
<1>2. subs' = subs + Cardinality(gone)
  BY DEF Release
<1>3. QED
  BY <1>1, <1>2 DEF BookInv

\* Every step keeps the types of the counters, the handle table and the lock.
LEMMA BookStep ==
    ASSUME CtxInv, BookInv, LoadsTheirGroup, NEW t \in Threads,
           UserCall(t) \/ Continue(t)
    PROVE  BookInv'
<1>1. ASSUME NEW api, NEW m \in Modules, NEW fs, NEW s, Opened(t, m, fs, api, s)
      PROVE  libs' \in [Modules -> Nat]
  BY <1>1 DEF Opened, BookInv
<1>2. Main \in Modules
  BY ModulesAssumption
<1>3. ASSUME NEW api \in Apis, OpenMain(t, api)
      PROVE  BookInv'
  BY <1>3, <1>1, <1>2 DEF OpenMain, BookInv
<1>4. ASSUME NEW api \in Apis, NEW m \in Modules, NEW fs \in OpenFlagSets,
             OpenExisting(t, m, fs, api) \/ OpenAlias(t, m, fs, api)
      PROVE  BookInv'
  <2>1. /\ Opened(t, m, fs, api, stack[t])
        /\ UNCHANGED <<handles, dtors, adds, subs, left, swept, owner, depth>>
    BY <1>4 DEF OpenExisting, OpenAlias
  <2>2. QED
    BY <2>1, <1>1 DEF BookInv
<1>5. ASSUME NEW api \in Apis, NEW m \in Modules, NEW fs \in OpenFlagSets,
             BeginLoad(t, m, fs, api)
      PROVE  BookInv'
  BY <1>5 DEF BeginLoad, Lock, BookInv
<1>6. ASSUME NEW m \in Modules, CloseHandle(t, m)
      PROVE  BookInv'
  <2>1. subs' \in Nat
    BY <1>6, ReleaseCounts DEF CloseHandle
  <2>2. QED
    BY <1>6, <2>1 DEF CloseHandle, BookInv
<1>7. ASSUME NEW m \in Modules, DropLibrary(t, m)
      PROVE  BookInv'
  <2>1. subs' \in Nat
    BY <1>7, ReleaseCounts DEF DropLibrary
  <2>2. QED
    BY <1>7, <2>1 DEF DropLibrary, BookInv
<1>8. ASSUME NEW m \in Modules,
             LibraryByAddr(t, m) \/ TakeTemporary(t, m) \/ RunDestructor(t, m)
      PROVE  BookInv'
  BY <1>8 DEF LibraryByAddr, TakeTemporary, RunDestructor, BookInv
<1>9. ASSUME NEW m \in Modules, RegisterDestructor(t, m)
      PROVE  BookInv'
  BY <1>9 DEF RegisterDestructor, BookInv
<1>10. CASE Iterate(t)
  BY <1>10 DEF Iterate, Lock, BookInv
<1>11. CASE UserCall(t)
  BY <1>11, <1>3, <1>4, <1>5, <1>6, <1>7, <1>8, <1>9, <1>10 DEF UserCall
<1>12. CASE Continue(t)
  <2>1. CASE FailLoad(t) \/ EndIterate(t)
    BY <2>1 DEF FailLoad, EndIterate, Unlock, BookInv
  <2>2. CASE Publish(t) \/ EndCallbacks(t) \/ EndFinalizers(t)
    BY <2>2 DEF Publish, EndCallbacks, EndFinalizers, BookInv
  <2>3. CASE FinishLoad(t)
    <3>1. /\ Top(t).root \in Modules
          /\ Cardinality(Top(t).mods) \in Nat
      BY <2>3, LoadFacts, CountNat DEF FinishLoad
    <3>2. libs' \in [Modules -> Nat]
      BY <2>3, <3>1, <1>1 DEF FinishLoad
    <3>3. QED
      BY <2>3, <3>1, <3>2 DEF FinishLoad, Unlock, BookInv
  <2>4. CASE RegisterHandle(t)
    <3>1. Top(t).root \in Modules
      BY <2>4, TopFacts DEF RegisterHandle, In, GoodFrame, Frame
    <3>2. QED
      BY <2>4, <3>1 DEF RegisterHandle, BookInv
  <2>5. CASE DropTemporary(t) \/ EndDestructor(t) \/ DropSnapshot(t)
    <3>1. subs' \in Nat
      BY <2>5, ReleaseCounts DEF DropTemporary, EndDestructor, DropSnapshot
    <3>2. QED
      BY <2>5, <3>1 DEF DropTemporary, EndDestructor, DropSnapshot, BookInv
  <2>6. CASE RollbackLoad(t)
    <3> DEFINE gone == committed \ Retained([acq EXCEPT ![Top(t).root] = @ - 1], pinned)
    <3>1. Top(t).mods \in SUBSET Modules /\ gone \in SUBSET Modules
      BY <2>6, LoadFacts DEF RollbackLoad, CtxInv
    <3>2. /\ Cardinality(Top(t).mods) \in Nat /\ Cardinality(Top(t).mods \ gone) \in Nat
          /\ Cardinality(gone \ Top(t).mods) \in Nat
      BY <3>1, CountNat
    <3>3. left' \in Nat /\ swept' \in Nat
      BY <2>6, <3>2 DEF RollbackLoad, BookInv
    <3>4. QED
      BY <2>6, <3>3 DEF RollbackLoad, Unlock, BookInv
  <2>7. QED
    BY <1>12, <2>1, <2>2, <2>3, <2>4, <2>5, <2>6 DEF Continue
<1>13. QED
  BY <1>11, <1>12

\* The preloaded objects are exactly what their pins retain.
LEMMA InitInv == Init => Inv
<1> SUFFICES ASSUME Init PROVE Inv
  OBVIOUS
<1> USE ModulesAssumption
<1>1. acq \in [Modules -> Nat] /\ {m \in Modules : acq[m] > 0} = {}
  BY DEF Init
<1>2. Retained(acq, pinned) = Preloaded
  <2>1. Retained(acq, pinned) = Group(Preloaded)
    BY <1>1 DEF Init, Retained
  <2>2. QED
    BY <2>1, GroupContains, GroupLeast
<1>3. \A m \in Preloaded : Group({m}) \subseteq Preloaded
  BY GroupLeast
<1>4. CtxInv
  BY <1>1, <1>2, <1>3
     DEF Init, CtxInv, ExactlyRetained, GlobalLoaded, FlagsHonoured, Flags
<1>5. BookInv
  BY CountNat DEF Init, BookInv
<1>6. LoadsTheirGroup
  BY DEF Init, LoadsTheirGroup
<1>7. QED
  BY <1>4, <1>5, <1>6, InvParts

\* Every step keeps the invariant.
LEMMA InvStep == Inv /\ [Next]_vars => Inv'
<1> SUFFICES ASSUME Inv, [Next]_vars
             PROVE  Inv'
  OBVIOUS
<1>1. CtxInv /\ BookInv /\ LoadsTheirGroup
  BY InvParts
<1>2. CASE Next
  <2>1. PICK t \in Threads : UserCall(t) \/ Continue(t)
    BY <1>2 DEF Next
  <2>2. CtxInv' /\ BookInv' /\ LoadsTheirGroup'
    BY <1>1, <2>1, CtxStep, BookStep, StackStep
  <2>3. Inv'
    BY <2>2, InvParts, PTL
  <2>4. QED
    BY <2>2, <2>3
<1>3. CASE UNCHANGED vars
  BY <1>1, <1>3 DEF vars, Inv, TypeOK, LoadsTheirGroup, ExactlyRetained, GlobalLoaded,
     FlagsHonoured
<1>4. QED
  BY <1>2, <1>3

\* The invariant holds in every reachable state: in particular the variables keep
\* their types (no lease count, handle count or counter becomes negative).
THEOREM RegistryInvariant == Spec => []Inv
<1>1. QED
  BY InitInv, InvStep, PTL DEF Spec

\* The registry's state is well typed in every reachable state: handle and lease
\* counts and the load counters never underflow (release_handle, Manager::release).
THEOREM RegistryTypeOK == Spec => []TypeOK
<1>1. Inv => TypeOK
  BY DEF Inv
<1>2. QED
  BY <1>1, RegistryInvariant, PTL

\* The global scope never names a module that was unloaded.
THEOREM RegistryGlobalLoaded == Spec => []GlobalLoaded
<1>1. Inv => GlobalLoaded
  BY DEF Inv
<1>2. QED
  BY <1>1, RegistryInvariant, PTL

\* The stored flags are always honoured, although open_load overwrites those that
\* nested calls stored meanwhile (Manager::promote, open_load).
THEOREM RegistryFlagsHonoured == Spec => []FlagsHonoured
<1>1. Inv => FlagsHonoured
  BY DEF Inv
<1>2. QED
  BY <1>1, RegistryInvariant, PTL

-----------------------------------------------------------------------------
(* Counting frames *)

\* The stacks once that of t is s.
With(t, s) == [stack EXCEPT ![t] = s]

\* Membership in At, without the union.
LEMMA AtMember ==
    ASSUME NEW stk, NEW H
    PROVE  /\ \A t \in Threads : \A i \in DOMAIN stk[t] :
                <<t, i>> \in At(stk, H) <=> stk[t][i] \in H
           /\ \A p \in At(stk, H) :
                /\ p = <<p[1], p[2]>> /\ p[1] \in Threads
                /\ p[2] \in DOMAIN stk[p[1]] /\ stk[p[1]][p[2]] \in H
BY DEF At

\* A frame pushed is the new first one, the others move by one.
LEMMA PushIndices ==
    ASSUME NEW s \in Seq(Frame), NEW f \in Frame
    PROVE  /\ Push(f, s) \in Seq(Frame)
           /\ DOMAIN s = 1 .. Len(s) /\ DOMAIN Push(f, s) = 1 .. Len(s) + 1
           /\ Len(s) \in Nat
           /\ Push(f, s)[1] = f
           /\ \A i \in 1 .. Len(s) : Push(f, s)[i + 1] = s[i]
           /\ \A i \in 2 .. Len(s) + 1 : Push(f, s)[i] = s[i - 1]
BY DEF Push

\* Pushing a frame keeps a set of positions finite, and adds one to their number if
\* the frame belongs to it.
LEMMA PushCount ==
    ASSUME stack \in [Threads -> Seq(Frame)], NEW t \in Threads,
           NEW s \in Seq(Frame), NEW f \in Frame, NEW H
    PROVE  /\ IsFiniteSet(At(With(t, s), H)) <=> IsFiniteSet(At(With(t, Push(f, s)), H))
           /\ IsFiniteSet(At(With(t, s), H)) =>
                Cardinality(At(With(t, Push(f, s)), H))
                  = Cardinality(At(With(t, s), H)) + IF f \in H THEN 1 ELSE 0
<1> DEFINE old == With(t, s)
           new == With(t, Push(f, s))
           A == At(old, H)
           B == At(new, H)
           C == B \ {<<t, 1>>}
           shift == [p \in A |-> IF p[1] = t THEN <<t, p[2] + 1>> ELSE p]
<1>1. /\ old[t] = s /\ new[t] = Push(f, s)
      /\ \A u \in Threads \ {t} : old[u] = new[u]
  BY DEF With
<1>2. /\ \A u \in Threads : \A i \in DOMAIN old[u] : <<u, i>> \in A <=> old[u][i] \in H
      /\ \A p \in A : /\ p = <<p[1], p[2]>> /\ p[1] \in Threads
                      /\ p[2] \in DOMAIN old[p[1]] /\ old[p[1]][p[2]] \in H
  BY AtMember
<1>3. /\ \A u \in Threads : \A i \in DOMAIN new[u] : <<u, i>> \in B <=> new[u][i] \in H
      /\ \A p \in B : /\ p = <<p[1], p[2]>> /\ p[1] \in Threads
                      /\ p[2] \in DOMAIN new[p[1]] /\ new[p[1]][p[2]] \in H
  BY AtMember
<1>4. /\ DOMAIN new[t] = 1 .. Len(s) + 1 /\ DOMAIN old[t] = 1 .. Len(s) /\ Len(s) \in Nat
      /\ new[t][1] = f
      /\ \A i \in 1 .. Len(s) : new[t][i + 1] = old[t][i]
  BY <1>1, PushIndices
<1> HIDE DEF A, B, old, new
<1>5. ASSUME NEW p \in A
      PROVE  shift[p] \in C
  <2>1. CASE p[1] = t
    <3>1. p[2] \in 1 .. Len(s) /\ old[t][p[2]] \in H
      BY <2>1, <1>2, <1>4
    <3>2. /\ p[2] + 1 \in 1 .. Len(s) + 1 /\ p[2] + 1 # 1
          /\ new[t][p[2] + 1] \in H
      <4>1. p[2] + 1 \in 1 .. Len(s) + 1 /\ p[2] + 1 # 1
        <5> DEFINE i == p[2]  n == Len(s)
        <5>1. i \in 1 .. n /\ n \in Nat
          BY <3>1, <1>4
        <5> HIDE DEF i, n
        <5>2. i + 1 \in 1 .. n + 1 /\ i + 1 # 1
          BY <5>1
        <5>3. QED
          BY <5>2 DEF i, n
      <4>2. new[t][p[2] + 1] = old[t][p[2]]
        BY <3>1, <1>4
      <4>3. QED
        BY <4>1, <4>2, <3>1
    <3>3. <<t, p[2] + 1>> \in B
      BY <3>2, <1>3, <1>4
    <3>4. QED
      BY <3>2, <3>3, <2>1
  <2>2. CASE p[1] # t
    <3>1. <<p[1], p[2]>> \in B
      BY <2>2, <1>1, <1>2, <1>3
    <3>2. QED
      BY <2>2, <3>1, <1>2
  <2>3. QED
    BY <2>1, <2>2
<1>6. ASSUME NEW q \in C
      PROVE  \E p \in A : shift[p] = q
  <2>1. q \in B /\ q = <<q[1], q[2]>> /\ q # <<t, 1>>
    BY <1>3
  <2>2. CASE q[1] = t
    <3>1. q[2] \in 2 .. Len(s) + 1
      BY <2>1, <2>2, <1>3, <1>4
    <3>2. /\ q[2] - 1 \in 1 .. Len(s) /\ (q[2] - 1) + 1 = q[2]
      BY <3>1, <1>4
    <3>3. old[t][q[2] - 1] \in H
      BY <2>1, <2>2, <3>2, <1>3, <1>4
    <3>4. <<t, q[2] - 1>> \in A
      BY <3>2, <3>3, <1>2, <1>4
    <3>5. shift[<<t, q[2] - 1>>] = <<t, q[2]>>
      BY <3>2, <3>4
    <3>6. QED
      BY <3>4, <3>5, <2>1, <2>2
  <2>3. CASE q[1] # t
    <3>1. <<q[1], q[2]>> \in A
      BY <2>1, <2>3, <1>1, <1>2, <1>3
    <3>2. q \in A /\ shift[q] = q
      BY <3>1, <2>1, <2>3
    <3>3. QED
      BY <3>2
  <2>4. QED
    BY <2>2, <2>3
<1>7. ASSUME NEW p \in A, NEW q \in A, shift[p] = shift[q]
      PROVE  p = q
  <2>1. /\ p = <<p[1], p[2]>> /\ q = <<q[1], q[2]>>
        /\ p[1] = t => p[2] \in Int
        /\ q[1] = t => q[2] \in Int
    BY <1>2, <1>4
  <2>2. CASE p[1] = t /\ q[1] = t
    <3>1. <<t, p[2] + 1>> = <<t, q[2] + 1>>
      BY <2>2, <1>7
    <3>2. p[2] = q[2]
      BY <3>1, <2>1, <2>2
    <3>3. QED
      BY <3>2, <2>1, <2>2
  <2>3. CASE ~ (p[1] = t /\ q[1] = t)
    <3>1. shift[p][1] = p[1] /\ shift[q][1] = q[1]
      BY <2>1
    <3>2. QED
      BY <3>1, <2>3, <1>7
  <2>4. QED
    BY <2>2, <2>3
<1>8. ExistsBijection(A, C)
  <2>1. shift \in [A -> C]
    BY <1>5
  <2> HIDE DEF shift, C
  <2>2. shift \in Injection(A, C)
    BY <2>1, <1>7 DEF Injection, IsInjective
  <2>3. shift \in Surjection(A, C)
    BY <2>1, <1>6 DEF Surjection
  <2>4. QED
    BY <2>2, <2>3 DEF ExistsBijection, Bijection
<1>9. <<t, 1>> \in B <=> f \in H
  BY <1>3, <1>4
<1>10. IsFiniteSet(A) => IsFiniteSet(C) /\ Cardinality(C) = Cardinality(A)
  BY <1>8, FS_Bijection
<1>11. IsFiniteSet(C) => IsFiniteSet(A)
  BY <1>8, FS_Bijection, Fun_ExistsBijSymmetric
<1>12. IsFiniteSet(B) => IsFiniteSet(C)
  BY FS_RemoveElement
<1>13. IsFiniteSet(C) => /\ IsFiniteSet(C \cup {<<t, 1>>})
                         /\ Cardinality(C \cup {<<t, 1>>}) = Cardinality(C) + 1
                         /\ Cardinality(C) \in Nat
  <2>1. <<t, 1>> \notin C
    OBVIOUS
  <2> HIDE DEF C
  <2>2. QED
    BY <2>1, FS_AddElement, FS_CardinalityType
<1>14. B = IF f \in H THEN C \cup {<<t, 1>>} ELSE C
  BY <1>9
<1> HIDE DEF C
<1>15. (IsFiniteSet(A) <=> IsFiniteSet(B))
       /\ (IsFiniteSet(A) => Cardinality(B) = Cardinality(A) + IF f \in H THEN 1 ELSE 0)
  <2>1. CASE f \in H
    BY <2>1, <1>10, <1>11, <1>12, <1>13, <1>14
  <2>2. CASE f \notin H
    BY <2>2, <1>10, <1>11, <1>12, <1>13, <1>14
  <2>3. QED
    BY <2>1, <2>2
<1>16. QED
  BY <1>15 DEF A, B, old, new

\* The same for a frame that is popped.
LEMMA PopCount ==
    ASSUME stack \in [Threads -> Seq(Frame)], NEW t \in Threads, stack[t] # <<>>,
           NEW H, IsFiniteSet(At(stack, H))
    PROVE  /\ IsFiniteSet(At(With(t, Tail(stack[t])), H))
           /\ Cardinality(At(stack, H))
                = Cardinality(At(With(t, Tail(stack[t])), H))
                  + IF Top(t) \in H THEN 1 ELSE 0
<1> DEFINE s == Tail(stack[t])
           f == Top(t)
<1>1. s \in Seq(Frame) /\ f \in Frame /\ Push(f, s) = stack[t]
  BY DEF Push, Top
<1> HIDE DEF s, f
<1>2. With(t, Push(f, s)) = stack
  BY <1>1 DEF With
<1>3. /\ IsFiniteSet(At(With(t, s), H)) <=> IsFiniteSet(At(With(t, Push(f, s)), H))
      /\ IsFiniteSet(At(With(t, s), H)) =>
           Cardinality(At(With(t, Push(f, s)), H))
             = Cardinality(At(With(t, s), H)) + IF f \in H THEN 1 ELSE 0
  BY <1>1, PushCount
<1>4. QED
  BY <1>2, <1>3 DEF s, f

\* How many frames of H there are, how many there would be if the stack of t were s,
\* and what one frame contributes.
N(H) == Cardinality(At(stack, H))

Cnt(t, s, H) == Cardinality(At(With(t, s), H))

Adds(f, H) == IF f \in H THEN 1 ELSE 0

\* Finitely many calls in progress stay finitely many when one stack is replaced.
LEMMA WithFinite ==
    ASSUME stack \in [Threads -> Seq(Frame)], IsFiniteSet(At(stack, Frame)),
           NEW t \in Threads, NEW s \in Seq(Frame), NEW H \in SUBSET Frame
    PROVE  IsFiniteSet(At(With(t, s), H))
<1> DEFINE A == At(stack, Frame)
           B == At(With(t, s), H)
           T == {t} \X (1 .. Len(s))
<1>1. IsFiniteSet(T)
  <2>1. IsFiniteSet({t})
    BY FS_Singleton
  <2>2. IsFiniteSet(1 .. Len(s))
    BY FS_Interval
  <2>3. QED
    BY <2>1, <2>2, FS_Product
<1>2. B \subseteq A \cup T
  <2> SUFFICES ASSUME NEW p \in B
               PROVE  p \in A \cup T
    OBVIOUS
  <2>1. /\ p = <<p[1], p[2]>> /\ p[1] \in Threads
        /\ p[2] \in DOMAIN With(t, s)[p[1]] /\ With(t, s)[p[1]][p[2]] \in Frame
    BY AtMember
  <2>2. CASE p[1] = t
    <3>1. p[2] \in 1 .. Len(s)
      BY <2>1, <2>2 DEF With
    <3>2. QED
      BY <2>1, <2>2, <3>1
  <2>3. CASE p[1] # t
    <3>1. With(t, s)[p[1]] = stack[p[1]]
      BY <2>1, <2>3 DEF With
    <3>2. <<p[1], p[2]>> \in A
      BY <2>1, <3>1, AtMember
    <3>3. QED
      BY <2>1, <3>2
  <2>4. QED
    BY <2>2, <2>3
<1> HIDE DEF A, B, T
<1>3. IsFiniteSet(A \cup T)
  BY <1>1, FS_Union DEF A
<1>4. IsFiniteSet(B)
  BY <1>2, <1>3, FS_Subset
<1>5. QED
  BY <1>4 DEF B

\* The facts about counts that the proofs below use.
LEMMA CntFacts ==
    ASSUME stack \in [Threads -> Seq(Frame)], IsFiniteSet(At(stack, Frame)),
           NEW t \in Threads, NEW H \in SUBSET Frame
    PROVE  /\ IsFiniteSet(At(stack, H)) /\ N(H) \in Nat
           /\ Cnt(t, stack[t], H) = N(H)
           /\ \A s \in Seq(Frame) : Cnt(t, s, H) \in Nat
           /\ \A s \in Seq(Frame), f \in Frame :
                Cnt(t, Push(f, s), H) = Cnt(t, s, H) + Adds(f, H)
           /\ stack[t] # <<>> =>
                Cnt(t, Tail(stack[t]), H) = N(H) - Adds(Top(t), H)
           /\ \A s : SetStack(t, s) => N(H)' = Cnt(t, s, H)
<1>1. With(t, stack[t]) = stack
  BY DEF With
<1>2. stack[t] \in Seq(Frame)
  OBVIOUS
<1>3. IsFiniteSet(At(stack, H)) /\ N(H) \in Nat
  BY <1>1, <1>2, WithFinite, FS_CardinalityType DEF N
<1>4. ASSUME NEW s \in Seq(Frame)
      PROVE  IsFiniteSet(At(With(t, s), H)) /\ Cnt(t, s, H) \in Nat
  BY WithFinite, FS_CardinalityType DEF Cnt
<1>5. ASSUME NEW s \in Seq(Frame), NEW f \in Frame
      PROVE  Cnt(t, Push(f, s), H) = Cnt(t, s, H) + Adds(f, H)
  BY <1>4, PushCount DEF Cnt, Adds
<1>6. ASSUME stack[t] # <<>>
      PROVE  Cnt(t, Tail(stack[t]), H) = N(H) - Adds(Top(t), H)
  <2>1. Cardinality(At(stack, H)) = Cardinality(At(With(t, Tail(stack[t])), H))
                                      + IF Top(t) \in H THEN 1 ELSE 0
    BY <1>3, <1>6, PopCount
  <2>2. Tail(stack[t]) \in Seq(Frame)
    BY <1>6, <1>2
  <2>3. N(H) = Cnt(t, Tail(stack[t]), H) + Adds(Top(t), H)
    BY <2>1 DEF N, Cnt, Adds
  <2>4. Cnt(t, Tail(stack[t]), H) \in Nat /\ Adds(Top(t), H) \in Nat
    BY <2>2, <1>4 DEF Adds
  <2>5. QED
    BY <2>3, <2>4
<1>7. ASSUME NEW s, SetStack(t, s)
      PROVE  N(H)' = Cnt(t, s, H)
  BY <1>7 DEF SetStack, N, Cnt, With, At
<1>8. Cnt(t, stack[t], H) = N(H)
  BY <1>1 DEF Cnt, N
<1>9. QED
  BY <1>3, <1>4, <1>5, <1>6, <1>7, <1>8

-----------------------------------------------------------------------------
(* Leases *)

\* The threads with a pending destructor of m.
Pending(m) == {u \in Threads : <<u, m>> \in dtors}

\* The balance of the leases of m.
Balance(m) == acq[m] = handles[m] + libs[m] + Cardinality(Pending(m)) + N(Holding(m))

Typed == TypeOK /\ FiniteBooks

\* One lease of m, as seen by x, and whose of n leases they are.
Same(x, m) == IF x = m THEN 1 ELSE 0

OfC(api, n) == IF api = "c" THEN n ELSE 0

OfRust(api, n) == IF api = "c" THEN 0 ELSE n

\* LeaseConservation is the balance of every module.
LEMMA BalanceIs == TypeOK => (LeaseConservation <=> \A m \in Modules : Balance(m))
<1> SUFFICES ASSUME TypeOK, NEW m \in Modules
             PROVE  {p \in Positions : FrameHolds(stack[p[1]][p[2]], m)}
                      = At(stack, Holding(m))
  BY DEF LeaseConservation, Balance, Pending, N
<1>1. \A p \in Positions : stack[p[1]][p[2]] \in Frame
  BY DEF Positions, TypeOK
<1>2. QED
  BY <1>1 DEF At, Holding, Positions

\* What a frame holds, by its kind.
LEMMA HoldsFacts ==
    ASSUME NEW f \in Frame, NEW x \in Modules
    PROVE  /\ f.kind \in {"relocate", "fini"} => Adds(f, Holding(x)) = 0
           /\ f.kind \in {"init", "opened", "temp", "dtor"} =>
                Adds(f, Holding(x)) = Same(x, f.root)
           /\ f.kind \in {"iter", "drop"} =>
                Adds(f, Holding(x)) = Adds(x, f.mods)
BY DEF Adds, Same, Holding, FrameHolds

\* The fields of a new frame.
LEMMA NewFrameFacts ==
    ASSUME NEW k \in Kinds, NEW r \in Modules, NEW ms \in SUBSET Modules,
           NEW fs \in SUBSET Flags, NEW a \in {"c", "rust"}
    PROVE  /\ NewFrame(k, r, ms, fs, a) \in Frame
           /\ NewFrame(k, r, ms, fs, a).kind = k
           /\ NewFrame(k, r, ms, fs, a).root = r
           /\ NewFrame(k, r, ms, fs, a).mods = ms
BY DEF NewFrame, Frame

\* The innermost call and those it returns to.
LEMMA TopFrame ==
    ASSUME Typed, NEW t \in Threads, stack[t] # <<>>
    PROVE  Top(t) \in Frame /\ Tail(stack[t]) \in Seq(Frame)
BY DEF Typed, TypeOK, Top

\* How a step that pushes, pops or replaces the innermost call changes a count.
LEMMA StackMoves ==
    ASSUME Typed, NEW t \in Threads, NEW H \in SUBSET Frame
    PROVE  /\ N(H) \in Nat
           /\ stack' = stack => N(H)' = N(H)
           /\ \A f \in Frame :
                SetStack(t, Push(f, stack[t])) => N(H)' = N(H) + Adds(f, H)
           /\ stack[t] # <<>> /\ SetStack(t, Tail(stack[t])) =>
                N(H)' = N(H) - Adds(Top(t), H)
           /\ \A f \in Frame :
                stack[t] # <<>> /\ SetStack(t, Push(f, Tail(stack[t]))) =>
                  N(H)' = N(H) - Adds(Top(t), H) + Adds(f, H)
<1>1. /\ stack \in [Threads -> Seq(Frame)] /\ IsFiniteSet(At(stack, Frame))
      /\ stack[t] \in Seq(Frame)
  BY DEF Typed, TypeOK, FiniteBooks
<1>2. stack[t] # <<>> => Tail(stack[t]) \in Seq(Frame)
  BY TopFrame
<1>3. /\ N(H) \in Nat
      /\ Cnt(t, stack[t], H) = N(H)
      /\ \A s \in Seq(Frame), f \in Frame :
           Cnt(t, Push(f, s), H) = Cnt(t, s, H) + Adds(f, H)
      /\ stack[t] # <<>> => Cnt(t, Tail(stack[t]), H) = N(H) - Adds(Top(t), H)
      /\ \A s : SetStack(t, s) => N(H)' = Cnt(t, s, H)
  BY <1>1, CntFacts
<1>4. stack' = stack => N(H)' = N(H)
  BY DEF N, At
<1>5. QED
  BY <1>1, <1>2, <1>3, <1>4

\* Only the frames of H count, so an UnloadGroup pushed by release does not ...
LEMMA ReleaseCount ==
    ASSUME Typed, NEW t \in Threads, NEW m \in Modules, NEW s \in Seq(Frame),
           Release(t, m, s), NEW H \in SUBSET Frame, \A f \in H : f.kind # "fini"
    PROVE  N(H)' = Cnt(t, s, H)
<1> DEFINE gone == committed \ Retained([acq EXCEPT ![m] = @ - 1], pinned)
           f == NewFrame("fini", m, gone, {}, "rust")
<1>1. /\ stack \in [Threads -> Seq(Frame)] /\ IsFiniteSet(At(stack, Frame))
      /\ committed \in SUBSET Modules
  BY DEF Typed, TypeOK, FiniteBooks
<1>2. SetStack(t, IF gone = {} THEN s ELSE Push(f, s))
  BY DEF Release
<1>3. f \in Frame /\ f.kind = "fini"
  <2>1. /\ gone \in SUBSET Modules /\ {} \in SUBSET Flags
        /\ "fini" \in Kinds /\ "rust" \in {"c", "rust"}
    BY <1>1 DEF Kinds
  <2> HIDE DEF gone
  <2>2. QED
    BY <2>1, NewFrameFacts
<1> HIDE DEF f, gone
<1>4. Adds(f, H) = 0
  BY <1>3 DEF Adds
<1>5. Cnt(t, Push(f, s), H) = Cnt(t, s, H) + Adds(f, H) /\ Cnt(t, s, H) \in Nat
  BY <1>1, <1>3, CntFacts
<1>6. Cnt(t, IF gone = {} THEN s ELSE Push(f, s), H) = Cnt(t, s, H)
  BY <1>4, <1>5
<1>7. QED
  BY <1>1, <1>2, <1>6, CntFacts

\* ... and a C dlopen on its way to register_handle counts if H has such frames.
LEMMA OpenedCount ==
    ASSUME Typed, NEW t \in Threads, NEW m \in Modules, NEW fs \in SUBSET Flags,
           NEW api \in {"c", "rust"}, NEW s \in Seq(Frame), Opened(t, m, fs, api, s),
           NEW H \in SUBSET Frame
    PROVE  N(H)' = Cnt(t, s, H) + IF api = "c"
                                  THEN Adds(NewFrame("opened", m, {}, fs, api), H) ELSE 0
<1> DEFINE f == NewFrame("opened", m, {}, fs, api)
<1>1. stack \in [Threads -> Seq(Frame)] /\ IsFiniteSet(At(stack, Frame))
  BY DEF Typed, TypeOK, FiniteBooks
<1>2. /\ Cnt(t, s, H) \in Nat
      /\ \A r : SetStack(t, r) => N(H)' = Cnt(t, r, H)
  BY <1>1, CntFacts
<1>3. f \in Frame
  BY NewFrameFacts DEF Kinds
<1>4. Cnt(t, Push(f, s), H) = Cnt(t, s, H) + Adds(f, H)
  BY <1>1, <1>3, CntFacts
<1>5. SetStack(t, IF api = "c" THEN Push(f, s) ELSE s)
  BY DEF Opened
<1>6. QED
  BY <1>2, <1>4, <1>5

\* A lease that goes to the caller, in a frame or in a value.
LEMMA OpenedLease ==
    ASSUME Typed, NEW t \in Threads, NEW m \in Modules, NEW fs \in SUBSET Flags,
           NEW api \in {"c", "rust"}, NEW s \in Seq(Frame), Opened(t, m, fs, api, s),
           NEW x \in Modules
    PROVE  /\ libs'[x] = libs[x] + OfRust(api, Same(x, m))
           /\ N(Holding(x))' = Cnt(t, s, Holding(x)) + OfC(api, Same(x, m))
<1>1. /\ Holding(x) \in SUBSET Frame /\ libs \in [Modules -> Nat]
  BY DEF Holding, Typed, TypeOK
<1>2. Adds(NewFrame("opened", m, {}, fs, api), Holding(x)) = Same(x, m)
  <2> DEFINE f == NewFrame("opened", m, {}, fs, api)
  <2>1. f \in Frame /\ f.kind = "opened" /\ f.root = m
    BY NewFrameFacts DEF Kinds
  <2> HIDE DEF f
  <2>2. Adds(f, Holding(x)) = Same(x, m)
    BY <2>1, HoldsFacts
  <2>3. QED
    BY <2>2 DEF f
<1>3. N(Holding(x))' = Cnt(t, s, Holding(x)) + OfC(api, Same(x, m))
  <2> DEFINE H == Holding(x)
             f == NewFrame("opened", m, {}, fs, api)
  <2> HIDE DEF H
  <2>1. N(H)' = Cnt(t, s, H) + IF api = "c" THEN Adds(f, H) ELSE 0
    BY <1>1, OpenedCount, ZenonT(60) DEF H
  <2>2. Adds(f, H) = Same(x, m)
    BY <1>2 DEF H
  <2> HIDE DEF f
  <2>3. N(H)' = Cnt(t, s, H) + OfC(api, Same(x, m))
    BY <2>1, <2>2 DEF OfC
  <2>4. QED
    BY <2>3 DEF H
<1>4. libs'[x] = libs[x] + OfRust(api, Same(x, m))
  BY <1>1 DEF Opened, Same, OfRust
<1>5. QED
  BY <1>3, <1>4

\* A lease given back; finalizers hold none.
LEMMA ReleaseLease ==
    ASSUME Typed, NEW t \in Threads, NEW m \in Modules, NEW s \in Seq(Frame),
           Release(t, m, s), NEW x \in Modules
    PROVE  /\ acq'[x] = acq[x] - Same(x, m)
           /\ N(Holding(x))' = Cnt(t, s, Holding(x))
<1>1. Holding(x) \in SUBSET Frame /\ \A f \in Holding(x) : f.kind # "fini"
  BY DEF Holding, FrameHolds
<1>2. acq' = [acq EXCEPT ![m] = @ - 1] /\ acq \in [Modules -> Nat]
  BY DEF Release, Typed, TypeOK
<1>3. QED
  BY <1>1, <1>2, ReleaseCount DEF Same

\* The numbers in the balance are natural ones.
LEMMA BalanceTypes ==
    ASSUME Typed, NEW x \in Modules
    PROVE  /\ acq[x] \in Nat /\ handles[x] \in Nat /\ libs[x] \in Nat
           /\ IsFiniteSet(Pending(x)) /\ Cardinality(Pending(x)) \in Nat
           /\ Holding(x) \in SUBSET Frame /\ N(Holding(x)) \in Nat
<1>1. Holding(x) \in SUBSET Frame
  BY DEF Holding
<1>2. N(Holding(x)) \in Nat
  <2>1. CASE Threads = {}
    <3>1. At(stack, Holding(x)) = {}
      BY <2>1 DEF At
    <3>2. QED
      BY <3>1, FS_EmptySet DEF N
  <2>2. CASE Threads # {}
    BY <2>2, <1>1, StackMoves
  <2>3. QED
    BY <2>1, <2>2
<1>3. IsFiniteSet(Pending(x))
  <2> DEFINE D == {d \in dtors : d[2] = x}
             thread == [d \in D |-> d[1]]
  <2>1. IsFiniteSet(D)
    BY FS_Subset DEF Typed, FiniteBooks
  <2>2. thread \in Surjection(D, Pending(x))
    <3>1. thread \in [D -> Pending(x)]
      <4>1. \A d \in D : d[1] \in Threads /\ d = <<d[1], x>> /\ d \in dtors
        BY DEF Typed, TypeOK
      <4>2. \A d \in D : d[1] \in Pending(x)
        BY <4>1 DEF Pending
      <4> HIDE DEF D
      <4>3. QED
        BY <4>2
    <3>2. \A u \in Pending(x) : \E d \in D : thread[d] = u
      <4> SUFFICES ASSUME NEW u \in Pending(x)
                   PROVE  \E d \in D : thread[d] = u
        OBVIOUS
      <4>1. <<u, x>> \in D
        BY DEF Pending
      <4>2. thread[<<u, x>>] = u
        BY <4>1
      <4>3. QED
        BY <4>1, <4>2
    <3> HIDE DEF thread, D
    <3>3. QED
      BY <3>1, <3>2 DEF Surjection
  <2> HIDE DEF thread, D
  <2>3. QED
    BY <2>1, <2>2, FS_Surjection
<1>4. QED
  BY <1>1, <1>2, <1>3, FS_CardinalityType DEF Typed, TypeOK

\* A lease taken of the modules of S.
LEMMA AcquireLease ==
    ASSUME Typed, NEW S, Acquire(S), NEW x \in Modules
    PROVE  acq'[x] = acq[x] + Adds(x, S)
BY DEF Adds, Acquire, Typed, TypeOK

\* Pending destructors are as before.
LEMMA PendingSame ==
    ASSUME dtors' = dtors, NEW x \in Modules
    PROVE  Pending(x)' = Pending(x)
BY DEF Pending

\* dlopen of a loaded module.
LEMMA OpenLoadedLease ==
    ASSUME Typed, NEW t \in Threads, NEW m \in Modules, NEW fs \in SUBSET Flags,
           NEW api \in {"c", "rust"}, Acquire({m}), Opened(t, m, fs, api, stack[t]),
           UNCHANGED <<handles, dtors>>, NEW x \in Modules, Balance(x)
    PROVE  Balance(x)'
<1> DEFINE one == Same(x, m)
<1>1. acq'[x] = acq[x] + one
  BY AcquireLease DEF Adds, Same
<1>2. stack[t] \in Seq(Frame)
  BY DEF Typed, TypeOK
<1>3. /\ libs'[x] = libs[x] + OfRust(api, Same(x, m))
      /\ N(Holding(x))' = Cnt(t, stack[t], Holding(x)) + OfC(api, Same(x, m))
  BY <1>2, OpenedLease
<1>4. Cnt(t, stack[t], Holding(x)) = N(Holding(x))
  BY CntFacts DEF Typed, TypeOK, FiniteBooks, Holding
<1>5. Pending(x)' = Pending(x)
  BY PendingSame
<1>6. /\ acq[x] \in Nat /\ handles[x] \in Nat /\ libs[x] \in Nat /\ one \in Nat
      /\ Cardinality(Pending(x)) \in Nat /\ N(Holding(x)) \in Nat
  BY BalanceTypes DEF Same
<1> HIDE DEF one
<1>7. Balance(x)' <=> acq'[x] = handles[x] + libs'[x] + Cardinality(Pending(x))
                                  + N(Holding(x))'
  BY <1>5 DEF Balance
<1>8. QED
  BY <1>1, <1>3, <1>4, <1>6, <1>7 DEF Balance, OfC, OfRust, one

\* A step that gives one lease of m back, wherever it was kept.
LEMMA GiveBackLease ==
    ASSUME Typed, NEW t \in Threads, NEW m \in Modules, NEW s \in Seq(Frame),
           Release(t, m, s), dtors' = dtors, NEW x \in Modules, Balance(x),
           handles'[x] \in Int, libs'[x] \in Int,
           handles'[x] + libs'[x] + Cnt(t, s, Holding(x))
             = handles[x] + libs[x] + N(Holding(x)) - Same(x, m)
    PROVE  Balance(x)'
<1>1. acq'[x] = acq[x] - Same(x, m) /\ N(Holding(x))' = Cnt(t, s, Holding(x))
  BY ReleaseLease
<1>2. Pending(x)' = Pending(x)
  BY PendingSame
<1>3. /\ acq[x] \in Nat /\ handles[x] \in Nat /\ libs[x] \in Nat /\ Same(x, m) \in Nat
      /\ Cardinality(Pending(x)) \in Nat /\ N(Holding(x)) \in Nat
  BY BalanceTypes DEF Same
<1>4. Cnt(t, s, Holding(x)) \in Nat
  BY CntFacts DEF Typed, TypeOK, FiniteBooks, Holding
<1>5. Balance(x)' <=> acq'[x] = handles'[x] + libs'[x] + Cardinality(Pending(x))
                                  + N(Holding(x))'
  BY <1>2 DEF Balance
<1>6. acq[x] = handles[x] + libs[x] + Cardinality(Pending(x)) + N(Holding(x))
  BY DEF Balance
<1> DEFINE a == acq[x]
           b == acq'[x]
           h == handles[x] + libs[x]
           k == handles'[x] + libs'[x]
           p == Cardinality(Pending(x))
           n == N(Holding(x))
           c == Cnt(t, s, Holding(x))
           d == Same(x, m)
<1>7. /\ a \in Int /\ h \in Int /\ k \in Int /\ p \in Int /\ n \in Int /\ c \in Int
      /\ d \in Int /\ b = a - d /\ a = h + p + n /\ k + c = h + n - d
  <2>1. b = a - d /\ a = h + p + n
    BY <1>1, <1>6
  <2>2. k + c = h + n - d
    OBVIOUS
  <2>3. h \in Int /\ k \in Int
    BY <1>3, SMTT(60)
  <2>4. QED
    BY <2>1, <2>2, <2>3, <1>3, <1>4
<1>8. Balance(x)' <=> b = k + p + c
  BY <1>1, <1>5
<1> HIDE DEF a, b, h, k, p, n, c, d
<1>9. QED
  BY <1>7, <1>8

\* dlclose and the drop of a library handle.
LEMMA CloseLease ==
    ASSUME Typed, NEW t \in Threads, NEW m \in Modules,
           CloseHandle(t, m) \/ DropLibrary(t, m), NEW x \in Modules, Balance(x)
    PROVE  Balance(x)'
<1>1. /\ handles \in [Modules -> Nat] /\ libs \in [Modules -> Nat]
      /\ stack[t] \in Seq(Frame)
  BY DEF Typed, TypeOK
<1>2. Release(t, m, stack[t]) /\ dtors' = dtors
  BY DEF CloseHandle, DropLibrary
<1>3. Cnt(t, stack[t], Holding(x)) = N(Holding(x)) /\ N(Holding(x)) \in Nat
  BY CntFacts DEF Typed, TypeOK, FiniteBooks, Holding
<1>4. /\ handles'[x] \in Int /\ libs'[x] \in Int
      /\ handles'[x] + libs'[x] = handles[x] + libs[x] - Same(x, m)
  <2>1. CASE CloseHandle(t, m)
    BY <1>1, <2>1 DEF CloseHandle, Same
  <2>2. CASE DropLibrary(t, m)
    BY <1>1, <2>2 DEF DropLibrary, Same
  <2>3. QED
    BY <2>1, <2>2
<1>5. handles[x] \in Nat /\ libs[x] \in Nat /\ Same(x, m) \in Nat
  BY <1>1 DEF Same
<1>6. handles'[x] + libs'[x] + Cnt(t, stack[t], Holding(x))
        = handles[x] + libs[x] + N(Holding(x)) - Same(x, m)
  BY <1>3, <1>4, <1>5
<1>7. QED
  BY <1>1, <1>2, <1>4, <1>6, GiveBackLease

\* What the innermost call leaves when it ends.
LEMMA PopFacts ==
    ASSUME Typed, NEW t \in Threads, stack[t] # <<>>, NEW x \in Modules
    PROVE  /\ Top(t) \in Frame /\ Tail(stack[t]) \in Seq(Frame) /\ Top(t).root \in Modules
           /\ Top(t).mods \in SUBSET Modules
           /\ N(Holding(x)) \in Nat
           /\ Cnt(t, Tail(stack[t]), Holding(x)) = N(Holding(x)) - Adds(Top(t), Holding(x))
           /\ Cnt(t, Tail(stack[t]), Holding(x)) \in Nat
<1>1. Top(t) \in Frame /\ Tail(stack[t]) \in Seq(Frame)
  BY TopFrame
<1>2. Holding(x) \in SUBSET Frame
  BY DEF Holding
<1>3. Top(t).root \in Modules /\ Top(t).mods \in SUBSET Modules
  BY <1>1 DEF Frame
<1>4. QED
  BY <1>1, <1>2, <1>3, CntFacts DEF Typed, TypeOK, FiniteBooks

\* The lease of a call that ends.
LEMMA EndLease ==
    ASSUME Typed, NEW t \in Threads, DropTemporary(t) \/ EndDestructor(t),
           NEW x \in Modules, Balance(x)
    PROVE  Balance(x)'
<1> DEFINE s == Tail(stack[t])
           r == Top(t).root
<1>1. /\ stack[t] # <<>> /\ Top(t).kind \in {"temp", "dtor"}
      /\ Release(t, r, s) /\ dtors' = dtors /\ handles' = handles /\ libs' = libs
  BY DEF DropTemporary, EndDestructor, In
<1>2. /\ Top(t) \in Frame /\ s \in Seq(Frame) /\ r \in Modules
      /\ N(Holding(x)) \in Nat
      /\ Cnt(t, s, Holding(x)) = N(Holding(x)) - Adds(Top(t), Holding(x))
  BY <1>1, PopFacts
<1>3. Adds(Top(t), Holding(x)) = Same(x, r)
  BY <1>1, <1>2, HoldsFacts
<1> HIDE DEF s, r
<1>4. handles[x] \in Nat /\ libs[x] \in Nat /\ Same(x, r) \in Nat
  BY BalanceTypes DEF Same
<1>5. handles'[x] + libs'[x] + Cnt(t, s, Holding(x))
        = handles[x] + libs[x] + N(Holding(x)) - Same(x, r)
  BY <1>1, <1>2, <1>3, <1>4
<1>6. handles'[x] \in Int /\ libs'[x] \in Int
  BY <1>1, <1>4
<1>7. QED
  BY <1>1, <1>2, <1>5, <1>6, GiveBackLease

\* The leases of dl_iterate_phdr go one by one.
LEMMA SnapshotLease ==
    ASSUME Typed, NEW t \in Threads, DropSnapshot(t), NEW x \in Modules, Balance(x)
    PROVE  Balance(x)'
<1>1. PICK m \in Top(t).mods :
        Release(t, m, Push([Top(t) EXCEPT !.mods = @ \ {m}], Tail(stack[t])))
  BY DEF DropSnapshot
<1> DEFINE g == [Top(t) EXCEPT !.mods = @ \ {m}]
           s == Push(g, Tail(stack[t]))
<1>2. /\ stack[t] # <<>> /\ Top(t).kind = "drop"
      /\ dtors' = dtors /\ handles' = handles /\ libs' = libs
  BY DEF DropSnapshot, In
<1>3. /\ Top(t) \in Frame /\ Tail(stack[t]) \in Seq(Frame) /\ m \in Modules
      /\ N(Holding(x)) \in Nat
      /\ Cnt(t, Tail(stack[t]), Holding(x)) = N(Holding(x)) - Adds(Top(t), Holding(x))
      /\ Cnt(t, Tail(stack[t]), Holding(x)) \in Nat
  BY <1>1, <1>2, PopFacts
<1>4. g \in Frame /\ g.kind = "drop" /\ g.mods = Top(t).mods \ {m}
  BY <1>2, <1>3 DEF Frame
<1>5. Release(t, m, s)
  BY <1>1
<1> HIDE DEF g
<1>6. /\ Adds(Top(t), Holding(x)) = Adds(x, Top(t).mods)
      /\ Adds(g, Holding(x)) = Adds(x, Top(t).mods \ {m})
  BY <1>2, <1>3, <1>4, HoldsFacts
<1>7. Adds(x, Top(t).mods) = Adds(x, Top(t).mods \ {m}) + Same(x, m)
  BY <1>1 DEF Adds, Same
<1>8. s \in Seq(Frame)
  BY <1>3, <1>4, PushIndices
<1>9. Cnt(t, s, Holding(x)) = Cnt(t, Tail(stack[t]), Holding(x)) + Adds(g, Holding(x))
  BY <1>3, <1>4, CntFacts DEF Typed, TypeOK, FiniteBooks, Holding
<1> HIDE DEF s
<1>10. /\ handles[x] \in Nat /\ libs[x] \in Nat /\ Same(x, m) \in Nat
       /\ Adds(g, Holding(x)) \in Nat
  BY BalanceTypes DEF Same, Adds
<1>11. handles'[x] + libs'[x] + Cnt(t, s, Holding(x))
        = handles[x] + libs[x] + N(Holding(x)) - Same(x, m)
  BY <1>2, <1>3, <1>6, <1>7, <1>9, <1>10
<1>12. handles'[x] \in Int /\ libs'[x] \in Int
  BY <1>2, <1>10
<1>13. QED
  BY <1>2, <1>3, <1>5, <1>8, <1>11, <1>12, GiveBackLease

\* A step that leaves the pending destructors alone moves leases, and makes or ends
\* them only together with their count.
LEMMA MovedLease ==
    ASSUME Typed, NEW x \in Modules, Balance(x), dtors' = dtors,
           acq'[x] \in Int, handles'[x] \in Int, libs'[x] \in Int, N(Holding(x))' \in Int,
           acq'[x] - acq[x] = (handles'[x] - handles[x]) + (libs'[x] - libs[x])
                                + (N(Holding(x))' - N(Holding(x)))
    PROVE  Balance(x)'
<1>1. Pending(x)' = Pending(x)
  BY PendingSame
<1>2. /\ acq[x] \in Nat /\ handles[x] \in Nat /\ libs[x] \in Nat
      /\ Cardinality(Pending(x)) \in Nat /\ N(Holding(x)) \in Nat
  BY BalanceTypes
<1>3. acq[x] = handles[x] + libs[x] + Cardinality(Pending(x)) + N(Holding(x))
  BY DEF Balance
<1>4. Balance(x)' <=> acq'[x] = handles'[x] + libs'[x] + Cardinality(Pending(x))
                                  + N(Holding(x))'
  BY <1>1 DEF Balance
<1> DEFINE a == acq[x]
           b == acq'[x]
           h == handles[x]
           i == handles'[x]
           l == libs[x]
           k == libs'[x]
           p == Cardinality(Pending(x))
           n == N(Holding(x))
           c == N(Holding(x))'
<1>5. /\ a \in Int /\ b \in Int /\ h \in Int /\ i \in Int /\ l \in Int /\ k \in Int
      /\ p \in Int /\ n \in Int /\ c \in Int
      /\ b - a = (i - h) + (k - l) + (c - n) /\ a = h + l + p + n
      /\ Balance(x)' <=> b = i + k + p + c
  BY <1>2, <1>3, <1>4
<1> HIDE DEF a, b, h, i, l, k, p, n, c
<1>6. QED
  BY <1>5

\* The loading of a library: what is relocated holds no lease, what is initialized
\* one of its root.
LEMMA LoadLease ==
    ASSUME Typed, NEW t \in Threads, NEW x \in Modules, Balance(x),
           Publish(t) \/ FailLoad(t) \/ RollbackLoad(t) \/ FinishLoad(t)
    PROVE  Balance(x)'
<1> DEFINE H == Holding(x)
           r == Top(t).root
           s == Tail(stack[t])
<1>1. stack[t] # <<>>
  BY DEF Publish, FailLoad, RollbackLoad, FinishLoad, In
<1>2. /\ Top(t) \in Frame /\ s \in Seq(Frame) /\ r \in Modules
      /\ N(H) \in Nat /\ Cnt(t, s, H) \in Nat
      /\ Cnt(t, s, H) = N(H) - Adds(Top(t), H)
  BY <1>1, PopFacts
<1>3. /\ H \in SUBSET Frame /\ stack \in [Threads -> Seq(Frame)]
      /\ IsFiniteSet(At(stack, Frame))
  BY DEF Typed, TypeOK, FiniteBooks, Holding
<1>4. /\ acq[x] \in Nat /\ handles[x] \in Nat /\ libs[x] \in Nat /\ Same(x, r) \in Nat
  BY BalanceTypes DEF Same
<1>5. /\ Top(t).kind = "relocate" => Adds(Top(t), H) = 0
      /\ Top(t).kind = "init" => Adds(Top(t), H) = Same(x, r)
  BY <1>2, HoldsFacts
<1>6. \A q : SetStack(t, q) => N(H)' = Cnt(t, q, H)
  BY <1>3, CntFacts
<1>7. /\ acq \in [Modules -> Nat] /\ Top(t).flags \in SUBSET Flags
      /\ Top(t).api \in {"c", "rust"}
  BY <1>2 DEF Typed, TypeOK, Frame
<1>8. CASE Publish(t)
  <2> DEFINE g == [Top(t) EXCEPT !.kind = "init"]
  <2>1. /\ Top(t).kind = "relocate" /\ Acquire({r}) /\ SetStack(t, Push(g, s))
        /\ dtors' = dtors /\ handles' = handles /\ libs' = libs
    BY <1>8 DEF Publish, In
  <2>2. g \in Frame /\ g.kind = "init" /\ g.root = r
    BY <1>2 DEF Frame, Kinds
  <2> HIDE DEF g
  <2>3. Adds(g, H) = Same(x, r)
    BY <2>2, HoldsFacts
  <2>4. N(H)' = Cnt(t, s, H) + Same(x, r)
    BY <2>1, <2>2, <2>3, <1>2, <1>3, <1>6, CntFacts
  <2>5. acq'[x] = acq[x] + Same(x, r)
    BY <2>1, AcquireLease DEF Adds, Same
  <2> HIDE DEF H, r, s
  <2>6. /\ acq'[x] \in Int /\ handles'[x] \in Int /\ libs'[x] \in Int /\ N(H)' \in Int
        /\ acq'[x] - acq[x] = (handles'[x] - handles[x]) + (libs'[x] - libs[x])
                                + (N(H)' - N(H))
    BY <2>1, <2>4, <2>5, <1>2, <1>4, <1>5
  <2>7. QED
    BY <2>1, <2>6, MovedLease DEF H
<1>9. CASE FailLoad(t)
  <2>1. /\ Top(t).kind = "relocate" /\ SetStack(t, s)
        /\ dtors' = dtors /\ handles' = handles /\ libs' = libs /\ acq' = acq
    BY <1>9 DEF FailLoad, In, ctxVars
  <2>2. N(H)' = N(H)
    BY <2>1, <1>2, <1>5, <1>6
  <2> HIDE DEF H, r, s
  <2>3. /\ acq'[x] \in Int /\ handles'[x] \in Int /\ libs'[x] \in Int /\ N(H)' \in Int
        /\ acq'[x] - acq[x] = (handles'[x] - handles[x]) + (libs'[x] - libs[x])
                                + (N(H)' - N(H))
    BY <2>1, <2>2, <1>2, <1>4
  <2>4. QED
    BY <2>1, <2>3, MovedLease DEF H
<1>10. CASE RollbackLoad(t)
  <2>1. /\ Top(t).kind = "init" /\ SetStack(t, s) /\ acq' = [acq EXCEPT ![r] = @ - 1]
        /\ dtors' = dtors /\ handles' = handles /\ libs' = libs
    BY <1>10 DEF RollbackLoad, In
  <2>2. N(H)' = N(H) - Same(x, r)
    BY <2>1, <1>2, <1>5, <1>6
  <2>3. acq'[x] = acq[x] - Same(x, r)
    BY <2>1, <1>2, <1>7 DEF Same
  <2> HIDE DEF H, r, s
  <2>4. /\ acq'[x] \in Int /\ handles'[x] \in Int /\ libs'[x] \in Int /\ N(H)' \in Int
        /\ acq'[x] - acq[x] = (handles'[x] - handles[x]) + (libs'[x] - libs[x])
                                + (N(H)' - N(H))
    <3>1. handles'[x] = handles[x] /\ libs'[x] = libs[x]
      BY <2>1
    <3>2. acq'[x] - acq[x] = 0 - Same(x, r) /\ N(H)' - N(H) = 0 - Same(x, r)
      BY <2>2, <2>3, <1>2, <1>4
    <3>3. QED
      BY <2>2, <2>3, <3>1, <3>2, <1>2, <1>4, SMTT(60)
  <2>5. QED
    BY <2>1, <2>4, MovedLease DEF H
<1>11. CASE FinishLoad(t)
  <2> DEFINE api == Top(t).api
  <2>1. /\ Top(t).kind = "init" /\ Opened(t, r, Top(t).flags, api, s)
        /\ dtors' = dtors /\ handles' = handles /\ acq' = acq
    BY <1>11 DEF FinishLoad, In
  <2>2. /\ libs'[x] = libs[x] + OfRust(api, Same(x, r))
        /\ N(H)' = Cnt(t, s, H) + OfC(api, Same(x, r))
    <3> DEFINE fs == Top(t).flags
    <3>1. /\ fs \in SUBSET Flags /\ api \in {"c", "rust"} /\ r \in Modules
          /\ s \in Seq(Frame) /\ Opened(t, r, fs, api, s)
      BY <2>1, <1>2, <1>7
    <3> HIDE DEF fs, api, r, s
    <3>2. QED
      BY <3>1, OpenedLease
  <2> HIDE DEF H, r, s, api
  <2>3. /\ OfRust(api, Same(x, r)) \in Nat /\ OfC(api, Same(x, r)) \in Nat
        /\ OfRust(api, Same(x, r)) + OfC(api, Same(x, r)) = Same(x, r)
    BY <1>4 DEF OfRust, OfC
  <2>4. Cnt(t, s, H) = N(H) - Same(x, r)
    BY <2>1, <1>2, <1>5
  <2>5. /\ acq'[x] \in Int /\ handles'[x] \in Int /\ libs'[x] \in Int /\ N(H)' \in Int
        /\ acq'[x] - acq[x] = (handles'[x] - handles[x]) + (libs'[x] - libs[x])
                                + (N(H)' - N(H))
    <3> DEFINE c == OfC(api, Same(x, r))
               d == OfRust(api, Same(x, r))
               e == Same(x, r)
    <3>1. /\ c \in Int /\ d \in Int /\ e \in Int /\ d + c = e
          /\ libs'[x] = libs[x] + d /\ N(H)' = N(H) - e + c
      BY <2>2, <2>3, <2>4, <1>2, <1>4
    <3> HIDE DEF c, d, e
    <3>2. libs'[x] - libs[x] = d /\ N(H)' - N(H) = c - e
      BY <3>1, <1>2, <1>4, SMTT(60)
    <3>3. acq'[x] - acq[x] = 0 /\ handles'[x] - handles[x] = 0
      BY <2>1, <1>4
    <3>4. acq'[x] \in Int /\ handles'[x] \in Int /\ libs'[x] \in Int /\ N(H)' \in Int
      BY <2>1, <3>1, <1>2, <1>4, SMTT(60)
    <3>5. 0 = 0 + d + (c - e)
      BY <3>1
    <3>6. QED
      BY <3>2, <3>3, <3>4, <3>5
  <2>6. QED
    BY <2>1, <2>5, MovedLease DEF H
<1>12. QED
  BY <1>8, <1>9, <1>10, <1>11

\* The calls that take leases for themselves, and the ones that end without any.
LEMMA CallLease ==
    ASSUME Typed, NEW t \in Threads, NEW x \in Modules, Balance(x),
           NEW m \in Modules, NEW fs \in SUBSET Flags, NEW api \in {"c", "rust"},
           Main \in Modules,
           \/ BeginLoad(t, m, fs, api) \/ TakeTemporary(t, m) \/ Iterate(t)
    PROVE  Balance(x)'
<1> DEFINE H == Holding(x)
<1>1. /\ H \in SUBSET Frame /\ committed \in SUBSET Modules
  BY DEF Typed, TypeOK, Holding
<1>2. /\ N(H) \in Nat
      /\ \A f \in Frame : SetStack(t, Push(f, stack[t])) => N(H)' = N(H) + Adds(f, H)
  BY <1>1, StackMoves
<1>3. /\ acq[x] \in Nat /\ handles[x] \in Nat /\ libs[x] \in Nat
  BY BalanceTypes
<1>4. dtors' = dtors /\ handles' = handles /\ libs' = libs
  BY DEF BeginLoad, TakeTemporary, Iterate
<1>5. ASSUME NEW f \in Frame, SetStack(t, Push(f, stack[t])),
             acq'[x] = acq[x] + Adds(f, H)
      PROVE  Balance(x)'
  <2>1. N(H)' = N(H) + Adds(f, H)
    BY <1>2, <1>5
  <2>2. Adds(f, H) \in Nat
    BY DEF Adds
  <2> HIDE DEF H
  <2>3. acq'[x] - acq[x] = Adds(f, H) /\ N(H)' - N(H) = Adds(f, H)
    BY <1>2, <1>3, <1>5, <2>1, <2>2
  <2>4. handles'[x] - handles[x] = 0 /\ libs'[x] - libs[x] = 0
    BY <1>3, <1>4
  <2>5. acq'[x] \in Int /\ handles'[x] \in Int /\ libs'[x] \in Int /\ N(H)' \in Int
    BY <1>2, <1>3, <1>4, <1>5, <2>1, <2>2
  <2>6. acq'[x] - acq[x] = (handles'[x] - handles[x]) + (libs'[x] - libs[x])
                             + (N(H)' - N(H))
    BY <2>2, <2>3, <2>4
  <2>7. QED
    BY <1>4, <2>5, <2>6, MovedLease DEF H
<1>6. CASE BeginLoad(t, m, fs, api)
  <2> DEFINE new == Group({m}) \ committed
             f == NewFrame("relocate", m, new, fs, api)
  <2>1. SetStack(t, Push(f, stack[t])) /\ acq' = acq
    BY <1>6 DEF BeginLoad, ctxVars
  <2>2. f \in Frame /\ f.kind = "relocate"
    <3>1. new \in SUBSET Modules
      BY GroupContains
    <3> HIDE DEF new
    <3>2. QED
      BY <3>1, NewFrameFacts DEF Kinds
  <2> HIDE DEF f
  <2>3. Adds(f, H) = 0
    BY <2>2, HoldsFacts
  <2> HIDE DEF H
  <2>4. acq'[x] = acq[x] + Adds(f, H)
    BY <2>1, <2>3, <1>3
  <2>5. QED
    BY <1>5, <2>1, <2>2, <2>4
<1>7. CASE TakeTemporary(t, m)
  <2> DEFINE f == NewFrame("temp", m, {}, {}, "c")
  <2>1. SetStack(t, Push(f, stack[t])) /\ Acquire({m})
    BY <1>7 DEF TakeTemporary
  <2>2. f \in Frame /\ f.kind = "temp" /\ f.root = m
    BY NewFrameFacts DEF Kinds
  <2> HIDE DEF f
  <2>3. Adds(f, H) = Same(x, m)
    BY <2>2, HoldsFacts
  <2>4. acq'[x] = acq[x] + Same(x, m)
    BY <2>1, AcquireLease DEF Adds, Same
  <2> HIDE DEF H
  <2>5. QED
    BY <1>5, <2>1, <2>2, <2>3, <2>4
<1>8. CASE Iterate(t)
  <2> DEFINE f == NewFrame("iter", Main, committed, {}, "c")
  <2>1. SetStack(t, Push(f, stack[t])) /\ Acquire(committed)
    BY <1>8 DEF Iterate
  <2>2. f \in Frame /\ f.kind = "iter" /\ f.mods = committed
    BY <1>1, NewFrameFacts DEF Kinds
  <2> HIDE DEF f
  <2>3. Adds(f, H) = Adds(x, committed)
    BY <2>2, HoldsFacts
  <2>4. acq'[x] = acq[x] + Adds(x, committed)
    BY <2>1, AcquireLease
  <2> HIDE DEF H
  <2>5. QED
    BY <1>5, <2>1, <2>2, <2>3, <2>4
<1>9. QED
  BY <1>6, <1>7, <1>8

\* A handle takes the lease of the call that registers it; callbacks end with the
\* snapshot still held; the snapshot is empty before the call returns.
LEMMA HandOnLease ==
    ASSUME Typed, NEW t \in Threads, NEW x \in Modules, Balance(x),
           \/ RegisterHandle(t) \/ EndCallbacks(t) \/ EndIterate(t) \/ EndFinalizers(t)
    PROVE  Balance(x)'
<1> DEFINE H == Holding(x)
           r == Top(t).root
           s == Tail(stack[t])
<1>1. stack[t] # <<>>
  BY DEF RegisterHandle, EndCallbacks, EndIterate, EndFinalizers, In
<1>2. /\ Top(t) \in Frame /\ s \in Seq(Frame) /\ r \in Modules /\ H \in SUBSET Frame
  BY <1>1, PopFacts DEF Holding
<1>3. /\ N(H) \in Nat
      /\ SetStack(t, s) => N(H)' = N(H) - Adds(Top(t), H)
      /\ \A f \in Frame : SetStack(t, Push(f, s)) =>
           N(H)' = N(H) - Adds(Top(t), H) + Adds(f, H)
  BY <1>1, <1>2, StackMoves
<1>4. /\ acq[x] \in Nat /\ handles[x] \in Nat /\ libs[x] \in Nat
      /\ handles \in [Modules -> Nat]
  BY BalanceTypes DEF Typed, TypeOK
<1>5. dtors' = dtors /\ acq' = acq /\ libs' = libs
  BY DEF RegisterHandle, EndCallbacks, EndIterate, EndFinalizers, ctxVars
<1>6. ASSUME NEW d \in Nat, handles'[x] = handles[x] + d, N(H)' = N(H) - d
      PROVE  Balance(x)'
  <2> HIDE DEF H
  <2>1. handles'[x] - handles[x] = d /\ N(H)' - N(H) = 0 - d
    BY <1>3, <1>4, <1>6
  <2>2. acq'[x] - acq[x] = 0 /\ libs'[x] - libs[x] = 0
    BY <1>4, <1>5
  <2>3. acq'[x] \in Int /\ handles'[x] \in Int /\ libs'[x] \in Int /\ N(H)' \in Int
    BY <1>3, <1>4, <1>5, <1>6
  <2>4. acq'[x] - acq[x] = (handles'[x] - handles[x]) + (libs'[x] - libs[x])
                             + (N(H)' - N(H))
    BY <2>1, <2>2
  <2>5. QED
    BY <1>5, <2>3, <2>4, MovedLease DEF H
<1>7. CASE RegisterHandle(t)
  <2>1. /\ Top(t).kind = "opened" /\ SetStack(t, s)
        /\ handles' = [handles EXCEPT ![r] = @ + 1]
    BY <1>7 DEF RegisterHandle, In
  <2>2. Adds(Top(t), H) = Same(x, r)
    BY <2>1, <1>2, HoldsFacts
  <2>3. handles'[x] = handles[x] + Same(x, r) /\ Same(x, r) \in Nat
    BY <2>1, <1>2, <1>4 DEF Same
  <2> HIDE DEF H, r, s
  <2>4. N(H)' = N(H) - Same(x, r)
    BY <2>1, <2>2, <1>3
  <2>5. QED
    BY <2>3, <2>4, <1>6
<1>8. ASSUME handles' = handles, N(H)' = N(H)
      PROVE  Balance(x)'
  <2> HIDE DEF H
  <2>1. handles'[x] = handles[x] + 0 /\ N(H)' = N(H) - 0
    BY <1>3, <1>4, <1>8
  <2>2. QED
    BY <2>1, <1>6
<1>9. CASE EndCallbacks(t)
  <2> DEFINE g == [Top(t) EXCEPT !.kind = "drop"]
  <2>1. Top(t).kind = "iter" /\ SetStack(t, Push(g, s)) /\ handles' = handles
    BY <1>9 DEF EndCallbacks, In
  <2>2. g \in Frame /\ g.kind = "drop" /\ g.mods = Top(t).mods
    BY <1>2 DEF Frame, Kinds
  <2> HIDE DEF g
  <2>3. /\ Adds(Top(t), H) = Adds(x, Top(t).mods)
        /\ Adds(g, H) = Adds(x, Top(t).mods)
        /\ Adds(x, Top(t).mods) \in Nat
    BY <2>1, <2>2, <1>2, HoldsFacts DEF Adds
  <2> HIDE DEF H, s
  <2>4. N(H)' = N(H)
    BY <2>1, <2>2, <2>3, <1>3
  <2>5. QED
    BY <2>1, <2>4, <1>8
<1>10. CASE EndIterate(t)
  <2>1. Top(t).kind = "drop" /\ Top(t).mods = {} /\ SetStack(t, s) /\ handles' = handles
    BY <1>10 DEF EndIterate, In
  <2>2. Adds(Top(t), H) = Adds(x, Top(t).mods)
    BY <2>1, <1>2, HoldsFacts
  <2>3. Adds(Top(t), H) = 0
    BY <2>1, <2>2 DEF Adds
  <2> HIDE DEF H, s
  <2>4. N(H)' = N(H)
    BY <2>1, <2>3, <1>3
  <2>5. QED
    BY <2>1, <2>4, <1>8
<1>11. CASE EndFinalizers(t)
  <2>1. Top(t).kind = "fini" /\ SetStack(t, s) /\ handles' = handles
    BY <1>11 DEF EndFinalizers, In
  <2>2. Adds(Top(t), H) = 0
    BY <2>1, <1>2, HoldsFacts
  <2> HIDE DEF H, s
  <2>3. N(H)' = N(H)
    BY <2>1, <2>2, <1>3
  <2>4. QED
    BY <2>1, <2>3, <1>8
<1>12. QED
  BY <1>7, <1>9, <1>10, <1>11

\* dladdr gives its caller a lease of its own.
LEMMA ByAddrLease ==
    ASSUME Typed, NEW t \in Threads, NEW m \in Modules, LibraryByAddr(t, m),
           NEW x \in Modules, Balance(x)
    PROVE  Balance(x)'
<1> DEFINE H == Holding(x)
<1>1. /\ acq[x] \in Nat /\ handles[x] \in Nat /\ libs[x] \in Nat /\ N(H) \in Nat
      /\ Same(x, m) \in Nat /\ libs \in [Modules -> Nat]
  BY BalanceTypes DEF Typed, TypeOK, Same
<1>2. dtors' = dtors /\ handles' = handles /\ N(H)' = N(H)
  BY DEF LibraryByAddr, N, At
<1>3. acq'[x] = acq[x] + Same(x, m)
  BY AcquireLease DEF LibraryByAddr, Adds, Same
<1>4. libs'[x] = libs[x] + Same(x, m)
  BY <1>1 DEF LibraryByAddr, Same
<1> HIDE DEF H
<1>5. acq'[x] \in Int /\ handles'[x] \in Int /\ libs'[x] \in Int /\ N(H)' \in Int
  BY <1>1, <1>2, <1>3, <1>4
<1>6. /\ acq'[x] - acq[x] = Same(x, m) /\ libs'[x] - libs[x] = Same(x, m)
      /\ handles'[x] - handles[x] = 0 /\ N(H)' - N(H) = 0
  BY <1>1, <1>2, <1>3, <1>4
<1>7. acq'[x] - acq[x] = (handles'[x] - handles[x]) + (libs'[x] - libs[x])
                           + (N(H)' - N(H))
  BY <1>1, <1>6
<1>8. QED
  BY <1>2, <1>5, <1>7, MovedLease DEF H

\* A destructor takes its lease along, from the list to the running call.
LEMMA DestructorLease ==
    ASSUME Typed, NEW t \in Threads, NEW m \in Modules,
           RegisterDestructor(t, m) \/ RunDestructor(t, m), NEW x \in Modules, Balance(x)
    PROVE  Balance(x)'
<1> DEFINE H == Holding(x)
           P == Pending(x)
<1>1. /\ acq[x] \in Nat /\ handles[x] \in Nat /\ libs[x] \in Nat /\ N(H) \in Nat
      /\ Same(x, m) \in Nat /\ H \in SUBSET Frame
      /\ IsFiniteSet(P) /\ Cardinality(P) \in Nat
  BY BalanceTypes DEF Same
<1>2. handles' = handles /\ libs' = libs
  BY DEF RegisterDestructor, RunDestructor
<1>3. /\ Balance(x) <=> acq[x] = handles[x] + libs[x] + Cardinality(P) + N(H)
      /\ Balance(x)' <=> acq'[x] = handles'[x] + libs'[x] + Cardinality(P') + N(H)'
  BY DEF Balance
<1>4. CASE RegisterDestructor(t, m)
  <2>1. /\ <<t, m>> \notin dtors /\ dtors' = dtors \cup {<<t, m>>} /\ N(H)' = N(H)
        /\ Acquire({m})
    BY <1>4 DEF RegisterDestructor, N, At
  <2>2. acq'[x] = acq[x] + Same(x, m)
    BY <2>1, AcquireLease DEF Adds, Same
  <2>3. CASE x = m
    <3>1. t \notin P /\ P' = P \cup {t}
      BY <2>1, <2>3 DEF Pending
    <3> HIDE DEF P
    <3>2. Cardinality(P') = Cardinality(P) + 1
      BY <3>1, <1>1, FS_AddElement
    <3> HIDE DEF H
    <3>3. Same(x, m) = 1
      BY <2>3 DEF Same
    <3>4. QED
      BY <1>1, <1>2, <1>3, <2>1, <2>2, <3>2, <3>3
  <2>4. CASE x # m
    <3>1. P' = P
      BY <2>1, <2>4 DEF Pending
    <3> HIDE DEF P, H
    <3>2. Same(x, m) = 0
      BY <2>4 DEF Same
    <3>3. QED
      BY <1>1, <1>2, <1>3, <2>1, <2>2, <3>1, <3>2
  <2>5. QED
    BY <2>3, <2>4
<1>5. CASE RunDestructor(t, m)
  <2> DEFINE f == NewFrame("dtor", m, {}, {}, "c")
  <2>1. /\ <<t, m>> \in dtors /\ dtors' = dtors \ {<<t, m>>} /\ stack[t] = <<>>
        /\ SetStack(t, <<f>>) /\ acq' = acq
    BY <1>5 DEF RunDestructor, ctxVars
  <2>2. SetStack(t, Push(f, stack[t]))
    BY <2>1 DEF Push
  <2>3. f \in Frame /\ f.kind = "dtor" /\ f.root = m
    BY NewFrameFacts DEF Kinds
  <2> HIDE DEF f
  <2>4. Adds(f, H) = Same(x, m)
    BY <2>3, HoldsFacts
  <2>5. N(H)' = N(H) + Same(x, m)
    BY <2>2, <2>3, <2>4, <1>1, StackMoves
  <2>6. CASE x = m
    <3>1. t \in P /\ P' = P \ {t}
      BY <2>1, <2>6 DEF Pending
    <3> HIDE DEF P
    <3>2. Cardinality(P') = Cardinality(P) - 1
      BY <3>1, <1>1, FS_RemoveElement
    <3> HIDE DEF H
    <3>3. Same(x, m) = 1
      BY <2>6 DEF Same
    <3>4. QED
      BY <1>1, <1>2, <1>3, <2>1, <2>5, <3>2, <3>3
  <2>7. CASE x # m
    <3>1. P' = P
      BY <2>1, <2>7 DEF Pending
    <3> HIDE DEF P, H
    <3>2. Same(x, m) = 0
      BY <2>7 DEF Same
    <3>3. QED
      BY <1>1, <1>2, <1>3, <2>1, <2>5, <3>1, <3>2
  <2>8. QED
    BY <2>6, <2>7
<1>6. QED
  BY <1>4, <1>5

\* Every step of a call keeps the balance of every module.
LEMMA LeaseStep ==
    ASSUME Typed, NEW t \in Threads, UserCall(t) \/ Continue(t),
           NEW x \in Modules, Balance(x)
    PROVE  Balance(x)'
<1>1. /\ Apis \subseteq {"c", "rust"} /\ OpenFlagSets \subseteq SUBSET Flags
      /\ Main \in Modules /\ {} \in SUBSET Flags
  BY ModulesAssumption
<1>2. ASSUME NEW api \in Apis, OpenMain(t, api)
      PROVE  Balance(x)'
  <2>1. /\ Acquire({Main}) /\ Opened(t, Main, {}, api, stack[t])
        /\ UNCHANGED <<handles, dtors>>
    BY <1>2 DEF OpenMain
  <2>2. QED
    BY <1>1, <2>1, OpenLoadedLease
<1>3. ASSUME NEW api \in Apis, NEW m \in Modules \ {Main}, NEW fs \in OpenFlagSets,
             OpenExisting(t, m, fs, api) \/ OpenAlias(t, m, fs, api)
      PROVE  Balance(x)'
  <2>1. /\ Acquire({m}) /\ Opened(t, m, fs, api, stack[t])
        /\ UNCHANGED <<handles, dtors>>
    BY <1>3 DEF OpenExisting, OpenAlias
  <2>2. QED
    BY <1>1, <2>1, OpenLoadedLease
<1>4. ASSUME NEW api \in Apis, NEW m \in Modules \ {Main}, NEW fs \in OpenFlagSets,
             BeginLoad(t, m, fs, api)
      PROVE  Balance(x)'
  BY <1>1, <1>4, CallLease
<1>5. ASSUME NEW m \in Modules, CloseHandle(t, m) \/ DropLibrary(t, m)
      PROVE  Balance(x)'
  BY <1>5, CloseLease
<1>6. ASSUME NEW m \in Modules \ {Main}, TakeTemporary(t, m)
      PROVE  Balance(x)'
  BY <1>1, <1>6, CallLease
<1>7. ASSUME NEW m \in Modules \ {Main},
             LibraryByAddr(t, m) \/ RegisterDestructor(t, m) \/ RunDestructor(t, m)
      PROVE  Balance(x)'
  BY <1>7, ByAddrLease, DestructorLease
<1>8. CASE Iterate(t)
  BY <1>1, <1>8, CallLease
<1>9. CASE UserCall(t)
  BY <1>9, <1>2, <1>3, <1>4, <1>5, <1>6, <1>7, <1>8 DEF UserCall
<1>10. CASE Continue(t)
  BY <1>10, LoadLease, HandOnLease, EndLease, SnapshotLease DEF Continue
<1>11. QED
  BY <1>9, <1>10

\* A step of t changes no other stack, and the list of destructors by one at most.
LEMMA OwnStack ==
    ASSUME TypeOK, NEW t \in Threads, UserCall(t) \/ Continue(t)
    PROVE  /\ \A u \in Threads \ {t} : stack'[u] = stack[u]
           /\ \E d : dtors' \subseteq dtors \cup {d}
<1> DEFINE Own == \A u \in Threads \ {t} : stack'[u] = stack[u]
           D == \E d : dtors' \subseteq dtors \cup {d}
<1> USE DEF TypeOK
<1>1. ASSUME NEW s, SetStack(t, s)
      PROVE  Own
  BY <1>1 DEF SetStack
<1>2. ASSUME NEW m, NEW s, Release(t, m, s)
      PROVE  Own
  BY <1>2, <1>1 DEF Release
<1>3. ASSUME NEW m, NEW fs, NEW api, NEW s, Opened(t, m, fs, api, s)
      PROVE  Own
  BY <1>3, <1>1 DEF Opened
<1>4. dtors' = dtors => D
  OBVIOUS
<1>5. stack' = stack => Own
  OBVIOUS
<1> SUFFICES Own /\ D
  OBVIOUS
<1> HIDE DEF Own, D
<1>6. ASSUME NEW api, OpenMain(t, api)
      PROVE  Own /\ D
  BY <1>6, <1>3, <1>4 DEF OpenMain
<1>7. ASSUME NEW api, NEW m, NEW fs,
             OpenExisting(t, m, fs, api) \/ OpenAlias(t, m, fs, api)
      PROVE  Own /\ D
  BY <1>7, <1>3, <1>4 DEF OpenExisting, OpenAlias
<1>8. ASSUME NEW api, NEW m, NEW fs, BeginLoad(t, m, fs, api)
      PROVE  Own /\ D
  BY <1>8, <1>1, <1>4 DEF BeginLoad
<1>9. ASSUME NEW m, CloseHandle(t, m) \/ DropLibrary(t, m)
      PROVE  Own /\ D
  BY <1>9, <1>2, <1>4 DEF CloseHandle, DropLibrary
<1>10. ASSUME NEW m, LibraryByAddr(t, m) \/ TakeTemporary(t, m)
       PROVE  Own /\ D
  BY <1>10, <1>1, <1>4, <1>5 DEF LibraryByAddr, TakeTemporary
<1>11. ASSUME NEW m, RegisterDestructor(t, m)
       PROVE  Own /\ D
  <2>1. D
    BY <1>11 DEF RegisterDestructor, D
  <2>2. QED
    BY <2>1, <1>11, <1>5 DEF RegisterDestructor
<1>12. ASSUME NEW m, RunDestructor(t, m)
       PROVE  Own /\ D
  <2>1. D
    BY <1>12 DEF RunDestructor, D
  <2>2. QED
    BY <2>1, <1>12, <1>1 DEF RunDestructor
<1>13. CASE Iterate(t)
  BY <1>13, <1>1, <1>4 DEF Iterate
<1>14. CASE UserCall(t)
  BY <1>14, <1>6, <1>7, <1>8, <1>9, <1>10, <1>11, <1>12, <1>13 DEF UserCall
<1>15. CASE Continue(t)
  <2>1. CASE FailLoad(t) \/ Publish(t) \/ RollbackLoad(t) \/ RegisterHandle(t)
             \/ EndCallbacks(t) \/ EndIterate(t) \/ EndFinalizers(t)
    BY <2>1, <1>1, <1>4 DEF FailLoad, Publish, RollbackLoad, RegisterHandle, EndCallbacks,
       EndIterate, EndFinalizers
  <2>2. CASE FinishLoad(t)
    BY <2>2, <1>3, <1>4 DEF FinishLoad
  <2>3. CASE DropTemporary(t) \/ EndDestructor(t) \/ DropSnapshot(t)
    BY <2>3, <1>2, <1>4 DEF DropTemporary, EndDestructor, DropSnapshot
  <2>4. QED
    BY <1>15, <2>1, <2>2, <2>3 DEF Continue
<1>16. QED
  BY <1>14, <1>15

\* The books stay finite.
LEMMA FiniteStep ==
    ASSUME Typed, TypeOK', NEW t \in Threads, UserCall(t) \/ Continue(t)
    PROVE  FiniteBooks'
<1>1. /\ stack \in [Threads -> Seq(Frame)] /\ stack' \in [Threads -> Seq(Frame)]
      /\ IsFiniteSet(At(stack, Frame)) /\ IsFiniteSet(dtors)
  BY DEF Typed, TypeOK, FiniteBooks
<1>2. /\ \A u \in Threads \ {t} : stack'[u] = stack[u]
      /\ \E d : dtors' \subseteq dtors \cup {d}
  BY OwnStack DEF Typed
<1>3. stack' = With(t, stack'[t])
  BY <1>1, <1>2 DEF With
<1>4. IsFiniteSet(At(stack', Frame))
  <2> DEFINE s == stack'[t]
  <2>1. s \in Seq(Frame) /\ stack' = With(t, s)
    BY <1>1, <1>3
  <2> HIDE DEF s
  <2>2. IsFiniteSet(At(With(t, s), Frame))
    BY <1>1, <2>1, WithFinite
  <2>3. QED
    BY <2>1, <2>2
<1>5. IsFiniteSet(dtors')
  <2>1. PICK d : dtors' \subseteq dtors \cup {d}
    BY <1>2
  <2>2. IsFiniteSet(dtors \cup {d})
    BY <1>1, FS_AddElement
  <2>3. QED
    BY <2>1, <2>2, FS_Subset
<1>6. At(stack, Frame)' = At(stack', Frame)
  BY DEF At
<1>7. QED
  BY <1>4, <1>5, <1>6 DEF FiniteBooks

\* The invariant of the leases.
LeaseInv == Inv /\ FiniteBooks /\ \A x \in Modules : Balance(x)

\* No lease is out when the process starts.
LEMMA LeaseInit == Init => LeaseInv
<1> SUFFICES ASSUME Init PROVE LeaseInv
  OBVIOUS
<1>1. At(stack, Frame) = {} /\ \A x \in Modules : At(stack, Holding(x)) = {}
  BY DEF Init, At
<1>2. \A x \in Modules : Pending(x) = {}
  BY DEF Init, Pending
<1>3. IsFiniteSet({}) /\ Cardinality({}) = 0
  BY FS_EmptySet
<1>4. FiniteBooks
  BY <1>1, <1>3 DEF Init, FiniteBooks
<1>5. ASSUME NEW x \in Modules
      PROVE  Balance(x)
  <2>1. acq[x] = 0 /\ handles[x] = 0 /\ libs[x] = 0
    BY DEF Init
  <2>2. Cardinality(Pending(x)) = 0 /\ N(Holding(x)) = 0
    BY <1>1, <1>2, <1>3 DEF N
  <2>3. QED
    BY <2>1, <2>2 DEF Balance
<1>6. QED
  BY <1>4, <1>5, InitInv DEF LeaseInv

\* Every step keeps the leases in balance.
LEMMA LeaseNext == LeaseInv /\ [Next]_vars => LeaseInv'
<1> SUFFICES ASSUME LeaseInv, [Next]_vars
             PROVE  LeaseInv'
  OBVIOUS
<1>1. Inv /\ Inv' /\ TypeOK /\ TypeOK' /\ Typed
  BY InvStep DEF LeaseInv, Inv, Typed
<1>2. CASE Next
  <2>1. PICK t \in Threads : UserCall(t) \/ Continue(t)
    BY <1>2 DEF Next
  <2>2. FiniteBooks'
    BY <1>1, <2>1, FiniteStep
  <2>3. \A x \in Modules : Balance(x)'
    BY <1>1, <2>1, LeaseStep DEF LeaseInv
  <2>4. QED
    BY <1>1, <2>2, <2>3 DEF LeaseInv
<1>3. CASE UNCHANGED vars
  <2>1. FiniteBooks' = FiniteBooks
    BY <1>3 DEF vars, FiniteBooks, At
  <2>2. ASSUME NEW x \in Modules
        PROVE  Balance(x)' = Balance(x)
    BY <1>3 DEF vars, Balance, Pending, N, At
  <2>3. QED
    BY <1>1, <2>1, <2>2 DEF LeaseInv
<1>4. QED
  BY <1>2, <1>3

\* No lease is lost or given back twice: LinkContext counts the leases of the handle
\* table, of Rust callers, of pending destructors and of all calls in progress
\* (ModuleLease::drop, register_handle, run_thread_destructor, for_each_phdr).
THEOREM RegistryLeaseConservation == Spec => []LeaseConservation
<1>1. LeaseInv => LeaseConservation
  <2> SUFFICES ASSUME LeaseInv PROVE LeaseConservation
    OBVIOUS
  <2>1. TypeOK /\ \A m \in Modules : Balance(m)
    BY DEF LeaseInv, Inv
  <2>2. QED
    BY <2>1, BalanceIs
<1>2. QED
  BY <1>1, LeaseInit, LeaseNext, PTL DEF Spec

\* A lease on a stack is an acquisition, so what it is a lease of stays loaded.
LEMMA HeldIsLoaded ==
    ASSUME LeaseInv, NEW p \in Positions, NEW m \in Modules,
           FrameHolds(stack[p[1]][p[2]], m)
    PROVE  m \in committed
<1>1. TypeOK /\ Typed /\ Balance(m) /\ ExactlyRetained
  BY DEF LeaseInv, Inv, Typed
<1>2. p \in At(stack, Holding(m))
  BY <1>1 DEF Positions, At, Holding, TypeOK
<1>3. /\ acq[m] \in Nat /\ handles[m] \in Nat /\ libs[m] \in Nat
      /\ Cardinality(Pending(m)) \in Nat /\ N(Holding(m)) \in Nat
  BY <1>1, BalanceTypes
<1>4. N(Holding(m)) # 0
  <2>1. IsFiniteSet(At(stack, Holding(m)))
    <3>1. At(stack, Holding(m)) \subseteq At(stack, Frame)
      BY DEF At, Holding
    <3>2. QED
      BY <1>1, <3>1, FS_Subset DEF Typed, FiniteBooks
  <2>2. QED
    BY <1>2, <2>1, FS_EmptySet DEF N
<1>5. acq[m] > 0
  BY <1>1, <1>3, <1>4 DEF Balance
<1>6. QED
  BY <1>1, <1>5, RetainedFacts DEF TypeOK, ExactlyRetained

\* What a call in progress works on stays loaded, whatever is closed meanwhile: in
\* particular the `expect`s of open_load are never met with an unloaded module.
THEOREM RegistryFramesStayLoaded == Spec => []FramesStayLoaded
<1>1. LeaseInv => FramesStayLoaded
  <2> SUFFICES ASSUME LeaseInv, NEW p \in Positions
               PROVE  LET f == stack[p[1]][p[2]] IN
                        /\ f.kind \in {"init", "iter", "drop"} => f.mods \subseteq committed
                        /\ f.kind \in {"init", "opened", "temp", "dtor"} => f.root \in committed
    BY DEF FramesStayLoaded
  <2> DEFINE f == stack[p[1]][p[2]]
  <2>1. TypeOK /\ LoadsTheirGroup /\ ExactlyRetained
    BY DEF LeaseInv, Inv
  <2>2. f \in GoodFrame
    BY <2>1 DEF Positions, LoadsTheirGroup
  <2>3. f \in Frame /\ f.root \in Modules /\ f.mods \in SUBSET Modules
    BY <2>2 DEF GoodFrame, Frame
  <2>4. \A m \in Modules : FrameHolds(f, m) => m \in committed
    BY HeldIsLoaded
  <2>5. f.kind = "init" => f.mods \subseteq Group({f.root})
    BY <2>2 DEF GoodFrame
  <2> HIDE DEF f
  <2>6. f.kind \in {"init", "opened", "temp", "dtor"} => f.root \in committed
    BY <2>3, <2>4 DEF FrameHolds
  <2>7. f.kind \in {"iter", "drop"} => f.mods \subseteq committed
    BY <2>3, <2>4 DEF FrameHolds
  <2>8. f.kind = "init" => f.mods \subseteq committed
    <3>1. Closed(committed) /\ committed \in SUBSET Modules
      BY <2>1, RetainedFacts DEF TypeOK, ExactlyRetained
    <3>2. f.root \in committed => Group({f.root}) \subseteq committed
      BY <3>1, GroupLeast
    <3>3. QED
      BY <2>5, <2>6, <3>2
  <2>9. QED
    BY <2>6, <2>7, <2>8 DEF f
<1>2. QED
  BY <1>1, LeaseInit, LeaseNext, PTL DEF Spec

\* The books of the registry name the modules that LinkContext counts leases of.
LEMMA HeldIsLeased ==
    ASSUME LeaseInv
    PROVE  Held = {m \in Modules : acq[m] > 0}
<1> SUFFICES ASSUME NEW m \in Modules
             PROVE  m \in Held <=> acq[m] > 0
  BY DEF Held
<1>1. TypeOK /\ Typed /\ Balance(m)
  BY DEF LeaseInv, Inv, Typed
<1>2. /\ acq[m] \in Nat /\ handles[m] \in Nat /\ libs[m] \in Nat
      /\ Cardinality(Pending(m)) \in Nat /\ N(Holding(m)) \in Nat
  BY <1>1, BalanceTypes
<1>3. N(Holding(m)) # 0 <=> \E p \in Positions : FrameHolds(stack[p[1]][p[2]], m)
  <2>1. IsFiniteSet(At(stack, Holding(m)))
    <3>1. At(stack, Holding(m)) \subseteq At(stack, Frame)
      BY DEF At, Holding
    <3>2. QED
      BY <1>1, <3>1, FS_Subset DEF Typed, FiniteBooks
  <2>2. N(Holding(m)) # 0 <=> At(stack, Holding(m)) # {}
    BY <2>1, FS_EmptySet DEF N
  <2>3. \A p \in Positions : stack[p[1]][p[2]] \in Frame
    BY <1>1 DEF Positions, TypeOK
  <2>4. At(stack, Holding(m)) = {p \in Positions : FrameHolds(stack[p[1]][p[2]], m)}
    BY <2>3 DEF At, Positions, Holding
  <2>5. QED
    BY <2>2, <2>4
<1>4. Cardinality(Pending(m)) # 0 <=> \E t \in Threads : <<t, m>> \in dtors
  <2>1. IsFiniteSet(Pending(m))
    BY <1>1, BalanceTypes
  <2>2. Cardinality(Pending(m)) # 0 <=> Pending(m) # {}
    BY <2>1, FS_EmptySet
  <2>3. QED
    BY <2>2 DEF Pending
<1>5. acq[m] > 0 <=> \/ handles[m] + libs[m] > 0 \/ Cardinality(Pending(m)) # 0
                     \/ N(Holding(m)) # 0
  BY <1>1, <1>2 DEF Balance
<1>6. QED
  BY <1>3, <1>4, <1>5 DEF Held

\* A library is loaded exactly as long as a handle, a Rust caller, a destructor, a call
\* in progress or a pin holds it or what needs it, whatever threads, constructors,
\* finalizers and failed loads do (release_handle, ModuleLease::drop, open_load).
THEOREM RegistryLoadedIsHeld == Spec => []LoadedIsHeld
<1>1. LeaseInv => LoadedIsHeld
  <2> SUFFICES ASSUME LeaseInv PROVE LoadedIsHeld
    OBVIOUS
  <2>1. committed = Retained(acq, pinned)
    BY DEF LeaseInv, Inv, ExactlyRetained
  <2>2. QED
    BY <2>1, HeldIsLeased DEF LoadedIsHeld, Retained
<1>2. QED
  BY <1>1, LeaseInit, LeaseNext, PTL DEF Spec
-----------------------------------------------------------------------------
(* Guards of the loader lock *)

\* The stack s has a call that keeps the lock.
HasLock(s) == \E i \in DOMAIN s : s[i] \in Locking

\* Which frames count, and which steps keep the answer.
LEMMA LockFacts ==
    ASSUME Typed, NEW t \in Threads
    PROVE  /\ Locking \in SUBSET Frame
           /\ stack[t] \in Seq(Frame)
           /\ \A f \in Frame : Adds(f, Locking) = IF f.kind \in LockKinds THEN 1 ELSE 0
           /\ \A s \in Seq(Frame), f \in Frame :
                HasLock(Push(f, s)) <=> f.kind \in LockKinds \/ HasLock(s)
           /\ stack[t] # <<>> =>
                (HasLock(stack[t]) <=> Top(t).kind \in LockKinds \/ HasLock(Tail(stack[t])))
<1>1. Locking \in SUBSET Frame /\ stack[t] \in Seq(Frame)
  BY DEF Locking, Typed, TypeOK
<1>2. \A f \in Frame : f \in Locking <=> f.kind \in LockKinds
  BY DEF Locking
<1>3. ASSUME NEW s \in Seq(Frame), NEW f \in Frame
      PROVE  HasLock(Push(f, s)) <=> f.kind \in LockKinds \/ HasLock(s)
  <2>1. /\ DOMAIN s = 1 .. Len(s) /\ DOMAIN Push(f, s) = 1 .. Len(s) + 1
        /\ Len(s) \in Nat /\ Push(f, s)[1] = f
        /\ \A i \in 1 .. Len(s) : Push(f, s)[i + 1] = s[i]
        /\ \A i \in 2 .. Len(s) + 1 : Push(f, s)[i] = s[i - 1]
    BY PushIndices
  <2>2. f.kind \in LockKinds => HasLock(Push(f, s))
    BY <2>1, <1>2 DEF HasLock
  <2>3. HasLock(s) => HasLock(Push(f, s))
    <3> SUFFICES ASSUME NEW i \in 1 .. Len(s), s[i] \in Locking
                 PROVE  HasLock(Push(f, s))
      BY <2>1 DEF HasLock
    <3>1. i + 1 \in DOMAIN Push(f, s) /\ Push(f, s)[i + 1] \in Locking
      BY <2>1
    <3>2. QED
      BY <3>1 DEF HasLock
  <2>4. ASSUME HasLock(Push(f, s)), f.kind \notin LockKinds
        PROVE  HasLock(s)
    <3>1. PICK i \in 1 .. Len(s) + 1 : Push(f, s)[i] \in Locking
      BY <2>1, <2>4 DEF HasLock
    <3>2. i # 1
      BY <3>1, <2>1, <2>4, <1>2
    <3>3. i \in 2 .. Len(s) + 1 /\ i - 1 \in 1 .. Len(s)
      BY <3>2, <2>1
    <3>4. i - 1 \in DOMAIN s /\ s[i - 1] \in Locking
      BY <3>1, <3>3, <2>1
    <3>5. QED
      BY <3>4 DEF HasLock
  <2>5. QED
    BY <2>2, <2>3, <2>4
<1>4. ASSUME stack[t] # <<>>
      PROVE  HasLock(stack[t]) <=> Top(t).kind \in LockKinds \/ HasLock(Tail(stack[t]))
  <2> DEFINE s == Tail(stack[t])
             f == Top(t)
  <2>1. s \in Seq(Frame) /\ f \in Frame
    BY <1>4, TopFrame
  <2>2. stack[t] = Push(f, s)
    BY <1>1, <1>4 DEF Push, Top
  <2> HIDE DEF s, f
  <2>3. HasLock(Push(f, s)) <=> f.kind \in LockKinds \/ HasLock(s)
    BY <2>1, <1>3
  <2>4. QED
    BY <2>2, <2>3 DEF s, f
<1>5. QED
  BY <1>1, <1>2, <1>3, <1>4 DEF Adds

\* The three things a step of t does to the lock: nothing, one guard more, one less.
KeepsLock(t) ==
    /\ owner' = owner /\ depth' = depth
    /\ N(Locking)' = N(Locking)
    /\ HasLock(stack'[t]) => HasLock(stack[t])

TakesLock(t) == CanLock(t) /\ Lock(t) /\ N(Locking)' = N(Locking) + 1

DropsLock(t) == HasLock(stack[t]) /\ Unlock(t) /\ N(Locking)' = N(Locking) - 1

\* Frames that keep no lock leave it alone: finalizers and opened libraries ...
LEMMA QuietPushes ==
    ASSUME Typed, NEW t \in Threads, NEW s \in Seq(Frame), NEW m \in Modules,
           \/ Release(t, m, s)
           \/ \E fs \in SUBSET Flags, api \in {"c", "rust"} : Opened(t, m, fs, api, s)
    PROVE  N(Locking)' = Cnt(t, s, Locking) /\ (HasLock(stack'[t]) <=> HasLock(s))
<1>1. /\ Locking \in SUBSET Frame
      /\ \A f \in Frame : HasLock(Push(f, s)) <=> f.kind \in LockKinds \/ HasLock(s)
      /\ \A f \in Locking : f.kind # "fini"
      /\ stack \in [Threads -> Seq(Frame)]
      /\ committed \in SUBSET Modules
  BY LockFacts DEF Typed, TypeOK, Locking, LockKinds
<1>2. CASE Release(t, m, s)
  <2> DEFINE gone == committed \ Retained([acq EXCEPT ![m] = @ - 1], pinned)
             f == NewFrame("fini", m, gone, {}, "rust")
  <2>1. stack' = [stack EXCEPT ![t] = IF gone = {} THEN s ELSE Push(f, s)]
    BY <1>2 DEF Release, SetStack
  <2>2. f \in Frame /\ f.kind = "fini"
    <3>1. gone \in SUBSET Modules /\ {} \in SUBSET Flags /\ "fini" \in Kinds
      BY <1>1 DEF Kinds
    <3> HIDE DEF gone
    <3>2. QED
      BY <3>1, NewFrameFacts
  <2> HIDE DEF f, gone
  <2>3. stack'[t] = IF gone = {} THEN s ELSE Push(f, s)
    BY <1>1, <2>1
  <2>4. HasLock(Push(f, s)) <=> HasLock(s)
    BY <1>1, <2>2 DEF LockKinds
  <2>5. HasLock(stack'[t]) <=> HasLock(s)
    BY <2>3, <2>4
  <2>6. N(Locking)' = Cnt(t, s, Locking)
    BY <1>1, <1>2, ReleaseCount
  <2>7. QED
    BY <2>5, <2>6
<1>3. ASSUME NEW fs \in SUBSET Flags, NEW api \in {"c", "rust"}, Opened(t, m, fs, api, s)
      PROVE  N(Locking)' = Cnt(t, s, Locking) /\ (HasLock(stack'[t]) <=> HasLock(s))
  <2> DEFINE f == NewFrame("opened", m, {}, fs, api)
  <2>1. stack' = [stack EXCEPT ![t] = IF api = "c" THEN Push(f, s) ELSE s]
    BY <1>3 DEF Opened, SetStack
  <2>2. f \in Frame /\ f.kind = "opened"
    BY NewFrameFacts DEF Kinds
  <2>3. N(Locking)' = Cnt(t, s, Locking) + IF api = "c" THEN Adds(f, Locking) ELSE 0
    <3> DEFINE L == Locking
    <3>1. L \in SUBSET Frame
      BY <1>1
    <3> HIDE DEF L
    <3>2. N(L)' = Cnt(t, s, L) + IF api = "c" THEN Adds(f, L) ELSE 0
      BY <3>1, <1>3, OpenedCount, ZenonT(60)
    <3>3. QED
      BY <3>2 DEF L
  <2> HIDE DEF f
  <2>4. stack'[t] = IF api = "c" THEN Push(f, s) ELSE s
    BY <1>1, <2>1
  <2>5. HasLock(Push(f, s)) <=> HasLock(s)
    BY <1>1, <2>2 DEF LockKinds
  <2>6. HasLock(stack'[t]) <=> HasLock(s)
    BY <2>4, <2>5
  <2>7. Adds(f, Locking) = 0
    BY <2>2, LockFacts DEF LockKinds
  <2>8. Cnt(t, s, Locking) \in Nat
    BY <1>1, CntFacts DEF Typed, FiniteBooks
  <2>9. QED
    BY <2>3, <2>6, <2>7, <2>8
<1>4. QED
  BY <1>2, <1>3

\* ... and so do the calls that are pushed, popped or go on without it.
LEMMA QuietMoves ==
    ASSUME Typed, NEW t \in Threads
    PROVE  /\ \A s : SetStack(t, s) => stack'[t] = s
           /\ Cnt(t, stack[t], Locking) = N(Locking)
           /\ N(Locking) \in Nat
           /\ stack[t] # <<>> => Tail(stack[t]) \in Seq(Frame)
           /\ \A s \in Seq(Frame), f \in Frame : Push(f, s) \in Seq(Frame)
           /\ \A s \in Seq(Frame) : Cnt(t, s, Locking) \in Nat
           /\ \A s \in Seq(Frame), f \in Frame :
                Cnt(t, Push(f, s), Locking) = Cnt(t, s, Locking) + Adds(f, Locking)
           /\ stack[t] # <<>> =>
                Cnt(t, Tail(stack[t]), Locking) = N(Locking) - Adds(Top(t), Locking)
           /\ \A s : SetStack(t, s) => N(Locking)' = Cnt(t, s, Locking)
<1>1. /\ stack \in [Threads -> Seq(Frame)] /\ IsFiniteSet(At(stack, Frame))
      /\ Locking \in SUBSET Frame
  BY DEF Typed, TypeOK, FiniteBooks, Locking
<1>2. \A s : SetStack(t, s) => stack'[t] = s
  BY <1>1 DEF SetStack
<1>3. stack[t] # <<>> => Tail(stack[t]) \in Seq(Frame)
  BY TopFrame
<1>4. \A s \in Seq(Frame), f \in Frame : Push(f, s) \in Seq(Frame)
  BY PushIndices
<1>5. QED
  BY <1>1, <1>2, <1>3, <1>4, CntFacts

\* Every step of a call does one of the three things to the lock.
LEMMA LockEffect ==
    ASSUME Typed, NEW t \in Threads, UserCall(t) \/ Continue(t)
    PROVE  KeepsLock(t) \/ TakesLock(t) \/ DropsLock(t)
<1> DEFINE L == Locking
           Goal == KeepsLock(t) \/ TakesLock(t) \/ DropsLock(t)
<1> SUFFICES Goal
  OBVIOUS
<1>1. /\ Apis \subseteq {"c", "rust"} /\ OpenFlagSets \subseteq SUBSET Flags
      /\ Main \in Modules /\ {} \in SUBSET Flags
  BY ModulesAssumption
<1>2. /\ stack[t] \in Seq(Frame) /\ committed \in SUBSET Modules
      /\ \A f \in Frame : Adds(f, L) = IF f.kind \in LockKinds THEN 1 ELSE 0
      /\ \A s \in Seq(Frame), f \in Frame :
           HasLock(Push(f, s)) <=> f.kind \in LockKinds \/ HasLock(s)
      /\ stack[t] # <<>> =>
           (HasLock(stack[t]) <=> Top(t).kind \in LockKinds \/ HasLock(Tail(stack[t])))
  BY LockFacts DEF Typed, TypeOK
<1>3. /\ \A s : SetStack(t, s) => stack'[t] = s
      /\ Cnt(t, stack[t], L) = N(L)
      /\ N(L) \in Nat
      /\ stack[t] # <<>> => Tail(stack[t]) \in Seq(Frame)
      /\ \A s \in Seq(Frame), f \in Frame : Push(f, s) \in Seq(Frame)
      /\ \A s \in Seq(Frame) : Cnt(t, s, L) \in Nat
      /\ \A s \in Seq(Frame), f \in Frame : Cnt(t, Push(f, s), L) = Cnt(t, s, L) + Adds(f, L)
      /\ stack[t] # <<>> => Cnt(t, Tail(stack[t]), L) = N(L) - Adds(Top(t), L)
      /\ \A s : SetStack(t, s) => N(L)' = Cnt(t, s, L)
  BY QuietMoves
<1>4. stack[t] # <<>> => Top(t) \in Frame
  BY TopFrame
<1>5. ASSUME NEW s \in Seq(Frame), NEW m \in Modules,
             \/ Release(t, m, s)
             \/ \E fs \in SUBSET Flags, api \in {"c", "rust"} : Opened(t, m, fs, api, s)
      PROVE  N(L)' = Cnt(t, s, L) /\ (HasLock(stack'[t]) <=> HasLock(s))
  BY <1>5, QuietPushes
<1> HIDE DEF L
\* The innermost call is replaced by g, which keeps the lock as it did.
<1>6. ASSUME NEW g \in Frame, stack[t] # <<>>,
             g.kind \in LockKinds <=> Top(t).kind \in LockKinds
      PROVE  LET s == Push(g, Tail(stack[t]))
             IN  s \in Seq(Frame) /\ Cnt(t, s, L) = N(L)
                 /\ (HasLock(s) <=> HasLock(stack[t]))
  <2> DEFINE r == Tail(stack[t])
             s == Push(g, r)
  <2>1. r \in Seq(Frame) /\ Cnt(t, r, L) = N(L) - Adds(Top(t), L) /\ Cnt(t, r, L) \in Nat
    BY <1>3, <1>6
  <2>2. Adds(Top(t), L) = Adds(g, L) /\ Adds(g, L) \in Nat
    BY <1>2, <1>4, <1>6
  <2>3. Cnt(t, s, L) = Cnt(t, r, L) + Adds(g, L)
    BY <2>1, <1>3
  <2>4. HasLock(s) <=> HasLock(stack[t])
    BY <2>1, <1>2, <1>6
  <2>5. s \in Seq(Frame)
    BY <2>1, <1>3
  <2> HIDE DEF r
  <2>6. Cnt(t, s, L) = N(L)
    BY <2>1, <2>2, <2>3, <1>3
  <2>7. QED
    BY <2>4, <2>5, <2>6 DEF r
<1>7. ASSUME stack[t] # <<>>, Top(t).kind \notin LockKinds
      PROVE  LET s == Tail(stack[t])
             IN  s \in Seq(Frame) /\ Cnt(t, s, L) = N(L)
                 /\ (HasLock(s) <=> HasLock(stack[t]))
  <2> DEFINE s == Tail(stack[t])
  <2>1. s \in Seq(Frame) /\ Cnt(t, s, L) = N(L) - Adds(Top(t), L)
    BY <1>3, <1>7
  <2>2. Adds(Top(t), L) = 0
    BY <1>2, <1>4, <1>7
  <2>3. HasLock(s) <=> HasLock(stack[t])
    BY <1>2, <1>7
  <2> HIDE DEF s
  <2>4. Cnt(t, s, L) = N(L)
    BY <2>1, <2>2, <1>3
  <2>5. QED
    BY <2>1, <2>3, <2>4 DEF s
<1>8. ASSUME NEW s \in Seq(Frame), Cnt(t, s, L) = N(L), HasLock(s) <=> HasLock(stack[t]),
             owner' = owner, depth' = depth,
             \/ SetStack(t, s)
             \/ \E m \in Modules : Release(t, m, s)
             \/ \E m \in Modules, fs \in SUBSET Flags, api \in {"c", "rust"} :
                  Opened(t, m, fs, api, s)
      PROVE  Goal
  <2>1. N(L)' = N(L) /\ (HasLock(stack'[t]) <=> HasLock(s))
    <3>1. CASE SetStack(t, s)
      BY <3>1, <1>3, <1>8
    <3>2. CASE \E m \in Modules : Release(t, m, s)
      BY <3>2, <1>5, <1>8
    <3>3. CASE \E m \in Modules, fs \in SUBSET Flags, api \in {"c", "rust"} :
                 Opened(t, m, fs, api, s)
      <4>1. PICK m \in Modules : \E fs \in SUBSET Flags, api \in {"c", "rust"} :
                 Opened(t, m, fs, api, s)
        BY <3>3
      <4>2. QED
        BY <4>1, <1>5, <1>8
    <3>4. QED
      BY <3>1, <3>2, <3>3, <1>8
  <2>2. KeepsLock(t)
    BY <2>1, <1>8 DEF KeepsLock, L
  <2>3. QED
    BY <2>2
<1>9. ASSUME NEW f \in Frame, f.kind \in LockKinds, CanLock(t), Lock(t),
             SetStack(t, Push(f, stack[t]))
      PROVE  Goal
  <2>1. N(L)' = N(L) + 1
    BY <1>2, <1>3, <1>9
  <2>2. TakesLock(t)
    BY <2>1, <1>9 DEF TakesLock, L
  <2>3. QED
    BY <2>2
<1>10. ASSUME stack[t] # <<>>, Top(t).kind \in LockKinds, Unlock(t),
              \/ SetStack(t, Tail(stack[t]))
              \/ \E m \in Modules, fs \in SUBSET Flags, api \in {"c", "rust"} :
                   Opened(t, m, fs, api, Tail(stack[t]))
       PROVE  Goal
  <2> DEFINE s == Tail(stack[t])
  <2>1. s \in Seq(Frame) /\ Cnt(t, s, L) = N(L) - Adds(Top(t), L)
    BY <1>3, <1>10
  <2>2. Adds(Top(t), L) = 1 /\ HasLock(stack[t])
    BY <1>2, <1>4, <1>10
  <2>3. N(L)' = Cnt(t, s, L)
    <3>1. CASE SetStack(t, s)
      BY <3>1, <1>3
    <3>2. CASE \E m \in Modules, fs \in SUBSET Flags, api \in {"c", "rust"} :
                 Opened(t, m, fs, api, s)
      <4>1. PICK m \in Modules : \E fs \in SUBSET Flags, api \in {"c", "rust"} :
                 Opened(t, m, fs, api, s)
        BY <3>2
      <4> HIDE DEF s
      <4>2. QED
        BY <4>1, <2>1, <1>5
    <3>3. QED
      BY <3>1, <3>2, <1>10
  <2> HIDE DEF s
  <2>4. N(L)' = N(L) - 1
    BY <2>1, <2>2, <2>3
  <2>5. DropsLock(t)
    BY <2>2, <2>4, <1>10 DEF DropsLock, L
  <2>6. QED
    BY <2>5
<1> HIDE DEF Goal
<1>11. ASSUME NEW api \in Apis, OpenMain(t, api)
       PROVE  Goal
  BY <1>11, <1>1, <1>2, <1>3, <1>8 DEF OpenMain
<1>12. ASSUME NEW api \in Apis, NEW m \in Modules, NEW fs \in OpenFlagSets,
              OpenExisting(t, m, fs, api) \/ OpenAlias(t, m, fs, api)
       PROVE  Goal
  <2>1. /\ Opened(t, m, fs, api, stack[t]) /\ owner' = owner /\ depth' = depth
        /\ api \in {"c", "rust"} /\ fs \in SUBSET Flags
    BY <1>1, <1>12 DEF OpenExisting, OpenAlias
  <2>2. QED
    BY <2>1, <1>2, <1>3, <1>8
<1>13. ASSUME NEW api \in Apis, NEW m \in Modules, NEW fs \in OpenFlagSets,
              BeginLoad(t, m, fs, api)
       PROVE  Goal
  <2> DEFINE new == Group({m}) \ committed
             f == NewFrame("relocate", m, new, fs, api)
  <2>1. SetStack(t, Push(f, stack[t])) /\ CanLock(t) /\ Lock(t)
    BY <1>13 DEF BeginLoad, Call
  <2>2. f \in Frame /\ f.kind = "relocate"
    <3>1. new \in SUBSET Modules /\ fs \in SUBSET Flags /\ api \in {"c", "rust"}
      BY <1>1, GroupContains
    <3> HIDE DEF new
    <3>2. QED
      BY <3>1, NewFrameFacts DEF Kinds
  <2> HIDE DEF f
  <2>3. f.kind \in LockKinds
    BY <2>2 DEF LockKinds
  <2>4. QED
    BY <2>1, <2>2, <2>3, <1>9
<1>14. ASSUME NEW m \in Modules, CloseHandle(t, m) \/ DropLibrary(t, m)
       PROVE  Goal
  <2>1. Release(t, m, stack[t]) /\ owner' = owner /\ depth' = depth
    BY <1>14 DEF CloseHandle, DropLibrary
  <2>2. QED
    BY <2>1, <1>2, <1>3, <1>8
<1>15. ASSUME NEW m \in Modules, LibraryByAddr(t, m) \/ RegisterDestructor(t, m)
       PROVE  Goal
  <2>1. stack' = stack /\ owner' = owner /\ depth' = depth
    BY <1>15 DEF LibraryByAddr, RegisterDestructor
  <2>2. N(Locking)' = N(Locking) /\ (HasLock(stack'[t]) <=> HasLock(stack[t]))
    BY <2>1 DEF N, At
  <2>3. QED
    BY <2>1, <2>2 DEF Goal, KeepsLock
<1>16. ASSUME NEW f \in Frame, f.kind \notin LockKinds, SetStack(t, Push(f, stack[t])),
              owner' = owner, depth' = depth
       PROVE  Goal
  <2>1. Push(f, stack[t]) \in Seq(Frame) /\ Cnt(t, Push(f, stack[t]), L) = N(L)
        /\ (HasLock(Push(f, stack[t])) <=> HasLock(stack[t]))
    BY <1>2, <1>3, <1>16
  <2>2. QED
    BY <2>1, <1>8, <1>16
<1>17. ASSUME NEW m \in Modules, TakeTemporary(t, m) \/ RunDestructor(t, m)
       PROVE  Goal
  <2> DEFINE f == NewFrame("temp", m, {}, {}, "c")
             g == NewFrame("dtor", m, {}, {}, "c")
  <2>1. /\ owner' = owner /\ depth' = depth
        /\ SetStack(t, Push(f, stack[t])) \/ SetStack(t, Push(g, stack[t]))
    <3>1. CASE TakeTemporary(t, m)
      BY <3>1 DEF TakeTemporary
    <3>2. CASE RunDestructor(t, m)
      <4>1. owner' = owner /\ depth' = depth /\ stack[t] = <<>> /\ SetStack(t, <<g>>)
        BY <3>2 DEF RunDestructor
      <4> HIDE DEF g
      <4>2. SetStack(t, Push(g, stack[t]))
        BY <4>1 DEF Push
      <4>3. QED
        BY <4>1, <4>2
    <3>3. QED
      BY <3>1, <3>2, <1>17
  <2>2. /\ f \in Frame /\ f.kind = "temp"
        /\ g \in Frame /\ g.kind = "dtor"
    BY NewFrameFacts DEF Kinds
  <2> HIDE DEF f, g
  <2>3. f.kind \notin LockKinds /\ g.kind \notin LockKinds
    BY <2>2 DEF LockKinds
  <2>4. QED
    BY <2>1, <2>2, <2>3, <1>16
<1>18. CASE Iterate(t)
  <2> DEFINE f == NewFrame("iter", Main, committed, {}, "c")
  <2>1. SetStack(t, Push(f, stack[t])) /\ CanLock(t) /\ Lock(t)
    BY <1>18 DEF Iterate, Call
  <2>2. f \in Frame /\ f.kind = "iter"
    BY <1>1, <1>2, NewFrameFacts DEF Kinds
  <2> HIDE DEF f
  <2>3. f.kind \in LockKinds
    BY <2>2 DEF LockKinds
  <2>4. QED
    BY <2>1, <2>2, <2>3, <1>9
<1>19. CASE UserCall(t)
  BY <1>19, <1>11, <1>12, <1>13, <1>14, <1>15, <1>17, <1>18 DEF UserCall
<1>20. CASE Continue(t)
  <2>1. CASE FailLoad(t) \/ RollbackLoad(t) \/ EndIterate(t)
    <3>1. /\ stack[t] # <<>> /\ Top(t).kind \in {"relocate", "init", "drop"} /\ Unlock(t)
          /\ SetStack(t, Tail(stack[t]))
      BY <2>1 DEF FailLoad, RollbackLoad, EndIterate, In
    <3>2. Top(t).kind \in LockKinds
      BY <3>1 DEF LockKinds
    <3>3. QED
      BY <3>1, <3>2, <1>10
  <2>2. CASE FinishLoad(t)
    <3>1. /\ stack[t] # <<>> /\ Top(t).kind = "init" /\ Unlock(t)
          /\ Opened(t, Top(t).root, Top(t).flags, Top(t).api, Tail(stack[t]))
      BY <2>2 DEF FinishLoad, In
    <3>2. /\ Top(t).root \in Modules /\ Top(t).flags \in SUBSET Flags
          /\ Top(t).api \in {"c", "rust"}
      BY <3>1, <1>4 DEF Frame
    <3>3. Top(t).kind \in LockKinds
      BY <3>1 DEF LockKinds
    <3>4. QED
      BY <3>1, <3>2, <3>3, <1>10
  <2>3. CASE Publish(t)
    <3> DEFINE g == [Top(t) EXCEPT !.kind = "init"]
    <3>1. /\ stack[t] # <<>> /\ Top(t).kind = "relocate" /\ owner' = owner /\ depth' = depth
          /\ SetStack(t, Push(g, Tail(stack[t])))
      BY <2>3 DEF Publish, In
    <3>2. g \in Frame /\ g.kind = "init"
      BY <3>1, <1>4 DEF Frame, Kinds
    <3> HIDE DEF g
    <3>3. g.kind \in LockKinds /\ Top(t).kind \in LockKinds
      BY <3>1, <3>2 DEF LockKinds
    <3>4. QED
      BY <3>1, <3>2, <3>3, <1>6, <1>8
  <2>4. CASE EndCallbacks(t)
    <3> DEFINE g == [Top(t) EXCEPT !.kind = "drop"]
    <3>1. /\ stack[t] # <<>> /\ Top(t).kind = "iter" /\ owner' = owner /\ depth' = depth
          /\ SetStack(t, Push(g, Tail(stack[t])))
      BY <2>4 DEF EndCallbacks, In
    <3>2. g \in Frame /\ g.kind = "drop"
      BY <3>1, <1>4 DEF Frame, Kinds
    <3> HIDE DEF g
    <3>3. g.kind \in LockKinds /\ Top(t).kind \in LockKinds
      BY <3>1, <3>2 DEF LockKinds
    <3>4. QED
      BY <3>1, <3>2, <3>3, <1>6, <1>8
  <2>5. CASE DropSnapshot(t)
    <3>1. PICK m \in Top(t).mods :
            Release(t, m, Push([Top(t) EXCEPT !.mods = @ \ {m}], Tail(stack[t])))
      BY <2>5 DEF DropSnapshot
    <3> DEFINE g == [Top(t) EXCEPT !.mods = @ \ {m}]
    <3>2. /\ stack[t] # <<>> /\ Top(t).kind = "drop" /\ owner' = owner /\ depth' = depth
      BY <2>5 DEF DropSnapshot, In
    <3>3. g \in Frame /\ g.kind = "drop" /\ m \in Modules
      BY <3>1, <3>2, <1>4 DEF Frame
    <3>4. Release(t, m, Push(g, Tail(stack[t])))
      BY <3>1
    <3> HIDE DEF g
    <3>5. QED
      BY <3>2, <3>3, <3>4, <1>6, <1>8
  <2>6. CASE RegisterHandle(t) \/ EndFinalizers(t)
    <3>1. /\ stack[t] # <<>> /\ Top(t).kind \in {"opened", "fini"} /\ owner' = owner
          /\ depth' = depth /\ SetStack(t, Tail(stack[t]))
      BY <2>6 DEF RegisterHandle, EndFinalizers, In
    <3>2. Top(t).kind \notin LockKinds
      BY <3>1 DEF LockKinds
    <3>3. QED
      BY <3>1, <3>2, <1>7, <1>8
  <2>7. CASE DropTemporary(t) \/ EndDestructor(t)
    <3>1. /\ stack[t] # <<>> /\ Top(t).kind \in {"temp", "dtor"} /\ owner' = owner
          /\ depth' = depth /\ Release(t, Top(t).root, Tail(stack[t]))
      BY <2>7 DEF DropTemporary, EndDestructor, In
    <3>2. Top(t).kind \notin LockKinds /\ Top(t).root \in Modules
      BY <3>1, <1>4 DEF LockKinds, Frame
    <3>3. QED
      BY <3>1, <3>2, <1>7, <1>8
  <2>8. QED
    BY <1>20, <2>1, <2>2, <2>3, <2>4, <2>5, <2>6, <2>7 DEF Continue
<1>21. QED
  BY <1>19, <1>20

\* The owners of the calls that keep the lock, said of stacks instead of positions.
LEMMA GuardOwners ==
    ASSUME TypeOK
    PROVE  (\A p \in At(stack, Locking) : p[1] = owner)
             <=> \A u \in Threads : HasLock(stack[u]) => u = owner
<1>1. /\ \A u \in Threads : \A i \in DOMAIN stack[u] :
           <<u, i>> \in At(stack, Locking) <=> stack[u][i] \in Locking
      /\ \A p \in At(stack, Locking) :
           /\ p = <<p[1], p[2]>> /\ p[1] \in Threads
           /\ p[2] \in DOMAIN stack[p[1]] /\ stack[p[1]][p[2]] \in Locking
  BY AtMember
<1>2. ASSUME \A p \in At(stack, Locking) : p[1] = owner, NEW u \in Threads, HasLock(stack[u])
      PROVE  u = owner
  <2>1. PICK i \in DOMAIN stack[u] : stack[u][i] \in Locking
    BY <1>2 DEF HasLock
  <2>2. <<u, i>> \in At(stack, Locking)
    BY <2>1, <1>1
  <2>3. QED
    BY <2>2, <1>2
<1>3. ASSUME \A u \in Threads : HasLock(stack[u]) => u = owner, NEW p \in At(stack, Locking)
      PROVE  p[1] = owner
  BY <1>1, <1>3 DEF HasLock
<1>4. QED
  BY <1>2, <1>3

\* A call that keeps the lock counts.
LEMMA LockCounts ==
    ASSUME Typed
    PROVE  /\ N(Locking) \in Nat
           /\ (\E u \in Threads : HasLock(stack[u])) <=> N(Locking) > 0
<1> DEFINE A == At(stack, Locking)
<1>1. A \subseteq At(stack, Frame)
  BY DEF At, Locking
<1>2. IsFiniteSet(A)
  BY <1>1, FS_Subset DEF Typed, FiniteBooks
<1>3. N(Locking) = Cardinality(A)
  BY DEF N
<1>4. /\ \A u \in Threads : \A i \in DOMAIN stack[u] : <<u, i>> \in A <=> stack[u][i] \in Locking
      /\ \A p \in A : /\ p[1] \in Threads
                      /\ p[2] \in DOMAIN stack[p[1]] /\ stack[p[1]][p[2]] \in Locking
  BY AtMember
<1> HIDE DEF A
<1>5. A # {} <=> \E u \in Threads : HasLock(stack[u])
  BY <1>4 DEF HasLock
<1>6. Cardinality(A) \in Nat /\ (A = {} <=> Cardinality(A) = 0)
  BY <1>2, FS_CardinalityType, FS_EmptySet
<1>7. QED
  BY <1>3, <1>5, <1>6

\* The invariant of the lock, in the form the steps are checked against.
LEMMA GuardsForm ==
    ASSUME TypeOK
    PROVE  GuardsMatchFrames <=>
             /\ depth = N(Locking)
             /\ \A u \in Threads : HasLock(stack[u]) => u = owner
             /\ owner = NoOwner <=> depth = 0
BY GuardOwners DEF GuardsMatchFrames, N

\* Every step keeps guards and calls matched, and is a step of a reentrant lock.
LEMMA GuardsStep ==
    ASSUME Typed, TypeOK', FiniteBooks', GuardsMatchFrames,
           NEW t \in Threads, UserCall(t) \/ Continue(t)
    PROVE  /\ GuardsMatchFrames'
           /\ \/ ReentrantLockOfCalls!Acquire(t)
              \/ ReentrantLockOfCalls!Release(t)
              \/ UNCHANGED <<owner, depth>>
<1> DEFINE n == N(Locking)
           Owns(stk) == \A u \in Threads : HasLock(stk[u]) => u = owner
<1>1. depth = n /\ Owns(stack) /\ (owner = NoOwner <=> depth = 0)
  BY GuardsForm DEF Typed
<1>2. GuardsMatchFrames' <=>
        /\ depth' = n'
        /\ \A u \in Threads : HasLock(stack'[u]) => u = owner'
        /\ owner' = NoOwner <=> depth' = 0
  <2>1. (TypeOK => (GuardsMatchFrames <=>
             /\ depth = N(Locking)
             /\ \A u \in Threads : HasLock(stack[u]) => u = owner
             /\ owner = NoOwner <=> depth = 0))'
    BY GuardsForm, PTL
  <2>2. \A u \in Threads : HasLock(stack[u])' <=> HasLock(stack'[u])
    BY DEF HasLock
  <2>3. QED
    BY <2>1, <2>2
<1>3. n \in Nat /\ ((\E u \in Threads : HasLock(stack[u])) <=> n > 0)
  BY LockCounts
<1>4. (\E u \in Threads : HasLock(stack'[u])) <=> n' > 0
  <2>1. (Typed => ((\E u \in Threads : HasLock(stack[u])) <=> N(Locking) > 0))'
    BY LockCounts, PTL
  <2>2. \A u \in Threads : HasLock(stack[u])' <=> HasLock(stack'[u])
    BY DEF HasLock
  <2>3. Typed'
    BY DEF Typed
  <2>4. QED
    BY <2>1, <2>2, <2>3
<1>5. \A u \in Threads \ {t} : stack'[u] = stack[u]
  BY OwnStack DEF Typed
<1>6. NoOwner \notin Threads /\ owner \in Threads \cup {NoOwner} /\ depth \in Int
  BY ModulesAssumption DEF Typed, TypeOK
<1>7. KeepsLock(t) \/ TakesLock(t) \/ DropsLock(t)
  BY LockEffect
<1>8. CASE KeepsLock(t)
  <2>1. /\ owner' = owner /\ depth' = depth /\ n' = n
        /\ HasLock(stack'[t]) => HasLock(stack[t])
    BY <1>8 DEF KeepsLock
  <2>2. \A u \in Threads : HasLock(stack'[u]) => u = owner'
    BY <2>1, <1>1, <1>5
  <2> HIDE DEF n
  <2>3. QED
    BY <2>1, <2>2, <1>1, <1>2
<1>9. CASE TakesLock(t)
  <2>1. /\ owner \in {NoOwner, t} /\ owner' = t /\ depth' = depth + 1 /\ n' = n + 1
    BY <1>9 DEF TakesLock, CanLock, Lock
  <2>2. \A u \in Threads : HasLock(stack'[u]) => u = owner'
    BY <2>1, <1>1, <1>5, <1>6
  <2>3. ReentrantLockOfCalls!Acquire(t)
    BY <2>1 DEF ReentrantLockOfCalls!Acquire
  <2> HIDE DEF n
  <2>4. depth' = n' /\ (owner' = NoOwner <=> depth' = 0)
    BY <2>1, <1>1, <1>3, <1>6
  <2>5. QED
    BY <2>2, <2>3, <2>4, <1>2
<1>10. CASE DropsLock(t)
  <2>1. /\ HasLock(stack[t]) /\ depth' = depth - 1 /\ n' = n - 1
        /\ owner' = IF depth = 1 THEN NoOwner ELSE t
    BY <1>10 DEF DropsLock, Unlock
  <2>2. owner = t /\ n > 0
    BY <2>1, <1>1, <1>3
  <2>3. ReentrantLockOfCalls!Release(t)
    BY <2>1, <2>2, <1>1, <1>3 DEF ReentrantLockOfCalls!Release
  <2>4. \A u \in Threads : HasLock(stack'[u]) => u = owner'
    <3>1. CASE depth = 1
      <4>1. n' = 0
        BY <3>1, <2>1, <1>1
      <4>2. QED
        BY <4>1, <1>4
    <3>2. CASE depth # 1
      BY <3>2, <2>1, <2>2, <1>1, <1>5
    <3>3. QED
      BY <3>1, <3>2
  <2> HIDE DEF n
  <2>5. depth' = n' /\ (owner' = NoOwner <=> depth' = 0)
    BY <2>1, <2>2, <1>1, <1>3, <1>6
  <2>6. QED
    BY <2>3, <2>4, <2>5, <1>2
<1>11. QED
  BY <1>7, <1>8, <1>9, <1>10

\* The loader lock is held once for every call in progress that keeps it, and all
\* those calls are on one thread: LoaderGuards are dropped on every path.
THEOREM RegistryGuardsMatchFrames == Spec => []GuardsMatchFrames
<1>1. Init => GuardsMatchFrames
  <2> SUFFICES ASSUME Init PROVE GuardsMatchFrames
    OBVIOUS
  <2>1. At(stack, Locking) = {} /\ owner = NoOwner /\ depth = 0
    BY DEF Init, At
  <2>2. QED
    BY <2>1, FS_EmptySet DEF GuardsMatchFrames
<1>2. LeaseInv /\ LeaseInv' /\ GuardsMatchFrames /\ [Next]_vars => GuardsMatchFrames'
  <2> SUFFICES ASSUME LeaseInv, LeaseInv', GuardsMatchFrames, [Next]_vars
               PROVE  GuardsMatchFrames'
    OBVIOUS
  <2>1. Typed /\ TypeOK' /\ FiniteBooks'
    BY DEF LeaseInv, Inv, Typed
  <2>2. CASE Next
    BY <2>1, <2>2, GuardsStep DEF Next
  <2>3. CASE UNCHANGED vars
    BY <2>3 DEF vars, GuardsMatchFrames, At
  <2>4. QED
    BY <2>2, <2>3
<1>3. QED
  BY <1>1, <1>2, LeaseInit, LeaseNext, PTL DEF Spec

\* The registry only ever takes and drops the loader lock as a reentrant lock allows,
\* so the two locks proved to be one (mod imp of loader_lock.rs) serve it.
THEOREM RegistryUsesReentrantLock == Spec => UsesReentrantLock
<1>1. Init => ReentrantLockOfCalls!Init
  BY DEF Init, ReentrantLockOfCalls!Init
<1>2. LeaseInv /\ LeaseInv' /\ GuardsMatchFrames /\ [Next]_vars =>
        [ReentrantLockOfCalls!Next]_(ReentrantLockOfCalls!lockVars)
  <2> SUFFICES ASSUME LeaseInv, LeaseInv', GuardsMatchFrames, [Next]_vars
               PROVE  [ReentrantLockOfCalls!Next]_(ReentrantLockOfCalls!lockVars)
    OBVIOUS
  <2>1. Typed /\ TypeOK' /\ FiniteBooks'
    BY DEF LeaseInv, Inv, Typed
  <2>2. CASE Next
    BY <2>1, <2>2, GuardsStep
       DEF Next, ReentrantLockOfCalls!Next, ReentrantLockOfCalls!lockVars
  <2>3. CASE UNCHANGED vars
    BY <2>3 DEF vars, ReentrantLockOfCalls!lockVars
  <2>4. QED
    BY <2>2, <2>3
<1>3. QED
  BY <1>1, <1>2, LeaseInit, LeaseNext, RegistryGuardsMatchFrames, PTL
     DEF Spec, UsesReentrantLock, ReentrantLockOfCalls!Spec

-----------------------------------------------------------------------------
(* The load counters *)

\* Which frames bring a module in.
LEMMA BringsFacts ==
    ASSUME NEW x \in Modules
    PROVE  /\ Bringing(x) \in SUBSET Frame
           /\ \A f \in Frame : f.kind # "init" => Adds(f, Bringing(x)) = 0
           /\ \A f \in Frame : f.kind = "init" => Adds(f, Bringing(x)) = Adds(x, f.mods)
BY DEF Bringing, Adds

\* The steps that neither publish modules nor end their initialization.
OtherStep(t) ==
    \/ UserCall(t)
    \/ FailLoad(t) \/ RegisterHandle(t) \/ DropTemporary(t)
    \/ EndCallbacks(t) \/ DropSnapshot(t) \/ EndIterate(t)
    \/ EndDestructor(t) \/ EndFinalizers(t)

\* They bring in nothing.
LEMMA OthersBringNothing ==
    ASSUME Typed, NEW t \in Threads, OtherStep(t), NEW x \in Modules
    PROVE  N(Bringing(x))' = N(Bringing(x))
<1> DEFINE B == Bringing(x)
           Goal == N(B)' = N(B)
<1> SUFFICES Goal
  OBVIOUS
<1>1. /\ Apis \subseteq {"c", "rust"} /\ OpenFlagSets \subseteq SUBSET Flags
      /\ Main \in Modules /\ {} \in SUBSET Flags
  BY ModulesAssumption
<1>2. /\ B \in SUBSET Frame
      /\ \A f \in Frame : f.kind # "init" => Adds(f, B) = 0
      /\ \A f \in B : f.kind # "fini"
      /\ stack[t] \in Seq(Frame) /\ committed \in SUBSET Modules
  BY BringsFacts DEF Bringing, Typed, TypeOK
<1>3. stack[t] # <<>> => Top(t) \in Frame /\ Tail(stack[t]) \in Seq(Frame)
  BY TopFrame
<1> HIDE DEF B
<1>4. /\ N(B) \in Nat
      /\ Cnt(t, stack[t], B) = N(B)
      /\ \A s \in Seq(Frame) : Cnt(t, s, B) \in Nat
      /\ \A s \in Seq(Frame), f \in Frame : Cnt(t, Push(f, s), B) = Cnt(t, s, B) + Adds(f, B)
      /\ stack[t] # <<>> => Cnt(t, Tail(stack[t]), B) = N(B) - Adds(Top(t), B)
      /\ \A s : SetStack(t, s) => N(B)' = Cnt(t, s, B)
  BY <1>2, CntFacts DEF Typed, TypeOK, FiniteBooks
<1>5. ASSUME NEW m \in Modules, NEW s \in Seq(Frame), Cnt(t, s, B) = N(B), Release(t, m, s)
      PROVE  Goal
  <2>1. N(B)' = Cnt(t, s, B)
    BY <1>2, <1>5, ReleaseCount
  <2>2. QED
    BY <2>1, <1>5
<1>6. ASSUME NEW m \in Modules, NEW fs \in SUBSET Flags, NEW api \in {"c", "rust"},
             Opened(t, m, fs, api, stack[t])
      PROVE  Goal
  <2> DEFINE f == NewFrame("opened", m, {}, fs, api)
  <2>1. f \in Frame /\ f.kind = "opened"
    BY NewFrameFacts DEF Kinds
  <2>2. N(B)' = Cnt(t, stack[t], B) + IF api = "c" THEN Adds(f, B) ELSE 0
    <3>1. B \in SUBSET Frame /\ stack[t] \in Seq(Frame)
      BY <1>2
    <3>2. QED
      BY <3>1, <1>6, OpenedCount, ZenonT(60)
  <2> HIDE DEF f
  <2>3. Adds(f, B) = 0
    BY <2>1, <1>2
  <2>4. QED
    BY <2>2, <2>3, <1>4
<1>7. ASSUME NEW f \in Frame, f.kind # "init", SetStack(t, Push(f, stack[t]))
      PROVE  Goal
  BY <1>2, <1>4, <1>7
<1>8. ASSUME stack[t] # <<>>, Top(t).kind # "init"
      PROVE  /\ Cnt(t, Tail(stack[t]), B) = N(B)
             /\ SetStack(t, Tail(stack[t])) => Goal
  BY <1>2, <1>3, <1>4, <1>8
<1>9. ASSUME stack[t] # <<>>, Top(t).kind # "init", NEW g \in Frame, g.kind # "init"
      PROVE  /\ Cnt(t, Push(g, Tail(stack[t])), B) = N(B)
             /\ SetStack(t, Push(g, Tail(stack[t]))) => Goal
  <2> DEFINE r == Tail(stack[t])
  <2>1. r \in Seq(Frame) /\ Cnt(t, r, B) = N(B) /\ Adds(g, B) = 0
    BY <1>2, <1>3, <1>8, <1>9
  <2> HIDE DEF r
  <2>2. Cnt(t, Push(g, r), B) = N(B)
    BY <2>1, <1>4
  <2>3. SetStack(t, Push(g, r)) => Goal
    BY <2>2, <1>4
  <2>4. QED
    BY <2>2, <2>3 DEF r
<1>10. stack' = stack => Goal
  BY DEF N, At
<1> HIDE DEF Goal
<1>11. ASSUME NEW api \in Apis, OpenMain(t, api)
       PROVE  Goal
  BY <1>11, <1>1, <1>6 DEF OpenMain
<1>12. ASSUME NEW api \in Apis, NEW m \in Modules, NEW fs \in OpenFlagSets,
              OpenExisting(t, m, fs, api) \/ OpenAlias(t, m, fs, api)
       PROVE  Goal
  <2>1. /\ Opened(t, m, fs, api, stack[t])
        /\ api \in {"c", "rust"} /\ fs \in SUBSET Flags
    BY <1>1, <1>12 DEF OpenExisting, OpenAlias
  <2>2. QED
    BY <2>1, <1>6
<1>13. ASSUME NEW api \in Apis, NEW m \in Modules, NEW fs \in OpenFlagSets,
              BeginLoad(t, m, fs, api)
       PROVE  Goal
  <2> DEFINE new == Group({m}) \ committed
             f == NewFrame("relocate", m, new, fs, api)
  <2>1. SetStack(t, Push(f, stack[t]))
    BY <1>13 DEF BeginLoad
  <2>2. f \in Frame /\ f.kind = "relocate"
    <3>1. new \in SUBSET Modules /\ fs \in SUBSET Flags /\ api \in {"c", "rust"}
      BY <1>1, GroupContains
    <3> HIDE DEF new
    <3>2. QED
      BY <3>1, NewFrameFacts DEF Kinds
  <2> HIDE DEF f
  <2>3. QED
    BY <2>1, <2>2, <1>7
<1>14. ASSUME NEW m \in Modules, CloseHandle(t, m) \/ DropLibrary(t, m)
       PROVE  Goal
  <2>1. Release(t, m, stack[t])
    BY <1>14 DEF CloseHandle, DropLibrary
  <2>2. QED
    BY <2>1, <1>2, <1>4, <1>5
<1>15. ASSUME NEW m \in Modules, LibraryByAddr(t, m) \/ RegisterDestructor(t, m)
       PROVE  Goal
  BY <1>15, <1>10 DEF LibraryByAddr, RegisterDestructor
<1>16. ASSUME NEW m \in Modules, TakeTemporary(t, m)
       PROVE  Goal
  <2> DEFINE f == NewFrame("temp", m, {}, {}, "c")
  <2>1. SetStack(t, Push(f, stack[t]))
    BY <1>16 DEF TakeTemporary
  <2>2. f \in Frame /\ f.kind = "temp"
    BY NewFrameFacts DEF Kinds
  <2> HIDE DEF f
  <2>3. QED
    BY <2>1, <2>2, <1>7
<1>17. ASSUME NEW m \in Modules, RunDestructor(t, m)
       PROVE  Goal
  <2> DEFINE f == NewFrame("dtor", m, {}, {}, "c")
  <2>1. stack[t] = <<>> /\ SetStack(t, <<f>>)
    BY <1>17 DEF RunDestructor
  <2>2. f \in Frame /\ f.kind = "dtor"
    BY NewFrameFacts DEF Kinds
  <2> HIDE DEF f
  <2>3. SetStack(t, Push(f, stack[t]))
    BY <2>1 DEF Push
  <2>4. QED
    BY <2>2, <2>3, <1>7
<1>18. CASE Iterate(t)
  <2> DEFINE f == NewFrame("iter", Main, committed, {}, "c")
  <2>1. SetStack(t, Push(f, stack[t]))
    BY <1>18 DEF Iterate
  <2>2. f \in Frame /\ f.kind = "iter"
    BY <1>1, <1>2, NewFrameFacts DEF Kinds
  <2> HIDE DEF f
  <2>3. QED
    BY <2>1, <2>2, <1>7
<1>19. CASE UserCall(t)
  BY <1>19, <1>11, <1>12, <1>13, <1>14, <1>15, <1>16, <1>17, <1>18 DEF UserCall
<1>20. CASE FailLoad(t) \/ RegisterHandle(t) \/ EndIterate(t) \/ EndFinalizers(t)
  <2>1. /\ stack[t] # <<>> /\ Top(t).kind # "init"
        /\ SetStack(t, Tail(stack[t]))
    BY <1>20 DEF FailLoad, RegisterHandle, EndIterate, EndFinalizers, In
  <2>2. QED
    BY <2>1, <1>8
<1>21. CASE DropTemporary(t) \/ EndDestructor(t)
  <2>1. /\ stack[t] # <<>> /\ Top(t).kind # "init"
        /\ Release(t, Top(t).root, Tail(stack[t]))
    BY <1>21 DEF DropTemporary, EndDestructor, In
  <2>2. Top(t).root \in Modules
    BY <2>1, <1>3 DEF Frame
  <2>3. QED
    BY <2>1, <2>2, <1>3, <1>5, <1>8
<1>22. CASE EndCallbacks(t)
  <2> DEFINE g == [Top(t) EXCEPT !.kind = "drop"]
  <2>1. /\ stack[t] # <<>> /\ Top(t).kind = "iter"
        /\ SetStack(t, Push(g, Tail(stack[t])))
    BY <1>22 DEF EndCallbacks, In
  <2>2. g \in Frame /\ g.kind = "drop"
    BY <2>1, <1>3 DEF Frame, Kinds
  <2> HIDE DEF g
  <2>3. QED
    BY <2>1, <2>2, <1>9
<1>23. CASE DropSnapshot(t)
  <2>1. PICK m \in Top(t).mods :
          Release(t, m, Push([Top(t) EXCEPT !.mods = @ \ {m}], Tail(stack[t])))
    BY <1>23 DEF DropSnapshot
  <2> DEFINE g == [Top(t) EXCEPT !.mods = @ \ {m}]
  <2>2. stack[t] # <<>> /\ Top(t).kind = "drop"
    BY <1>23 DEF DropSnapshot, In
  <2>3. g \in Frame /\ g.kind = "drop" /\ m \in Modules
    BY <2>1, <2>2, <1>3 DEF Frame
  <2>4. Release(t, m, Push(g, Tail(stack[t])))
    BY <2>1
  <2> HIDE DEF g
  <2>5. Push(g, Tail(stack[t])) \in Seq(Frame)
    BY <2>2, <2>3, <1>3, PushIndices
  <2>6. QED
    BY <2>2, <2>3, <2>4, <2>5, <1>5, <1>9
<1>24. QED
  BY <1>19, <1>20, <1>21, <1>22, <1>23 DEF OtherStep

\* What release unloads it counts.
LEMMA OthersCount ==
    ASSUME Typed, NEW t \in Threads, OtherStep(t)
    PROVE  /\ adds' = adds /\ left' = left /\ swept' = swept
           /\ \E gone \in SUBSET committed :
                committed' = committed \ gone /\ subs' = subs + Cardinality(gone)
<1> DEFINE Gone == \E gone \in SUBSET committed :
                     committed' = committed \ gone /\ subs' = subs + Cardinality(gone)
           Goal == adds' = adds /\ left' = left /\ swept' = swept /\ Gone
<1> SUFFICES Goal
  OBVIOUS
<1>1. ASSUME committed' = committed, subs' = subs
      PROVE  Gone
  <2>1. subs' = subs + Cardinality({})
    BY <1>1, FS_EmptySet DEF Typed, TypeOK
  <2>2. committed' = committed \ {}
    BY <1>1
  <2>3. QED
    BY <2>1, <2>2
<1>2. ASSUME NEW m, NEW s, Release(t, m, s)
      PROVE  Gone
  BY <1>2 DEF Release
<1> HIDE DEF Gone
<1>3. ASSUME NEW api, OpenMain(t, api)
      PROVE  Goal
  BY <1>3, <1>1 DEF OpenMain
<1>4. ASSUME NEW api, NEW m, NEW fs,
             OpenExisting(t, m, fs, api) \/ OpenAlias(t, m, fs, api)
      PROVE  Goal
  BY <1>4, <1>1 DEF OpenExisting, OpenAlias
<1>5. ASSUME NEW api, NEW m, NEW fs, BeginLoad(t, m, fs, api)
      PROVE  Goal
  BY <1>5, <1>1 DEF BeginLoad, ctxVars
<1>6. ASSUME NEW m, CloseHandle(t, m) \/ DropLibrary(t, m)
      PROVE  Goal
  BY <1>6, <1>2 DEF CloseHandle, DropLibrary
<1>7. ASSUME NEW m, LibraryByAddr(t, m) \/ TakeTemporary(t, m)
                    \/ RegisterDestructor(t, m)
      PROVE  Goal
  BY <1>7, <1>1 DEF LibraryByAddr, TakeTemporary, RegisterDestructor
<1>8. ASSUME NEW m, RunDestructor(t, m)
      PROVE  Goal
  BY <1>8, <1>1 DEF RunDestructor, ctxVars
<1>9. CASE Iterate(t)
  BY <1>9, <1>1 DEF Iterate
<1>10. CASE UserCall(t)
  BY <1>10, <1>3, <1>4, <1>5, <1>6, <1>7, <1>8, <1>9 DEF UserCall
<1>11. CASE FailLoad(t) \/ RegisterHandle(t) \/ EndIterate(t) \/ EndFinalizers(t)
            \/ EndCallbacks(t)
  BY <1>11, <1>1 DEF FailLoad, RegisterHandle, EndIterate, EndFinalizers, EndCallbacks,
     ctxVars
<1>12. CASE DropTemporary(t) \/ EndDestructor(t) \/ DropSnapshot(t)
  BY <1>12, <1>2 DEF DropTemporary, EndDestructor, DropSnapshot
<1>13. QED
  BY <1>10, <1>11, <1>12 DEF OtherStep

\* The modules not counted yet are those some call in progress brings in.
LEMMA UncountedIs ==
    ASSUME Typed
    PROVE  /\ \A x \in Modules : N(Bringing(x)) \in Nat
           /\ Uncounted = {x \in Modules : N(Bringing(x)) # 0}
<1>1. ASSUME NEW x \in Modules
      PROVE  /\ N(Bringing(x)) \in Nat
             /\ N(Bringing(x)) # 0 <=> At(stack, Bringing(x)) # {}
  <2> DEFINE A == At(stack, Bringing(x))
  <2>1. A \subseteq At(stack, Frame)
    BY DEF At, Bringing
  <2>2. IsFiniteSet(A)
    BY <2>1, FS_Subset DEF Typed, FiniteBooks
  <2> HIDE DEF A
  <2>3. Cardinality(A) \in Nat /\ (Cardinality(A) = 0 <=> A = {})
    BY <2>2, FS_CardinalityType, FS_EmptySet
  <2>4. QED
    BY <2>3 DEF N, A
<1>2. \A p \in Positions : stack[p[1]][p[2]] \in Frame
  BY DEF Positions, Typed, TypeOK
<1>3. ASSUME NEW x \in Modules
      PROVE  x \in Uncounted <=> At(stack, Bringing(x)) # {}
  BY <1>2 DEF Uncounted, At, Positions, Bringing
<1>4. Uncounted \subseteq Modules
  BY <1>2 DEF Uncounted, Frame
<1>5. QED
  BY <1>1, <1>3, <1>4

\* Modules are finitely many, and so are any of them.
LEMMA ModuleSets ==
    ASSUME NEW S \in SUBSET Modules, NEW T \in SUBSET Modules
    PROVE  /\ Cardinality(S) \in Nat
           /\ T \subseteq S => Cardinality(S \ T) = Cardinality(S) - Cardinality(T)
           /\ S \cap T = {} => Cardinality(S \cup T) = Cardinality(S) + Cardinality(T)
<1>1. IsFiniteSet(S) /\ IsFiniteSet(T)
  BY FiniteAssumption, FS_Subset
<1>2. Cardinality(S) \in Nat /\ Cardinality(T) \in Nat
  BY <1>1, FS_CardinalityType
<1>3. T \subseteq S => Cardinality(S \ T) = Cardinality(S) - Cardinality(T)
  <2> SUFFICES ASSUME T \subseteq S
               PROVE  Cardinality(S \ T) = Cardinality(S) - Cardinality(T)
    OBVIOUS
  <2>1. Cardinality(S \ T) = Cardinality(S) - Cardinality(S \cap T)
    BY <1>1, FS_Difference
  <2>2. S \cap T = T
    OBVIOUS
  <2>3. QED
    BY <2>1, <2>2
<1>4. S \cap T = {} => Cardinality(S \cup T) = Cardinality(S) + Cardinality(T)
  <2> SUFFICES ASSUME S \cap T = {}
               PROVE  Cardinality(S \cup T) = Cardinality(S) + Cardinality(T)
    OBVIOUS
  <2>1. Cardinality(S \cup T) = Cardinality(S) + Cardinality(T) - Cardinality(S \cap T)
    BY <1>1, FS_Union
  <2>2. Cardinality(S \cap T) = 0
    BY FS_EmptySet
  <2>3. QED
    BY <1>2, <2>1, <2>2
<1>5. QED
  BY <1>2, <1>3, <1>4

\* publish brings its modules in, the end of a load counts them or takes them back.
LEMMA LoadsBring ==
    ASSUME Typed, NEW t \in Threads, NEW x \in Modules
    PROVE  /\ Publish(t) =>
                N(Bringing(x))' = N(Bringing(x)) + Adds(x, Top(t).mods)
           /\ FinishLoad(t) \/ RollbackLoad(t) =>
                N(Bringing(x))' = N(Bringing(x)) - Adds(x, Top(t).mods)
<1> DEFINE B == Bringing(x)
           s == Tail(stack[t])
<1>1. /\ B \in SUBSET Frame
      /\ \A f \in Frame : f.kind # "init" => Adds(f, B) = 0
      /\ \A f \in Frame : f.kind = "init" => Adds(f, B) = Adds(x, f.mods)
  BY BringsFacts
<1>2. stack[t] # <<>> => Top(t) \in Frame /\ s \in Seq(Frame)
  BY TopFrame
<1> HIDE DEF B, s
<1>3. /\ N(B) \in Nat
      /\ \A r \in Seq(Frame) : Cnt(t, r, B) \in Nat
      /\ \A r \in Seq(Frame), f \in Frame : Cnt(t, Push(f, r), B) = Cnt(t, r, B) + Adds(f, B)
      /\ stack[t] # <<>> => Cnt(t, s, B) = N(B) - Adds(Top(t), B)
      /\ \A r : SetStack(t, r) => N(B)' = Cnt(t, r, B)
  BY <1>1, CntFacts DEF Typed, TypeOK, FiniteBooks, s
<1>4. ASSUME Publish(t)
      PROVE  N(B)' = N(B) + Adds(x, Top(t).mods)
  <2> DEFINE g == [Top(t) EXCEPT !.kind = "init"]
  <2>1. stack[t] # <<>> /\ Top(t).kind = "relocate" /\ SetStack(t, Push(g, s))
    BY <1>4 DEF Publish, In, s
  <2>2. g \in Frame /\ g.kind = "init" /\ g.mods = Top(t).mods
    BY <2>1, <1>2 DEF Frame, Kinds
  <2> HIDE DEF g
  <2>3. Adds(Top(t), B) = 0 /\ Adds(g, B) = Adds(x, Top(t).mods)
    BY <2>1, <2>2, <1>1, <1>2
  <2>4. Cnt(t, s, B) = N(B)
    BY <2>1, <2>3, <1>3
  <2>5. N(B)' = Cnt(t, s, B) + Adds(g, B)
    BY <2>1, <2>2, <1>2, <1>3
  <2>6. QED
    BY <2>3, <2>4, <2>5
<1>5. ASSUME FinishLoad(t) \/ RollbackLoad(t)
      PROVE  N(B)' = N(B) - Adds(x, Top(t).mods)
  <2>1. stack[t] # <<>> /\ Top(t).kind = "init"
    BY <1>5 DEF FinishLoad, RollbackLoad, In
  <2>2. Adds(Top(t), B) = Adds(x, Top(t).mods)
    BY <2>1, <1>1, <1>2
  <2>3. N(B)' = Cnt(t, s, B)
    <3>1. CASE RollbackLoad(t)
      BY <3>1, <1>3 DEF RollbackLoad, s
    <3>2. CASE FinishLoad(t)
      <4> DEFINE m == Top(t).root
                 fs == Top(t).flags
                 api == Top(t).api
                 f == NewFrame("opened", m, {}, fs, api)
      <4>1. Opened(t, m, fs, api, s)
        BY <3>2 DEF FinishLoad, s
      <4>2. /\ m \in Modules /\ fs \in SUBSET Flags /\ api \in {"c", "rust"}
            /\ B \in SUBSET Frame /\ s \in Seq(Frame)
        BY <2>1, <1>1, <1>2 DEF Frame
      <4> HIDE DEF m, fs, api
      <4>3. f \in Frame /\ f.kind = "opened"
        BY <4>2, NewFrameFacts DEF Kinds
      <4>4. N(B)' = Cnt(t, s, B) + IF api = "c" THEN Adds(f, B) ELSE 0
        BY <4>1, <4>2, OpenedCount, ZenonT(60)
      <4> HIDE DEF f
      <4>5. Adds(f, B) = 0 /\ Cnt(t, s, B) \in Nat
        BY <4>2, <4>3, <1>1, <1>3
      <4>6. QED
        BY <4>4, <4>5
    <3>3. QED
      BY <3>1, <3>2, <1>5
  <2>4. QED
    BY <2>1, <2>2, <2>3, <1>3
<1>6. QED
  BY <1>4, <1>5 DEF B

\* What is brought in is loaded (a load holds a lease of its root).
LEMMA BroughtIsLoaded ==
    ASSUME LeaseInv
    PROVE  Uncounted \subseteq committed
<1> SUFFICES ASSUME NEW p \in Positions, stack[p[1]][p[2]].kind = "init"
             PROVE  stack[p[1]][p[2]].mods \subseteq committed
  BY DEF Uncounted
<1> DEFINE f == stack[p[1]][p[2]]
<1>1. f \in GoodFrame /\ committed \in SUBSET Modules /\ Closed(committed)
  <2>1. TypeOK /\ LoadsTheirGroup /\ ExactlyRetained
    BY DEF LeaseInv, Inv
  <2>2. f \in GoodFrame
    BY <2>1 DEF Positions, LoadsTheirGroup
  <2>3. QED
    BY <2>1, <2>2, RetainedFacts DEF TypeOK, ExactlyRetained
<1>2. f.root \in Modules /\ f.mods \subseteq Group({f.root})
  BY <1>1 DEF GoodFrame, Frame
<1>3. f.root \in committed
  <2>1. FrameHolds(f, f.root)
    BY DEF FrameHolds
  <2>2. QED
    BY <1>2, <2>1, HeldIsLoaded
<1> HIDE DEF f
<1>4. Group({f.root}) \subseteq committed
  BY <1>1, <1>3, GroupLeast
<1>5. QED
  BY <1>2, <1>4 DEF f

\* Every step keeps the counters in step with the loaded modules.
LEMMA CountStep ==
    ASSUME LeaseInv, Typed', OneLoadEach, CountersMatch,
           NEW t \in Threads, UserCall(t) \/ Continue(t)
    PROVE  OneLoadEach' /\ CountersMatch'
<1> DEFINE U == Uncounted
           n(x) == N(Bringing(x))
           new == Top(t).mods
<1>1. Typed /\ LoadsTheirGroup /\ committed \in SUBSET Modules
      /\ adds \in Nat /\ subs \in Nat /\ left \in Nat /\ swept \in Nat
  BY DEF LeaseInv, Inv, Typed, TypeOK
<1>2. /\ \A x \in Modules : n(x) \in Nat
      /\ U = {x \in Modules : n(x) # 0}
  BY <1>1, UncountedIs
<1>3. U' = {x \in Modules : n(x)' # 0}
  <2>1. (Typed => Uncounted = {x \in Modules : N(Bringing(x)) # 0})'
    BY UncountedIs, PTL
  <2>2. QED
    BY <2>1
<1>4. \A x \in Modules : n(x) <= 1
  BY DEF OneLoadEach, N
<1>5. (adds + left) - (subs + swept) = Cardinality(committed) - Cardinality(U)
  BY DEF CountersMatch
<1>6. OneLoadEach' <=> \A x \in Modules : n(x)' <= 1
  BY DEF OneLoadEach, N
<1>7. CountersMatch' <=>
        (adds' + left') - (subs' + swept') = Cardinality(committed') - Cardinality(U')
  BY DEF CountersMatch
<1>8. U \subseteq committed
  BY BroughtIsLoaded
<1>9. Cardinality(committed) \in Nat /\ Cardinality(U) \in Nat
  BY <1>1, <1>8, CountNat
<1> HIDE DEF U
<1>10. CASE OtherStep(t)
  <2>1. \A x \in Modules : n(x)' = n(x)
    BY <1>1, <1>10, OthersBringNothing
  <2>2. U' = U
    BY <2>1, <1>2, <1>3
  <2>3. PICK gone \in SUBSET committed :
          committed' = committed \ gone /\ subs' = subs + Cardinality(gone)
    BY <1>1, <1>10, OthersCount
  <2>4. adds' = adds /\ left' = left /\ swept' = swept
    BY <1>1, <1>10, OthersCount
  <2>5. /\ Cardinality(gone) \in Nat
        /\ Cardinality(committed') = Cardinality(committed) - Cardinality(gone)
    BY <1>1, <2>3, ModuleSets
  <2>6. CountersMatch'
    BY <2>2, <2>3, <2>4, <2>5, <1>1, <1>5, <1>7, <1>9
  <2>7. QED
    BY <2>1, <2>6, <1>4, <1>6
<1>11. CASE Publish(t)
  <2>1. /\ new \cap committed = {} /\ committed' = committed \cup new
        /\ adds' = adds /\ subs' = subs /\ left' = left /\ swept' = swept
    BY <1>11 DEF Publish
  <2>2. new \in SUBSET Modules
    BY <1>1, <1>11, LoadFacts DEF Publish
  <2>3. \A x \in Modules : n(x)' = n(x) + Adds(x, new)
    BY <1>1, <1>11, LoadsBring
  <2> HIDE DEF new, n
  <2>4. \A x \in new : n(x) = 0
    BY <2>1, <2>2, <1>2, <1>8
  <2>5. \A x \in Modules : n(x)' = IF x \in new THEN 1 ELSE n(x)
    <3> SUFFICES ASSUME NEW x \in Modules
                 PROVE  n(x)' = IF x \in new THEN 1 ELSE n(x)
      OBVIOUS
    <3>1. n(x)' = n(x) + Adds(x, new) /\ n(x) \in Nat
      BY <2>3, <1>2
    <3>2. QED
      BY <3>1, <2>4 DEF Adds
  <2>6. U' = U \cup new
    BY <2>2, <2>5, <1>2, <1>3
  <2>7. /\ Cardinality(new) \in Nat
        /\ Cardinality(committed') = Cardinality(committed) + Cardinality(new)
        /\ Cardinality(U') = Cardinality(U) + Cardinality(new)
    <3>1. U \in SUBSET Modules /\ U \cap new = {} /\ committed \cap new = {}
      BY <2>1, <1>1, <1>8
    <3>2. QED
      BY <3>1, <2>1, <2>2, <2>6, <1>1, ModuleSets
  <2>8. CountersMatch'
    BY <2>1, <2>7, <1>1, <1>5, <1>7, <1>9
  <2>9. \A x \in Modules : n(x)' <= 1
    BY <2>5, <1>4
  <2>10. QED
    BY <2>8, <2>9, <1>6 DEF n
<1>12. CASE FinishLoad(t) \/ RollbackLoad(t)
  <2>1. new \in SUBSET Modules
    BY <1>1, <1>12, LoadFacts DEF FinishLoad, RollbackLoad
  <2>2. \A x \in Modules : n(x)' = n(x) - Adds(x, new)
    BY <1>1, <1>12, LoadsBring
  <2>3. new \subseteq U
    <3>1. stack[t] # <<>> /\ Top(t).kind = "init"
      BY <1>12 DEF FinishLoad, RollbackLoad, In
    <3>2. stack[t] \in Seq(Frame)
      BY <1>1 DEF Typed, TypeOK
    <3>3. 1 \in DOMAIN stack[t] /\ stack[t][1] = Top(t)
      BY <3>1, <3>2 DEF Top
    <3>4. <<t, 1>> \in Positions
      BY <3>3 DEF Positions
    <3>5. QED
      BY <3>1, <3>3, <3>4 DEF U, Uncounted
  <2> HIDE DEF new, n
  <2>4. \A x \in Modules : n(x)' = IF x \in new THEN 0 ELSE n(x)
    <3> SUFFICES ASSUME NEW x \in Modules
                 PROVE  n(x)' = IF x \in new THEN 0 ELSE n(x)
      OBVIOUS
    <3>1. n(x)' = n(x) - Adds(x, new) /\ n(x) \in Nat /\ n(x) <= 1
      BY <2>2, <1>2, <1>4
    <3>2. x \in new => n(x) # 0
      BY <2>3, <1>2
    <3>3. QED
      BY <3>1, <3>2 DEF Adds
  <2>5. U' = U \ new
    BY <2>4, <1>2, <1>3
  <2>6. \A x \in Modules : n(x)' <= 1
    BY <2>4, <1>4
  <2>7. /\ Cardinality(new) \in Nat
        /\ Cardinality(U') = Cardinality(U) - Cardinality(new)
        /\ Cardinality(committed \ new) = Cardinality(committed) - Cardinality(new)
    <3>1. U \in SUBSET Modules /\ new \subseteq committed
      BY <2>3, <1>1, <1>8
    <3>2. QED
      BY <3>1, <2>1, <2>3, <2>5, <1>1, ModuleSets
  <2>8. CountersMatch'
    <3>1. CASE FinishLoad(t)
      <4>1. /\ adds' = adds + Cardinality(new) /\ committed' = committed
            /\ subs' = subs /\ left' = left /\ swept' = swept
        BY <3>1 DEF FinishLoad, new
      <4> DEFINE a == (adds + left) - (subs + swept)
                 c == Cardinality(committed)
                 u == Cardinality(U)
                 k == Cardinality(new)
      <4>2. /\ a \in Int /\ c \in Int /\ u \in Int /\ k \in Int /\ a = c - u
            /\ (adds' + left') - (subs' + swept') = a + k
        BY <4>1, <2>7, <1>1, <1>5, <1>9
      <4>3. Cardinality(committed') = c /\ Cardinality(U') = u - k
        BY <4>1, <2>7
      <4> HIDE DEF a, c, u, k
      <4>4. QED
        BY <4>2, <4>3, <1>7
    <3>2. CASE RollbackLoad(t)
      <4> DEFINE gone == committed \ Retained([acq EXCEPT ![Top(t).root] = @ - 1], pinned)
                 b == (adds + left) - (subs + swept)
                 c == Cardinality(committed)
                 u == Cardinality(U)
                 k == Cardinality(new)
                 x == Cardinality(new \ gone)
                 y == Cardinality(gone \ new)
                 g == Cardinality(gone)
      <4>1. /\ adds' = adds /\ subs' = subs
            /\ \/ committed' = committed \ gone /\ left' = left + x /\ swept' = swept + y
               \/ committed' = committed /\ left' = left + k /\ swept' = swept
        BY <3>2 DEF RollbackLoad, new
      <4>2. gone \in SUBSET committed
        OBVIOUS
      <4> HIDE DEF gone
      <4>3. /\ x \in Nat /\ y \in Nat /\ g \in Nat /\ k \in Nat
            /\ Cardinality(committed \ gone) = c - g
        BY <2>1, <4>2, <1>1, ModuleSets
      <4>4. g - y = k - x
        <5>1. /\ gone \cap new \in SUBSET Modules /\ gone \in SUBSET Modules
              /\ gone \ (gone \cap new) = gone \ new /\ new \ (gone \cap new) = new \ gone
          BY <2>1, <4>2, <1>1
        <5>2. /\ Cardinality(gone \cap new) \in Nat
              /\ y = g - Cardinality(gone \cap new) /\ x = k - Cardinality(gone \cap new)
          <6>1. gone \cap new \subseteq gone /\ gone \cap new \subseteq new
            OBVIOUS
          <6>2. QED
            BY <5>1, <6>1, <2>1, ModuleSets
        <5>3. QED
          BY <5>2, <4>3
      <4>5. b \in Int /\ c \in Int /\ u \in Int /\ b = c - u /\ Cardinality(U') = u - k
        BY <2>7, <1>1, <1>5, <1>9
      <4>6. CASE committed' = committed \ gone /\ left' = left + x /\ swept' = swept + y
        <5>1. (adds' + left') - (subs' + swept') = b + x - y
          BY <4>1, <4>3, <4>6, <1>1
        <5>2. Cardinality(committed') = c - g
          BY <4>3, <4>6
        <5> HIDE DEF b, c, u, k, x, y, g
        <5>3. QED
          BY <5>1, <5>2, <4>3, <4>4, <4>5, <1>7
      <4>7. CASE committed' = committed /\ left' = left + k /\ swept' = swept
        <5>1. (adds' + left') - (subs' + swept') = b + k
          BY <4>1, <4>3, <4>7, <1>1
        <5>2. Cardinality(committed') = c
          BY <4>7
        <5> HIDE DEF b, c, u, k, x, y, g
        <5>3. QED
          BY <5>1, <5>2, <4>3, <4>5, <1>7
      <4>8. QED
        BY <4>1, <4>6, <4>7
    <3>3. QED
      BY <3>1, <3>2, <1>12
  <2>9. QED
    BY <2>6, <2>8, <1>6 DEF n
<1>13. QED
  BY <1>10, <1>11, <1>12 DEF Continue, OtherStep

\* The counters of dl_iterate_phdr account for every loaded module but for those that
\* failed loads leave behind or take along, and a module is never brought in by two
\* loads at once (open_load, Manager::release, rollback).
THEOREM RegistryCountersMatch == Spec => [](CountersMatch /\ OneLoadEach)
<1>1. Init => CountersMatch /\ OneLoadEach
  <2> SUFFICES ASSUME Init PROVE CountersMatch /\ OneLoadEach
    OBVIOUS
  <2>1. Cardinality({}) = 0 /\ Cardinality(Preloaded) \in Nat
    BY FS_EmptySet, ModulesAssumption, CountNat
  <2>2. Uncounted = {} /\ \A m \in Modules : At(stack, Bringing(m)) = {}
    BY DEF Init, Uncounted, Positions, At
  <2>3. CountersMatch
    BY <2>1, <2>2 DEF Init, CountersMatch
  <2>4. QED
    BY <2>1, <2>2, <2>3 DEF OneLoadEach
<1>2. LeaseInv /\ LeaseInv' /\ CountersMatch /\ OneLoadEach /\ [Next]_vars =>
        CountersMatch' /\ OneLoadEach'
  <2> SUFFICES ASSUME LeaseInv, LeaseInv', CountersMatch, OneLoadEach, [Next]_vars
               PROVE  CountersMatch' /\ OneLoadEach'
    OBVIOUS
  <2>1. Typed'
    BY DEF LeaseInv, Inv, Typed
  <2>2. CASE Next
    BY <2>1, <2>2, CountStep DEF Next
  <2>3. CASE UNCHANGED vars
    BY <2>3 DEF vars, CountersMatch, Uncounted, Positions, OneLoadEach, At
  <2>4. QED
    BY <2>2, <2>3
<1>3. QED
  BY <1>1, <1>2, LeaseInit, LeaseNext, PTL DEF Spec

\* The whole invariant of the registry: context, leases, lock and counters.
THEOREM RegistryFullInvariant == Spec => []FullInv
<1>1. Inv /\ FiniteBooks /\ LeaseConservation /\ GuardsMatchFrames
        /\ CountersMatch /\ OneLoadEach => FullInv
  BY DEF FullInv
<1>2. LeaseInv => Inv /\ FiniteBooks
  BY DEF LeaseInv
<1>3. QED
  BY <1>1, <1>2, LeaseInit, LeaseNext, RegistryLeaseConservation,
     RegistryGuardsMatchFrames, RegistryCountersMatch, PTL DEF Spec
=============================================================================
