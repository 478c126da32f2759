------------------------------ MODULE DebugList ------------------------------
(***************************************************************************)
(* The link maps a debugger finds through r_debug (runtime/debug.rs): a    *)
(* doubly linked list whose head is r_debug.map and whose end is cached in *)
(* CustomDebug::tail.  DEBUG is a mutex, held across the two breakpoint    *)
(* calls of an addition or a removal; `stop` is the call in progress, and  *)
(* the state between the two is what a debugger can look at.               *)
(*                                                                         *)
(* The list is the one of the host's dynamic linker (std build, see module *)
(* HostInit) or starts empty (no_std build).  The host's linker does not   *)
(* change it here.  The l_real field, which no code of this repository     *)
(* reads, is left out, as is a null r_debug pointer, which no build sets.  *)
(***************************************************************************)
EXTENDS Naturals, Sequences, FiniteSets, SequencesExt

CONSTANTS Own,    \* link maps this loader allocates
          First,  \* the link maps of the host, in list order
          Null,   \* the null pointer
          Idle    \* no call holds DEBUG

Host == {First[i] : i \in DOMAIN First}

LinkMaps == Own \cup Host

ASSUME LinkMapsAssumption ==
    /\ First \in Seq(Host)
    /\ \A i, j \in DOMAIN First : First[i] = First[j] => i = j
    /\ Own \cap Host = {}
    /\ Null \notin LinkMaps
    /\ Idle \notin LinkMaps
    /\ IsFiniteSet(Own)

VARIABLES map,        \* r_debug.map
          tail,       \* CustomDebug::tail
          next, prev, \* l_next and l_prev
          rstate,     \* r_debug.r_state
          live,       \* own link maps in memory
          order,      \* history: link maps that were added and not removed, in order
          stop        \* the link map whose ExtraData::drop is at its first stop

vars == <<map, tail, next, prev, rstate, live, order, stop>>

\* The links of the host's list.
HostNext ==
    [m \in LinkMaps |->
       IF \E i \in DOMAIN First : First[i] = m /\ i + 1 \in DOMAIN First
       THEN First[(CHOOSE i \in DOMAIN First : First[i] = m) + 1] ELSE Null]

HostPrev ==
    [m \in LinkMaps |->
       IF \E i \in DOMAIN First : First[i] = m /\ i > 1
       THEN First[(CHOOSE i \in DOMAIN First : First[i] = m) - 1] ELSE Null]

linked == Range(order)

\* init_host_debug: take the list of the host over and walk to its end.
Init ==
    /\ map = IF First = <<>> THEN Null ELSE Head(First)
    /\ tail = IF First = <<>> THEN Null ELSE First[Len(First)]
    /\ next = HostNext
    /\ prev = HostPrev
    /\ rstate = "consistent"
    /\ live = {}
    /\ order = First
    /\ stop = Idle

\* on_after_dynamic_load or from_raw allocates a link map, which points nowhere.
\* A link map of from_raw stays out of the list.
NewLinkMap(m) ==
    /\ m \in Own \ live
    /\ next' = [next EXCEPT ![m] = Null]
    /\ prev' = [prev EXCEPT ![m] = Null]
    /\ live' = live \cup {m}
    /\ UNCHANGED <<map, tail, rstate, order, stop>>

\* Mutant: the new link map becomes the first.
MutantAddFront(m) ==
    /\ stop = Idle
    /\ m \in live \ linked
    /\ next' = [next EXCEPT ![m] = map]
    /\ prev' = [x \in LinkMaps |->
                IF x = m THEN Null ELSE IF x = map THEN m ELSE prev[x]]
    /\ map' = m
    /\ tail' = IF tail = Null THEN m ELSE tail
    /\ rstate' = "consistent"
    /\ order' = Append(order, m)
    /\ UNCHANGED <<live, stop>>

\* add_debug_link_map: append, then stop with RT_ADD and with RT_CONSISTENT; the
\* list does not change between the two stops.
Add(m) ==
    /\ stop = Idle
    /\ m \in live \ linked
    /\ prev' = [prev EXCEPT ![m] = tail]
    /\ next' = [x \in LinkMaps |->
                IF x = m THEN Null ELSE IF x = tail THEN m ELSE next[x]]
    /\ map' = IF tail = Null THEN m ELSE map
    /\ tail' = m
    /\ rstate' = "consistent"
    /\ order' = Append(order, m)
    /\ UNCHANGED <<live, stop>>

\* ExtraData::drop of a link map that was never listed: nothing but the memory goes.
DropUnlisted(m) ==
    /\ stop = Idle
    /\ m \in live
    /\ map # m /\ prev[m] = Null
    /\ live' = live \ {m}
    /\ order' = RemoveFirst(order, m)
    /\ UNCHANGED <<map, tail, next, prev, rstate, stop>>

\* ExtraData::drop of a listed one: stop with RT_DELETE ...
DropBegin(m) ==
    /\ stop = Idle
    /\ m \in live
    /\ map = m \/ prev[m] # Null
    /\ rstate' = "delete"
    /\ stop' = m
    /\ UNCHANGED <<map, tail, next, prev, live, order>>

\* Mutant: the removal of the first link map leaves a back link to it.
MutantUnlink(m) ==
    /\ map' = IF map = m THEN next[m] ELSE map
    /\ tail' = IF tail = m THEN prev[m] ELSE tail
    /\ next' = [x \in LinkMaps |-> IF x = prev[m] THEN next[m] ELSE next[x]]
    /\ prev' = [x \in LinkMaps |-> IF x = next[m] /\ map # m THEN prev[m] ELSE prev[x]]

\* The four cases (first or not, last or not) of unlinking.
Unlink(m) ==
    \/ /\ map = m /\ tail = m
       /\ map' = Null
       /\ tail' = Null
       /\ UNCHANGED <<next, prev>>
    \/ /\ map = m /\ tail # m
       /\ map' = next[m]
       /\ prev' = [prev EXCEPT ![next[m]] = Null]
       /\ UNCHANGED <<next, tail>>
    \/ /\ map # m /\ tail = m
       /\ next' = [next EXCEPT ![prev[m]] = Null]
       /\ tail' = prev[m]
       /\ UNCHANGED <<map, prev>>
    \/ /\ map # m /\ tail # m
       /\ next' = [next EXCEPT ![prev[m]] = next[m]]
       /\ prev' = [prev EXCEPT ![next[m]] = prev[m]]
       /\ UNCHANGED <<map, tail>>

\* ... unlink it, stop with RT_CONSISTENT, release DEBUG, free the memory.
DropEnd(m) ==
    /\ stop = m
    /\ Unlink(m)
    /\ rstate' = "consistent"
    /\ live' = live \ {m}
    /\ order' = RemoveFirst(order, m)
    /\ stop' = Idle

Next == \E m \in Own :
    NewLinkMap(m) \/ Add(m) \/ DropUnlisted(m) \/ DropBegin(m) \/ DropEnd(m)

Spec == Init /\ [][Next]_vars
-----------------------------------------------------------------------------
TypeOK ==
    /\ map \in LinkMaps \cup {Null}
    /\ tail \in LinkMaps \cup {Null}
    /\ next \in [LinkMaps -> LinkMaps \cup {Null}]
    /\ prev \in [LinkMaps -> LinkMaps \cup {Null}]
    /\ rstate \in {"consistent", "delete"}
    /\ live \subseteq Own
    /\ order \in Seq(LinkMaps)
    /\ stop \in Own \cup {Idle}

\* The list is well linked: its two ends are the only null links, forward and back
\* links agree, and none leads to a link map that was removed or freed.
WellLinked ==
    /\ linked \subseteq live \cup Host
    /\ map = Null <=> linked = {}
    /\ tail = Null <=> linked = {}
    /\ map # Null => map \in linked
    /\ tail # Null => tail \in linked
    /\ \A m \in linked :
         /\ prev[m] = Null <=> m = map
         /\ next[m] = Null <=> m = tail
         /\ prev[m] # Null => prev[m] \in linked /\ next[prev[m]] = m
         /\ next[m] # Null => next[m] \in linked /\ prev[next[m]] = m

\* The links follow the order in which the link maps were added, and skip none.
LoadOrder == \A i \in 1 .. Len(order) - 1 : next[order[i]] = order[i + 1]

\* Link maps outside the list point nowhere while they are in memory.
OutsidersPointNowhere ==
    \A m \in live \ linked : prev[m] = Null /\ next[m] = Null

\* Where following l_next from r_debug.map leads; one step more than there are link
\* maps, so that a cycle shows.
Visited[i \in 1 .. Cardinality(LinkMaps) + 1] ==
    IF i = 1 THEN map
    ELSE LET x == Visited[i - 1] IN IF x = Null THEN Null ELSE next[x]

\* The link maps that a walk meets.
Walk ==
    [i \in {k \in 1 .. Cardinality(LinkMaps) + 1 : \A j \in 1 .. k : Visited[j] # Null} |->
       Visited[i]]

\* RT_DELETE announces the removal of a link map that is still listed.
StopsAtListed ==
    /\ stop # Idle => stop \in linked
    /\ stop # Idle <=> rstate = "delete"

\* l_next leads through the listed link maps in their order, from r_debug.map ...
Chained ==
    /\ IsInjective(order)
    /\ map = IF order = <<>> THEN Null ELSE order[1]
    /\ \A i \in DOMAIN order :
         next[order[i]] = IF i = Len(order) THEN Null ELSE order[i + 1]

\* ... to the cached end, and l_prev back.
ChainedBack ==
    /\ tail = IF order = <<>> THEN Null ELSE order[Len(order)]
    /\ \A i \in DOMAIN order : prev[order[i]] = IF i = 1 THEN Null ELSE order[i - 1]

\* Inductive invariant of the safety proofs.
Inv ==
    /\ TypeOK
    /\ Chained
    /\ ChainedBack
    /\ linked \subseteq live \cup Host
    /\ OutsidersPointNowhere
    /\ StopsAtListed
=============================================================================
