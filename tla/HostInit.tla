------------------------------ MODULE HostInit ------------------------------
(***************************************************************************)
(* The loader inside a process that another dynamic linker started (the    *)
(* std build, runtime/host.rs).  A constructor looks for the host's        *)
(* r_debug, takes its list of link maps over, looks up what it needs of    *)
(* libc, and registers every object that the host's dl_iterate_phdr        *)
(* reports.  Then libraries come and go (DebugList).                       *)
(*                                                                         *)
(* from_raw makes an object of this loader for an object of the host, with *)
(* a copy of its link map; find_iterate_phdr makes such objects only to    *)
(* look symbols up and drops them, which runs ExtraData::drop.  The host   *)
(* holds its own lock meanwhile, so that its list does not change.         *)
(***************************************************************************)
EXTENDS DebugList, SequencesExt

CONSTANTS Processes, \* phdr, phdrs, base: AT_PHDR with the headers, AT_BASE;
                     \* musl: the host is musl, which relocates no dynamic section;
                     \* reported: the objects, in the order of dl_iterate_phdr
          Dynamics,  \* Dynamics[a]: the dynamic section at the address a
          Version,   \* Version[p]: r_version of the r_debug at p
          Objects,   \* Objects[o]: name, key, base, symbols and the dynamic section
                     \* of o as the link editor wrote it; the host's link map of o is o;
                     \* accepted: the uses in which from_raw makes an object of it, "walk"
                     \* with the headers in memory, "report" with those reported
          libc_compat_aliases, \* libc_compat_aliases[k]: the aliases of the key k
          MaxLoaded  \* bound: libraries loaded at a time

ASSUME HostAssumption ==
    /\ Host \subseteq DOMAIN Objects
    /\ \A o \in DOMAIN Objects : Objects[o].accepted \subseteq {"walk", "report"}
    /\ \A p \in Processes :
         /\ p.musl \in BOOLEAN
         /\ p.reported \in Seq(DOMAIN Objects)
         /\ p.reported # <<>> /\ Objects[p.reported[1]].name = ""

\* The entries of a dynamic section that glibc relocates.
Relocated == {"STRTAB", "SYMTAB", "GNU_HASH"}

DT_ADDR_TAGS == Relocated \cup {"INIT", "INIT_ARRAY", "RELACOUNT"}

\* No two objects are mapped at the same address.  What a file says of itself is
\* smaller than the address it is mapped at, unless that is 0; recover_dynamic_table
\* tells the two apart by that.
ASSUME ObjectsAssumption ==
    /\ \A o, q \in DOMAIN Objects : Objects[o].base = Objects[q].base => o = q
    /\ \A o \in DOMAIN Objects :
         LET b == Objects[o].base
             table == Objects[o].dynamic
         IN  /\ b \in Nat
             /\ table \in [DOMAIN table -> Nat]
             /\ \A tag \in DOMAIN table :
                  /\ tag \in DT_ADDR_TAGS => b = 0 \/ table[tag] <= b
                  /\ tag \in Relocated => table[tag] > 0

\* An alias is no key, and belongs to one key.
ASSUME AliasAssumption ==
    /\ \A o \in DOMAIN Objects : Objects[o].key \in DOMAIN libc_compat_aliases
    /\ \A k, l \in DOMAIN libc_compat_aliases :
         /\ l \notin libc_compat_aliases[k]
         /\ libc_compat_aliases[k] \cap libc_compat_aliases[l] # {} => k = l

VARIABLES process,     \* the process
          pc,          \* "start", "walk", "drop", "report", "run", "abort"
          taken,       \* CustomDebug::debug is the host's
          cursor,      \* LinkMapIter::current
          temp,        \* the link map of an object that is only looked at
          musl,        \* IS_MUSL
          found,       \* found[s]: the object whose symbol s is used
          registered,  \* the objects given to register_loaded
          names        \* the object with a key or an alias

hostVars == <<process, pc, taken, cursor, temp, musl, found, registered, names>>

hvars == <<vars, hostVars>>

Atexit == "__cxa_thread_atexit_impl"

IteratePhdr == "dl_iterate_phdr"

\* What update_libc_globals reads.
ProcessGlobals == {"argc", "argv", "environ"}

HInit ==
    /\ map = Null
    /\ tail = Null
    /\ next = HostNext
    /\ prev = HostPrev
    /\ rstate = "consistent"
    /\ live = {}
    /\ order = <<>>
    /\ stop = Idle
    /\ process \in Processes
    /\ pc = "start"
    /\ taken = FALSE
    /\ cursor = Null
    /\ temp = Null
    /\ musl = FALSE
    /\ found = [s \in ProcessGlobals \cup {Atexit, IteratePhdr} |-> Null]
    /\ registered = <<>>
    /\ names = <<>>
-----------------------------------------------------------------------------
(* Where is r_debug? *)

\* find_debug_in_dynamic
find_debug_in_dynamic(table) ==
    LET hits == SelectSeq(table, LAMBDA e : e[1] = "DEBUG" /\ e[2] # Null /\ Version[e[2]] # 0)
    IN  IF hits = <<>> THEN Null ELSE Head(hits)[2]

HeadersOf(type) == SelectSeq(process.phdrs, LAMBDA p : p.type = type)

\* Where the program is mapped: from PT_PHDR, or from the segment that begins with the
\* ELF header, which the program headers follow.
LoadBias ==
    LET first == SelectSeq(process.phdrs, LAMBDA p : p.type = "LOAD" /\ p.offset = 0)
    IN  IF HeadersOf("PHDR") # <<>> THEN {process.phdr - Last(HeadersOf("PHDR")).vaddr}
        ELSE IF first # <<>> THEN {process.phdr - (Head(first).vaddr + 64)}
        ELSE {}

\* find_r_debug: DT_DEBUG of the program, else of the interpreter.
find_r_debug ==
    LET own == {find_debug_in_dynamic(Dynamics[bias + Last(HeadersOf("DYNAMIC")).vaddr]) :
                  bias \in IF HeadersOf("DYNAMIC") = <<>> THEN {} ELSE LoadBias}
               \ {Null}
        interpreter == IF process.base = Null THEN Null ELSE find_debug_in_dynamic(Dynamics[process.base])
    IN  IF process.phdrs = <<>> THEN Null
        ELSE IF own # {} THEN CHOOSE p \in own : TRUE
        ELSE interpreter

\* There is none: nothing is initialized, and the list is the loader's own.
NoHostDebug ==
    /\ pc = "start"
    /\ find_r_debug = Null
    /\ pc' = "run"
    /\ UNCHANGED <<vars, process, taken, cursor, temp, musl, found, registered, names>>

\* init_host_debug
TakeOver ==
    /\ pc = "start"
    /\ find_r_debug # Null
    /\ map' = IF First = <<>> THEN Null ELSE Head(First)
    /\ order' = First
    /\ UNCHANGED <<next, prev, rstate, live, stop>>
    /\ tail' = IF Walk' = <<>> THEN Null ELSE Last(Walk')
    /\ taken' = TRUE
    /\ cursor' = map'
    /\ pc' = "walk"
    /\ UNCHANGED <<process, temp, musl, found, registered, names>>
-----------------------------------------------------------------------------
(* Objects of the host *)

\* The dynamic section of o as it is in memory.  glibc leaves that of the vdso alone.
InMemory(o) ==
    [tag \in DOMAIN Objects[o].dynamic |->
       IF ~ process.musl /\ Objects[o].name # "linux-vdso" /\ tag \in Relocated
       THEN Objects[o].base + Objects[o].dynamic[tag]
       ELSE Objects[o].dynamic[tag]]

\* Mutant: what is an address is taken for an absolute one.
MutantRecover(table, base) ==
    [tag \in DOMAIN table |-> IF tag \in DT_ADDR_TAGS THEN table[tag] - base ELSE table[tag]]

\* An address that is larger than the base is an absolute one.
recover_dynamic_table(table, base) ==
    [tag \in DOMAIN table |->
       IF tag \in DT_ADDR_TAGS /\ table[tag] > base THEN table[tag] - base ELSE table[tag]]

\* Mutant: the copy of the link map keeps its links.
MutantFromRaw(m, host) ==
    /\ m \notin live
    /\ next' = [next EXCEPT ![m] = IF host = Null THEN Null ELSE next[host]]
    /\ prev' = [prev EXCEPT ![m] = IF host = Null THEN Null ELSE prev[host]]
    /\ live' = live \cup {m}
    /\ UNCHANGED <<map, tail, rstate, order, stop>>

\* from_raw of an object it accepts: m is a copy of the host's link map, if there is one, whose
\* links are cleared.
FromRaw(m, host) == NewLinkMap(m)

DynamicOf(o) ==
    IF Objects[o].name = "linux-vdso" \/ musl' THEN InMemory(o)
    ELSE recover_dynamic_table(InMemory(o), Objects[o].base)

\* An address that is free; it does not matter which.
NewAddress == CHOOSE m \in Own : m \notin live

\* The name contains ".so" and "libc", or "ld-musl" as that of musl's libc does.
is_libc(o) == Objects[o].name \in {"libc", "libc-like"}

\* An object of which from_raw makes none is passed over.
Looked(o) == "walk" \in Objects[o].accepted /\ (Objects[o].name = "" \/ is_libc(o))

\* The name of musl's libc tells that it is musl.
SeenMusl(o) == musl \/ (process.musl /\ Objects[o].name = "libc")

\* init_libc_thread_atexit, update_libc_globals, dl_iterate_phdr: what was not found
\* yet is looked up in o, the functions only if it is a libc.
LookUp(o) ==
    [s \in DOMAIN found |->
       IF /\ found[s] = Null
          /\ s \in Objects[o].symbols
          /\ s \in ProcessGlobals \/ is_libc(o)
       THEN o ELSE found[s]]

\* find_iterate_phdr comes to the program or to a libc.
Examine ==
    /\ pc = "walk"
    /\ cursor # Null
    /\ Looked(cursor)
    /\ musl' = SeenMusl(cursor)
    /\ temp' = NewAddress
    /\ FromRaw(NewAddress, cursor)
    /\ found' = LookUp(cursor)
    /\ pc' = "drop"
    /\ UNCHANGED <<process, taken, cursor, registered, names>>

\* The object is dropped (ExtraData::drop), and the walk goes on, ...
Dropped ==
    /\ pc = "drop"
    /\ temp \notin live
    /\ temp' = Null
    /\ cursor' = next[cursor]
    /\ pc' = "walk"
    /\ UNCHANGED <<vars, process, taken, musl, found, registered, names>>

\* ... past the other objects, ...
Skip ==
    /\ pc = "walk"
    /\ cursor # Null
    /\ ~ Looked(cursor)
    /\ musl' = SeenMusl(cursor)
    /\ cursor' = next[cursor]
    /\ UNCHANGED <<vars, process, pc, taken, temp, found, registered, names>>

\* ... to the end.  Without a dl_iterate_phdr the process is aborted, unless there was
\* no object.
EndWalk ==
    /\ pc = "walk"
    /\ cursor = Null
    /\ pc' = IF map = Null THEN "run" ELSE IF found[IteratePhdr] = Null THEN "abort" ELSE "report"
    /\ UNCHANGED <<vars, process, taken, cursor, temp, musl, found, registered, names>>

\* find_host_link_map: the first link map with the base.
find_host_link_map(base) ==
    LET hits == {i \in DOMAIN Walk : Objects[Walk[i]].base = base}
    IN  IF hits = {} THEN Null ELSE Walk[CHOOSE i \in hits : \A j \in hits : i <= j]

\* The callback of dl_iterate_phdr registers an object.  One of which from_raw makes none
\* aborts the process, and so does one whose key is taken, as of another namespace.
Callback ==
    /\ pc = "report"
    /\ Len(registered) < Len(process.reported)
    /\ UNCHANGED musl
    /\ LET o    == process.reported[Len(registered) + 1]
           host == find_host_link_map(Objects[o].base)
       IN  IF \/ "report" \notin Objects[o].accepted
              \/ \E k \in DOMAIN registered :
                   Objects[registered[k].object].key = Objects[o].key
           THEN /\ pc' = "abort"
                /\ UNCHANGED <<vars, registered, names>>
           ELSE /\ FromRaw(NewAddress, host)
                /\ registered' = Append(registered,
                     [object |-> o, host |-> host, map |-> NewAddress, dynamic |-> DynamicOf(o)])
                /\ names' = [n \in DOMAIN names \cup {Objects[o].key} |->
                              IF n = Objects[o].key THEN o ELSE names[n]]
                /\ UNCHANGED pc
    /\ UNCHANGED <<process, taken, cursor, temp, found>>

\* register_initial_aliases: old names of parts of libc.
EndReport ==
    /\ pc = "report"
    /\ Len(registered) = Len(process.reported)
    /\ LET keys == DOMAIN libc_compat_aliases \cap DOMAIN names
           aliases == UNION {libc_compat_aliases[k] : k \in keys}
       IN  names' = [n \in DOMAIN names \cup aliases |->
                       IF n \in aliases
                       THEN names[CHOOSE k \in keys : n \in libc_compat_aliases[k]]
                       ELSE names[n]]
    /\ pc' = "run"
    /\ UNCHANGED <<vars, process, taken, cursor, temp, musl, found, registered>>
-----------------------------------------------------------------------------
\* Objects that were registered stay (RTLD_NODELETE).
Pinned == {registered[k].map : k \in DOMAIN registered}

\* The link maps that may be dropped now.
Droppable ==
    CASE pc = "run" -> live \ Pinned
      [] pc = "drop" -> live \cap {temp}
      [] OTHER -> {}

\* Libraries are loaded, and dropped as the object is that was only looked at.
LinkMapStep ==
    /\ \/ /\ pc = "run"
          /\ Cardinality(live \ Pinned) < MaxLoaded
          /\ NewLinkMap(NewAddress)
       \/ pc = "run" /\ \E m \in live \ Pinned : Add(m)
       \/ \E m \in Droppable : DropUnlisted(m) \/ DropBegin(m) \/ DropEnd(m)
    /\ UNCHANGED hostVars

HNext ==
    \/ NoHostDebug \/ TakeOver \/ Examine \/ Dropped \/ Skip \/ EndWalk
    \/ Callback \/ EndReport \/ LinkMapStep

HSpec == HInit /\ [][HNext]_hvars
-----------------------------------------------------------------------------
\* What a debugger of the process finds through the host's r_debug, followed by the
\* loader's own list where that one was not found, is a list to whose end objects are
\* added and from which single objects are removed, the others keeping their order:
\* looking at the host's objects removes none of them.
DebuggerList ==
    INSTANCE LinkMapList WITH list <- IF taken THEN Walk ELSE First \o Walk

RefinesLinkMapList == DebuggerList!Spec

\* Once r_debug was found and no abort happened, the registry has the program first
\* and then every object of the process, each with the link map that the host has for
\* it and the dynamic section that the link editor wrote, not relocated twice, under
\* its name and under the old names of the parts of libc; and the functions of libc
\* come from an object that has them if there is one that can be read.
HostRegistered ==
    (pc = "run" /\ taken /\ First # <<>>) =>
      /\ Len(registered) = Len(process.reported)
      /\ Objects[registered[1].object].name = ""
      /\ \A k \in DOMAIN registered :
           /\ registered[k].object = process.reported[k]
           /\ registered[k].host = IF process.reported[k] \in Host
                                   THEN process.reported[k] ELSE Null
           /\ registered[k].dynamic = Objects[process.reported[k]].dynamic
           /\ registered[k].map \in live \ linked
           /\ \A n \in {Objects[process.reported[k]].key}
                       \cup libc_compat_aliases[Objects[process.reported[k]].key] :
                names[n] = process.reported[k]
      /\ \A s \in {Atexit, IteratePhdr} :
           (\E o \in Host : Looked(o) /\ is_libc(o) /\ s \in Objects[o].symbols) =>
             found[s] # Null /\ s \in Objects[found[s]].symbols
-----------------------------------------------------------------------------
\* The inductive invariant of HostRegistered and of the refinement.

\* Before r_debug is looked for.
StartInv ==
    /\ pc = "start" => /\ ~ taken /\ order = <<>> /\ live = {} /\ stop = Idle
                       /\ next = HostNext /\ prev = HostPrev
                       /\ \A s \in DOMAIN found : found[s] = Null
    /\ pc \in {"start", "walk", "drop"} \/ ~ taken => registered = <<>> /\ names = <<>>

\* While the constructor runs the list is the host's, whole and unchanged, and what is
\* in memory besides the registered objects is the one that is looked at.
HostListInv ==
    pc \in {"walk", "drop", "report"} => taken /\ order = First /\ stop = Idle

\* The host's objects that find_iterate_phdr has passed or looked at.
Passed ==
    IF pc \notin {"walk", "drop"} \/ cursor = Null THEN Host
    ELSE {First[j] : j \in {j \in DOMAIN First :
                              \E k \in DOMAIN First :
                                First[k] = cursor /\ (j < k \/ (j = k /\ pc = "drop"))}}

\* What was found is a symbol of the object it was found in, and what a libc among the
\* objects passed has was found.
FoundInv ==
    /\ DOMAIN found = ProcessGlobals \cup {Atexit, IteratePhdr}
    /\ pc \in {"walk", "drop"} => cursor \in Host \cup {Null}
    /\ pc = "drop" => cursor # Null /\ temp \in Own
    /\ musl => process.musl
    /\ \A s \in DOMAIN found :
         /\ found[s] # Null => found[s] \in Host /\ s \in Objects[found[s]].symbols
         /\ taken /\ pc # "abort" =>
              \A o \in Passed : Looked(o) /\ is_libc(o) /\ s \in Objects[o].symbols =>
                found[s] # Null

\* What register_loaded was given is as it should be, and found by its key.
RegisteredInv ==
    /\ Len(registered) <= Len(process.reported)
    /\ \A k \in DOMAIN registered :
         LET o == process.reported[k]
         IN  /\ registered[k].object = o
             /\ registered[k].host = IF o \in Host THEN o ELSE Null
             /\ registered[k].dynamic = Objects[o].dynamic
             /\ registered[k].map \in live \ linked
             /\ Objects[o].key \in DOMAIN names /\ names[Objects[o].key] = o
    /\ pc = "report" =>
         \A n \in DOMAIN names : \E k \in DOMAIN registered : n = Objects[process.reported[k]].key

\* Nothing is missing once the constructor has ended.
EndInv ==
    pc = "run" /\ taken /\ First # <<>> =>
      /\ Len(registered) = Len(process.reported)
      /\ \A k \in DOMAIN registered :
           \A n \in libc_compat_aliases[Objects[process.reported[k]].key] :
             n \in DOMAIN names /\ names[n] = process.reported[k]

HTypeOK ==
    /\ process \in Processes
    /\ pc \in {"start", "walk", "drop", "report", "run", "abort"}
    /\ taken \in BOOLEAN
    /\ musl \in BOOLEAN
    /\ registered \in Seq([object : DOMAIN Objects, host : Host \cup {Null}, map : Own,
                            dynamic : {Objects[o].dynamic : o \in DOMAIN Objects}])

HInv ==
    /\ Inv /\ HTypeOK
    /\ StartInv /\ HostListInv /\ FoundInv /\ RegisteredInv /\ EndInv
-----------------------------------------------------------------------------
(* The host loads an object too. *)

\* The host's linker appends at the end that it finds.
HostLoads(m) ==
    /\ pc = "run" /\ taken
    /\ stop = Idle
    /\ m \notin live \cup linked
    /\ next' = [next EXCEPT ![Last(Walk)] = m, ![m] = Null]
    /\ prev' = [prev EXCEPT ![m] = Last(Walk)]
    /\ order' = Append(order, m)
    /\ UNCHANGED <<map, tail, rstate, live, stop, hostVars>>

SharedSpec == HInit /\ [][HNext \/ \E m \in Own \ Pinned : HostLoads(m)]_hvars

\* Every object is found by following l_next: not so, since the end of the list is
\* cached, and the next addition overwrites the link to what the host appended.
AllListed == \A m \in linked : m \in Range(Walk)
=============================================================================
