------------------------------- MODULE Startup -------------------------------
(***************************************************************************)
(* The start of a process under the no_std loader, from rtld_bootstrap to  *)
(* the program's entry point and to rtld_fini (bootstrap/startup.rs,       *)
(* bootstrap/publish.rs, runtime/rtld.rs).  The process is one thread      *)
(* until the program runs.                                                 *)
(*                                                                         *)
(* What the constructors and a debugger find is the list of link maps that *)
(* starts at _r_debug.r_map.  It is the list of runtime/debug.rs, whose    *)
(* own head stays the loader's link map, wired anew once by                *)
(* link_loaded_objects; later loads append at the end that was cached      *)
(* before.  Stack, arguments and options are in DirectStart, symbol scopes *)
(* in SymbolScopes, the TLS layout in Tls: here it is the set of modules   *)
(* that the published layout accounts for.  Of the tables that glibc reads *)
(* (globals.rs, glibc/v2_39) it is the fields about modules.               *)
(*                                                                         *)
(* The linker of the elf_loader crate is external.  It maps dependencies   *)
(* breadth first, commits them in that order, which is also the order of   *)
(* load_group, and runs constructors after those of the dependencies.      *)
(***************************************************************************)
EXTENDS Naturals, Sequences, FiniteSets, SequencesExt, FiniteSetsExt

CONSTANTS Rtld, Prog,  \* the loader and the program
          Libs,        \* the shared objects of the system
          Libc,        \* the C library, libc.so.6
          Null,        \* the null pointer
          Processes    \* how processes are started, see ProcessesAssumption

Objects == Libs \cup {Rtld, Prog}

StdFds == 0 .. 2

\* What RelocationTables::parse tells apart in a dynamic section.
DynTags == {"NEEDED", "RELA", "RELR", "JMPREL", "INIT", "MALFORMED"}

ASSUME ObjectsAssumption ==
    /\ Libc \in Libs /\ Rtld \notin Libs /\ Prog \notin Libs
    /\ Rtld # Prog /\ Null \notin Objects
    /\ IsFiniteSet(Libs)

\* entry: AT_ENTRY is not 0; fds are open at the start; dyn is Null without a dynamic
\* section.
ASSUME ProcessesAssumption ==
    \A p \in Processes :
        /\ p.direct \in BOOLEAN /\ p.static \in BOOLEAN /\ p.secure \in BOOLEAN
        /\ p.tls \in BOOLEAN /\ p.entry \in BOOLEAN /\ p.fds \subseteq StdFds
        /\ p.dyn = Null \/ p.dyn \subseteq DynTags
        /\ \A o \in Objects : p.needed[o] \in Seq(Objects \ {Prog})
        /\ p.needed[Rtld] = <<>>
        /\ p.needed[Prog] # <<>> => p.dyn # Null /\ "NEEDED" \in p.dyn
        /\ p.dyn # Null /\ "NEEDED" \in p.dyn => p.needed[Prog] # <<>>
        /\ p.dyn = Null => p.static \/ ~p.direct

VARIABLES proc,        \* how the process was started
          pc,          \* where rtld_bootstrap is
          why,         \* why the process was ended with status 127
          fds, fd,     \* open standard descriptors, the next one to check
          group, scan, \* the load group of the program, the one being scanned
          loadOrder,   \* committed modules, in the order of load_order()
          map, tail,   \* DEBUG: the head and the end of its list
          next, prev,  \* l_next and l_prev
          rMap,        \* _r_debug.r_map
          glibc,       \* _rtld_global and _rtld_global_ro, see TypeOK
          tlsModules,  \* modules the published TLS layout accounts for
          early,       \* __libc_early_init was called
          inited,      \* objects whose constructors have run, in order
          finalized,   \* objects whose destructors have run, in order
          startupRoot, \* STARTUP_ROOT
          later,       \* objects opened with dlopen, not closed
          extended     \* history: dlopen has opened an object

list == <<map, tail, next, prev>>
link == <<group, scan, loadOrder>>
pub == <<rMap, glibc, tlsModules, early>>
life == <<inited, finalized, startupRoot, later, extended>>

vars == <<proc, pc, why, fds, fd, link, list, pub, life>>

Live == Range(loadOrder) \cup Range(group) \cup later

\* RtldGlobal::new and RtldGlobalRo::new
NewTables == [aux |-> FALSE, loaded |-> Null, nloaded |-> 0, searchlist |-> <<>>, libc |-> Null]

Init ==
    /\ proc \in Processes
    /\ pc = "start" /\ why = "none"
    /\ fds = proc.fds /\ fd = 0
    /\ group = <<>> /\ scan = 1 /\ loadOrder = <<>>
    /\ map = Null /\ tail = Null
    /\ next = [o \in Objects |-> Null] /\ prev = [o \in Objects |-> Null]
    /\ rMap = Null /\ tlsModules = {} /\ early = FALSE
    /\ glibc = NewTables
    /\ inited = <<>> /\ finalized = <<>> /\ startupRoot = Null
    /\ later = {} /\ extended = FALSE

\* rtld_bootstrap reports the error, or a callee does, and exits with 127.
ExitFatal(reason) == pc' = "exit" /\ why' = reason

-----------------------------------------------------------------------------
\* The list of runtime/debug.rs as DebugList has it, without the stops.

\* add_debug_link_map
AddLinkMap(o) ==
    /\ prev' = [prev EXCEPT ![o] = tail]
    /\ next' = [m \in Objects |->
                  IF m = o THEN Null ELSE IF m = tail THEN o ELSE next[m]]
    /\ map' = IF tail = Null THEN o ELSE map
    /\ tail' = o

\* Mutant: the list is touched without a look.
MutantNotListed(o) == FALSE

\* Drop for ExtraData returns before it touches the list.
NotListed(o) == map # o /\ prev[o] = Null

RemoveLinkMap(o) ==
    IF NotListed(o) THEN UNCHANGED list
    ELSE /\ map' = IF map = o THEN next[o] ELSE map
         /\ tail' = CASE tail # o -> tail
                      [] map = o -> Null
                      [] OTHER -> prev[o]
         /\ next' = [m \in Objects |->
                       IF m = prev[o] /\ map # o THEN next[o] ELSE next[m]]
         /\ prev' = [m \in Objects |->
                       IF m # next[o] \/ tail = o THEN prev[m]
                       ELSE IF map = o THEN Null ELSE prev[o]]

-----------------------------------------------------------------------------
\* RelocationTables::parse fails on what the loader cannot do by itself, and
\* can_pass_through asks for a program that leaves nothing to do.
ParseFails(dyn) == dyn \cap {"NEEDED", "JMPREL", "MALFORMED"} # {}

CanPassThrough(dyn) ==
    dyn # Null => ~ParseFails(dyn) /\ dyn \cap {"RELA", "RELR", "INIT"} = {}

PassThroughEntry ==
    ~proc.direct /\ proc.entry /\ ~proc.tls /\ CanPassThrough(proc.dyn)

\* RtldGlobalRo::publish_aux: the values of the auxiliary vector, the entry points for
\* glibc and the sizes its IFUNC resolvers read.
PublishAux == [glibc EXCEPT !.aux = TRUE]

\* rtld_bootstrap: relocate the loader, then pass the control through, or run.
\* What the kernel passed is published on the way.
Bootstrap ==
    /\ pc = "start"
    /\ \/ ExitFatal("relocate") /\ UNCHANGED glibc
       \/ /\ PassThroughEntry
          /\ pc' = "through" /\ UNCHANGED <<why, glibc>>
       \/ /\ ~PassThroughEntry
          /\ glibc' = PublishAux
          /\ pc' = IF proc.secure THEN "fds" ELSE "rtld"
          /\ UNCHANGED why
    /\ UNCHANGED <<proc, fds, fd, link, list, rMap, tlsModules, early, life>>

\* openat takes the lowest free descriptor; 3 stands for all the others.
LowestFree == Min((StdFds \cup {3}) \ fds)

\* Mutant: descriptor 2 is not looked at.
MutantCheckStandardFd ==
    /\ pc = "fds"
    /\ \/ /\ fd' = fd + 1
          /\ fds' = fds \cup {IF fd \in fds THEN fd ELSE LowestFree}
          /\ pc' = IF fd = 1 THEN "rtld" ELSE "fds"
          /\ UNCHANGED why
       \/ /\ fd \notin fds
          /\ ExitFatal("open failed")
          /\ UNCHANGED <<fds, fd>>
    /\ UNCHANGED <<proc, link, list, pub, life>>

\* check_standard_fd for 0, 1 and 2 in turn.
CheckStandardFd ==
    /\ pc = "fds"
    /\ \/ /\ fd \in fds
          /\ UNCHANGED <<fds, why>>
          /\ fd' = fd + 1
          /\ pc' = IF fd = 2 THEN "rtld" ELSE "fds"
       \/ /\ fd \notin fds
          /\ ExitFatal("open failed")
          /\ UNCHANGED <<fds, fd>>
       \/ /\ fd \notin fds
          /\ fds' = fds \cup {LowestFree}
          /\ IF LowestFree # fd
             THEN ExitFatal("wrong descriptor") /\ UNCHANGED fd
             ELSE /\ fd' = fd + 1
                  /\ pc' = IF fd = 2 THEN "rtld" ELSE "fds"
                  /\ UNCHANGED why
    /\ UNCHANGED <<proc, link, list, pub, life>>

\* load_bootstrap_object for the loader and register_loaded, which pins it.
RegisterRtld ==
    /\ pc = "rtld"
    /\ \/ /\ ExitFatal("load")
          /\ UNCHANGED <<list, loadOrder>>
       \/ /\ pc' = "main" /\ UNCHANGED why
          /\ AddLinkMap(Rtld)
          /\ loadOrder' = Append(loadOrder, Rtld)
    /\ UNCHANGED <<proc, fds, fd, group, scan, pub, life>>

\* Mutant: the layout of before the dependencies were mapped.
MutantPublishTlsLayout == tlsModules' = {Rtld, Prog}

\* publish_tls_layout: the size of the layout of what is mapped so far.
PublishTlsLayout == tlsModules' = Range(loadOrder)

\* prepare_kernel_mapped_main and prepare_direct_exec: the observer adds the
\* link map of a dynamic program; a static one only gets the TLS layout.
MapMain ==
    /\ pc = "main"
    /\ \/ /\ ExitFatal("load")
          /\ UNCHANGED <<list, group, tlsModules>>
       \/ /\ proc.direct /\ proc.static
          /\ pc' = "through"
          /\ PublishTlsLayout
          /\ UNCHANGED <<list, group, why>>
       \/ /\ ~(proc.direct /\ proc.static)
          /\ pc' = "link"
          /\ AddLinkMap(Prog)
          /\ group' = <<Prog>>
          /\ UNCHANGED <<tlsModules, why>>
    /\ UNCHANGED <<proc, fds, fd, scan, loadOrder, rMap, glibc, early, life>>

\* link_startup_root clears the loader's link map before it links the program.
ClearRtldLinks ==
    /\ pc = "link"
    /\ pc' = "map"
    /\ next' = [next EXCEPT ![Rtld] = Null]
    /\ prev' = [prev EXCEPT ![Rtld] = Null]
    /\ UNCHANGED <<proc, why, fds, fd, link, map, tail, pub, life>>

\* The entries of the module being scanned that are not in the group yet.  A name
\* that is committed, the loader's own, is found by its key and is not mapped again.
Missing ==
    {i \in DOMAIN proc.needed[group[scan]] :
        proc.needed[group[scan]][i] \notin Range(group)}

\* prepare_mapped: map the next dependency, or go on to the next module.
MapDependency ==
    /\ pc = "map" /\ scan <= Len(group)
    /\ \/ /\ Missing = {}
          /\ scan' = scan + 1 /\ UNCHANGED <<group, list>>
       \/ /\ Missing # {}
          /\ LET o == proc.needed[group[scan]][Min(Missing)]
             IN  /\ group' = Append(group, o)
                 /\ IF o = Rtld THEN UNCHANGED list ELSE AddLinkMap(o)
          /\ UNCHANGED scan
    /\ UNCHANGED <<proc, pc, why, fds, fd, loadOrder, pub, life>>

\* A dependency or a symbol is missing, startup_state or a constructor fails: the
\* linked modules are dropped.
LinkFails ==
    /\ pc \in {"map", "before", "init"}
    /\ pc' = "rollback" /\ why' = "link"
    /\ UNCHANGED <<proc, fds, fd, link, list, pub, life>>

\* The load group without the loader, which is a module of its own.
Modules == RemoveFirst(group, Rtld)

\* relocate and publish: the new modules are committed.
Publish ==
    /\ pc = "map" /\ scan > Len(group)
    /\ pc' = "before"
    /\ loadOrder' = loadOrder \o Modules
    /\ UNCHANGED <<proc, why, fds, fd, group, scan, list, pub, life>>

\* Mutant: the loader is listed where it is needed, too.
MutantStartupMaps == InsertAt(group, 2, Rtld)

\* startup_state: the load group with the loader moved behind the program.
StartupMaps ==
    InsertAt(Modules, IF Modules = <<>> THEN 1 ELSE 2, Rtld)

\* link_loaded_objects
LinkLoadedObjects(maps) ==
    LET at(o) == CHOOSE i \in DOMAIN maps : maps[i] = o
                                         /\ \A j \in DOMAIN maps : maps[j] = o => j <= i
    IN  /\ prev' = [o \in Objects |->
                      IF o \notin Range(maps) THEN prev[o]
                      ELSE IF at(o) = 1 THEN Null ELSE maps[at(o) - 1]]
        /\ next' = [o \in Objects |->
                      IF o \notin Range(maps) THEN next[o]
                      ELSE IF at(o) = Len(maps) THEN Null ELSE maps[at(o) + 1]]

\* RtldGlobal::publish
PublishGlobal(maps) ==
    [glibc EXCEPT !.loaded = Head(group), !.nloaded = Len(maps),
                  !.libc = IF Libc \in Range(group) THEN Libc ELSE Null]

\* RtldGlobalRo::publish_initial_searchlist
PublishInitialSearchlist(tables, maps) == [tables EXCEPT !.searchlist = maps]

\* publish_rtld_link_maps
PublishLinkMaps(maps) == glibc' = PublishInitialSearchlist(PublishGlobal(maps), maps)

\* The before_init closure calls publish_loaded_globals: the list, _r_debug with the
\* program as its head, and the tables ...
PublishLoadedGlobals ==
    /\ pc = "before"
    /\ pc' = "layout"
    /\ LinkLoadedObjects(StartupMaps)
    /\ rMap' = Head(group)
    /\ PublishLinkMaps(StartupMaps)
    /\ UNCHANGED <<proc, why, fds, fd, link, map, tail, tlsModules, early, life>>

\* ... publish_tls_layout ...
PublishLayout ==
    /\ pc = "layout"
    /\ pc' = "early"
    /\ PublishTlsLayout
    /\ UNCHANGED <<proc, why, fds, fd, link, list, rMap, glibc, early, life>>

\* ... and __libc_early_init of the first module that has it.
EarlyInit ==
    /\ pc = "early"
    /\ pc' = "init"
    /\ early' = (Libc \in Range(loadOrder))
    /\ UNCHANGED <<proc, why, fds, fd, link, list, rMap, glibc, tlsModules, life>>

\* The init hooks of one module, after those of what it needs.
RunInit(o) ==
    /\ pc = "init"
    /\ o \in Range(group) \ (Range(inited) \cup {Rtld})
    /\ Range(proc.needed[o]) \subseteq Range(inited) \cup {Rtld}
    /\ inited' = Append(inited, o)
    /\ UNCHANGED <<proc, pc, why, fds, fd, link, list, pub, finalized,
                   startupRoot, later, extended>>

\* open_load and the end of link_mapped_root: jump to the entry point.
EnterProgram ==
    /\ pc = "init"
    /\ Range(group) \ {Rtld} = Range(inited)
    /\ pc' = "running"
    /\ startupRoot' = Prog
    /\ UNCHANGED <<proc, why, fds, fd, link, list, pub, inited, finalized, later, extended>>

\* Dropping the ExtraData of a module of a startup that failed.
RollbackDrop(o) ==
    /\ pc = "rollback"
    /\ o \in Range(group) \ {Rtld}
    /\ RemoveLinkMap(o)
    /\ group' = RemoveFirst(group, o)
    /\ loadOrder' = RemoveFirst(loadOrder, o)
    /\ UNCHANGED <<proc, pc, why, fds, fd, scan, pub, life>>

\* The failure is reported; what a nested dlopen holds was not dropped.
RollbackEnds ==
    /\ pc = "rollback"
    /\ pc' = "exit"
    /\ UNCHANGED <<proc, why, fds, fd, link, list, pub, life>>

\* dlopen from a constructor, the program or a destructor: the loader itself exports
\* it, so that a program that needs nothing else can call it, too.
Dlopen(o) ==
    /\ pc \in {"init", "running", "fini"}
    /\ o \in Libs \ Live
    /\ AddLinkMap(o)
    /\ loadOrder' = Append(loadOrder, o)
    /\ later' = later \cup {o} /\ extended' = TRUE
    /\ UNCHANGED <<proc, pc, why, fds, fd, group, scan, pub, inited, finalized,
                   startupRoot>>

Dlclose(o) ==
    /\ pc \in {"init", "running", "fini"}
    /\ o \in later
    /\ RemoveLinkMap(o)
    /\ loadOrder' = RemoveFirst(loadOrder, o)
    /\ later' = later \ {o}
    /\ UNCHANGED <<proc, pc, why, fds, fd, group, scan, pub, inited, finalized,
                   startupRoot, extended>>

\* The program calls rtld_fini when it exits; finalize_startup takes
\* STARTUP_ROOT, so that a second call, or one of a static program, is empty.
FinalizeStartup ==
    /\ pc \in {"running", "done", "through"}
    /\ startupRoot' = Null
    /\ pc' = IF startupRoot = Null THEN pc ELSE "fini"
    /\ UNCHANGED <<proc, why, fds, fd, link, list, pub, inited, finalized, later, extended>>

\* Mutant: the committed modules, in the order in which they were committed.
MutantFiniScope == loadOrder

\* finalize_startup: state().finalize is called for each module of the load group, in
\* its order, the loader included; it runs the destructors of a module at most once.
FiniScope == group

RunFini ==
    /\ pc = "fini"
    /\ finalized' = Append(finalized, FiniScope[Len(finalized) + 1])
    /\ pc' = IF Len(finalized') = Len(FiniScope) THEN "done" ELSE "fini"
    /\ UNCHANGED <<proc, why, fds, fd, link, list, pub, inited, startupRoot, later, extended>>

\* The process is gone, or the program runs without the loader.
Ended ==
    /\ pc \in {"exit", "through", "done"}
    /\ UNCHANGED vars

\* What follows when the program is mapped.
LinkAndRun ==
    \/ ClearRtldLinks \/ MapDependency \/ LinkFails \/ Publish
    \/ PublishLoadedGlobals \/ PublishLayout \/ EarlyInit \/ EnterProgram
    \/ RollbackEnds \/ FinalizeStartup \/ RunFini \/ Ended
    \/ \E o \in Objects : RunInit(o) \/ RollbackDrop(o) \/ Dlopen(o) \/ Dlclose(o)

Next == Bootstrap \/ CheckStandardFd \/ RegisterRtld \/ MapMain \/ LinkAndRun

Spec == Init /\ [][Next]_vars

-----------------------------------------------------------------------------
TypeOK ==
    /\ proc \in Processes
    /\ pc \in {"start", "fds", "rtld", "main", "link", "map", "before", "layout",
               "early", "init", "running", "fini", "done", "rollback", "exit", "through"}
    /\ why \in {"none", "relocate", "open failed", "wrong descriptor", "load", "link"}
    /\ fds \subseteq StdFds /\ fd \in 0 .. 3
    /\ group \in Seq(Objects) /\ scan \in Nat /\ loadOrder \in Seq(Objects)
    /\ map \in Objects \cup {Null} /\ tail \in Objects \cup {Null}
    /\ next \in [Objects -> Objects \cup {Null}]
    /\ prev \in [Objects -> Objects \cup {Null}]
    /\ rMap \in Objects \cup {Null}
    /\ glibc \in [aux : BOOLEAN, loaded : Objects \cup {Null}, nloaded : Nat,
                 searchlist : Seq(Objects), libc : {Libc, Null}]
    /\ tlsModules \subseteq Objects /\ early \in BOOLEAN
    /\ inited \in Seq(Objects) /\ finalized \in Seq(Objects)
    /\ startupRoot \in {Prog, Null} /\ later \subseteq Libs /\ extended \in BOOLEAN

\* The committed modules, the program before the loader.
WalkOrder ==
    [i \in DOMAIN loadOrder |->
        loadOrder[CASE i = 1 -> 2 [] i = 2 -> 1 [] OTHER -> i]]

\* l_next leads from _r_debug.r_map through the whole of s, and l_prev back.
IsWalk(s) ==
    /\ s[1] = rMap /\ prev[s[1]] = Null /\ next[s[Len(s)]] = Null
    /\ \A i \in 1 .. Len(s) - 1 : next[s[i]] = s[i + 1] /\ prev[s[i + 1]] = s[i]

\* The program needs no other module than the loader.
Alone == Range(group) \subseteq {Prog, Rtld}

\* The first dlopen of such a program takes the loader out of the list for good: the
\* cached end is the program's link map, and its l_next is overwritten.
Lost == Alone /\ extended

\* What a debugger meets: the committed modules, the program first, then the loader
\* unless it is lost.
Seen == IF Lost THEN Tail(loadOrder) ELSE WalkOrder

\* From the first constructor on, whatever is opened and closed later, a walk from
\* _r_debug.r_map meets every committed module exactly once, in load order but
\* with the program before the loader, and l_prev leads back: what the constructor of
\* tests/rtld_artifact.rs counts, and what link_loaded_objects and
\* add_debug_link_map have to agree on.  They do not for a program that is alone with
\* the loader: there the walk meets all but the loader after a dlopen.
DebuggerSeesAll ==
    pc \in {"init", "running", "fini", "done"} =>
        Len(loadOrder) >= 2 /\ IsInjective(loadOrder) /\ IsWalk(Seen)

\* The link map that a walk from _r_debug.r_map meets in its n-th step.
Met[n \in Nat] ==
    IF n = 0 THEN rMap ELSE IF Met[n - 1] = Null THEN Null ELSE next[Met[n - 1]]

\* A constructor or the program that walks the list finds the loader in it exactly once:
\* the test in tests/rtld_artifact.rs exits with 92 otherwise.
LoaderListedOnce ==
    pc \in {"init", "running"} =>
        Cardinality({n \in 0 .. Cardinality(Objects) : Met[n] = Rtld}) = 1

\* When a failed startup drops a link map, the neighbours it writes to are
\* link maps that are still in memory: Drop for ExtraData dereferences l_prev
\* and l_next without looking, in a list that ClearRtldLinks has cut and
\* LinkLoadedObjects has reordered.
DropsAreSafe ==
    pc = "rollback" =>
        \A o \in Range(group) \ {Rtld} :
            ~NotListed(o) =>
                /\ map # o => prev[o] \in Live
                /\ tail # o => next[o] \in Live

\* The tables that glibc reads agree with each other and with the list: they count and
\* list the modules of the program as a walk from _r_debug.r_map meets them, except for
\* a loader that is lost.
TablesAgree ==
    /\ glibc.aux
    /\ glibc.loaded = rMap
    /\ glibc.nloaded = Len(glibc.searchlist)
    /\ Range(glibc.searchlist) = Range(group) \cup {Rtld}
    /\ glibc.searchlist[1] = rMap
    /\ Lost \/ \A i \in 1 .. Len(glibc.searchlist) - 1 :
                  next[glibc.searchlist[i]] = glibc.searchlist[i + 1]
    /\ Libc \in Range(group) => glibc.libc = Libc

\* Neither the early initialization of the C library nor a constructor runs before the
\* TLS layout that libc allocates threads from accounts for every module of the
\* program, and the list for the debugger and the tables of glibc are complete; they
\* agree from then on, whatever is opened and closed.  Constructors also come after the
\* early initialization.
ReadyForConstructors ==
    /\ (early \/ inited # <<>>) /\ pc \notin {"rollback", "exit"} =>
         /\ Range(group) \cup {Rtld} \subseteq tlsModules
         /\ rMap = Prog
         /\ TablesAgree
    /\ inited # <<>> /\ Libc \in Range(group) => early

\* A secure process maps no file before descriptors 0, 1 and 2 are open, and is
\* never refused because a descriptor came out of turn.
SecureDescriptors ==
    /\ proc.secure /\ pc \notin {"start", "fds", "exit", "through"} =>
           StdFds \subseteq fds
    /\ why # "wrong descriptor"

\* The state is well typed, and destructors are called for after all the constructors
\* have run: first those of the program, then those of each other module after a module
\* that needs it, once each, and in the end for every module that was constructed and
\* none besides but the loader (tests/rtld_artifact.rs expects the program's before its
\* dependency's).
FiniMatchesInit ==
    /\ TypeOK
    /\ finalized # <<>> => Range(group) \ {Rtld} = Range(inited) /\ finalized[1] = Prog
    /\ IsInjective(finalized)
    /\ \A i \in 2 .. Len(finalized) :
           \E j \in 1 .. i - 1 : finalized[i] \in Range(proc.needed[finalized[j]])
    /\ pc = "done" => Range(finalized) \ {Rtld} = Range(inited)

-----------------------------------------------------------------------------
\* The inductive invariant.  Where rtld_bootstrap is tells what the other
\* variables may be.

Unlinked == {"start", "fds", "rtld", "main"}
Mapping == {"link", "map", "before"}
Wired == {"layout", "early", "init", "running", "fini", "done"}

\* Nothing is linked yet; the loader is the first in the list and in the order.
UnlinkedInv ==
    pc \in Unlinked =>
        /\ group = <<>>
        /\ IF pc = "main" THEN loadOrder = <<Rtld>> /\ map = Rtld /\ tail = Rtld
                          ELSE loadOrder = <<>> /\ map = Null /\ tail = Null

\* The load group is the program and what it needs, each once; only constructors
\* and what comes later leave a trace of themselves.
GroupInv ==
    /\ IsInjective(group) /\ scan # 0
    /\ pc \in Mapping \cup Wired => group # <<>> /\ group[1] = Prog
    /\ pc \notin {"init", "running", "fini", "done", "rollback", "exit"} =>
           inited = <<>> /\ later = {} /\ ~early /\ ~extended
    /\ later \cap Range(group) = {}

\* Every module of the group but the first is needed by one before it.
OrderInv ==
    pc \in Mapping \cup Wired =>
        \A i \in 2 .. Len(group) :
            \E j \in 1 .. i - 1 : group[i] \in Range(proc.needed[group[j]])

\* While the group is mapped its modules are chained in their order behind the
\* loader, whose own links are of no use.
MappingInv ==
    pc \in Mapping =>
        /\ loadOrder = <<Rtld>> \o (IF pc = "before" THEN Modules ELSE <<>>)
        /\ map = Rtld /\ tail = Modules[Len(Modules)]
        /\ \A i \in DOMAIN Modules :
               /\ prev[Modules[i]] = IF i = 1 THEN Rtld ELSE Modules[i - 1]
               /\ i < Len(Modules) => next[Modules[i]] = Modules[i + 1]

\* Once it is wired anew the list is a walk of the committed modules, which are those
\* of the search list and then those that were opened later.  add_debug_link_map
\* appends to the module that was committed last: the end of the walk, unless the
\* program is alone with the loader and nothing was opened.
WiredInv ==
    pc \in Wired =>
        LET list0 == glibc.searchlist IN
        /\ IsInjective(loadOrder) /\ IsWalk(Seen)
        /\ map = Rtld /\ rMap = Prog
        /\ tail = loadOrder[Len(loadOrder)]
        /\ Len(list0) \in 2 .. Len(loadOrder)
        /\ Range(list0) = Range(group) \cup {Rtld}
        /\ \A i \in DOMAIN list0 : list0[i] = WalkOrder[i]
        /\ list0[1] = Prog /\ list0[2] = Rtld
        /\ later = {loadOrder[i] : i \in Len(list0) + 1 .. Len(loadOrder)}
        /\ later # {} => extended

\* The tables of glibc besides the search list, the TLS layout and libc.
TablesInv ==
    /\ pc \notin {"start", "exit", "through"} => glibc.aux
    /\ pc \in Wired =>
           /\ glibc.loaded = Prog /\ glibc.nloaded = Len(glibc.searchlist)
           /\ Libc \in Range(group) => glibc.libc = Libc
    /\ pc \in Wired \ {"layout"} => Range(group) \cup {Rtld} \subseteq tlsModules
    /\ pc \in {"init", "running", "fini", "done"} /\ Libc \in Range(group) => early
    /\ inited # <<>> /\ Libc \in Range(group) => early

\* Standard descriptors are opened from the lowest on.
FdsInv ==
    /\ pc = "start" => fd = 0
    /\ pc = "fds" => fd < 3 /\ {d \in StdFds : d < fd} \subseteq fds

\* STARTUP_ROOT is set while the program runs, and destructors run along FiniScope.
FiniInv ==
    /\ startupRoot = IF pc = "running" THEN Prog ELSE Null
    /\ pc \in {"running", "fini", "done"} => Range(group) \ {Rtld} = Range(inited)
    /\ pc \notin {"fini", "done"} => finalized = <<>>
    /\ pc \in {"fini", "done"} =>
           /\ \A i \in DOMAIN finalized : finalized[i] = FiniScope[i]
           /\ IF pc = "done" THEN Len(finalized) = Len(FiniScope)
                             ELSE Len(finalized) < Len(FiniScope)

\* The objects of Q are linked both ways, behind the loader.
DoublyLinked(Q) ==
    /\ \A o \in Q :
           /\ prev[o] \in Q \cup {Rtld} /\ prev[o] # tail
           /\ prev[o] # Rtld => next[prev[o]] = o
           /\ tail # o => next[o] \in Q /\ prev[next[o]] = o
    /\ \A o, m \in Q : prev[o] = prev[m] => o = m

\* Objects in memory that Drop for ExtraData would take out of the list.
Listed == {o \in Live \ {Rtld} : prev[o] # Null}

\* While a failed startup drops its modules in any order, what is in the list of them
\* stays linked among what is in memory; the program is not in it when it was made its
\* head, and the loader, which stays, may be cut off.  If it is lost there is nothing
\* in the list to be dropped.
RollbackInv ==
    pc = "rollback" =>
        /\ IsInjective(loadOrder) /\ Rtld \in Range(loadOrder) /\ map = Rtld
        /\ DoublyLinked(Listed) \/ (Alone /\ prev[Prog] = Null)

Inv ==
    /\ TypeOK /\ UnlinkedInv /\ GroupInv /\ MappingInv /\ WiredInv /\ TablesInv
    /\ OrderInv /\ FdsInv /\ FiniInv /\ RollbackInv /\ SecureDescriptors

-----------------------------------------------------------------------------
\* main_library takes the first module of load_order for the main executable.
MainLibrary == Head(loadOrder)

\* What dlopen(NULL) answers: run.rs documents "the main executable".
ThisIsMain == pc = "running" => MainLibrary = Prog

=============================================================================
