--------------------------------- MODULE Tls ---------------------------------
(***************************************************************************)
(* Thread-local storage of the rtld build: the resolver of runtime/rtld.rs,*)
(* the tables of rtld/impl/src/tls.rs and the DTV of glibc/v2_39/tls.rs.   *)
(*                                                                         *)
(* A module with TLS is registered while it is mapped, published once it   *)
(* is relocated, and unregistered when it goes.  A static module has a     *)
(* block at a fixed distance below the thread pointer of every thread; a   *)
(* dynamic one gets a block in each thread that asks for its address, and  *)
(* the DTV of the thread remembers it.                                     *)
(*                                                                         *)
(* The loader lock makes the module operations one process.  The others    *)
(* are run by threads: each section under one spin lock is one step.       *)
(* Addresses are distances below a thread pointer.  A usize overflow and   *)
(* an exhausted arena end in the same error, and the arena is the smaller  *)
(* bound, so numbers are unbounded here.                                   *)
(*                                                                         *)
(* TlsRequest::Static(Some(_)), which nothing in the rtld build asks for,  *)
(* is left out; so is the resolver's own list of ids and offsets, which    *)
(* repeats those of the slots.                                             *)
(***************************************************************************)
EXTENDS Integers, Sequences, FiniteSets

CONSTANTS Main,        \* the thread pointer of the initial thread
          Tcbs,        \* the thread pointers of the others
          Slots,       \* DTV_SLOT_COUNT
          Arena,       \* STATIC_TLS_ARENA_SIZE
          RseqSize, RseqAlign, TcbAlign, MainAlign,
          Powers,      \* the powers of two
          Infos,       \* TlsInfo of the modules: [memsz, align, vaddr]
          Null,        \* null pointer, no DTV, no source, vacant slot
          MaxModules,  \* bound: registrations
          MaxBlocks    \* bound: dynamic blocks allocated

ASSUME TlsAssumption ==
    /\ Main \notin Tcbs
    /\ {Slots, Arena, MaxModules, MaxBlocks} \subseteq Nat
    /\ {RseqSize, RseqAlign, TcbAlign, MainAlign} \subseteq Nat \ {0}
    /\ Powers \subseteq Nat \ {0}
    /\ Infos \subseteq [memsz : Nat, align : Nat, vaddr : Nat]

ASSUME PowersAssumption ==
    /\ {1, RseqAlign, TcbAlign} \subseteq Powers
    /\ \A p, q \in Powers : p <= q => q % p = 0

VARIABLES modules,    \* TLS_MODULES: a slot for every id given out
          statics,    \* STATIC_TLS_MODULES: ids
          used,       \* StaticTlsArea::used
          maxAlign,   \* StaticTlsArea::max_align
          layout,     \* dl_tls_static_size (without the TCB) and dl_tls_static_align
          storage,    \* size below each thread pointer, alignment; Null: no memory
          owned,      \* TLS_ALLOCATIONS
          phase,      \* of each thread: "none", "memory", "tcb", "running", "kept"
          dtv,        \* the DTV of each thread
          blocks,     \* DYNAMIC_TLS_BLOCKS: [tp, ptr]
          heap,       \* dynamic blocks in memory
          made,       \* history: the module each dynamic block was made for
          reach,      \* history: the farthest byte written below each thread pointer
          images,     \* history: static modules whose image the thread received
          measured,   \* history: static_used_info when the thread's memory was measured
                      \* (of Main: when the layout was published)
          wrote,      \* history: static_used_info when the thread was last initialised
          known       \* history: static modules with an image when the thread was made

modVars == <<modules, statics, used, maxAlign>>

vars == <<modVars, layout, storage, owned, phase, dtv, blocks, heap, made, reach, images,
          measured, wrote, known>>

Threads == Tcbs \cup {Main}

Ids == 1 .. MaxModules

-----------------------------------------------------------------------------
\* The layout of static TLS.

MaxOf(a, b) == IF a >= b THEN a ELSE b

align_up(value, align) == ((value + align - 1) \div align) * align

\* Mutant: the first byte is put at a multiple of the alignment, whatever p_vaddr.
MutantModuleEnd(u, info, align) == align_up(u + info.memsz, align)

\* static_module_end: the block ends (begins in memory) at a distance that is
\* congruent to -vaddr.
static_module_end(u, info, align) ==
    LET firstbyte == (- info.vaddr) % align
        minEnd    == u + info.memsz
        end       == align_up(MaxOf(minEnd - firstbyte, 0), align) + firstbyte
    IN  IF end < minEnd THEN end + align ELSE end

static_used_with_rseq(u) == align_up(u, RseqAlign) + RseqSize

IsNextPowerOfTwo(p, n) ==
    /\ p \in Powers
    /\ p >= MaxOf(n, 1)
    /\ \A q \in Powers : q >= MaxOf(n, 1) => p <= q

static_used_info == <<used, maxAlign>>

\* What allocate_storage and static_info ask for, given a result of static_used_info:
\* size and alignment.
LayoutOf(info) ==
    LET align == MaxOf(info[2], MaxOf(RseqAlign, TcbAlign))
    IN  [size |-> align_up(static_used_with_rseq(info[1]), align), align |-> align]

StaticLayout == LayoutOf(static_used_info)

-----------------------------------------------------------------------------
NewDtv == [i \in 1 .. Slots |-> Null]

\* The entry of the DTV of t for a module, if it has a slot.
dtv_value(t, id) == IF id <= Slots THEN dtv[t][id] ELSE Null

\* The slot of a module; ids begin at 1.
tls_module(id) == IF id \in DOMAIN modules THEN modules[id] ELSE Null

\* What __tls_get_addr answers a thread without allocating.  A static block is known
\* by its module: its address is computed from the thread pointer.
get_addr(t, id) ==
    IF tls_module(id) = Null THEN Null
    ELSE IF modules[id].kind = "static" THEN [static |-> id] ELSE dtv_value(t, id)

\* install_resolver_ops has run.
Init ==
    /\ modules = <<>>
    /\ statics = {}
    /\ used = 0
    /\ maxAlign = 1
    /\ layout = Null
    /\ storage = [t \in Threads |-> Null]
    /\ owned = {}
    /\ phase = [t \in Threads |-> "none"]
    /\ dtv = [t \in Threads |-> Null]
    /\ blocks = {}
    /\ heap = {}
    /\ made = <<>>
    /\ reach = [t \in Threads |-> 0]
    /\ images = [t \in Threads |-> {}]
    /\ measured = [t \in Threads |-> <<0, 1>>]
    /\ wrote = [t \in Threads |-> <<0, 1>>]
    /\ known = [t \in Threads |-> {}]

\* Mutant: the slot of a module that went is given out again.
MutantNewId ==
    LET vacant == {i \in DOMAIN modules : modules[i] = Null}
    IN  IF vacant = {} THEN Len(modules) + 1 ELSE CHOOSE i \in vacant : TRUE

\* register_module: ids are never given out twice.
NewId == Len(modules) + 1

Register(module) ==
    modules' = [i \in DOMAIN modules \cup {NewId} |->
                 IF i = NewId THEN module ELSE modules[i]]

\* The TlsInfo of a dynamic module only says how large its blocks are.
RegisterDynamic ==
    /\ NewId <= MaxModules
    /\ Register([kind |-> "dynamic", source |-> FALSE])
    /\ UNCHANGED <<statics, used, maxAlign, layout, storage, owned, phase, dtv, blocks,
                   heap, made, reach, images, measured, wrote, known>>

\* ensure_static_tls_area: the memory and the DTV of the initial thread.
EnsureArea ==
    /\ storage' = [storage EXCEPT ![Main] = [size |-> Arena, align |-> MainAlign]]
    /\ phase' = [phase EXCEPT ![Main] = "running"]
    /\ dtv' = IF phase[Main] = "none" THEN [dtv EXCEPT ![Main] = NewDtv] ELSE dtv

\* register_static_module
RegisterStatic(info) ==
    /\ NewId <= MaxModules
    /\ EnsureArea
    /\ \E align \in Powers :
         LET end == static_module_end(used, info, align)
         IN  /\ IsNextPowerOfTwo(align, info.align)
             /\ static_used_with_rseq(end) <= Arena
             /\ Register([kind |-> "static", info |-> info, source |-> FALSE,
                          offset |-> end])
             /\ used' = end
             /\ maxAlign' = MaxOf(maxAlign, align)
    /\ statics' = statics \cup {NewId}
    /\ UNCHANGED <<layout, owned, blocks, heap, made, reach, images, measured, wrote,
                   known>>

\* The same when the arena is too small: the load fails, the area stays.
RegisterStaticFails(info) ==
    /\ \A align \in Powers : IsNextPowerOfTwo(align, info.align) =>
         static_used_with_rseq(static_module_end(used, info, align)) > Arena
    /\ EnsureArea
    /\ UNCHANGED <<modVars, layout, owned, blocks, heap, made, reach, images, measured,
                   wrote, known>>

\* init_tls_module of a dynamic module.
PublishDynamic(id) ==
    /\ tls_module(id) # Null
    /\ modules[id].kind = "dynamic" /\ ~ modules[id].source
    /\ modules' = [modules EXCEPT ![id].source = TRUE]
    /\ UNCHANGED <<statics, used, maxAlign, layout, storage, owned, phase, dtv, blocks,
                   heap, made, reach, images, measured, wrote, known>>

\* A DTV with the static blocks of the modules in S entered; higher ids have no slot.
WithStatics(d, S) == [i \in DOMAIN d |-> IF i \in S THEN [static |-> i] ELSE d[i]]

FarthestOf(S) ==
    CHOOSE n \in {0} \cup {modules[i].offset : i \in S} :
      \A i \in S : n >= modules[i].offset

\* init_tls_module of a static one: the initial thread gets the image, and its rseq
\* area moves below the new block.
PublishStatic(id) ==
    /\ id \in statics
    /\ ~ modules[id].source
    /\ modules' = [modules EXCEPT ![id].source = TRUE]
    /\ dtv' = [dtv EXCEPT ![Main] = WithStatics(@, {id})]
    /\ images' = [images EXCEPT ![Main] = @ \cup {id}]
    /\ reach' = [reach EXCEPT ![Main] = MaxOf(@, static_used_with_rseq(used))]
    /\ UNCHANGED <<statics, used, maxAlign, layout, storage, owned, phase, blocks, heap,
                   made, measured, wrote, known>>

\* unregister_module: the space of a static module and the dynamic blocks stay.
Unregister(id) ==
    /\ tls_module(id) # Null
    /\ modules' = [modules EXCEPT ![id] = Null]
    /\ statics' = statics \ {id}
    /\ UNCHANGED <<used, maxAlign, layout, storage, owned, phase, dtv, blocks, heap,
                   made, reach, images, measured, wrote, known>>

\* publish_tls_layout, once, before the constructors of the program run.
PublishLayout ==
    /\ layout = Null
    /\ layout' = StaticLayout
    /\ measured' = [measured EXCEPT ![Main] = static_used_info]
    /\ UNCHANGED <<modVars, storage, owned, phase, dtv, blocks, heap, made, reach,
                   images, wrote, known>>

-----------------------------------------------------------------------------
\* The static modules whose image a new thread receives.
WithImage == {i \in statics : modules[i].source}

\* Mutant: no room for the rseq area.
MutantStorage(t) ==
    /\ layout # Null
    /\ phase[t] = "none"
    /\ storage' = [storage EXCEPT ![t] = [size |-> used, align |-> StaticLayout.align]]
    /\ owned' = owned \cup {t}
    /\ phase' = [phase EXCEPT ![t] = "memory"]
    /\ measured' = [measured EXCEPT ![t] = static_used_info]
    /\ known' = [known EXCEPT ![t] = WithImage]
    /\ UNCHANGED <<modVars, layout, dtv, blocks, heap, made, reach, images, wrote>>

\* _dl_allocate_tls without memory: allocate_storage.
AllocateStorage(t) ==
    /\ layout # Null
    /\ phase[t] = "none"
    /\ storage' = [storage EXCEPT ![t] = StaticLayout]
    /\ owned' = owned \cup {t}
    /\ phase' = [phase EXCEPT ![t] = "memory"]
    /\ measured' = [measured EXCEPT ![t] = static_used_info]
    /\ known' = [known EXCEPT ![t] = WithImage]
    /\ UNCHANGED <<modVars, layout, dtv, blocks, heap, made, reach, images, wrote>>

\* _dl_allocate_tls with memory that pthread_create measured by the layout.
ProvideStorage(t) ==
    /\ layout # Null
    /\ phase[t] = "none"
    /\ storage' = [storage EXCEPT ![t] = layout]
    /\ phase' = [phase EXCEPT ![t] = "memory"]
    /\ measured' = [measured EXCEPT ![t] = measured[Main]]
    /\ known' = [known EXCEPT ![t] = WithImage]
    /\ UNCHANGED <<modVars, layout, owned, dtv, blocks, heap, made, reach, images,
                   wrote>>

\* Mutant: a module without a slot in the DTV gets no image.
MutantInitTcb(t) ==
    LET S == {i \in WithImage : i <= Slots}
    IN  /\ phase[t] = "memory"
        /\ dtv' = [dtv EXCEPT ![t] = WithStatics(NewDtv, S)]
        /\ images' = [images EXCEPT ![t] = S]
        /\ reach' = [reach EXCEPT ![t] = FarthestOf(S)]
        /\ phase' = [phase EXCEPT ![t] = "tcb"]
        /\ wrote' = [wrote EXCEPT ![t] = static_used_info]
        /\ UNCHANGED <<modVars, layout, storage, owned, blocks, heap, made, measured,
                       known>>

\* init up to the end of the loop over STATIC_TLS_MODULES: a new DTV, and the image
\* of every static module that has one.
InitTcb(t) ==
    LET S == WithImage
    IN  /\ phase[t] = "memory"
        /\ dtv' = [dtv EXCEPT ![t] = WithStatics(NewDtv, S)]
        /\ images' = [images EXCEPT ![t] = S]
        /\ reach' = [reach EXCEPT ![t] = FarthestOf(S)]
        /\ phase' = [phase EXCEPT ![t] = "tcb"]
        /\ wrote' = [wrote EXCEPT ![t] = static_used_info]
        /\ UNCHANGED <<modVars, layout, storage, owned, blocks, heap, made, measured,
                       known>>

\* The rest of init, which asks STATIC_TLS again for the place of the rseq area.
\* Then the thread runs.
InitRseq(t) ==
    /\ phase[t] = "tcb"
    /\ reach' = [reach EXCEPT ![t] = MaxOf(@, static_used_with_rseq(used))]
    /\ phase' = [phase EXCEPT ![t] = "running"]
    /\ wrote' = [wrote EXCEPT ![t] = static_used_info]
    /\ UNCHANGED <<modVars, layout, storage, owned, dtv, blocks, heap, made, images,
                   measured, known>>

\* allocate_dynamic_block.  Without a source the block is neither freed nor entered;
\* without a slot in the DTV it is freed and the answer is null.
AllocateBlock(t, id) ==
    LET ptr == Len(made) + 1
    IN  /\ made' = Append(made, id)
        /\ \/ /\ ~ modules[id].source
              /\ heap' = heap \cup {ptr}
              /\ UNCHANGED <<blocks, dtv>>
           \/ /\ modules[id].source /\ id > Slots
              /\ UNCHANGED <<heap, blocks, dtv>>
           \/ /\ modules[id].source /\ id <= Slots
              /\ heap' = heap \cup {ptr}
              /\ dtv' = [dtv EXCEPT ![t][id] = [block |-> ptr]]
              /\ blocks' = blocks \cup {[tp |-> t, ptr |-> ptr]}

\* __tls_get_addr of a dynamic module whose block the thread does not have yet.  The
\* other calls of __tls_get_addr and dl_tls_get_addr_soft change nothing.
GetAddr(t, id) ==
    /\ phase[t] = "running"
    /\ tls_module(id) # Null
    /\ modules[id].kind = "dynamic"
    /\ dtv_value(t, id) = Null
    /\ Len(made) < MaxBlocks
    /\ AllocateBlock(t, id)
    /\ UNCHANGED <<modVars, layout, storage, owned, phase, reach, images, measured,
                   wrote, known>>

\* The memory of t is gone.
Forget(t) ==
    /\ storage' = [storage EXCEPT ![t] = Null]
    /\ owned' = owned \ {t}
    /\ phase' = [phase EXCEPT ![t] = "none"]
    /\ reach' = [reach EXCEPT ![t] = 0]
    /\ images' = [images EXCEPT ![t] = {}]
    /\ measured' = [measured EXCEPT ![t] = <<0, 1>>]
    /\ wrote' = [wrote EXCEPT ![t] = <<0, 1>>]
    /\ known' = [known EXCEPT ![t] = {}]

\* Mutant: the blocks of a thread outlive it.
MutantDeallocate(t) ==
    /\ t # Main
    /\ phase[t] \in {"running", "kept"}
    /\ dtv' = [dtv EXCEPT ![t] = Null]
    /\ Forget(t)
    /\ UNCHANGED <<modVars, layout, blocks, heap, made>>

\* _dl_deallocate_tls of a thread that is gone: the DTV and its dynamic blocks.  With
\* dealloc_tcb the memory goes, too, if allocate_storage made it; the caller frees its
\* own.  Without, memory of allocate_storage is kept, to be initialised or freed later.
Deallocate(t) ==
    /\ t # Main
    /\ phase[t] \in {"running", "kept"}
    /\ dtv' = [dtv EXCEPT ![t] = Null]
    /\ heap' = heap \ {b.ptr : b \in {c \in blocks : c.tp = t}}
    /\ blocks' = {b \in blocks : b.tp # t}
    /\ \/ Forget(t)
       \/ /\ t \in owned
          /\ phase' = [phase EXCEPT ![t] = "kept"]
          /\ UNCHANGED <<storage, owned, reach, images, measured, wrote, known>>
    /\ UNCHANGED <<modVars, layout, made>>

\* _dl_allocate_tls_init of memory that is used again: a DTV that it still has is freed,
\* the dynamic blocks stay in the table.
Reinit(t) ==
    /\ t # Main
    /\ phase[t] \in {"running", "kept"}
    /\ phase' = [phase EXCEPT ![t] = "memory"]
    /\ known' = [known EXCEPT ![t] = WithImage]
    /\ UNCHANGED <<modVars, layout, storage, owned, dtv, blocks, heap, made, reach, images,
                   measured, wrote>>

Next ==
    \/ RegisterDynamic
    \/ \E info \in Infos : RegisterStatic(info) \/ RegisterStaticFails(info)
    \/ \E id \in Ids : PublishDynamic(id) \/ PublishStatic(id) \/ Unregister(id)
    \/ PublishLayout
    \/ \E t \in Tcbs : \/ AllocateStorage(t) \/ ProvideStorage(t)
                       \/ InitTcb(t) \/ InitRseq(t)
                       \/ Deallocate(t) \/ Reinit(t)
    \/ \E t \in Threads, id \in Ids : GetAddr(t, id)

Spec == Init /\ [][Next]_vars
-----------------------------------------------------------------------------
Dynamic == [kind : {"dynamic"}, source : BOOLEAN]

Static == [kind : {"static"}, info : Infos, source : BOOLEAN, offset : 0 .. Arena]

Slot == {Null} \cup Dynamic \cup Static

Layout == [size : Nat, align : Nat]

\* What the DTV has for a module.
Entry == {Null} \cup [static : Ids] \cup [block : 1 .. MaxBlocks]

ASSUME NullAssumption == Null \notin Dynamic \cup Static \cup Layout

TypeOK ==
    /\ modules \in Seq(Slot)
    /\ statics \subseteq DOMAIN modules
    /\ \A i \in statics : modules[i] # Null /\ modules[i].kind = "static"
    /\ used \in 0 .. Arena
    /\ maxAlign \in Nat \ {0}
    /\ layout \in Layout \cup {Null}
    /\ storage \in [Threads -> Layout \cup {Null}]
    /\ owned \subseteq Tcbs
    /\ phase \in [Threads -> {"none", "memory", "tcb", "running", "kept"}]
    /\ \A t \in Threads :
         dtv[t] # Null => \A i \in 1 .. Slots : dtv[t][i] \in Entry
    /\ blocks \subseteq [tp : Threads, ptr : DOMAIN made]
    /\ heap \subseteq DOMAIN made
    /\ made \in Seq(Ids)
    /\ reach \in [Threads -> Nat]
    /\ images \in [Threads -> SUBSET Ids]
    /\ measured \in [Threads -> Nat \X Nat]
    /\ wrote \in [Threads -> Nat \X Nat]
    /\ known \in [Threads -> SUBSET Ids]

\* The state is well typed (so a failed registration leaves no trace), and static
\* blocks lie beside each other inside the arena, above the rseq area, each at an
\* address congruent to its p_vaddr.
LayoutSound ==
    /\ TypeOK
    /\ static_used_with_rseq(used) <= Arena \/ statics = {}
    /\ \A i \in statics :
         LET m == modules[i]
         IN  /\ m.offset <= used
             /\ \E p \in Powers : IsNextPowerOfTwo(p, m.info.align)
                                  /\ (m.offset + m.info.vaddr) % p = 0
             /\ m.info.memsz <= m.offset
             /\ \A j \in statics \ {i} :
                  \/ m.offset <= modules[j].offset - modules[j].info.memsz
                  \/ modules[j].offset <= m.offset - m.info.memsz

\* What dl_tls_get_addr_soft finds in the DTV for a registered module is what
\* __tls_get_addr answers, and it is the block of this module: for a dynamic one,
\* memory made for it and for this thread that was not freed.
DtvIsOwn ==
    \A t \in Threads, id \in DOMAIN modules :
      (phase[t] = "running" /\ modules[id] # Null /\ dtv_value(t, id) # Null) =>
        /\ get_addr(t, id) = dtv_value(t, id)
        /\ modules[id].kind = "dynamic" =>
             \E b \in blocks : /\ dtv_value(t, id) = [block |-> b.ptr]
                              /\ b.tp = t /\ b.ptr \in heap /\ made[b.ptr] = id

\* The table of dynamic blocks holds memory of threads that exist, each block once:
\* freeing the blocks of a thread frees nothing twice and nothing of another.
BlocksOnce ==
    /\ \A b \in blocks : b.ptr \in heap /\ phase[b.tp] # "none"
    /\ \A b, c \in blocks : b.ptr = c.ptr => b = c

\* Initialising a thread writes inside its memory only, which is aligned for every
\* static module it received: unless a static module came between the measuring of the
\* memory and the initialisation (register_static_module does not look at memory that
\* exists, allocate_storage and static_info count what there is).
FitsStorage ==
    /\ phase[Main] # "none" => reach[Main] <= storage[Main].size
    /\ \A t \in Tcbs : phase[t] # "none" /\ wrote[t] = measured[t] =>
         /\ reach[t] <= storage[t].size
         /\ \A i \in images[t] : i \in statics =>
              \E p \in Powers : IsNextPowerOfTwo(p, modules[i].info.align)
                                /\ storage[t].align % p = 0

\* The initial thread has the image of every published static module, any other one of
\* those that were published when it was made: also of a module that came after the
\* startup, or that has no slot in the DTV.  A thread that runs already receives none.
HasImages ==
    /\ WithImage \subseteq images[Main]
    /\ \A t \in Tcbs : phase[t] = "running" => known[t] \cap statics \subseteq images[t]
-----------------------------------------------------------------------------
(* The inductive invariant of the proofs *)

\* The bounds on registrations and blocks, and the shape of a DTV.
Bounded ==
    /\ Len(modules) <= MaxModules
    /\ Len(made) <= MaxBlocks
    /\ dtv \in [Threads -> {Null} \cup [1 .. Slots -> Entry]]

\* The initial thread runs as soon as there is a static module.
MainReady ==
    /\ phase[Main] \in {"none", "running"}
    /\ statics # {} => phase[Main] = "running"

\* An id keeps its kind: what a DTV in use has for it is nothing, the static block of
\* this module, or a dynamic block made for this module and this thread.
OwnEntry(t, i) ==
    \/ dtv[t][i] = Null
    \/ /\ dtv[t][i] = [static |-> i]
       /\ i \in DOMAIN modules
       /\ modules[i] # Null => modules[i].kind = "static"
    \/ /\ i \in DOMAIN modules
       /\ modules[i] # Null => modules[i].kind = "dynamic"
       /\ \E b \in blocks : /\ dtv[t][i] = [block |-> b.ptr]
                            /\ b.tp = t /\ b.ptr \in heap /\ made[b.ptr] = i

OwnEntries ==
    \A t \in Threads : phase[t] \in {"tcb", "running"} =>
      dtv[t] \in [1 .. Slots -> Entry] /\ \A i \in 1 .. Slots : OwnEntry(t, i)

Inv ==
    /\ LayoutSound
    /\ Bounded
    /\ MainReady
    /\ BlocksOnce
    /\ OwnEntries

\* Memory has the size and the alignment it was measured for.
MeasuredInv ==
    /\ layout # Null => layout = LayoutOf(measured[Main])
    /\ \A t \in Tcbs : phase[t] # "none" =>
         layout # Null /\ storage[t] = LayoutOf(measured[t])

\* A module keeps its image, and a module that comes is in no thread yet.
ImagesInv ==
    /\ WithImage \subseteq images[Main]
    /\ \A t \in Tcbs : /\ known[t] \cup images[t] \subseteq DOMAIN modules
                       /\ known[t] \cap statics \subseteq WithImage
                       /\ phase[t] \in {"tcb", "running"} =>
                            known[t] \cap statics \subseteq images[t]

\* maxAlign is a power of two no smaller than that of any static module.
AlignInv ==
    /\ maxAlign \in Powers
    /\ \A i \in statics : \E p \in Powers :
         IsNextPowerOfTwo(p, modules[i].info.align) /\ p <= maxAlign

MainReach ==
    /\ phase[Main] # "none" => storage[Main] = [size |-> Arena, align |-> MainAlign]
    /\ reach[Main] <= Arena

\* What was written below a thread pointer is what static_used_info asked for then.
TcbReach ==
    \A t \in Tcbs :
      /\ wrote[t][1] <= used /\ wrote[t][2] <= maxAlign /\ wrote[t][2] \in Powers
      /\ reach[t] <= static_used_with_rseq(wrote[t][1])
      /\ \A i \in images[t] \cap statics : \E p \in Powers :
           IsNextPowerOfTwo(p, modules[i].info.align) /\ p <= wrote[t][2]

ThreadsInv ==
    /\ Inv
    /\ MeasuredInv
    /\ ImagesInv
    /\ AlignInv
    /\ MainReach
    /\ TcbReach
=============================================================================
