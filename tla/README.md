# TLA+ models of dlopen-rs

This directory holds TLA+ models of the dynamic linker in this repository, TLC
configurations that check them on small instances, and TLAPS proofs of the
properties that matter most. `PROJECT.json` lists the components, the runs, the
source lines behind every definition, the hazards of the code and the theorems.

The crate has two builds. The **std build** is a library inside a process that
the platform's linker started: it takes over that linker's list of objects and
loads further libraries. The **no_std build** (`rtld/`) *is* the platform's
linker: a glibc-compatible `ld.so` that the kernel maps, or a user runs as a
command, and that starts the whole process.

## The system's parts

| Part | State | Operations | Interacts with | What makes it correct |
|---|---|---|---|---|
| Loader lock, `src/registry/loader_lock.rs` | owner, depth (std: in a Mutex, with a Condvar; no_std: two atomics, a futex) | lock, drop of a guard | held by every dlopen, across constructors and callbacks | excludes threads, is reentrant, wakes a waiter |
| Registry, `src/registry/manager.rs` | committed modules, leases, pins, handles, global scope, flags, `adds`/`subs` | open, promote, publish, roll back, release, unload | the `LinkContext` of the external crate elf_loader | exactly what somebody holds is loaded; stored flags are obeyed |
| dlopen pipeline, `src/dlopen/` | the load in progress | reuse, prepare, relocate, publish, initialize, finish | registry, lock, debugger's list, TLS; user code that is called back | nested and failing loads leave the registry whole |
| dl_iterate_phdr, dladdr, thread destructors, `src/api/`, `registry/cxa.rs` | leases of snapshots, temporaries and pending destructors | iterate, look up, register, run at thread exit | registry | what a callback sees stays loaded |
| dlsym, `manager.rs`, `api/dlsym.rs` | order of the global scope and of handles' scopes | RTLD_DEFAULT, RTLD_NEXT, handle lookups | registry | answers are stable and complete |
| dlerror, `src/api/dlerror.rs` | pending and returned message per thread | clear, set, dlerror | every C entry point | a thread is told its own last error |
| Debugger's list, `src/runtime/debug.rs` | `r_debug`, cached tail, `l_next`, `l_prev`, `r_state` | add, drop | loads, unloads, startup | a debugger that stops can walk the list |
| Search of a name, `src/dlopen/run.rs`, `ld_cache.rs`, `os/linux.rs` | `SEARCH_PATHS` and `LD_CACHE`, each built at its first use and kept; the bytes of the cache | read the environment, read the file, lookup, try candidates | the file system, ldconfig, the resolver of elf_loader | the first place that has the library wins, a bad cache is as none, the search ends |
| Thread-local storage, `rtld/impl/src/tls.rs`, `glibc/v2_39/tls.rs`, `src/runtime/rtld.rs` | module slots, static area, thread storage, DTVs, dynamic blocks | register, publish, unregister, allocate, initialize, get address, deallocate | libc's thread creation, loads and unloads | blocks are disjoint, inside their memory, freed once |
| Direct invocation, `rtld/impl/src/cli.rs`, `bootstrap/stack.rs` | the initial stack; tables of fixed size about an inspected file | read options, move the stack, patch auxv; `--list`, `--verify` | startup | the program cannot tell that ld.so was run; what is needed is listed |
| Startup, `bootstrap/startup.rs`, `publish.rs`, `self_reloc.rs`, `glibc/v2_39/mod.rs` | the boot sequence, the tables that glibc reads, list of link maps | relocate itself, map, link, publish, construct, enter, finalize | all of the above | constructors find everything published |
| Host initialization, `src/runtime/host.rs` | the host's `r_debug` and list, functions of libc, the objects registered | find r_debug, take the list over, look libc up, register what is reported | the host's linker, debugger's list, registry | every object is registered once, as the link editor wrote it; the host's list is not damaged |
| dlinfo, `rtld/impl/src/symbols/dlfcn.rs` | `ORIGIN_CACHE` | RTLD_DI_ORIGIN, RTLD_DI_ORIGIN_PATH and copies of fields | handles, memory that is used again | answers are about the module that was asked about |
| dladdr's symbol search, serinfo, tunables, audit entry points, OS layer, errors | mostly data | | | see *What is left out* |

What is hard here, and to which the properties are aimed: code that the loader
calls back with its lock held and that calls the loader again; two threads that
open and close the same libraries; libraries that go while something still refers
to them; failures after a load became visible; locks built from atomics; lists and
stacks that are edited in place; memory and thread pointers that are used again.
`PROJECT.json` lists these as hazards, at the line where they bite.

## Modules and the code

* **ReentrantLock**: what a reentrant lock promises. **StdLoaderLock** and
  **FutexLoaderLock** are the two `mod imp` of `loader_lock.rs`. In the std lock
  one action is one critical section of the Mutex (`Condvar::wait` releases and
  sleeps in one step). In the futex lock one action is one atomic access or one
  system call; `seen` is the local variable `owner` of `lock()`. The refinement
  maps the futex lock's words to the abstract lock with a depth that covers the gap
  between the two words.
* **Registry** is the `Manager` with the calls through it. A critical section
  without user code in it is one action. A call during which user code runs leaves
  a *frame* on its thread's stack; the frame says what the call holds (leases, the
  lock) and how it goes on: `relocate` (IFUNC resolvers), `init` (constructors),
  `opened` (between the registry and the table of handles), `iter` and `drop`
  (dl_iterate_phdr), `temp` (dladdr), `dtor`, `fini`. `UserCall` is what the
  program may call at such a point, `Continue` how the innermost call goes on.
  `RollbackLoad` is what follows a failing `before_init` or constructor: a module that
  nested calls hold stays, and the rollback may itself fail, after which the load stays
  as if pinned. `left` and `swept` count what that path does not tell `adds` and `subs`.
  `Group` is the load group as the least set closed under dependencies, so that
  cycles are covered and the module can be proved about.
* **SymbolScopes** keeps the same scopes as *sequences*, since their order decides
  the answers of dlsym. **DlInfo** extends it with the addresses of link maps and
  names, which a later module may be given again, and with `dlinfo`'s cache, which is
  keyed by them and never emptied. A load is one step here: the lock is held from
  publication to `open_load`, and what constructors may call in between is in Registry.
* **DlError** has one action per entry point of `dlerror.rs`, with nested failing
  calls, for both builds (`std`): thread-local, or a map keyed by thread pointer whose
  entries outlive their threads. Thread pointers are used again.
* **LinkMapList** is what a debugger's list promises (append, remove); **DebugList**
  is `add_debug_link_map` and `Drop for ExtraData` with the stop between the two
  breakpoint calls. **HostInit** extends it with the std build's initialization, one
  action per object looked at or reported: temporary objects made from the host's link
  maps are dropped through the same `Drop`. Where `from_raw` makes no object the walk over
  the list goes on and the callback aborts the process (`accepted`).
* **LdCache** is `lookup`: the direction, the binary search, the scan back and the
  scan forth, one action per iteration. **LibrarySearch** extends it with `dlopen`'s
  walk over the search paths around it; between two steps files come and go, `ldconfig`
  replaces the cache and the environment is written to.
* **Tls** has the module operations (under the loader lock) and those of threads
  (each section under one spin lock is a step). Addresses are distances below a
  thread pointer. Static modules come with the program or at any later time; `measured`,
  `wrote` and `known` record what `static_used_info` said when a thread's memory was
  measured and initialised, and which images there were when it was made.
* **DirectStart** is the command line and the stack, moved word by word. It extends
  **Inspector**, which is `--list` and `--verify`: what is read from a file into the
  tables of fixed size, and the second opening of the same path.
* **Startup** is a process from `rtld_bootstrap` to `rtld_fini`, with the list of
  link maps that is rewired once and appended to later, and with the fields of
  glibc's tables (`glibc`) that say which modules there are. dlopen is called by
  constructors, the program and destructors, whatever the program needs: the loader
  exports it itself (`versions.rs:9`).
* **Launch** composes Startup and DirectStart as `run` and `prepare_direct_exec` do: the
  command line is read and the stack moved after the loader has relocated itself and
  before it registers anything, the auxiliary vector is patched with the mapping of the
  program, and a failure of either ends both.
* **MC...** modules give the constants; **...Proofs** modules hold the theorems.

Definitions named `Mutant...` are plausible mistakes in the definition that
follows. Nothing uses them; put in its place, each makes TLC report the property it
is listed with in `PROJECT.json`.

## What TLC checks

| Run | Instance | Shows |
|---|---|---|
| `std_lock` | 3 threads, nesting 2; 152 states | a waiter is never left while the lock is free although one is notified and others barge in; a free lock is taken; refinement, and with it mutual exclusion |
| `futex_lock` | 3 threads, nesting 2; 10k states | refinement, access by access, and with it mutual exclusion |
| `futex_lost_wakeup` | 2 threads | a *violation*, see below |
| `registry` | 2 threads, 3 modules with a dependency, both APIs, nesting 2; 632k states | leases are conserved, loaded is exactly what handles, values, destructors, calls and pins hold, callbacks' modules stay, counters account for the loaded set, the lock is used as ReentrantLock allows |
| `reentry` | 1 thread, flags, an alias, repeated loads, rollbacks while nested calls hold the modules; 190k states | stored flags honoured, the global scope is loaded, the lock is released on every path |
| `dlerror` | 2 threads that come and go, both builds, 3 thread pointers that are used again; 45k states | each thread is told its own last error (no_std: from its first call on); the returned text lives until the next call |
| `debug_list` | up to 5 objects of the host, 4 libraries loaded at a time, four processes (glibc and musl; r_debug found through the program, through the interpreter or not at all); 52k states | links, tail and order, also at the stops; the initialization registers every object and what a debugger sees refines LinkMapList |
| `tls` | 3 modules, static ones at any time, 2 threads, 2 DTV slots, 2 blocks; 3.2M states | static layout sound, threads inside their memory and with the images of their time, DTV entries live and own, blocks freed once |
| `ld_cache` | every cache of up to 3 entries, and two searches in a changing system; 620k states | answers are sound, the first entry is found, the search takes the first place that has the library, with a missing or damaged cache too, and ends |
| `symbol_scopes` | 5 modules, 2 symbols, 2 addresses each for link maps and names; 22k states | RTLD_DEFAULT stable, RTLD_NEXT chains complete, handles reach what they need, dlinfo's directory is the module's own unless both addresses were used again |
| `launch` | Launch with every command line of up to 4 words, object files sound and damaged, 4 objects and the loader, every set of open descriptors, 6 dependency lists, a failure at each step; 1.3M states | options are complete and the moved stack is the one the kernel would have built; `--list` prints every needed name; the list is whole for debuggers, also after later loads; failed startups drop safely; constructors find TLS, libc, list and glibc's tables ready and in agreement; secure descriptors; destructors once each, from the program on |
| `loader_lost` | Startup alone | a *violation*, see below |

The bounds are small but reach the cases at stake. Three threads give the lock an
owner, a waiter and one that barges in; two nested guards are the smallest
reentry. Two frames per thread are a call inside a constructor or callback;
`MaxAdds` beyond the number of libraries lets one be unloaded and loaded again.
Four loaded libraries are an end and inner ones
behind the host's objects. Two DTV slots with three
modules exceed the DTV. Three cache entries give a run of equal names at either end, a
probe that misses on either side and an entry of another architecture within the run;
the proofs cover every length. Two searches are the first, which builds `SEARCH_PATHS`
and `LD_CACHE`, and one that uses them after the system has changed; only caches of up
to one entry (`LaterLibs`) are searched in it. Four words are an option, its value, the program and an
argument; all command lines are given to a static program, whose startup is short, and
one of them to every other process, since the two parts share nothing but their order. In `symbol_scopes` the scopes are finite by
themselves; one entry in dlinfo's cache (`MaxCached`), made for one module and found
for another at the same addresses, is what can go wrong there. Two needed names in
`--list` (`MaxNeeded`) are a full table. The symmetry of
`registry` permutes threads, which no property there names.

The state of a module is also type-checked: `TypeOK` is a conjunct of a
listed invariant in Registry, DlError, Tls, SymbolScopes, DirectStart (`StackTypeOK`)
and Startup, and a part of the proved invariant of the locks, DebugList and LdCache.

Deadlock is checked except where the system may stop: a finished lookup, an aborted
initialization (HostInit), bounds reached (Tls).

### Fairness

* Locks: weak fairness of `Step(t)`, the steps a thread takes inside lock() and
  unlock(): a runnable thread is scheduled. Nothing is assumed of when a caller
  drops its guard, of signals or of spurious wake-ups.
* Registry: strong fairness, per thread and nesting level, of how a call that holds
  the lock goes on: code that the loader calls back returns, however often it calls
  the loader meanwhile. It is needed by `LockIsReleased` only, and no thread that
  waits for the lock is assumed to get it.
* LibrarySearch: weak fairness of the steps of a search in progress, which waits for
  nobody. Nothing is assumed of files, ldconfig or further calls.

## What is proved

For every value of the constants that satisfies the `ASSUME`s of the modules:

* **LoaderLockProofs**, about both locks (the futex lock as the instance `Futex`):
  mutual exclusion and the refinement of ReentrantLock, for any set of threads and any
  nesting. The inductive invariants are `TypeOK /\ DepthCountsGuards` (the depth is the number of guards of
  the owner, others have none) and `TypeOK /\ OwnerAlone` (only the owner is between
  the accesses that touch the depth, and what the depth is at each of them). Mutual
  exclusion alone is not inductive: it does not say that a thread about to clear the
  owner is the owner. For the lock of the std build also `NoLostWakeup`, which the
  futex lock does not have (see below): a release that frees the lock wakes a sleeper,
  and the thread that is awake then takes the lock and notifies in its turn.
* **RegistryProofs**: `TypeOK`, `GlobalLoaded` and `FlagsHonoured`, for any dependency
  graph, any number of threads and any nesting. `Inv` adds to them `ExactlyRetained`,
  that the context has loaded what its own leases and pins retain, and
  `LoadsTheirGroup`: a load in progress
  brings in its root and nothing beyond the load group of the root, without which
  publishing a load could commit modules that nothing retains. The argument: lemmas
  about `Group` (it contains, is closed, is least, and a group inside a closed set
  adds nothing) give what `Retained` becomes when a lease is taken, given back or
  pinned; each kind of step then keeps the context (`CtxStep`), the frames
  (`StackStep`) and the books (`BookStep`). `FullInv` extends `Inv` to everything the
  registry runs check as invariants: `LeaseConservation` (every acquisition in the
  context belongs to a handle, a pin or a frame); with `ExactlyRetained` it gives
  `LoadedIsHeld`, which names no count of the external crate: what is loaded follows
  from the registry's own books. Then `FramesStayLoaded`,
  `GuardsMatchFrames`, that the registry uses the lock only as ReentrantLock allows,
  and `CountersMatch`. The counts are cardinalities of sets of stack positions, so the
  proof rests on lemmas that say how such a count changes when a frame is pushed,
  popped or replaced by the next step of the same call.
* **HostInitProofs**: `WellLinked` and `LoadOrder`, for any number of objects and any
  list taken over, in DebugList and in HostInit; `HostRegistered`; and the refinement of
  LinkMapList. `Inv` describes the list by the recorded order of additions: `l_next` and
  `l_prev` follow it, the cached tail is its end, and what is not listed points nowhere.
  From that, lemma `WalkIsOrder` says that the walk of a debugger meets exactly that
  sequence, which gives the refinement. `HInv` adds that the host's list is as it was
  while the constructor runs (the temporary objects that are dropped on the way are in
  no list), what was found so far, and that the objects registered are the reported
  ones up to here. From `HostAssumption`, `ObjectsAssumption` and `AliasAssumption`, of
  which two parts are properties of real processes and not of the code: file offsets
  are below the address an object is mapped at (the heuristic of
  `recover_dynamic_table` tells the two apart by size), and an alias of a system
  library is not an object of its own (with a glibc older than 2.34 `libpthread.so.0`
  is one).
* **LibrarySearchProofs**: `Sound` for any cache, `FindsFirst` for any readable cache
  sorted either way, in a lookup and in every search of a process; and `SearchFinds`. The
  invariant of the lookup brackets the entries of the queried name between `left` and
  `right`, and says that no fitting entry was passed by. `LInv` adds that `SEARCH_PATHS`
  is still what the environment of the first dlopen made it, and that every source
  before the one looked at is `Fruitless`, which lasts because files and environment
  change between searches only (`WorldsAssumption` types them; ldconfig may replace the
  cache at any moment). `LibraryDirsPicks` and `GetEnvIs` say what splitting a list of
  directories and reading a variable gives.
* **SymbolScopesProofs**: `HandleReaches`, `WrappersReachAll` and the action property
  `DefaultStable`, for any dependency graph, in SymbolScopes and in DlInfo, and
  `OriginIsOwn` for DlInfo. `LoadGroup`, `Extend` and the way through the wrappers are
  recursive functions on numbers; lemmas `UpTo` and `RunExists` give induction and
  existence for such functions, and `LoadGroupIs` that a load group is the least set
  that has its root and is closed under dependencies, each module once (a breadth first
  search over n modules ends after n visits). `Inv` says that loaded modules are closed
  under dependencies, and that the scope of an open handle is still the group of its
  module (`GroupKept`: later loads add no dependencies to old modules, and what a
  handle retains is not unloaded). RTLD_NEXT's chain is followed by `WayInv`: after k
  calls the wrappers met are the first k definitions of the global scope. For DlInfo,
  `CacheInv` says which module and directory each entry was made for. Assumed: finitely
  many modules (`ScopesAssumption`), and that a file's name is its directory followed
  by its own name (`FilesAssumption`).
* **DlErrorProofs**: `PendingIsOwn` and `AnswerLives` for both builds and any number of
  threads, thread pointers and messages, with no assumption on how thread pointers are
  used again. `Inv` adds that running threads have different thread pointers and that a
  thread leaves nothing behind in a thread-local; the entries that exited threads leave
  in the map do no harm because every call but `dlerror()` begins with `clear()`, and
  `dlerror()` leaves nothing pending. What remains, a `dlerror()` that is a thread's
  first call, is false in the no_std build, see `DlErrorReused.cfg`.
* **TlsProofs**: `LayoutSound`, `BlocksOnce` and `DtvIsOwn` for any sizes, alignments,
  numbers of modules, slots and threads. `Inv` says what a DTV entry may be for each
  kind of module, that an id keeps its module and its kind while an entry refers to it,
  and that a block is in at most one entry; only with the last is freeing the blocks of
  one thread harmless to the others. Lemmas on rounding up to an alignment carry the
  layout. `HasImages` and `FitsStorage` rest on `ThreadsInv`: memory has the layout of
  what it was measured for, what was written into it is what `static_used_info` said at
  the last initialisation, and a module that is registered while a thread is made is in
  no thread yet. Both hold with static modules that come at any time; what they except
  is in their statements and not in an assumption.
* **StartupProofs**: the five invariants of Startup in the run `launch`, for any
  libraries, any dependency lists and any processes, from `ObjectsAssumption` and
  `ProcessesAssumption` alone. `Inv` says for each place of `rtld_bootstrap` what the
  load group, the list, the tables and the descriptors are. While modules are mapped
  they are a chain in the order of the group behind the loader (`MappingInv`); once
  `link_loaded_objects` has rewired them the list is the search list followed by what
  was opened later (`WiredInv`). `DebuggerSeesAll` needs one part of it that is easily
  overlooked: the end cached by `add_debug_link_map` before the rewiring is still the
  end of the list after it, except where the program is alone with the loader. There
  the first dlopen takes the loader out of the list (`Lost`, see below), and from then
  on the walk is that of all the others. `FiniMatchesInit` needs `OrderInv`: every
  module of the load group but the first is needed by one before it. `DropsAreSafe`
  needs `RollbackInv`: whatever was dropped already, what is left in the list is linked
  both ways among modules in memory. Lemmas say what `RemoveFirst` and `InsertAt` do to
  a sequence without repetitions.
  The same module has `StartedAsAsked` for DirectStart, for any command line,
  environment and auxiliary vector. `DirectInv` says of the copy in place that the words
  from the place 2 up to `moved + 1` are those `index` places further on in the kernel's
  stack and all others are untouched, so that no word is overwritten before it is read;
  that the moved words are the stack of the executable but for argc, argv[0] and the
  auxiliary vector (`NewStackIs`), in which the environment and the auxiliary vector are
  found again behind the first null words (`AuxFound`); and which places of the
  command line hold options and which hold their values (`Reads`).
  `LaunchKeepsParts` says that every step of Launch is a step of Startup or leaves it
  alone, and the same of DirectStart, so that both sets of invariants hold of the whole.

Left to TLC: liveness (`FreeLockIsTaken`, `LockIsReleased`, the end of a search), which
needs fairness and ENABLED; and `ListsNeeded`, which compares what `--list` prints with
the names from which the instance *built* the file. For a file that was not built from
names there is nothing to compare with except the steps of the code themselves.

## Where the code disagrees with what is said of it

* **A thread may sleep on a free futex lock** (run `futex_lost_wakeup`,
  `loader_lock.rs:142`). `lock()` loads 0, loses the compare_exchange to another
  thread, and calls FUTEX_WAIT with the 0 it loaded. If the winner has released
  meanwhile, the word is 0 again, its FUTEX_WAKE found nobody, and the thread sleeps
  until another release or a signal.
* **The loader is lost from the debugger's list** (run `loader_lost`, `debug.rs:37`).
  `link_loaded_objects` puts the loader behind the program and leaves `DEBUG.tail` as
  it was. If the program needs nothing but the loader the tail is the program, and the
  first dlopen overwrites its `l_next`. A constructor that walks from `_r_debug.r_map`,
  as the one in `tests/rtld_artifact.rs:1466` does, finds the loader 0 times, and that
  test exits with 92 unless it is once.
* **Help that is out of date** (`cli.rs:189`). `--help` says of `--argv0` "direct
  execution is pending". The code executes the program directly, with the argv[0] that
  was given (`StartedAsAsked`, and `tests/rtld_artifact.rs:1341-1393` expects it). No
  state is involved, so there is no run.

Five more are kept as configurations to run by hand (`tlc -config X.cfg M`); TLC
reports each as violated:

| Configuration, module | Property | What is said | What the code does |
|---|---|---|---|
| `MCFlagsKept.cfg`, MCRegistry | FlagsKept | promotion of a loaded library lasts (the flags `src/library.rs:183` reports, checked at `tests/all.rs:397`) | `open_load` stores the flags of the outer dlopen over those that a constructor's nested dlopen of the same library has promoted |
| `MCNodelete.cfg`, MCRegistry | NodeleteObeyed | RTLD_NODELETE keeps the library (`src/lib.rs:85`, `tests/inode_check.rs:96`) | a loaded file opened by a new name brings no new module, and no pin is taken |
| `DlErrorReused.cfg`, DlError | AnswerIsOwn | errors are per thread (`src/api/dlerror.rs:112`) | the no_std map is keyed by thread pointer and not cleared at thread exit; a later thread at the same address whose first call is dlerror() is told the old error |
| `MCMainScope.cfg`, MCSymbolScopes | DependencyGroup | a handle's scope is its dependency group (`src/library.rs:88`) | objects of the process are registered the program first, and only dependencies registered before are recorded: the program's scope is the program alone |
| `MCThisIsMain.cfg`, MCStartup | ThisIsMain | dlopen(NULL) is "the main executable" (`src/dlopen/run.rs:162`) | the first module in load order; in the no_std build the loader is registered first |

`MCThisIsMain` assumes that elf_loader's `load_order()` is the order of insertion.

Three configurations show where a property needs its exception. Nothing in the
repository says otherwise; they mark what the code does not guarantee:

| Configuration, module | Property | What the code does |
|---|---|---|
| `MCListsOneFile.cfg`, MCDirectStart | ListsOneFile | `--list` opens the path a second time for the names (`cli.rs:236`); a file replaced meanwhile is read at the offsets of the old one, and a read that fails only ends a name |
| `MCSharedList.cfg`, MCHostInit | AllListed | the end of the host's list is cached when it is taken over (`debug.rs:37`); once the host's linker appends an object itself, the next addition overwrites the link to it |
| `MCOriginReused.cfg`, MCSymbolScopes | OriginAlwaysOwn | the cache of origin paths is keyed by addresses (`dlfcn.rs:217`); a module whose link map and name are both at addresses of an unloaded one gets the directory of that one |

## What is assumed of the outside

elf_loader is an external crate, modelled from its use and marked external in the
map: a context that counts acquisitions and unloads what nothing retains, load
groups along recorded dependencies (breadth first), `load_order` as the order of
insertion, mapping and relocation as steps that may fail, constructors after those
of the dependencies, a resolver that tries its sources in the order in which they were
pushed and takes the first file that exists. Within one search directories do not
change; the host's linker holds its lock, and so keeps its list, while the std build
initializes. The kernel's FUTEX_WAIT compares and sleeps in one step. libc
creates threads with the sequence of calls `Tls` gives (allocate, initialize, run,
deallocate).

## What is left out

The layout of the tables published for glibc and the processor defaults, serinfo and
the requests of dlinfo that copy a field, dladdr's nearest symbol, LD_BIND_NOW, the TLS
layouts of host objects, tunables and audit entry points, error conversions, system call
wrappers and the page allocator, the assembly entry code, the C library's re-exports:
data, adapters or single calls without a protocol of their own. The header of
ld.so.cache is data: a cache is readable, damaged or absent. The host's own linker
changing the list that the std build took over is only in `MCSharedList.cfg`. A block whose
module has no image yet is allocated and lost (`tls.rs:417`): a leak that no state of
`Tls` depends on.

Excepted by the statement of a property, because the code does not do it: a thread that
exists when a static TLS module is published is given no image, and one whose memory
was measured before the module came is initialised beyond it (`tls.rs:455`, `tls.rs:503`);
the initial thread's area is aligned to 4096 whatever a segment asks for (`tls.rs:315`).
Whether `can_pass_through` tests every dynamic tag that means work is not a question to
a model whose tags are those it tests.

## Plan

Done, in order of importance: locks and registry; debugger's list and ld.so.cache; TLS
and dlerror; startup; the search around ld.so.cache, the host initialization around the
debugger's list; symbol scopes, and dlinfo around them; direct start; glibc's tables in
startup; all of these with proofs; `--list` and `--verify`.

Next:

1. *Model*: dladdr's choice of the nearest symbol against a reference definition; the
   calls of constructors between publication and promotion in SymbolScopes.
2. *Abstract specifications*: dlopen/dlclose as reference-counted handles that Registry
   implements.
3. *Prove*: that `inspect_fd` and `string_at` read back what a link editor wrote, from a
   specification of well-formed files.
