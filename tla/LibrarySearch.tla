---------------------------- MODULE LibrarySearch ----------------------------
(***************************************************************************)
(* Where dlopen looks for a library (dlopen/run.rs): SEARCH_PATHS, built   *)
(* from the environment at the first use and kept, and LD_CACHE, read from *)
(* /etc/ld.so.cache at the first use and kept, also if that fails.  The    *)
(* lookup in the cache is LdCache.                                         *)
(*                                                                         *)
(* A process calls dlopen several times for names without a slash that are *)
(* not loaded.  In between files come and go, the environment is written   *)
(* to in place and ldconfig puts a new cache in the place of the old one.  *)
(* The resolver, external, tries its sources in the order in which they    *)
(* were pushed and takes the first file that exists.                       *)
(***************************************************************************)
EXTENDS LdCache, SequencesExt

CONSTANTS Worlds,     \* how processes find the system, see WorldsAssumption
          NewDisks, NewFiles, NewEnvirons,  \* what may become of it
          Defaults,   \* the default directories, those of the platform first
          Absent,     \* there is no /etc/ld.so.cache
          Damaged,    \* it has no header, or fewer entries than it says
          Unset       \* a Lazy that was not used yet

Files == STRING \X Names

\* The strings of an environment, split at the equals sign and at the colons.
Environs == Seq([key : STRING, value : Seq(STRING)])

\* Files are known by their paths, directory and name; rpath and runpath are those of
\* the module that calls dlopen; calls and changes bound what happens.
Systems ==
    [disk : Caches \cup {Absent, Damaged}, files : SUBSET Files, environ : Environs,
     rpath : Seq(STRING), runpath : Seq(STRING), calls : Nat, changes : Nat]

ASSUME WorldsAssumption ==
    /\ Names # {}
    /\ \A w \in Worlds : w \in Systems
    /\ NewDisks \subseteq Caches \cup {Absent, Damaged}
    /\ NewFiles \subseteq Files /\ Paths \subseteq Files /\ NoPath \notin Files
    /\ \A e \in NewEnvirons : e \in Environs
    /\ Defaults \in Seq(STRING)

VARIABLES world,     \* the system as it is, with the calls and changes to come
          paths,     \* SEARCH_PATHS
          ldCache,   \* LD_CACHE: Unset, "failed" or "loaded", then in `cache`
          fd,        \* the version of the file that read_file has opened
          stage,     \* "idle", "walk", "read", "lookup", "ended"
          at,        \* the source the resolver has come to
          found,     \* what the last search found
          seen       \* history: the environment at the first dlopen

searchVars == <<world, paths, ldCache, fd, stage, at, found, seen>>

lookupVars == <<cache, query, pc, descending, left, right, start, i, answer>>

lvars == <<searchVars, lookupVars>>

LInit ==
    /\ world \in Worlds
    /\ paths = Unset /\ ldCache = Unset /\ fd = Unset /\ seen = Unset
    /\ stage = "idle" /\ at = 0 /\ found = NoPath
    /\ cache = <<>> /\ query = (CHOOSE n \in Names : TRUE) /\ pc = "start" /\ descending = FALSE
    /\ left = 0 /\ right = 0 /\ start = 0 /\ i = 0 /\ answer = NoPath
-----------------------------------------------------------------------------
\* get_env: the value of the first string with that key.
get_env(environ, name) ==
    LET hits == {k \in DOMAIN environ : environ[k].key = name}
    IN  IF hits = {} THEN <<>> ELSE environ[CHOOSE k \in hits : \A j \in hits : k <= j].value

\* The directories of a list that are pushed: an empty one is not.
LibraryDirs(list) ==
    LET pushed[k \in 0 .. Len(list)] ==
          IF k = 0 THEN <<>>
          ELSE IF list[k] = "" THEN pushed[k - 1] ELSE Append(pushed[k - 1], list[k])
    IN  pushed[Len(list)]

FixedDirs(dirs) == [k \in DOMAIN dirs |-> [kind |-> "dir", dirs |-> <<dirs[k]>>]]

\* SEARCH_PATHS, as its initializer pushes them.
SearchPaths(environ) ==
    <<[kind |-> "rpath"]>>
    \o FixedDirs(LibraryDirs(get_env(environ, "LD_LIBRARY_PATH")))
    \o <<[kind |-> "runpath"], [kind |-> "cache"]>>
    \o FixedDirs(Defaults)

\* The directories of the source s, for a call from this process's module.
Dirs(s) ==
    CASE s.kind = "rpath" -> world.rpath
      [] s.kind = "runpath" -> world.runpath
      [] s.kind = "dir" -> s.dirs

\* The first of the directories that has the file, or none.
Hit(dirs) ==
    LET hits == {k \in DOMAIN dirs : <<dirs[k], query>> \in world.files}
    IN  IF hits = {} THEN NoPath ELSE <<dirs[CHOOSE k \in hits : \A j \in hits : k <= j], query>>

Finish(path) ==
    /\ stage' = "ended"
    /\ found' = path
    /\ UNCHANGED at

Continue ==
    /\ stage' = "walk"
    /\ at' = at + 1
    /\ UNCHANGED found
-----------------------------------------------------------------------------
\* dlopen: the resolver is a copy of SEARCH_PATHS; lookup will start anew.
Dlopen(n) ==
    /\ stage = "idle"
    /\ world.calls > 0
    /\ world' = [world EXCEPT !.calls = @ - 1]
    /\ query' = n
    /\ paths' = IF paths = Unset THEN SearchPaths(world.environ) ELSE paths
    /\ seen' = IF paths = Unset THEN world.environ ELSE seen
    /\ stage' = "walk"
    /\ at' = 1
    /\ pc' = "start" /\ descending' = FALSE
    /\ left' = 0 /\ right' = 0 /\ start' = 0 /\ i' = 0 /\ answer' = NoPath
    /\ UNCHANGED <<ldCache, fd, found, cache>>

\* A source of directories is tried.
TryDirs ==
    /\ stage = "walk"
    /\ at <= Len(paths) /\ paths[at].kind # "cache"
    /\ IF Hit(Dirs(paths[at])) # NoPath THEN Finish(Hit(Dirs(paths[at]))) ELSE Continue
    /\ UNCHANGED <<world, paths, ldCache, fd, seen, lookupVars>>

\* The candidate provider, with LD_CACHE at hand: LdCache starts.
AskCache ==
    /\ stage = "walk"
    /\ at <= Len(paths) /\ paths[at].kind = "cache"
    /\ ldCache = "loaded"
    /\ stage' = "lookup"
    /\ UNCHANGED <<world, paths, ldCache, fd, at, found, seen, lookupVars>>

\* No LD_CACHE, and there will be none.
SkipCache ==
    /\ stage = "walk"
    /\ at <= Len(paths) /\ paths[at].kind = "cache"
    /\ ldCache = "failed"
    /\ Continue
    /\ UNCHANGED <<world, paths, ldCache, fd, seen, lookupVars>>

\* read_file opens the file, or fails.
OpenCache ==
    /\ stage = "walk"
    /\ at <= Len(paths) /\ paths[at].kind = "cache"
    /\ ldCache = Unset
    /\ IF world.disk = Absent
       THEN ldCache' = "failed" /\ Continue /\ UNCHANGED fd
       ELSE fd' = world.disk /\ stage' = "read" /\ UNCHANGED <<ldCache, at, found>>
    /\ UNCHANGED <<world, paths, seen, lookupVars>>

\* All of it is read, and LdCache::new finds the header and the entries.
ReadCache ==
    /\ stage = "read"
    /\ fd # Damaged
    /\ ldCache' = "loaded"
    /\ cache' = fd
    /\ fd' = Unset
    /\ stage' = "walk"
    /\ UNCHANGED <<world, paths, at, found, seen, query, pc, descending, left, right, start, i,
                   answer>>

\* Mutant: the error ends the search.
MutantReadFails ==
    /\ stage = "read"
    /\ ldCache' = "failed"
    /\ fd' = Unset
    /\ Finish(NoPath)
    /\ UNCHANGED <<world, paths, seen, lookupVars>>

\* The read fails or is short, or LdCache::new refuses what was read: no candidate.
ReadFails ==
    /\ stage = "read"
    /\ ldCache' = "failed"
    /\ fd' = Unset
    /\ Continue
    /\ UNCHANGED <<world, paths, seen, lookupVars>>

Lookup ==
    /\ stage = "lookup"
    /\ Next
    /\ UNCHANGED searchVars

\* The candidate from the cache is tried.
TryCandidate ==
    /\ stage = "lookup" /\ pc = "done"
    /\ IF answer \in world.files THEN Finish(answer) ELSE Continue
    /\ UNCHANGED <<world, paths, ldCache, fd, seen, lookupVars>>

\* find_lib_error
FindLibError ==
    /\ stage = "walk"
    /\ at > Len(paths)
    /\ Finish(NoPath)
    /\ UNCHANGED <<world, paths, ldCache, fd, seen, lookupVars>>

ReturnFound ==
    /\ stage = "ended"
    /\ stage' = "idle"
    /\ UNCHANGED <<world, paths, ldCache, fd, at, found, seen, lookupVars>>

Changed(w) ==
    /\ world.changes > 0
    /\ world' = [w EXCEPT !.changes = @ - 1]
    /\ UNCHANGED <<paths, ldCache, fd, stage, at, found, seen, lookupVars>>

\* ldconfig puts another cache in the place of the file, at any time.
Ldconfig == \E d \in NewDisks : Changed([world EXCEPT !.disk = d])

\* Between two searches a file is installed or removed ...
ChangeFile ==
    /\ stage = "idle"
    /\ \E p \in NewFiles : Changed([world EXCEPT !.files = SymDiff(@, {p})])

\* ... or the strings of the environment are written to.
Setenv ==
    /\ stage = "idle"
    /\ \E e \in NewEnvirons : Changed([world EXCEPT !.environ = e])

Search ==
    \/ TryDirs \/ AskCache \/ SkipCache \/ OpenCache \/ ReadCache \/ ReadFails
    \/ Lookup \/ TryCandidate \/ FindLibError

LNext ==
    \/ Search \/ ReturnFound
    \/ Ldconfig \/ ChangeFile \/ Setenv
    \/ \E n \in Names : Dlopen(n)

\* The search is a loop of one thread under the loader lock.
LSpec == LInit /\ [][LNext]_lvars /\ WF_lvars(Search)
-----------------------------------------------------------------------------
\* The places where a library may be, in the order of precedence: DT_RPATH, the first
\* LD_LIBRARY_PATH of the environment at the first dlopen, DT_RUNPATH, what the cache
\* names, the default directories.
Candidates ==
    LET In(rank, dirs) ==
          {[rank |-> rank, place |-> k, path |-> <<dirs[k], query>>] : k \in DOMAIN dirs}
        first == {k \in DOMAIN seen : seen[k].key = "LD_LIBRARY_PATH"
                                      /\ \A j \in 1 .. k - 1 : seen[j].key # "LD_LIBRARY_PATH"}
    IN  In(1, world.rpath)
        \cup {c \in UNION {In(2, seen[k].value) : k \in first} : c.path[1] # ""}
        \cup In(3, world.runpath)
        \cup (IF ldCache = "loaded" THEN {[rank |-> 4, place |-> 1, path |-> answer]} ELSE {})
        \cup In(5, Defaults)

Precedes(c, d) == c.rank < d.rank \/ (c.rank = d.rank /\ c.place < d.place)

\* A search that ends has found the first file there is in the order of precedence, and
\* fails only if there is none: whether the cache is absent, damaged or unreadable or
\* names files that are gone, and whatever became of the environment and of the cache
\* since the first call.
SearchFinds ==
    stage = "ended" =>
      LET there == {c \in Candidates : c.path \in world.files}
      IN  \/ there = {} /\ found = NoPath
          \/ \E c \in there : found = c.path /\ \A d \in there : ~ Precedes(d, c)

\* Every search ends, with a file or an error.
SearchEnds == stage = "walk" ~> stage = "ended"
-----------------------------------------------------------------------------
\* The inductive invariant of SearchFinds.

\* No file was found in the source s.
Fruitless(s) ==
    IF paths[s].kind = "cache" THEN ldCache = "loaded" => answer \notin world.files
    ELSE \A k \in DOMAIN Dirs(paths[s]) : <<Dirs(paths[s])[k], query>> \notin world.files

\* The search ended with the source s.
FoundIn(s) ==
    IF paths[s].kind = "cache" THEN ldCache = "loaded" /\ found = answer /\ found \in world.files
    ELSE found = Hit(Dirs(paths[s])) /\ found # NoPath

\* The lookup in the cache was not begun.
Fresh ==
    /\ pc = "start" /\ descending = FALSE
    /\ left = 0 /\ right = 0 /\ start = 0 /\ i = 0 /\ answer = NoPath

\* SEARCH_PATHS stays what it was made of.
PathsInv ==
    \/ stage = "idle" /\ paths = Unset
    \/ seen \in Environs /\ paths = SearchPaths(seen)

\* The search has come to the source `at` and has found nothing before.
WalkInv ==
    /\ stage # "idle" => at \in 1 .. Len(paths) + 1 /\ \A s \in 1 .. at - 1 : Fruitless(s)
    /\ stage \in {"read", "lookup"} => at <= Len(paths) /\ paths[at].kind = "cache"
    /\ stage = "read" => fd \in Caches \cup {Damaged}
    /\ stage = "lookup" => ldCache = "loaded"
    /\ stage = "ended" => IF at = Len(paths) + 1 THEN found = NoPath ELSE FoundIn(at)
    /\ stage \in {"walk", "read"} /\ (\A s \in 1 .. at - 1 : paths[s].kind # "cache") => Fresh

LInv ==
    /\ Inv
    /\ world \in Systems
    /\ stage \in {"idle", "walk", "read", "lookup", "ended"}
    /\ PathsInv /\ WalkInv
=============================================================================
