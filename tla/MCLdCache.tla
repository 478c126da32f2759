------------------------------ MODULE MCLdCache ------------------------------
(***************************************************************************)
(* Instances of LibrarySearch and LdCache for TLC: caches of up to MaxLibs *)
(* entries, sorted either way or with one name unreadable.  A process that *)
(* calls dlopen once meets any of them; one that calls it twice, with a    *)
(* change of the system at any time, any of up to LaterLibs entries and    *)
(* any two of the places where a library may be.                           *)
(***************************************************************************)
EXTENDS LibrarySearch

CONSTANTS MaxLibs, LaterLibs

SomeNames == {1, 3, 5}

\* What the cache says of library 1: in a default directory, and in one of its own.
p1 == <<"/lib", 1>>
p2 == <<"/opt", 1>>

SomeDefaults == <<"/usr/lib/x86_64-linux-gnu", "/lib">>

\* Entries that differ in what lookup tells apart.
SomeEntries ==
    {[name |-> n, libc6 |-> f[1], arch |-> f[2], path |-> f[3]] :
       n \in {1, 3, NoName},
       f \in {<<TRUE, TRUE, p1>>, <<TRUE, TRUE, p2>>, <<TRUE, FALSE, p1>>,
              <<FALSE, TRUE, p1>>, <<TRUE, TRUE, NoPath>>}}

SortedEither(c) ==
    LET named == {k \in DOMAIN c : c[k].name # NoName}
    IN  \/ \A j, k \in named : j < k => c[j].name <= c[k].name
        \/ \A j, k \in named : j < k => c[j].name >= c[k].name

CachesUpto(n) ==
    {c \in UNION {[1 .. k -> SomeEntries] : k \in 0 .. n} : SortedEither(c)}

SomeCaches == CachesUpto(MaxLibs)

Plain == <<[key |-> "HOME", value |-> <<"/root">>]>>

\* LD_LIBRARY_PATH=:/env, and again after it.
WithPath ==
    <<[key |-> "LD_LIBRARY_PATH", value |-> <<"", "/env">>],
      [key |-> "LD_LIBRARY_PATH", value |-> <<"/run">>]>>

Places == {<<"/run", 1>>, <<"/env", 1>>, <<"/opt", 1>>, <<"/lib", 1>>}

World(disk, files, environ, rpath, runpath, calls, changes) ==
    [disk |-> disk, files |-> files, environ |-> environ, rpath |-> rpath,
     runpath |-> runpath, calls |-> calls, changes |-> changes]

SomeWorlds ==
    {World(d, {p1, p2}, Plain, <<>>, <<>>, 1, 0) : d \in SomeCaches}
    \cup {World(d, files, e, r[1], r[2], 2, 1) :
            d \in CachesUpto(LaterLibs) \cup {Absent, Damaged},
            files \in {q \in SUBSET Places : Cardinality(q) <= 2},
            e \in {Plain, WithPath},
            r \in {<<<<"/run">>, <<>>>>, <<<<>>, <<"/run">>>>}}

\* A cache that names the library where it is, and one that does not.
SomeDisks == {Absent, <<[name |-> 1, libc6 |-> TRUE, arch |-> TRUE, path |-> p2]>>}

SomeEnvirons == {Plain, WithPath}

SomePaths == {p1, p2}
=============================================================================
