------------------------------- MODULE LdCache -------------------------------
(***************************************************************************)
(* LdCache::lookup (dlopen/ld_cache.rs): the binary search for a library   *)
(* name in /etc/ld.so.cache, whose entries may be sorted either way and    *)
(* may hold a name several times (for several architectures), followed by  *)
(* the scan of the entries with that name.                                 *)
(*                                                                         *)
(* Names are numbers, compared as the code compares strings.  A name or a  *)
(* path whose offset lies outside the file, or that is not UTF-8, is       *)
(* unreadable.                                                             *)
(***************************************************************************)
EXTENDS Integers, Sequences

CONSTANTS Names,      \* library names
          NoName,     \* an unreadable name
          Paths,      \* paths of libraries
          NoPath,     \* no path: not found, or unreadable
          Caches      \* the caches that are looked at

Entries == [name : Names \cup {NoName}, libc6 : BOOLEAN, arch : BOOLEAN,
            path : Paths \cup {NoPath}]

ASSUME LdCacheAssumption ==
    /\ Names \subseteq Int
    /\ NoName \notin Names
    /\ NoPath \notin Paths
    /\ Caches \subseteq Seq(Entries)

VARIABLES cache,        \* the entries of the file
          query,        \* lib_name
          pc,           \* "start", "search", "back", "scan", "done"
          descending, left, right, start, i,
          answer

vars == <<cache, query, pc, descending, left, right, start, i, answer>>

nlibs == Len(cache)

\* Entries are counted from 0, as in the code.
get_name(k) == cache[k + 1].name

get_path(k) == cache[k + 1].path

\* Mutant: entries of other architectures are taken.
MutantCheckFlags(k) == cache[k + 1].libc6

\* The type is libc6 and the architecture is the current one.
check_flags(k) == cache[k + 1].libc6 /\ cache[k + 1].arch

\* LdCache::new has found the header and room for the entries.
Init ==
    /\ cache \in Caches
    /\ query \in Names
    /\ pc = "start"
    /\ descending = FALSE
    /\ left = 0
    /\ right = 0
    /\ start = 0
    /\ i = 0
    /\ answer = NoPath

Return(path) ==
    /\ pc' = "done"
    /\ answer' = path
    /\ UNCHANGED <<cache, query, descending, left, right, start, i>>

\* An empty cache, or one whose first or last name is unreadable.
Refuse ==
    /\ pc = "start"
    /\ nlibs > 0 => (get_name(0) = NoName \/ get_name(nlibs - 1) = NoName)
    /\ Return(NoPath)

\* Mutant: the order is taken for ascending.
MutantBegin ==
    /\ pc = "start"
    /\ nlibs > 0
    /\ get_name(0) # NoName /\ get_name(nlibs - 1) # NoName
    /\ right' = nlibs
    /\ pc' = "search"
    /\ UNCHANGED <<cache, query, descending, left, start, i, answer>>

\* The order of the first and the last name tells how the cache is sorted.
Begin ==
    /\ pc = "start"
    /\ nlibs > 0
    /\ get_name(0) # NoName /\ get_name(nlibs - 1) # NoName
    /\ descending' = (get_name(0) > get_name(nlibs - 1))
    /\ left' = 0
    /\ right' = nlibs
    /\ pc' = "search"
    /\ UNCHANGED <<cache, query, start, i, answer>>

mid == left + (right - left) \div 2

Before(a, b) == IF descending THEN a > b ELSE a < b

\* Mutant: the upper half keeps the probed entry.
MutantProbeGreater ==
    /\ pc = "search" /\ left < right
    /\ get_name(mid) # NoName
    /\ Before(get_name(mid), query)
    /\ left' = mid
    /\ UNCHANGED <<cache, query, pc, descending, right, start, i, answer>>

ProbeGreater ==
    /\ pc = "search" /\ left < right
    /\ get_name(mid) # NoName
    /\ Before(get_name(mid), query)
    /\ left' = mid + 1
    /\ UNCHANGED <<cache, query, pc, descending, right, start, i, answer>>

ProbeLess ==
    /\ pc = "search" /\ left < right
    /\ get_name(mid) # NoName
    /\ Before(query, get_name(mid))
    /\ right' = mid
    /\ UNCHANGED <<cache, query, pc, descending, left, start, i, answer>>

ProbeEqual ==
    /\ pc = "search" /\ left < right
    /\ get_name(mid) = query
    /\ start' = mid
    /\ pc' = "back"
    /\ UNCHANGED <<cache, query, descending, left, right, i, answer>>

ProbeUnreadable ==
    /\ pc = "search" /\ left < right
    /\ get_name(mid) = NoName
    /\ Return(NoPath)

NotFound ==
    /\ pc = "search"
    /\ left >= right
    /\ Return(NoPath)

\* Back to the first entry of that name.
Back ==
    /\ pc = "back"
    /\ start > 0 /\ get_name(start - 1) = query
    /\ start' = start - 1
    /\ UNCHANGED <<cache, query, pc, descending, left, right, i, answer>>

ScanBegin ==
    /\ pc = "back"
    /\ ~ (start > 0 /\ get_name(start - 1) = query)
    /\ i' = start
    /\ pc' = "scan"
    /\ UNCHANGED <<cache, query, descending, left, right, start, answer>>

ScanHit ==
    /\ pc = "scan"
    /\ i < nlibs /\ get_name(i) = query
    /\ check_flags(i) /\ get_path(i) # NoPath
    /\ Return(get_path(i))

ScanNext ==
    /\ pc = "scan"
    /\ i < nlibs /\ get_name(i) = query
    /\ ~ (check_flags(i) /\ get_path(i) # NoPath)
    /\ i' = i + 1
    /\ UNCHANGED <<cache, query, pc, descending, left, right, start, answer>>

ScanEnd ==
    /\ pc = "scan"
    /\ ~ (i < nlibs /\ get_name(i) = query)
    /\ Return(NoPath)

Next ==
    \/ Refuse \/ Begin
    \/ ProbeGreater \/ ProbeLess \/ ProbeEqual \/ ProbeUnreadable \/ NotFound
    \/ Back \/ ScanBegin \/ ScanHit \/ ScanNext \/ ScanEnd

\* The loops run in one thread without waiting.
Spec == Init /\ [][Next]_vars /\ WF_vars(Next)
-----------------------------------------------------------------------------
Indices == 0 .. nlibs - 1

Readable == \A k \in Indices : get_name(k) # NoName

Ascending == \A j, k \in Indices : j < k => get_name(j) <= get_name(k)

Descending == \A j, k \in Indices : j < k => get_name(j) >= get_name(k)

WellFormed == Readable /\ (Ascending \/ Descending)

TypeOK ==
    /\ cache \in Seq(Entries)
    /\ query \in Names
    /\ pc \in {"start", "search", "back", "scan", "done"}
    /\ descending \in BOOLEAN
    /\ left \in 0 .. nlibs
    /\ right \in 0 .. nlibs
    /\ start \in 0 .. nlibs
    /\ i \in 0 .. nlibs
    /\ answer \in Paths \cup {NoPath}

Matches(k) == get_name(k) = query /\ check_flags(k) /\ get_path(k) # NoPath

\* Whatever the cache holds, the answer of lookup is the path of an entry for this
\* name that passes the flags, or none.
Sound ==
    (pc = "done" /\ answer # NoPath) =>
      \E k \in Indices : cache[k + 1].libc6 /\ cache[k + 1].arch
                         /\ get_name(k) = query /\ get_path(k) = answer

\* In a cache that is readable and sorted either way, lookup finds the first entry
\* for the name that passes the flags, if there is one.
FindsFirst ==
    (pc = "done" /\ WellFormed) =>
      \A k \in Indices :
        (Matches(k) /\ \A j \in Indices : j < k => ~ Matches(j)) => answer = get_path(k)

-----------------------------------------------------------------------------
\* The binary search keeps the entries of that name between its bounds.
Bracket ==
    (pc = "search" /\ WellFormed) =>
      /\ descending => Descending
      /\ ~ descending => Ascending
      /\ \A k \in Indices : get_name(k) = query => left <= k /\ k < right

\* The way back stays among the entries of that name and passes none.
OnName ==
    /\ pc \in {"back", "scan"} => start < nlibs /\ get_name(start) = query
    /\ pc = "scan" => start <= i
    /\ pc = "scan" /\ WellFormed => \A k \in Indices : k < i => ~ Matches(k)

\* A sorted cache has the entries of a name side by side, so none follows a gap.
NoneMissed == (pc = "done" /\ WellFormed /\ answer = NoPath) => \A k \in Indices : ~ Matches(k)

Inv == TypeOK /\ Sound /\ FindsFirst /\ Bracket /\ OnName /\ NoneMissed
=============================================================================
