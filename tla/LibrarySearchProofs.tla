------------------------- MODULE LibrarySearchProofs -------------------------
(***************************************************************************)
(* The lookup in ld.so.cache is right for caches of every length, and the  *)
(* search for a library finds the first file there is, for every list of   *)
(* directories, every environment and any changes of the system between    *)
(* and during the calls.                                                   *)
(***************************************************************************)
EXTENDS LibrarySearch, TLAPS, SequenceTheorems, WellFoundedInduction

-----------------------------------------------------------------------------
(* The lookup in the cache.                                                *)

\* What the type of the cache says of single entries.
LEMMA EntryTypes ==
    ASSUME TypeOK
    PROVE  /\ nlibs \in Nat
           /\ \A k \in Indices :
                /\ get_name(k) \in Names \cup {NoName}
                /\ get_path(k) \in Paths \cup {NoPath}
                /\ get_name(k) # NoName => get_name(k) \in Int
           /\ query \in Int /\ query # NoName
<1>1. nlibs \in Nat
  BY DEF TypeOK, nlibs
<1>2. \A k \in Indices : cache[k + 1] \in Entries
  BY <1>1 DEF TypeOK, nlibs, Indices
<1>3. QED
  BY <1>1, <1>2, LdCacheAssumption DEF TypeOK, Entries, get_name, get_path

\* Every step of the search keeps the type.
LEMMA TypeStep ==
    ASSUME TypeOK, OnName, Next
    PROVE  TypeOK' /\ cache' = cache /\ query' = query
<1> USE EntryTypes DEF TypeOK, nlibs
<1>1. CASE Refuse
  BY <1>1 DEF Refuse, Return
<1>2. CASE Begin
  BY <1>2 DEF Begin
<1>3. CASE ProbeGreater
  BY <1>3 DEF ProbeGreater, mid
<1>4. CASE ProbeLess
  BY <1>4 DEF ProbeLess, mid
<1>5. CASE ProbeEqual
  BY <1>5 DEF ProbeEqual, mid
<1>6. CASE ProbeUnreadable
  BY <1>6 DEF ProbeUnreadable, Return
<1>7. CASE NotFound
  BY <1>7 DEF NotFound, Return
<1>8. CASE Back
  BY <1>8 DEF Back
<1>9. CASE ScanBegin
  BY <1>9 DEF ScanBegin
<1>10. CASE ScanHit
  BY <1>10 DEF ScanHit, Return, Indices
<1>11. CASE ScanNext
  BY <1>11 DEF ScanNext
<1>12. CASE ScanEnd
  BY <1>12 DEF ScanEnd, Return
<1>13. QED
  BY <1>1, <1>2, <1>3, <1>4, <1>5, <1>6, <1>7, <1>8, <1>9, <1>10, <1>11, <1>12 DEF Next

\* A step that leaves cache and query alone changes none of the notions defined
\* from them.
LEMMA SameCache ==
    ASSUME cache' = cache, query' = query
    PROVE  /\ nlibs' = nlibs /\ Indices' = Indices
           /\ WellFormed' <=> WellFormed
           /\ Ascending' <=> Ascending
           /\ Descending' <=> Descending
           /\ \A k \in Indices : /\ get_name(k)' = get_name(k)
                                 /\ get_path(k)' = get_path(k)
                                 /\ Matches(k)' <=> Matches(k)
  BY DEF nlibs, Indices, WellFormed, Readable, Ascending, Descending, get_name, get_path,
     Matches, check_flags

\* A step that returns NoPath keeps the invariant if no entry matches.
LEMMA ReturnNone ==
    ASSUME Inv, TypeOK', cache' = cache, query' = query, Return(NoPath),
           WellFormed => \A k \in Indices : ~ Matches(k)
    PROVE  Inv'
<1> USE SameCache
<1>1. pc' = "done" /\ answer' = NoPath
  BY DEF Return
<1>2. Sound' /\ Bracket' /\ OnName'
  BY <1>1 DEF Sound, Bracket, OnName
<1>3. FindsFirst' /\ NoneMissed'
  <2>1. WellFormed' => \A k \in Indices' : ~ Matches(k)'
    OBVIOUS
  <2>2. QED
    BY <1>1, <2>1 DEF FindsFirst, NoneMissed
<1>4. QED
  BY <1>2, <1>3 DEF Inv

\* The first probe: the bounds hold every entry, and the order is recognised.
LEMMA BeginStep ==
    ASSUME Inv, TypeOK', cache' = cache, query' = query, Begin
    PROVE  Inv'
<1> USE SameCache
<1>1. TypeOK
  BY DEF Inv
<1>2. pc' = "search" /\ left' = 0 /\ right' = nlibs /\ nlibs > 0
      /\ descending' = (get_name(0) > get_name(nlibs - 1))
  BY DEF Begin
<1>3. ASSUME WellFormed
      PROVE  /\ get_name(0) > get_name(nlibs - 1) => Descending
             /\ ~ (get_name(0) > get_name(nlibs - 1)) => Ascending
  <2>1. /\ nlibs \in Nat /\ nlibs > 0
        /\ 0 \in Indices /\ nlibs - 1 \in Indices
        /\ \A k \in Indices : get_name(k) \in Int
    BY <1>1, <1>2, <1>3, EntryTypes DEF WellFormed, Readable, Indices
  <2>2. CASE Ascending
    <3>1. get_name(0) <= get_name(nlibs - 1)
      BY <2>1, <2>2 DEF Ascending
    <3>2. QED
      BY <3>1, <2>1, <2>2
  <2>3. CASE Descending
    <3>1. \A k \in Indices :
            get_name(0) >= get_name(k) /\ get_name(k) >= get_name(nlibs - 1)
      BY <2>1, <2>3 DEF Descending, Indices
    <3>2. get_name(0) <= get_name(nlibs - 1) => Ascending
      BY <3>1, <2>1 DEF Ascending
    <3>3. QED
      BY <3>2, <2>1, <2>3
  <2>4. QED
    BY <2>2, <2>3, <1>3 DEF WellFormed
<1>4. Bracket'
  <2>1. \A k \in Indices : 0 <= k /\ k < nlibs
    BY <1>1, EntryTypes DEF Indices
  <2>2. QED
    BY <1>2, <1>3, <2>1 DEF Bracket
<1>5. Sound' /\ FindsFirst' /\ OnName' /\ NoneMissed'
  BY <1>2 DEF Sound, FindsFirst, OnName, NoneMissed
<1>6. QED
  BY <1>4, <1>5 DEF Inv

\* A probe that narrows the bounds drops no entry of that name.
LEMMA NarrowStep ==
    ASSUME Inv, TypeOK', cache' = cache, query' = query, ProbeGreater \/ ProbeLess
    PROVE  Inv'
<1> USE SameCache
<1>1. TypeOK /\ Bracket
  BY DEF Inv
<1>2. /\ pc = "search" /\ pc' = "search" /\ left < right
      /\ descending' = descending
      /\ \/ Before(get_name(mid), query) /\ left' = mid + 1 /\ right' = right
         \/ Before(query, get_name(mid)) /\ left' = left /\ right' = mid
  BY DEF ProbeGreater, ProbeLess
<1>3. /\ left <= mid /\ mid < right /\ mid \in Indices
      /\ \A k \in Indices : k \in Int
  BY <1>1, <1>2, EntryTypes DEF TypeOK, mid, Indices
<1>4. ASSUME WellFormed, NEW k \in Indices, get_name(k) = query
      PROVE  left' <= k /\ k < right'
  <2>1. /\ left <= k /\ k < right /\ k \in Int
        /\ get_name(mid) \in Int /\ query \in Int
        /\ descending => Descending
        /\ ~ descending => Ascending
        /\ left \in Int /\ right \in Int /\ mid \in Int
    BY <1>1, <1>2, <1>3, <1>4, EntryTypes DEF Bracket, WellFormed, Readable, TypeOK, Indices
  <2>2. CASE Before(get_name(mid), query) /\ left' = mid + 1 /\ right' = right
    <3>1. ~ (k <= mid)
      BY <2>1, <2>2, <1>3, <1>4 DEF Before, Ascending, Descending
    <3>2. QED
      BY <3>1, <2>1, <2>2, <1>3
  <2>3. CASE Before(query, get_name(mid)) /\ left' = left /\ right' = mid
    <3>1. ~ (mid <= k)
      BY <2>1, <2>3, <1>3, <1>4 DEF Before, Ascending, Descending
    <3>2. QED
      BY <3>1, <2>1, <2>3, <1>3
  <2>4. QED
    BY <2>2, <2>3, <1>2
<1>5. Bracket'
  BY <1>1, <1>2, <1>4 DEF Bracket
<1>6. Sound' /\ FindsFirst' /\ OnName' /\ NoneMissed'
  BY <1>2 DEF Sound, FindsFirst, OnName, NoneMissed
<1>7. QED
  BY <1>5, <1>6 DEF Inv

\* A hit of the search, and the steps back among the entries of that name.
LEMMA BackStep ==
    ASSUME Inv, TypeOK', cache' = cache, query' = query, ProbeEqual \/ Back
    PROVE  Inv'
<1> USE SameCache
<1>1. TypeOK
  BY DEF Inv
<1>2. pc' = "back" /\ start' \in Indices /\ get_name(start') = query
  <2>1. CASE ProbeEqual
    BY <2>1, <1>1, EntryTypes DEF ProbeEqual, TypeOK, mid, Indices
  <2>2. CASE Back
    BY <2>2, <1>1, EntryTypes DEF Back, TypeOK, Indices
  <2>3. QED
    BY <2>1, <2>2
<1>3. OnName'
  <2>1. get_name(start)' = get_name(start')
    BY DEF get_name
  <2>2. QED
    BY <1>1, <1>2, <2>1, EntryTypes DEF OnName, Indices
<1>4. Sound' /\ FindsFirst' /\ Bracket' /\ NoneMissed'
  BY <1>2 DEF Sound, FindsFirst, Bracket, NoneMissed
<1>5. QED
  BY <1>3, <1>4 DEF Inv

\* The scan begins at the first entry of that name and passes no match.
LEMMA ScanStep ==
    ASSUME Inv, TypeOK', cache' = cache, query' = query, ScanBegin \/ ScanNext
    PROVE  Inv'
<1> USE SameCache
<1>1. TypeOK /\ OnName
  BY DEF Inv
<1>2. /\ pc' = "scan" /\ start' = start /\ start \in Indices /\ get_name(start) = query
      /\ start <= i' /\ i' \in Int
  BY <1>1, EntryTypes DEF ScanBegin, ScanNext, OnName, TypeOK, Indices
<1>3. ASSUME WellFormed, NEW k \in Indices, k < i'
      PROVE  ~ Matches(k)
  <2>1. CASE ScanBegin
    <3>1. /\ i' = start /\ ~ (start > 0 /\ get_name(start - 1) = query)
          /\ start \in Int /\ k \in Int /\ k >= 0
      BY <2>1, <1>1, EntryTypes DEF ScanBegin, TypeOK, Indices
    <3>2. /\ start - 1 \in Indices /\ k <= start - 1 /\ get_name(start - 1) # query
      <4>1. nlibs \in Nat /\ 0 <= start /\ start < nlibs /\ k < start
        BY <3>1, <1>1, <1>2, <1>3, EntryTypes DEF Indices
      <4>2. QED
        BY <3>1, <4>1 DEF Indices
    <3>3. /\ get_name(k) \in Int /\ get_name(start - 1) \in Int /\ query \in Int
          /\ Ascending \/ Descending
      BY <3>2, <1>1, <1>3, EntryTypes DEF WellFormed, Readable
    <3>4. get_name(k) # query
      BY <3>1, <3>2, <3>3, <1>2 DEF Ascending, Descending
    <3>5. QED
      BY <3>4 DEF Matches
  <2>2. CASE ScanNext
    <3>1. /\ i' = i + 1 /\ pc = "scan" /\ i \in Int /\ k \in Int /\ ~ Matches(i)
      BY <2>2, <1>1, EntryTypes DEF ScanNext, TypeOK, Indices, Matches
    <3>2. CASE k = i
      BY <3>1, <3>2
    <3>3. CASE k < i
      BY <3>1, <3>3, <1>1, <1>3 DEF OnName
    <3>4. QED
      BY <3>1, <3>2, <3>3, <1>3
  <2>3. QED
    BY <2>1, <2>2
<1>4. OnName'
  <2>1. get_name(start)' = get_name(start')
    BY DEF get_name
  <2>2. QED
    BY <1>1, <1>2, <1>3, <2>1, EntryTypes DEF OnName, Indices
<1>5. Sound' /\ FindsFirst' /\ Bracket' /\ NoneMissed'
  BY <1>2 DEF Sound, FindsFirst, Bracket, NoneMissed
<1>6. QED
  BY <1>4, <1>5 DEF Inv

\* The entry the scan stops at is the first match.
LEMMA HitStep ==
    ASSUME Inv, TypeOK', cache' = cache, query' = query, ScanHit
    PROVE  Inv'
<1> USE SameCache
<1>1. TypeOK /\ OnName
  BY DEF Inv
<1>2. /\ pc = "scan" /\ pc' = "done" /\ answer' = get_path(i) /\ answer' # NoPath
      /\ i \in Indices /\ Matches(i)
  BY <1>1, EntryTypes DEF ScanHit, Return, TypeOK, Indices, Matches
<1>3. Sound'
  BY <1>2 DEF Sound, Matches, check_flags
<1>4. FindsFirst'
  <2>1. ASSUME WellFormed, NEW k \in Indices, Matches(k),
               \A j \in Indices : j < k => ~ Matches(j)
        PROVE  answer' = get_path(k)
    <3>1. ~ (k < i) /\ ~ (i < k) /\ k \in Int /\ i \in Int
      BY <2>1, <1>1, <1>2, EntryTypes DEF OnName, Indices
    <3>2. QED
      BY <3>1, <1>2
  <2>2. QED
    BY <2>1 DEF FindsFirst
<1>5. Bracket' /\ OnName' /\ NoneMissed'
  BY <1>2 DEF Bracket, OnName, NoneMissed
<1>6. QED
  BY <1>3, <1>4, <1>5 DEF Inv

\* When the search or the scan gives up, a well-formed cache has no match.
LEMMA GiveUpStep ==
    ASSUME Inv, TypeOK', cache' = cache, query' = query,
           Refuse \/ ProbeUnreadable \/ NotFound \/ ScanEnd
    PROVE  Inv'
<1>1. TypeOK /\ OnName /\ Bracket
  BY DEF Inv
<1>2. Return(NoPath)
  BY DEF Refuse, ProbeUnreadable, NotFound, ScanEnd
<1>3. ASSUME WellFormed, NEW k \in Indices, Matches(k)
      PROVE  FALSE
  <2>1. /\ get_name(k) = query /\ k \in Int /\ k >= 0 /\ k < nlibs /\ nlibs \in Nat
    BY <1>1, <1>3, EntryTypes DEF Matches, Indices
  <2>2. CASE Refuse
    <3>1. 0 \in Indices /\ nlibs - 1 \in Indices
      BY <2>1 DEF Indices
    <3>2. QED
      BY <2>1, <2>2, <3>1, <1>3 DEF Refuse, WellFormed, Readable
  <2>3. CASE ProbeUnreadable
    <3>1. mid \in Indices
      BY <2>1, <2>3, <1>1 DEF ProbeUnreadable, TypeOK, mid, Indices
    <3>2. QED
      BY <2>3, <3>1, <1>3 DEF ProbeUnreadable, WellFormed, Readable
  <2>4. CASE NotFound
    BY <2>1, <2>4, <1>1, <1>3 DEF NotFound, Bracket, TypeOK
  <2>5. CASE ScanEnd
    <3>1. /\ start \in Indices /\ get_name(start) = query /\ start <= i /\ i <= k
          /\ i \in Indices /\ get_name(i) # query
      BY <2>1, <2>5, <1>1, <1>3 DEF ScanEnd, OnName, TypeOK, Indices
    <3>2. /\ get_name(i) \in Int /\ query \in Int
          /\ Ascending \/ Descending
      BY <3>1, <1>1, <1>3, EntryTypes DEF WellFormed, Readable
    <3>3. start \in Int /\ i \in Int /\ start # i /\ i # k
      BY <3>1, <2>1, <1>1 DEF TypeOK, Indices
    <3>4. QED
      BY <3>1, <3>2, <3>3, <2>1, <1>3 DEF Ascending, Descending
  <2>6. QED
    BY <2>2, <2>3, <2>4, <2>5
<1>4. QED
  BY <1>2, <1>3, ReturnNone

\* Every step keeps the invariant.
LEMMA InvStep == Inv /\ [Next]_vars => Inv'
<1> SUFFICES ASSUME Inv, [Next]_vars PROVE Inv'
  OBVIOUS
<1>1. CASE Next
  <2>1. TypeOK' /\ cache' = cache /\ query' = query
    BY <1>1, TypeStep DEF Inv
  <2>2. QED
    BY <1>1, <2>1, BeginStep, NarrowStep, BackStep, ScanStep, HitStep, GiveUpStep DEF Next
<1>2. CASE UNCHANGED vars
  BY <1>2 DEF vars, Inv, TypeOK, Sound, FindsFirst, Bracket, OnName, NoneMissed, WellFormed,
     Readable, Ascending, Descending, Indices, Matches, check_flags, get_name, get_path, nlibs
<1>3. QED
  BY <1>1, <1>2

\* Nothing has been read when the lookup begins.
LEMMA FreshInv ==
    ASSUME cache \in Seq(Entries), query \in Names, Fresh
    PROVE  Inv
<1>1. TypeOK
  <2>1. nlibs \in Nat
    BY DEF nlibs
  <2>2. left \in 0 .. nlibs /\ right \in 0 .. nlibs /\ start \in 0 .. nlibs /\ i \in 0 .. nlibs
    BY <2>1 DEF Fresh
  <2>3. /\ pc \in {"start", "search", "back", "scan", "done"}
        /\ descending \in BOOLEAN /\ answer \in Paths \cup {NoPath}
    BY Zenon DEF Fresh
  <2>4. QED
    BY <2>2, <2>3 DEF TypeOK
<1>2. Sound /\ FindsFirst /\ Bracket /\ OnName /\ NoneMissed
  BY DEF Fresh, Sound, FindsFirst, Bracket, OnName, NoneMissed
<1>3. QED
  BY <1>1, <1>2 DEF Inv

\* The lookup by itself begins so.
LEMMA InitInv == Init => Inv
BY LdCacheAssumption, FreshInv DEF Init, Fresh

\* lookup answers with the path of a fitting entry only, in any cache of any length,
\* unreadable or unsorted ones too.
THEOREM LdCacheSound == Spec => []Sound
<1>1. Inv => Sound
  BY DEF Inv
<1>2. QED
  BY <1>1, InitInv, InvStep, PTL DEF Spec

\* lookup finds the first fitting entry of a cache of any length that is sorted
\* either way.
THEOREM LdCacheFindsFirst == Spec => []FindsFirst
<1>1. Inv => FindsFirst
  BY DEF Inv
<1>2. QED
  BY <1>1, InitInv, InvStep, PTL DEF Spec

-----------------------------------------------------------------------------
(* The list of the sources.                                                *)

\* A set of numbers that is not empty has a least member.
LEMMA Least ==
    ASSUME NEW T \in SUBSET Nat, T # {}
    PROVE  \E k \in T : \A j \in T : k <= j
<1>1. \E x \in T : \A y \in T : ~ (<<y, x>> \in OpToRel(<, Nat))
  <2>1. IsWellFoundedOn(OpToRel(<, Nat), Nat)
    BY NatLessThanWellFounded
  <2>2. QED
    BY <2>1, WFMin
<1>2. PICK x \in T : \A y \in T : ~ (y < x)
  BY <1>1 DEF OpToRel
<1>3. QED
  BY <1>2

\* What the recursive function of LibraryDirs says of a function.
Pushes(list, f, n) ==
    /\ f \in [0 .. n -> Seq(STRING)]
    /\ f[0] = <<>>
    /\ \A k \in 1 .. n : f[k] = IF list[k] = "" THEN f[k - 1] ELSE Append(f[k - 1], list[k])

\* There is such a function for every prefix of a list.
LEMMA PushesExists ==
    ASSUME NEW list \in Seq(STRING), NEW n \in 0 .. Len(list)
    PROVE  \E f : Pushes(list, f, n)
<1> DEFINE T == {k \in 0 .. Len(list) : ~ \E f : Pushes(list, f, k)}
<1> SUFFICES ASSUME T # {} PROVE FALSE
  OBVIOUS
<1>1. PICK k \in T : \A j \in T : k <= j
  <2>1. T \in SUBSET Nat
    OBVIOUS
  <2>2. QED
    BY <2>1, Least
<1>2. k \in 0 .. Len(list) /\ ~ \E f : Pushes(list, f, k)
  OBVIOUS
<1>3. k # 0
  <2>1. Pushes(list, [m \in 0 .. 0 |-> <<>>], 0)
    <3> DEFINE e == [m \in 0 .. 0 |-> <<>>]
    <3>1. e[0] = <<>> /\ e \in [0 .. 0 -> Seq(STRING)]
      OBVIOUS
    <3>2. \A m \in 1 .. 0 : FALSE
      OBVIOUS
    <3>3. QED
      BY <3>1, <3>2 DEF Pushes
  <2>2. QED
    BY <1>2, <2>1
<1>4. k \in Nat /\ k - 1 \in 0 .. Len(list) /\ k - 1 \notin T /\ k \in 1 .. Len(list)
  <2>1. k - 1 \in 0 .. Len(list) /\ ~ (k <= k - 1) /\ k \in 1 .. Len(list)
    BY <1>2, <1>3
  <2>2. QED
    BY <1>1, <1>2, <2>1
<1>5. PICK f : Pushes(list, f, k - 1)
  BY <1>4
<1> DEFINE v == IF list[k] = "" THEN f[k - 1] ELSE Append(f[k - 1], list[k])
           g == [m \in 0 .. k |-> IF m = k THEN v ELSE f[m]]
<1>6. v \in Seq(STRING)
  <2>1. k - 1 \in 0 .. k - 1
    BY <1>4
  <2>2. f[k - 1] \in Seq(STRING)
    BY <1>5, <2>1 DEF Pushes
  <2>3. list[k] \in STRING
    BY <1>4, ElementOfSeq
  <2>4. Append(f[k - 1], list[k]) \in Seq(STRING)
    BY <2>2, <2>3, AppendProperties
  <2>5. QED
    BY <2>2, <2>4, Zenon
<1>7. /\ g[k] = v /\ g[0] = f[0]
      /\ \A m \in 0 .. k - 1 : g[m] = f[m] /\ f[m] \in Seq(STRING)
  <2>1. /\ k \in 0 .. k /\ 0 \in 0 .. k /\ 0 # k
        /\ \A m \in 0 .. k - 1 : m \in 0 .. k /\ m # k
    BY <1>3, <1>4
  <2>2. \A m \in 0 .. k - 1 : f[m] \in Seq(STRING)
    BY <1>5 DEF Pushes
  <2> HIDE DEF v
  <2>3. QED
    BY <2>1, <2>2
<1>8. g \in [0 .. k -> Seq(STRING)]
  <2>1. \A m \in 0 .. k : m = k \/ m \in 0 .. k - 1
    BY <1>4
  <2>2. QED
    BY <1>6, <1>7, <2>1
<1>9. ASSUME NEW m \in 1 .. k
      PROVE  g[m] = IF list[m] = "" THEN g[m - 1] ELSE Append(g[m - 1], list[m])
  <2>1. m - 1 \in 0 .. k - 1 /\ (m = k \/ m \in 1 .. k - 1)
    BY <1>4
  <2>2. g[m - 1] = f[m - 1]
    BY <1>7, <2>1
  <2>3. CASE m = k
    BY <1>7, <2>2, <2>3
  <2>4. CASE m \in 1 .. k - 1
    <3>1. m \in 0 .. k - 1
      BY <1>4, <2>4
    <3>2. g[m] = f[m]
      BY <1>7, <3>1
    <3>3. QED
      BY <1>5, <2>2, <2>4, <3>2 DEF Pushes
  <2>5. QED
    BY <2>1, <2>3, <2>4
<1> HIDE DEF g
<1>10. Pushes(list, g, k)
  BY <1>5, <1>7, <1>8, <1>9 DEF Pushes
<1>11. QED
  BY <1>2, <1>10

\* It is the one that LibraryDirs takes.
LEMMA LibraryDirsDef ==
    ASSUME NEW list \in Seq(STRING)
    PROVE  \E f : Pushes(list, f, Len(list)) /\ LibraryDirs(list) = f[Len(list)]
<1> DEFINE n == Len(list)
           Step(f) == [k \in 0 .. n |->
                         IF k = 0 THEN <<>>
                         ELSE IF list[k] = "" THEN f[k - 1] ELSE Append(f[k - 1], list[k])]
           F == CHOOSE f : f = Step(f)
<1>1. n \in Nat /\ n \in 0 .. Len(list)
  OBVIOUS
<1>2. LibraryDirs(list) = F[n]
  BY DEF LibraryDirs
<1>3. PICK h : Pushes(list, h, n)
  BY <1>1, PushesExists
<1> HIDE DEF n
<1>4. h = Step(h)
  <2>1. \A k \in 0 .. n : k = 0 \/ k \in 1 .. n
    BY <1>1
  <2>2. \A k \in 0 .. n : Step(h)[k] = h[k]
    BY <1>1, <1>3, <2>1 DEF Pushes
  <2>3. h = [k \in 0 .. n |-> h[k]]
    BY <1>3 DEF Pushes
  <2>4. QED
    BY <2>2, <2>3
<1>5. F = Step(F)
  BY <1>4
<1> HIDE DEF F
<1>6. \A k \in 0 .. n : F[k] = h[k]
  <2> DEFINE T == {k \in 0 .. n : F[k] # h[k]}
  <2> SUFFICES ASSUME T # {} PROVE FALSE
    OBVIOUS
  <2>1. PICK k \in T : \A j \in T : k <= j
    <3>1. T \in SUBSET Nat
      BY <1>1
    <3>2. QED
      BY <3>1, Least
  <2>2. k \in 0 .. n /\ F[k] # h[k]
    OBVIOUS
  <2>3. F[k] = Step(F)[k] /\ h[k] = Step(h)[k]
    BY <1>4, <1>5
  <2>4. k # 0
    BY <2>2, <2>3
  <2>5. k - 1 \in 0 .. n /\ ~ (k <= k - 1)
    BY <1>1, <2>2, <2>4
  <2>6. F[k - 1] = h[k - 1]
    BY <2>1, <2>5
  <2>7. QED
    BY <2>2, <2>3, <2>4, <2>6
<1>7. F[n] = h[n]
  BY <1>1, <1>6
<1>8. QED
  BY <1>2, <1>3, <1>7 DEF n

\* The sequence s is what is left of the first n members of a list without the empty
\* ones, and g tells where each of them was.
Picks(list, s, g, n) ==
    /\ s \in Seq(STRING)
    /\ g \in [1 .. Len(s) -> 1 .. n]
    /\ \A j, k \in 1 .. Len(s) : j < k => g[j] < g[k]
    /\ \A k \in 1 .. Len(s) : s[k] = list[g[k]] /\ s[k] # ""
    /\ \A m \in 1 .. n : list[m] # "" => \E k \in 1 .. Len(s) : g[k] = m

\* The places of a sequence that is longer by one.
LEMMA OneMore ==
    ASSUME NEW n \in Nat
    PROVE  /\ n + 1 \in 1 .. n + 1 /\ n + 1 \in Nat
           /\ \A m \in 1 .. n : m \in 1 .. n + 1 /\ m # n + 1 /\ m < n + 1
           /\ \A m \in 1 .. n + 1 : m = n + 1 \/ m \in 1 .. n
           /\ \A j, k \in 1 .. n + 1 : j < k => j \in 1 .. n
OBVIOUS

\* One more member that is empty.
LEMMA PicksSkip ==
    ASSUME NEW list, NEW s, NEW g, NEW n \in Nat, Picks(list, s, g, n), list[n + 1] = ""
    PROVE  Picks(list, s, g, n + 1)
<1> DEFINE l == Len(s)
<1>1. /\ s \in Seq(STRING) /\ g \in [1 .. l -> 1 .. n]
      /\ \A j, k \in 1 .. l : j < k => g[j] < g[k]
      /\ \A k \in 1 .. l : s[k] = list[g[k]] /\ s[k] # ""
      /\ \A m \in 1 .. n : list[m] # "" => \E k \in 1 .. l : g[k] = m
  BY DEF Picks
<1> HIDE DEF l
<1>2. /\ g \in [1 .. l -> 1 .. n + 1]
      /\ \A m \in 1 .. n + 1 : list[m] # "" => \E k \in 1 .. l : g[k] = m
  <2>1. \A m \in 1 .. n + 1 : m = n + 1 \/ m \in 1 .. n
    BY OneMore
  <2>2. \A m \in 1 .. n : m \in 1 .. n + 1
    BY OneMore
  <2>3. QED
    BY <1>1, <2>1, <2>2
<1>3. QED
  BY <1>1, <1>2 DEF Picks, l

\* What is appended comes last.
LEMMA AppendIs ==
    ASSUME NEW S, NEW u \in Seq(S), NEW y \in S
    PROVE  /\ Append(u, y) \in Seq(S) /\ Len(Append(u, y)) = Len(u) + 1
           /\ \A k \in 1 .. Len(u) : Append(u, y)[k] = u[k]
           /\ Append(u, y)[Len(u) + 1] = y
BY AppendProperties

\* One more member that is not.
LEMMA PicksAppend ==
    ASSUME NEW list, NEW s, NEW g, NEW n \in Nat, Picks(list, s, g, n),
           list[n + 1] \in STRING, list[n + 1] # ""
    PROVE  \E h : Picks(list, Append(s, list[n + 1]), h, n + 1)
<1> DEFINE l == Len(s)
           x == list[n + 1]
           t == Append(s, x)
           h == [k \in 1 .. l + 1 |-> IF k = l + 1 THEN n + 1 ELSE g[k]]
<1>1. /\ s \in Seq(STRING) /\ g \in [1 .. l -> 1 .. n]
      /\ \A j, k \in 1 .. l : j < k => g[j] < g[k]
      /\ \A k \in 1 .. l : s[k] = list[g[k]] /\ s[k] # ""
      /\ \A m \in 1 .. n : list[m] # "" => \E k \in 1 .. l : g[k] = m
  BY DEF Picks
<1>2. /\ t \in Seq(STRING) /\ Len(t) = l + 1
      /\ \A k \in 1 .. l : t[k] = s[k]
      /\ t[l + 1] = x
  <2>1. s \in Seq(STRING) /\ x \in STRING
    BY <1>1
  <2> HIDE DEF x
  <2>2. QED
    BY <2>1, AppendIs, Zenon
<1>3. l \in Nat
  BY <1>1, LenProperties
<1> HIDE DEF l, t
<1>4. \A k \in 1 .. l + 1 : k = l + 1 \/ (k \in 1 .. l /\ k # l + 1)
  BY <1>3, OneMore
<1>5. l + 1 \in 1 .. l + 1 /\ \A k \in 1 .. l : k \in 1 .. l + 1 /\ k # l + 1
  BY <1>3, OneMore
<1>6. h[l + 1] = n + 1 /\ \A k \in 1 .. l : h[k] = g[k]
  BY <1>5
<1>7. h \in [1 .. l + 1 -> 1 .. n + 1]
  <2>1. \A k \in 1 .. l : g[k] \in 1 .. n + 1
    BY <1>1, OneMore
  <2>2. n + 1 \in 1 .. n + 1
    BY OneMore
  <2>3. QED
    BY <1>4, <2>1, <2>2
<1>8. DOMAIN h = 1 .. l + 1
  OBVIOUS
<1> HIDE DEF h
<1>9. ASSUME NEW j \in 1 .. l + 1, NEW k \in 1 .. l + 1, j < k
      PROVE  h[j] < h[k]
  <2>1. j \in 1 .. l /\ g[j] \in 1 .. n /\ g[j] < n + 1
    BY <1>1, <1>3, <1>9, OneMore
  <2>2. CASE k = l + 1
    BY <1>6, <2>1, <2>2
  <2>3. CASE k \in 1 .. l
    BY <1>1, <1>6, <1>9, <2>1, <2>3
  <2>4. QED
    BY <1>4, <2>2, <2>3
<1>10. \A k \in 1 .. l + 1 : t[k] = list[h[k]] /\ t[k] # ""
  BY <1>1, <1>2, <1>4, <1>6
<1>11. ASSUME NEW m \in 1 .. n + 1, list[m] # ""
       PROVE  \E k \in 1 .. l + 1 : h[k] = m
  <2>1. CASE m = n + 1
    BY <1>5, <1>6, <2>1
  <2>2. CASE m \in 1 .. n
    BY <1>1, <1>5, <1>6, <1>11, <2>2
  <2>3. QED
    BY <2>1, <2>2, OneMore
<1>12. Picks(list, t, h, n + 1)
  BY <1>2, <1>7, <1>9, <1>10, <1>11 DEF Picks
<1>13. QED
  BY <1>12 DEF t

\* LibraryDirs keeps the directories of the list that are not empty, in their order.
LEMMA LibraryDirsPicks ==
    ASSUME NEW list \in Seq(STRING)
    PROVE  \E g : Picks(list, LibraryDirs(list), g, Len(list))
<1> DEFINE n == Len(list)
<1>1. n \in Nat
  OBVIOUS
<1>2. PICK f : Pushes(list, f, n) /\ LibraryDirs(list) = f[n]
  BY LibraryDirsDef
<1>3. \A k \in 1 .. n : list[k] \in STRING
  BY ElementOfSeq
<1> HIDE DEF n
<1> DEFINE T == {k \in 0 .. n : ~ \E g : Picks(list, f[k], g, k)}
<1>4. T = {}
  <2> SUFFICES ASSUME T # {} PROVE FALSE
    OBVIOUS
  <2>1. PICK k \in T : \A j \in T : k <= j
    <3>1. T \in SUBSET Nat
      BY <1>1
    <3>2. QED
      BY <3>1, Least
  <2>2. k \in 0 .. n /\ ~ \E g : Picks(list, f[k], g, k)
    OBVIOUS
  <2>3. k # 0
    <3>1. /\ <<>> \in Seq(STRING) /\ Len(<<>>) = 0 /\ <<>> \in [1 .. 0 -> 1 .. 0]
          /\ \A m \in 1 .. 0 : FALSE
      OBVIOUS
    <3>2. Picks(list, <<>>, <<>>, 0)
      BY <3>1 DEF Picks
    <3>3. QED
      BY <1>2, <2>2, <3>2 DEF Pushes
  <2>4. /\ k \in 1 .. n /\ k - 1 \in 0 .. n /\ k - 1 \in Nat /\ (k - 1) + 1 = k
        /\ ~ (k <= k - 1)
    BY <1>1, <2>2, <2>3
  <2>5. k - 1 \notin T
    BY <2>1, <2>4
  <2>6. PICK g : Picks(list, f[k - 1], g, k - 1)
    BY <2>4, <2>5
  <2>7. f[k] = IF list[k] = "" THEN f[k - 1] ELSE Append(f[k - 1], list[k])
    BY <1>2, <2>4 DEF Pushes
  <2>8. CASE list[k] = ""
    <3>1. Picks(list, f[k - 1], g, k)
      BY <2>4, <2>6, <2>8, PicksSkip
    <3>2. QED
      BY <2>2, <2>7, <2>8, <3>1
  <2>9. CASE list[k] # ""
    <3>1. \E h : Picks(list, Append(f[k - 1], list[k]), h, k)
      BY <1>3, <2>4, <2>6, <2>9, PicksAppend
    <3>2. QED
      BY <2>2, <2>7, <2>9, <3>1
  <2>10. QED
    BY <2>8, <2>9
<1>5. n \in 0 .. n /\ n \notin T
  BY <1>1, <1>4
<1>6. QED
  BY <1>2, <1>5 DEF n

\* The key of the first string is the one get_env looks for.
IsFirst(environ, k, name) ==
    k \in DOMAIN environ /\ environ[k].key = name /\ \A j \in 1 .. k - 1 : environ[j].key # name

\* get_env gives the value of the first string with the key, or none.
LEMMA GetEnvIs ==
    ASSUME NEW environ \in Environs, NEW name
    PROVE  /\ get_env(environ, name) \in Seq(STRING)
           /\ \A k : IsFirst(environ, k, name) => get_env(environ, name) = environ[k].value
           /\ (\A k : ~ IsFirst(environ, k, name)) => get_env(environ, name) = <<>>
<1> DEFINE hits == {k \in DOMAIN environ : environ[k].key = name}
<1>1. /\ DOMAIN environ = 1 .. Len(environ) /\ Len(environ) \in Nat
      /\ \A k \in DOMAIN environ : environ[k].value \in Seq(STRING)
  <2> DEFINE R == [key : STRING, value : Seq(STRING)]
  <2>1. environ \in Seq(R)
    BY DEF Environs
  <2>2. \A r \in R : r.value \in Seq(STRING)
    OBVIOUS
  <2> HIDE DEF R
  <2>3. DOMAIN environ = 1 .. Len(environ) /\ Len(environ) \in Nat
    BY <2>1
  <2>4. \A k \in 1 .. Len(environ) : environ[k] \in R
    BY <2>1, ElementOfSeq
  <2>5. QED
    BY <2>2, <2>3, <2>4
<1>2. get_env(environ, name)
        = IF hits = {} THEN <<>> ELSE environ[CHOOSE k \in hits : \A j \in hits : k <= j].value
  BY DEF get_env
<1>3. ASSUME NEW k, IsFirst(environ, k, name)
      PROVE  k \in hits /\ \A j \in hits : k <= j
  <2>1. k \in hits /\ k \in Nat /\ \A j \in 1 .. k - 1 : environ[j].key # name
    BY <1>1, <1>3 DEF IsFirst
  <2>2. ASSUME NEW j \in hits PROVE k <= j
    <3>1. j \in 1 .. Len(environ) /\ environ[j].key = name
      BY <1>1
    <3>2. j \notin 1 .. k - 1
      BY <2>1, <3>1
    <3>3. QED
      BY <1>1, <2>1, <3>1, <3>2
  <2>3. QED
    BY <2>1, <2>2
<1>4. ASSUME hits # {}
      PROVE  \E k : IsFirst(environ, k, name) /\ environ[k].value = get_env(environ, name)
  <2> DEFINE c == CHOOSE k \in hits : \A j \in hits : k <= j
  <2>1. \E k \in hits : \A j \in hits : k <= j
    <3>1. hits \in SUBSET Nat
      BY <1>1
    <3>2. QED
      BY <1>4, <3>1, Least
  <2>2. c \in hits /\ \A j \in hits : c <= j
    BY <2>1
  <2> HIDE DEF c
  <2>3. c \in 1 .. Len(environ) /\ environ[c].key = name
    BY <1>1, <2>2
  <2>4. ASSUME NEW j \in 1 .. c - 1 PROVE environ[j].key # name
    <3>1. j \in DOMAIN environ /\ ~ (c <= j)
      BY <1>1, <2>3
    <3>2. QED
      BY <2>2, <3>1
  <2>5. IsFirst(environ, c, name)
    BY <1>1, <2>3, <2>4 DEF IsFirst
  <2>6. get_env(environ, name) = environ[c].value
    BY <1>2, <1>4 DEF c
  <2>7. QED
    BY <2>5, <2>6
<1>5. ASSUME NEW k, IsFirst(environ, k, name)
      PROVE  get_env(environ, name) = environ[k].value
  <2>1. k \in hits /\ \A j \in hits : k <= j
    BY <1>3, <1>5
  <2>2. PICK m : IsFirst(environ, m, name) /\ environ[m].value = get_env(environ, name)
    BY <1>4, <2>1
  <2>3. m \in hits /\ \A j \in hits : m <= j
    BY <1>3, <2>2
  <2>4. m = k
    BY <1>1, <2>1, <2>3
  <2>5. QED
    BY <2>2, <2>4
<1>6. (\A k : ~ IsFirst(environ, k, name)) => get_env(environ, name) = <<>>
  BY <1>2, <1>4
<1>7. get_env(environ, name) \in Seq(STRING)
  <2>1. CASE hits = {}
    BY <1>2, <2>1
  <2>2. CASE hits # {}
    BY <1>1, <1>4, <2>2 DEF IsFirst
  <2>3. QED
    BY <2>1, <2>2
<1>8. QED
  BY <1>5, <1>6, <1>7

\* The directories from LD_LIBRARY_PATH.
EnvDirs(environ) == LibraryDirs(get_env(environ, "LD_LIBRARY_PATH"))

FixedDir(dir) == [kind |-> "dir", dirs |-> <<dir>>]

\* Two more members of a sequence.
LEMMA TwoMore ==
    ASSUME NEW S, NEW q \in Seq(S), NEW c \in S, NEW d \in S, NEW l \in Nat, l = Len(q)
    PROVE  /\ q \o <<c, d>> \in Seq(S) /\ Len(q \o <<c, d>>) = l + 2
           /\ \A k \in 1 .. l : (q \o <<c, d>>)[k] = q[k]
           /\ (q \o <<c, d>>)[l + 1] = c /\ (q \o <<c, d>>)[l + 2] = d
<1> DEFINE t == <<c, d>>
           r == q \o t
<1>1. t \in Seq(S) /\ Len(t) = 2 /\ t[1] = c /\ t[2] = d
  OBVIOUS
<1> HIDE DEF t
<1>2. r \in Seq(S) /\ Len(r) = l + 2
      /\ \A k \in 1 .. l + 2 : r[k] = IF k <= l THEN q[k] ELSE t[k - l]
  <2>1. r \in Seq(S) /\ Len(r) = Len(q) + Len(t)
        /\ \A k \in 1 .. Len(q) + Len(t) : r[k] = IF k <= Len(q) THEN q[k] ELSE t[k - Len(q)]
    BY <1>1, ConcatProperties, Zenon
  <2>2. QED
    BY <1>1, <2>1, Zenon
<1> HIDE DEF r
<1>3. /\ \A k \in 1 .. l : k \in 1 .. l + 2 /\ k <= l
      /\ l + 1 \in 1 .. l + 2 /\ ~ (l + 1 <= l) /\ l + 1 - l = 1
      /\ l + 2 \in 1 .. l + 2 /\ ~ (l + 2 <= l) /\ l + 2 - l = 2
  OBVIOUS
<1>4. \A k \in 1 .. l : r[k] = q[k]
  BY <1>2, <1>3
<1>5. r[l + 1] = t[1] /\ r[l + 2] = t[2]
  BY <1>2, <1>3
<1>6. QED
  BY <1>1, <1>2, <1>4, <1>5 DEF r, t

\* The parts of a sequence made of five.
LEMMA FiveParts ==
    ASSUME NEW S, NEW a \in S, NEW b \in Seq(S), NEW c \in S, NEW d \in S, NEW e \in Seq(S),
           NEW p, p = <<a>> \o b \o <<c, d>> \o e,
           NEW n \in Nat, n = Len(b), NEW m \in Nat, m = Len(e)
    PROVE  /\ p \in Seq(S) /\ Len(p) = n + 3 + m
           /\ p[1] = a
           /\ \A k \in 1 .. n : p[1 + k] = b[k]
           /\ p[n + 2] = c /\ p[n + 3] = d
           /\ \A k \in 1 .. m : p[n + 3 + k] = e[k]
<1> DEFINE q == <<a>> \o b
           r == q \o <<c, d>>
<1>1. /\ q \in Seq(S) /\ Len(q) = 1 + n
      /\ \A k \in 1 .. 1 + n : q[k] = IF k <= 1 THEN a ELSE b[k - 1]
  <2>1. <<a>> \in Seq(S) /\ Len(<<a>>) = 1 /\ <<a>>[1] = a
    OBVIOUS
  <2>2. \A k \in 1 .. 1 + n : k <= 1 => k = 1
    OBVIOUS
  <2>3. QED
    BY <2>1, <2>2, ConcatProperties
<1>2. p = r \o e
  OBVIOUS
<1> HIDE DEF q
<1>3. /\ r \in Seq(S) /\ Len(r) = n + 3
      /\ \A k \in 1 .. 1 + n : r[k] = q[k]
      /\ r[n + 2] = c /\ r[n + 3] = d
  <2> DEFINE l == 1 + n
  <2>1. l \in Nat /\ l = Len(q) /\ n + 2 = l + 1 /\ n + 3 = l + 2
    BY <1>1
  <2> HIDE DEF l
  <2>2. /\ r \in Seq(S) /\ Len(r) = l + 2
        /\ \A k \in 1 .. l : r[k] = q[k]
        /\ r[l + 1] = c /\ r[l + 2] = d
    <3>1. q \in Seq(S)
      BY <1>1
    <3>2. QED
      BY <2>1, <3>1, TwoMore
  <2>3. QED
    BY <2>1, <2>2, Zenon DEF l
<1> HIDE DEF r
<1>4. /\ p \in Seq(S) /\ Len(p) = n + 3 + m
      /\ \A k \in 1 .. n + 3 + m : p[k] = IF k <= n + 3 THEN r[k] ELSE e[k - (n + 3)]
  BY <1>2, <1>3, ConcatProperties
<1>5. p[1] = a /\ \A k \in 1 .. n : p[1 + k] = b[k]
  <2>1. /\ 1 \in 1 .. 1 + n /\ 1 \in 1 .. n + 3 + m /\ 1 <= n + 3
        /\ \A k \in 1 .. n : /\ 1 + k \in 1 .. 1 + n /\ 1 + k \in 1 .. n + 3 + m /\ 1 + k <= n + 3
                             /\ ~ (1 + k <= 1) /\ 1 + k - 1 = k
    OBVIOUS
  <2>2. QED
    BY <1>1, <1>3, <1>4, <2>1
<1>6. p[n + 2] = c /\ p[n + 3] = d
  <2>1. /\ n + 2 \in 1 .. n + 3 + m /\ n + 2 <= n + 3
        /\ n + 3 \in 1 .. n + 3 + m /\ n + 3 <= n + 3
    OBVIOUS
  <2>2. QED
    BY <1>3, <1>4, <2>1
<1>7. \A k \in 1 .. m : p[n + 3 + k] = e[k]
  <2>1. \A k \in 1 .. m : /\ n + 3 + k \in 1 .. n + 3 + m /\ ~ (n + 3 + k <= n + 3)
                          /\ n + 3 + k - (n + 3) = k
    OBVIOUS
  <2>2. QED
    BY <1>4, <2>1
<1>8. QED
  BY <1>4, <1>5, <1>6, <1>7

\* The sources in the order of precedence.
LEMMA PathsAre ==
    ASSUME NEW environ \in Environs
    PROVE  LET p == SearchPaths(environ)
               n == Len(EnvDirs(environ))
               m == Len(Defaults)
           IN  /\ n \in Nat /\ m \in Nat /\ Len(p) = n + 3 + m
               /\ p[1] = [kind |-> "rpath"]
               /\ \A k \in 1 .. n : p[1 + k] = FixedDir(EnvDirs(environ)[k])
               /\ p[n + 2] = [kind |-> "runpath"]
               /\ p[n + 3] = [kind |-> "cache"]
               /\ \A k \in 1 .. m : p[n + 3 + k] = FixedDir(Defaults[k])
<1> DEFINE E == EnvDirs(environ)
           n == Len(E)
           m == Len(Defaults)
           p == SearchPaths(environ)
           S == {[kind |-> "rpath"], [kind |-> "runpath"], [kind |-> "cache"]}
                \cup {FixedDir(d) : d \in STRING}
<1>1. E \in Seq(STRING) /\ Defaults \in Seq(STRING)
  BY GetEnvIs, LibraryDirsPicks, WorldsAssumption DEF EnvDirs, Picks
<1>2. ASSUME NEW dirs \in Seq(STRING)
      PROVE  /\ FixedDirs(dirs) \in Seq({FixedDir(d) : d \in STRING})
             /\ Len(FixedDirs(dirs)) = Len(dirs)
             /\ \A k \in 1 .. Len(dirs) : FixedDirs(dirs)[k] = FixedDir(dirs[k])
  <2>1. FixedDirs(dirs) = [k \in 1 .. Len(dirs) |-> FixedDir(dirs[k])]
    BY DEF FixedDirs, FixedDir
  <2>2. \A k \in 1 .. Len(dirs) : FixedDir(dirs[k]) \in {FixedDir(d) : d \in STRING}
    BY ElementOfSeq
  <2>3. Len(dirs) \in Nat
    OBVIOUS
  <2>4. QED
    BY <2>1, <2>2, <2>3
<1>3. /\ n \in Nat /\ m \in Nat
      /\ FixedDirs(E) \in Seq(S) /\ Len(FixedDirs(E)) = n
      /\ FixedDirs(Defaults) \in Seq(S) /\ Len(FixedDirs(Defaults)) = m
  <2>1. \A T : \A s \in Seq({FixedDir(d) : d \in STRING}) :
          {FixedDir(d) : d \in STRING} \subseteq T => s \in Seq(T)
    <3>1. ASSUME NEW T, NEW U, U \subseteq T, NEW s \in Seq(U) PROVE s \in Seq(T)
      BY <3>1
    <3>2. QED
      BY <3>1
  <2>2. {FixedDir(d) : d \in STRING} \subseteq S
    OBVIOUS
  <2> HIDE DEF S
  <2>3. /\ FixedDirs(E) \in Seq({FixedDir(d) : d \in STRING}) /\ Len(FixedDirs(E)) = n
        /\ FixedDirs(Defaults) \in Seq({FixedDir(d) : d \in STRING})
        /\ Len(FixedDirs(Defaults)) = m
    BY <1>1, <1>2, Zenon
  <2>4. n \in Nat /\ m \in Nat
    BY <1>1, LenProperties
  <2>5. QED
    BY <2>1, <2>2, <2>3, <2>4, Zenon
<1>4. p = <<[kind |-> "rpath"]>> \o FixedDirs(E) \o <<[kind |-> "runpath"], [kind |-> "cache"]>>
          \o FixedDirs(Defaults)
  BY DEF SearchPaths, EnvDirs
<1>5. /\ Len(p) = n + 3 + m
      /\ p[1] = [kind |-> "rpath"]
      /\ \A k \in 1 .. n : p[1 + k] = FixedDirs(E)[k]
      /\ p[n + 2] = [kind |-> "runpath"] /\ p[n + 3] = [kind |-> "cache"]
      /\ \A k \in 1 .. m : p[n + 3 + k] = FixedDirs(Defaults)[k]
  <2>1. [kind |-> "rpath"] \in S /\ [kind |-> "runpath"] \in S /\ [kind |-> "cache"] \in S
    OBVIOUS
  <2>2. ASSUME NEW a \in S, NEW c \in S, NEW d \in S, NEW b \in Seq(S), NEW e \in Seq(S),
               NEW u, u = <<a>> \o b \o <<c, d>> \o e,
               NEW k \in Nat, k = Len(b), NEW l \in Nat, l = Len(e)
        PROVE  /\ Len(u) = k + 3 + l
               /\ u[1] = a
               /\ \A j \in 1 .. k : u[1 + j] = b[j]
               /\ u[k + 2] = c /\ u[k + 3] = d
               /\ \A j \in 1 .. l : u[k + 3 + j] = e[j]
    <3> HIDE DEF S
    <3>1. QED
      BY <2>2, FiveParts
  <2> DEFINE a == [kind |-> "rpath"]
             b == FixedDirs(E)
             c == [kind |-> "runpath"]
             d == [kind |-> "cache"]
             e == FixedDirs(Defaults)
  <2>3. /\ a \in S /\ c \in S /\ d \in S /\ b \in Seq(S) /\ e \in Seq(S)
        /\ p = <<a>> \o b \o <<c, d>> \o e
        /\ n \in Nat /\ n = Len(b) /\ m \in Nat /\ m = Len(e)
    BY <1>3, <1>4, <2>1, Zenon
  <2> HIDE DEF S, p, n, m, E, a, b, c, d, e
  <2>4. /\ Len(p) = n + 3 + m
        /\ p[1] = a
        /\ \A j \in 1 .. n : p[1 + j] = b[j]
        /\ p[n + 2] = c /\ p[n + 3] = d
        /\ \A j \in 1 .. m : p[n + 3 + j] = e[j]
    BY <2>2, <2>3
  <2>5. QED
    BY <2>4 DEF a, b, c, d, e
<1>6. /\ \A k \in 1 .. n : FixedDirs(E)[k] = FixedDir(E[k])
      /\ \A k \in 1 .. m : FixedDirs(Defaults)[k] = FixedDir(Defaults[k])
  BY <1>1, <1>2
<1>7. QED
  BY <1>3, <1>5, <1>6

-----------------------------------------------------------------------------
(* The walk along the sources.                                             *)

\* The parts of the system that a search reads.
LEMMA WorldTypes ==
    ASSUME world \in Systems
    PROVE  /\ world.rpath \in Seq(STRING) /\ world.runpath \in Seq(STRING)
           /\ world.files \in SUBSET Files /\ world.environ \in Environs
           /\ world.disk \in Caches \cup {Absent, Damaged}
           /\ world.calls \in Nat /\ world.changes \in Nat
BY DEF Systems

\* Hit is the first of the directories that has the file.
LEMMA HitIs ==
    ASSUME world \in Systems, NEW dirs \in Seq(STRING)
    PROVE  /\ Hit(dirs) = NoPath => \A k \in DOMAIN dirs : <<dirs[k], query>> \notin world.files
           /\ Hit(dirs) # NoPath =>
                \E k \in DOMAIN dirs :
                  /\ Hit(dirs) = <<dirs[k], query>> /\ Hit(dirs) \in world.files
                  /\ \A j \in DOMAIN dirs : j < k => <<dirs[j], query>> \notin world.files
<1> DEFINE hits == {k \in DOMAIN dirs : <<dirs[k], query>> \in world.files}
           c == CHOOSE k \in hits : \A j \in hits : k <= j
<1>1. Hit(dirs) = IF hits = {} THEN NoPath ELSE <<dirs[c], query>>
  BY DEF Hit
<1>2. NoPath \notin world.files
  BY WorldTypes, WorldsAssumption
<1>3. ASSUME hits # {}
      PROVE  c \in hits /\ \A j \in hits : c <= j
  <2>1. DOMAIN dirs = 1 .. Len(dirs) /\ Len(dirs) \in Nat
    OBVIOUS
  <2>2. hits \in SUBSET Nat
    BY <2>1
  <2>3. \E k \in hits : \A j \in hits : k <= j
    BY <1>3, <2>2, Least
  <2>4. QED
    BY <2>3
<1> HIDE DEF c
<1>4. CASE hits = {}
  BY <1>1, <1>4
<1>5. CASE hits # {}
  <2>1. /\ c \in DOMAIN dirs /\ <<dirs[c], query>> \in world.files /\ Hit(dirs) = <<dirs[c], query>>
    BY <1>1, <1>3, <1>5
  <2>2. ASSUME NEW j \in DOMAIN dirs, j < c PROVE <<dirs[j], query>> \notin world.files
    <3>1. j \in Int /\ c \in Int
      BY <2>1
    <3>2. ~ (c <= j)
      BY <2>2, <3>1
    <3>3. QED
      BY <1>3, <1>5, <3>2
  <2>3. QED
    BY <1>2, <2>1, <2>2
<1>6. QED
  BY <1>4, <1>5

\* The sources are of the four kinds, and one is the cache.
LEMMA SourcesAre ==
    ASSUME seen \in Environs, paths = SearchPaths(seen), world \in Systems
    PROVE  /\ Len(paths) \in Nat
           /\ \A s \in 1 .. Len(paths) :
                paths[s].kind # "cache" => Dirs(paths[s]) \in Seq(STRING)
           /\ \A s, t \in 1 .. Len(paths) :
                paths[s].kind = "cache" /\ paths[t].kind = "cache" => s = t
<1> DEFINE E == EnvDirs(seen)
           n == Len(E)
           m == Len(Defaults)
<1>1. /\ n \in Nat /\ m \in Nat /\ Len(paths) = n + 3 + m
      /\ paths[1] = [kind |-> "rpath"]
      /\ \A k \in 1 .. n : paths[1 + k] = FixedDir(E[k])
      /\ paths[n + 2] = [kind |-> "runpath"]
      /\ paths[n + 3] = [kind |-> "cache"]
      /\ \A k \in 1 .. m : paths[n + 3 + k] = FixedDir(Defaults[k])
  BY PathsAre
<1>2. /\ \A k \in 1 .. n : E[k] \in STRING
      /\ \A k \in 1 .. m : Defaults[k] \in STRING
  BY GetEnvIs, LibraryDirsPicks, WorldsAssumption, ElementOfSeq DEF EnvDirs, Picks
<1> HIDE DEF n, m, E
<1>3. ASSUME NEW s \in 1 .. n + 3 + m
      PROVE  \/ s = 1 \/ (\E k \in 1 .. n : s = 1 + k) \/ s = n + 2 \/ s = n + 3
             \/ \E k \in 1 .. m : s = n + 3 + k
  <2>1. CASE 2 <= s /\ s <= n + 1
    <3>1. s - 1 \in 1 .. n /\ s = 1 + (s - 1)
      BY <1>1, <2>1
    <3>2. QED
      BY <3>1
  <2>2. CASE s > n + 3
    <3>1. s - (n + 3) \in 1 .. m /\ s = n + 3 + (s - (n + 3))
      BY <1>1, <2>2
    <3>2. QED
      BY <3>1
  <2>3. QED
    BY <1>1, <2>1, <2>2
<1>4. ASSUME NEW d \in STRING
      PROVE  FixedDir(d).kind = "dir" /\ FixedDir(d).dirs \in Seq(STRING)
  BY DEF FixedDir
<1>5. ASSUME NEW s \in 1 .. n + 3 + m
      PROVE  IF s = n + 3 THEN paths[s].kind = "cache"
             ELSE /\ paths[s].kind \in {"rpath", "runpath", "dir"}
                  /\ paths[s].kind = "dir" => paths[s].dirs \in Seq(STRING)
  <2>1. CASE s = 1
    BY <1>1, <2>1
  <2>2. ASSUME NEW k \in 1 .. n, s = 1 + k
        PROVE  paths[s].kind = "dir" /\ paths[s].dirs \in Seq(STRING) /\ s # n + 3
    <3>1. s # n + 3
      BY <1>1, <2>2
    <3>2. QED
      BY <1>1, <1>2, <1>4, <2>2, <3>1
  <2>3. CASE s = n + 2 \/ s = n + 3
    BY <1>1, <2>3
  <2>4. ASSUME NEW k \in 1 .. m, s = n + 3 + k
        PROVE  paths[s].kind = "dir" /\ paths[s].dirs \in Seq(STRING) /\ s # n + 3
    <3>1. s # n + 3
      BY <1>1, <2>4
    <3>2. QED
      BY <1>1, <1>2, <1>4, <2>4, <3>1
  <2>5. QED
    BY <1>3, <2>1, <2>2, <2>3, <2>4
<1>6. ASSUME NEW s \in 1 .. n + 3 + m, paths[s].kind # "cache"
      PROVE  Dirs(paths[s]) \in Seq(STRING)
  <2>1. /\ paths[s].kind \in {"rpath", "runpath", "dir"}
        /\ paths[s].kind = "dir" => paths[s].dirs \in Seq(STRING)
    BY <1>5, <1>6
  <2>2. QED
    BY <2>1, WorldTypes DEF Dirs
<1>7. \A s \in 1 .. n + 3 + m : paths[s].kind = "cache" => s = n + 3
  <2>1. SUFFICES ASSUME NEW s \in 1 .. n + 3 + m, s # n + 3 PROVE paths[s].kind # "cache"
    OBVIOUS
  <2>2. paths[s].kind \in {"rpath", "runpath", "dir"}
    BY <1>5, <2>1
  <2>3. QED
    BY <2>2
<1>8. n + 3 + m \in Nat
  BY <1>1
<1>9. QED
  BY <1>1, <1>6, <1>7, <1>8

\* A step that changes neither the files nor the sources lets a source that had no file
\* have none, the cache if its answer is the same or it is given up.
LEMMA FruitlessKept ==
    ASSUME NEW s, Fruitless(s), UNCHANGED <<paths, query>>,
           world'.files = world.files, world'.rpath = world.rpath,
           world'.runpath = world.runpath,
           paths[s].kind = "cache" => answer' = answer /\ ldCache' \in {ldCache, "failed"}
    PROVE  Fruitless(s)'
<1>1. Dirs(paths[s])' = Dirs(paths[s])
  BY DEF Dirs
<1>2. CASE paths[s].kind = "cache"
  BY <1>2 DEF Fruitless
<1>3. CASE paths[s].kind # "cache"
  BY <1>1, <1>3 DEF Fruitless
<1>4. QED
  BY <1>2, <1>3

\* The same for the source in which a file was found.
LEMMA FoundInKept ==
    ASSUME NEW s, FoundIn(s), UNCHANGED <<paths, query, found, answer, ldCache>>,
           world'.files = world.files, world'.rpath = world.rpath,
           world'.runpath = world.runpath
    PROVE  FoundIn(s)'
<1>1. Dirs(paths[s])' = Dirs(paths[s])
  BY DEF Dirs
<1>2. Hit(Dirs(paths[s]))' = Hit(Dirs(paths[s]))
  BY <1>1 DEF Hit
<1>3. QED
  BY <1>2 DEF FoundIn

\* A search that is under way has its sources.
LEMMA UnderWay ==
    ASSUME LInv, stage # "idle"
    PROVE  /\ seen \in Environs /\ paths = SearchPaths(seen) /\ world \in Systems
           /\ Len(paths) \in Nat /\ at \in 1 .. Len(paths) + 1
           /\ \A s \in 1 .. at - 1 : Fruitless(s)
           /\ \A s \in 1 .. Len(paths) :
                paths[s].kind # "cache" => Dirs(paths[s]) \in Seq(STRING)
           /\ \A s, t \in 1 .. Len(paths) :
                paths[s].kind = "cache" /\ paths[t].kind = "cache" => s = t
BY SourcesAre DEF LInv, PathsInv, WalkInv

\* A step that leaves the lookup alone keeps its invariant.
LEMMA LookupKept ==
    ASSUME Inv, UNCHANGED lookupVars
    PROVE  Inv'
BY InvStep DEF vars, lookupVars

\* The search passes on from a source that had no file.
LEMMA ContinueInv ==
    ASSUME LInv, stage \in {"walk", "read", "lookup"}, Continue, NEW k, k = at, k <= Len(paths),
           UNCHANGED <<world, paths, seen, lookupVars>>, ldCache' \in {ldCache, "failed"},
           paths[k].kind # "cache" => stage = "walk",
           Fruitless(k)'
    PROVE  LInv'
<1>1. /\ seen \in Environs /\ paths = SearchPaths(seen) /\ Len(paths) \in Nat
      /\ k \in 1 .. Len(paths) + 1 /\ \A s \in 1 .. k - 1 : Fruitless(s)
  BY UnderWay
<1>2. stage' = "walk" /\ at' = k + 1
  BY DEF Continue
<1>3. /\ k \in 1 .. Len(paths) /\ k + 1 \in 1 .. Len(paths) + 1 /\ k \in 1 .. (k + 1) - 1
      /\ \A s \in 1 .. (k + 1) - 1 : s = k \/ s \in 1 .. k - 1
      /\ \A s \in 1 .. k - 1 : s \in 1 .. (k + 1) - 1
  BY <1>1
<1>4. \A s \in 1 .. k - 1 : Fruitless(s)'
  BY <1>1, FruitlessKept DEF lookupVars
<1>5. \A s \in 1 .. at' - 1 : Fruitless(s)'
  BY <1>2, <1>3, <1>4
<1>6. ASSUME \A s \in 1 .. at' - 1 : paths[s].kind # "cache"
      PROVE  Fresh'
  <2>1. paths[k].kind # "cache" /\ \A s \in 1 .. k - 1 : paths[s].kind # "cache"
    BY <1>2, <1>3, <1>6
  <2>2. Fresh
    BY <2>1 DEF LInv, WalkInv
  <2>3. QED
    BY <2>2 DEF Fresh, lookupVars
<1>7. WalkInv'
  <2>1. at' \in 1 .. Len(paths') + 1
    BY <1>2, <1>3
  <2>2. QED
    BY <1>2, <1>5, <1>6, <2>1 DEF WalkInv
<1>8. PathsInv' /\ world' \in Systems /\ stage' \in {"idle", "walk", "read", "lookup", "ended"}
  BY <1>1, <1>2 DEF PathsInv, LInv, SearchPaths, FixedDirs
<1>9. Inv'
  BY LookupKept DEF LInv
<1>10. QED
  BY <1>7, <1>8, <1>9 DEF LInv

\* The search ends, at the source that has the file or behind the last one.
LEMMA FinishInv ==
    ASSUME LInv, stage \in {"walk", "lookup"}, NEW path, Finish(path), NEW k, k = at,
           UNCHANGED <<world, paths, seen, ldCache, lookupVars>>,
           IF k = Len(paths) + 1 THEN path = NoPath ELSE FoundIn(k)'
    PROVE  LInv'
<1>1. /\ seen \in Environs /\ paths = SearchPaths(seen) /\ Len(paths) \in Nat
      /\ k \in 1 .. Len(paths) + 1 /\ \A s \in 1 .. k - 1 : Fruitless(s)
  BY UnderWay
<1>2. stage' = "ended" /\ at' = k /\ found' = path
  BY DEF Finish
<1>3. \A s \in 1 .. at' - 1 : Fruitless(s)'
  BY <1>1, <1>2, FruitlessKept DEF lookupVars
<1>4. IF at' = Len(paths') + 1 THEN found' = NoPath ELSE FoundIn(at)'
  <2>1. CASE k = Len(paths) + 1
    BY <1>2, <2>1
  <2>2. CASE k # Len(paths) + 1
    <3>1. FoundIn(k)'
      BY <2>2
    <3>2. FoundIn(at)'
      BY <1>2, <3>1 DEF FoundIn
    <3>3. QED
      BY <1>2, <2>2, <3>2
  <2>3. QED
    BY <2>1, <2>2
<1>5. WalkInv'
  <2>1. at' \in 1 .. Len(paths') + 1
    BY <1>1, <1>2
  <2>2. QED
    BY <1>2, <1>3, <1>4, <2>1 DEF WalkInv
<1>6. PathsInv' /\ world' \in Systems /\ stage' \in {"idle", "walk", "read", "lookup", "ended"}
  BY <1>1, <1>2 DEF PathsInv, LInv
<1>7. Inv'
  BY LookupKept DEF LInv
<1>8. QED
  BY <1>5, <1>6, <1>7 DEF LInv

LEMMA TryDirsInv == LInv /\ TryDirs => LInv'
<1> SUFFICES ASSUME LInv, TryDirs PROVE LInv'
  OBVIOUS
<1>1. PICK k : k = at
  OBVIOUS
<1>2. /\ stage = "walk" /\ k <= Len(paths) /\ paths[k].kind # "cache"
      /\ UNCHANGED <<world, paths, ldCache, fd, seen, lookupVars>>
  BY <1>1 DEF TryDirs
<1>3. /\ Len(paths) \in Nat /\ k \in 1 .. Len(paths) /\ world \in Systems
      /\ Dirs(paths[k]) \in Seq(STRING)
  <2>1. Len(paths) \in Nat /\ k \in 1 .. Len(paths) + 1
    BY <1>1, <1>2, UnderWay
  <2>2. k \in 1 .. Len(paths)
    BY <1>2, <2>1
  <2>3. QED
    BY <1>2, <2>1, <2>2, UnderWay
<1>4. Dirs(paths[k])' = Dirs(paths[k]) /\ Hit(Dirs(paths[k]))' = Hit(Dirs(paths[k]))
  BY <1>2 DEF Dirs, Hit, lookupVars
<1>5. CASE Hit(Dirs(paths[k])) # NoPath
  <2>1. Finish(Hit(Dirs(paths[k])))
    BY <1>1, <1>5 DEF TryDirs
  <2>2. FoundIn(k)'
    BY <1>2, <1>4, <1>5, <2>1 DEF FoundIn, Finish
  <2>3. k # Len(paths) + 1
    BY <1>3
  <2>4. QED
    BY <1>1, <1>2, <2>1, <2>2, <2>3, FinishInv
<1>6. CASE Hit(Dirs(paths[k])) = NoPath
  <2>1. Continue
    BY <1>1, <1>6 DEF TryDirs
  <2>2. Fruitless(k)
    BY <1>2, <1>3, <1>6, HitIs DEF Fruitless
  <2>3. Fruitless(k)'
    BY <1>2, <2>2, FruitlessKept DEF lookupVars
  <2>4. QED
    BY <1>1, <1>2, <2>1, <2>3, ContinueInv
<1>7. QED
  BY <1>5, <1>6

\* The cache is given up.
LEMMA GiveUpInv ==
    ASSUME LInv, stage \in {"walk", "read"}, at <= Len(paths), paths[at].kind = "cache",
           Continue, ldCache' = "failed", UNCHANGED <<world, paths, seen, lookupVars>>
    PROVE  LInv'
<1>1. PICK k : k = at
  OBVIOUS
<1>2. Fruitless(k)'
  BY <1>1 DEF Fruitless
<1>3. QED
  BY <1>1, <1>2, ContinueInv

LEMMA SkipCacheInv == LInv /\ SkipCache => LInv'
BY GiveUpInv DEF SkipCache

LEMMA ReadFailsInv == LInv /\ ReadFails => LInv'
<1> SUFFICES ASSUME LInv, ReadFails PROVE LInv'
  OBVIOUS
<1>1. at <= Len(paths) /\ paths[at].kind = "cache"
  BY DEF ReadFails, LInv, WalkInv
<1>2. QED
  BY <1>1, GiveUpInv DEF ReadFails

LEMMA TryCandidateInv == LInv /\ TryCandidate => LInv'
<1> SUFFICES ASSUME LInv, TryCandidate PROVE LInv'
  OBVIOUS
<1>1. PICK k : k = at
  OBVIOUS
<1>2. /\ stage = "lookup" /\ k <= Len(paths) /\ paths[k].kind = "cache" /\ ldCache = "loaded"
      /\ UNCHANGED <<world, paths, ldCache, fd, seen, lookupVars>>
  BY <1>1 DEF TryCandidate, LInv, WalkInv
<1>3. Len(paths) \in Nat /\ k \in 1 .. Len(paths) /\ k # Len(paths) + 1
  <2>1. Len(paths) \in Nat /\ k \in 1 .. Len(paths) + 1
    BY <1>1, <1>2, UnderWay
  <2>2. QED
    BY <1>2, <2>1
<1>4. CASE answer \in world.files
  <2>1. Finish(answer)
    BY <1>4 DEF TryCandidate
  <2>2. FoundIn(k)'
    BY <1>2, <1>4, <2>1 DEF FoundIn, Finish, lookupVars
  <2>3. QED
    BY <1>1, <1>2, <1>3, <2>1, <2>2, FinishInv
<1>5. CASE answer \notin world.files
  <2>1. Continue
    BY <1>5 DEF TryCandidate
  <2>2. Fruitless(k)'
    BY <1>2, <1>5 DEF Fruitless, lookupVars
  <2>3. QED
    BY <1>1, <1>2, <2>1, <2>2, ContinueInv
<1>6. QED
  BY <1>4, <1>5

LEMMA FindLibErrorInv == LInv /\ FindLibError => LInv'
<1> SUFFICES ASSUME LInv, FindLibError PROVE LInv'
  OBVIOUS
<1>1. /\ stage = "walk" /\ at > Len(paths) /\ Finish(NoPath)
      /\ UNCHANGED <<world, paths, ldCache, fd, seen, lookupVars>>
  BY DEF FindLibError
<1>2. at = Len(paths) + 1
  <2>1. Len(paths) \in Nat /\ at \in 1 .. Len(paths) + 1
    BY <1>1, UnderWay
  <2>2. QED
    BY <1>1, <2>1
<1>3. QED
  BY <1>1, <1>2, FinishInv

\* While the search stays at the cache, nothing before it is from the cache.
LEMMA StayAtCache ==
    ASSUME LInv, stage # "idle", at <= Len(paths), paths[at].kind = "cache",
           UNCHANGED <<world, paths, seen, at, query>>
    PROVE  /\ \A s \in 1 .. at - 1 : paths[s].kind # "cache"
           /\ \A s \in 1 .. at' - 1 : Fruitless(s)'
           /\ at' \in 1 .. Len(paths') + 1 /\ at' <= Len(paths') /\ paths'[at'].kind = "cache"
           /\ PathsInv' /\ world' \in Systems
<1>1. /\ seen \in Environs /\ paths = SearchPaths(seen) /\ world \in Systems
      /\ Len(paths) \in Nat /\ at \in 1 .. Len(paths) + 1
      /\ \A s \in 1 .. at - 1 : Fruitless(s)
  BY UnderWay
<1>2. at \in 1 .. Len(paths) /\ \A s \in 1 .. at - 1 : s \in 1 .. Len(paths) /\ s # at
  BY <1>1
<1>3. \A s \in 1 .. at - 1 : paths[s].kind # "cache"
  BY <1>2, UnderWay
<1>4. \A s \in 1 .. at - 1 : Fruitless(s)'
  BY <1>1, <1>3, FruitlessKept
<1>5. QED
  BY <1>1, <1>3, <1>4 DEF PathsInv

LEMMA AskCacheInv == LInv /\ AskCache => LInv'
<1> SUFFICES ASSUME LInv, AskCache PROVE LInv'
  OBVIOUS
<1>1. /\ stage = "walk" /\ stage' = "lookup" /\ at <= Len(paths) /\ paths[at].kind = "cache"
      /\ ldCache' = "loaded"
      /\ UNCHANGED <<world, paths, seen, at, query>> /\ UNCHANGED lookupVars
  BY DEF AskCache, lookupVars
<1>2. WalkInv' /\ PathsInv' /\ world' \in Systems
  BY <1>1, StayAtCache DEF WalkInv
<1>3. QED
  BY <1>1, <1>2, LookupKept DEF LInv

LEMMA OpenCacheInv == LInv /\ OpenCache => LInv'
<1> SUFFICES ASSUME LInv, OpenCache PROVE LInv'
  OBVIOUS
<1>1. /\ stage = "walk" /\ at <= Len(paths) /\ paths[at].kind = "cache"
      /\ UNCHANGED <<world, paths, seen, query>> /\ UNCHANGED lookupVars
  BY DEF OpenCache, lookupVars
<1>2. CASE world.disk = Absent
  BY <1>1, <1>2, GiveUpInv DEF OpenCache
<1>3. CASE world.disk # Absent
  <2>1. fd' = world.disk /\ stage' = "read" /\ at' = at
    BY <1>3 DEF OpenCache
  <2>2. fd' \in Caches \cup {Damaged}
    BY <1>3, <2>1, WorldTypes DEF LInv
  <2>3. /\ \A s \in 1 .. at - 1 : paths[s].kind # "cache"
        /\ \A s \in 1 .. at' - 1 : Fruitless(s)'
        /\ at' \in 1 .. Len(paths') + 1 /\ at' <= Len(paths') /\ paths'[at'].kind = "cache"
        /\ PathsInv' /\ world' \in Systems
    BY <1>1, <2>1, StayAtCache
  <2>4. Fresh'
    BY <1>1, <2>3 DEF LInv, WalkInv, Fresh, lookupVars
  <2>5. WalkInv'
    BY <2>1, <2>2, <2>3, <2>4 DEF WalkInv
  <2>6. QED
    BY <1>1, <2>1, <2>3, <2>5, LookupKept DEF LInv
<1>4. QED
  BY <1>2, <1>3

LEMMA ReadCacheInv == LInv /\ ReadCache => LInv'
<1> SUFFICES ASSUME LInv, ReadCache PROVE LInv'
  OBVIOUS
<1>1. /\ stage = "read" /\ stage' = "walk" /\ fd # Damaged /\ cache' = fd /\ ldCache' = "loaded"
      /\ UNCHANGED <<world, paths, seen, at, query>>
      /\ UNCHANGED <<pc, descending, left, right, start, i, answer>>
  BY DEF ReadCache
<1>2. at <= Len(paths) /\ paths[at].kind = "cache" /\ fd \in Caches
  BY <1>1 DEF LInv, WalkInv
<1>3. /\ \A s \in 1 .. at - 1 : paths[s].kind # "cache"
      /\ \A s \in 1 .. at' - 1 : Fruitless(s)'
      /\ at' \in 1 .. Len(paths') + 1 /\ at' <= Len(paths') /\ paths'[at'].kind = "cache"
      /\ PathsInv' /\ world' \in Systems
  BY <1>1, <1>2, StayAtCache
<1>4. Fresh'
  BY <1>1, <1>3 DEF LInv, WalkInv, Fresh
<1>5. cache' \in Seq(Entries) /\ query' \in Names
  BY <1>1, <1>2, LdCacheAssumption DEF LInv, Inv, TypeOK
<1>6. Inv'
  <2>1. (cache \in Seq(Entries) /\ query \in Names /\ Fresh => Inv)'
    BY FreshInv, PTL
  <2>2. QED
    BY <1>4, <1>5, <2>1
<1>7. WalkInv'
  BY <1>1, <1>3, <1>4 DEF WalkInv
<1>8. QED
  BY <1>1, <1>3, <1>6, <1>7 DEF LInv

LEMMA LookupInv == LInv /\ Lookup => LInv'
<1> SUFFICES ASSUME LInv, Lookup PROVE LInv'
  OBVIOUS
<1>1. /\ stage = "lookup" /\ stage' = stage /\ ldCache' = ldCache /\ Next
      /\ UNCHANGED <<world, paths, seen, at>>
  BY DEF Lookup, searchVars
<1>2. Inv' /\ query' = query
  BY <1>1, InvStep, TypeStep DEF LInv, Inv
<1>3. at <= Len(paths) /\ paths[at].kind = "cache" /\ ldCache = "loaded"
  BY <1>1 DEF LInv, WalkInv
<1>4. /\ \A s \in 1 .. at' - 1 : Fruitless(s)'
      /\ at' \in 1 .. Len(paths') + 1 /\ at' <= Len(paths') /\ paths'[at'].kind = "cache"
      /\ PathsInv' /\ world' \in Systems
  BY <1>1, <1>2, <1>3, StayAtCache
<1>5. WalkInv'
  BY <1>1, <1>3, <1>4 DEF WalkInv
<1>6. QED
  BY <1>1, <1>2, <1>4, <1>5 DEF LInv

\* Nothing is asked of the walk between two searches.
LEMMA IdleInv ==
    ASSUME Inv', PathsInv', world' \in Systems, stage' = "idle"
    PROVE  LInv'
<1>1. WalkInv'
  BY DEF WalkInv
<1>2. QED
  BY <1>1 DEF LInv

LEMMA ReturnFoundInv == LInv /\ ReturnFound => LInv'
<1> SUFFICES ASSUME LInv, ReturnFound PROVE LInv'
  OBVIOUS
<1>1. /\ stage = "ended" /\ stage' = "idle"
      /\ UNCHANGED <<world, paths, ldCache, fd, at, found, seen, lookupVars>>
  BY DEF ReturnFound
<1>2. PathsInv'
  BY <1>1 DEF LInv, PathsInv
<1>3. QED
  BY <1>1, <1>2, IdleInv, LookupKept DEF LInv

\* The system after a change is a system.
LEMMA ChangedWorld ==
    ASSUME NEW w \in Systems, NEW v, v = [w EXCEPT !.changes = @ - 1], w.changes > 0
    PROVE  /\ v \in Systems
           /\ v.files = w.files /\ v.rpath = w.rpath /\ v.runpath = w.runpath
           /\ v.environ = w.environ
<1>1. w.changes \in Nat /\ w.changes - 1 \in Nat
  BY DEF Systems
<1>2. QED
  BY <1>1 DEF Systems

\* What a change makes of the system before it is counted.
LEMMA ReplacedWorld ==
    ASSUME world \in Systems
    PROVE  /\ \A d \in NewDisks :
                LET w == [world EXCEPT !.disk = d]
                IN  /\ w \in Systems /\ w.changes = world.changes
                    /\ w.files = world.files /\ w.rpath = world.rpath
                    /\ w.runpath = world.runpath
           /\ \A p \in NewFiles :
                LET w == [world EXCEPT !.files = SymDiff(@, {p})]
                IN  w \in Systems /\ w.changes = world.changes
           /\ \A e \in NewEnvirons :
                LET w == [world EXCEPT !.environ = e]
                IN  w \in Systems /\ w.changes = world.changes
<1>1. \A d \in NewDisks : d \in Caches \cup {Absent, Damaged}
  BY WorldsAssumption
<1>2. \A p \in NewFiles : SymDiff(world.files, {p}) \in SUBSET Files
  BY WorldTypes, WorldsAssumption DEF SymDiff
<1>3. \A e \in NewEnvirons : e \in Environs
  BY WorldsAssumption
<1>4. ASSUME NEW d \in NewDisks
      PROVE  LET w == [world EXCEPT !.disk = d]
             IN  /\ w \in Systems /\ w.changes = world.changes
                 /\ w.files = world.files /\ w.rpath = world.rpath /\ w.runpath = world.runpath
  BY <1>1 DEF Systems
<1>5. ASSUME NEW p \in NewFiles
      PROVE  LET w == [world EXCEPT !.files = SymDiff(@, {p})]
             IN  w \in Systems /\ w.changes = world.changes
  BY <1>2 DEF Systems
<1>6. ASSUME NEW e \in NewEnvirons
      PROVE  LET w == [world EXCEPT !.environ = e]
             IN  w \in Systems /\ w.changes = world.changes
  BY <1>3 DEF Systems
<1>7. QED
  BY <1>4, <1>5, <1>6

\* A change of the system between two searches.
LEMMA ChangedIdleInv ==
    ASSUME LInv, stage = "idle", NEW w \in Systems, w.changes = world.changes, Changed(w)
    PROVE  LInv'
<1>1. /\ world' = [w EXCEPT !.changes = @ - 1] /\ w.changes > 0
      /\ UNCHANGED <<paths, ldCache, fd, stage, at, found, seen, lookupVars>>
  BY DEF Changed
<1>2. world' \in Systems
  BY <1>1, ChangedWorld
<1>3. PathsInv'
  BY <1>1 DEF LInv, PathsInv
<1>4. QED
  BY <1>1, <1>2, <1>3, IdleInv, LookupKept DEF LInv

LEMMA ChangeFileInv == LInv /\ ChangeFile => LInv'
<1> SUFFICES ASSUME LInv, ChangeFile PROVE LInv'
  OBVIOUS
<1>1. PICK p \in NewFiles : Changed([world EXCEPT !.files = SymDiff(@, {p})])
  BY DEF ChangeFile
<1>2. QED
  BY <1>1, ReplacedWorld, ChangedIdleInv DEF ChangeFile, LInv

LEMMA SetenvInv == LInv /\ Setenv => LInv'
<1> SUFFICES ASSUME LInv, Setenv PROVE LInv'
  OBVIOUS
<1>1. PICK e \in NewEnvirons : Changed([world EXCEPT !.environ = e])
  BY DEF Setenv
<1>2. QED
  BY <1>1, ReplacedWorld, ChangedIdleInv DEF Setenv, LInv

\* A step that only replaces the file of the cache, or nothing at all, leaves a search
\* where it is.
LEMMA SameSearch ==
    ASSUME LInv, world' \in Systems, world'.files = world.files,
           world'.rpath = world.rpath, world'.runpath = world.runpath,
           UNCHANGED <<paths, ldCache, fd, stage, at, found, seen, lookupVars>>
    PROVE  LInv'
<1>1. PathsInv'
  BY DEF LInv, PathsInv
<1>2. CASE stage = "idle"
  BY <1>1, <1>2, IdleInv, LookupKept DEF LInv
<1>3. CASE stage # "idle"
  <2>1. \A s \in 1 .. at' - 1 : Fruitless(s)'
    BY <1>3, UnderWay, FruitlessKept DEF lookupVars
  <2>2. stage = "ended" =>
          IF at' = Len(paths') + 1 THEN found' = NoPath ELSE FoundIn(at)'
    <3>1. PICK k : k = at
      OBVIOUS
    <3>2. FoundIn(k) => FoundIn(k)'
      BY FoundInKept DEF lookupVars
    <3>3. FoundIn(k)' => FoundIn(at)'
      BY <3>1 DEF FoundIn
    <3>4. QED
      BY <3>1, <3>2, <3>3 DEF LInv, WalkInv
  <2>3. Fresh => Fresh'
    BY DEF Fresh, lookupVars
  <2>4. WalkInv'
    BY <2>1, <2>2, <2>3 DEF LInv, WalkInv
  <2>5. QED
    BY <1>1, <2>4, LookupKept DEF LInv
<1>4. QED
  BY <1>2, <1>3

LEMMA LdconfigInv == LInv /\ Ldconfig => LInv'
<1> SUFFICES ASSUME LInv, Ldconfig PROVE LInv'
  OBVIOUS
<1>1. PICK d \in NewDisks : Changed([world EXCEPT !.disk = d])
  BY DEF Ldconfig
<1> DEFINE w == [world EXCEPT !.disk = d]
<1>2. /\ w \in Systems /\ w.changes = world.changes
      /\ w.files = world.files /\ w.rpath = world.rpath /\ w.runpath = world.runpath
  BY ReplacedWorld DEF LInv
<1>3. /\ world' = [w EXCEPT !.changes = @ - 1] /\ world.changes > 0
      /\ UNCHANGED <<paths, ldCache, fd, stage, at, found, seen, lookupVars>>
  BY <1>1 DEF Changed
<1> HIDE DEF w
<1>4. /\ world' \in Systems /\ world'.files = world.files
      /\ world'.rpath = world.rpath /\ world'.runpath = world.runpath
  BY <1>2, <1>3, ChangedWorld
<1>5. QED
  BY <1>3, <1>4, SameSearch

\* The first dlopen makes the list of the sources, a later one finds it.
LEMMA DlopenInv ==
    ASSUME LInv, NEW n \in Names, Dlopen(n)
    PROVE  LInv'
<1>1. /\ stage = "idle" /\ world.calls > 0 /\ world' = [world EXCEPT !.calls = @ - 1]
      /\ query' = n /\ cache' = cache /\ stage' = "walk" /\ at' = 1 /\ Fresh'
      /\ paths' = IF paths = Unset THEN SearchPaths(world.environ) ELSE paths
      /\ seen' = IF paths = Unset THEN world.environ ELSE seen
  BY DEF Dlopen, Fresh
<1>2. world' \in Systems
  <2>1. world.calls - 1 \in Nat
    BY <1>1, WorldTypes DEF LInv
  <2>2. QED
    BY <1>1, <2>1 DEF LInv, Systems
<1>3. seen' \in Environs /\ paths' = SearchPaths(seen')
  BY <1>1, WorldTypes DEF LInv, PathsInv
<1>4. PathsInv'
  <2>1. SearchPaths(seen') = SearchPaths(seen)'
    BY DEF SearchPaths
  <2>2. QED
    BY <1>3, <2>1 DEF PathsInv
<1>5. Inv'
  <2>1. cache' \in Seq(Entries) /\ query' \in Names
    BY <1>1 DEF LInv, Inv, TypeOK
  <2>2. (cache \in Seq(Entries) /\ query \in Names /\ Fresh => Inv)'
    BY FreshInv, PTL
  <2>3. QED
    BY <1>1, <2>1, <2>2
<1>6. WalkInv'
  <2>1. Len(paths') \in Nat
    BY <1>3, PathsAre
  <2>2. at' \in 1 .. Len(paths') + 1 /\ \A s \in 1 .. at' - 1 : FALSE
    BY <1>1, <2>1
  <2>3. QED
    BY <1>1, <2>2 DEF WalkInv
<1>7. QED
  BY <1>1, <1>2, <1>4, <1>5, <1>6 DEF LInv

LEMMA LInitInv == LInit => LInv
<1> SUFFICES ASSUME LInit PROVE LInv
  OBVIOUS
<1>1. query \in Names /\ cache \in Seq(Entries) /\ Fresh
  <2>1. (CHOOSE m \in Names : TRUE) \in Names
    BY WorldsAssumption
  <2>2. QED
    BY <2>1 DEF LInit, Fresh
<1>2. Inv
  BY <1>1, FreshInv
<1>3. world \in Systems /\ stage = "idle" /\ paths = Unset
  BY WorldsAssumption DEF LInit
<1>4. QED
  BY <1>2, <1>3 DEF LInv, PathsInv, WalkInv

LEMMA LInvStep == LInv /\ [LNext]_lvars => LInv'
<1> SUFFICES ASSUME LInv, [LNext]_lvars PROVE LInv'
  OBVIOUS
<1>1. CASE Search
  BY <1>1, TryDirsInv, AskCacheInv, SkipCacheInv, OpenCacheInv, ReadCacheInv, ReadFailsInv,
     LookupInv, TryCandidateInv, FindLibErrorInv DEF Search
<1>2. CASE ReturnFound \/ Ldconfig \/ ChangeFile \/ Setenv
  BY <1>2, ReturnFoundInv, LdconfigInv, ChangeFileInv, SetenvInv
<1>3. CASE \E n \in Names : Dlopen(n)
  BY <1>3, DlopenInv
<1>4. CASE UNCHANGED lvars
  BY <1>4, SameSearch DEF lvars, searchVars, LInv
<1>5. QED
  BY <1>1, <1>2, <1>3, <1>4 DEF LNext

-----------------------------------------------------------------------------
(* What the walk finds.                                                    *)

LibraryPath == get_env(seen, "LD_LIBRARY_PATH")

\* The place c is in the source s; g tells where the directories of LD_LIBRARY_PATH that
\* were pushed are in it.
IsIn(c, s, g) ==
    LET n == Len(EnvDirs(seen))
    IN  \/ /\ c.rank = 1 /\ s = 1
           /\ c.place \in DOMAIN world.rpath /\ c.path = <<world.rpath[c.place], query>>
        \/ /\ c.rank = 2
           /\ \E j \in 1 .. n : /\ s = 1 + j /\ c.place = g[j]
                                /\ c.path = <<EnvDirs(seen)[j], query>>
        \/ /\ c.rank = 3 /\ s = n + 2
           /\ c.place \in DOMAIN world.runpath /\ c.path = <<world.runpath[c.place], query>>
        \/ /\ c.rank = 4 /\ s = n + 3
           /\ c.place = 1 /\ ldCache = "loaded" /\ c.path = answer
        \/ /\ c.rank = 5 /\ c.place \in DOMAIN Defaults /\ s = n + 3 + c.place
           /\ c.path = <<Defaults[c.place], query>>

\* What LD_LIBRARY_PATH is, and what was pushed of it.
LEMMA EnvDirsAre ==
    ASSUME seen \in Environs, NEW g,
           Picks(LibraryPath, EnvDirs(seen), g, Len(LibraryPath))
    PROVE  LET n == Len(EnvDirs(seen))
           IN  /\ n \in Nat /\ g \in [1 .. n -> 1 .. Len(LibraryPath)]
               /\ DOMAIN LibraryPath = 1 .. Len(LibraryPath)
               /\ \A j \in 1 .. n : /\ EnvDirs(seen)[j] = LibraryPath[g[j]]
                                    /\ EnvDirs(seen)[j] # ""
               /\ \A m \in 1 .. Len(LibraryPath) :
                    LibraryPath[m] # "" => \E k \in 1 .. n : g[k] = m
<1> DEFINE E == EnvDirs(seen)
           V == LibraryPath
<1>1. V \in Seq(STRING) /\ E \in Seq(STRING)
  BY GetEnvIs DEF LibraryPath, Picks
<1> HIDE DEF V, E
<1>2. Picks(V, E, g, Len(V))
  BY DEF V, E
<1>3. Len(E) \in Nat /\ DOMAIN V = 1 .. Len(V)
  BY <1>1
<1>4. /\ g \in [1 .. Len(E) -> 1 .. Len(V)]
      /\ \A j \in 1 .. Len(E) : E[j] = V[g[j]] /\ E[j] # ""
      /\ \A m \in 1 .. Len(V) : V[m] # "" => \E k \in 1 .. Len(E) : g[k] = m
  BY <1>2 DEF Picks
<1>5. QED
  BY <1>3, <1>4 DEF V, E

\* A directory that was pushed is a candidate.
LEMMA PushedIsCandidate ==
    ASSUME seen \in Environs, NEW g,
           Picks(LibraryPath, EnvDirs(seen), g, Len(LibraryPath)),
           NEW j \in 1 .. Len(EnvDirs(seen))
    PROVE  [rank |-> 2, place |-> g[j], path |-> <<EnvDirs(seen)[j], query>>] \in Candidates
<1> DEFINE E == EnvDirs(seen)
           V == LibraryPath
           In(rank, dirs) ==
             {[rank |-> rank, place |-> k, path |-> <<dirs[k], query>>] : k \in DOMAIN dirs}
           first == {k \in DOMAIN seen : seen[k].key = "LD_LIBRARY_PATH"
                                         /\ \A m \in 1 .. k - 1 : seen[m].key # "LD_LIBRARY_PATH"}
<1>1. /\ \A k : IsFirst(seen, k, "LD_LIBRARY_PATH") => V = seen[k].value
      /\ (\A k : ~ IsFirst(seen, k, "LD_LIBRARY_PATH")) => V = <<>>
  BY GetEnvIs DEF LibraryPath
<1>2. {c \in UNION {In(2, seen[k].value) : k \in first} : c.path[1] # ""} \subseteq Candidates
  BY DEF Candidates
<1>3. \A k : k \in first <=> IsFirst(seen, k, "LD_LIBRARY_PATH")
  BY DEF IsFirst
<1>4. g[j] \in 1 .. Len(V) /\ DOMAIN V = 1 .. Len(V) /\ E[j] = V[g[j]] /\ E[j] # ""
  BY EnvDirsAre
<1> HIDE DEF E, V, first
<1>5. PICK k : k \in first /\ V = seen[k].value
  <2>1. V # <<>>
    <3>1. Len(<<>>) = 0 /\ 1 .. 0 = {}
      OBVIOUS
    <3>2. QED
      BY <1>4, <3>1, Zenon
  <2>2. QED
    BY <1>1, <1>3, <2>1
<1> DEFINE c == [rank |-> 2, place |-> g[j], path |-> <<V[g[j]], query>>]
<1>6. c \in In(2, seen[k].value)
  BY <1>4, <1>5
<1>7. c.path[1] # ""
  BY <1>4
<1>8. c \in UNION {In(2, seen[m].value) : m \in first}
  BY <1>5, <1>6
<1> HIDE DEF c
<1>9. c \in Candidates
  BY <1>2, <1>7, <1>8
<1>10. QED
  BY <1>4, <1>9 DEF c, E

\* The first LD_LIBRARY_PATH has the directory d at p.
Named(d, p, k) ==
    /\ IsFirst(seen, k, "LD_LIBRARY_PATH")
    /\ p \in DOMAIN seen[k].value /\ seen[k].value[p] = d /\ d # ""

\* A directory of the first LD_LIBRARY_PATH that is not empty was pushed.
LEMMA NamedIsPushed ==
    ASSUME seen \in Environs, NEW g,
           Picks(LibraryPath, EnvDirs(seen), g, Len(LibraryPath)),
           NEW k, NEW p, NEW d, Named(d, p, k)
    PROVE  \E j \in 1 .. Len(EnvDirs(seen)) : g[j] = p /\ EnvDirs(seen)[j] = d
<1>1. LibraryPath = seen[k].value
  BY GetEnvIs DEF LibraryPath, Named
<1>2. p \in 1 .. Len(LibraryPath) /\ LibraryPath[p] # "" /\ LibraryPath[p] = d
  BY <1>1, EnvDirsAre DEF Named
<1>3. PICK j \in 1 .. Len(EnvDirs(seen)) : g[j] = p
  BY <1>2, EnvDirsAre
<1>4. EnvDirs(seen)[j] = LibraryPath[p]
  BY <1>3, EnvDirsAre
<1>5. QED
  BY <1>2, <1>3, <1>4

\* Every candidate is in a source.
LEMMA CandidateIsIn ==
    ASSUME seen \in Environs, paths = SearchPaths(seen), NEW g,
           Picks(LibraryPath, EnvDirs(seen), g, Len(LibraryPath)), NEW c \in Candidates
    PROVE  \E s \in 1 .. Len(paths) : IsIn(c, s, g)
<1> DEFINE n == Len(EnvDirs(seen))
           m == Len(Defaults)
           In(rank, dirs) ==
             {[rank |-> rank, place |-> k, path |-> <<dirs[k], query>>] : k \in DOMAIN dirs}
           first == {k \in DOMAIN seen : seen[k].key = "LD_LIBRARY_PATH"
                                         /\ \A j \in 1 .. k - 1 : seen[j].key # "LD_LIBRARY_PATH"}
<1>1. n \in Nat /\ m \in Nat /\ Len(paths) = n + 3 + m /\ DOMAIN Defaults = 1 .. m
  BY PathsAre, WorldsAssumption
<1>2. /\ 1 \in 1 .. n + 3 + m /\ n + 2 \in 1 .. n + 3 + m /\ n + 3 \in 1 .. n + 3 + m
      /\ \A j \in 1 .. n : 1 + j \in 1 .. n + 3 + m
      /\ \A k \in 1 .. m : n + 3 + k \in 1 .. n + 3 + m
  <2> HIDE DEF n, m
  <2>1. QED
    BY <1>1
<1>3. \/ c \in In(1, world.rpath)
      \/ \E k \in first : c \in In(2, seen[k].value) /\ c.path[1] # ""
      \/ c \in In(3, world.runpath)
      \/ ldCache = "loaded" /\ c = [rank |-> 4, place |-> 1, path |-> answer]
      \/ c \in In(5, Defaults)
  BY DEF Candidates
<1>4. CASE c \in In(1, world.rpath)
  <2>1. IsIn(c, 1, g)
    BY <1>4 DEF IsIn
  <2>2. QED
    BY <1>1, <1>2, <2>1
<1>5. CASE \E k \in first : c \in In(2, seen[k].value) /\ c.path[1] # ""
  <2>1. PICK k \in first : c \in In(2, seen[k].value) /\ c.path[1] # ""
    BY <1>5
  <2>2. PICK p \in DOMAIN seen[k].value :
          c = [rank |-> 2, place |-> p, path |-> <<seen[k].value[p], query>>]
    BY <2>1
  <2>3. seen[k].value[p] # ""
    BY <2>1, <2>2
  <2>4. IsFirst(seen, k, "LD_LIBRARY_PATH")
    BY DEF IsFirst
  <2>5. PICK j \in 1 .. n : g[j] = p /\ EnvDirs(seen)[j] = seen[k].value[p]
    <3>1. Named(seen[k].value[p], p, k)
      BY <2>3, <2>4 DEF Named
    <3>2. QED
      BY <3>1, NamedIsPushed
  <2>6. c.rank = 2 /\ c.place = g[j] /\ c.path = <<EnvDirs(seen)[j], query>>
    BY <2>2, <2>5
  <2>7. IsIn(c, 1 + j, g)
    BY <2>6 DEF IsIn
  <2>8. QED
    BY <1>1, <1>2, <2>7
<1>6. CASE c \in In(3, world.runpath)
  <2>1. IsIn(c, n + 2, g)
    BY <1>6 DEF IsIn
  <2>2. QED
    BY <1>1, <1>2, <2>1
<1>7. CASE ldCache = "loaded" /\ c = [rank |-> 4, place |-> 1, path |-> answer]
  <2>1. IsIn(c, n + 3, g)
    BY <1>7 DEF IsIn
  <2>2. QED
    BY <1>1, <1>2, <2>1
<1>8. CASE c \in In(5, Defaults)
  <2>1. PICK k \in DOMAIN Defaults :
          c = [rank |-> 5, place |-> k, path |-> <<Defaults[k], query>>]
    BY <1>8
  <2>2. IsIn(c, n + 3 + k, g)
    BY <2>1 DEF IsIn
  <2>3. QED
    BY <1>1, <1>2, <2>1, <2>2
<1>9. QED
  BY <1>3, <1>4, <1>5, <1>6, <1>7, <1>8

\* A source without a file has no candidate that is there.
LEMMA FruitlessHasNone ==
    ASSUME seen \in Environs, paths = SearchPaths(seen), NEW g, NEW c, NEW s, IsIn(c, s, g),
           Fruitless(s)
    PROVE  c.path \notin world.files
<1> DEFINE E == EnvDirs(seen)
           n == Len(E)
           m == Len(Defaults)
<1>1. /\ n \in Nat /\ m \in Nat /\ Len(paths) = n + 3 + m
      /\ paths[1] = [kind |-> "rpath"]
      /\ \A k \in 1 .. n : paths[1 + k] = FixedDir(E[k])
      /\ paths[n + 2] = [kind |-> "runpath"]
      /\ paths[n + 3] = [kind |-> "cache"]
      /\ \A k \in 1 .. m : paths[n + 3 + k] = FixedDir(Defaults[k])
  BY PathsAre
<1>2. \/ /\ s = 1
         /\ c.place \in DOMAIN world.rpath /\ c.path = <<world.rpath[c.place], query>>
      \/ \E j \in 1 .. n : s = 1 + j /\ c.path = <<E[j], query>>
      \/ /\ s = n + 2
         /\ c.place \in DOMAIN world.runpath /\ c.path = <<world.runpath[c.place], query>>
      \/ s = n + 3 /\ ldCache = "loaded" /\ c.path = answer
      \/ /\ c.place \in 1 .. m /\ s = n + 3 + c.place
         /\ c.path = <<Defaults[c.place], query>>
  BY WorldsAssumption DEF IsIn
<1>3. ASSUME NEW d, paths[s] = FixedDir(d), c.path = <<d, query>>
      PROVE  c.path \notin world.files
  <2>1. paths[s].kind = "dir" /\ Dirs(paths[s]) = <<d>>
    BY <1>3 DEF FixedDir, Dirs
  <2>2. 1 \in DOMAIN <<d>> /\ <<d>>[1] = d
    OBVIOUS
  <2>3. QED
    BY <1>3, <2>1, <2>2 DEF Fruitless
<1> HIDE DEF n, m, E
<1>4. CASE /\ s = 1
           /\ c.place \in DOMAIN world.rpath /\ c.path = <<world.rpath[c.place], query>>
  <2>1. paths[s].kind = "rpath" /\ Dirs(paths[s]) = world.rpath
    BY <1>1, <1>4 DEF Dirs
  <2>2. QED
    BY <1>4, <2>1 DEF Fruitless
<1>5. CASE \E j \in 1 .. n : s = 1 + j /\ c.path = <<E[j], query>>
  BY <1>1, <1>3, <1>5
<1>6. CASE /\ s = n + 2
           /\ c.place \in DOMAIN world.runpath /\ c.path = <<world.runpath[c.place], query>>
  <2>1. paths[s].kind = "runpath" /\ Dirs(paths[s]) = world.runpath
    BY <1>1, <1>6 DEF Dirs
  <2>2. QED
    BY <1>6, <2>1 DEF Fruitless
<1>7. CASE s = n + 3 /\ ldCache = "loaded" /\ c.path = answer
  BY <1>1, <1>7 DEF Fruitless
<1>8. CASE /\ c.place \in 1 .. m /\ s = n + 3 + c.place
           /\ c.path = <<Defaults[c.place], query>>
  BY <1>1, <1>3, <1>8
<1>9. QED
  BY <1>2, <1>4, <1>5, <1>6, <1>7, <1>8

\* A place that precedes another is in an earlier source, or is an earlier directory of
\* the same DT_RPATH or DT_RUNPATH.
LEMMA EarlierSource ==
    ASSUME seen \in Environs, NEW g,
           Picks(LibraryPath, EnvDirs(seen), g, Len(LibraryPath)),
           world \in Systems,
           NEW c, NEW s \in Int, IsIn(c, s, g), NEW d, NEW t \in Int, IsIn(d, t, g),
           Precedes(d, c)
    PROVE  \/ t < s
           \/ d.rank = c.rank /\ d.place < c.place /\ c.rank \in {1, 3}
<1> DEFINE E == EnvDirs(seen)
           n == Len(E)
           m == Len(Defaults)
<1>1. /\ n \in Nat /\ m \in Nat /\ g \in [1 .. n -> 1 .. Len(LibraryPath)]
      /\ \A j, k \in 1 .. n : j < k => g[j] < g[k]
      /\ Len(LibraryPath) \in Nat
  <2>1. LibraryPath \in Seq(STRING) /\ Defaults \in Seq(STRING)
    BY GetEnvIs, WorldsAssumption DEF LibraryPath
  <2>2. Len(LibraryPath) \in Nat /\ m \in Nat
    BY <2>1, LenProperties
  <2>3. n \in Nat /\ g \in [1 .. n -> 1 .. Len(LibraryPath)]
    BY EnvDirsAre
  <2>4. \A j, k \in 1 .. n : j < k => g[j] < g[k]
    BY DEF Picks
  <2>5. QED
    BY <2>2, <2>3, <2>4
<1>2. DOMAIN Defaults = 1 .. m
  BY WorldsAssumption
<1> DEFINE Spot(x, u) ==
             \/ x.rank = 1 /\ u = 1
             \/ x.rank = 2 /\ \E j \in 1 .. n : u = 1 + j /\ x.place = g[j]
             \/ x.rank = 3 /\ u = n + 2
             \/ x.rank = 4 /\ u = n + 3 /\ x.place = 1
             \/ x.rank = 5 /\ x.place \in 1 .. m /\ u = n + 3 + x.place
<1>3. Spot(c, s) /\ Spot(d, t)
  BY <1>2 DEF IsIn
<1>4. d.rank < c.rank \/ (d.rank = c.rank /\ d.place < c.place)
  BY DEF Precedes
<1> HIDE DEF n, m, E
<1>5. ASSUME NEW x, NEW u, Spot(x, u)
      PROVE  \/ x.rank = 1 /\ u = 1
             \/ x.rank = 2 /\ u \in 2 .. n + 1
             \/ x.rank = 3 /\ u = n + 2
             \/ x.rank = 4 /\ u = n + 3 /\ x.place = 1
             \/ x.rank = 5 /\ u > n + 3 /\ x.place \in 1 .. m /\ u = n + 3 + x.place
  <2>1. CASE x.rank = 2 /\ \E j \in 1 .. n : u = 1 + j /\ x.place = g[j]
    <3>1. u \in 2 .. n + 1
      BY <1>1, <2>1
    <3>2. QED
      BY <2>1, <3>1
  <2>2. CASE x.rank = 5 /\ x.place \in 1 .. m /\ u = n + 3 + x.place
    <3>1. u > n + 3
      BY <1>1, <2>2
    <3>2. QED
      BY <2>2, <3>1
  <2>3. QED
    BY <1>5, <2>1, <2>2
<1>6. CASE d.rank < c.rank
  <2>1. t < s
    <3> DEFINE a == d.rank
               b == c.rank
    <3>1. \/ a = 1 /\ t = 1
          \/ a = 2 /\ t \in 2 .. n + 1
          \/ a = 3 /\ t = n + 2
          \/ a = 4 /\ t = n + 3
          \/ a = 5 /\ t > n + 3
      BY <1>3, <1>5
    <3>2. \/ b = 1 /\ s = 1
          \/ b = 2 /\ s \in 2 .. n + 1
          \/ b = 3 /\ s = n + 2
          \/ b = 4 /\ s = n + 3
          \/ b = 5 /\ s > n + 3
      BY <1>3, <1>5
    <3>3. a < b
      BY <1>6
    <3> HIDE DEF a, b, Spot
    <3>4. QED
      BY <1>1, <3>1, <3>2, <3>3
  <2>2. QED
    BY <2>1
<1>7. CASE d.rank = c.rank /\ d.place < c.place
  <2>1. CASE c.rank \in {1, 3}
    BY <1>7, <2>1
  <2>2. CASE c.rank = 2
    <3>1. PICK j \in 1 .. n : s = 1 + j /\ c.place = g[j]
      BY <1>3, <2>2
    <3>2. PICK k \in 1 .. n : t = 1 + k /\ d.place = g[k]
      BY <1>3, <1>7, <2>2
    <3>3. g[k] < g[j] /\ g[j] \in Nat /\ g[k] \in Nat
      BY <1>1, <1>7, <3>1, <3>2
    <3>4. ~ (j < k) /\ j # k
      BY <1>1, <3>3
    <3>5. QED
      BY <1>1, <3>1, <3>2, <3>4
  <2>3. CASE c.rank = 4
    <3>1. c.place = 1 /\ d.place = 1
      BY <1>3, <1>7, <2>3
    <3>2. QED
      BY <1>7, <3>1
  <2>4. CASE c.rank = 5
    <3>1. /\ c.place \in 1 .. m /\ s = n + 3 + c.place
          /\ d.place \in 1 .. m /\ t = n + 3 + d.place
      BY <1>3, <1>7, <2>4
    <3>2. QED
      BY <1>1, <1>7, <3>1
  <2>5. c.rank \in {1, 2, 3, 4, 5}
    BY <1>3
  <2>6. QED
    BY <2>1, <2>2, <2>3, <2>4, <2>5
<1>8. QED
  BY <1>4, <1>6, <1>7

\* What a search found in a source is the first candidate of that source that is there.
LEMMA FoundIsCandidate ==
    ASSUME seen \in Environs, paths = SearchPaths(seen), world \in Systems, NEW g,
           Picks(LibraryPath, EnvDirs(seen), g, Len(LibraryPath)),
           NEW s \in 1 .. Len(paths), FoundIn(s)
    PROVE  \E c \in Candidates :
             /\ IsIn(c, s, g) /\ found = c.path /\ found \in world.files
             /\ \A d \in Candidates :
                  d.rank = c.rank /\ d.place < c.place /\ c.rank \in {1, 3}
                    => d.path \notin world.files
<1> DEFINE E == EnvDirs(seen)
           n == Len(E)
           m == Len(Defaults)
           In(rank, dirs) ==
             {[rank |-> rank, place |-> k, path |-> <<dirs[k], query>>] : k \in DOMAIN dirs}
<1>1. /\ n \in Nat /\ m \in Nat /\ Len(paths) = n + 3 + m
      /\ paths[1] = [kind |-> "rpath"]
      /\ \A k \in 1 .. n : paths[1 + k] = FixedDir(E[k])
      /\ paths[n + 2] = [kind |-> "runpath"]
      /\ paths[n + 3] = [kind |-> "cache"]
      /\ \A k \in 1 .. m : paths[n + 3 + k] = FixedDir(Defaults[k])
  BY PathsAre
<1>2. \/ s = 1 \/ (\E k \in 1 .. n : s = 1 + k) \/ s = n + 2 \/ s = n + 3
      \/ \E k \in 1 .. m : s = n + 3 + k
  <2>1. s \in 1 .. n + 3 + m
    BY <1>1
  <2> HIDE DEF n, m, E
  <2>2. CASE 2 <= s /\ s <= n + 1
    <3>1. s - 1 \in 1 .. n /\ s = 1 + (s - 1)
      BY <1>1, <2>1, <2>2
    <3>2. QED
      BY <3>1
  <2>3. CASE s > n + 3
    <3>1. s - (n + 3) \in 1 .. m /\ s = n + 3 + (s - (n + 3))
      BY <1>1, <2>1, <2>3
    <3>2. QED
      BY <3>1
  <2>4. QED
    BY <1>1, <2>1, <2>2, <2>3
<1>3. /\ In(1, world.rpath) \subseteq Candidates /\ In(3, world.runpath) \subseteq Candidates
      /\ In(5, Defaults) \subseteq Candidates
      /\ ldCache = "loaded" => [rank |-> 4, place |-> 1, path |-> answer] \in Candidates
  BY DEF Candidates
<1>4. ASSUME NEW r \in {1, 3}, NEW dirs \in Seq(STRING), paths[s].kind # "cache",
             Dirs(paths[s]) = dirs
      PROVE  \E k \in DOMAIN dirs :
               /\ found = <<dirs[k], query>> /\ found \in world.files
               /\ \A j \in DOMAIN dirs : j < k => <<dirs[j], query>> \notin world.files
  BY <1>4, HitIs DEF FoundIn
<1>5. ASSUME NEW d \in Candidates
      PROVE  /\ d.rank = 1 => /\ d.place \in DOMAIN world.rpath
                              /\ d.path = <<world.rpath[d.place], query>>
             /\ d.rank = 3 => /\ d.place \in DOMAIN world.runpath
                              /\ d.path = <<world.runpath[d.place], query>>
  <2>1. PICK t : IsIn(d, t, g)
    BY CandidateIsIn
  <2>2. QED
    BY <2>1 DEF IsIn
<1>6. CASE s = 1
  <2>1. paths[s].kind # "cache" /\ Dirs(paths[s]) = world.rpath
    BY <1>1, <1>6 DEF Dirs
  <2>2. PICK k \in DOMAIN world.rpath :
               /\ found = <<world.rpath[k], query>> /\ found \in world.files
               /\ \A j \in DOMAIN world.rpath : j < k => <<world.rpath[j], query>> \notin world.files
    BY <1>4, <2>1, WorldTypes
  <2> DEFINE c == [rank |-> 1, place |-> k, path |-> <<world.rpath[k], query>>]
  <2>3. c \in Candidates /\ c.rank = 1 /\ c.place = k /\ c.path = <<world.rpath[k], query>>
    BY <1>3
  <2>4. ASSUME NEW d \in Candidates, d.rank = 1, d.place < k PROVE d.path \notin world.files
    BY <1>5, <2>2, <2>4
  <2> HIDE DEF c
  <2>5. IsIn(c, s, g)
    BY <1>6, <2>3 DEF IsIn
  <2>6. QED
    BY <2>2, <2>3, <2>4, <2>5
<1>7. CASE \E k \in 1 .. n : s = 1 + k
  <2>1. PICK k \in 1 .. n : s = 1 + k
    BY <1>7
  <2>2. paths[s].kind = "dir" /\ Dirs(paths[s]) = <<E[k]>> /\ E[k] \in STRING
    <3>1. E \in Seq(STRING)
      BY DEF Picks
    <3>2. E[k] \in STRING
      BY <3>1, ElementOfSeq
    <3>3. paths[s] = FixedDir(E[k])
      BY <1>1, <2>1
    <3>4. QED
      BY <3>2, <3>3 DEF FixedDir, Dirs
  <2>3. found = <<E[k], query>> /\ found \in world.files
    <3>1. <<E[k]>> \in Seq(STRING) /\ \A u \in DOMAIN <<E[k]>> : <<E[k]>>[u] = E[k]
      BY <2>2
    <3>2. QED
      BY <1>4, <2>2, <3>1
  <2> DEFINE c == [rank |-> 2, place |-> g[k], path |-> <<E[k], query>>]
  <2>4. c \in Candidates /\ c.rank = 2 /\ c.place = g[k] /\ c.path = <<E[k], query>>
    BY PushedIsCandidate
  <2> HIDE DEF c
  <2>5. IsIn(c, s, g)
    BY <2>1, <2>4 DEF IsIn
  <2>6. QED
    BY <2>3, <2>4, <2>5
<1>8. CASE s = n + 2
  <2>1. paths[s].kind # "cache" /\ Dirs(paths[s]) = world.runpath
    BY <1>1, <1>8 DEF Dirs
  <2>2. PICK k \in DOMAIN world.runpath :
               /\ found = <<world.runpath[k], query>> /\ found \in world.files
               /\ \A j \in DOMAIN world.runpath :
                    j < k => <<world.runpath[j], query>> \notin world.files
    BY <1>4, <2>1, WorldTypes
  <2> DEFINE c == [rank |-> 3, place |-> k, path |-> <<world.runpath[k], query>>]
  <2>3. c \in Candidates /\ c.rank = 3 /\ c.place = k /\ c.path = <<world.runpath[k], query>>
    BY <1>3
  <2>4. ASSUME NEW d \in Candidates, d.rank = 3, d.place < k PROVE d.path \notin world.files
    BY <1>5, <2>2, <2>4
  <2> HIDE DEF c
  <2>5. IsIn(c, s, g)
    BY <1>8, <2>3 DEF IsIn
  <2>6. QED
    BY <2>2, <2>3, <2>4, <2>5
<1>9. CASE s = n + 3
  <2>1. ldCache = "loaded" /\ found = answer /\ found \in world.files
    BY <1>1, <1>9 DEF FoundIn
  <2> DEFINE c == [rank |-> 4, place |-> 1, path |-> answer]
  <2>2. c \in Candidates /\ c.rank = 4 /\ c.place = 1 /\ c.path = answer
    BY <1>3, <2>1
  <2> HIDE DEF c
  <2>3. IsIn(c, s, g)
    BY <1>9, <2>1, <2>2 DEF IsIn
  <2>4. QED
    BY <2>1, <2>2, <2>3
<1>10. CASE \E k \in 1 .. m : s = n + 3 + k
  <2>1. PICK k \in 1 .. m : s = n + 3 + k
    BY <1>10
  <2>2. /\ paths[s].kind = "dir" /\ Dirs(paths[s]) = <<Defaults[k]>> /\ Defaults[k] \in STRING
        /\ k \in DOMAIN Defaults
    <3>1. Defaults \in Seq(STRING)
      BY WorldsAssumption
    <3>2. Defaults[k] \in STRING /\ k \in DOMAIN Defaults
      BY <3>1, ElementOfSeq
    <3>3. paths[s] = FixedDir(Defaults[k])
      BY <1>1, <2>1
    <3>4. QED
      BY <3>2, <3>3 DEF FixedDir, Dirs
  <2>3. found = <<Defaults[k], query>> /\ found \in world.files
    <3>1. <<Defaults[k]>> \in Seq(STRING)
          /\ \A u \in DOMAIN <<Defaults[k]>> : <<Defaults[k]>>[u] = Defaults[k]
      BY <2>2
    <3>2. QED
      BY <1>4, <2>2, <3>1
  <2> DEFINE c == [rank |-> 5, place |-> k, path |-> <<Defaults[k], query>>]
  <2>4. c \in Candidates /\ c.rank = 5 /\ c.place = k /\ c.path = <<Defaults[k], query>>
    BY <1>3, <2>2
  <2> HIDE DEF c
  <2>5. IsIn(c, s, g)
    BY <2>1, <2>2, <2>4 DEF IsIn
  <2>6. QED
    BY <2>3, <2>4, <2>5
<1>11. QED
  BY <1>2, <1>6, <1>7, <1>8, <1>9, <1>10

\* Every source before the one where the search ended has nothing, so what was found
\* there is first.
LEMMA InvSearchFinds == LInv => SearchFinds
<1> SUFFICES ASSUME LInv, stage = "ended" PROVE SearchFinds
  BY DEF SearchFinds
<1> DEFINE there == {c \in Candidates : c.path \in world.files}
<1>1. /\ seen \in Environs /\ paths = SearchPaths(seen) /\ world \in Systems
      /\ Len(paths) \in Nat /\ at \in 1 .. Len(paths) + 1
      /\ \A s \in 1 .. at - 1 : Fruitless(s)
  BY UnderWay
<1>2. PICK g : Picks(LibraryPath, EnvDirs(seen), g, Len(LibraryPath))
  BY <1>1, GetEnvIs, LibraryDirsPicks DEF LibraryPath, EnvDirs
<1>3. \A c \in Candidates : \E s \in 1 .. Len(paths) : IsIn(c, s, g)
  BY <1>1, <1>2, CandidateIsIn
<1>4. ASSUME NEW c \in there, NEW s \in 1 .. Len(paths), IsIn(c, s, g)
      PROVE  ~ (s < at)
  <2>1. s < at => s \in 1 .. at - 1
    BY <1>1
  <2>2. s < at => Fruitless(s)
    BY <1>1, <2>1
  <2>3. QED
    BY <1>1, <1>4, <2>2, FruitlessHasNone
<1>5. IF at = Len(paths) + 1 THEN found = NoPath ELSE FoundIn(at)
  BY DEF LInv, WalkInv
<1>6. CASE at = Len(paths) + 1
  <2>1. ASSUME NEW c \in there PROVE FALSE
    <3>1. PICK s \in 1 .. Len(paths) : IsIn(c, s, g)
      BY <1>3
    <3>2. s < at
      BY <1>1, <1>6
    <3>3. QED
      BY <1>4, <3>1, <3>2
  <2>2. there = {} /\ found = NoPath
    BY <1>5, <1>6, <2>1
  <2>3. QED
    BY <2>2 DEF SearchFinds
<1>7. CASE at # Len(paths) + 1
  <2>1. at \in 1 .. Len(paths) /\ at \in Int
    BY <1>1, <1>7
  <2>2. PICK c \in Candidates :
          /\ IsIn(c, at, g) /\ found = c.path /\ found \in world.files
          /\ \A d \in Candidates :
               d.rank = c.rank /\ d.place < c.place /\ c.rank \in {1, 3}
                 => d.path \notin world.files
    BY <1>1, <1>2, <1>5, <1>7, <2>1, FoundIsCandidate
  <2>3. ASSUME NEW d \in there, Precedes(d, c) PROVE FALSE
    <3>1. PICK t \in 1 .. Len(paths) : IsIn(d, t, g)
      BY <1>3
    <3>2. t \in Int /\ ~ (t < at)
      BY <1>4, <3>1
    <3>3. d.rank = c.rank /\ d.place < c.place /\ c.rank \in {1, 3}
      BY <1>1, <1>2, <2>1, <2>2, <2>3, <3>1, <3>2, EarlierSource
    <3>4. QED
      BY <2>2, <3>3
  <2>4. c \in there
    BY <2>2
  <2>5. QED
    BY <2>2, <2>3, <2>4 DEF SearchFinds
<1>8. QED
  BY <1>6, <1>7

\* In every search of a process, too, lookup answers with the path of a fitting entry
\* only: what one search left behind is gone when the next begins.
THEOREM SearchSound == LSpec => []Sound
<1>1. LInv => Sound
  BY DEF LInv, Inv
<1>2. QED
  BY <1>1, LInitInv, LInvStep, PTL DEF LSpec

\* In every search lookup finds the first fitting entry of the cache that was read, if
\* that is sorted either way.
THEOREM SearchFindsFirst == LSpec => []FindsFirst
<1>1. LInv => FindsFirst
  BY DEF LInv, Inv
<1>2. QED
  BY <1>1, LInitInv, LInvStep, PTL DEF LSpec

\* A search finds the first file there is in the order DT_RPATH, LD_LIBRARY_PATH as it
\* was at the first dlopen, DT_RUNPATH, cache, default directories, and fails only if
\* there is none: for lists of every length, however the cache is damaged and whatever
\* changes between the calls.
THEOREM SearchFindsFile == LSpec => []SearchFinds
<1>1. QED
  BY InvSearchFinds, LInitInv, LInvStep, PTL DEF LSpec
=============================================================================
