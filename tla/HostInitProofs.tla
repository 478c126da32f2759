--------------------------- MODULE HostInitProofs ---------------------------
(***************************************************************************)
(* Proofs about the debugger's list (DebugList) and about the constructor  *)
(* that takes it over from the host (HostInit), for any number of link     *)
(* maps, any list of the host and any objects: Inv and HInv are inductive, *)
(* and give what the run checks.                                           *)
(***************************************************************************)
EXTENDS HostInit, TLAPS, SequenceTheorems, FiniteSetTheorems, WellFoundedInduction

-----------------------------------------------------------------------------
(* Sequences.                                                              *)

\* Taking out the member at k closes the gap.
LEMMA RemoveFirstAt ==
  ASSUME NEW S, NEW s \in Seq(S), IsInjective(s), NEW k \in 1 .. Len(s)
  PROVE  /\ RemoveFirst(s, s[k]) \in Seq(S)
         /\ Len(RemoveFirst(s, s[k])) = Len(s) - 1
         /\ \A i \in 1 .. Len(s) - 1 :
               RemoveFirst(s, s[k])[i] = IF i < k THEN s[i] ELSE s[i + 1]
<1> DEFINE I == {i \in 1 .. Len(s) : s[i] = s[k]}
<1>1. I = {k}
  BY DEF IsInjective
<1>2. Min(I) = k
  BY <1>1 DEF Min
<1>3. SelectInSeq(s, LAMBDA v : v = s[k]) = k
  BY <1>1, <1>2 DEF SelectInSeq
<1> DEFINE A == SubSeq(s, 1, k - 1)
           B == SubSeq(s, k + 1, Len(s))
           r == RemoveFirst(s, s[k])
<1>4. r = A \o B
  BY <1>3 DEF RemoveFirst, RemoveAt
<1>5. /\ A \in Seq(S) /\ B \in Seq(S)
      /\ Len(A) = k - 1 /\ Len(B) = Len(s) - k
      /\ \A i \in 1 .. k - 1 : A[i] = s[i]
      /\ \A i \in 1 .. Len(s) - k : B[i] = s[k + i]
  OBVIOUS
<1> HIDE DEF A, B, r
<1>6. /\ r \in Seq(S) /\ Len(r) = Len(s) - 1
      /\ \A i \in 1 .. Len(s) - 1 : r[i] = IF i < k THEN A[i] ELSE B[i - (k - 1)]
  BY <1>4, <1>5
<1>7. ASSUME NEW i \in 1 .. Len(s) - 1, ~ (i < k)
      PROVE  B[i - (k - 1)] = s[i + 1]
  <2>1. i - (k - 1) \in 1 .. Len(s) - k /\ k + (i - (k - 1)) = i + 1
    BY <1>7
  <2>2. QED
    BY <1>5, <2>1
<1>8. QED
  BY <1>5, <1>6, <1>7 DEF r

\* What is not there cannot be taken out.
LEMMA RemoveFirstAbsent ==
  ASSUME NEW S, NEW s \in Seq(S), NEW e, e \notin Range(s)
  PROVE  RemoveFirst(s, e) = s
BY DEF RemoveFirst, Range

\* Taking out a member removes it and keeps the others different.
LEMMA RemoveFirstRange ==
  ASSUME NEW S, NEW s \in Seq(S), IsInjective(s), NEW e
  PROVE  /\ RemoveFirst(s, e) \in Seq(S)
         /\ IsInjective(RemoveFirst(s, e))
         /\ Range(RemoveFirst(s, e)) = Range(s) \ {e}
<1>1. CASE e \notin Range(s)
  BY <1>1, RemoveFirstAbsent
<1>2. CASE e \in Range(s)
  <2>1. PICK k \in 1 .. Len(s) : s[k] = e
    BY <1>2 DEF Range
  <2> DEFINE r == RemoveFirst(s, e)
  <2>2. /\ r \in Seq(S) /\ Len(r) = Len(s) - 1
        /\ \A i \in 1 .. Len(s) - 1 : r[i] = IF i < k THEN s[i] ELSE s[i + 1]
    BY <2>1, RemoveFirstAt
  <2> HIDE DEF r
  <2> DEFINE at(i) == IF i < k THEN i ELSE i + 1
  <2>a. \A i \in 1 .. Len(s) - 1 : at(i) \in 1 .. Len(s) /\ r[i] = s[at(i)]
    BY <2>2
  <2>b. \A i, j \in 1 .. Len(s) - 1 : at(i) = at(j) => i = j
    OBVIOUS
  <2> HIDE DEF at
  <2>3. IsInjective(r)
    <3>1. DOMAIN r = 1 .. Len(s) - 1
      BY <2>2
    <3>2. \A i, j \in 1 .. Len(s) : s[i] = s[j] => i = j
      BY DEF IsInjective
    <3>3. \A i, j \in 1 .. Len(s) - 1 : r[i] = r[j] => i = j
      BY <2>a, <2>b, <3>2
    <3>4. QED
      BY <3>1, <3>3 DEF IsInjective
  <2>4. Range(r) \subseteq Range(s) \ {e}
    <3>1. \A x \in Range(r) : \E i \in 1 .. Len(s) - 1 : x = r[i]
      BY <2>2 DEF Range
    <3>2. ASSUME NEW i \in 1 .. Len(s) - 1 PROVE at(i) # k
      BY <3>2 DEF at
    <3>3. ASSUME NEW i \in 1 .. Len(s) - 1 PROVE s[at(i)] \in Range(s) /\ s[at(i)] # e
      BY <2>1, <2>a, <3>2 DEF Range, IsInjective
    <3>4. QED
      BY <2>a, <3>1, <3>3
  <2>5. ASSUME NEW x \in Range(s) \ {e} PROVE x \in Range(r)
    <3>1. PICK j \in 1 .. Len(s) : s[j] = x
      BY DEF Range
    <3>2. CASE j < k
      BY <2>2, <3>1, <3>2 DEF Range
    <3>3. CASE j > k
      <4>1. j - 1 \in 1 .. Len(s) - 1 /\ ~ (j - 1 < k) /\ (j - 1) + 1 = j
        BY <3>3
      <4>2. r[j - 1] = x
        BY <2>2, <3>1, <4>1
      <4>3. QED
        BY <2>2, <4>1, <4>2 DEF Range
    <3>4. QED
      BY <2>1, <3>1, <3>2, <3>3
  <2>6. QED
    BY <2>2, <2>3, <2>4, <2>5 DEF r
<1>3. QED
  BY <1>1, <1>2

\* Appending a new member.
LEMMA AppendNew ==
  ASSUME NEW S, NEW s \in Seq(S), NEW e \in S
  PROVE  /\ Append(s, e) \in Seq(S) /\ Len(Append(s, e)) = Len(s) + 1
         /\ \A i \in 1 .. Len(s) : Append(s, e)[i] = s[i]
         /\ Append(s, e)[Len(s) + 1] = e
         /\ Range(Append(s, e)) = Range(s) \cup {e}
         /\ IsInjective(s) /\ e \notin Range(s) => IsInjective(Append(s, e))
<1> DEFINE r == Append(s, e)
<1>1. /\ r \in Seq(S) /\ Len(r) = Len(s) + 1
      /\ \A i \in 1 .. Len(s) : r[i] = s[i]
      /\ r[Len(s) + 1] = e
  OBVIOUS
<1> HIDE DEF r
<1>2. Range(r) \subseteq Range(s) \cup {e}
  BY <1>1 DEF Range
<1>3. e \in Range(r)
  BY <1>1 DEF Range
<1>4. Range(s) \subseteq Range(r)
  BY <1>1 DEF Range
<1>5. IsInjective(s) /\ e \notin Range(s) => IsInjective(r)
  BY <1>1 DEF Range, IsInjective
<1>6. QED
  BY <1>1, <1>2, <1>3, <1>4, <1>5 DEF r

\* The members of a sequence.
LEMMA RangeIs ==
  ASSUME NEW S, NEW s \in Seq(S)
  PROVE  /\ Range(s) \subseteq S
         /\ \A x \in Range(s) : \E i \in 1 .. Len(s) : s[i] = x
         /\ \A i \in 1 .. Len(s) : s[i] \in Range(s)
BY DEF Range

\* A set of numbers that is not empty has a least member.
LEMMA MinIsIn ==
  ASSUME NEW T \in SUBSET Nat, T # {}
  PROVE  Min(T) \in T
<1>1. \E x \in T : \A y \in T : ~ (<<y, x>> \in OpToRel(<, Nat))
  <2>1. IsWellFoundedOn(OpToRel(<, Nat), Nat)
    BY NatLessThanWellFounded
  <2>2. QED
    BY <2>1, WFMin
<1>2. PICK x \in T : \A y \in T : ~ (y < x)
  BY <1>1 DEF OpToRel
<1>3. \A y \in T : x =< y
  BY <1>2
<1>4. QED
  BY <1>3 DEF Min

\* The places next to a place in a sequence.
LEMMA Neighbours ==
  ASSUME NEW n \in Nat, NEW i \in 1 .. n
  PROVE  /\ i + 1 \in 1 .. n <=> i # n
         /\ i - 1 \in 1 .. n <=> i # 1
         /\ n \in 1 .. n /\ 1 \in 1 .. n
OBVIOUS

-----------------------------------------------------------------------------
(* The walk along l_next.                                                  *)

\* There are finitely many link maps, and a list without repetition is no longer than
\* there are.
LEMMA ListIsShort ==
  ASSUME NEW s \in Seq(LinkMaps), IsInjective(s)
  PROVE  Cardinality(LinkMaps) \in Nat /\ Len(s) <= Cardinality(LinkMaps)
<1>1. IsFiniteSet(Host)
  <2>1. Len(First) \in Nat /\ DOMAIN First = 1 .. Len(First) /\ First \in [1 .. Len(First) -> Host]
    BY LinkMapsAssumption
  <2>2. IsFiniteSet(1 .. Len(First))
    BY <2>1, FS_Interval
  <2>3. First \in Surjection(1 .. Len(First), Host)
    BY <2>1 DEF Surjection, Host
  <2>4. QED
    BY <2>2, <2>3, FS_Surjection
<1>2. IsFiniteSet(LinkMaps)
  BY <1>1, LinkMapsAssumption, FS_Union DEF LinkMaps
<1>3. Cardinality(LinkMaps) \in Nat
  BY <1>2, FS_CardinalityType
<1>4. s \in Injection(1 .. Len(s), LinkMaps)
  BY DEF Injection, IsInjective
<1>5. Cardinality(1 .. Len(s)) = Len(s)
  <2> DEFINE n == Len(s)
  <2>1. n \in Nat
    OBVIOUS
  <2> HIDE DEF n
  <2>2. Cardinality(1 .. n) = IF 1 > n THEN 0 ELSE n - 1 + 1
    BY <2>1, FS_Interval
  <2>3. Cardinality(1 .. n) = n
    BY <2>1, <2>2
  <2>4. QED
    BY <2>3 DEF n
<1>6. Cardinality(1 .. Len(s)) <= Cardinality(LinkMaps)
  BY <1>2, <1>4, FS_Injection
<1>7. QED
  BY <1>3, <1>5, <1>6

\* Following l_next from r_debug.map meets the listed link maps, in their order, and
\* ends.
LEMMA WalkIsOrder == order \in Seq(LinkMaps) /\ Chained => Walk = order
<1> SUFFICES ASSUME order \in Seq(LinkMaps), Chained PROVE Walk = order
  OBVIOUS
<1> DEFINE n == Len(order)
           N == Cardinality(LinkMaps) + 1
<1>1. n \in Nat /\ N \in Nat /\ n < N /\ DOMAIN order = 1 .. n
  <2>1. IsInjective(order)
    BY DEF Chained
  <2>2. QED
    BY <2>1, ListIsShort
<1>2. /\ map = IF n = 0 THEN Null ELSE order[1]
      /\ \A i \in 1 .. n : next[order[i]] = IF i = n THEN Null ELSE order[i + 1]
      /\ \A i \in 1 .. n : order[i] # Null
      /\ order = [i \in 1 .. n |-> order[i]]
  <2>1. order = <<>> <=> n = 0
    OBVIOUS
  <2>2. /\ map = IF n = 0 THEN Null ELSE order[1]
        /\ \A i \in 1 .. n : next[order[i]] = IF i = n THEN Null ELSE order[i + 1]
    BY <1>1, <2>1 DEF Chained
  <2>3. \A i \in 1 .. n : order[i] # Null
    BY LinkMapsAssumption
  <2>4. order = [i \in 1 .. n |-> order[i]]
    OBVIOUS
  <2>5. QED
    BY <2>2, <2>3, <2>4
<1> DEFINE Step(f) == [i \in 1 .. N |->
                         IF i = 1 THEN map
                         ELSE LET x == f[i - 1] IN IF x = Null THEN Null ELSE next[x]]
           g == [i \in 1 .. N |-> IF i <= n THEN order[i] ELSE Null]
<1>3. Visited = CHOOSE f : f = Step(f)
  BY DEF Visited
<1>d. /\ Walk = [i \in {k \in 1 .. N : \A j \in 1 .. k : Visited[j] # Null} |-> Visited[i]]
  BY DEF Walk
<1> HIDE DEF n, N
<1>4. g = Step(g)
  <2>1. ASSUME NEW i \in 1 .. N, i > 1
        PROVE  g[i] = IF g[i - 1] = Null THEN Null ELSE next[g[i - 1]]
    <3>1. i - 1 \in 1 .. N /\ i - 1 + 1 = i
      BY <1>1, <2>1
    <3>2. /\ g[i - 1] = IF i - 1 <= n THEN order[i - 1] ELSE Null
          /\ g[i] = IF i <= n THEN order[i] ELSE Null
      BY <3>1
    <3>3. CASE i - 1 <= n
      <4>1. i - 1 \in 1 .. n
        BY <1>1, <3>1, <3>3
      <4>2. next[order[i - 1]] = IF i - 1 = n THEN Null ELSE order[i]
        BY <1>2, <3>1, <4>1
      <4>3. i - 1 = n <=> ~ (i <= n)
        BY <1>1, <3>3
      <4>4. QED
        BY <1>2, <3>2, <3>3, <4>1, <4>2, <4>3
    <3>4. CASE ~ (i - 1 <= n)
      BY <1>1, <3>2, <3>4
    <3>5. QED
      BY <3>3, <3>4
  <2>2. g[1] = map
    BY <1>1, <1>2
  <2>3. \A i \in 1 .. N : ~ (i > 1) => i = 1
    BY <1>1
  <2> HIDE DEF g
  <2>4. \A i \in 1 .. N : Step(g)[i] = g[i]
    BY <2>1, <2>2, <2>3
  <2>5. g = [i \in 1 .. N |-> g[i]]
    BY DEF g
  <2>6. QED
    BY <2>4, <2>5
<1>5. Visited = Step(Visited)
  BY <1>3, <1>4
<1>6. \A i \in 1 .. N : Visited[i] = g[i]
  <2> DEFINE T == {i \in 1 .. N : Visited[i] # g[i]}
  <2> SUFFICES ASSUME T # {} PROVE FALSE
    OBVIOUS
  <2>1. T \in SUBSET Nat
    BY <1>1
  <2>2. PICK k \in T : \A y \in T : k <= y
    <3>1. IsWellFoundedOn(OpToRel(<, Nat), Nat)
      BY NatLessThanWellFounded
    <3>2. PICK x \in T : \A y \in T : ~ (<<y, x>> \in OpToRel(<, Nat))
      BY <2>1, <3>1, WFMin
    <3>3. \A y \in T : ~ (y < x)
      BY <2>1, <3>2 DEF OpToRel
    <3>4. QED
      BY <2>1, <3>3
  <2>3. k \in 1 .. N /\ Visited[k] # g[k]
    OBVIOUS
  <2>4. k # 1 => k - 1 \in 1 .. N /\ ~ (k <= k - 1)
    BY <1>1, <2>3
  <2>5. k # 1 => Visited[k - 1] = g[k - 1]
    BY <2>2, <2>4
  <2>6. Visited[k] = Step(Visited)[k] /\ g[k] = Step(g)[k]
    BY <1>4, <1>5
  <2> HIDE DEF g, T
  <2>7. QED
    BY <2>3, <2>5, <2>6
<1>7. {k \in 1 .. N : \A j \in 1 .. k : Visited[j] # Null} = 1 .. n
  <2>1. ASSUME NEW k \in 1 .. N, \A j \in 1 .. k : Visited[j] # Null
        PROVE  k \in 1 .. n
    <3>1. k \in 1 .. k
      BY <1>1
    <3>2. g[k] # Null
      BY <1>6, <2>1, <3>1
    <3>3. QED
      BY <1>1, <3>2
  <2>2. ASSUME NEW k \in 1 .. n
        PROVE  k \in 1 .. N /\ \A j \in 1 .. k : Visited[j] # Null
    <3>1. k \in 1 .. N
      BY <1>1
    <3>2. ASSUME NEW j \in 1 .. k PROVE Visited[j] # Null
      <4>1. j \in 1 .. N /\ j \in 1 .. n /\ j <= n
        BY <1>1
      <4>2. QED
        BY <1>2, <1>6, <4>1
    <3>3. QED
      BY <3>1, <3>2
  <2>3. QED
    BY <2>1, <2>2
<1>8. \A i \in 1 .. n : Visited[i] = order[i]
  BY <1>1, <1>6
<1>9. Walk = [i \in 1 .. n |-> Visited[i]]
  BY <1>d, <1>7
<1>10. QED
  BY <1>2, <1>8, <1>9

-----------------------------------------------------------------------------
(* The host's list.                                                        *)

\* Where a link map is in the host's list.
at(m) == CHOOSE i \in DOMAIN First : First[i] = m

LEMMA HostPositions ==
  /\ Len(First) \in Nat /\ DOMAIN First = 1 .. Len(First) /\ First \in Seq(LinkMaps)
  /\ First = <<>> <=> Len(First) = 0
  /\ First # <<>> => Head(First) = First[1]
  /\ IsInjective(First)
  /\ Range(First) = Host
  /\ \A i \in 1 .. Len(First) : First[i] \in Host /\ at(First[i]) = i
  /\ \A m \in Host : at(m) \in 1 .. Len(First) /\ First[at(m)] = m
<1> USE LinkMapsAssumption
<1>1. /\ Len(First) \in Nat /\ DOMAIN First = 1 .. Len(First) /\ First \in Seq(LinkMaps)
      /\ First = <<>> <=> Len(First) = 0
      /\ First # <<>> => Head(First) = First[1]
  BY DEF LinkMaps
<1>2. IsInjective(First)
  BY DEF IsInjective
<1>3. Range(First) = Host
  BY DEF Range, Host
<1>4. \A m \in Host : at(m) \in DOMAIN First /\ First[at(m)] = m
  BY DEF Host, at
<1>5. \A i \in DOMAIN First : First[i] \in Host
  BY DEF Host
<1>6. \A i \in DOMAIN First : at(First[i]) = i
  BY <1>4, <1>5
<1>7. QED
  BY <1>1, <1>2, <1>3, <1>4, <1>5, <1>6

\* Its forward links.
LEMMA HostNextIs ==
  /\ HostNext \in [LinkMaps -> LinkMaps \cup {Null}]
  /\ \A i \in 1 .. Len(First) :
       HostNext[First[i]] = IF i = Len(First) THEN Null ELSE First[i + 1]
<1> USE HostPositions
<1>1. ASSUME NEW i \in 1 .. Len(First)
      PROVE  HostNext[First[i]] = IF i = Len(First) THEN Null ELSE First[i + 1]
  <2>1. First[i] \in LinkMaps
    BY DEF LinkMaps
  <2>2. HostNext[First[i]] = IF \E j \in DOMAIN First : First[j] = First[i] /\ j + 1 \in DOMAIN First
                             THEN First[at(First[i]) + 1] ELSE Null
    BY <2>1 DEF HostNext, at
  <2>3. (\E j \in DOMAIN First : First[j] = First[i] /\ j + 1 \in DOMAIN First) <=> i # Len(First)
    <3>1. \A j \in 1 .. Len(First) : First[j] = First[i] => j = i
      BY DEF IsInjective
    <3> HIDE HostPositions
    <3>2. Len(First) \in Nat /\ DOMAIN First = 1 .. Len(First)
      BY HostPositions
    <3>3. i + 1 \in 1 .. Len(First) <=> i # Len(First)
      BY <3>2, Neighbours
    <3>4. QED
      BY <3>1, <3>2, <3>3
  <2>4. QED
    BY <2>2, <2>3
<1>2. ASSUME NEW m \in LinkMaps PROVE HostNext[m] \in LinkMaps \cup {Null}
  <2>1. CASE m \in Host
    <3>1. PICK i \in 1 .. Len(First) : m = First[i]
      BY <2>1
    <3>2. i # Len(First) => i + 1 \in 1 .. Len(First)
      <4> HIDE HostPositions
      <4>1. Len(First) \in Nat
        BY HostPositions
      <4>2. QED
        BY <4>1
    <3>3. i # Len(First) => First[i + 1] \in LinkMaps
      BY <3>2 DEF LinkMaps
    <3>4. QED
      BY <1>1, <3>1, <3>3
  <2>2. CASE m \notin Host
    BY <2>2 DEF HostNext, Host
  <2>3. QED
    BY <2>1, <2>2
<1>3. HostNext = [m \in LinkMaps |-> HostNext[m]]
  BY DEF HostNext
<1>4. QED
  BY <1>1, <1>2, <1>3

\* Its back links.
LEMMA HostPrevIs ==
  /\ HostPrev \in [LinkMaps -> LinkMaps \cup {Null}]
  /\ \A i \in 1 .. Len(First) :
       HostPrev[First[i]] = IF i = 1 THEN Null ELSE First[i - 1]
<1> USE HostPositions
<1>1. ASSUME NEW i \in 1 .. Len(First)
      PROVE  HostPrev[First[i]] = IF i = 1 THEN Null ELSE First[i - 1]
  <2>1. First[i] \in LinkMaps
    BY DEF LinkMaps
  <2>2. HostPrev[First[i]] = IF \E j \in DOMAIN First : First[j] = First[i] /\ j > 1
                             THEN First[at(First[i]) - 1] ELSE Null
    BY <2>1 DEF HostPrev, at
  <2>3. (\E j \in DOMAIN First : First[j] = First[i] /\ j > 1) <=> i # 1
    BY DEF IsInjective
  <2>4. QED
    BY <2>2, <2>3
<1>2. ASSUME NEW m \in LinkMaps PROVE HostPrev[m] \in LinkMaps \cup {Null}
  <2>1. CASE m \in Host
    <3>1. PICK i \in 1 .. Len(First) : m = First[i]
      BY <2>1
    <3>2. i # 1 => i - 1 \in 1 .. Len(First)
      OBVIOUS
    <3>3. i # 1 => First[i - 1] \in LinkMaps
      BY <3>2 DEF LinkMaps
    <3>4. QED
      BY <1>1, <3>1, <3>3
  <2>2. CASE m \notin Host
    BY <2>2 DEF HostPrev, Host
  <2>3. QED
    BY <2>1, <2>2
<1>3. HostPrev = [m \in LinkMaps |-> HostPrev[m]]
  BY DEF HostPrev
<1>4. QED
  BY <1>1, <1>2, <1>3

\* The host's list is chained, once its head is taken over ...
LEMMA HostChained ==
  /\ next = HostNext /\ order = First
  /\ map = IF First = <<>> THEN Null ELSE Head(First)
  => Chained
BY HostPositions, HostNextIs DEF Chained

\* ... and its end is found.
LEMMA HostChainedBack ==
  /\ prev = HostPrev /\ order = First
  /\ tail = IF First = <<>> THEN Null ELSE First[Len(First)]
  => ChainedBack
BY HostPositions, HostPrevIs DEF ChainedBack

\* The list taken over from the host is well linked.
LEMMA InitInv == Init => Inv
<1> SUFFICES ASSUME Init PROVE Inv
  OBVIOUS
<1>1. Chained /\ ChainedBack
  BY HostChained, HostChainedBack DEF Init
<1>2. TypeOK
  <2>1. /\ map \in LinkMaps \cup {Null} /\ tail \in LinkMaps \cup {Null}
        /\ order \in Seq(LinkMaps)
    BY HostPositions DEF Init, LinkMaps
  <2>2. /\ next \in [LinkMaps -> LinkMaps \cup {Null}]
        /\ prev \in [LinkMaps -> LinkMaps \cup {Null}]
    BY HostNextIs, HostPrevIs DEF Init
  <2>3. QED
    BY <2>1, <2>2 DEF Init, TypeOK
<1>3. linked \subseteq live \cup Host
  BY HostPositions DEF Init, linked
<1>4. OutsidersPointNowhere /\ StopsAtListed
  BY DEF Init, OutsidersPointNowhere, StopsAtListed
<1>5. QED
  BY <1>1, <1>2, <1>3, <1>4 DEF Inv

-----------------------------------------------------------------------------
(* Steps of the list keep it well linked.                                  *)

\* A link map with a place in the list is listed, and the other way round.
LEMMA ListedAt ==
  ASSUME TypeOK
  PROVE  /\ linked \subseteq LinkMaps
         /\ \A x \in linked : \E k \in 1 .. Len(order) : order[k] = x
         /\ \A k \in 1 .. Len(order) : order[k] \in linked
         /\ Len(order) \in Nat /\ DOMAIN order = 1 .. Len(order)
         /\ order = <<>> <=> Len(order) = 0
<1>1. order \in Seq(LinkMaps)
  BY DEF TypeOK
<1>2. QED
  BY <1>1, RangeIs DEF linked

LEMMA NewLinkMapInv ==
  ASSUME Inv, NEW m \in Own, NewLinkMap(m)
  PROVE  Inv'
<1>1. TypeOK /\ Chained /\ ChainedBack
  BY DEF Inv
<1>2. /\ m \notin live /\ m \in LinkMaps /\ linked' = linked
      /\ next' = [next EXCEPT ![m] = Null]
      /\ prev' = [prev EXCEPT ![m] = Null]
      /\ live' = live \cup {m}
      /\ UNCHANGED <<map, tail, rstate, order, stop>>
  BY DEF NewLinkMap, LinkMaps, linked
<1>3. m \notin linked
  BY <1>2, LinkMapsAssumption DEF Inv
<1>4. \A k \in DOMAIN order : order[k] # m /\ order[k] \in LinkMaps
  BY <1>1, <1>3, ListedAt
<1>5. TypeOK'
  BY <1>1, <1>2, Zenon DEF TypeOK
<1>6. \A x \in LinkMaps : x # m => next'[x] = next[x] /\ prev'[x] = prev[x]
  BY <1>1, <1>2 DEF TypeOK
<1>6a. next'[m] = Null /\ prev'[m] = Null
  BY <1>1, <1>2 DEF TypeOK
<1>7. Chained'
  BY <1>1, <1>2, <1>4, <1>6 DEF Chained
<1>8. ChainedBack'
  BY <1>1, <1>2, <1>4, <1>6 DEF ChainedBack
<1>9. OutsidersPointNowhere'
  <2>1. live \subseteq LinkMaps /\ OutsidersPointNowhere
    BY <1>1 DEF Inv, TypeOK, LinkMaps
  <2>2. QED
    BY <2>1, <1>2, <1>6, <1>6a DEF OutsidersPointNowhere
<1>10. StopsAtListed' /\ linked' \subseteq live' \cup Host
  BY <1>2 DEF Inv, StopsAtListed
<1>11. QED
  BY <1>5, <1>7, <1>8, <1>9, <1>10 DEF Inv

\* Appending keeps the list well linked and in order.
LEMMA AddInv ==
  ASSUME Inv, NEW m \in Own, Add(m)
  PROVE  Inv' /\ order' = Append(order, m) /\ m \in LinkMaps \ linked
<1> DEFINE n == Len(order)
<1>1. TypeOK /\ Chained /\ ChainedBack /\ n \in Nat /\ DOMAIN order = 1 .. n
  BY ListedAt DEF Inv
<1>2. /\ m \in live /\ m \notin linked /\ m \in LinkMaps /\ m # Null
      /\ stop = Idle
  BY LinkMapsAssumption DEF Add, LinkMaps
<1>3. /\ prev' = [prev EXCEPT ![m] = tail]
      /\ next' = [x \in LinkMaps |-> IF x = m THEN Null ELSE IF x = tail THEN m ELSE next[x]]
      /\ map' = IF tail = Null THEN m ELSE map
      /\ tail' = m
      /\ rstate' = "consistent"
      /\ order' = Append(order, m)
      /\ UNCHANGED <<live, stop>>
  BY DEF Add
<1>4. /\ order' \in Seq(LinkMaps) /\ Len(order') = n + 1
      /\ \A i \in 1 .. n : order'[i] = order[i]
      /\ order'[n + 1] = m
      /\ linked' = linked \cup {m}
      /\ IsInjective(order')
  <2>1. order \in Seq(LinkMaps) /\ IsInjective(order)
    BY <1>1 DEF TypeOK, Chained
  <2>2. QED
    BY <1>2, <1>3, <2>1, AppendNew DEF linked
<1>5. /\ DOMAIN order' = 1 .. n + 1 /\ order' # <<>>
  BY <1>1, <1>4
<1>6. \A i \in 1 .. n : order[i] \in LinkMaps /\ order[i] # m /\ order[i] # Null
  BY <1>1, <1>2, ListedAt, LinkMapsAssumption
<1>7. /\ n = 0 => tail = Null /\ map = Null
      /\ n # 0 => tail = order[n] /\ tail # Null /\ map = order[1]
  <2>1. order = <<>> <=> n = 0
    BY <1>1, ListedAt
  <2>2. n # 0 => n \in 1 .. n
    BY <1>1
  <2>3. QED
    BY <2>1, <2>2, <1>1, <1>6 DEF Chained, ChainedBack
<1>8. \A i \in 1 .. n : order[i] = tail <=> i = n
  <2>1. \A i \in 1 .. n : n # 0 /\ n \in 1 .. n
    BY <1>1
  <2>2. \A i, j \in 1 .. n : order[i] = order[j] => i = j
    BY <1>1 DEF Chained, IsInjective
  <2>3. QED
    BY <1>7, <2>1, <2>2
<1>9. TypeOK'
  <2>1. /\ map' \in LinkMaps \cup {Null} /\ tail' \in LinkMaps \cup {Null}
    BY <1>1, <1>2, <1>3 DEF TypeOK
  <2>2. next' \in [LinkMaps -> LinkMaps \cup {Null}]
    BY <1>1, <1>2, <1>3 DEF TypeOK
  <2>3. prev' \in [LinkMaps -> LinkMaps \cup {Null}]
    BY <1>1, <1>2, <1>3 DEF TypeOK
  <2>4. QED
    BY <1>1, <1>3, <1>4, <2>1, <2>2, <2>3 DEF TypeOK
<1>10. Chained'
  <2>1. map' = order'[1]
    <3>1. n = 0 => 1 = n + 1
      OBVIOUS
    <3>2. n # 0 => 1 \in 1 .. n
      BY <1>1
    <3>3. QED
      BY <1>3, <1>4, <1>7, <3>1, <3>2
  <2>2. ASSUME NEW i \in 1 .. n
        PROVE  next'[order'[i]] = order'[i + 1]
    <3>1. next'[order[i]] = IF i = n THEN m ELSE next[order[i]]
      BY <1>3, <1>6, <1>8
    <3>2. i # n => next[order[i]] = order[i + 1] /\ i + 1 \in 1 .. n
      BY <1>1, Neighbours DEF Chained
    <3>3. QED
      BY <1>4, <3>1, <3>2
  <2>3. next'[order'[n + 1]] = Null
    BY <1>2, <1>3, <1>4
  <2>4. \A i \in 1 .. n + 1 : next'[order'[i]] = IF i = n + 1 THEN Null ELSE order'[i + 1]
    <3>1. \A i \in 1 .. n + 1 : i # n + 1 => i \in 1 .. n
      BY <1>1
    <3>2. \A i \in 1 .. n : i # n + 1
      BY <1>1
    <3>3. QED
      BY <2>2, <2>3, <3>1, <3>2
  <2>5. QED
    BY <1>4, <1>5, <2>1, <2>4 DEF Chained
<1>11. ChainedBack'
  <2>1. ASSUME NEW i \in 1 .. n
        PROVE  prev'[order'[i]] = IF i = 1 THEN Null ELSE order'[i - 1]
    <3>1. prev'[order[i]] = prev[order[i]]
      BY <1>1, <1>3, <1>6 DEF TypeOK
    <3>2. prev[order[i]] = IF i = 1 THEN Null ELSE order[i - 1]
      BY <1>1 DEF ChainedBack
    <3>3. i # 1 => i - 1 \in 1 .. n
      BY <1>1
    <3>4. QED
      BY <1>4, <3>1, <3>2, <3>3
  <2>2. prev'[order'[n + 1]] = IF n + 1 = 1 THEN Null ELSE order'[n]
    <3>1. prev'[m] = tail
      BY <1>1, <1>2, <1>3 DEF TypeOK
    <3>2. n + 1 = 1 <=> n = 0
      BY <1>1
    <3>3. n # 0 => n \in 1 .. n
      BY <1>1
    <3>4. QED
      BY <1>4, <1>7, <3>1, <3>2, <3>3
  <2>3. \A i \in 1 .. n + 1 : prev'[order'[i]] = IF i = 1 THEN Null ELSE order'[i - 1]
    <3>1. \A i \in 1 .. n + 1 : i # n + 1 => i \in 1 .. n
      BY <1>1
    <3>2. (n + 1) - 1 = n
      BY <1>1
    <3>3. QED
      BY <2>1, <2>2, <3>1, <3>2
  <2>4. QED
    BY <1>3, <1>4, <1>5, <2>3 DEF ChainedBack
<1>12. OutsidersPointNowhere'
  <2> SUFFICES ASSUME NEW x \in live \ linked, x # m
               PROVE  prev'[x] = Null /\ next'[x] = Null
    BY <1>3, <1>4 DEF OutsidersPointNowhere
  <2>1. x \in LinkMaps /\ x # tail
    <3>1. n # 0 => tail \in linked
      BY <1>1, <1>7, ListedAt
    <3>2. QED
      BY <1>1, <1>7, <3>1, LinkMapsAssumption DEF TypeOK, LinkMaps
  <2>2. prev'[x] = prev[x] /\ next'[x] = next[x]
    BY <1>1, <1>3, <2>1 DEF TypeOK
  <2>3. QED
    BY <2>2 DEF Inv, OutsidersPointNowhere
<1>13. StopsAtListed' /\ linked' \subseteq live' \cup Host
  BY <1>2, <1>3, <1>4 DEF Inv, StopsAtListed
<1>14. QED
  BY <1>2, <1>3, <1>9, <1>10, <1>11, <1>12, <1>13 DEF Inv

\* Only a link map that is not listed is dropped without unlinking.
LEMMA DropUnlistedInv ==
  ASSUME Inv, NEW m \in Own, DropUnlisted(m)
  PROVE  Inv' /\ order' = order
<1>1. TypeOK /\ Chained /\ ChainedBack
  BY DEF Inv
<1>2. m \notin linked
  <2> SUFFICES ASSUME m \in linked PROVE FALSE
    OBVIOUS
  <2>1. PICK k \in 1 .. Len(order) : order[k] = m
    BY <1>1, ListedAt
  <2>2. DOMAIN order = 1 .. Len(order) /\ order # <<>> /\ Len(order) \in Nat
    BY <1>1, <2>1, ListedAt
  <2>3. k # 1
    BY <1>1, <2>1, <2>2 DEF Chained, DropUnlisted
  <2>4. k - 1 \in 1 .. Len(order) /\ prev[m] = order[k - 1]
    BY <1>1, <2>1, <2>2, <2>3 DEF ChainedBack
  <2>5. QED
    BY <1>1, <2>4, ListedAt, LinkMapsAssumption DEF DropUnlisted
<1>3. order' = order
  BY <1>1, <1>2, RemoveFirstAbsent DEF TypeOK, DropUnlisted, linked
<1>4. /\ live' = live \ {m} /\ linked' = linked
      /\ UNCHANGED <<map, tail, next, prev, rstate, stop>>
  BY <1>3 DEF DropUnlisted, linked
<1>5. TypeOK'
  BY <1>1, <1>3, <1>4, Zenon DEF TypeOK
<1>6. Chained' /\ ChainedBack'
  BY <1>1, <1>3, <1>4 DEF Chained, ChainedBack
<1>7. linked' \subseteq live' \cup Host
  BY <1>2, <1>4 DEF Inv
<1>8. OutsidersPointNowhere' /\ StopsAtListed'
  BY <1>4 DEF Inv, OutsidersPointNowhere, StopsAtListed
<1>9. QED
  BY <1>3, <1>5, <1>6, <1>7, <1>8 DEF Inv

\* What is announced as removed is listed.
LEMMA DropBeginInv ==
  ASSUME Inv, NEW m \in Own, DropBegin(m)
  PROVE  Inv' /\ order' = order /\ m \in linked
<1>1. TypeOK /\ Chained /\ ChainedBack
  BY DEF Inv
<1>2. /\ rstate' = "delete" /\ stop' = m /\ linked' = linked
      /\ UNCHANGED <<map, tail, next, prev, live, order>>
  BY DEF DropBegin, linked
<1>3. m \in linked
  <2>1. CASE map = m
    <3>1. map # Null
      BY <2>1, LinkMapsAssumption DEF LinkMaps
    <3>2. map = order[1] /\ Len(order) # 0
      BY <1>1, <3>1, ListedAt DEF Chained
    <3>3. QED
      BY <1>1, <2>1, <3>2, ListedAt
  <2>2. CASE map # m
    BY <2>2 DEF DropBegin, Inv, OutsidersPointNowhere
  <2>3. QED
    BY <2>1, <2>2
<1>4. TypeOK'
  BY <1>1, <1>2, Zenon DEF TypeOK
<1>5. Chained' /\ ChainedBack'
  BY <1>1, <1>2 DEF Chained, ChainedBack
<1>6. OutsidersPointNowhere'
  BY <1>2 DEF Inv, OutsidersPointNowhere
<1>7. StopsAtListed'
  BY <1>2, <1>3, LinkMapsAssumption DEF StopsAtListed, LinkMaps
<1>8. linked' \subseteq live' \cup Host
  BY <1>2 DEF Inv
<1>9. QED
  BY <1>2, <1>3, <1>4, <1>5, <1>6, <1>7, <1>8 DEF Inv

\* What unlinking the member at k does to the links of the others, in each of the four
\* cases.
LEMMA UnlinkIs ==
  ASSUME Inv, NEW k \in 1 .. Len(order), Unlink(order[k])
  PROVE  /\ map' = IF k = 1 THEN next[order[k]] ELSE map
         /\ tail' = IF k = Len(order) THEN prev[order[k]] ELSE tail
         /\ next' \in [LinkMaps -> LinkMaps \cup {Null}]
         /\ prev' \in [LinkMaps -> LinkMaps \cup {Null}]
         /\ \A x \in LinkMaps :
              next'[x] = IF k # 1 /\ x = prev[order[k]] THEN next[order[k]] ELSE next[x]
         /\ \A x \in LinkMaps :
              prev'[x] = IF k # Len(order) /\ x = next[order[k]] THEN prev[order[k]] ELSE prev[x]
<1> DEFINE n == Len(order)
           m == order[k]
<1>1. TypeOK /\ Chained /\ ChainedBack /\ n \in Nat /\ DOMAIN order = 1 .. n /\ n # 0
  BY ListedAt DEF Inv
<1>2. /\ map = m <=> k = 1
      /\ tail = m <=> k = n
  <2>1. map = order[1] /\ tail = order[n]
    BY <1>1, ListedAt DEF Chained, ChainedBack
  <2>2. \A i, j \in 1 .. n : order[i] = order[j] => i = j
    BY <1>1 DEF Chained, IsInjective
  <2>3. 1 \in 1 .. n /\ n \in 1 .. n
    BY <1>1
  <2>4. QED
    BY <2>1, <2>2, <2>3
<1>3. /\ next[m] = IF k = n THEN Null ELSE order[k + 1]
      /\ prev[m] = IF k = 1 THEN Null ELSE order[k - 1]
  BY <1>1 DEF Chained, ChainedBack
<1>4. /\ k # n => next[m] \in LinkMaps
      /\ k # 1 => prev[m] \in LinkMaps
  <2>1. \A i \in 1 .. n : order[i] \in LinkMaps
    BY <1>1, ListedAt
  <2>2. QED
    BY <1>1, <1>3, <2>1, Neighbours
<1>5. /\ next \in [LinkMaps -> LinkMaps \cup {Null}]
      /\ prev \in [LinkMaps -> LinkMaps \cup {Null}]
      /\ next[m] \in LinkMaps \cup {Null} /\ prev[m] \in LinkMaps \cup {Null}
  BY <1>1, <1>3, <1>4 DEF TypeOK
<1>6. Unlink(m)
  OBVIOUS
<1> HIDE DEF m
<1>7. CASE k = 1 /\ k = n
  <2>1. map' = Null /\ tail' = Null /\ UNCHANGED <<next, prev>>
    BY <1>2, <1>6, <1>7 DEF Unlink
  <2>2. QED
    BY <1>3, <1>5, <1>7, <2>1 DEF m
<1>8. CASE k = 1 /\ k # n
  <2>1. /\ map' = next[m]
        /\ prev' = [prev EXCEPT ![next[m]] = Null]
        /\ UNCHANGED <<next, tail>>
    BY <1>2, <1>6, <1>8 DEF Unlink
  <2>2. QED
    BY <1>3, <1>4, <1>5, <1>8, <2>1 DEF m
<1>9. CASE k # 1 /\ k = n
  <2>1. /\ next' = [next EXCEPT ![prev[m]] = Null]
        /\ tail' = prev[m]
        /\ UNCHANGED <<map, prev>>
    BY <1>2, <1>6, <1>9 DEF Unlink
  <2>2. QED
    BY <1>3, <1>4, <1>5, <1>9, <2>1 DEF m
<1>10. CASE k # 1 /\ k # n
  <2>1. /\ next' = [next EXCEPT ![prev[m]] = next[m]]
        /\ prev' = [prev EXCEPT ![next[m]] = prev[m]]
        /\ UNCHANGED <<map, tail>>
    BY <1>2, <1>6, <1>10 DEF Unlink
  <2>2. QED
    BY <1>3, <1>4, <1>5, <1>10, <2>1 DEF m
<1>11. QED
  BY <1>7, <1>8, <1>9, <1>10

\* Unlinking keeps the others well linked and in order.
LEMMA DropEndInv ==
  ASSUME Inv, NEW m \in Own, DropEnd(m)
  PROVE  Inv' /\ m \in linked /\ stop = m /\ order' = RemoveFirst(order, m)
<1> DEFINE n == Len(order)
<1>1. TypeOK /\ Chained /\ ChainedBack /\ n \in Nat /\ DOMAIN order = 1 .. n
  BY ListedAt DEF Inv
<1>2. /\ stop = m /\ m \in linked /\ m # Idle /\ m # Null
      /\ rstate' = "consistent" /\ stop' = Idle
      /\ live' = live \ {m} /\ order' = RemoveFirst(order, m)
      /\ Unlink(m)
  BY LinkMapsAssumption DEF DropEnd, Inv, StopsAtListed, LinkMaps
<1>3. PICK k \in 1 .. n : order[k] = m
  BY <1>1, <1>2, ListedAt
<1>4. /\ order \in Seq(LinkMaps) /\ IsInjective(order)
      /\ \A i \in 1 .. n : order[i] \in LinkMaps /\ order[i] # Null
      /\ \A i, j \in 1 .. n : order[i] = order[j] => i = j
  <2>1. order \in Seq(LinkMaps) /\ IsInjective(order)
    BY <1>1 DEF TypeOK, Chained
  <2>2. \A i \in 1 .. n : order[i] \in LinkMaps /\ order[i] # Null
    BY <1>1, ListedAt, LinkMapsAssumption
  <2>3. QED
    BY <1>1, <2>1, <2>2 DEF IsInjective
<1>5. /\ order' \in Seq(LinkMaps) /\ Len(order') = n - 1
      /\ \A i \in 1 .. n - 1 : order'[i] = IF i < k THEN order[i] ELSE order[i + 1]
      /\ IsInjective(order')
      /\ linked' = linked \ {m}
  <2>1. /\ RemoveFirst(order, order[k]) \in Seq(LinkMaps)
        /\ Len(RemoveFirst(order, order[k])) = Len(order) - 1
        /\ \A i \in 1 .. Len(order) - 1 :
              RemoveFirst(order, order[k])[i] = IF i < k THEN order[i] ELSE order[i + 1]
    BY <1>4, RemoveFirstAt
  <2>2. /\ IsInjective(RemoveFirst(order, m))
        /\ Range(RemoveFirst(order, m)) = Range(order) \ {m}
    BY <1>4, RemoveFirstRange
  <2>3. /\ IsInjective(order') /\ linked' = linked \ {m}
    BY <1>2, <2>2 DEF linked
  <2>4. QED
    BY <1>2, <1>3, <2>1, <2>3
<1>6. /\ next[m] = IF k = n THEN Null ELSE order[k + 1]
      /\ prev[m] = IF k = 1 THEN Null ELSE order[k - 1]
      /\ map = order[1] /\ tail = order[n]
      /\ \A i \in 1 .. n : /\ next[order[i]] = IF i = n THEN Null ELSE order[i + 1]
                           /\ prev[order[i]] = IF i = 1 THEN Null ELSE order[i - 1]
  <2>1. order # <<>>
    BY <1>1, <1>3
  <2>2. map = order[1] /\ tail = order[n]
    BY <1>1, <2>1 DEF Chained, ChainedBack
  <2>3. \A i \in 1 .. n : /\ next[order[i]] = IF i = n THEN Null ELSE order[i + 1]
                          /\ prev[order[i]] = IF i = 1 THEN Null ELSE order[i - 1]
    BY <1>1 DEF Chained, ChainedBack
  <2>4. QED
    BY <1>3, <2>2, <2>3
<1>7. /\ map' = IF k = 1 THEN next[m] ELSE map
      /\ tail' = IF k = n THEN prev[m] ELSE tail
      /\ next' \in [LinkMaps -> LinkMaps \cup {Null}]
      /\ prev' \in [LinkMaps -> LinkMaps \cup {Null}]
      /\ \A x \in LinkMaps : next'[x] = IF k # 1 /\ x = prev[m] THEN next[m] ELSE next[x]
      /\ \A x \in LinkMaps : prev'[x] = IF k # n /\ x = next[m] THEN prev[m] ELSE prev[x]
  BY <1>2, <1>3, UnlinkIs
<1> HIDE DEF n
\* In terms of places.
<1>8. \A i \in 1 .. n :
        /\ next'[order[i]] = IF k # 1 /\ i = k - 1 THEN next[m]
                             ELSE IF i = n THEN Null ELSE order[i + 1]
        /\ prev'[order[i]] = IF k # n /\ i = k + 1 THEN prev[m]
                             ELSE IF i = 1 THEN Null ELSE order[i - 1]
  <2> SUFFICES ASSUME NEW i \in 1 .. n
               PROVE  /\ next'[order[i]] = IF k # 1 /\ i = k - 1 THEN next[m]
                                           ELSE IF i = n THEN Null ELSE order[i + 1]
                      /\ prev'[order[i]] = IF k # n /\ i = k + 1 THEN prev[m]
                                           ELSE IF i = 1 THEN Null ELSE order[i - 1]
    OBVIOUS
  <2>1. k # 1 => (order[i] = prev[m] <=> i = k - 1)
    BY <1>1, <1>4, <1>6, Neighbours
  <2>2. k # n => (order[i] = next[m] <=> i = k + 1)
    BY <1>1, <1>4, <1>6, Neighbours
  <2>3. QED
    BY <1>4, <1>6, <1>7, <2>1, <2>2
<1>9. ASSUME NEW i \in 1 .. n - 1
      PROVE  /\ next'[order'[i]] = IF i = n - 1 THEN Null ELSE order'[i + 1]
             /\ prev'[order'[i]] = IF i = 1 THEN Null ELSE order'[i - 1]
  <2>0. n - 1 \in Nat /\ i \in 1 .. n /\ i + 1 \in 1 .. n /\ i \in Nat /\ k \in Nat /\ i + 1 - 1 = i
    BY <1>1
  <2>1. order'[i] = IF i < k THEN order[i] ELSE order[i + 1]
    BY <1>5
  <2>2. i # n - 1 => order'[i + 1] = IF i + 1 < k THEN order[i + 1] ELSE order[i + 1 + 1]
    <3>1. i # n - 1 => i + 1 \in 1 .. n - 1
      BY <1>1
    <3>2. QED
      BY <1>5, <3>1
  <2>3. i # 1 => order'[i - 1] = IF i - 1 < k THEN order[i - 1] ELSE order[i]
    <3>1. i # 1 => i - 1 \in 1 .. n - 1 /\ i - 1 + 1 = i
      BY <1>1
    <3>2. QED
      BY <1>5, <3>1
  <2>4. CASE i + 1 < k
    <3>1. /\ next'[order[i]] = order[i + 1] /\ i # n - 1
      BY <1>1, <1>8, <2>0, <2>4
    <3>2. prev'[order[i]] = IF i = 1 THEN Null ELSE order[i - 1]
      BY <1>1, <1>8, <2>0, <2>4
    <3>3. i < k /\ (i - 1 < k)
      BY <2>0, <2>4
    <3>4. QED
      BY <2>1, <2>2, <2>3, <2>4, <3>1, <3>2, <3>3
  <2>5. CASE i + 1 = k
    <3>1. k # 1 /\ i = k - 1 /\ i < k /\ i - 1 < k /\ ~ (i + 1 < k) /\ (i = n - 1 <=> k = n)
      BY <1>1, <2>0, <2>5
    <3>2. next'[order[i]] = next[m]
      BY <1>8, <2>0, <3>1
    <3>3. next[m] = IF i = n - 1 THEN Null ELSE order[i + 1 + 1]
      BY <1>6, <2>5, <3>1
    <3>4. prev'[order[i]] = IF i = 1 THEN Null ELSE order[i - 1]
      BY <1>1, <1>8, <2>0, <2>5
    <3>5. QED
      BY <2>1, <2>2, <2>3, <3>1, <3>2, <3>3, <3>4
  <2>6. CASE i = k
    <3>1. ~ (i < k) /\ ~ (i + 1 < k) /\ i - 1 < k /\ k # n /\ (i = n - 1 <=> i + 1 = n) /\ i + 1 # k - 1
      BY <1>1, <2>0, <2>6
    <3>2. next'[order[i + 1]] = IF i + 1 = n THEN Null ELSE order[i + 1 + 1]
      BY <1>8, <2>0, <3>1
    <3>3. prev'[order[i + 1]] = prev[m]
      BY <1>8, <2>0, <2>6, <3>1
    <3>4. QED
      BY <1>6, <2>1, <2>2, <2>3, <2>6, <3>1, <3>2, <3>3
  <2>7. CASE k < i
    <3>1. /\ ~ (i < k) /\ ~ (i + 1 < k) /\ ~ (i - 1 < k) /\ i # 1 /\ (i = n - 1 <=> i + 1 = n)
          /\ i + 1 # k - 1 /\ i + 1 # k + 1 /\ i + 1 # 1
      BY <1>1, <2>0, <2>7
    <3>2. next'[order[i + 1]] = IF i + 1 = n THEN Null ELSE order[i + 1 + 1]
      BY <1>8, <2>0, <3>1
    <3>3. prev'[order[i + 1]] = order[i]
      BY <1>8, <2>0, <3>1
    <3>4. QED
      BY <2>1, <2>2, <2>3, <3>1, <3>2, <3>3
  <2>8. QED
    BY <2>0, <2>4, <2>5, <2>6, <2>7
<1>10. /\ DOMAIN order' = 1 .. n - 1
       /\ order' = <<>> <=> n = 1
  BY <1>1, <1>5
<1>11. map' = IF n = 1 THEN Null ELSE order'[1]
  <2>1. n # 1 => 1 \in 1 .. n - 1 /\ (1 < k <=> k # 1) /\ 1 + 1 = 2
    BY <1>1
  <2>2. n = 1 => k = 1 /\ k = n
    BY <1>1
  <2>3. QED
    BY <1>5, <1>6, <1>7, <2>1, <2>2
<1>12. tail' = IF n = 1 THEN Null ELSE order'[n - 1]
  <2>1. n # 1 => n - 1 \in 1 .. n - 1 /\ (n - 1 < k <=> k = n) /\ (n - 1) + 1 = n
    BY <1>1
  <2>2. n = 1 => k = 1 /\ k = n
    BY <1>1
  <2>3. QED
    BY <1>5, <1>6, <1>7, <2>1, <2>2
<1>13. Chained'
  BY <1>5, <1>9, <1>10, <1>11 DEF Chained
<1>14. ChainedBack'
  BY <1>5, <1>9, <1>10, <1>12 DEF ChainedBack
<1>15. TypeOK'
  <2>1. map' \in LinkMaps \cup {Null}
    BY <1>1, <1>3, <1>4, <1>7 DEF TypeOK
  <2>2. tail' \in LinkMaps \cup {Null}
    BY <1>1, <1>3, <1>4, <1>7 DEF TypeOK
  <2>3. QED
    BY <1>1, <1>2, <1>5, <1>7, <2>1, <2>2 DEF TypeOK
<1>16. linked' \subseteq live' \cup Host
  BY <1>2, <1>5 DEF Inv
<1>17. OutsidersPointNowhere'
  <2> SUFFICES ASSUME NEW x \in live \ linked
               PROVE  prev'[x] = Null /\ next'[x] = Null
    BY <1>2, <1>5 DEF OutsidersPointNowhere
  <2>1. x \in LinkMaps
    BY <1>1 DEF TypeOK, LinkMaps
  <2>2. \A i \in 1 .. n : order[i] # x
    BY <1>1, ListedAt DEF n
  <2>3. /\ k # 1 => x # prev[m]
        /\ k # n => x # next[m]
    BY <1>1, <1>6, <2>2, Neighbours
  <2>4. QED
    BY <1>7, <2>1, <2>3 DEF Inv, OutsidersPointNowhere
<1>18. StopsAtListed'
  BY <1>2 DEF StopsAtListed
<1>19. QED
  BY <1>2, <1>13, <1>14, <1>15, <1>16, <1>17, <1>18 DEF Inv

\* Every step keeps the invariant.
LEMMA InvStep == Inv /\ [Next]_vars => Inv'
<1> SUFFICES ASSUME Inv, [Next]_vars PROVE Inv'
  OBVIOUS
<1>1. CASE UNCHANGED vars
  <2>1. linked' = linked
    BY <1>1 DEF vars, linked
  <2>2. TypeOK'
    BY <1>1, Zenon DEF vars, Inv, TypeOK
  <2>3. Chained' /\ ChainedBack'
    BY <1>1 DEF vars, Inv, Chained, ChainedBack
  <2>4. (OutsidersPointNowhere /\ StopsAtListed)'
    BY <1>1, <2>1 DEF vars, Inv, OutsidersPointNowhere, StopsAtListed
  <2>5. (linked \subseteq live \cup Host)'
    BY <1>1, <2>1 DEF vars, Inv
  <2>6. QED
    BY <2>2, <2>3, <2>4, <2>5 DEF Inv
<1>2. CASE Next
  BY <1>2, NewLinkMapInv, AddInv, DropUnlistedInv, DropBeginInv, DropEndInv DEF Next
<1>3. QED
  BY <1>1, <1>2

\* What the invariant says of the links.
LEMMA InvWellLinked == Inv => WellLinked
<1> SUFFICES ASSUME Inv PROVE WellLinked
  OBVIOUS
<1> DEFINE n == Len(order)
<1>1. TypeOK /\ Chained /\ ChainedBack /\ n \in Nat /\ DOMAIN order = 1 .. n
  BY ListedAt DEF Inv
<1>2. /\ \A i \in 1 .. n : order[i] \in linked /\ order[i] # Null
      /\ \A x \in linked : \E i \in 1 .. n : x = order[i]
      /\ \A i, j \in 1 .. n : order[i] = order[j] => i = j
  <2>1. \A i, j \in 1 .. n : order[i] = order[j] => i = j
    BY <1>1 DEF Chained, IsInjective
  <2>2. \A x \in linked : x # Null
    BY <1>1, ListedAt, LinkMapsAssumption
  <2>3. QED
    BY <1>1, <2>1, <2>2, ListedAt
<1>3. /\ map = IF n = 0 THEN Null ELSE order[1]
      /\ tail = IF n = 0 THEN Null ELSE order[n]
      /\ \A i \in 1 .. n : /\ next[order[i]] = IF i = n THEN Null ELSE order[i + 1]
                           /\ prev[order[i]] = IF i = 1 THEN Null ELSE order[i - 1]
  BY <1>1, ListedAt DEF Chained, ChainedBack
<1> HIDE DEF n
<1>4. n # 0 => 1 \in 1 .. n /\ n \in 1 .. n
  BY <1>1
<1>5. n = 0 <=> linked = {}
  <2>1. n = 0 => 1 .. n = {}
    BY <1>1
  <2>2. QED
    BY <1>2, <1>4, <2>1
<1>6. /\ map = Null <=> linked = {}
      /\ tail = Null <=> linked = {}
      /\ map # Null => map \in linked
      /\ tail # Null => tail \in linked
  BY <1>2, <1>3, <1>4, <1>5
<1>7. ASSUME NEW m \in linked
      PROVE  /\ prev[m] = Null <=> m = map
             /\ next[m] = Null <=> m = tail
             /\ prev[m] # Null => prev[m] \in linked /\ next[prev[m]] = m
             /\ next[m] # Null => next[m] \in linked /\ prev[next[m]] = m
  <2>1. PICK i \in 1 .. n : m = order[i]
    BY <1>2
  <2>2. n # 0 /\ i \in Nat
    BY <1>1
  <2>3. /\ m = map <=> i = 1
        /\ m = tail <=> i = n
    BY <1>2, <1>3, <1>4, <2>1, <2>2
  <2>4. i # 1 => /\ i - 1 \in 1 .. n /\ i - 1 # n /\ (i - 1) + 1 = i
    BY <1>1
  <2>5. i # n => /\ i + 1 \in 1 .. n /\ i + 1 # 1 /\ (i + 1) - 1 = i
    BY <1>1
  <2>6. /\ prev[m] = IF i = 1 THEN Null ELSE order[i - 1]
        /\ next[m] = IF i = n THEN Null ELSE order[i + 1]
    BY <1>3, <2>1
  <2>7. i # 1 => order[i - 1] \in linked /\ order[i - 1] # Null /\ next[order[i - 1]] = m
    BY <1>2, <1>3, <2>1, <2>4
  <2>8. i # n => order[i + 1] \in linked /\ order[i + 1] # Null /\ prev[order[i + 1]] = m
    BY <1>2, <1>3, <2>1, <2>5
  <2>9. QED
    BY <2>3, <2>6, <2>7, <2>8
<1>8. QED
  BY <1>6, <1>7 DEF Inv, WellLinked

LEMMA InvLoadOrder == Inv => LoadOrder
<1> SUFFICES ASSUME Inv, NEW i \in 1 .. Len(order) - 1
             PROVE  next[order[i]] = order[i + 1]
  BY DEF LoadOrder
<1> DEFINE n == Len(order)
<1>1. TypeOK /\ Chained /\ n \in Nat /\ DOMAIN order = 1 .. n
  BY ListedAt DEF Inv
<1>2. i \in 1 .. n /\ i # n
  <2> HIDE DEF n
  <2>1. i \in 1 .. n - 1
    BY DEF n
  <2>2. QED
    BY <1>1, <2>1
<1>3. QED
  BY <1>1, <1>2 DEF Chained

-----------------------------------------------------------------------------
(* The constructor keeps the list of the host as it is.                    *)

\* The link maps this loader allocates are none of the host's.
LEMMA OwnIsNotHost ==
  /\ Null \notin Host /\ Null \notin Own /\ Idle \notin Own
  /\ \A m \in Own : m \notin Host
BY LinkMapsAssumption DEF LinkMaps

LEMMA HInitInv == HInit => HInv
<1> SUFFICES ASSUME HInit PROVE HInv
  OBVIOUS
<1>1. /\ order = <<>> /\ Len(order) = 0 /\ DOMAIN order = {} /\ linked = {}
  <2>1. order = <<>>
    BY DEF HInit
  <2>2. DOMAIN order = {} /\ Len(order) = 0
    BY <2>1
  <2>3. QED
    BY <2>1, <2>2 DEF linked, Range
<1>2. Chained /\ ChainedBack
  BY <1>1 DEF HInit, Chained, ChainedBack, IsInjective
<1>3. TypeOK
  <2>1. order \in Seq(LinkMaps)
    BY <1>1
  <2>2. /\ next \in [LinkMaps -> LinkMaps \cup {Null}]
        /\ prev \in [LinkMaps -> LinkMaps \cup {Null}]
    BY HostNextIs, HostPrevIs DEF HInit
  <2>3. QED
    BY <2>1, <2>2 DEF HInit, TypeOK
<1>4. Inv
  BY <1>1, <1>2, <1>3 DEF HInit, Inv, OutsidersPointNowhere, StopsAtListed
<1>5. HTypeOK
  <2>1. registered \in Seq([object : DOMAIN Objects, host : Host \cup {Null}, map : Own,
                            dynamic : {Objects[o].dynamic : o \in DOMAIN Objects}])
    BY DEF HInit
  <2>2. QED
    BY <2>1 DEF HInit, HTypeOK
<1>6. StartInv /\ HostListInv
  BY DEF HInit, StartInv, HostListInv
<1>7. FoundInv
  BY DEF HInit, FoundInv
<1>8. RegisteredInv /\ EndInv
  <2>1. registered = <<>> /\ DOMAIN registered = {} /\ Len(registered) = 0 /\ pc = "start"
    BY DEF HInit
  <2>2. Len(process.reported) \in Nat
    <3>1. process.reported \in Seq(DOMAIN Objects)
      BY HostAssumption DEF HInit
    <3>2. QED
      BY <3>1
  <2>3. QED
    BY <2>1, <2>2 DEF RegisteredInv, EndInv
<1>9. QED
  BY <1>4, <1>5, <1>6, <1>7, <1>8 DEF HInv

\* Steps that leave the list alone.
LEMMA VarsInv == Inv /\ UNCHANGED vars => Inv' /\ linked' = linked
<1>1. Inv /\ UNCHANGED vars => Inv'
  BY InvStep
<1>2. UNCHANGED vars => linked' = linked
  BY DEF vars, linked
<1>3. QED
  BY <1>1, <1>2

\* The walk and the list are the same, before and after a step.
LEMMA InvWalk == Inv => Walk = order
BY WalkIsOrder DEF Inv, TypeOK

\* init_host_debug finds the end of the host's list.
LEMMA TakeOverInv ==
  ASSUME HInv, TakeOver
  PROVE  Inv' /\ order' = First /\ Walk' = First
<1>1. /\ next' = HostNext /\ prev' = HostPrev /\ order' = First
      /\ live' = {} /\ stop' = Idle /\ rstate' = rstate
      /\ map' = IF First = <<>> THEN Null ELSE Head(First)
      /\ tail' = IF Walk' = <<>> THEN Null ELSE Last(Walk')
  BY DEF TakeOver, HInv, StartInv
<1>2. rstate = "consistent"
  BY DEF TakeOver, HInv, StartInv, Inv, StopsAtListed, TypeOK
<1>3. Chained'
  <2>1. (/\ next = HostNext /\ order = First
         /\ map = IF First = <<>> THEN Null ELSE Head(First)
         => Chained)'
    BY HostChained, PTL
  <2>2. QED
    BY <1>1, <2>1
<1>4. Walk' = First
  <2>1. (order \in Seq(LinkMaps) /\ Chained => Walk = order)'
    BY WalkIsOrder, PTL
  <2>2. QED
    BY <1>1, <1>3, <2>1, HostPositions
<1>5. tail' = IF First = <<>> THEN Null ELSE First[Len(First)]
  BY <1>1, <1>4 DEF Last
<1>6. ChainedBack'
  <2>1. (/\ prev = HostPrev /\ order = First
         /\ tail = IF First = <<>> THEN Null ELSE First[Len(First)]
         => ChainedBack)'
    BY HostChainedBack, PTL
  <2>2. QED
    BY <1>1, <1>5, <2>1
<1>7. TypeOK'
  <2>1. /\ map' \in LinkMaps \cup {Null} /\ tail' \in LinkMaps \cup {Null}
        /\ order' \in Seq(LinkMaps)
    BY <1>1, <1>5, HostPositions DEF LinkMaps
  <2>2. /\ next' \in [LinkMaps -> LinkMaps \cup {Null}]
        /\ prev' \in [LinkMaps -> LinkMaps \cup {Null}]
    BY <1>1, HostNextIs, HostPrevIs
  <2>3. QED
    BY <1>1, <1>2, <2>1, <2>2 DEF TypeOK
<1>8. linked' = Host
  BY <1>1, HostPositions DEF linked
<1>9. (OutsidersPointNowhere /\ StopsAtListed)'
  BY <1>1, <1>2 DEF OutsidersPointNowhere, StopsAtListed
<1>10. QED
  BY <1>1, <1>3, <1>4, <1>6, <1>7, <1>8, <1>9 DEF Inv

\* While the constructor runs the host's list is listed.
LEMMA ListIsHosts ==
  ASSUME HInv, pc \in {"walk", "drop", "report"}
  PROVE  /\ taken /\ order = First /\ stop = Idle /\ linked = Host /\ Walk = First
         /\ map = IF First = <<>> THEN Null ELSE First[1]
<1>1. taken /\ order = First /\ stop = Idle
  BY DEF HInv, HostListInv
<1>2. QED
  BY <1>1, HostPositions, InvWalk DEF HInv, Inv, Chained, linked

\* What dropping the object that was only looked at does to the list: nothing.
LEMMA DropTemp ==
  ASSUME HInv, pc = "drop", temp \in live,
         DropUnlisted(temp) \/ DropBegin(temp) \/ DropEnd(temp)
  PROVE  DropUnlisted(temp) /\ Inv' /\ order' = order
<1>1. temp \in Own /\ linked = Host /\ stop = Idle /\ Inv
  BY ListIsHosts DEF HInv, FoundInv
<1>2. ~ DropBegin(temp)
  BY <1>1, DropBeginInv, OwnIsNotHost
<1>3. ~ DropEnd(temp)
  BY <1>1, OwnIsNotHost DEF DropEnd
<1>4. QED
  BY <1>1, <1>2, <1>3, DropUnlistedInv

\* A step of LinkMapStep keeps the list as its action does, and takes away or adds no
\* link map that was registered.
LEMMA LinkMapStepInv ==
  ASSUME HInv, LinkMapStep
  PROVE  /\ Inv' /\ pc \in {"drop", "run"} /\ UNCHANGED hostVars
         /\ pc = "drop" => order' = order /\ stop' = stop
         /\ \A k \in DOMAIN registered :
              registered[k].map \in live \ linked => registered[k].map \in live' \ linked'
<1>1. UNCHANGED hostVars /\ Inv /\ live \subseteq Own /\ pc \in {"drop", "run"}
  <2>1. pc \in {"drop", "run"}
    BY DEF LinkMapStep, Droppable, HInv, HTypeOK
  <2>2. QED
    BY <2>1 DEF LinkMapStep, HInv, Inv, TypeOK
<1>2. ASSUME NEW m \in Own, NewLinkMap(m), pc = "run"
      PROVE  Inv' /\ live \subseteq live' /\ linked' = linked
  BY <1>1, <1>2, NewLinkMapInv DEF NewLinkMap, linked
<1>3. ASSUME NEW m \in Own, Add(m)
      PROVE  Inv' /\ live' = live /\ linked' = linked \cup {m}
  <2>1. order \in Seq(LinkMaps) /\ m \in LinkMaps
    BY <1>1 DEF Inv, TypeOK, LinkMaps
  <2>2. Range(Append(order, m)) = Range(order) \cup {m}
    BY <2>1, AppendNew
  <2>3. QED
    BY <1>1, <1>3, <2>2, AddInv DEF Add, linked
<1>4. ASSUME NEW m \in Own, DropUnlisted(m)
      PROVE  Inv' /\ live' = live \ {m} /\ linked' = linked /\ stop' = stop
  BY <1>1, <1>4, DropUnlistedInv DEF DropUnlisted, linked
<1>5. ASSUME NEW m \in Own, DropBegin(m)
      PROVE  Inv' /\ live' = live /\ linked' = linked
  BY <1>1, <1>5, DropBeginInv DEF DropBegin, linked
<1>6. ASSUME NEW m \in Own, DropEnd(m)
      PROVE  Inv' /\ live' = live \ {m} /\ linked' = linked \ {m}
  <2>1. order \in Seq(LinkMaps) /\ IsInjective(order)
    BY <1>1 DEF Inv, TypeOK, Chained
  <2>2. Range(RemoveFirst(order, m)) = Range(order) \ {m}
    BY <2>1, RemoveFirstRange
  <2>3. QED
    BY <1>1, <1>6, <2>2, DropEndInv DEF DropEnd, linked
<1>7. CASE pc = "run"
  <2>1. \A k \in DOMAIN registered : registered[k].map \in Pinned
    BY DEF Pinned
  <2>2. Droppable = live \ Pinned
    BY <1>7 DEF Droppable
  <2>3. CASE NewLinkMap(NewAddress)
    <3>1. NewAddress \in Own
      BY <2>3 DEF NewLinkMap
    <3>2. QED
      BY <1>1, <1>2, <1>7, <2>3, <3>1
  <2>4. CASE \E m \in live \ Pinned : Add(m)
    BY <1>1, <1>3, <1>7, <2>1, <2>4
  <2>5. CASE \E m \in Droppable : DropUnlisted(m) \/ DropBegin(m) \/ DropEnd(m)
    BY <1>1, <1>4, <1>5, <1>6, <1>7, <2>1, <2>2, <2>5
  <2>6. QED
    BY <2>3, <2>4, <2>5 DEF LinkMapStep
<1>8. CASE pc = "drop"
  <2>1. Droppable = live \cap {temp}
    BY <1>8 DEF Droppable
  <2>2. temp \in live /\ (DropUnlisted(temp) \/ DropBegin(temp) \/ DropEnd(temp))
    BY <1>8, <2>1 DEF LinkMapStep
  <2>3. DropUnlisted(temp) /\ Inv' /\ order' = order
    BY <1>8, <2>2, DropTemp
  <2>4. registered = <<>> /\ DOMAIN registered = {}
    BY <1>8 DEF HInv, StartInv
  <2>5. QED
    BY <1>1, <1>4, <1>8, <2>2, <2>3, <2>4
<1>9. QED
  BY <1>1, <1>7, <1>8

\* The list stays well linked in every step.
LEMMA HStepInv ==
  ASSUME HInv, [HNext]_hvars
  PROVE  Inv'
<1>1. Inv
  BY DEF HInv
<1>2. CASE UNCHANGED vars
  BY <1>1, <1>2, VarsInv
<1>3. CASE Examine
  <2>1. NewLinkMap(NewAddress)
    BY <1>3 DEF Examine, FromRaw
  <2>2. QED
    BY <1>1, <2>1, NewLinkMapInv DEF NewLinkMap
<1>4. CASE Callback
  <2>1. UNCHANGED vars \/ NewLinkMap(NewAddress)
    BY <1>4 DEF Callback, FromRaw
  <2>2. QED
    BY <1>1, <1>2, <2>1, NewLinkMapInv DEF NewLinkMap
<1>5. CASE TakeOver
  BY <1>5, TakeOverInv
<1>6. CASE LinkMapStep
  BY <1>6, LinkMapStepInv
<1>7. UNCHANGED vars \/ Examine \/ Callback \/ TakeOver \/ LinkMapStep
  BY DEF HNext, hvars, NoHostDebug, Dropped, Skip, EndWalk, EndReport
<1>8. QED
  BY <1>2, <1>3, <1>4, <1>5, <1>6, <1>7

-----------------------------------------------------------------------------
(* What the constructor finds.                                             *)

\* The objects passed, in terms of the place of the cursor.
PassedUpTo ==
  \A k \in 1 .. Len(First) :
    pc \in {"walk", "drop"} /\ cursor = First[k] =>
      \A o \in Host : o \in Passed <=> at(o) < k \/ (at(o) = k /\ pc = "drop")

LEMMA PassedIs == PassedUpTo
<1> SUFFICES ASSUME NEW k \in 1 .. Len(First), pc \in {"walk", "drop"}, cursor = First[k],
                    NEW o \in Host
             PROVE  o \in Passed <=> at(o) < k \/ (at(o) = k /\ pc = "drop")
  BY DEF PassedUpTo
<1>1. cursor # Null
  BY HostPositions, OwnIsNotHost
<1>2. Passed = {First[j] : j \in {j \in DOMAIN First :
                              \E i \in DOMAIN First :
                                First[i] = cursor /\ (j < i \/ (j = i /\ pc = "drop"))}}
  BY <1>1 DEF Passed
<1>3. \A i \in DOMAIN First : First[i] = cursor <=> i = k
  BY HostPositions DEF IsInjective
<1>4. k \in DOMAIN First
  BY HostPositions
<1>5. Passed = {First[j] : j \in {j \in DOMAIN First : j < k \/ (j = k /\ pc = "drop")}}
  BY <1>2, <1>3, <1>4
<1>6. at(o) \in DOMAIN First /\ First[at(o)] = o
  BY HostPositions
<1>7. \A j \in DOMAIN First : First[j] = o => j = at(o)
  BY HostPositions
<1>8. QED
  BY <1>5, <1>6, <1>7

\* Where the cursor goes.
LEMMA CursorAt ==
  ASSUME HInv, pc \in {"walk", "drop"}, cursor # Null
  PROVE  /\ cursor \in Host /\ at(cursor) \in 1 .. Len(First) /\ First[at(cursor)] = cursor
         /\ next[cursor] = IF at(cursor) = Len(First) THEN Null ELSE First[at(cursor) + 1]
<1>1. cursor \in Host
  BY DEF HInv, FoundInv
<1>2. order = First /\ Chained
  BY DEF HInv, HostListInv, Inv
<1>3. QED
  BY <1>1, <1>2, HostPositions DEF Chained

\* Moving on from an object passes it.
LEMMA PassedOn ==
  ASSUME HInv, pc \in {"walk", "drop"}, cursor # Null,
         pc' = "walk", cursor' = next[cursor]
  PROVE  /\ cursor' \in Host \cup {Null}
         /\ \A o \in Passed' : o \in Host /\ (o \in Passed \/ (o = cursor /\ pc = "walk"))
<1> DEFINE k == at(cursor)
<1>1. /\ cursor \in Host /\ k \in 1 .. Len(First) /\ First[k] = cursor
      /\ next[cursor] = IF k = Len(First) THEN Null ELSE First[k + 1]
  BY CursorAt
<1>2. \A o \in Host : o \in Passed <=> at(o) < k \/ (at(o) = k /\ pc = "drop")
  BY <1>1, PassedIs DEF PassedUpTo
<1>3. /\ Len(First) \in Nat
      /\ \A o \in Host : at(o) \in 1 .. Len(First) /\ First[at(o)] = o
  BY HostPositions
<1>4. Passed' \subseteq Host
  <2>1. Passed \subseteq Host
    BY HostPositions DEF Passed
  <2>2. (Passed \subseteq Host)'
    BY HostPositions DEF Passed
  <2>3. QED
    BY <2>2
<1> HIDE DEF k
<1>5. CASE k = Len(First)
  <2>1. \A o \in Host : at(o) < k \/ at(o) = k
    BY <1>3, <1>5
  <2>2. \A o \in Host : at(o) = k => o = cursor
    BY <1>1, <1>3
  <2>3. \A o \in Host : o \in Passed \/ (o = cursor /\ pc = "walk")
    BY <1>2, <2>1, <2>2
  <2>4. QED
    BY <1>1, <1>4, <1>5, <2>3
<1>6. CASE k # Len(First)
  <2>1. k + 1 \in 1 .. Len(First)
    BY <1>1, <1>3, <1>6, Neighbours
  <2>2. cursor' = First[k + 1]
    BY <1>1, <1>6
  <2>3. PassedUpTo'
    BY PassedIs, PTL
  <2>4. \A o \in Host : o \in Passed' <=> at(o) < k + 1
    BY <2>1, <2>2, <2>3 DEF PassedUpTo
  <2>5. ASSUME NEW o \in Host, at(o) < k + 1
        PROVE  o \in Passed \/ (o = cursor /\ pc = "walk")
    <3>1. at(o) < k \/ at(o) = k
      BY <1>1, <1>3, <2>5
    <3>2. at(o) = k => o = cursor
      BY <1>1, <1>3
    <3>3. QED
      BY <1>2, <3>1, <3>2
  <2>6. QED
    BY <1>4, <2>1, <2>2, <2>4, <2>5, HostPositions
<1>7. QED
  BY <1>5, <1>6

\* FoundInv is kept by steps that move neither the cursor nor what was found.
LEMMA FoundKept ==
  ASSUME FoundInv, UNCHANGED <<found, musl, process, cursor, temp, taken>>,
         pc' = pc \/ (pc \in {"walk", "report"} /\ pc' \in {"report", "run", "abort"} /\ (pc = "walk" => cursor = Null))
  PROVE  FoundInv'
<1>1. pc' # "abort" => Passed' = Passed /\ pc # "abort"
  BY DEF Passed
<1>2. \A o : is_libc(o)' = is_libc(o) /\ Looked(o)' = Looked(o)
  BY DEF is_libc, Looked
<1>3. DOMAIN found' = ProcessGlobals \cup {Atexit, IteratePhdr}
  BY DEF FoundInv
<1>4. /\ pc' \in {"walk", "drop"} => cursor' \in Host \cup {Null}
      /\ pc' = "drop" => cursor' # Null /\ temp' \in Own
      /\ musl' => process'.musl
  BY DEF FoundInv
<1>5. \A s \in DOMAIN found' :
        /\ found'[s] # Null => found'[s] \in Host /\ s \in Objects[found'[s]].symbols
        /\ taken' /\ pc' # "abort" =>
             \A o \in Passed' : Looked(o) /\ is_libc(o) /\ s \in Objects[o].symbols =>
               found'[s] # Null
  BY <1>1 DEF FoundInv
<1>6. QED
  BY <1>3, <1>4, <1>5 DEF FoundInv, Looked, is_libc

LEMMA FoundTakeOver ==
  ASSUME HInv, TakeOver
  PROVE  FoundInv'
<1>1. /\ pc' = "walk" /\ cursor' = map' /\ UNCHANGED <<process, temp, musl, found>>
      /\ map' = IF First = <<>> THEN Null ELSE Head(First)
      /\ FoundInv
  BY DEF TakeOver, HInv
<1>2. cursor' = IF First = <<>> THEN Null ELSE First[1]
  BY <1>1, HostPositions
<1>3. cursor' \in Host \cup {Null}
  <2>1. First # <<>> => 1 \in 1 .. Len(First)
    <3>1. First # <<>> => Len(First) # 0 /\ Len(First) \in Nat
      BY HostPositions
    <3>2. QED
      BY <3>1
  <2>2. QED
    BY <1>2, <2>1, HostPositions
<1>4. Passed' = {}
  <2>1. CASE First = <<>>
    <3>1. Host = {}
      BY <2>1, HostPositions DEF Range
    <3>2. (Passed \subseteq Host)'
      BY HostPositions DEF Passed
    <3>3. QED
      BY <3>1, <3>2
  <2>2. CASE First # <<>>
    <3>1. Len(First) # 0 /\ Len(First) \in Nat
      BY <2>2, HostPositions
    <3>2. 1 \in 1 .. Len(First)
      BY <3>1
    <3>3. PassedUpTo'
      BY PassedIs, PTL
    <3>4. \A o \in Host : o \in Passed' <=> at(o) < 1
      BY <1>1, <1>2, <2>2, <3>2, <3>3 DEF PassedUpTo
    <3>5. \A o \in Host : ~ (at(o) < 1)
      <4>1. \A o \in Host : at(o) \in 1 .. Len(First)
        BY HostPositions
      <4>2. QED
        BY <3>1, <4>1
    <3>6. (Passed \subseteq Host)'
      BY HostPositions DEF Passed
    <3>7. QED
      BY <3>4, <3>5, <3>6
  <2>3. QED
    BY <2>1, <2>2
<1>5. QED
  BY <1>1, <1>3, <1>4 DEF FoundInv

\* find_iterate_phdr looks an object up.
LEMMA FoundExamine ==
  ASSUME HInv, Examine
  PROVE  FoundInv'
<1> DEFINE k == at(cursor)
<1>1. /\ pc = "walk" /\ cursor # Null /\ pc' = "drop" /\ temp' = NewAddress
      /\ UNCHANGED <<process, taken, cursor>>
      /\ found' = LookUp(cursor)
      /\ musl' = (musl \/ (process.musl /\ Objects[cursor].name = "libc"))
      /\ NewLinkMap(NewAddress)
      /\ FoundInv
  BY DEF Examine, HInv, FromRaw, SeenMusl
<1>2. /\ cursor \in Host /\ k \in 1 .. Len(First) /\ First[k] = cursor
  BY <1>1, CursorAt
<1>3. temp' \in Own
  BY <1>1 DEF NewLinkMap
<1>4. /\ \A o \in Host : o \in Passed <=> at(o) < k
      /\ \A o \in Host : o \in Passed' <=> at(o) < k \/ at(o) = k
  <2>1. PassedUpTo'
    BY PassedIs, PTL
  <2>2. QED
    BY <1>1, <1>2, <2>1, PassedIs DEF PassedUpTo
<1>5. \A o \in Passed' : o \in Host /\ (o \in Passed \/ o = cursor)
  <2>1. (Passed \subseteq Host)'
    BY HostPositions DEF Passed
  <2>2. \A o \in Host : at(o) = k => o = cursor
    BY HostPositions, <1>2
  <2>3. QED
    BY <1>4, <2>1, <2>2
<1>6. /\ DOMAIN found' = DOMAIN found
      /\ \A s \in DOMAIN found :
           found'[s] = IF /\ found[s] = Null
                          /\ s \in Objects[cursor].symbols
                          /\ s \in ProcessGlobals \/ is_libc(cursor)
                       THEN cursor ELSE found[s]
  BY <1>1 DEF LookUp
<1>7. cursor # Null
  BY <1>1
<1>8. \A s \in DOMAIN found :
        /\ found'[s] # Null => found'[s] \in Host /\ s \in Objects[found'[s]].symbols
        /\ found[s] # Null => found'[s] # Null
        /\ is_libc(cursor) /\ s \in Objects[cursor].symbols => found'[s] # Null
  BY <1>1, <1>2, <1>6 DEF FoundInv
<1>9. musl' => process'.musl
  BY <1>1 DEF FoundInv
<1>10. ASSUME NEW s \in DOMAIN found, taken, NEW o \in Passed', Looked(o), is_libc(o),
              s \in Objects[o].symbols
       PROVE  found'[s] # Null
  <2>1. CASE o \in Passed
    BY <1>1, <1>8, <1>10, <2>1 DEF FoundInv
  <2>2. CASE o = cursor
    BY <1>8, <1>10, <2>2
  <2>3. QED
    BY <1>5, <2>1, <2>2
<1>11. DOMAIN found' = ProcessGlobals \cup {Atexit, IteratePhdr}
  BY <1>1, <1>6 DEF FoundInv
<1>12. QED
  BY <1>1, <1>2, <1>3, <1>6, <1>8, <1>9, <1>10, <1>11 DEF FoundInv, Looked, is_libc

\* The walk goes on.
LEMMA FoundMove ==
  ASSUME HInv, Dropped \/ Skip
  PROVE  FoundInv'
<1>1. /\ pc \in {"walk", "drop"} /\ pc' = "walk" /\ cursor' = next[cursor] /\ cursor # Null
      /\ UNCHANGED <<process, taken, found>>
      /\ musl' = musl \/ musl' = SeenMusl(cursor)
      /\ pc = "walk" => ~ Looked(cursor)
      /\ FoundInv
  <2>1. FoundInv
    BY DEF HInv
  <2>2. CASE Dropped
    BY <2>1, <2>2 DEF Dropped, FoundInv
  <2>3. CASE Skip
    BY <2>1, <2>3 DEF Skip
  <2>4. QED
    BY <2>2, <2>3
<1>2. /\ cursor' \in Host \cup {Null}
      /\ \A o \in Passed' : o \in Host /\ (o \in Passed \/ (o = cursor /\ pc = "walk"))
  BY <1>1, PassedOn
<1>3. ASSUME NEW s \in DOMAIN found, taken, NEW o \in Passed', Looked(o), is_libc(o),
             s \in Objects[o].symbols
      PROVE  found[s] # Null
  BY <1>1, <1>2, <1>3 DEF FoundInv
<1>4. musl' => process'.musl
  BY <1>1 DEF FoundInv, SeenMusl
<1>5. QED
  BY <1>1, <1>2, <1>3, <1>4 DEF FoundInv, Looked, is_libc

LEMMA HStepFound ==
  ASSUME HInv, [HNext]_hvars
  PROVE  FoundInv'
<1>1. FoundInv /\ HTypeOK
  BY DEF HInv
<1>2. CASE NoHostDebug
  <2>1. /\ pc = "start" /\ pc' = "run" /\ ~ taken /\ UNCHANGED <<found, musl, process, taken>>
    BY <1>2 DEF NoHostDebug, HInv, StartInv
  <2>2. QED
    BY <1>1, <2>1 DEF FoundInv
<1>3. CASE EndWalk \/ Callback \/ EndReport \/ LinkMapStep \/ UNCHANGED hvars
  <2>1. UNCHANGED <<found, musl, process, cursor, temp, taken>>
    BY <1>3 DEF EndWalk, Callback, EndReport, LinkMapStep, hvars, hostVars
  <2>2. pc' = pc \/ (pc \in {"walk", "report"} /\ pc' \in {"report", "run", "abort"} /\ (pc = "walk" => cursor = Null))
    BY <1>3 DEF EndWalk, Callback, EndReport, LinkMapStep, hvars, hostVars
  <2>3. QED
    BY <1>1, <2>1, <2>2, FoundKept
<1>4. QED
  BY <1>2, <1>3, FoundTakeOver, FoundExamine, FoundMove DEF HNext

-----------------------------------------------------------------------------
(* What the constructor registers.                                         *)

\* find_host_link_map: the bases of the objects differ, so it is the object's own.
LEMMA HostLinkMapIs ==
  ASSUME HInv, pc = "report", NEW o \in DOMAIN Objects
  PROVE  find_host_link_map(Objects[o].base) = IF o \in Host THEN o ELSE Null
<1>1. Walk = First
  BY ListIsHosts
<1> DEFINE hits == {i \in DOMAIN First : Objects[First[i]].base = Objects[o].base}
<1>2. find_host_link_map(Objects[o].base) =
        IF hits = {} THEN Null ELSE First[CHOOSE i \in hits : \A j \in hits : i <= j]
  BY <1>1 DEF find_host_link_map
<1>3. \A i \in DOMAIN First : First[i] \in Host /\ First[i] \in DOMAIN Objects
  BY HostPositions, HostAssumption
<1>4. \A i \in DOMAIN First : i \in hits <=> First[i] = o
  BY <1>3, ObjectsAssumption
<1>5. CASE o \in Host
  <2>1. at(o) \in DOMAIN First /\ First[at(o)] = o
    BY <1>5, HostPositions
  <2>2. hits = {at(o)}
    BY <1>4, <2>1, HostPositions
  <2>3. at(o) <= at(o)
    BY <2>1, HostPositions
  <2> HIDE DEF hits
  <2>4. (CHOOSE i \in hits : \A j \in hits : i <= j) = at(o)
    BY <2>2, <2>3
  <2>5. QED
    BY <1>2, <1>5, <2>1, <2>2, <2>4
<1>6. CASE o \notin Host
  <2>1. hits = {}
    BY <1>3, <1>4, <1>6
  <2>2. QED
    BY <1>2, <1>6, <2>1
<1>7. QED
  BY <1>5, <1>6

\* recover_dynamic_table undoes what glibc did to a dynamic section, and nothing else.
LEMMA DynamicRecovered ==
  ASSUME HInv, musl' = musl, NEW o \in DOMAIN Objects
  PROVE  DynamicOf(o) = Objects[o].dynamic
<1> DEFINE b == Objects[o].base
           table == Objects[o].dynamic
           D == DOMAIN table
           moved == ~ process.musl /\ Objects[o].name # "linux-vdso"
<1>1. /\ b \in Nat /\ table \in [D -> Nat] /\ table = [tag \in D |-> table[tag]]
      /\ \A tag \in D : /\ tag \in DT_ADDR_TAGS => b = 0 \/ table[tag] <= b
                        /\ tag \in Relocated => table[tag] > 0
  BY ObjectsAssumption
<1>2. InMemory(o) = [tag \in D |-> IF moved /\ tag \in Relocated THEN b + table[tag] ELSE table[tag]]
  BY DEF InMemory
<1>3. recover_dynamic_table(InMemory(o), b) =
        [tag \in DOMAIN InMemory(o) |->
           IF tag \in DT_ADDR_TAGS /\ InMemory(o)[tag] > b THEN InMemory(o)[tag] - b ELSE InMemory(o)[tag]]
  BY DEF recover_dynamic_table
<1>4. musl => process.musl
  BY DEF HInv, FoundInv
<1>5. DynamicOf(o) = IF Objects[o].name = "linux-vdso" \/ musl THEN InMemory(o)
                     ELSE recover_dynamic_table(InMemory(o), b)
  BY DEF DynamicOf
<1> DEFINE M == InMemory(o)
<1>6. DOMAIN M = D /\ \A tag \in D : M[tag] = IF moved /\ tag \in Relocated THEN b + table[tag] ELSE table[tag]
  BY <1>2
<1>7. ~ moved => M = table
  BY <1>1, <1>2
<1> HIDE DEF b, table, D, M
<1>8. ASSUME NEW tag \in D
      PROVE  (IF tag \in DT_ADDR_TAGS /\ M[tag] > b THEN M[tag] - b ELSE M[tag]) = table[tag]
  <2>1. /\ b \in Nat /\ table[tag] \in Nat
        /\ tag \in DT_ADDR_TAGS => b = 0 \/ table[tag] <= b
        /\ tag \in Relocated => table[tag] > 0
        /\ M[tag] = IF moved /\ tag \in Relocated THEN b + table[tag] ELSE table[tag]
    BY <1>1, <1>6
  <2>2. tag \in Relocated => tag \in DT_ADDR_TAGS
    BY DEF DT_ADDR_TAGS
  <2> DEFINE t == table[tag]
             u == M[tag]
  <2>3. CASE moved /\ tag \in Relocated
    <3>1. t \in Nat /\ t > 0 /\ u = b + t /\ tag \in DT_ADDR_TAGS
      BY <2>1, <2>2, <2>3
    <3> HIDE DEF t, u
    <3>2. u > b /\ u - b = t
      BY <2>1, <3>1
    <3>3. QED
      BY <3>1, <3>2 DEF t, u
  <2>4. CASE ~ (moved /\ tag \in Relocated)
    <3>1. t \in Nat /\ u = t /\ (tag \in DT_ADDR_TAGS => b = 0 \/ t <= b)
      BY <2>1, <2>4
    <3> HIDE DEF t, u
    <3>2. tag \in DT_ADDR_TAGS /\ u > b => u - b = t
      BY <2>1, <3>1
    <3>3. QED
      BY <3>1, <3>2 DEF t, u
  <2>5. QED
    BY <2>3, <2>4
<1>9. recover_dynamic_table(InMemory(o), b) = table
  <2>1. recover_dynamic_table(M, b) = [tag \in D |-> IF tag \in DT_ADDR_TAGS /\ M[tag] > b THEN M[tag] - b ELSE M[tag]]
    BY <1>3, <1>6 DEF M
  <2>2. recover_dynamic_table(M, b) = [tag \in D |-> table[tag]]
    BY <1>8, <2>1
  <2>3. QED
    BY <1>1, <2>2 DEF M
<1>10. DynamicOf(o) = table
  BY <1>4, <1>5, <1>7, <1>9 DEF M
<1>11. QED
  BY <1>10 DEF table

\* The next object that dl_iterate_phdr reports.
LEMMA ReportedIs ==
  ASSUME HTypeOK, Len(registered) < Len(process.reported)
  PROVE  /\ Len(registered) + 1 \in 1 .. Len(process.reported)
         /\ process.reported[Len(registered) + 1] \in DOMAIN Objects
<1> DEFINE r == Len(registered)
           n == Len(process.reported)
<1>1. r \in Nat
  BY DEF HTypeOK
<1>2. process.reported \in Seq(DOMAIN Objects)
  BY HostAssumption DEF HTypeOK
<1>3. n \in Nat /\ \A i \in 1 .. n : process.reported[i] \in DOMAIN Objects
  BY <1>2
<1>4. r < n
  OBVIOUS
<1> HIDE DEF r, n
<1>5. r + 1 \in 1 .. n
  BY <1>1, <1>3, <1>4
<1>6. process.reported[r + 1] \in DOMAIN Objects
  BY <1>3, <1>5
<1>7. QED
  BY <1>5, <1>6 DEF r, n

\* The records of the registry.
Entries == [object : DOMAIN Objects, host : Host \cup {Null}, map : Own,
            dynamic : {Objects[o].dynamic : o \in DOMAIN Objects}]

\* What the callback adds.
LEMMA CallbackAdds ==
  ASSUME HInv, Callback, pc' = "report"
  PROVE  \E o \in DOMAIN Objects, m \in Own, e \in Entries :
           /\ Len(registered) < Len(process.reported)
           /\ o = process.reported[Len(registered) + 1]
           /\ e = [object |-> o, host |-> IF o \in Host THEN o ELSE Null, map |-> m,
                   dynamic |-> Objects[o].dynamic]
           /\ \A k \in DOMAIN registered : Objects[registered[k].object].key # Objects[o].key
           /\ NewLinkMap(m)
           /\ registered' = Append(registered, e)
           /\ names' = [n \in DOMAIN names \cup {Objects[o].key} |->
                          IF n = Objects[o].key THEN o ELSE names[n]]
<1> DEFINE o == process.reported[Len(registered) + 1]
           e == [object |-> o, host |-> IF o \in Host THEN o ELSE Null, map |-> NewAddress,
                 dynamic |-> Objects[o].dynamic]
<1>1. pc = "report" /\ HTypeOK /\ Len(registered) < Len(process.reported) /\ musl' = musl
  BY DEF Callback, HInv
<1>2. o \in DOMAIN Objects
  BY <1>1, ReportedIs
<1>3. find_host_link_map(Objects[o].base) = IF o \in Host THEN o ELSE Null
  BY <1>1, <1>2, HostLinkMapIs
<1>4. DynamicOf(o) = Objects[o].dynamic
  BY <1>1, <1>2, DynamicRecovered
<1>5. /\ ~ \E k \in DOMAIN registered : Objects[registered[k].object].key = Objects[o].key
      /\ NewLinkMap(NewAddress)
      /\ registered' = Append(registered,
                         [object |-> o, host |-> find_host_link_map(Objects[o].base),
                          map |-> NewAddress, dynamic |-> DynamicOf(o)])
      /\ names' = [n \in DOMAIN names \cup {Objects[o].key} |->
                     IF n = Objects[o].key THEN o ELSE names[n]]
  BY <1>1 DEF Callback, FromRaw
<1>6. registered' = Append(registered, e)
  BY <1>3, <1>4, <1>5
<1>7. NewAddress \in Own
  BY <1>5 DEF NewLinkMap
<1>8. e \in Entries
  BY <1>2, <1>7 DEF Entries
<1>9. QED
  BY <1>1, <1>2, <1>5, <1>6, <1>7, <1>8

LEMMA HStepTypes ==
  ASSUME HInv, [HNext]_hvars
  PROVE  HTypeOK'
<1>1. HTypeOK /\ registered \in Seq(Entries)
  BY DEF HInv, HTypeOK, Entries
<1>2. process' = process /\ process' \in Processes
  BY <1>1 DEF HTypeOK, HNext, hvars, hostVars, NoHostDebug, TakeOver, Examine, Dropped,
     Skip, EndWalk, Callback, EndReport, LinkMapStep
<1>3. pc' \in {"start", "walk", "drop", "report", "run", "abort"} /\ taken' \in BOOLEAN
  BY <1>1 DEF HTypeOK, HNext, hvars, hostVars, NoHostDebug, TakeOver, Examine, Dropped,
     Skip, EndWalk, Callback, EndReport, LinkMapStep
<1>4. musl' \in BOOLEAN
  <2>1. musl' = musl \/ Examine \/ Skip
    BY DEF HNext, hvars, hostVars, NoHostDebug, TakeOver, Dropped,
       EndWalk, Callback, EndReport, LinkMapStep
  <2>2. CASE Examine \/ Skip
    BY <2>2, Zenon DEF Examine, Skip, SeenMusl
  <2>3. QED
    BY <1>1, <2>1, <2>2 DEF HTypeOK
<1>5. registered' \in Seq(Entries)
  <2>1. registered' = registered \/ (Callback /\ pc' = "report")
    BY DEF HNext, hvars, hostVars, NoHostDebug, TakeOver, Examine, Dropped,
       Skip, EndWalk, Callback, EndReport, LinkMapStep
  <2>2. ASSUME Callback, pc' = "report" PROVE registered' \in Seq(Entries)
    <3>1. PICK e \in Entries : registered' = Append(registered, e)
      BY <2>2, CallbackAdds
    <3>2. QED
      BY <1>1, <3>1
  <2>3. QED
    BY <1>1, <2>1, <2>2
<1>6. QED
  BY <1>2, <1>3, <1>4, <1>5 DEF HTypeOK, Entries

LEMMA HStepStart ==
  ASSUME HInv, [HNext]_hvars
  PROVE  StartInv' /\ HostListInv'
<1> USE DEF HInv
<1>1. CASE NoHostDebug
  BY <1>1 DEF NoHostDebug, StartInv, HostListInv
<1>2. CASE TakeOver
  <2>1. order' = First
    BY <1>2 DEF TakeOver
  <2>2. QED
    BY <1>2, <2>1 DEF TakeOver, StartInv, HostListInv
<1>3. CASE Examine
  <2>1. pc = "walk" /\ order' = order /\ stop' = stop
    BY <1>3 DEF Examine, FromRaw, NewLinkMap
  <2>2. QED
    BY <1>3, <2>1 DEF Examine, StartInv, HostListInv
<1>4. CASE Dropped
  BY <1>4 DEF Dropped, StartInv, HostListInv, vars
<1>5. CASE Skip
  BY <1>5 DEF Skip, StartInv, HostListInv, vars
<1>6. CASE EndWalk
  BY <1>6 DEF EndWalk, StartInv, HostListInv, vars
<1>7. CASE Callback
  <2>1. pc = "report" /\ pc' \in {"report", "abort"} /\ taken' = taken
    BY <1>7 DEF Callback
  <2>2. order' = order /\ stop' = stop
    BY <1>7 DEF Callback, FromRaw, NewLinkMap, vars
  <2>3. QED
    BY <2>1, <2>2 DEF StartInv, HostListInv
<1>8. CASE EndReport
  BY <1>8 DEF EndReport, StartInv, HostListInv, vars
<1>9. CASE LinkMapStep
  <2>1. /\ pc \in {"drop", "run"} /\ UNCHANGED hostVars
        /\ pc = "drop" => order' = order /\ stop' = stop
    BY <1>9, LinkMapStepInv
  <2>2. QED
    BY <2>1 DEF StartInv, HostListInv, hostVars
<1>10. CASE UNCHANGED hvars
  BY <1>10 DEF hvars, vars, hostVars, StartInv, HostListInv
<1>11. QED
  BY <1>1, <1>2, <1>3, <1>4, <1>5, <1>6, <1>7, <1>8, <1>9, <1>10 DEF HNext

\* What the invariant says of one registered object.
Recorded(k) ==
  LET o == process.reported[k]
  IN  /\ registered[k].object = o
      /\ registered[k].host = IF o \in Host THEN o ELSE Null
      /\ registered[k].dynamic = Objects[o].dynamic
      /\ registered[k].map \in live \ linked
      /\ Objects[o].key \in DOMAIN names /\ names[Objects[o].key] = o

LEMMA RegisteredIs ==
  RegisteredInv <=>
    /\ Len(registered) <= Len(process.reported)
    /\ \A k \in DOMAIN registered : Recorded(k)
    /\ pc = "report" =>
         \A n \in DOMAIN names : \E k \in DOMAIN registered : n = Objects[process.reported[k]].key
BY DEF RegisteredInv, Recorded

\* Steps that register nothing.
LEMMA RegisteredKept ==
  ASSUME RegisteredInv, UNCHANGED <<registered, names, process>>,
         pc' = "report" => pc = "report" \/ (registered = <<>> /\ names = <<>>),
         \A k \in DOMAIN registered :
              registered[k].map \in live \ linked => registered[k].map \in live' \ linked'
  PROVE  RegisteredInv'
<1>1. \A k \in DOMAIN registered' : Recorded(k)'
  BY DEF RegisteredInv, Recorded
<1>2. Len(registered') <= Len(process'.reported)
  BY DEF RegisteredInv
<1>3. pc' = "report" =>
         \A n \in DOMAIN names' : \E k \in DOMAIN registered' : n = Objects[process'.reported[k]].key
  BY DEF RegisteredInv
<1>4. QED
  BY <1>1, <1>2, <1>3 DEF RegisteredInv, Recorded

\* The callback of dl_iterate_phdr.
LEMMA RegisteredCallback ==
  ASSUME HInv, Callback, pc' = "report"
  PROVE  RegisteredInv'
<1> DEFINE r == Len(registered)
<1>1. PICK o \in DOMAIN Objects, m \in Own, e \in Entries :
        /\ r < Len(process.reported)
        /\ o = process.reported[r + 1]
        /\ e = [object |-> o, host |-> IF o \in Host THEN o ELSE Null, map |-> m,
                dynamic |-> Objects[o].dynamic]
        /\ \A k \in DOMAIN registered : Objects[registered[k].object].key # Objects[o].key
        /\ NewLinkMap(m)
        /\ registered' = Append(registered, e)
        /\ names' = [n \in DOMAIN names \cup {Objects[o].key} |->
                       IF n = Objects[o].key THEN o ELSE names[n]]
  BY CallbackAdds
<1>2. /\ pc = "report" /\ process' = process /\ RegisteredInv /\ HTypeOK
  BY DEF Callback, HInv
<1>3. /\ r \in Nat /\ DOMAIN registered = 1 .. r
      /\ Len(registered') = r + 1 /\ DOMAIN registered' = 1 .. r + 1
      /\ \A k \in 1 .. r : registered'[k] = registered[k]
      /\ registered'[r + 1] = e
  <2>1. registered \in Seq(Entries)
    BY <1>2 DEF HTypeOK, Entries
  <2>2. QED
    BY <1>1, <2>1
<1>4. /\ live' = live \cup {m} /\ linked' = linked /\ m \notin live /\ linked = Host
  BY <1>1, <1>2, ListIsHosts DEF NewLinkMap, linked
<1>5. ASSUME NEW k \in 1 .. r PROVE Recorded(k)'
  <2>1. Recorded(k)
    BY <1>2, <1>3, RegisteredIs
  <2>2. Objects[process.reported[k]].key # Objects[o].key
    BY <1>1, <1>3, <2>1 DEF Recorded
  <2>3. QED
    BY <1>1, <1>2, <1>3, <1>4, <2>1, <2>2 DEF Recorded
<1>6. ASSUME NEW k \in Nat, k = r + 1 PROVE Recorded(k)'
  <2>1. registered'[k] = e /\ process'.reported[k] = o
    BY <1>1, <1>2, <1>3, <1>6
  <2>2. Objects[o].key \in DOMAIN names' /\ names'[Objects[o].key] = o
    BY <1>1
  <2>3. m \in live' \ linked'
    BY <1>4, OwnIsNotHost
  <2>4. /\ e.object = o /\ e.host = (IF o \in Host THEN o ELSE Null) /\ e.map = m
        /\ e.dynamic = Objects[o].dynamic
    BY <1>1
  <2>5. QED
    BY <2>1, <2>2, <2>3, <2>4 DEF Recorded
<1>7. \A k \in 1 .. r + 1 : k \in 1 .. r \/ (k \in Nat /\ k = r + 1)
  BY <1>3
<1>8. r + 1 <= Len(process.reported)
  <2>1. r + 1 \in 1 .. Len(process.reported)
    BY <1>1, <1>2, ReportedIs
  <2> DEFINE n == Len(process.reported)
  <2>2. process.reported \in Seq(DOMAIN Objects)
    BY <1>2, HostAssumption DEF HTypeOK
  <2>3. n \in Nat
    BY <2>2
  <2> HIDE DEF n, r
  <2>4. r + 1 <= n
    BY <2>1, <2>3 DEF n
  <2>5. QED
    BY <2>4 DEF n
<1>9. ASSUME NEW n \in DOMAIN names'
      PROVE  \E k \in DOMAIN registered' : n = Objects[process'.reported[k]].key
  <2>1. n \in DOMAIN names \/ n = Objects[o].key
    BY <1>1
  <2>2. CASE n \in DOMAIN names
    <3>1. PICK k \in 1 .. r : n = Objects[process.reported[k]].key
      BY <1>2, <1>3, <2>2, RegisteredIs
    <3>2. k \in 1 .. r + 1
      BY <1>3
    <3>3. QED
      BY <1>2, <1>3, <3>1, <3>2
  <2>3. CASE n = Objects[o].key
    <3>1. r + 1 \in 1 .. r + 1
      BY <1>3
    <3>2. QED
      BY <1>1, <1>2, <1>3, <2>3, <3>1
  <2>4. QED
    BY <2>1, <2>2, <2>3
<1>10. \A k \in DOMAIN registered' : Recorded(k)'
  <2> SUFFICES ASSUME NEW k \in 1 .. r + 1 PROVE Recorded(k)'
    BY <1>3
  <2>1. CASE k \in 1 .. r
    BY <1>5, <2>1
  <2>2. CASE k \in Nat /\ k = r + 1
    BY <1>6, <2>2
  <2>3. QED
    BY <1>7, <2>1, <2>2
<1>11. QED
  BY <1>2, <1>3, <1>8, <1>9, <1>10 DEF RegisteredInv, Recorded

\* register_initial_aliases adds the aliases of the names there are, and no other.
LEMMA AliasesAdded ==
  ASSUME HInv, EndReport
  PROVE  /\ \A k \in DOMAIN registered :
              LET o == process.reported[k]
              IN  /\ Objects[o].key \in DOMAIN names' /\ names'[Objects[o].key] = o
                  /\ \A n \in libc_compat_aliases[Objects[o].key] :
                       n \in DOMAIN names' /\ names'[n] = o
<1> DEFINE keys == DOMAIN libc_compat_aliases \cap DOMAIN names
           aliases == UNION {libc_compat_aliases[k] : k \in keys}
<1>1. names' = [n \in DOMAIN names \cup aliases |->
                  IF n \in aliases
                  THEN names[CHOOSE k \in keys : n \in libc_compat_aliases[k]]
                  ELSE names[n]]
  BY DEF EndReport
<1> SUFFICES ASSUME NEW k \in DOMAIN registered
             PROVE  LET o == process.reported[k]
                    IN  /\ Objects[o].key \in DOMAIN names' /\ names'[Objects[o].key] = o
                        /\ \A n \in libc_compat_aliases[Objects[o].key] :
                             n \in DOMAIN names' /\ names'[n] = o
  OBVIOUS
<1> DEFINE o == process.reported[k]
           key == Objects[o].key
<1>2. key \in DOMAIN names /\ names[key] = o /\ registered[k].object = o
  BY RegisteredIs DEF HInv, Recorded
<1>3. o \in DOMAIN Objects
  <2>1. registered \in Seq(Entries)
    BY DEF HInv, HTypeOK, Entries
  <2>2. registered[k] \in Entries
    BY <2>1
  <2>3. QED
    BY <1>2, <2>2 DEF Entries
<1>4. key \in keys
  BY <1>2, <1>3, AliasAssumption
<1>5. key \notin aliases
  BY <1>4, AliasAssumption
<1>6. \A n \in libc_compat_aliases[key] : n \in aliases
  BY <1>4
<1>7. \A n \in libc_compat_aliases[key] : \A l \in keys : n \in libc_compat_aliases[l] => l = key
  BY <1>4, AliasAssumption
<1>8. \A n \in libc_compat_aliases[key] : (CHOOSE l \in keys : n \in libc_compat_aliases[l]) = key
  BY <1>4, <1>7
<1> HIDE DEF aliases, keys, key
<1>9. key \in DOMAIN names' /\ names'[key] = o
  BY <1>1, <1>2, <1>5
<1>10. \A n \in libc_compat_aliases[key] : n \in DOMAIN names' /\ names'[n] = o
  BY <1>1, <1>2, <1>6, <1>8
<1>11. QED
  BY <1>9, <1>10 DEF key

LEMMA HStepRegistered ==
  ASSUME HInv, [HNext]_hvars
  PROVE  RegisteredInv'
<1>1. RegisteredInv /\ HTypeOK
  BY DEF HInv
<1>2. CASE UNCHANGED vars /\ UNCHANGED <<registered, names, process>>
           /\ (pc' = "report" => pc = "report" \/ (registered = <<>> /\ names = <<>>))
  <2>1. live' = live /\ linked' = linked
    BY <1>2 DEF vars, linked
  <2>2. QED
    BY <1>1, <1>2, <2>1, RegisteredKept
<1>3. CASE Callback
  <2>1. CASE pc' = "report"
    BY <1>3, <2>1, RegisteredCallback
  <2>2. CASE pc' # "report"
    BY <1>2, <1>3, <2>2 DEF Callback
  <2>3. QED
    BY <2>1, <2>2
<1>4. CASE EndReport
  <2>1. \A k \in DOMAIN registered : Recorded(k)
    BY <1>1, RegisteredIs
  <2>2. /\ UNCHANGED <<registered, process, live>> /\ linked' = linked /\ pc' = "run"
    BY <1>4 DEF EndReport, vars, linked
  <2>3. \A k \in DOMAIN registered' : Recorded(k)'
    BY <1>4, <2>1, <2>2, AliasesAdded DEF Recorded
  <2>4. Len(registered') <= Len(process'.reported)
    BY <1>1, <2>2 DEF RegisteredInv
  <2>5. QED
    BY <2>2, <2>3, <2>4 DEF RegisteredInv, Recorded
<1>5. CASE Examine
  <2>1. /\ live \subseteq live' /\ linked' = linked /\ UNCHANGED <<registered, names, process>>
        /\ pc' = "drop"
    BY <1>5 DEF Examine, FromRaw, NewLinkMap, linked
  <2>2. QED
    BY <1>1, <2>1, RegisteredKept
<1>6. CASE TakeOver
  <2>1. registered = <<>> /\ DOMAIN registered = {} /\ UNCHANGED <<registered, names, process>> /\ pc' = "walk"
    BY <1>6 DEF TakeOver, HInv, StartInv
  <2>2. QED
    BY <1>1, <2>1, RegisteredKept
<1>7. CASE LinkMapStep
  <2>1. /\ UNCHANGED hostVars
        /\ \A k \in DOMAIN registered :
             registered[k].map \in live \ linked => registered[k].map \in live' \ linked'
    BY <1>7, LinkMapStepInv
  <2>2. UNCHANGED <<registered, names, process, pc>>
    BY <2>1 DEF hostVars
  <2>3. QED
    BY <1>1, <2>1, <2>2, RegisteredKept
<1>8. CASE EndWalk
  <2>1. registered = <<>> /\ names = <<>>
    BY <1>8 DEF EndWalk, HInv, StartInv
  <2>2. QED
    BY <1>2, <1>8, <2>1 DEF EndWalk
<1>9. CASE NoHostDebug \/ Dropped \/ Skip \/ UNCHANGED hvars
  BY <1>2, <1>9 DEF NoHostDebug, Dropped, Skip, hvars, hostVars
<1>10. QED
  BY <1>3, <1>4, <1>5, <1>6, <1>7, <1>8, <1>9 DEF HNext

LEMMA HStepEnd ==
  ASSUME HInv, [HNext]_hvars
  PROVE  EndInv'
<1>1. EndInv /\ HTypeOK
  BY DEF HInv
<1> SUFFICES ASSUME pc' = "run", taken', First # <<>>
             PROVE  EndInv'
  BY DEF EndInv
<1>2. CASE EndReport
  <2>1. UNCHANGED <<registered, process>> /\ Len(registered) = Len(process.reported)
    BY <1>2 DEF EndReport
  <2>2. QED
    BY <1>2, <2>1, AliasesAdded DEF EndInv
<1>3. CASE EndWalk
  <2>1. pc = "walk" /\ map = Null
    BY <1>3 DEF EndWalk
  <2>2. map = First[1]
    BY <2>1, ListIsHosts
  <2>3. First[1] \in Host
    <3>1. Len(First) # 0 /\ Len(First) \in Nat
      BY HostPositions
    <3>2. 1 \in 1 .. Len(First)
      BY <3>1
    <3>3. QED
      BY <3>2, HostPositions
  <2>4. QED
    BY <2>1, <2>2, <2>3, OwnIsNotHost
<1>4. CASE NoHostDebug
  BY <1>4 DEF NoHostDebug, HInv, StartInv
<1>5. CASE LinkMapStep \/ UNCHANGED hvars
  <2>1. UNCHANGED <<pc, taken, registered, process, names>>
    BY <1>5 DEF LinkMapStep, hvars, hostVars
  <2>2. QED
    BY <1>1, <2>1 DEF EndInv
<1>6. ~ TakeOver /\ ~ Examine /\ ~ Dropped /\ ~ Skip /\ ~ Callback
  BY DEF TakeOver, Examine, Dropped, Skip, Callback
<1>7. QED
  BY <1>2, <1>3, <1>4, <1>5, <1>6 DEF HNext

\* Every step keeps the invariant.
LEMMA HInvStep == HInv /\ [HNext]_hvars => HInv'
<1> SUFFICES ASSUME HInv, [HNext]_hvars PROVE HInv'
  OBVIOUS
<1>1. Inv' /\ HTypeOK'
  BY HStepInv, HStepTypes
<1>2. StartInv' /\ HostListInv' /\ FoundInv' /\ RegisteredInv' /\ EndInv'
  BY HStepStart, HStepFound, HStepRegistered, HStepEnd
<1>3. QED
  BY <1>1, <1>2 DEF HInv

LEMMA HInvRegistered == HInv => HostRegistered
<1> SUFFICES ASSUME HInv, pc = "run", taken, First # <<>> PROVE HostRegistered
  BY DEF HostRegistered
<1>1. /\ Len(registered) = Len(process.reported)
      /\ \A k \in DOMAIN registered :
           \A n \in libc_compat_aliases[Objects[process.reported[k]].key] :
             n \in DOMAIN names /\ names[n] = process.reported[k]
  BY DEF HInv, EndInv
<1>2. \A k \in DOMAIN registered : Recorded(k)
  BY RegisteredIs DEF HInv
<1>3. Objects[registered[1].object].name = ""
  <2>1. /\ process.reported \in Seq(DOMAIN Objects) /\ process.reported # <<>>
        /\ Objects[process.reported[1]].name = ""
    BY HostAssumption DEF HInv, HTypeOK
  <2>2. Len(process.reported) # 0 /\ Len(process.reported) \in Nat
    <3> DEFINE s == process.reported
    <3>1. s \in Seq(DOMAIN Objects) /\ s # <<>>
      BY <2>1
    <3> HIDE DEF s
    <3>2. Len(s) # 0 /\ Len(s) \in Nat
      BY <3>1
    <3>3. QED
      BY <3>2 DEF s
  <2>3. registered \in Seq(Entries)
    BY DEF HInv, HTypeOK, Entries
  <2>4. 1 \in DOMAIN registered
    BY <1>1, <2>2, <2>3
  <2>5. QED
    BY <1>2, <2>1, <2>4 DEF Recorded
<1>4. ASSUME NEW s \in {Atexit, IteratePhdr}, NEW o \in Host, Looked(o), is_libc(o),
             s \in Objects[o].symbols
      PROVE  found[s] # Null /\ s \in Objects[found[s]].symbols
  <2>1. o \in Passed
    BY DEF Passed
  <2>2. s \in DOMAIN found
    BY DEF HInv, FoundInv
  <2>3. QED
    BY <1>4, <2>1, <2>2 DEF HInv, FoundInv
<1>5. QED
  BY <1>1, <1>2, <1>3, <1>4 DEF HostRegistered, Recorded

-----------------------------------------------------------------------------
(* The list as a debugger sees it.                                         *)

\* The member that is taken out by value, taken out by place.
LEMMA RemoveFirstIsAt ==
  ASSUME NEW S, NEW s \in Seq(S), IsInjective(s), NEW k \in 1 .. Len(s)
  PROVE  RemoveFirst(s, s[k]) = RemoveAt(s, k)
<1> DEFINE I == {i \in 1 .. Len(s) : s[i] = s[k]}
<1>1. I = {k}
  BY DEF IsInjective
<1>2. Min(I) = k
  BY <1>1 DEF Min
<1>3. SelectInSeq(s, LAMBDA v : v = s[k]) = k
  BY <1>1, <1>2 DEF SelectInSeq
<1>4. QED
  BY <1>3 DEF RemoveFirst

\* Joining sequences.
LEMMA JoinThree ==
  ASSUME NEW S, NEW a \in Seq(S), NEW b \in Seq(S), NEW c \in Seq(S)
  PROVE  a \o (b \o c) = (a \o b) \o c
BY ConcatAssociative

\* What two sequences give one behind the other.
LEMMA JoinIs ==
  ASSUME NEW S, NEW a \in Seq(S), NEW b \in Seq(S)
  PROVE  /\ a \o b \in Seq(S) /\ Len(a \o b) = Len(a) + Len(b)
         /\ \A i \in 1 .. Len(a) + Len(b) :
              (a \o b)[i] = IF i <= Len(a) THEN a[i] ELSE b[i - Len(a)]
OBVIOUS

\* What is cut out of a sequence.
LEMMA CutIs ==
  ASSUME NEW S, NEW s \in Seq(S), NEW a \in 1 .. Len(s) + 1, NEW b \in 0 .. Len(s), a <= b + 1
  PROVE  /\ SubSeq(s, a, b) \in Seq(S) /\ Len(SubSeq(s, a, b)) = (b + 1) - a
         /\ \A i \in 1 .. (b + 1) - a : SubSeq(s, a, b)[i] = s[(a - 1) + i]
OBVIOUS

\* Taking out behind another sequence.
LEMMA RemoveBehind ==
  ASSUME NEW S, NEW h \in Seq(S), NEW s \in Seq(S), NEW k \in 1 .. Len(s)
  PROVE  /\ Len(h) + k \in 1 .. Len(h \o s) /\ (h \o s)[Len(h) + k] = s[k]
         /\ h \o RemoveAt(s, k) = RemoveAt(h \o s, Len(h) + k)
<1> DEFINE A == SubSeq(s, 1, k - 1)
           B == SubSeq(s, k + 1, Len(s))
           t == h \o s
           p == Len(h)
           n == Len(s)
           C == SubSeq(t, 1, (p + k) - 1)
           E == SubSeq(t, (p + k) + 1, Len(t))
<1>1. p \in Nat /\ n \in Nat /\ k \in 1 .. n
  OBVIOUS
<1>2. /\ t \in Seq(S) /\ Len(t) = p + n
      /\ \A i \in 1 .. p : t[i] = h[i]
      /\ \A i \in 1 .. n : t[p + i] = s[i]
  <2>1. t \in Seq(S) /\ Len(t) = p + n /\ \A i \in 1 .. p : t[i] = h[i]
    OBVIOUS
  <2>2. ASSUME NEW i \in 1 .. n PROVE t[p + i] = s[i]
    <3>1. p + i \in 1 .. p + n /\ ~ (p + i <= p) /\ (p + i) - p = i
      BY <1>1
    <3>2. t[p + i] = IF p + i <= p THEN h[p + i] ELSE s[(p + i) - p]
      BY <3>1
    <3>3. QED
      BY <3>1, <3>2
  <2>3. QED
    BY <2>1, <2>2
<1>3. /\ A \in Seq(S) /\ B \in Seq(S)
      /\ Len(A) = k - 1 /\ Len(B) = n - k
      /\ \A i \in 1 .. k - 1 : A[i] = s[i]
      /\ \A i \in 1 .. n - k : B[i] = s[k + i]
  <2>1. /\ A \in Seq(S) /\ Len(A) = k - 1
        /\ \A i \in 1 .. k - 1 : A[i] = s[i]
    <3>1. 1 \in 1 .. n + 1 /\ k - 1 \in 0 .. n /\ 1 <= (k - 1) + 1 /\ ((k - 1) + 1) - 1 = k - 1
      BY <1>1
    <3>2. /\ A \in Seq(S) /\ Len(A) = ((k - 1) + 1) - 1
          /\ \A i \in 1 .. ((k - 1) + 1) - 1 : A[i] = s[(1 - 1) + i]
      BY <3>1, CutIs
    <3>3. \A i \in 1 .. k - 1 : (1 - 1) + i = i
      BY <1>1
    <3> HIDE DEF A
    <3>4. QED
      BY <3>1, <3>2, <3>3
  <2>2. /\ B \in Seq(S) /\ Len(B) = n - k
        /\ \A i \in 1 .. n - k : B[i] = s[k + i]
    <3>1. k + 1 \in 1 .. n + 1 /\ n \in 0 .. n /\ k + 1 <= n + 1 /\ (n + 1) - (k + 1) = n - k
      BY <1>1
    <3>2. /\ B \in Seq(S) /\ Len(B) = (n + 1) - (k + 1)
          /\ \A i \in 1 .. (n + 1) - (k + 1) : B[i] = s[((k + 1) - 1) + i]
      BY <3>1, CutIs
    <3>3. (k + 1) - 1 = k
      BY <1>1
    <3> HIDE DEF B
    <3>4. QED
      BY <3>1, <3>2, <3>3
  <2>3. QED
    BY <2>1, <2>2
<1>4. RemoveAt(s, k) = A \o B /\ RemoveAt(t, p + k) = C \o E
  BY DEF RemoveAt
<1> HIDE DEF A, B, t, p, n
<1>5. /\ C \in Seq(S) /\ Len(C) = p + (k - 1)
      /\ \A i \in 1 .. p + (k - 1) : C[i] = t[i]
  <2>1. (p + k) - 1 \in 0 .. Len(t) /\ (p + k) - 1 = p + (k - 1)
    BY <1>1, <1>2
  <2> DEFINE b == (p + k) - 1
  <2>2. C = SubSeq(t, 1, b)
    BY DEF C
  <2>3. 1 \in 1 .. Len(t) + 1 /\ b \in 0 .. Len(t) /\ 1 <= b + 1 /\ (b + 1) - 1 = b
    BY <1>1, <1>2, <2>1
  <2>4. b = p + (k - 1)
    BY <2>1
  <2> HIDE DEF b, C
  <2>5. /\ C \in Seq(S) /\ Len(C) = (b + 1) - 1
        /\ \A i \in 1 .. (b + 1) - 1 : C[i] = t[(1 - 1) + i]
    BY <1>2, <2>2, <2>3, CutIs
  <2>6. \A i \in 1 .. b : (1 - 1) + i = i
    BY <2>3
  <2>7. QED
    BY <2>3, <2>4, <2>5, <2>6
<1>6. /\ E \in Seq(S) /\ Len(E) = n - k
      /\ \A i \in 1 .. n - k : E[i] = t[p + (k + i)]
  <2>1. (p + k) + 1 \in 1 .. Len(t) + 1 /\ Len(t) - (p + k) = n - k /\ Len(t) \in Nat
    BY <1>1, <1>2
  <2>2. \A i \in 1 .. n - k : (p + k) + i = p + (k + i)
    BY <1>1
  <2> DEFINE q == p + k
             l == Len(t)
  <2>3. /\ E \in Seq(S) /\ Len(E) = l - q
        /\ \A i \in 1 .. l - q : E[i] = t[q + i]
    <3>1. q \in 0 .. l /\ l \in Nat /\ t \in Seq(S) /\ l = Len(t)
      BY <1>1, <1>2
    <3>2. E = SubSeq(t, q + 1, l)
      BY DEF E
    <3> HIDE DEF q, l, E
    <3>3. q + 1 \in 1 .. l + 1 /\ l - (q + 1) + 1 = l - q
      BY <3>1
    <3>4. /\ SubSeq(t, q + 1, l) \in Seq(S)
          /\ Len(SubSeq(t, q + 1, l)) = (l + 1) - (q + 1)
          /\ \A i \in 1 .. (l + 1) - (q + 1) :
               SubSeq(t, q + 1, l)[i] = t[((q + 1) - 1) + i]
      <4>1. q + 1 \in 1 .. Len(t) + 1 /\ l \in 0 .. Len(t) /\ q + 1 <= l + 1
        BY <3>1, <3>3
      <4>2. QED
        BY <3>1, <4>1, CutIs
    <3>5. (l + 1) - (q + 1) = l - q /\ (q + 1) - 1 = q
      BY <3>1
    <3>6. QED
      BY <3>2, <3>4, <3>5
  <2>4. QED
    BY <2>1, <2>2, <2>3
<1> HIDE DEF C, E
<1>7. C = h \o A
  <2>1. h \in Seq(S) /\ Len(h) = p
    BY DEF p
  <2>2. /\ h \o A \in Seq(S) /\ Len(h \o A) = p + (k - 1)
        /\ \A i \in 1 .. p + (k - 1) : (h \o A)[i] = IF i <= p THEN h[i] ELSE A[i - p]
    <3>1. A \in Seq(S) /\ Len(A) = k - 1
      BY <1>3
    <3>2. /\ h \o A \in Seq(S) /\ Len(h \o A) = Len(h) + Len(A)
          /\ \A i \in 1 .. Len(h) + Len(A) :
               (h \o A)[i] = IF i <= Len(h) THEN h[i] ELSE A[i - Len(h)]
      BY <2>1, <3>1, JoinIs
    <3>3. QED
      BY <2>1, <3>1, <3>2
  <2>3. ASSUME NEW i \in 1 .. p + (k - 1) PROVE C[i] = (h \o A)[i]
    <3>1. CASE i <= p
      BY <1>1, <1>2, <1>5, <2>2, <3>1
    <3>2. CASE ~ (i <= p)
      <4>1. i - p \in 1 .. k - 1 /\ i - p \in 1 .. n /\ p + (i - p) = i
        BY <1>1, <3>2
      <4>2. C[i] = t[p + (i - p)] /\ t[p + (i - p)] = s[i - p]
        BY <1>2, <1>5, <4>1
      <4>3. (h \o A)[i] = A[i - p] /\ A[i - p] = s[i - p]
        BY <1>3, <2>2, <3>2, <4>1
      <4>4. QED
        BY <4>2, <4>3
    <3>3. QED
      BY <3>1, <3>2
  <2>4. QED
    BY <1>5, <2>2, <2>3, SeqEqual
<1>8. E = B
  <2>1. ASSUME NEW i \in 1 .. n - k PROVE E[i] = B[i]
    <3>1. k + i \in 1 .. n
      BY <1>1
    <3>2. QED
      BY <1>2, <1>3, <1>6, <3>1
  <2>2. QED
    BY <1>3, <1>6, <2>1, SeqEqual
<1>9. h \o (A \o B) = (h \o A) \o B
  <2>1. A \in Seq(S) /\ B \in Seq(S)
    BY <1>3
  <2>2. QED
    BY <2>1, JoinThree
<1>10. h \o RemoveAt(s, k) = RemoveAt(t, p + k)
  BY <1>4, <1>7, <1>8, <1>9
<1>11. p + k \in 1 .. Len(t) /\ t[p + k] = s[k]
  BY <1>1, <1>2
<1>12. QED
  BY <1>10, <1>11 DEF t, p

\* What DebuggerList shows.
Shown == IF taken THEN order ELSE First \o order

LEMMA ShownIs == HInv => (IF taken THEN Walk ELSE First \o Walk) = Shown
BY InvWalk DEF HInv, Shown

\* Its members are the host's and the listed ones.
LEMMA ShownMembers ==
  ASSUME HInv, NEW m \in Own, m \notin linked
  PROVE  \A i \in DOMAIN Shown : Shown[i] # m
<1>1. order \in Seq(LinkMaps) /\ First \in Seq(LinkMaps)
  BY HostPositions DEF HInv, Inv, TypeOK
<1>2. \A i \in 1 .. Len(order) : order[i] # m
  BY ListedAt DEF HInv, Inv
<1>3. \A i \in 1 .. Len(First) : First[i] # m
  BY HostPositions, OwnIsNotHost
<1>4. CASE taken
  BY <1>1, <1>2, <1>4 DEF Shown
<1>5. CASE ~ taken
  <2> DEFINE p == Len(First)
             n == Len(order)
  <2>1. /\ p \in Nat /\ n \in Nat /\ DOMAIN Shown = 1 .. p + n
        /\ \A i \in 1 .. p + n : Shown[i] = IF i <= p THEN First[i] ELSE order[i - p]
    BY <1>1, <1>5 DEF Shown
  <2> HIDE DEF p, n
  <2>2. ASSUME NEW i \in 1 .. p + n PROVE Shown[i] # m
    <3>1. (i <= p => i \in 1 .. p) /\ (~ (i <= p) => i - p \in 1 .. n)
      BY <2>1
    <3>2. QED
      BY <1>2, <1>3, <2>1, <3>1 DEF p, n
  <2>3. QED
    BY <2>1, <2>2
<1>6. QED
  BY <1>4, <1>5

\* Adding shows a link map at the end that was not shown before.
LEMMA ShowAdd ==
  ASSUME HInv, UNCHANGED taken, NEW m \in Own, Add(m)
  PROVE  Shown' = Append(Shown, m) /\ m \in LinkMaps /\ \A i \in DOMAIN Shown : Shown[i] # m
<1>1. order' = Append(order, m) /\ m \in LinkMaps \ linked
  BY AddInv DEF HInv
<1>2. order \in Seq(LinkMaps) /\ First \in Seq(LinkMaps)
  BY HostPositions DEF HInv, Inv, TypeOK
<1>3. First \o Append(order, m) = Append(First \o order, m)
  <2>1. Append(order, m) = order \o <<m>> /\ <<m>> \in Seq(LinkMaps)
    BY <1>1, <1>2, AppendIsConcat
  <2>2. First \o order \in Seq(LinkMaps)
    BY <1>2
  <2>3. Append(First \o order, m) = (First \o order) \o <<m>>
    BY <1>1, <2>2, AppendIsConcat
  <2>4. QED
    BY <1>2, <2>1, <2>3, ConcatAssociative
<1>4. QED
  BY <1>1, <1>3, ShownMembers DEF Shown

\* A removal takes out one link map that is not the host's.
LEMMA ShowRemove ==
  ASSUME HInv, UNCHANGED taken, NEW m \in Own, DropEnd(m)
  PROVE  \E i \in DOMAIN Shown : Shown[i] \notin Host /\ Shown' = RemoveAt(Shown, i)
<1>1. order' = RemoveFirst(order, m) /\ m \in linked
  BY DropEndInv DEF HInv
<1>2. order \in Seq(LinkMaps) /\ First \in Seq(LinkMaps) /\ IsInjective(order)
  BY HostPositions DEF HInv, Inv, TypeOK, Chained
<1>3. PICK k \in 1 .. Len(order) : order[k] = m
  BY <1>1, ListedAt DEF HInv, Inv
<1>4. order' = RemoveAt(order, k)
  BY <1>1, <1>2, <1>3, RemoveFirstIsAt
<1>5. m \notin Host
  BY OwnIsNotHost
<1>6. CASE taken
  BY <1>2, <1>3, <1>4, <1>5, <1>6 DEF Shown
<1>7. CASE ~ taken
  <2>1. /\ Len(First) + k \in 1 .. Len(First \o order)
        /\ (First \o order)[Len(First) + k] = order[k]
        /\ First \o RemoveAt(order, k) = RemoveAt(First \o order, Len(First) + k)
    BY <1>2, RemoveBehind
  <2>2. DOMAIN (First \o order) = 1 .. Len(First \o order)
    BY <1>2
  <2>3. Shown = First \o order /\ Shown' = First \o RemoveAt(order, k)
    BY <1>4, <1>7 DEF Shown
  <2>4. QED
    BY <1>3, <1>5, <2>1, <2>2, <2>3
<1>8. QED
  BY <1>6, <1>7

\* Everything else shows nothing.
LEMMA ShowSteps ==
  ASSUME HInv, [HNext]_hvars
  PROVE  \/ Shown' = Shown
         \/ \E m \in Own : UNCHANGED taken /\ (Add(m) \/ DropEnd(m))
<1>1. CASE TakeOver
  <2>1. order = <<>> /\ ~ taken /\ order' = First /\ taken'
    BY <1>1, TakeOverInv DEF TakeOver, HInv, StartInv
  <2>2. First \o <<>> = First
    BY HostPositions, ConcatEmptySeq
  <2>3. QED
    BY <2>1, <2>2 DEF Shown
<1>2. CASE LinkMapStep
  <2>1. taken' = taken /\ HTypeOK /\ Inv /\ live \subseteq Own
    BY <1>2 DEF LinkMapStep, hostVars, HInv, Inv, TypeOK
  <2>2. Droppable \subseteq live
    BY DEF Droppable
  <2>3. \/ \E m \in Own : Add(m) \/ DropEnd(m)
        \/ order' = order
    <3>1. CASE NewLinkMap(NewAddress)
      BY <3>1 DEF NewLinkMap
    <3>2. CASE \E m \in live \ Pinned : Add(m)
      BY <2>1, <3>2
    <3>3. CASE \E m \in Droppable : DropUnlisted(m) \/ DropBegin(m) \/ DropEnd(m)
      <4>1. PICK m \in Droppable : DropUnlisted(m) \/ DropBegin(m) \/ DropEnd(m)
        BY <3>3
      <4>2. m \in Own
        BY <2>1, <2>2
      <4>3. QED
        BY <2>1, <4>1, <4>2, DropUnlistedInv, DropBeginInv
    <3>4. QED
      BY <1>2, <3>1, <3>2, <3>3 DEF LinkMapStep
  <2>4. QED
    BY <2>1, <2>3 DEF Shown
<1>3. CASE Examine
  BY <1>3 DEF Examine, FromRaw, NewLinkMap, Shown
<1>4. CASE Callback
  <2>1. order' = order /\ taken' = taken
    BY <1>4 DEF Callback, FromRaw, NewLinkMap, vars
  <2>2. QED
    BY <2>1 DEF Shown
<1>5. CASE NoHostDebug \/ Dropped \/ Skip \/ EndWalk \/ EndReport \/ UNCHANGED hvars
  <2>1. order' = order /\ taken' = taken
    BY <1>5 DEF NoHostDebug, Dropped, Skip, EndWalk, EndReport, hvars, vars, hostVars
  <2>2. QED
    BY <2>1 DEF Shown
<1>6. QED
  BY <1>1, <1>2, <1>3, <1>4, <1>5 DEF HNext

\* A step of the loader is a step of the abstract list or leaves it as it is.
LEMMA RefinesStep ==
  HInv /\ HInv' /\ [HNext]_hvars => [DebuggerList!Next]_(IF taken THEN Walk ELSE First \o Walk)
<1> SUFFICES ASSUME HInv, HInv', [HNext]_hvars
             PROVE  [DebuggerList!Next]_(IF taken THEN Walk ELSE First \o Walk)
  OBVIOUS
<1>1. (IF taken THEN Walk ELSE First \o Walk) = Shown
  BY ShownIs
<1>2. (IF taken THEN Walk ELSE First \o Walk)' = Shown'
  <2>1. (HInv => (IF taken THEN Walk ELSE First \o Walk) = Shown)'
    BY ShownIs, PTL
  <2>2. QED
    BY <2>1
<1>3. ASSUME NEW m \in Own, UNCHANGED taken, Add(m)
      PROVE  DebuggerList!Next
  <2>1. Shown' = Append(Shown, m) /\ m \in LinkMaps /\ \A i \in DOMAIN Shown : Shown[i] # m
    BY <1>3, ShowAdd
  <2>2. m \in LinkMaps \ DebuggerList!Listed
    BY <1>1, <2>1 DEF DebuggerList!Listed
  <2>3. DebuggerList!Add(m)
    BY <1>1, <1>2, <2>1 DEF DebuggerList!Add
  <2>4. QED
    BY <2>2, <2>3 DEF DebuggerList!Next
<1>4. ASSUME NEW m \in Own, UNCHANGED taken, DropEnd(m)
      PROVE  DebuggerList!Next
  <2>1. PICK i \in DOMAIN Shown : Shown[i] \notin Host /\ Shown' = RemoveAt(Shown, i)
    BY <1>4, ShowRemove
  <2>2. DebuggerList!Delete(i)
    BY <1>1, <1>2, <2>1 DEF DebuggerList!Delete, DebuggerList!RemoveAt, RemoveAt
  <2>3. Shown[i] \notin DebuggerList!Kept
    BY <2>1 DEF DebuggerList!Kept, Host
  <2>4. QED
    BY <1>1, <2>2, <2>3 DEF DebuggerList!Next
<1>5. QED
  BY <1>1, <1>2, <1>3, <1>4, ShowSteps

LEMMA RefinesInit == HInit => DebuggerList!Init
<1> SUFFICES ASSUME HInit PROVE DebuggerList!Init
  OBVIOUS
<1>1. HInv /\ ~ taken /\ order = <<>>
  BY HInitInv DEF HInit
<1>2. (IF taken THEN Walk ELSE First \o Walk) = First \o <<>>
  BY <1>1, ShownIs DEF Shown
<1>3. First \o <<>> = First
  BY HostPositions, ConcatEmptySeq
<1>4. QED
  BY <1>2, <1>3 DEF DebuggerList!Init

-----------------------------------------------------------------------------
\* The list r_debug.map leads to is well linked in every reachable state, at the
\* stops of a debugger too: no link leads to freed memory (add_debug_link_map,
\* ExtraData::drop).  So in a loader whose list is given ...
THEOREM DebugListWellLinked == Spec => []WellLinked
BY InitInv, InvStep, InvWellLinked, PTL DEF Spec

\* ... and in one that takes it over from the host while it starts: objects of the
\* host that are looked at and dropped (find_iterate_phdr) unlink none of the host's.
THEOREM HostWellLinked == HSpec => []WellLinked
<1>1. HInv => WellLinked
  BY InvWellLinked DEF HInv
<1>2. QED
  BY <1>1, HInitInv, HInvStep, PTL DEF HSpec

\* The links follow the order in which objects were added and skip none that is
\* listed (add_debug_link_map appends at the cached tail, ExtraData::drop takes out
\* single link maps).
THEOREM DebugListLoadOrder == Spec => []LoadOrder
BY InitInv, InvStep, InvLoadOrder, PTL DEF Spec

\* The same for the list taken over from the host.
THEOREM HostLoadOrder == HSpec => []LoadOrder
<1>1. HInv => LoadOrder
  BY InvLoadOrder DEF HInv
<1>2. QED
  BY <1>1, HInitInv, HInvStep, PTL DEF HSpec

\* Once the constructor has ended, the registry has the program first and every object
\* of the process, with its own link map of the host, its dynamic section as the link
\* editor wrote it, under its key and the aliases of that (find_host_link_map,
\* recover_dynamic_table, register_initial_aliases), and the functions of libc were
\* found if a libc has them (find_iterate_phdr).
THEOREM HostIsRegistered == HSpec => []HostRegistered
BY HInitInv, HInvStep, HInvRegistered, PTL DEF HSpec

\* A debugger sees a list to whose end objects are added and from which single objects
\* are removed that are not the host's: runtime/debug.rs and runtime/host.rs implement
\* LinkMapList.
THEOREM HostRefinesLinkMapList == HSpec => RefinesLinkMapList
BY HInitInv, HInvStep, RefinesInit, RefinesStep, PTL DEF HSpec, RefinesLinkMapList, DebuggerList!Spec

=============================================================================
