---------------------------- MODULE StartupProofs ----------------------------
(***************************************************************************)
(* Proofs about the startup of a process: about Startup, for any set of    *)
(* libraries and any processes, where Inv is inductive and gives what the  *)
(* run checks; then about DirectStart, for any command line, environment   *)
(* and auxiliary vector, where DirectInv is inductive; and, at the end,    *)
(* about Launch, which composes them.                                      *)
(***************************************************************************)
EXTENDS Launch, TLAPS, SequenceTheorems, WellFoundedInduction

-----------------------------------------------------------------------------
(* Sequences.                                                              *)

\* Taking out the member at k closes the gap.
LEMMA RemoveFirstAt ==
  ASSUME NEW S, NEW s \in Seq(S), IsInjective(s), NEW k \in 1 .. Len(s)
  PROVE  /\ RemoveFirst(s, s[k]) \in Seq(S)
         /\ Len(RemoveFirst(s, s[k])) = Len(s) - 1
         /\ \A i \in 1 .. Len(s) - 1 :
               RemoveFirst(s, s[k])[i] = IF i < k THEN s[i] ELSE s[i + 1]
<1> DEFINE I == {i \in 1 .. Len(s) : s[i] = s[k]}
<1>1. I = {k}
  BY DEF IsInjective
<1>2. Min(I) = k
  BY <1>1 DEF Min
<1>3. SelectInSeq(s, LAMBDA v : v = s[k]) = k
  BY <1>1, <1>2 DEF SelectInSeq
<1> DEFINE A == SubSeq(s, 1, k - 1)
           B == SubSeq(s, k + 1, Len(s))
           r == RemoveFirst(s, s[k])
<1>4. r = A \o B
  BY <1>3 DEF RemoveFirst, RemoveAt
<1>5. /\ A \in Seq(S) /\ B \in Seq(S)
      /\ Len(A) = k - 1 /\ Len(B) = Len(s) - k
      /\ \A i \in 1 .. k - 1 : A[i] = s[i]
      /\ \A i \in 1 .. Len(s) - k : B[i] = s[k + i]
  OBVIOUS
<1> HIDE DEF A, B, r
<1>6. /\ r \in Seq(S) /\ Len(r) = Len(s) - 1
      /\ \A i \in 1 .. Len(s) - 1 : r[i] = IF i < k THEN A[i] ELSE B[i - (k - 1)]
  BY <1>4, <1>5
<1>7. ASSUME NEW i \in 1 .. Len(s) - 1, ~ (i < k)
      PROVE  B[i - (k - 1)] = s[i + 1]
  <2>1. i - (k - 1) \in 1 .. Len(s) - k /\ k + (i - (k - 1)) = i + 1
    BY <1>7
  <2>2. QED
    BY <1>5, <2>1
<1>8. QED
  BY <1>5, <1>6, <1>7 DEF r

\* What is not there cannot be taken out.
LEMMA RemoveFirstAbsent ==
  ASSUME NEW S, NEW s \in Seq(S), NEW e, e \notin Range(s)
  PROVE  RemoveFirst(s, e) = s
BY DEF RemoveFirst, Range

\* Taking out a member removes it and keeps the others different.
LEMMA RemoveFirstRange ==
  ASSUME NEW S, NEW s \in Seq(S), IsInjective(s), NEW e
  PROVE  /\ RemoveFirst(s, e) \in Seq(S)
         /\ IsInjective(RemoveFirst(s, e))
         /\ Range(RemoveFirst(s, e)) = Range(s) \ {e}
<1>1. CASE e \notin Range(s)
  BY <1>1, RemoveFirstAbsent
<1>2. CASE e \in Range(s)
  <2>1. PICK k \in 1 .. Len(s) : s[k] = e
    BY <1>2 DEF Range
  <2> DEFINE r == RemoveFirst(s, e)
  <2>2. /\ r \in Seq(S) /\ Len(r) = Len(s) - 1
        /\ \A i \in 1 .. Len(s) - 1 : r[i] = IF i < k THEN s[i] ELSE s[i + 1]
    BY <2>1, RemoveFirstAt
  <2> HIDE DEF r
  <2> DEFINE at(i) == IF i < k THEN i ELSE i + 1
  <2>a. \A i \in 1 .. Len(s) - 1 : at(i) \in 1 .. Len(s) /\ r[i] = s[at(i)]
    BY <2>2
  <2>b. \A i, j \in 1 .. Len(s) - 1 : at(i) = at(j) => i = j
    OBVIOUS
  <2> HIDE DEF at
  <2>3. IsInjective(r)
    <3>1. DOMAIN r = 1 .. Len(s) - 1
      BY <2>2
    <3>2. \A i, j \in 1 .. Len(s) : s[i] = s[j] => i = j
      BY DEF IsInjective
    <3>3. \A i, j \in 1 .. Len(s) - 1 : r[i] = r[j] => i = j
      BY <2>a, <2>b, <3>2
    <3>4. QED
      BY <3>1, <3>3 DEF IsInjective
  <2>4. Range(r) \subseteq Range(s) \ {e}
    <3>1. \A x \in Range(r) : \E i \in 1 .. Len(s) - 1 : x = r[i]
      BY <2>2 DEF Range
    <3>2. ASSUME NEW i \in 1 .. Len(s) - 1 PROVE at(i) # k
      BY <3>2 DEF at
    <3>3. ASSUME NEW i \in 1 .. Len(s) - 1 PROVE s[at(i)] \in Range(s) /\ s[at(i)] # e
      BY <2>1, <2>a, <3>2 DEF Range, IsInjective
    <3>4. QED
      BY <2>a, <3>1, <3>3
  <2>5. ASSUME NEW x \in Range(s) \ {e} PROVE x \in Range(r)
    <3>1. PICK j \in 1 .. Len(s) : s[j] = x
      BY DEF Range
    <3>2. CASE j < k
      BY <2>2, <3>1, <3>2 DEF Range
    <3>3. CASE j > k
      <4>1. j - 1 \in 1 .. Len(s) - 1 /\ ~ (j - 1 < k) /\ (j - 1) + 1 = j
        BY <3>3
      <4>2. r[j - 1] = x
        BY <2>2, <3>1, <4>1
      <4>3. QED
        BY <2>2, <4>1, <4>2 DEF Range
    <3>4. QED
      BY <2>1, <3>1, <3>2, <3>3
  <2>6. QED
    BY <2>2, <2>3, <2>4, <2>5 DEF r
<1>3. QED
  BY <1>1, <1>2

\* Appending a new member.
LEMMA AppendNew ==
  ASSUME NEW S, NEW s \in Seq(S), NEW e \in S
  PROVE  /\ Append(s, e) \in Seq(S) /\ Len(Append(s, e)) = Len(s) + 1
         /\ \A i \in 1 .. Len(s) : Append(s, e)[i] = s[i]
         /\ Append(s, e)[Len(s) + 1] = e
         /\ Range(Append(s, e)) = Range(s) \cup {e}
         /\ IsInjective(s) /\ e \notin Range(s) => IsInjective(Append(s, e))
<1> DEFINE r == Append(s, e)
<1>1. /\ r \in Seq(S) /\ Len(r) = Len(s) + 1
      /\ \A i \in 1 .. Len(s) : r[i] = s[i]
      /\ r[Len(s) + 1] = e
  OBVIOUS
<1> HIDE DEF r
<1>2. Range(r) \subseteq Range(s) \cup {e}
  BY <1>1 DEF Range
<1>3. e \in Range(r)
  BY <1>1 DEF Range
<1>4. Range(s) \subseteq Range(r)
  BY <1>1 DEF Range
<1>5. IsInjective(s) /\ e \notin Range(s) => IsInjective(r)
  BY <1>1 DEF Range, IsInjective
<1>6. QED
  BY <1>1, <1>2, <1>3, <1>4, <1>5 DEF r

\* The members of a sequence.
LEMMA RangeIs ==
  ASSUME NEW S, NEW s \in Seq(S)
  PROVE  /\ Range(s) \subseteq S
         /\ \A x \in Range(s) : \E i \in 1 .. Len(s) : s[i] = x
         /\ \A i \in 1 .. Len(s) : s[i] \in Range(s)
BY DEF Range

\* A set of numbers that is not empty has a least member.
LEMMA MinIsIn ==
  ASSUME NEW T \in SUBSET Nat, T # {}
  PROVE  Min(T) \in T
<1>1. \E x \in T : \A y \in T : ~ (<<y, x>> \in OpToRel(<, Nat))
  <2>1. IsWellFoundedOn(OpToRel(<, Nat), Nat)
    BY NatLessThanWellFounded
  <2>2. QED
    BY <2>1, WFMin
<1>2. PICK x \in T : \A y \in T : ~ (y < x)
  BY <1>1 DEF OpToRel
<1>3. \A y \in T : x =< y
  BY <1>2
<1>4. QED
  BY <1>3 DEF Min

-----------------------------------------------------------------------------
(* The load group.                                                         *)

\* The modules of a group that starts with the program.
LEMMA ModulesAre ==
  ASSUME group \in Seq(Objects), IsInjective(group), group # <<>>, group[1] = Prog
  PROVE  /\ Modules \in Seq(Objects) /\ IsInjective(Modules)
         /\ Range(Modules) = Range(group) \ {Rtld}
         /\ Len(Modules) >= 1 /\ Modules[1] = Prog
<1>1. /\ Modules \in Seq(Objects) /\ IsInjective(Modules)
      /\ Range(Modules) = Range(group) \ {Rtld}
  BY RemoveFirstRange DEF Modules
<1>2. Len(group) >= 1 /\ Rtld # Prog
  BY ObjectsAssumption
<1>3. CASE Rtld \notin Range(group)
  BY <1>1, <1>2, <1>3, RemoveFirstAbsent DEF Modules
<1>4. CASE Rtld \in Range(group)
  <2>1. PICK k \in 1 .. Len(group) : group[k] = Rtld
    BY <1>4, RangeIs
  <2>2. k # 1
    BY <1>2, <2>1
  <2>3. /\ Len(Modules) = Len(group) - 1
        /\ \A i \in 1 .. Len(group) - 1 :
              Modules[i] = IF i < k THEN group[i] ELSE group[i + 1]
    BY <2>1, RemoveFirstAt DEF Modules
  <2>4. QED
    BY <1>1, <1>2, <2>2, <2>3
<1>5. QED
  BY <1>3, <1>4

\* What a new member of the group does to the modules.
LEMMA ModulesGrow ==
  ASSUME NEW g \in Seq(Objects), IsInjective(g), NEW o \in Objects, o \notin Range(g)
  PROVE  RemoveFirst(Append(g, o), Rtld) =
           IF o = Rtld THEN RemoveFirst(g, Rtld) ELSE Append(RemoveFirst(g, Rtld), o)
<1> DEFINE h == Append(g, o)
           r == RemoveFirst(g, Rtld)
           q == RemoveFirst(h, Rtld)
<1>1. /\ h \in Seq(Objects) /\ Len(h) = Len(g) + 1 /\ IsInjective(h)
      /\ \A i \in 1 .. Len(g) : h[i] = g[i]
      /\ h[Len(g) + 1] = o
      /\ Range(h) = Range(g) \cup {o}
  BY AppendNew
<1>2. CASE Rtld \notin Range(g) /\ o # Rtld
  <2>1. RemoveFirst(g, Rtld) = g
    BY <1>2, RemoveFirstAbsent
  <2>2. Rtld \notin Range(h)
    BY <1>1, <1>2
  <2> HIDE DEF h
  <2>3. RemoveFirst(h, Rtld) = h
    BY <1>1, <2>2, RemoveFirstAbsent
  <2>4. QED
    BY <1>2, <2>1, <2>3 DEF h
<1> HIDE DEF h
<1>3. CASE o = Rtld
  <2>1. r = g
    BY <1>3, RemoveFirstAbsent
  <2>2. /\ q \in Seq(Objects) /\ Len(q) = Len(g)
        /\ \A i \in 1 .. Len(g) : q[i] = g[i]
    <3>1. Len(g) + 1 \in 1 .. Len(h) /\ h[Len(g) + 1] = Rtld
      BY <1>1, <1>3
    <3>2. /\ q \in Seq(Objects) /\ Len(q) = Len(h) - 1
          /\ \A i \in 1 .. Len(h) - 1 :
                q[i] = IF i < Len(g) + 1 THEN h[i] ELSE h[i + 1]
      BY <1>1, <3>1, RemoveFirstAt
    <3>3. QED
      BY <1>1, <3>2
  <2> HIDE DEF q
  <2>3. q = g
    BY <2>2, SeqEqual
  <2>4. QED
    BY <1>3, <2>1, <2>3 DEF h, q
<1>4. CASE o # Rtld /\ Rtld \in Range(g)
  <2>1. PICK k \in 1 .. Len(g) : g[k] = Rtld
    BY <1>4, RangeIs
  <2>2. /\ r \in Seq(Objects) /\ Len(r) = Len(g) - 1
        /\ \A i \in 1 .. Len(g) - 1 : r[i] = IF i < k THEN g[i] ELSE g[i + 1]
    BY <2>1, RemoveFirstAt
  <2>3. /\ q \in Seq(Objects) /\ Len(q) = Len(g)
        /\ \A i \in 1 .. Len(g) : q[i] = IF i < k THEN h[i] ELSE h[i + 1]
    <3>1. k \in 1 .. Len(h) /\ h[k] = Rtld
      BY <1>1, <2>1
    <3>2. /\ q \in Seq(Objects) /\ Len(q) = Len(h) - 1
          /\ \A i \in 1 .. Len(h) - 1 : q[i] = IF i < k THEN h[i] ELSE h[i + 1]
      BY <1>1, <3>1, RemoveFirstAt
    <3>3. QED
      BY <1>1, <3>2
  <2> DEFINE a == Append(r, o)
  <2> HIDE DEF r, q
  <2>4. /\ a \in Seq(Objects) /\ Len(a) = Len(g)
        /\ \A i \in 1 .. Len(g) - 1 : a[i] = r[i]
        /\ a[Len(g)] = o
    BY <2>2
  <2> HIDE DEF a
  <2>5. \A i \in 1 .. Len(g) : q[i] = a[i]
    <3>1. ASSUME NEW i \in 1 .. Len(g) - 1 PROVE q[i] = a[i]
      <4>1. i \in 1 .. Len(g) /\ i + 1 \in 1 .. Len(g)
        OBVIOUS
      <4>2. h[i] = g[i] /\ h[i + 1] = g[i + 1]
        BY <1>1, <4>1
      <4>3. QED
        BY <2>2, <2>3, <2>4, <4>1, <4>2
    <3>2. q[Len(g)] = a[Len(g)]
      <4>1. Len(g) \in 1 .. Len(g) /\ ~(Len(g) < k)
        BY <2>1
      <4>2. q[Len(g)] = h[Len(g) + 1]
        BY <2>3, <4>1
      <4>3. QED
        BY <1>1, <2>4, <4>2
    <3>3. QED
      BY <3>1, <3>2, <2>1
  <2>6. q = a
    BY <2>3, <2>4, <2>5, SeqEqual
  <2>7. QED
    BY <1>4, <2>6 DEF h, q, a, r
<1>5. QED
  BY <1>2, <1>3, <1>4

\* u is m with e in the second place.
SecondInserted(S, m, e, u) ==
    /\ u \in Seq(S) /\ Len(u) = Len(m) + 1
    /\ u[1] = m[1] /\ u[2] = e
    /\ \A i \in 3 .. Len(m) + 1 : u[i] = m[i - 1]

\* InsertAt at the second place.
LEMMA InsertSecond ==
  ASSUME NEW S, NEW m \in Seq(S), Len(m) >= 1, NEW e \in S
  PROVE  SecondInserted(S, m, e, InsertAt(m, 2, e))
<1> DEFINE p == SubSeq(m, 1, 1)
           t == SubSeq(m, 2, Len(m))
           s == InsertAt(m, 2, e)
<1>1. s = p \o <<e>> \o t
  BY DEF InsertAt
<1>2. p \in Seq(S) /\ Len(p) = 1 /\ p[1] = m[1]
  <2>1. \A i \in 1 .. 1 : m[i] \in S
    BY ElementOfSeq, LenProperties
  <2>2. /\ p \in Seq(S) /\ Len(p) = IF 1 <= 1 THEN 1 - 1 + 1 ELSE 0
        /\ \A i \in 1 .. 1 - 1 + 1 : p[i] = m[1 + i - 1]
    BY <2>1, SubSeqProperties
  <2> HIDE DEF p
  <2>3. QED
    BY <2>2
<1>3. /\ t \in Seq(S) /\ Len(t) = Len(m) - 1
      /\ \A i \in 1 .. Len(m) - 1 : t[i] = m[i + 1]
  <2>1. Len(m) \in Nat /\ \A i \in 2 .. Len(m) : m[i] \in S
    BY ElementOfSeq, LenProperties
  <2>2. /\ t \in Seq(S) /\ Len(t) = IF 2 <= Len(m) THEN Len(m) - 2 + 1 ELSE 0
        /\ \A i \in 1 .. Len(m) - 2 + 1 : t[i] = m[2 + i - 1]
    BY <2>1, SubSeqProperties
  <2> HIDE DEF t
  <2> DEFINE n == Len(m)
  <2>a. n \in Nat /\ n >= 1 /\ Len(t) = IF 2 <= n THEN n - 2 + 1 ELSE 0
    BY <2>1, <2>2
  <2>b. n = Len(m)
    OBVIOUS
  <2> HIDE DEF n
  <2>3. Len(t) = Len(m) - 1 /\ Len(m) - 2 + 1 = Len(m) - 1
    BY <2>a, <2>b
  <2>4. ASSUME NEW i \in 1 .. Len(m) - 1 PROVE t[i] = m[i + 1]
    <3>1. i \in 1 .. Len(m) - 2 + 1 /\ 2 + i - 1 = i + 1
      BY <2>1, <2>3
    <3>2. QED
      BY <2>2, <3>1
  <2>5. QED
    BY <2>2, <2>3, <2>4
<1> HIDE DEF p, t, s
<1> DEFINE u == <<e>>
           q == p \o u
<1>4. u \in Seq(S) /\ Len(u) = 1 /\ u[1] = e
  OBVIOUS
<1> HIDE DEF u
<1>5. q \in Seq(S) /\ Len(q) = 2 /\ q[1] = m[1] /\ q[2] = e
  <2>1. /\ q \in Seq(S) /\ Len(q) = Len(p) + Len(u)
        /\ \A i \in 1 .. Len(p) + Len(u) :
              q[i] = IF i <= Len(p) THEN p[i] ELSE u[i - Len(p)]
    BY <1>2, <1>4, ConcatProperties
  <2> HIDE DEF q
  <2>2. QED
    BY <1>2, <1>4, <2>1
<1> HIDE DEF q
<1>a. s = q \o t
  BY <1>1 DEF q, u
<1>b. /\ s \in Seq(S) /\ Len(s) = Len(q) + Len(t)
      /\ \A i \in 1 .. Len(q) + Len(t) :
            s[i] = IF i <= Len(q) THEN q[i] ELSE t[i - Len(q)]
  BY <1>3, <1>5, <1>a, ConcatProperties
<1>c. Len(m) \in Nat
  BY LenProperties
<1>d. /\ s \in Seq(S) /\ Len(s) = Len(m) + 1
      /\ s[1] = m[1] /\ s[2] = e
      /\ \A i \in 3 .. Len(m) + 1 : s[i] = t[i - 2]
  BY <1>3, <1>5, <1>b, <1>c
<1>6. ASSUME NEW i \in 3 .. Len(m) + 1 PROVE s[i] = m[i - 1]
  <2>1. i - 2 \in 1 .. Len(m) - 1 /\ (i - 2) + 1 = i - 1
    BY <1>c
  <2>2. QED
    BY <1>3, <1>d, <2>1
<1>7. SecondInserted(S, m, e, s)
  BY <1>d, <1>6 DEF SecondInserted
<1>8. QED
  BY <1>7 DEF s

\* startup_state puts the loader behind the program.
LEMMA StartupMapsAre ==
  ASSUME group \in Seq(Objects), IsInjective(group), group # <<>>, group[1] = Prog
  PROVE  /\ StartupMaps \in Seq(Objects)
         /\ Len(StartupMaps) = Len(Modules) + 1
         /\ StartupMaps[1] = Prog /\ StartupMaps[2] = Rtld
         /\ \A i \in 3 .. Len(Modules) + 1 : StartupMaps[i] = Modules[i - 1]
         /\ IsInjective(StartupMaps)
         /\ Range(StartupMaps) = Range(group) \cup {Rtld}
<1> DEFINE m == Modules
           s == StartupMaps
<1>1. /\ m \in Seq(Objects) /\ IsInjective(m) /\ Range(m) = Range(group) \ {Rtld}
      /\ Len(m) >= 1 /\ m[1] = Prog /\ m # <<>>
  BY ModulesAre
<1>2. s = InsertAt(m, 2, Rtld)
  BY <1>1 DEF StartupMaps
<1> HIDE DEF s, m
<1>5. Prog \in Objects /\ Rtld \in Objects /\ Prog # Rtld
  BY ObjectsAssumption DEF Objects
<1>6. /\ s \in Seq(Objects) /\ Len(s) = Len(m) + 1
      /\ s[1] = Prog /\ s[2] = Rtld
      /\ \A i \in 3 .. Len(m) + 1 : s[i] = m[i - 1]
  <2>1. SecondInserted(Objects, m, Rtld, InsertAt(m, 2, Rtld))
    BY <1>1, <1>5, InsertSecond, Zenon
  <2>2. SecondInserted(Objects, m, Rtld, s)
    BY <1>2, <2>1, Zenon
  <2>3. QED
    BY <1>1, <2>2 DEF SecondInserted
<1>7. \A i \in 3 .. Len(m) + 1 : s[i] = m[i - 1]
  BY <1>6
<1>8. /\ Rtld \notin Range(m)
      /\ \A i \in 1 .. Len(m) : m[i] \in Range(m) /\ m[i] # Rtld
      /\ \A i, j \in 1 .. Len(m) : m[i] = m[j] => i = j
  <2>1. DOMAIN m = 1 .. Len(m)
    BY <1>1
  <2>2. QED
    BY <1>1, <2>1, RangeIs DEF IsInjective
<1>9. IsInjective(s)
  <2> DEFINE at(i) == IF i = 1 THEN 1 ELSE i - 1
  <2>1. \A i \in 1 .. Len(s) : i # 2 => at(i) \in 1 .. Len(m) /\ s[i] = m[at(i)]
    BY <1>1, <1>6, <1>7
  <2>2. \A i, j \in 1 .. Len(s) : i # 2 /\ j # 2 /\ at(i) = at(j) => i = j
    BY <1>1, <1>6
  <2> HIDE DEF at
  <2>3. \A i, j \in 1 .. Len(s) : i # 2 /\ j # 2 /\ s[i] = s[j] => i = j
    BY <1>8, <2>1, <2>2
  <2>4. \A i \in 1 .. Len(s) : i # 2 => s[i] # s[2]
    BY <1>6, <1>8, <2>1
  <2>5. QED
    BY <1>1, <1>6, <2>3, <2>4 DEF IsInjective
<1>10. Range(s) = Range(m) \cup {Rtld}
  <2>1. \A i \in 1 .. Len(s) : s[i] \in Range(m) \cup {Rtld}
    <3>1. ASSUME NEW i \in 3 .. Len(m) + 1 PROVE s[i] \in Range(m)
      <4>1. i - 1 \in 1 .. Len(m)
        BY <1>1
      <4>2. QED
        BY <1>7, <1>8, <4>1
    <3>2. s[1] \in Range(m) /\ s[2] = Rtld
      BY <1>1, <1>6, <1>8
    <3>3. QED
      BY <1>1, <1>6, <3>1, <3>2
  <2>2. Rtld \in Range(s)
    BY <1>1, <1>6 DEF Range
  <2>3. ASSUME NEW i \in 1 .. Len(m) PROVE m[i] \in Range(s)
    <3>1. CASE i = 1
      BY <1>1, <1>6, <3>1 DEF Range
    <3>2. CASE i # 1
      <4>1. i + 1 \in 3 .. Len(m) + 1 /\ (i + 1) - 1 = i /\ i + 1 \in 1 .. Len(s)
        BY <1>1, <1>6, <3>2
      <4>2. s[i + 1] = m[i]
        BY <1>7, <4>1
      <4>3. QED
        BY <1>6, <4>1, <4>2 DEF Range
    <3>3. QED
      BY <3>1, <3>2
  <2>4. QED
    BY <1>1, <1>6, <2>1, <2>2, <2>3 DEF Range
<1>11. Rtld \in Objects /\ Range(s) = Range(group) \cup {Rtld}
  BY <1>1, <1>5, <1>10
<1>12. QED
  BY <1>6, <1>7, <1>9, <1>11 DEF s, m

-----------------------------------------------------------------------------
(* The parts of the invariant that a step leaves alone.                    *)

\* A chain of mapped modules.
LEMMA KeepMapping ==
  ASSUME MappingInv, UNCHANGED <<group, loadOrder, list>>,
         pc' \in Mapping => pc \in Mapping /\ (pc' = "before" <=> pc = "before")
  PROVE  MappingInv'
BY DEF MappingInv, Modules, list

\* A list that was wired.
LEMMA KeepWired ==
  ASSUME WiredInv, UNCHANGED <<group, loadOrder, list, rMap, glibc, later, extended>>,
         pc' \in Wired => pc \in Wired
  PROVE  WiredInv'
<1>1. WalkOrder' = WalkOrder /\ Seen' = Seen
  BY DEF WalkOrder, Seen, Lost, Alone
<1>2. IsWalk(Seen) => IsWalk(Seen)'
  BY <1>1 DEF IsWalk, list
<1>3. QED
  BY <1>1, <1>2 DEF WiredInv, list

\* A list that is being dropped.
LEMMA KeepRollback ==
  ASSUME RollbackInv, UNCHANGED <<group, loadOrder, list, later>>,
         pc' = "rollback" => pc = "rollback"
  PROVE  RollbackInv'
BY DEF RollbackInv, Alone, DoublyLinked, Listed, Live, list

\* The destructors.
LEMMA KeepFini ==
  ASSUME FiniInv, UNCHANGED <<group, inited, finalized, startupRoot>>,
         pc' = pc \/ {pc, pc'} \cap {"running", "fini", "done"} = {}
  PROVE  FiniInv'
BY DEF FiniInv, FiniScope

\* The initial states.
LEMMA InitInv == Init => Inv
<1> SUFFICES ASSUME Init PROVE Inv
  OBVIOUS
<1> USE DEF Init
<1>1. proc \in Processes /\ proc.fds \subseteq StdFds
  BY ProcessesAssumption
<1>2. Rtld \in Objects /\ Prog \in Objects /\ Libc \in Libs
  BY ObjectsAssumption DEF Objects
<1>3. TypeOK
  <2>1. glibc \in [aux : BOOLEAN, loaded : Objects \cup {Null}, nloaded : Nat,
                   searchlist : Seq(Objects), libc : {Libc, Null}]
    BY DEF NewTables
  <2>2. fds \subseteq StdFds /\ fd \in 0 .. 3 /\ scan \in Nat
    BY <1>1
  <2>3. /\ group \in Seq(Objects) /\ loadOrder \in Seq(Objects)
        /\ inited \in Seq(Objects) /\ finalized \in Seq(Objects)
    OBVIOUS
  <2>4. QED
    BY <1>1, <2>1, <2>2, <2>3 DEF TypeOK
<1>4. UnlinkedInv /\ MappingInv /\ WiredInv /\ RollbackInv
  BY DEF UnlinkedInv, MappingInv, WiredInv, RollbackInv, Mapping, Wired
<1>5. GroupInv
  BY DEF GroupInv, Mapping, Wired, IsInjective
<1>6. TablesInv
  BY DEF TablesInv, Wired
<1>7. FdsInv /\ FiniInv /\ SecureDescriptors /\ OrderInv
  BY DEF FdsInv, FiniInv, SecureDescriptors, OrderInv, Mapping, Wired
<1>8. QED
  BY <1>3, <1>4, <1>5, <1>6, <1>7 DEF Inv

-----------------------------------------------------------------------------
(* One lemma per step: up to the program.                                  *)

\* The start: the control is passed through only where nothing is left to do.
LEMMA BootstrapStep ==
  ASSUME Inv, Bootstrap
  PROVE  Inv'
<1> USE DEF Inv
<1>1. /\ pc = "start" /\ UNCHANGED <<proc, fds, fd, link, list, rMap, tlsModules, early, life>>
      /\ pc' \in {"exit", "through", "fds", "rtld"}
      /\ why' \in {why, "relocate"}
  BY DEF Bootstrap, ExitFatal
<1>2. \/ glibc' = glibc /\ pc' \in {"exit", "through"}
      \/ glibc' = [glibc EXCEPT !.aux = TRUE] /\ pc' \in {"fds", "rtld"}
  BY DEF Bootstrap, ExitFatal, PublishAux
<1> USE DEF link, list, life
<1>3. TypeOK'
  BY <1>1, <1>2, ZenonT(60) DEF TypeOK
<1>4. UnlinkedInv'
  BY <1>1 DEF UnlinkedInv, Unlinked
<1>5. GroupInv'
  BY <1>1 DEF GroupInv, Mapping, Wired
<1>6. MappingInv' /\ WiredInv' /\ RollbackInv'
  BY <1>1 DEF MappingInv, WiredInv, RollbackInv, Mapping, Wired
<1>7. TablesInv'
  BY <1>1, <1>2 DEF TablesInv, Wired, TypeOK, GroupInv
<1>8. FdsInv'
  BY <1>1 DEF FdsInv, StdFds
<1>9. FiniInv'
  BY <1>1, KeepFini
<1>10. SecureDescriptors'
  <2>1. why' # "wrong descriptor"
    BY <1>1 DEF SecureDescriptors
  <2>2. proc.secure => pc' \in {"exit", "through", "fds"}
    BY DEF Bootstrap, ExitFatal
  <2>3. QED
    BY <1>1, <2>1, <2>2 DEF SecureDescriptors
<1>11. OrderInv'
  BY <1>1 DEF OrderInv, Mapping, Wired
<1>12. QED
  BY <1>3, <1>4, <1>5, <1>6, <1>7, <1>8, <1>9, <1>10, <1>11

\* Below fd all are open, so the lowest free descriptor is fd.
LEMMA CheckStandardFdStep ==
  ASSUME Inv, CheckStandardFd
  PROVE  Inv'
<1> USE DEF Inv
<1>1. pc = "fds" /\ UNCHANGED <<proc, link, list, pub, life>>
  BY DEF CheckStandardFd
<1>2. /\ fd \in 0 .. 2 /\ fds \subseteq StdFds
      /\ {d \in StdFds : d < fd} \subseteq fds
  <2>1. fd \in 0 .. 3 /\ fds \subseteq StdFds
    BY DEF TypeOK
  <2>2. fd < 3 /\ {d \in StdFds : d < fd} \subseteq fds
    BY <1>1 DEF FdsInv
  <2>3. QED
    BY <2>1, <2>2
<1>3. fd \notin fds => LowestFree = fd
  <2>1. SUFFICES ASSUME fd \notin fds PROVE LowestFree = fd
    OBVIOUS
  <2> DEFINE F == (StdFds \cup {3}) \ fds
  <2>2. fd \in F /\ \A d \in F : fd =< d /\ d \in Nat
    BY <1>2, <2>1 DEF StdFds
  <2> HIDE DEF F
  <2>3. \A x \in F : (\A y \in F : x =< y) => x = fd
    BY <1>2, <2>2
  <2>4. Min(F) = fd
    BY <2>2, <2>3 DEF Min
  <2>5. QED
    BY <2>4 DEF LowestFree, F
<1>4. \/ pc' = "exit" /\ why' = "open failed" /\ UNCHANGED <<fds, fd>>
      \/ /\ pc' = IF fd = 2 THEN "rtld" ELSE "fds"
         /\ fd' = fd + 1 /\ fds' = fds \cup {fd} /\ why' = why
  BY <1>3 DEF CheckStandardFd, ExitFatal
<1>5. pc' \in {"exit", "rtld", "fds"}
  BY <1>4
<1> USE DEF link, list, pub, life
<1>6. TypeOK'
  <2>1. fds' \subseteq StdFds /\ why' \in {why, "open failed"}
    BY <1>2, <1>4 DEF StdFds
  <2>2. fd' = fd \/ fd' = fd + 1
    BY <1>4
  <2>3. fd' \in 0 .. 3
    BY <1>2, <2>2
  <2>4. /\ why' \in {"none", "relocate", "open failed", "wrong descriptor", "load", "link"}
        /\ proc' \in Processes
    BY <1>1, <2>1 DEF TypeOK
  <2>5. QED
    BY <1>1, <1>5, <2>1, <2>3, <2>4, ZenonT(60) DEF TypeOK
<1>7. UnlinkedInv'
  BY <1>1, <1>5 DEF UnlinkedInv, Unlinked
<1>8. GroupInv'
  BY <1>1, <1>5 DEF GroupInv, Mapping, Wired
<1>9. MappingInv' /\ WiredInv' /\ RollbackInv'
  BY <1>1, <1>5 DEF MappingInv, WiredInv, RollbackInv, Mapping, Wired
<1>10. TablesInv'
  BY <1>1, <1>5 DEF TablesInv, Wired
<1>11. FdsInv'
  <2>1. SUFFICES ASSUME pc' = "fds"
                 PROVE  fd' < 3 /\ \A d \in StdFds : d < fd' => d \in fds'
    BY <1>5 DEF FdsInv
  <2>2. fd # 2 /\ fd' = fd + 1 /\ fds' = fds \cup {fd}
    BY <1>4, <2>1
  <2>3. fd' < 3
    BY <1>2, <2>2
  <2>4. \A d \in StdFds : d < fd + 1 => d < fd \/ d = fd
    BY <1>2 DEF StdFds
  <2>5. QED
    BY <1>2, <2>2, <2>3, <2>4
<1>12. FiniInv'
  BY <1>1, <1>5, KeepFini
<1>13. SecureDescriptors'
  <2>1. why' # "wrong descriptor"
    BY <1>4 DEF SecureDescriptors
  <2>2. CASE pc' = "rtld"
    <3>1. fd = 2 /\ fds' = fds \cup {2}
      BY <1>4, <2>2
    <3>2. \A d \in StdFds : d < 2 \/ d = 2
      BY DEF StdFds
    <3>3. StdFds \subseteq fds'
      BY <1>2, <3>1, <3>2
    <3>4. QED
      BY <2>1, <3>3 DEF SecureDescriptors
  <2>3. QED
    BY <1>5, <2>1, <2>2 DEF SecureDescriptors
<1>14. OrderInv'
  BY <1>5 DEF OrderInv, Mapping, Wired
<1>15. QED
  BY <1>6, <1>7, <1>8, <1>9, <1>10, <1>11, <1>12, <1>13, <1>14

\* The loader is registered.
LEMMA RegisterRtldStep ==
  ASSUME Inv, RegisterRtld
  PROVE  Inv'
<1> USE DEF Inv
<1>1. /\ pc = "rtld" /\ UNCHANGED <<proc, fds, fd, group, scan, pub, life>>
      /\ pc' \in {"exit", "main"} /\ why' \in {why, "load"}
  BY DEF RegisterRtld, ExitFatal
<1>2. loadOrder = <<>> /\ map = Null /\ tail = Null /\ group = <<>>
  BY <1>1 DEF UnlinkedInv, Unlinked
<1>3. Rtld \in Objects
  BY ObjectsAssumption DEF Objects
<1>4. \/ pc' = "exit" /\ UNCHANGED <<list, loadOrder>>
      \/ /\ pc' = "main" /\ loadOrder' = <<Rtld>>
         /\ map' = Rtld /\ tail' = Rtld
         /\ next' = [m \in Objects |->
                      IF m = Rtld THEN Null ELSE IF m = tail THEN Rtld ELSE next[m]]
         /\ prev' = [prev EXCEPT ![Rtld] = tail]
  BY <1>2, <1>3 DEF RegisterRtld, ExitFatal, AddLinkMap
<1> USE DEF link, list, pub, life
<1>5. TypeOK'
  <2>b. <<Rtld>> \in Seq(Objects)
    BY <1>3
  <2>a. <<Rtld>> \in Seq(Objects) /\ loadOrder \in Seq(Objects)
    BY <2>b DEF TypeOK
  <2>1. /\ loadOrder' \in Seq(Objects)
        /\ map' \in Objects \cup {Null} /\ tail' \in Objects \cup {Null}
    BY <1>2, <1>3, <1>4, <2>a
  <2>2. /\ next' \in [Objects -> Objects \cup {Null}]
        /\ prev' \in [Objects -> Objects \cup {Null}]
    <3>1. /\ next \in [Objects -> Objects \cup {Null}]
          /\ prev \in [Objects -> Objects \cup {Null}]
      BY DEF TypeOK
    <3>2. CASE UNCHANGED list
      BY <3>1, <3>2
    <3>3. CASE ~UNCHANGED list
      <4>1. /\ tail \in Objects \cup {Null}
            /\ next' = [m \in Objects |->
                         IF m = Rtld THEN Null ELSE IF m = tail THEN Rtld ELSE next[m]]
            /\ prev' = [prev EXCEPT ![Rtld] = tail]
        BY <1>2, <1>4, <3>3
      <4>2. prev' \in [Objects -> Objects \cup {Null}]
        BY <1>3, <3>1, <4>1
      <4>3. next' \in [Objects -> Objects \cup {Null}]
        BY <1>3, <3>1, <4>1
      <4>4. QED
        BY <4>2, <4>3
    <3>4. QED
      BY <3>2, <3>3
  <2>3. QED
    BY <1>1, <2>1, <2>2, ZenonT(60) DEF TypeOK
<1>6. UnlinkedInv'
  BY <1>1, <1>2, <1>4 DEF UnlinkedInv, Unlinked
<1>7. GroupInv'
  BY <1>1 DEF GroupInv, Mapping, Wired
<1>8. MappingInv' /\ WiredInv' /\ RollbackInv'
  BY <1>1 DEF MappingInv, WiredInv, RollbackInv, Mapping, Wired
<1>9. TablesInv' /\ FdsInv' /\ OrderInv'
  BY <1>1 DEF TablesInv, Wired, FdsInv, OrderInv, Mapping
<1>10. FiniInv'
  BY <1>1, KeepFini
<1>11. SecureDescriptors'
  BY <1>1 DEF SecureDescriptors
<1>12. QED
  BY <1>5, <1>6, <1>7, <1>8, <1>9, <1>10, <1>11

\* What add_debug_link_map does to the links.
LEMMA AddLinkMapIs ==
  ASSUME TypeOK, NEW o \in Objects, AddLinkMap(o), tail # o
  PROVE  /\ next' \in [Objects -> Objects \cup {Null}]
         /\ prev' \in [Objects -> Objects \cup {Null}]
         /\ tail' = o /\ map' = IF tail = Null THEN o ELSE map
         /\ prev'[o] = tail /\ next'[o] = Null
         /\ tail \in Objects => next'[tail] = o
         /\ \A m \in Objects \ {o} : prev'[m] = prev[m]
         /\ \A m \in Objects \ {o, tail} : next'[m] = next[m]
BY DEF AddLinkMap, TypeOK

\* The program is mapped.
LEMMA MapMainStep ==
  ASSUME Inv, MapMain
  PROVE  Inv'
<1> USE DEF Inv
<1>1. /\ pc = "main" /\ UNCHANGED <<proc, fds, fd, scan, loadOrder, rMap, glibc, early, life>>
      /\ pc' \in {"exit", "through", "link"} /\ why' \in {why, "load"}
  BY DEF MapMain, ExitFatal
<1>2. loadOrder = <<Rtld>> /\ map = Rtld /\ tail = Rtld /\ group = <<>>
  BY <1>1 DEF UnlinkedInv, Unlinked
<1>3. Rtld \in Objects /\ Prog \in Objects /\ Rtld # Prog /\ Null \notin Objects
  BY ObjectsAssumption DEF Objects
<1>4. /\ <<Prog>> \in Seq(Objects) /\ <<Prog>> # <<>> /\ IsInjective(<<Prog>>)
      /\ Len(<<Prog>>) = 1 /\ <<Prog>>[1] = Prog
      /\ Range(<<Prog>>) = {Prog} /\ Range(<<Rtld>>) = {Rtld}
  BY <1>3 DEF IsInjective, Range
<1>5. RemoveFirst(<<Prog>>, Rtld) = <<Prog>>
  <2> DEFINE g == <<Prog>>
  <2>1. g \in Seq(Objects) /\ Rtld \notin Range(g)
    BY <1>3, <1>4
  <2> HIDE DEF g
  <2>2. RemoveFirst(g, Rtld) = g
    BY <2>1, RemoveFirstAbsent
  <2>3. QED
    BY <2>2 DEF g
<1>6. \/ pc' = "exit" /\ UNCHANGED <<list, group, tlsModules>>
      \/ pc' = "through" /\ proc.direct /\ tlsModules' = {Rtld} /\ UNCHANGED <<list, group>>
      \/ pc' = "link" /\ AddLinkMap(Prog) /\ group' = <<Prog>> /\ UNCHANGED tlsModules
  BY <1>2, <1>4 DEF MapMain, ExitFatal, PublishTlsLayout
<1>7. AddLinkMap(Prog) =>
        /\ next' \in [Objects -> Objects \cup {Null}]
        /\ prev' \in [Objects -> Objects \cup {Null}]
        /\ tail' = Prog /\ map' = Rtld /\ prev'[Prog] = Rtld
  BY <1>2, <1>3, AddLinkMapIs
<1> USE DEF link, list, life
<1>8. TypeOK'
  <2>1. /\ next' \in [Objects -> Objects \cup {Null}]
        /\ prev' \in [Objects -> Objects \cup {Null}]
    BY <1>6, <1>7 DEF TypeOK
  <2>2. /\ map' \in Objects \cup {Null} /\ tail' \in Objects \cup {Null}
        /\ tlsModules' \subseteq Objects
    BY <1>3, <1>6, <1>7 DEF TypeOK
  <2>3. group' \in Seq(Objects)
    BY <1>4, <1>6 DEF TypeOK
  <2>4. QED
    BY <1>1, <2>1, <2>2, <2>3, ZenonT(60) DEF TypeOK
<1>9. UnlinkedInv' /\ WiredInv' /\ RollbackInv'
  BY <1>1 DEF UnlinkedInv, Unlinked, WiredInv, Wired, RollbackInv
<1>10. GroupInv'
  <2>1. inited' = <<>> /\ later' = {} /\ ~early' /\ scan' # 0
    BY <1>1 DEF GroupInv
  <2>2. IsInjective(group')
    BY <1>4, <1>6 DEF GroupInv
  <2>3. pc' = "link" => group' = <<Prog>>
    BY <1>6
  <2>4. QED
    BY <1>1, <1>4, <2>1, <2>2, <2>3 DEF GroupInv, Mapping, Wired
<1>11. MappingInv'
  <2>1. SUFFICES ASSUME pc' = "link" PROVE MappingInv'
    BY <1>1 DEF MappingInv, Mapping
  <2>2. AddLinkMap(Prog) /\ group' = <<Prog>>
    BY <1>6, <2>1
  <2>3. Modules' = <<Prog>>
    BY <1>5, <2>2 DEF Modules
  <2>4. loadOrder' = <<Rtld>> \o <<>>
    <3>1. <<Rtld>> \o <<>> = <<Rtld>>
      OBVIOUS
    <3>2. QED
      BY <1>1, <1>2, <3>1
  <2>5. /\ tail' = Prog /\ map' = Rtld /\ prev'[Prog] = Rtld
    BY <1>7, <2>2
  <2>6. QED
    BY <2>1, <2>3, <2>4, <2>5 DEF MappingInv
<1>12. TablesInv' /\ FdsInv'
  <2>1. inited' = <<>>
    BY <1>1 DEF GroupInv
  <2>2. QED
    BY <1>1, <2>1 DEF TablesInv, Wired, FdsInv
<1>13. FiniInv'
  BY <1>1 DEF FiniInv
<1>14. SecureDescriptors'
  BY <1>1 DEF SecureDescriptors
<1>15. OrderInv'
  BY <1>1, <1>6 DEF OrderInv, Mapping, Wired
<1>16. QED
  BY <1>8, <1>9, <1>10, <1>11, <1>12, <1>13, <1>14, <1>15

\* The links of the loader are cleared; those of the program stay.
LEMMA ClearRtldLinksStep ==
  ASSUME Inv, ClearRtldLinks
  PROVE  Inv'
<1> USE DEF Inv
<1>1. /\ pc = "link" /\ pc' = "map"
      /\ UNCHANGED <<proc, why, fds, fd, link, map, tail, pub, life>>
      /\ next' = [next EXCEPT ![Rtld] = Null] /\ prev' = [prev EXCEPT ![Rtld] = Null]
  BY DEF ClearRtldLinks
<1> USE DEF link, list, pub, life
<1>2. Rtld \in Objects
  BY ObjectsAssumption DEF Objects
<1>3. TypeOK'
  BY <1>1, <1>2, ZenonT(60) DEF TypeOK
<1>4. UnlinkedInv' /\ WiredInv' /\ RollbackInv'
  BY <1>1 DEF UnlinkedInv, Unlinked, WiredInv, Wired, RollbackInv
<1>5. GroupInv'
  BY <1>1 DEF GroupInv, Mapping, Wired
<1>6. MappingInv'
  <2>1. Modules' = Modules
    BY <1>1 DEF Modules
  <2>2. /\ Modules \in Seq(Objects) /\ Rtld \notin Range(Modules)
    BY <1>1, ModulesAre DEF TypeOK, GroupInv, Mapping
  <2>3. \A i \in DOMAIN Modules : Modules[i] \in Objects \ {Rtld}
    BY <2>2, RangeIs
  <2>4. \A i \in DOMAIN Modules :
          prev'[Modules[i]] = prev[Modules[i]] /\ next'[Modules[i]] = next[Modules[i]]
    BY <1>1, <2>3 DEF TypeOK
  <2>5. QED
    BY <1>1, <2>1, <2>4 DEF MappingInv, Mapping
<1>7. TablesInv' /\ FdsInv' /\ OrderInv'
  BY <1>1 DEF TablesInv, Wired, FdsInv, OrderInv, Mapping
<1>8. FiniInv'
  BY <1>1, KeepFini
<1>9. SecureDescriptors'
  BY <1>1 DEF SecureDescriptors
<1>10. QED
  BY <1>3, <1>4, <1>5, <1>6, <1>7, <1>8, <1>9

\* The next name that a scanned module needs is that of a new object.
LEMMA MissingIs ==
  ASSUME TypeOK, scan # 0, scan <= Len(group), Missing # {}
  PROVE  /\ proc.needed[group[scan]][Min(Missing)] \in Objects \ {Prog}
         /\ proc.needed[group[scan]][Min(Missing)] \notin Range(group)
         /\ proc.needed[group[scan]][Min(Missing)] \in Range(proc.needed[group[scan]])
<1>1. group[scan] \in Objects
  <2>1. scan \in Nat /\ Len(group) \in Nat
    BY LenProperties DEF TypeOK
  <2>2. scan \in 1 .. Len(group)
    BY <2>1
  <2>3. QED
    BY <2>2, ElementOfSeq DEF TypeOK
<1> DEFINE need == proc.needed[group[scan]]
<1>2. need \in Seq(Objects \ {Prog})
  BY <1>1, ProcessesAssumption DEF TypeOK
<1>3. Missing = {i \in DOMAIN need : need[i] \notin Range(group)}
  BY DEF Missing
<1> HIDE DEF need
<1>4. DOMAIN need = 1 .. Len(need) /\ Len(need) \in Nat
  BY <1>2, LenProperties
<1>5. Missing \in SUBSET Nat
  BY <1>3, <1>4
<1>6. Min(Missing) \in Missing
  BY <1>5, MinIsIn
<1>7. Min(Missing) \in 1 .. Len(need) /\ need[Min(Missing)] \notin Range(group)
  BY <1>3, <1>4, <1>6
<1>8. need[Min(Missing)] \in Objects \ {Prog} /\ need[Min(Missing)] \in Range(need)
  BY <1>2, <1>7, ElementOfSeq, RangeIs
<1>9. QED
  BY <1>7, <1>8 DEF need

\* A dependency is mapped behind the last module, or was the loader.
LEMMA MapDependencyStep ==
  ASSUME Inv, MapDependency
  PROVE  Inv'
<1> USE DEF Inv
<1>1. /\ pc = "map" /\ scan <= Len(group)
      /\ UNCHANGED <<proc, pc, why, fds, fd, loadOrder, pub, life>>
  BY DEF MapDependency
<1>2. scan # 0 /\ scan \in Nat
  BY DEF GroupInv, TypeOK
<1>3. \/ scan' = scan + 1 /\ UNCHANGED <<group, list>>
      \/ /\ scan' = scan
         /\ \E o \in Objects \ {Prog} :
               /\ o \notin Range(group) /\ group' = Append(group, o)
               /\ o \in Range(proc.needed[group[scan]])
               /\ IF o = Rtld THEN UNCHANGED list ELSE AddLinkMap(o)
  BY <1>1, <1>2, MissingIs DEF MapDependency
<1>4. CASE scan' = scan + 1 /\ UNCHANGED <<group, list>>
  <2> USE DEF link, list, pub, life
  <2>1. TypeOK'
    <3>1. scan' \in Nat
      BY <1>2, <1>4
    <3>2. QED
      BY <1>1, <1>4, <3>1, ZenonT(60) DEF TypeOK
  <2>2. UnlinkedInv' /\ WiredInv' /\ RollbackInv'
    BY <1>1 DEF UnlinkedInv, Unlinked, WiredInv, Wired, RollbackInv
  <2>3. GroupInv'
    <3>1. scan' # 0
      BY <1>2, <1>4
    <3>2. QED
      BY <1>1, <1>4, <3>1 DEF GroupInv, Mapping, Wired
  <2>4. MappingInv'
    BY <1>1, <1>4, KeepMapping
  <2>5. TablesInv' /\ FdsInv' /\ OrderInv' /\ SecureDescriptors'
    BY <1>1, <1>4 DEF TablesInv, Wired, FdsInv, OrderInv, SecureDescriptors, Mapping
  <2>6. FiniInv'
    BY <1>1, <1>4, KeepFini
  <2>7. QED
    BY <2>1, <2>2, <2>3, <2>4, <2>5, <2>6
<1>5. CASE scan' = scan /\ \E o \in Objects \ {Prog} :
               /\ o \notin Range(group) /\ group' = Append(group, o)
               /\ o \in Range(proc.needed[group[scan]])
               /\ IF o = Rtld THEN UNCHANGED list ELSE AddLinkMap(o)
  <2>1. PICK o \in Objects \ {Prog} :
               /\ o \notin Range(group) /\ group' = Append(group, o)
               /\ o \in Range(proc.needed[group[scan]])
               /\ IF o = Rtld THEN UNCHANGED list ELSE AddLinkMap(o)
    BY <1>5
  <2>2. /\ group \in Seq(Objects) /\ IsInjective(group) /\ group # <<>>
        /\ group[1] = Prog /\ later = {} /\ inited = <<>> /\ ~early
    BY <1>1 DEF TypeOK, GroupInv, Mapping
  <2>3. /\ group' \in Seq(Objects) /\ IsInjective(group') /\ group' # <<>>
        /\ group'[1] = Prog
    <3> DEFINE g == Append(group, o)
    <3>1. /\ g \in Seq(Objects) /\ IsInjective(g) /\ Len(g) = Len(group) + 1
          /\ \A i \in 1 .. Len(group) : g[i] = group[i]
      BY <2>1, <2>2, AppendNew
    <3> HIDE DEF g
    <3>2. Len(group) \in Nat \ {0}
      BY <2>2, EmptySeq, LenProperties
    <3>3. g # <<>> /\ g[1] = Prog
      BY <2>2, <3>1, <3>2
    <3>4. QED
      BY <2>1, <3>1, <3>3 DEF g
  <2> DEFINE m == Modules
  <2>4. /\ m \in Seq(Objects) /\ IsInjective(m) /\ Range(m) = Range(group) \ {Rtld}
        /\ Len(m) >= 1 /\ m[1] = Prog /\ Len(m) \in Nat
    BY <2>2, ModulesAre, LenProperties
  <2>5. Modules' = IF o = Rtld THEN m ELSE Append(m, o)
    BY <2>1, <2>2, ModulesGrow DEF Modules
  <2> HIDE DEF m
  <2>6. /\ map = Rtld /\ tail = m[Len(m)] /\ loadOrder = <<Rtld>> \o <<>>
        /\ \A i \in 1 .. Len(m) :
               /\ prev[m[i]] = IF i = 1 THEN Rtld ELSE m[i - 1]
               /\ i < Len(m) => next[m[i]] = m[i + 1]
    BY <1>1, <2>4, LenProperties DEF MappingInv, Mapping, m
  <2>7. \A i \in 1 .. Len(m) : m[i] \in Objects \ {o}
    BY <2>1, <2>4, RangeIs
  <2>8. o # Rtld =>
        /\ next' \in [Objects -> Objects \cup {Null}]
        /\ prev' \in [Objects -> Objects \cup {Null}]
        /\ tail' = o /\ map' = Rtld
        /\ prev'[o] = tail /\ next'[tail] = o
        /\ \A x \in Objects \ {o} : prev'[x] = prev[x]
        /\ \A x \in Objects \ {o, tail} : next'[x] = next[x]
    <3>1. tail \in Objects /\ tail # o /\ tail # Null
      BY <2>4, <2>6, <2>7, ObjectsAssumption
    <3>2. QED
      BY <2>1, <2>6, <3>1, AddLinkMapIs
  <2>9. TypeOK'
    <3> USE DEF link, list, pub, life
    <3>1. /\ next' \in [Objects -> Objects \cup {Null}]
          /\ prev' \in [Objects -> Objects \cup {Null}]
          /\ map' \in Objects \cup {Null} /\ tail' \in Objects \cup {Null}
      BY <2>1, <2>6, <2>8 DEF TypeOK
    <3>2. QED
      BY <1>1, <1>5, <2>3, <3>1 DEF TypeOK
  <2>10. MappingInv'
    <3>1. CASE o = Rtld
      BY <1>1, <2>1, <2>5, <3>1 DEF MappingInv, list, m
    <3>2. CASE o # Rtld
      <4> DEFINE a == Append(m, o)
      <4>1. /\ a \in Seq(Objects) /\ Len(a) = Len(m) + 1 /\ DOMAIN a = 1 .. Len(m) + 1
            /\ \A i \in 1 .. Len(m) : a[i] = m[i]
            /\ a[Len(m) + 1] = o
        BY <2>4, LenProperties
      <4> HIDE DEF a
      <4>2. \A i \in 1 .. Len(m) : prev'[m[i]] = IF i = 1 THEN Rtld ELSE m[i - 1]
        BY <2>6, <2>7, <2>8, <3>2
      <4>3. ASSUME NEW i \in 1 .. Len(m), i < Len(m) PROVE next'[m[i]] = m[i + 1]
        <5>1. m[i] # m[Len(m)]
          BY <2>4, <4>3, LenProperties DEF IsInjective
        <5>2. QED
          BY <2>6, <2>7, <2>8, <3>2, <4>3, <5>1
      <4>4. next'[m[Len(m)]] = o /\ prev'[o] = m[Len(m)]
        BY <2>6, <2>8, <3>2
      <4>5. ASSUME NEW i \in DOMAIN a
            PROVE  prev'[a[i]] = IF i = 1 THEN Rtld ELSE a[i - 1]
        <5>1. CASE i = Len(m) + 1
          <6>1. a[i] = o /\ i # 1 /\ i - 1 = Len(m) /\ a[i - 1] = m[Len(m)]
            BY <2>4, <4>1, <5>1
          <6>2. QED
            BY <4>4, <6>1
        <5>2. CASE i \in 1 .. Len(m)
          <6>1. a[i] = m[i] /\ (i # 1 => a[i - 1] = m[i - 1])
            BY <4>1, <5>2
          <6>2. QED
            BY <4>2, <5>2, <6>1
        <5>3. QED
          BY <2>4, <4>1, <5>1, <5>2
      <4>6. ASSUME NEW i \in DOMAIN a, i < Len(a) PROVE next'[a[i]] = a[i + 1]
        <5>1. i \in 1 .. Len(m) /\ a[i] = m[i]
          BY <2>4, <4>1, <4>6
        <5>2. CASE i = Len(m)
          BY <4>1, <4>4, <5>1, <5>2
        <5>3. CASE i < Len(m)
          <6>1. i + 1 \in 1 .. Len(m)
            BY <2>4, <5>1, <5>3
          <6>2. QED
            BY <4>1, <4>3, <5>1, <5>3, <6>1
        <5>4. QED
          BY <2>4, <5>1, <5>2, <5>3
      <4>7. Modules' = a
        BY <2>5, <3>2 DEF a
      <4>8. loadOrder' = <<Rtld>> \o <<>> /\ map' = Rtld /\ tail' = a[Len(a)]
        BY <1>1, <2>6, <2>8, <3>2, <4>1
      <4>9. QED
        BY <1>1, <4>5, <4>6, <4>7, <4>8 DEF MappingInv
    <3>3. QED
      BY <3>1, <3>2
  <2>11. UnlinkedInv' /\ WiredInv' /\ RollbackInv'
    BY <1>1 DEF UnlinkedInv, Unlinked, WiredInv, Wired, RollbackInv
  <2>12. GroupInv'
    BY <1>1, <1>5, <2>2, <2>3 DEF GroupInv, Mapping, Wired, life, pub
  <2>13. TablesInv' /\ FdsInv' /\ SecureDescriptors'
    BY <1>1, <2>2 DEF TablesInv, Wired, FdsInv, SecureDescriptors, Mapping, life, pub
  <2>14. FiniInv'
    BY <1>1 DEF FiniInv, life
  <2>15. OrderInv'
    <3> DEFINE n == Len(group)
               needs(j) == Range(proc.needed[group[j]])
    <3>1. /\ n \in Nat /\ scan \in 1 .. n /\ Len(group') = n + 1
          /\ \A i \in 1 .. n : group'[i] = group[i]
          /\ group'[n + 1] = o
      <4>1. n \in Nat
        BY <2>2, LenProperties
      <4>2. scan \in 1 .. n
        BY <1>1, <1>2, <4>1
      <4>3. QED
        BY <2>1, <2>2, <4>1, <4>2, AppendNew
    <3>2. \A i \in 2 .. n : \E j \in 1 .. i - 1 : group[i] \in needs(j)
      BY <1>1 DEF OrderInv, Mapping
    <3>3. o \in needs(scan) /\ proc' = proc
      BY <1>1, <2>1
    <3>a. \A j \in 1 .. n : Range(proc'.needed[group'[j]]) = needs(j)
      BY <3>1, <3>3
    <3> HIDE DEF n, needs
    <3>4. ASSUME NEW i \in 2 .. n + 1
          PROVE  \E j \in 1 .. i - 1 : j \in 1 .. n /\ group'[i] \in needs(j)
      <4>1. CASE i = n + 1
        BY <3>1, <3>3, <4>1
      <4>2. CASE i # n + 1
        <5>1. i \in 2 .. n /\ group'[i] = group[i]
          BY <3>1, <4>2
        <5>2. PICK j \in 1 .. i - 1 : group[i] \in needs(j)
          BY <3>2, <5>1
        <5>3. j \in 1 .. n
          BY <3>1, <5>1
        <5>4. QED
          BY <5>1, <5>2, <5>3
      <4>3. QED
        BY <4>1, <4>2
    <3>5. \A i \in 2 .. Len(group') :
             \E j \in 1 .. i - 1 : group'[i] \in Range(proc'.needed[group'[j]])
      BY <3>1, <3>a, <3>4
    <3>6. QED
      BY <3>5 DEF OrderInv
  <2>16. QED
    BY <2>9, <2>10, <2>11, <2>12, <2>13, <2>14, <2>15
<1>6. QED
  BY <1>3, <1>4, <1>5

\* The modules are committed.
LEMMA PublishStep ==
  ASSUME Inv, Publish
  PROVE  Inv'
<1> USE DEF Inv
<1>1. /\ pc = "map" /\ pc' = "before" /\ loadOrder' = loadOrder \o Modules
      /\ UNCHANGED <<proc, why, fds, fd, group, scan, list, pub, life>>
  BY DEF Publish
<1>2. Modules \in Seq(Objects) /\ Modules' = Modules
  BY <1>1, ModulesAre DEF TypeOK, GroupInv, Mapping, Modules
<1>3. loadOrder = <<Rtld>>
  <2>1. loadOrder = <<Rtld>> \o <<>>
    BY <1>1 DEF MappingInv, Mapping
  <2>2. <<Rtld>> \o <<>> = <<Rtld>>
    OBVIOUS
  <2>3. QED
    BY <2>1, <2>2
<1> USE DEF link, list, pub, life
<1>4. TypeOK'
  <2>1. loadOrder' \in Seq(Objects)
    BY <1>1, <1>2, ConcatProperties DEF TypeOK
  <2>2. QED
    BY <1>1, <2>1, ZenonT(60) DEF TypeOK
<1>5. UnlinkedInv' /\ WiredInv' /\ RollbackInv'
  BY <1>1 DEF UnlinkedInv, Unlinked, WiredInv, Wired, RollbackInv
<1>6. GroupInv'
  BY <1>1 DEF GroupInv, Mapping, Wired
<1>7. MappingInv'
  BY <1>1, <1>2, <1>3 DEF MappingInv, Mapping
<1>8. TablesInv' /\ FdsInv' /\ OrderInv' /\ SecureDescriptors'
  BY <1>1 DEF TablesInv, Wired, FdsInv, OrderInv, SecureDescriptors, Mapping
<1>9. FiniInv'
  BY <1>1, KeepFini
<1>10. QED
  BY <1>4, <1>5, <1>6, <1>7, <1>8, <1>9

-----------------------------------------------------------------------------
(* The list that is wired for constructors and debuggers.                  *)

\* WalkOrder is the load order with the first two changed over.
LEMMA WalkOrderIs ==
  ASSUME loadOrder \in Seq(Objects), Len(loadOrder) >= 2
  PROVE  /\ WalkOrder \in Seq(Objects) /\ Len(WalkOrder) = Len(loadOrder)
         /\ DOMAIN WalkOrder = 1 .. Len(loadOrder)
         /\ WalkOrder[1] = loadOrder[2] /\ WalkOrder[2] = loadOrder[1]
         /\ \A i \in 3 .. Len(loadOrder) : WalkOrder[i] = loadOrder[i]
<1> DEFINE n == Len(loadOrder)
           at(i) == CASE i = 1 -> 2 [] i = 2 -> 1 [] OTHER -> i
<1>1. n \in Nat /\ DOMAIN loadOrder = 1 .. n /\ n >= 2
  BY LenProperties
<1>2. WalkOrder = [i \in 1 .. n |-> loadOrder[at(i)]]
  BY <1>1 DEF WalkOrder
<1>3. /\ at(1) = 2 /\ at(2) = 1
      /\ \A i \in 3 .. n : at(i) = i
      /\ \A i \in 1 .. n : at(i) \in 1 .. n
  BY <1>1
<1> HIDE DEF n, at
<1>4. \A i \in 1 .. n : loadOrder[at(i)] \in Objects
  BY <1>1, <1>3, ElementOfSeq DEF n
<1>5. WalkOrder \in Seq(Objects) /\ Len(WalkOrder) = n
  BY <1>1, <1>2, <1>4
<1>6. QED
  BY <1>1, <1>2, <1>3, <1>5 DEF n

\* It has the same members, each as often.
LEMMA WalkOrderInjective ==
  ASSUME loadOrder \in Seq(Objects), Len(loadOrder) >= 2, IsInjective(loadOrder)
  PROVE  IsInjective(WalkOrder) /\ Range(WalkOrder) = Range(loadOrder)
<1> DEFINE n == Len(loadOrder)
           w == WalkOrder
           l == loadOrder
           at(i) == IF i = 1 THEN 2 ELSE IF i = 2 THEN 1 ELSE i
<1>1. n \in Nat /\ n >= 2 /\ DOMAIN l = 1 .. n
  BY LenProperties
<1>2. /\ w \in Seq(Objects) /\ Len(w) = n /\ DOMAIN w = 1 .. n
      /\ w[1] = l[2] /\ w[2] = l[1] /\ \A i \in 3 .. n : w[i] = l[i]
  BY WalkOrderIs
<1>3. \A i, j \in 1 .. n : l[i] = l[j] => i = j
  BY <1>1 DEF IsInjective
<1> HIDE DEF n, w, l
<1>4. \A i \in 1 .. n : at(i) \in 1 .. n /\ w[i] = l[at(i)] /\ at(at(i)) = i
  BY <1>1, <1>2
<1> HIDE DEF at
<1>5. \A i, j \in 1 .. n : w[i] = w[j] => i = j
  BY <1>3, <1>4
<1>6. \A i \in 1 .. n : l[i] = w[at(i)]
  BY <1>4
<1>7. Range(w) = Range(l)
  BY <1>1, <1>2, <1>4, <1>6 DEF Range
<1>8. QED
  BY <1>2, <1>5, <1>7 DEF IsInjective, w, l

\* link_loaded_objects links neighbours, and the rest is left alone.
LEMMA LinkLoadedObjectsIs ==
  ASSUME NEW maps \in Seq(Objects), IsInjective(maps), LinkLoadedObjects(maps),
         Len(maps) >= 1, TypeOK
  PROVE  /\ next' \in [Objects -> Objects \cup {Null}]
         /\ prev' \in [Objects -> Objects \cup {Null}]
         /\ prev'[maps[1]] = Null /\ next'[maps[Len(maps)]] = Null
         /\ \A i \in 1 .. Len(maps) - 1 :
               next'[maps[i]] = maps[i + 1] /\ prev'[maps[i + 1]] = maps[i]
<1> DEFINE at(o) == CHOOSE i \in DOMAIN maps : maps[i] = o
                                           /\ \A j \in DOMAIN maps : maps[j] = o => j <= i
           n == Len(maps)
<1>1. /\ n \in Nat /\ DOMAIN maps = 1 .. n /\ n >= 1
      /\ \A i \in 1 .. n : maps[i] \in Objects /\ maps[i] \in Range(maps)
      /\ \A i, j \in 1 .. n : maps[i] = maps[j] => i = j
      /\ \A x \in Range(maps) : \E i \in 1 .. n : maps[i] = x
  BY LenProperties, ElementOfSeq, RangeIs DEF IsInjective
<1>2. ASSUME NEW i \in 1 .. n PROVE at(maps[i]) = i
  <2>1. \A j \in DOMAIN maps : maps[j] = maps[i] => j <= i
    BY <1>1
  <2>2. QED
    BY <1>1, <2>1
<1>3. /\ prev' = [o \in Objects |->
                    IF o \notin Range(maps) THEN prev[o]
                    ELSE IF at(o) = 1 THEN Null ELSE maps[at(o) - 1]]
      /\ next' = [o \in Objects |->
                    IF o \notin Range(maps) THEN next[o]
                    ELSE IF at(o) = n THEN Null ELSE maps[at(o) + 1]]
  BY DEF LinkLoadedObjects
<1> HIDE DEF at, n
<1>4. \A i \in 1 .. n : /\ prev'[maps[i]] = IF i = 1 THEN Null ELSE maps[i - 1]
                        /\ next'[maps[i]] = IF i = n THEN Null ELSE maps[i + 1]
  BY <1>1, <1>2, <1>3
<1>5. \A o \in Objects : /\ prev'[o] \in Objects \cup {Null}
                         /\ next'[o] \in Objects \cup {Null}
  <2>1. SUFFICES ASSUME NEW o \in Objects
                 PROVE  /\ prev'[o] \in Objects \cup {Null}
                        /\ next'[o] \in Objects \cup {Null}
    OBVIOUS
  <2>2. CASE o \notin Range(maps)
    BY <1>3, <2>2 DEF TypeOK
  <2>3. CASE o \in Range(maps)
    <3>1. PICK i \in 1 .. n : maps[i] = o
      BY <1>1, <2>3
    <3>2. /\ i # 1 => i - 1 \in 1 .. n
          /\ i # n => i + 1 \in 1 .. n
      BY <1>1
    <3>3. QED
      BY <1>1, <1>4, <3>1, <3>2
  <2>4. QED
    BY <2>2, <2>3
<1>6. /\ next' \in [Objects -> Objects \cup {Null}]
      /\ prev' \in [Objects -> Objects \cup {Null}]
  BY <1>3, <1>5
<1>7. prev'[maps[1]] = Null /\ next'[maps[n]] = Null
  BY <1>1, <1>4
<1>8. ASSUME NEW i \in 1 .. n - 1
      PROVE  next'[maps[i]] = maps[i + 1] /\ prev'[maps[i + 1]] = maps[i]
  <2>1. /\ i \in 1 .. n /\ i # n
        /\ i + 1 \in 1 .. n /\ i + 1 # 1 /\ (i + 1) - 1 = i
    BY <1>1
  <2>2. QED
    BY <1>4, <2>1
<1>9. QED
  BY <1>6, <1>7, <1>8 DEF n

\* Constructors, a debugger and glibc are given the list.
LEMMA PublishLoadedGlobalsStep ==
  ASSUME Inv, PublishLoadedGlobals
  PROVE  Inv'
<1> USE DEF Inv
<1> DEFINE s == StartupMaps
           m == Modules
           l == loadOrder
           n == Len(loadOrder)
<1>1. /\ pc = "before" /\ pc' = "layout" /\ LinkLoadedObjects(s) /\ rMap' = Head(group)
      /\ glibc' = [[glibc EXCEPT !.loaded = Head(group), !.nloaded = Len(s),
                                 !.libc = IF Libc \in Range(group) THEN Libc ELSE Null]
                     EXCEPT !.searchlist = s]
      /\ UNCHANGED <<proc, why, fds, fd, link, map, tail, tlsModules, early, life>>
  BY DEF PublishLoadedGlobals, PublishLinkMaps, PublishInitialSearchlist, PublishGlobal
<1>2. /\ group \in Seq(Objects) /\ IsInjective(group) /\ group # <<>> /\ group[1] = Prog
      /\ later = {} /\ inited = <<>> /\ ~early /\ ~extended
  BY <1>1 DEF TypeOK, GroupInv, Mapping
<1>3. Head(group) = Prog
  BY <1>2
<1>4. /\ m \in Seq(Objects) /\ IsInjective(m) /\ Range(m) = Range(group) \ {Rtld}
      /\ Len(m) >= 1 /\ m[1] = Prog /\ Len(m) \in Nat
  BY <1>2, ModulesAre, LenProperties
<1>5. /\ s \in Seq(Objects) /\ Len(s) = Len(m) + 1
      /\ s[1] = Prog /\ s[2] = Rtld
      /\ \A i \in 3 .. Len(m) + 1 : s[i] = m[i - 1]
      /\ IsInjective(s) /\ Range(s) = Range(group) \cup {Rtld}
  BY <1>2, StartupMapsAre
<1>6. l = <<Rtld>> \o m /\ map = Rtld /\ tail = m[Len(m)]
  BY <1>1 DEF MappingInv, Mapping
<1>7. Rtld \in Objects /\ Prog \in Objects /\ Rtld # Prog
  BY ObjectsAssumption DEF Objects
<1> HIDE DEF s, m
<1>8. /\ l \in Seq(Objects) /\ n = Len(m) + 1 /\ n \in Nat /\ n >= 2
      /\ l[1] = Rtld /\ \A i \in 2 .. n : l[i] = m[i - 1]
  <2> DEFINE u == <<Rtld>>
  <2>1. u \in Seq(Objects) /\ Len(u) = 1 /\ u[1] = Rtld
    BY <1>7
  <2> HIDE DEF u
  <2>2. /\ l \in Seq(Objects) /\ n = Len(u) + Len(m)
        /\ \A i \in 1 .. Len(u) + Len(m) :
              l[i] = IF i <= Len(u) THEN u[i] ELSE m[i - Len(u)]
    BY <1>4, <1>6, <2>1, ConcatProperties DEF u
  <2>3. QED
    BY <1>4, <2>1, <2>2
<1>9. /\ WalkOrder \in Seq(Objects) /\ Len(WalkOrder) = n
      /\ WalkOrder[1] = l[2] /\ WalkOrder[2] = l[1]
      /\ \A i \in 3 .. n : WalkOrder[i] = l[i]
  BY <1>8, WalkOrderIs
<1>10. WalkOrder = s
  <2>1. \A i \in 1 .. n : WalkOrder[i] = s[i]
    BY <1>4, <1>5, <1>8, <1>9
  <2>2. QED
    BY <1>5, <1>8, <1>9, <2>1, SeqEqual
<1>11. /\ next' \in [Objects -> Objects \cup {Null}]
       /\ prev' \in [Objects -> Objects \cup {Null}]
       /\ prev'[s[1]] = Null /\ next'[s[Len(s)]] = Null
       /\ \A i \in 1 .. Len(s) - 1 :
             next'[s[i]] = s[i + 1] /\ prev'[s[i + 1]] = s[i]
  <2>1. TypeOK /\ Len(s) >= 1 /\ LinkLoadedObjects(s)
    BY <1>1, <1>4, <1>5
  <2>2. QED
    BY <1>5, <2>1, LinkLoadedObjectsIs
<1>12. IsInjective(l)
  <2>1. \A i, j \in 1 .. n : s[i] = s[j] => i = j
    BY <1>5, <1>8, LenProperties DEF IsInjective
  <2>2. /\ l[1] = s[2] /\ l[2] = s[1] /\ \A i \in 3 .. n : l[i] = s[i]
    BY <1>9, <1>10
  <2> DEFINE at(i) == IF i = 1 THEN 2 ELSE IF i = 2 THEN 1 ELSE i
  <2>3. \A i \in 1 .. n : at(i) \in 1 .. n /\ l[i] = s[at(i)] /\ at(at(i)) = i
    BY <1>8, <2>2
  <2> HIDE DEF at
  <2>4. \A i, j \in 1 .. n : l[i] = l[j] => i = j
    BY <2>1, <2>3
  <2>5. QED
    BY <1>8, <2>4, LenProperties DEF IsInjective
<1> USE DEF link, pub, life
<1>13. TypeOK'
  <2>1. glibc' \in [aux : BOOLEAN, loaded : Objects \cup {Null}, nloaded : Nat,
                    searchlist : Seq(Objects), libc : {Libc, Null}]
    <3>1. Len(s) \in Nat
      BY <1>4, <1>5
    <3>2. QED
      BY <1>1, <1>3, <1>5, <1>7, <3>1 DEF TypeOK
  <2>2. QED
    BY <1>1, <1>3, <1>7, <1>11, <2>1 DEF TypeOK
<1>14. /\ glibc'.searchlist = s /\ glibc'.loaded = Prog /\ glibc'.nloaded = Len(s)
       /\ glibc'.libc = IF Libc \in Range(group) THEN Libc ELSE Null
       /\ glibc'.aux = glibc.aux
  BY <1>1, <1>3 DEF TypeOK
<1>15. UnlinkedInv' /\ MappingInv' /\ RollbackInv'
  BY <1>1 DEF UnlinkedInv, Unlinked, MappingInv, Mapping, RollbackInv
<1>16. GroupInv'
  BY <1>1 DEF GroupInv, Mapping, Wired
<1>17. WiredInv'
  <2>1. loadOrder' = l /\ WalkOrder' = s /\ Seen' = s
    BY <1>1, <1>2, <1>10 DEF WalkOrder, Seen, Lost
  <2>2. IsWalk(Seen)'
    BY <1>1, <1>3, <1>5, <1>11, <2>1 DEF IsWalk
  <2>3. tail' = l[n]
    BY <1>1, <1>4, <1>6, <1>8
  <2>4. Len(s) \in 2 .. n /\ \A i \in DOMAIN s : s[i] = WalkOrder'[i]
    BY <1>4, <1>5, <1>8, <2>1
  <2>5. later' = {l[i] : i \in Len(s) + 1 .. n}
    <3>1. Len(s) + 1 .. n = {}
      BY <1>4, <1>5, <1>8
    <3>2. QED
      BY <1>1, <1>2, <3>1
  <2>6. /\ IsInjective(loadOrder)' /\ map' = Rtld /\ rMap' = Prog /\ later' = {}
        /\ Range(s) = Range(group') \cup {Rtld}
    BY <1>1, <1>2, <1>3, <1>5, <1>6, <1>12
  <2>7. /\ Len(glibc'.searchlist) \in 2 .. Len(loadOrder')
        /\ Range(glibc'.searchlist) = Range(group') \cup {Rtld}
        /\ \A i \in DOMAIN glibc'.searchlist : glibc'.searchlist[i] = WalkOrder'[i]
        /\ glibc'.searchlist[1] = Prog /\ glibc'.searchlist[2] = Rtld
        /\ later' = {loadOrder'[i] : i \in Len(glibc'.searchlist) + 1 .. Len(loadOrder')}
    BY <1>5, <1>14, <2>1, <2>4, <2>5, <2>6
  <2>8. tail' = loadOrder'[Len(loadOrder')]
    BY <2>1, <2>3
  <2>9. QED
    BY <2>2, <2>6, <2>7, <2>8 DEF WiredInv
<1>18. TablesInv'
  BY <1>1, <1>2, <1>14 DEF TablesInv, Wired
<1>19. FdsInv' /\ OrderInv' /\ SecureDescriptors'
  BY <1>1 DEF FdsInv, OrderInv, SecureDescriptors, Mapping, Wired
<1>20. FiniInv'
  BY <1>1, KeepFini
<1>21. QED
  BY <1>13, <1>15, <1>16, <1>17, <1>18, <1>19, <1>20

\* Once the list is wired, what is committed is the group, the loader and what was
\* opened later.
LEMMA WiredMembers ==
  ASSUME TypeOK, WiredInv, pc \in Wired
  PROVE  /\ Len(loadOrder) \in Nat /\ Len(loadOrder) >= 2
         /\ Len(glibc.searchlist) \in 2 .. Len(loadOrder)
         /\ loadOrder[1] = Rtld /\ loadOrder[2] = Prog
         /\ Range(loadOrder) = Range(group) \cup {Rtld} \cup later
         /\ Live = Range(loadOrder)
<1> DEFINE l == loadOrder
           n == Len(loadOrder)
           s == glibc.searchlist
           w == WalkOrder
<1>1. /\ IsInjective(l) /\ Len(s) \in 2 .. n
      /\ Range(s) = Range(group) \cup {Rtld}
      /\ \A i \in DOMAIN s : s[i] = w[i]
      /\ s[1] = Prog /\ s[2] = Rtld
      /\ later = {l[i] : i \in Len(s) + 1 .. n}
  BY DEF WiredInv
<1>2. /\ l \in Seq(Objects) /\ n \in Nat /\ DOMAIN l = 1 .. n
      /\ s \in Seq(Objects) /\ Len(s) \in Nat /\ DOMAIN s = 1 .. Len(s)
  BY LenProperties DEF TypeOK
<1>3. n >= 2
  BY <1>1, <1>2
<1>4. /\ w \in Seq(Objects) /\ Len(w) = n /\ DOMAIN w = 1 .. n
      /\ w[1] = l[2] /\ w[2] = l[1] /\ \A i \in 3 .. n : w[i] = l[i]
  BY <1>2, <1>3, WalkOrderIs
<1>5. Range(w) = Range(l)
  BY <1>1, <1>2, <1>3, WalkOrderInjective
<1> HIDE DEF l, n, s, w
<1>6. l[1] = Rtld /\ l[2] = Prog
  <2>1. 1 \in DOMAIN s /\ 2 \in DOMAIN s
    BY <1>1, <1>2
  <2>2. QED
    BY <1>1, <1>4, <2>1
<1>7. Range(s) \subseteq Range(w)
  <2>1. \A i \in DOMAIN s : i \in DOMAIN w /\ s[i] = w[i]
    BY <1>1, <1>2, <1>4
  <2>2. QED
    BY <2>1 DEF Range
<1>8. later \subseteq Range(l)
  <2>1. \A i \in Len(s) + 1 .. n : i \in DOMAIN l
    BY <1>1, <1>2
  <2>2. QED
    BY <1>1, <2>1 DEF Range
<1>9. ASSUME NEW i \in 1 .. n PROVE w[i] \in Range(s) \cup later
  <2>1. CASE i <= Len(s)
    <3>1. i \in DOMAIN s
      BY <1>1, <1>2, <2>1
    <3>2. QED
      BY <1>1, <3>1 DEF Range
  <2>2. CASE i > Len(s)
    <3>1. i \in Len(s) + 1 .. n /\ i \in 3 .. n
      BY <1>1, <1>2, <2>2
    <3>2. w[i] = l[i]
      BY <1>4, <3>1
    <3>3. QED
      BY <1>1, <3>1, <3>2
  <2>3. QED
    BY <1>1, <1>2, <2>1, <2>2
<1>10. Range(w) \subseteq Range(s) \cup later
  BY <1>4, <1>9 DEF Range
<1>11. Range(l) = Range(group) \cup {Rtld} \cup later
  BY <1>1, <1>5, <1>7, <1>8, <1>10
<1>12. Range(l) \cup Range(group) \cup later = Range(l)
  BY <1>11
<1>13. QED
  BY <1>1, <1>2, <1>3, <1>6, <1>11, <1>12 DEF Live, l, n, s

\* The TLS layout of all the committed modules.
LEMMA PublishLayoutStep ==
  ASSUME Inv, PublishLayout
  PROVE  Inv'
<1> USE DEF Inv
<1>1. /\ pc = "layout" /\ pc' = "early" /\ tlsModules' = Range(loadOrder)
      /\ UNCHANGED <<proc, why, fds, fd, link, list, rMap, glibc, early, life>>
  BY DEF PublishLayout, PublishTlsLayout
<1>2. Range(group) \cup {Rtld} \subseteq Range(loadOrder)
  BY <1>1, WiredMembers DEF Wired
<1> USE DEF link, list, life
<1>3. TypeOK'
  <2>1. tlsModules' \subseteq Objects
    BY <1>1, RangeIs DEF TypeOK
  <2>2. QED
    BY <1>1, <2>1, ZenonT(60) DEF TypeOK
<1>4. UnlinkedInv' /\ MappingInv' /\ RollbackInv'
  BY <1>1 DEF UnlinkedInv, Unlinked, MappingInv, Mapping, RollbackInv
<1>5. GroupInv'
  BY <1>1 DEF GroupInv, Mapping, Wired
<1>6. WiredInv'
  BY <1>1, KeepWired DEF Wired
<1>7. TablesInv'
  BY <1>1, <1>2 DEF TablesInv, Wired
<1>8. FdsInv' /\ OrderInv' /\ SecureDescriptors'
  BY <1>1 DEF FdsInv, OrderInv, SecureDescriptors, Mapping, Wired
<1>9. FiniInv'
  BY <1>1, KeepFini
<1>10. QED
  BY <1>3, <1>4, <1>5, <1>6, <1>7, <1>8, <1>9

\* The early initialization of the C library.
LEMMA EarlyInitStep ==
  ASSUME Inv, EarlyInit
  PROVE  Inv'
<1> USE DEF Inv
<1>1. /\ pc = "early" /\ pc' = "init" /\ early' = (Libc \in Range(loadOrder))
      /\ UNCHANGED <<proc, why, fds, fd, link, list, rMap, glibc, tlsModules, life>>
  BY DEF EarlyInit
<1>2. Range(group) \subseteq Range(loadOrder)
  BY <1>1, WiredMembers DEF Wired
<1> USE DEF link, list, life
<1>3. TypeOK'
  <2>1. early' \in BOOLEAN
    BY <1>1
  <2>2. QED
    BY <1>1, <2>1, ZenonT(60) DEF TypeOK
<1>4. UnlinkedInv' /\ MappingInv' /\ RollbackInv'
  BY <1>1 DEF UnlinkedInv, Unlinked, MappingInv, Mapping, RollbackInv
<1>5. GroupInv'
  BY <1>1 DEF GroupInv, Mapping, Wired
<1>6. WiredInv'
  BY <1>1, KeepWired DEF Wired
<1>7. TablesInv'
  BY <1>1, <1>2 DEF TablesInv, Wired
<1>8. FdsInv' /\ OrderInv' /\ SecureDescriptors'
  BY <1>1 DEF FdsInv, OrderInv, SecureDescriptors, Mapping, Wired
<1>9. FiniInv'
  BY <1>1, KeepFini
<1>10. QED
  BY <1>3, <1>4, <1>5, <1>6, <1>7, <1>8, <1>9

-----------------------------------------------------------------------------
(* Constructors, the program and destructors.                              *)

\* The constructors of one module.
LEMMA RunInitStep ==
  ASSUME Inv, NEW o \in Objects, RunInit(o)
  PROVE  Inv'
<1> USE DEF Inv
<1>1. /\ pc = "init" /\ inited' = Append(inited, o)
      /\ UNCHANGED <<proc, pc, why, fds, fd, link, list, pub, finalized, startupRoot,
                     later, extended>>
  BY DEF RunInit
<1> USE DEF link, list, pub
<1>2. TypeOK'
  <2>1. inited' \in Seq(Objects)
    BY <1>1, AppendProperties DEF TypeOK
  <2>2. QED
    BY <1>1, <2>1, ZenonT(60) DEF TypeOK
<1>3. UnlinkedInv' /\ MappingInv' /\ RollbackInv'
  BY <1>1 DEF UnlinkedInv, Unlinked, MappingInv, Mapping, RollbackInv
<1>4. GroupInv'
  BY <1>1 DEF GroupInv, Mapping, Wired
<1>5. WiredInv'
  BY <1>1, KeepWired DEF Wired
<1>6. TablesInv'
  BY <1>1 DEF TablesInv, Wired
<1>7. FdsInv' /\ OrderInv' /\ SecureDescriptors'
  BY <1>1 DEF FdsInv, OrderInv, SecureDescriptors, Mapping, Wired
<1>8. FiniInv'
  BY <1>1 DEF FiniInv
<1>9. QED
  BY <1>2, <1>3, <1>4, <1>5, <1>6, <1>7, <1>8

\* The jump to the entry point.
LEMMA EnterProgramStep ==
  ASSUME Inv, EnterProgram
  PROVE  Inv'
<1> USE DEF Inv
<1>1. /\ pc = "init" /\ pc' = "running" /\ startupRoot' = Prog
      /\ Range(group) \ {Rtld} = Range(inited)
      /\ UNCHANGED <<proc, why, fds, fd, link, list, pub, inited, finalized, later, extended>>
  BY DEF EnterProgram
<1> USE DEF link, list, pub
<1>2. TypeOK'
  BY <1>1, ZenonT(60) DEF TypeOK
<1>3. UnlinkedInv' /\ MappingInv' /\ RollbackInv'
  BY <1>1 DEF UnlinkedInv, Unlinked, MappingInv, Mapping, RollbackInv
<1>4. GroupInv'
  BY <1>1 DEF GroupInv, Mapping, Wired
<1>5. WiredInv'
  BY <1>1, KeepWired DEF Wired
<1>6. TablesInv'
  BY <1>1 DEF TablesInv, Wired
<1>7. FdsInv' /\ OrderInv' /\ SecureDescriptors'
  BY <1>1 DEF FdsInv, OrderInv, SecureDescriptors, Mapping, Wired
<1>8. FiniInv'
  BY <1>1 DEF FiniInv
<1>9. QED
  BY <1>2, <1>3, <1>4, <1>5, <1>6, <1>7, <1>8

\* rtld_fini starts the destructors once.
LEMMA FinalizeStartupStep ==
  ASSUME Inv, FinalizeStartup
  PROVE  Inv'
<1> USE DEF Inv
<1>1. /\ pc \in {"running", "done", "through"} /\ startupRoot' = Null
      /\ UNCHANGED <<proc, why, fds, fd, link, list, pub, inited, finalized, later, extended>>
  BY DEF FinalizeStartup
<1>2. Prog # Null
  BY ObjectsAssumption DEF Objects
<1>3. pc' = IF pc = "running" THEN "fini" ELSE pc
  BY <1>1, <1>2 DEF FinalizeStartup, FiniInv
<1> USE DEF link, list, pub
<1>4. TypeOK'
  BY <1>1, <1>3, ZenonT(60) DEF TypeOK
<1>5. UnlinkedInv' /\ MappingInv' /\ RollbackInv'
  BY <1>1, <1>3 DEF UnlinkedInv, Unlinked, MappingInv, Mapping, RollbackInv
<1>6. GroupInv'
  BY <1>1, <1>3 DEF GroupInv, Mapping, Wired
<1>7. WiredInv'
  BY <1>1, <1>3, KeepWired DEF Wired
<1>8. TablesInv'
  BY <1>1, <1>3 DEF TablesInv, Wired
<1>9. FdsInv' /\ OrderInv' /\ SecureDescriptors'
  BY <1>1, <1>3 DEF FdsInv, OrderInv, SecureDescriptors, Mapping, Wired
<1>10. FiniInv'
  <2>1. CASE pc = "running"
    <3>1. group \in Seq(Objects) /\ group # <<>>
      BY <2>1 DEF TypeOK, GroupInv, Wired
    <3>2. group' = group /\ Len(group) \in Nat /\ Len(group) >= 1
      BY <1>1, <3>1, EmptySeq, LenProperties
    <3>3. finalized' = <<>> /\ pc' = "fini"
      BY <1>1, <1>3, <2>1 DEF FiniInv
    <3>4. Len(finalized') < Len(FiniScope')
      <4>1. Len(finalized') = 0 /\ Len(FiniScope') \in Nat /\ Len(FiniScope') >= 1
        BY <3>2, <3>3 DEF FiniScope
      <4>2. QED
        BY <4>1
    <3>5. \A i \in DOMAIN finalized' : FALSE
      BY <3>3
    <3>6. QED
      BY <1>1, <2>1, <3>3, <3>4, <3>5 DEF FiniInv
  <2>2. CASE pc # "running"
    <3>1. pc' = pc
      BY <1>3, <2>2
    <3>2. QED
      BY <1>1, <2>2, <3>1 DEF FiniInv, FiniScope
  <2>3. QED
    BY <2>1, <2>2
<1>11. QED
  BY <1>4, <1>5, <1>6, <1>7, <1>8, <1>9, <1>10

\* The destructors of the next module.
LEMMA RunFiniStep ==
  ASSUME Inv, RunFini
  PROVE  Inv'
<1> USE DEF Inv
<1> DEFINE k == Len(finalized)
           f == FiniScope
<1>1. /\ pc = "fini" /\ finalized' = Append(finalized, f[k + 1])
      /\ pc' = IF Len(finalized') = Len(f) THEN "done" ELSE "fini"
      /\ UNCHANGED <<proc, why, fds, fd, link, list, pub, inited, startupRoot, later, extended>>
  BY DEF RunFini
<1>2. f \in Seq(Objects) /\ FiniScope' = f
  BY <1>1 DEF FiniScope, link, TypeOK
<1>3. k \in Nat /\ Len(f) \in Nat /\ k < Len(f)
  BY <1>1, <1>2, LenProperties DEF FiniInv, TypeOK
<1>4. \A i \in 1 .. k : finalized[i] = f[i]
  BY <1>1, LenProperties DEF FiniInv, TypeOK
<1> HIDE DEF f, k
<1>5. f[k + 1] \in Objects
  <2>1. k + 1 \in 1 .. Len(f)
    BY <1>3
  <2>2. QED
    BY <1>2, <2>1, ElementOfSeq
<1>6. /\ finalized' \in Seq(Objects) /\ Len(finalized') = k + 1
      /\ DOMAIN finalized' = 1 .. k + 1
      /\ \A i \in 1 .. k : finalized'[i] = finalized[i]
      /\ finalized'[k + 1] = f[k + 1]
  <2> DEFINE a == Append(finalized, f[k + 1])
  <2>1. /\ a \in Seq(Objects) /\ Len(a) = k + 1
        /\ \A i \in 1 .. k : a[i] = finalized[i]
        /\ a[k + 1] = f[k + 1]
    <3>1. finalized \in Seq(Objects)
      BY DEF TypeOK
    <3>2. QED
      BY <1>5, <3>1, AppendProperties DEF k
  <2>2. DOMAIN a = 1 .. Len(a)
    BY <2>1, LenProperties
  <2>3. QED
    BY <1>1, <2>1, <2>2
<1>7. pc' \in {"fini", "done"}
  BY <1>1
<1> USE DEF link, list, pub
<1>8. TypeOK'
  BY <1>1, <1>6, <1>7, ZenonT(60) DEF TypeOK
<1>9. UnlinkedInv' /\ MappingInv' /\ RollbackInv'
  BY <1>7 DEF UnlinkedInv, Unlinked, MappingInv, Mapping, RollbackInv
<1>10. GroupInv'
  BY <1>1, <1>7 DEF GroupInv, Mapping, Wired
<1>11. WiredInv'
  BY <1>1, <1>7, KeepWired DEF Wired
<1>12. TablesInv'
  BY <1>1, <1>7 DEF TablesInv, Wired
<1>13. FdsInv' /\ OrderInv' /\ SecureDescriptors'
  BY <1>1, <1>7 DEF FdsInv, OrderInv, SecureDescriptors, Mapping, Wired
<1>14. FiniInv'
  <2>1. \A i \in DOMAIN finalized' : finalized'[i] = f[i]
    BY <1>3, <1>4, <1>6
  <2>2. IF pc' = "done" THEN Len(finalized') = Len(f) ELSE Len(finalized') < Len(f)
    BY <1>1, <1>3, <1>6
  <2>3. QED
    BY <1>1, <1>2, <1>7, <2>1, <2>2 DEF FiniInv
<1>15. QED
  BY <1>8, <1>9, <1>10, <1>11, <1>12, <1>13, <1>14

-----------------------------------------------------------------------------
(* A startup that fails.                                                   *)

\* A chain along c that starts at the loader.
IsChain(c) ==
  /\ IsInjective(c) /\ Len(c) >= 1 /\ c[1] = Rtld
  /\ \A i \in 2 .. Len(c) : prev[c[i]] = c[i - 1]
  /\ \A i \in 2 .. Len(c) - 1 : next[c[i]] = c[i + 1]
  /\ Len(c) >= 2 => tail = c[Len(c)]

\* What is behind the loader in a chain is linked both ways.
LEMMA ChainDrops ==
  ASSUME NEW c \in Seq(Objects), IsChain(c),
         NEW Q, Q = {c[i] : i \in 2 .. Len(c)}
  PROVE  DoublyLinked(Q)
<1> USE DEF IsChain
<1> DEFINE n == Len(c)
<1>1. n \in Nat /\ n >= 1 /\ \A i, j \in 1 .. n : c[i] = c[j] => i = j
  BY LenProperties DEF IsInjective
<1>2. ASSUME NEW i \in 2 .. n
      PROVE  /\ prev[c[i]] \in Q \cup {Rtld} /\ prev[c[i]] # tail
             /\ prev[c[i]] # Rtld => next[prev[c[i]]] = c[i]
             /\ tail # c[i] => next[c[i]] \in Q /\ prev[next[c[i]]] = c[i]
  <2>1. prev[c[i]] = c[i - 1] /\ tail = c[n] /\ i - 1 \in 1 .. n /\ i - 1 # n
    BY <1>1
  <2>2. prev[c[i]] # tail
    BY <1>1, <2>1
  <2>5. prev[c[i]] \in Q \cup {Rtld} /\ (prev[c[i]] # Rtld => next[prev[c[i]]] = c[i])
    <3>1. CASE i = 2
      BY <2>1, <3>1
    <3>2. CASE i # 2
      <4>1. i - 1 \in 2 .. n - 1 /\ i - 1 \in 2 .. n /\ (i - 1) + 1 = i
        BY <1>1, <3>2
      <4>2. next[c[i - 1]] = c[i] /\ c[i - 1] \in Q
        BY <4>1
      <4>3. QED
        BY <2>1, <4>2
    <3>3. QED
      BY <3>1, <3>2
  <2>6. ASSUME tail # c[i] PROVE next[c[i]] \in Q /\ prev[next[c[i]]] = c[i]
    <3>1. i # n
      BY <2>1, <2>6
    <3>2. i \in 2 .. n - 1 /\ i + 1 \in 2 .. n /\ (i + 1) - 1 = i
      BY <1>1, <3>1
    <3>3. next[c[i]] = c[i + 1] /\ prev[c[i + 1]] = c[i]
      BY <3>2
    <3>4. QED
      BY <3>2, <3>3
  <2>7. QED
    BY <2>2, <2>5, <2>6
<1>3. ASSUME NEW i \in 2 .. n, NEW j \in 2 .. n, prev[c[i]] = prev[c[j]]
      PROVE  c[i] = c[j]
  <2>1. i - 1 \in 1 .. n /\ j - 1 \in 1 .. n /\ c[i - 1] = c[j - 1]
    BY <1>1, <1>3
  <2>2. i - 1 = j - 1
    BY <1>1, <2>1
  <2>3. i = j
    BY <2>2
  <2>4. QED
    BY <2>3
<1>4. \A o \in Q : \E i \in 2 .. n : o = c[i]
  OBVIOUS
<1> HIDE DEF n
<1>5. ASSUME NEW o \in Q
      PROVE  /\ prev[o] \in Q \cup {Rtld} /\ prev[o] # tail
             /\ prev[o] # Rtld => next[prev[o]] = o
             /\ tail # o => next[o] \in Q /\ prev[next[o]] = o
  <2>1. PICK i \in 2 .. n : o = c[i]
    BY <1>4
  <2>2. QED
    BY <1>2, <2>1
<1>6. ASSUME NEW o \in Q, NEW m \in Q, prev[o] = prev[m] PROVE o = m
  <2>1. PICK i \in 2 .. n : o = c[i]
    BY <1>4
  <2>2. PICK j \in 2 .. n : m = c[j]
    BY <1>4
  <2>3. QED
    BY <1>3, <1>6, <2>1, <2>2
<1>7. QED
  BY <1>5, <1>6 DEF DoublyLinked

\* The chain of a group that was being mapped.
LEMMA MappedDrops ==
  ASSUME Inv, pc \in {"map", "before"}, LinkFails
  PROVE  RollbackInv'
<1> USE DEF Inv
<1> DEFINE m == Modules
           l == loadOrder
           u == <<Rtld>>
           c == u \o m
           Q == Listed
<1>1. /\ group \in Seq(Objects) /\ IsInjective(group) /\ group # <<>> /\ group[1] = Prog
      /\ later = {}
  BY DEF TypeOK, GroupInv, Mapping
<1>2. /\ m \in Seq(Objects) /\ IsInjective(m) /\ Range(m) = Range(group) \ {Rtld}
      /\ Len(m) >= 1 /\ m[1] = Prog /\ Len(m) \in Nat /\ DOMAIN m = 1 .. Len(m)
  BY <1>1, ModulesAre, LenProperties
<1>3. /\ l = u \o (IF pc = "before" THEN m ELSE <<>>)
      /\ map = Rtld /\ tail = m[Len(m)]
      /\ \A i \in DOMAIN m : /\ prev[m[i]] = IF i = 1 THEN Rtld ELSE m[i - 1]
                             /\ i < Len(m) => next[m[i]] = m[i + 1]
  BY DEF MappingInv, Mapping
<1>4. Rtld \in Objects /\ Null \notin Objects
  BY ObjectsAssumption DEF Objects
<1> HIDE DEF m, l
<1>5. /\ u \in Seq(Objects) /\ Len(u) = 1 /\ u[1] = Rtld /\ Range(u) = {Rtld}
      /\ IsInjective(u) /\ u \o <<>> = u
  <2>1. u \o <<>> = u
    OBVIOUS
  <2>2. QED
    BY <1>4, <2>1 DEF Range, IsInjective
<1> HIDE DEF u
<1>6. /\ c \in Seq(Objects) /\ Len(c) = Len(m) + 1 /\ c[1] = Rtld
      /\ \A i \in 2 .. Len(m) + 1 : c[i] = m[i - 1]
  <2>1. /\ c \in Seq(Objects) /\ Len(c) = Len(u) + Len(m)
        /\ \A i \in 1 .. Len(u) + Len(m) : c[i] = IF i <= Len(u) THEN u[i] ELSE m[i - Len(u)]
    <3>1. u \in Seq(Objects) /\ m \in Seq(Objects)
      BY <1>2, <1>5
    <3>2. QED
      BY <3>1, ConcatProperties
  <2> HIDE DEF c
  <2>2. Len(u) = 1 /\ u[1] = Rtld /\ Len(m) \in Nat
    BY <1>2, <1>5
  <2>3. Len(c) = Len(m) + 1 /\ c[1] = Rtld
    BY <2>1, <2>2
  <2>4. ASSUME NEW i \in 2 .. Len(m) + 1 PROVE c[i] = m[i - 1]
    BY <2>1, <2>2
  <2>5. QED
    BY <2>1, <2>3, <2>4
<1>7. l = u \/ l = c
  BY <1>3, <1>5
<1> HIDE DEF c
<1>8. /\ \A i \in 1 .. Len(m) : m[i] \in Objects /\ m[i] # Rtld /\ m[i] # Null /\ m[i] \in Range(m)
      /\ \A i, j \in 1 .. Len(m) : m[i] = m[j] => i = j
      /\ \A x \in Range(m) : \E i \in 1 .. Len(m) : m[i] = x
  BY <1>2, <1>4, RangeIs, ElementOfSeq DEF IsInjective
<1>9. IsInjective(c)
  <2>1. ASSUME NEW i \in 1 .. Len(m) + 1, NEW j \in 1 .. Len(m) + 1, c[i] = c[j]
        PROVE  i = j
    <3>1. CASE i = 1 \/ j = 1
      <4>1. \A k \in 2 .. Len(m) + 1 : c[k] # Rtld
        BY <1>2, <1>6, <1>8
      <4>2. QED
        BY <1>2, <1>6, <2>1, <3>1, <4>1
    <3>2. CASE i # 1 /\ j # 1
      <4>1. /\ i - 1 \in 1 .. Len(m) /\ j - 1 \in 1 .. Len(m)
            /\ c[i] = m[i - 1] /\ c[j] = m[j - 1]
        BY <1>2, <1>6, <3>2
      <4>2. i - 1 = j - 1
        BY <1>8, <2>1, <4>1
      <4>3. QED
        BY <4>2
    <3>3. QED
      BY <3>1, <3>2
  <2>2. QED
    BY <1>6, <2>1, LenProperties DEF IsInjective
<1>10. Range(c) = Range(m) \cup {Rtld}
  <2>1. \A i \in 1 .. Len(m) : i + 1 \in 1 .. Len(c) /\ c[i + 1] = m[i]
    BY <1>2, <1>6
  <2>2. \A i \in 1 .. Len(c) : i = 1 \/ (i - 1 \in 1 .. Len(m) /\ c[i] = m[i - 1])
    BY <1>2, <1>6
  <2>3. DOMAIN c = 1 .. Len(c) /\ 1 \in DOMAIN c
    BY <1>2, <1>6, LenProperties
  <2>4. \A x \in Range(c) : x \in Range(m) \cup {Rtld}
    BY <1>6, <1>8, <2>2, <2>3 DEF Range
  <2>5. \A x \in Range(m) : x \in Range(c)
    <3>1. \A i \in 1 .. Len(m) : m[i] \in Range(c)
      BY <2>1, <2>3 DEF Range
    <3>2. QED
      BY <1>8, <3>1
  <2>6. Rtld \in Range(c)
    BY <1>6, <2>3 DEF Range
  <2>7. QED
    BY <2>4, <2>5, <2>6
<1>11. Live \ {Rtld} = Range(m)
  <2>1. Range(l) = {Rtld} \/ Range(l) = Range(m) \cup {Rtld}
    BY <1>5, <1>7, <1>10
  <2>2. QED
    BY <1>1, <1>2, <2>1 DEF Live, l
<1>12. ASSUME NEW i \in 2 .. Len(c) PROVE prev[c[i]] = c[i - 1]
  <2>1. i - 1 \in 1 .. Len(m) /\ c[i] = m[i - 1]
    BY <1>2, <1>6
  <2>2. prev[m[i - 1]] = IF i - 1 = 1 THEN Rtld ELSE m[(i - 1) - 1]
    BY <1>2, <1>3, <2>1
  <2>3. CASE i = 2
    BY <1>6, <2>1, <2>2, <2>3
  <2>4. CASE i # 2
    <3>1. i - 1 # 1 /\ i - 1 \in 2 .. Len(m) + 1
      BY <2>1, <2>4, <1>2
    <3>2. c[i - 1] = m[(i - 1) - 1]
      BY <1>6, <3>1
    <3>3. QED
      BY <2>1, <2>2, <3>1, <3>2
  <2>5. QED
    BY <2>3, <2>4
<1>13. ASSUME NEW i \in 2 .. Len(c) - 1 PROVE next[c[i]] = c[i + 1]
  <2>1. /\ i - 1 \in DOMAIN m /\ i - 1 < Len(m) /\ (i - 1) + 1 = i
        /\ i \in 2 .. Len(m) + 1 /\ i + 1 \in 2 .. Len(m) + 1 /\ (i + 1) - 1 = i
    BY <1>2, <1>6
  <2>2. next[m[i - 1]] = m[i]
    BY <1>3, <2>1
  <2>3. QED
    BY <1>6, <2>1, <2>2
<1>14. tail = c[Len(c)] /\ Len(c) >= 1
  <2>1. Len(c) \in 2 .. Len(m) + 1 /\ Len(c) - 1 = Len(m) /\ Len(c) >= 1
    BY <1>2, <1>6
  <2>2. c[Len(c)] = m[Len(c) - 1]
    BY <1>6, <2>1
  <2>3. tail = m[Len(m)]
    BY <1>3
  <2>4. QED
    BY <2>1, <2>2, <2>3
<1>15. Q = {c[i] : i \in 2 .. Len(c)}
  <2>1. ASSUME NEW i \in 1 .. Len(m) PROVE prev[m[i]] # Null
    <3>1. i # 1 => i - 1 \in 1 .. Len(m)
      BY <1>2
    <3>2. prev[m[i]] = IF i = 1 THEN Rtld ELSE m[i - 1]
      BY <1>2, <1>3
    <3>3. CASE i = 1
      BY <1>4, <3>2, <3>3
    <3>4. CASE i # 1
      BY <1>8, <3>1, <3>2, <3>4
    <3>5. QED
      BY <3>3, <3>4
  <2>2. Q = Range(m)
    BY <1>8, <1>11, <2>1 DEF Listed
  <2>3. \A i \in 1 .. Len(m) : i + 1 \in 2 .. Len(c) /\ m[i] = c[i + 1]
    BY <1>2, <1>6
  <2>4. \A i \in 2 .. Len(c) : i - 1 \in 1 .. Len(m) /\ c[i] = m[i - 1]
    BY <1>2, <1>6
  <2> HIDE DEF Q
  <2>5. \A x \in Q : \E i \in 2 .. Len(c) : x = c[i]
    <3>1. SUFFICES ASSUME NEW x \in Q PROVE \E i \in 2 .. Len(c) : x = c[i]
      OBVIOUS
    <3>2. PICK i \in 1 .. Len(m) : m[i] = x
      BY <1>8, <2>2
    <3>3. QED
      BY <2>3, <3>2
  <2>6. \A i \in 2 .. Len(c) : c[i] \in Q
    BY <1>8, <2>2, <2>4
  <2>7. QED
    BY <2>5, <2>6
<1> HIDE DEF Q
<1>16. DoublyLinked(Q)
  <2>1. c \in Seq(Objects) /\ c[1] = Rtld
    BY <1>6
  <2>2. IsChain(c)
    BY <1>9, <1>12, <1>13, <1>14, <2>1 DEF IsChain
  <2>3. QED
    BY <1>15, <2>1, <2>2, ChainDrops
<1>17. IsInjective(l) /\ Rtld \in Range(l)
  BY <1>5, <1>7, <1>9, <1>10
<1>18. UNCHANGED <<group, loadOrder, list, later>>
  BY DEF LinkFails, link, life
<1>19. DoublyLinked(Listed)'
  <2>1. Listed' = Listed
    BY <1>18 DEF Listed, Live, list
  <2>2. QED
    BY <1>16, <1>18, <2>1 DEF DoublyLinked, list, Q
<1>20. QED
  BY <1>3, <1>17, <1>18, <1>19 DEF RollbackInv, list, l

\* The list of a startup whose constructors were running: the program, its head, is
\* not taken out.
LEMMA WiredDropsAll ==
  ASSUME Inv, pc = "init", LinkFails, ~Lost
  PROVE  RollbackInv'
<1> USE DEF Inv
<1> DEFINE w == WalkOrder
           n == Len(loadOrder)
           c == SubSeq(w, 2, n)
           Q == Listed
<1>1. n \in Nat /\ n >= 2 /\ loadOrder[1] = Rtld /\ loadOrder[2] = Prog /\ Live = Range(loadOrder)
      /\ loadOrder \in Seq(Objects) /\ DOMAIN loadOrder = 1 .. n
  BY WiredMembers, LenProperties DEF Wired, TypeOK
<1>2. IsInjective(loadOrder) /\ IsWalk(w) /\ map = Rtld /\ tail = loadOrder[n]
  BY DEF WiredInv, Wired, Seen
<1>3. /\ w \in Seq(Objects) /\ Len(w) = n /\ DOMAIN w = 1 .. n
      /\ w[1] = Prog /\ w[2] = Rtld /\ \A i \in 3 .. n : w[i] = loadOrder[i]
  BY <1>1, WalkOrderIs
<1>4. IsInjective(w) /\ Range(w) = Range(loadOrder)
  BY <1>1, <1>2, WalkOrderInjective
<1>5. /\ prev[w[1]] = Null
      /\ \A i \in 1 .. n - 1 : next[w[i]] = w[i + 1] /\ prev[w[i + 1]] = w[i]
  BY <1>2, <1>3 DEF IsWalk
<1> HIDE DEF w
<1>6. /\ \A i \in 1 .. n : w[i] \in Objects /\ w[i] # Null /\ w[i] \in Live
      /\ \A i, j \in 1 .. n : w[i] = w[j] => i = j
      /\ \A x \in Live : \E i \in 1 .. n : w[i] = x
  <2>1. Null \notin Objects
    BY ObjectsAssumption
  <2>2. /\ \A x \in Range(w) : \E i \in 1 .. n : w[i] = x
        /\ \A i \in 1 .. n : w[i] \in Range(w) /\ w[i] \in Objects
    <3>1. w \in Seq(Objects) /\ Len(w) = n
      BY <1>3
    <3>2. QED
      BY <3>1, RangeIs, ElementOfSeq
  <2>3. \A i, j \in 1 .. n : w[i] = w[j] => i = j
    BY <1>3, <1>4 DEF IsInjective
  <2>4. Range(w) = Live
    BY <1>1, <1>4
  <2>5. QED
    BY <2>1, <2>2, <2>3, <2>4
<1> HIDE DEF n
<1>7. /\ c \in Seq(Objects) /\ Len(c) = n - 1
      /\ \A i \in 1 .. n - 1 : c[i] = w[i + 1]
  <2>1. \A i \in 2 .. n : w[i] \in Objects
    BY <1>6
  <2>2. /\ c \in Seq(Objects) /\ Len(c) = IF 2 <= n THEN n - 2 + 1 ELSE 0
        /\ \A i \in 1 .. n - 2 + 1 : c[i] = w[2 + i - 1]
    BY <1>1, <2>1, SubSeqProperties
  <2> HIDE DEF c
  <2>3. Len(c) = n - 1 /\ n - 2 + 1 = n - 1
    BY <1>1, <2>2
  <2>4. ASSUME NEW i \in 1 .. n - 1 PROVE c[i] = w[i + 1]
    <3>1. i \in 1 .. n - 2 + 1 /\ 2 + i - 1 = i + 1
      BY <1>1, <2>3
    <3>2. QED
      BY <2>2, <3>1
  <2>5. QED
    BY <2>2, <2>3, <2>4
<1> HIDE DEF c
<1>8. IsInjective(c)
  <2>1. DOMAIN c = 1 .. n - 1
    BY <1>7, LenProperties
  <2>2. ASSUME NEW i \in 1 .. n - 1, NEW j \in 1 .. n - 1, c[i] = c[j] PROVE i = j
    <3>1. i + 1 \in 1 .. n /\ j + 1 \in 1 .. n /\ w[i + 1] = w[j + 1]
      BY <1>1, <1>7, <2>2
    <3>2. i + 1 = j + 1
      BY <1>6, <3>1
    <3>3. QED
      BY <3>2
  <2>3. QED
    BY <2>1, <2>2 DEF IsInjective
<1>9. ASSUME NEW i \in 2 .. Len(c) PROVE prev[c[i]] = c[i - 1]
  <2>1. i \in 1 .. n - 1 /\ i - 1 \in 1 .. n - 1 /\ (i - 1) + 1 = i
    BY <1>1, <1>7
  <2>2. c[i] = w[i + 1] /\ c[i - 1] = w[i]
    BY <1>7, <2>1
  <2>3. QED
    BY <1>5, <2>1, <2>2
<1>10. ASSUME NEW i \in 2 .. Len(c) - 1 PROVE next[c[i]] = c[i + 1]
  <2>1. i \in 1 .. n - 1 /\ i + 1 \in 1 .. n - 1
    BY <1>1, <1>7
  <2>2. c[i] = w[i + 1] /\ c[i + 1] = w[(i + 1) + 1]
    BY <1>7, <2>1
  <2>3. QED
    BY <1>5, <2>1, <2>2
<1>11. Len(c) >= 1 /\ c[1] = Rtld
  BY <1>1, <1>3, <1>7
<1>12. Len(c) >= 2 => tail = c[Len(c)]
  <2>1. SUFFICES ASSUME Len(c) >= 2 PROVE tail = c[Len(c)]
    OBVIOUS
  <2>2. n - 1 \in 1 .. n - 1 /\ (n - 1) + 1 = n /\ n # 2 /\ n \in 3 .. n
    BY <1>1, <1>7, <2>1
  <2>3. c[Len(c)] = loadOrder[n]
    BY <1>3, <1>7, <2>2
  <2>4. QED
    BY <1>2, <2>2, <2>3
<1>13. IsChain(c)
  BY <1>8, <1>9, <1>10, <1>11, <1>12 DEF IsChain
<1>14. Q = {c[i] : i \in 2 .. Len(c)}
  <2>1. ASSUME NEW x \in Q PROVE \E i \in 2 .. Len(c) : x = c[i]
    <3>1. PICK i \in 1 .. n : w[i] = x
      BY <1>6 DEF Listed
    <3>2. i # 1 /\ i # 2
      BY <1>3, <1>5, <3>1 DEF Listed
    <3>3. i - 1 \in 2 .. Len(c) /\ i - 1 \in 1 .. n - 1 /\ (i - 1) + 1 = i
      BY <1>1, <1>7, <3>2
    <3>4. QED
      BY <1>7, <3>1, <3>3
  <2>2. ASSUME NEW i \in 2 .. Len(c) PROVE c[i] \in Q
    <3>1. i \in 1 .. n - 1 /\ i \in 1 .. n /\ i + 1 \in 1 .. n /\ i + 1 # 2 /\ 2 \in 1 .. n
      BY <1>1, <1>7
    <3>2. c[i] = w[i + 1] /\ prev[w[i + 1]] = w[i]
      BY <1>5, <1>7, <3>1
    <3>3. w[i + 1] # w[2] /\ w[i] # Null /\ w[i + 1] \in Live
      BY <1>6, <3>1
    <3>4. QED
      BY <1>3, <3>2, <3>3 DEF Listed
  <2>3. QED
    BY <2>1, <2>2
<1>15. DoublyLinked(Q)
  BY <1>7, <1>13, <1>14, ChainDrops
<1>16. UNCHANGED <<group, loadOrder, list, later>>
  BY DEF LinkFails, link, life
<1>17. DoublyLinked(Listed)'
  <2>1. Listed' = Listed
    BY <1>16 DEF Listed, Live, list
  <2>2. QED
    BY <1>15, <1>16, <2>1 DEF DoublyLinked, list
<1>18. Rtld \in Range(loadOrder)
  BY <1>1 DEF Range
<1>19. QED
  BY <1>2, <1>16, <1>17, <1>18 DEF RollbackInv, list

\* Nothing is taken out of the list of a program that is alone with a lost loader.
LEMMA WiredDrops ==
  ASSUME Inv, pc = "init", LinkFails
  PROVE  RollbackInv'
<1> USE DEF Inv
<1>1. CASE ~Lost
  BY <1>1, WiredDropsAll
<1>2. CASE Lost
  <2>1. /\ loadOrder \in Seq(Objects) /\ Len(loadOrder) >= 2 /\ Len(loadOrder) \in Nat
        /\ loadOrder[1] = Rtld /\ loadOrder[2] = Prog
    BY WiredMembers DEF Wired, TypeOK
  <2>2. /\ IsInjective(loadOrder) /\ map = Rtld /\ IsWalk(Tail(loadOrder))
    BY <1>2 DEF WiredInv, Wired, Seen
  <2>3. Tail(loadOrder)[1] = Prog
    BY <2>1
  <2>4. prev[Prog] = Null
    BY <2>2, <2>3 DEF IsWalk
  <2>5. UNCHANGED <<group, loadOrder, list>>
    BY DEF LinkFails, link
  <2>6. (Alone /\ prev[Prog] = Null)'
    BY <1>2, <2>4, <2>5 DEF Alone, Lost, list
  <2>7. Rtld \in Range(loadOrder)
    BY <2>1, RangeIs
  <2>8. QED
    BY <2>2, <2>5, <2>6, <2>7 DEF RollbackInv, list
<1>3. QED
  BY <1>1, <1>2

\* A step of the linking fails.
LEMMA LinkFailsStep ==
  ASSUME Inv, LinkFails
  PROVE  Inv'
<1> USE DEF Inv
<1>1. /\ pc \in {"map", "before", "init"} /\ pc' = "rollback" /\ why' = "link"
      /\ UNCHANGED <<proc, fds, fd, link, list, pub, life>>
  BY DEF LinkFails
<1>2. RollbackInv'
  BY <1>1, MappedDrops, WiredDrops
<1> USE DEF link, list, pub, life
<1>3. TypeOK'
  BY <1>1 DEF TypeOK
<1>4. UnlinkedInv' /\ MappingInv' /\ WiredInv'
  BY <1>1 DEF UnlinkedInv, Unlinked, MappingInv, Mapping, WiredInv, Wired
<1>5. GroupInv' /\ TablesInv'
  BY <1>1 DEF GroupInv, TablesInv, Mapping, Wired
<1>6. FdsInv' /\ FiniInv' /\ OrderInv' /\ SecureDescriptors'
  BY <1>1 DEF FdsInv, FiniInv, OrderInv, SecureDescriptors, Mapping, Wired
<1>7. QED
  BY <1>2, <1>3, <1>4, <1>5, <1>6

\* Dropping a listed object closes the gap between its neighbours.
LEMMA DropListed ==
  ASSUME TypeOK, map = Rtld, DoublyLinked(Listed), NEW o \in Listed, RemoveLinkMap(o),
         NEW R, R = Listed \ {o}
  PROVE  /\ map' = Rtld
         /\ next' \in [Objects -> Objects \cup {Null}]
         /\ prev' \in [Objects -> Objects \cup {Null}]
         /\ tail' \in Objects \cup {Null}
         /\ \A m \in Objects : prev'[m] = Null <=> prev[m] = Null
         /\ DoublyLinked(R)'
<1> DEFINE Q == Listed
           q == prev[o]
           s == next[o]
<1>1. /\ \A x \in Q : /\ x \in Objects \ {Rtld} /\ prev[x] # Null
                      /\ prev[x] \in Q \cup {Rtld} /\ prev[x] # tail
                      /\ prev[x] # Rtld => next[prev[x]] = x
                      /\ tail # x => next[x] \in Q /\ prev[next[x]] = x
      /\ \A x, m \in Q : prev[x] = prev[m] => x = m
  <2>1. Live \subseteq Objects
    BY RangeIs DEF Live, TypeOK, Objects
  <2>2. QED
    BY <2>1 DEF DoublyLinked, Listed
<1>2. /\ map' = Rtld
      /\ tail' = IF tail = o THEN q ELSE tail
      /\ next' = [m \in Objects |-> IF m = q THEN s ELSE next[m]]
      /\ prev' = [m \in Objects |-> IF m # s \/ tail = o THEN prev[m] ELSE q]
  <2>1. o # Rtld /\ prev[o] # Null
    BY DEF Listed
  <2>2. ~NotListed(o)
    BY <2>1 DEF NotListed
  <2>3. /\ map' = IF map = o THEN next[o] ELSE map
        /\ tail' = CASE tail # o -> tail
                     [] map = o -> Null
                     [] OTHER -> prev[o]
        /\ next' = [m \in Objects |->
                      IF m = prev[o] /\ map # o THEN next[o] ELSE next[m]]
        /\ prev' = [m \in Objects |->
                      IF m # next[o] \/ tail = o THEN prev[m]
                      ELSE IF map = o THEN Null ELSE prev[o]]
    BY <2>2 DEF RemoveLinkMap
  <2>4. map' = Rtld /\ tail' = IF tail = o THEN q ELSE tail
    BY <2>1, <2>3
  <2>5. next' = [m \in Objects |-> IF m = q THEN s ELSE next[m]]
    BY <2>1, <2>3
  <2>6. prev' = [m \in Objects |-> IF m # s \/ tail = o THEN prev[m] ELSE q]
    BY <2>1, <2>3
  <2>7. QED
    BY <2>4, <2>5, <2>6
<1>3. /\ q # Null /\ q \in Q \cup {Rtld} /\ q # tail /\ o \in Objects \ {Rtld}
      /\ tail # o => s \in Q /\ prev[s] = o
      /\ Rtld \in Objects /\ Null \notin Objects /\ o # Null
      /\ q \in Objects /\ s \in Objects \cup {Null}
  <2>1. Rtld \in Objects /\ Null \notin Objects
    BY ObjectsAssumption DEF Objects
  <2>2. o \in Q
    OBVIOUS
  <2>3. /\ q # Null /\ q \in Q \cup {Rtld} /\ q # tail /\ o \in Objects \ {Rtld}
        /\ tail # o => s \in Q /\ prev[s] = o
    BY <1>1, <2>2
  <2>4. q \in Objects /\ s \in Objects \cup {Null}
    BY <1>1, <2>1, <2>3, ZenonT(60) DEF TypeOK
  <2>5. QED
    BY <2>1, <2>3, <2>4
<1>4. \A m \in Objects : prev'[m] = Null <=> prev[m] = Null
  BY <1>2, <1>3
<1>5. /\ next' \in [Objects -> Objects \cup {Null}]
      /\ prev' \in [Objects -> Objects \cup {Null}]
      /\ tail' \in Objects \cup {Null}
  BY <1>2, <1>3 DEF TypeOK
<1> HIDE DEF Q, q, s
<1>6. ASSUME NEW m \in R, m = s, tail # o
      PROVE  prev'[m] = q /\ q # o /\ next'[q] = m
  <2>1. m \in Q /\ m # o /\ m \in Objects /\ prev[m] = o
    BY <1>1, <1>3, <1>6 DEF Q
  <2>2. q # o
    BY <1>1, <1>3, <2>1 DEF Q, q
  <2>3. QED
    BY <1>2, <1>3, <1>6, <2>1, <2>2
<1>7. ASSUME NEW m \in R, ~ (m = s /\ tail # o)
      PROVE  /\ prev'[m] = prev[m] /\ prev[m] # o /\ prev[m] # q
             /\ prev[m] # Rtld => next'[prev[m]] = m
  <2>1. m \in Q /\ m # o /\ m \in Objects /\ o \in Q
    BY <1>1 DEF Q
  <2>2. prev[m] # q
    BY <1>1, <2>1 DEF q
  <2>3. prev[m] # o
    <3>1. SUFFICES ASSUME prev[m] = o PROVE FALSE
      OBVIOUS
    <3>2. next[o] = m /\ tail # o
      BY <1>1, <1>3, <2>1, <3>1
    <3>3. QED
      BY <1>7, <3>2 DEF s
  <2>4. prev'[m] = prev[m]
    BY <1>2, <1>7, <2>1
  <2>5. prev[m] # Rtld => next'[prev[m]] = m
    BY <1>1, <1>2, <2>1, <2>2
  <2>6. QED
    BY <2>2, <2>3, <2>4, <2>5
<1>8. ASSUME NEW m \in R
      PROVE  /\ prev'[m] \in R \cup {Rtld} /\ prev'[m] # tail'
             /\ prev'[m] # Rtld => next'[prev'[m]] = m
  <2>1. m \in Q /\ R = Q \ {o}
    BY DEF Q
  <2>2. CASE m = s /\ tail # o
    BY <1>2, <1>3, <1>6, <2>1, <2>2
  <2>3. CASE ~ (m = s /\ tail # o)
    <3>1. prev[m] \in Q \cup {Rtld} /\ prev[m] # tail
      BY <1>1, <2>1
    <3>2. QED
      BY <1>2, <1>7, <2>1, <2>3, <3>1
  <2>4. QED
    BY <2>2, <2>3
<1>9. ASSUME NEW m \in R, tail' # m
      PROVE  next'[m] \in R /\ prev'[next'[m]] = m
  <2>1. m \in Q /\ m # o /\ m \in Objects /\ R = Q \ {o}
    BY <1>1 DEF Q
  <2>2. CASE m = q
    <3>1. tail # o
      BY <1>2, <1>9, <2>2
    <3>2. s \in Q /\ prev[s] = o /\ s \in Objects /\ next'[m] = s
      BY <1>1, <1>2, <1>3, <2>1, <2>2, <3>1
    <3>3. s # o
      BY <2>1, <2>2, <3>2 DEF q
    <3>4. prev'[s] = q
      BY <1>2, <3>1, <3>2
    <3>5. QED
      BY <2>1, <2>2, <3>2, <3>3, <3>4
  <2>3. CASE m # q
    <3>1. tail # m
      BY <1>2, <1>9, <2>1
    <3>2. next'[m] = next[m] /\ next[m] \in Q /\ prev[next[m]] = m /\ next[m] \in Objects
      BY <1>1, <1>2, <2>1, <2>3, <3>1
    <3>3. next[m] # o
      BY <2>3, <3>2 DEF q
    <3>4. ~ (next[m] = s /\ tail # o)
      BY <1>3, <2>1, <3>2
    <3>5. prev'[next[m]] = m
      BY <1>2, <3>2, <3>4
    <3>6. QED
      BY <2>1, <3>2, <3>3, <3>5
  <2>4. QED
    BY <2>2, <2>3
<1>10. ASSUME NEW x \in R, NEW m \in R, prev'[x] = prev'[m]
       PROVE  x = m
  <2>1. x \in Q /\ m \in Q
    BY DEF Q
  <2>2. CASE x = s /\ tail # o
    BY <1>6, <1>7, <1>10, <2>2
  <2>3. CASE m = s /\ tail # o
    BY <1>6, <1>7, <1>10, <2>3
  <2>4. CASE ~ (x = s /\ tail # o) /\ ~ (m = s /\ tail # o)
    BY <1>1, <1>7, <1>10, <2>1, <2>4
  <2>5. QED
    BY <2>2, <2>3, <2>4
<1>11. DoublyLinked(R)'
  BY <1>8, <1>9, <1>10 DEF DoublyLinked
<1>12. QED
  BY <1>2, <1>4, <1>5, <1>11

\* One module of a failed startup is dropped.
LEMMA RollbackDropStep ==
  ASSUME Inv, NEW o \in Objects, RollbackDrop(o)
  PROVE  Inv'
<1> USE DEF Inv
<1>1. /\ pc = "rollback" /\ o \in Range(group) \ {Rtld} /\ RemoveLinkMap(o)
      /\ group' = RemoveFirst(group, o) /\ loadOrder' = RemoveFirst(loadOrder, o)
      /\ UNCHANGED <<proc, pc, why, fds, fd, scan, pub, life>>
  BY DEF RollbackDrop
<1>2. /\ IsInjective(loadOrder) /\ Rtld \in Range(loadOrder) /\ map = Rtld
      /\ DoublyLinked(Listed) \/ (Alone /\ prev[Prog] = Null)
  BY <1>1 DEF RollbackInv
<1>3. /\ group' \in Seq(Objects) /\ IsInjective(group') /\ Range(group') = Range(group) \ {o}
  BY <1>1, RemoveFirstRange DEF TypeOK, GroupInv
<1>4. /\ loadOrder' \in Seq(Objects) /\ IsInjective(loadOrder')
      /\ Range(loadOrder') = Range(loadOrder) \ {o}
  BY <1>1, <1>2, RemoveFirstRange DEF TypeOK
<1>5. later' = later /\ o \notin later
  BY <1>1 DEF GroupInv, life
<1>6. Live' = Live \ {o} /\ o \in Live
  BY <1>1, <1>3, <1>4, <1>5 DEF Live
<1>7. Live \subseteq Objects
  BY RangeIs DEF Live, TypeOK, Objects
<1>8. /\ next' \in [Objects -> Objects \cup {Null}]
      /\ prev' \in [Objects -> Objects \cup {Null}]
      /\ tail' \in Objects \cup {Null}
      /\ map' = Rtld /\ (DoublyLinked(Listed)' \/ (Alone /\ prev[Prog] = Null)')
  <2>0. CASE Alone /\ prev[Prog] = Null
    <3>1. o = Prog
      BY <1>1, <2>0 DEF Alone
    <3>2. UNCHANGED list
      BY <1>1, <1>2, <2>0, <3>1 DEF RemoveLinkMap, NotListed
    <3>3. (Alone /\ prev[Prog] = Null)'
      BY <1>3, <2>0, <3>2 DEF Alone, list
    <3>4. QED
      BY <1>2, <3>2, <3>3 DEF list, TypeOK
  <2>1. CASE DoublyLinked(Listed) /\ o \in Listed
    <3> DEFINE R == Listed \ {o}
    <3> HIDE DEF R
    <3>1. /\ map' = Rtld
          /\ next' \in [Objects -> Objects \cup {Null}]
          /\ prev' \in [Objects -> Objects \cup {Null}]
          /\ tail' \in Objects \cup {Null}
          /\ \A m \in Objects : prev'[m] = Null <=> prev[m] = Null
      BY <1>1, <1>2, <2>1, DropListed
    <3>2. Listed' = Listed \ {o}
      BY <1>6, <1>7, <3>1 DEF Listed
    <3>3. \A X : X = Listed \ {o} => DoublyLinked(X)'
      BY <1>1, <1>2, <2>1, DropListed
    <3>4. DoublyLinked(Listed)'
      BY <3>2, <3>3 DEF DoublyLinked
    <3>5. QED
      BY <3>1, <3>4
  <2>2. CASE DoublyLinked(Listed) /\ o \notin Listed
    <3>1. prev[o] = Null
      BY <1>1, <1>6, <2>2 DEF Listed
    <3>2. UNCHANGED list
      BY <1>1, <1>2, <3>1 DEF RemoveLinkMap, NotListed
    <3>3. Listed' = Listed
      BY <1>6, <2>2, <3>2 DEF Listed, list
    <3>4. DoublyLinked(Listed)'
      BY <2>2, <3>2, <3>3 DEF DoublyLinked, list
    <3>5. QED
      BY <1>2, <3>2, <3>4 DEF list, TypeOK
  <2>3. QED
    BY <1>2, <2>0, <2>1, <2>2
<1> USE DEF pub, life
<1>9. TypeOK'
  <2>1. map' \in Objects \cup {Null}
    BY <1>8, ObjectsAssumption DEF Objects
  <2>2. QED
    BY <1>1, <1>3, <1>4, <1>8, <2>1 DEF TypeOK
<1>10. RollbackInv'
  <2>1. Rtld \in Range(loadOrder')
    BY <1>1, <1>2, <1>4
  <2>2. QED
    BY <1>4, <1>8, <2>1 DEF RollbackInv
<1>11. UnlinkedInv' /\ MappingInv' /\ WiredInv'
  BY <1>1 DEF UnlinkedInv, Unlinked, MappingInv, Mapping, WiredInv, Wired
<1>12. GroupInv' /\ TablesInv'
  BY <1>1, <1>3, <1>5 DEF GroupInv, TablesInv, Mapping, Wired
<1>13. FdsInv' /\ FiniInv' /\ OrderInv' /\ SecureDescriptors'
  BY <1>1 DEF FdsInv, FiniInv, OrderInv, SecureDescriptors, Mapping, Wired
<1>14. QED
  BY <1>9, <1>10, <1>11, <1>12, <1>13

\* The process ends, or goes on without the loader.
LEMMA RollbackEndsStep ==
  ASSUME Inv, RollbackEnds
  PROVE  Inv'
<1> USE DEF Inv
<1>1. /\ pc = "rollback" /\ pc' = "exit"
      /\ UNCHANGED <<proc, why, fds, fd, link, list, pub, life>>
  BY DEF RollbackEnds
<1> USE DEF link, list, pub, life
<1>2. TypeOK'
  BY <1>1, ZenonT(60) DEF TypeOK
<1>3. UnlinkedInv' /\ MappingInv' /\ WiredInv' /\ RollbackInv'
  BY <1>1 DEF UnlinkedInv, Unlinked, MappingInv, Mapping, WiredInv, Wired, RollbackInv
<1>4. GroupInv' /\ TablesInv'
  BY <1>1 DEF GroupInv, TablesInv, Mapping, Wired
<1>5. FdsInv' /\ FiniInv' /\ OrderInv' /\ SecureDescriptors'
  BY <1>1 DEF FdsInv, FiniInv, OrderInv, SecureDescriptors, Mapping, Wired
<1>6. QED
  BY <1>2, <1>3, <1>4, <1>5

\* A step that changes nothing.
LEMMA StutterStep ==
  ASSUME Inv, UNCHANGED vars
  PROVE  Inv'
<1> USE DEF Inv
<1>1. UNCHANGED <<proc, pc, why, fds, fd, link, list, pub, life>>
  BY DEF vars
<1>2. MappingInv' /\ WiredInv' /\ RollbackInv' /\ FiniInv'
  BY <1>1, KeepMapping, KeepWired, KeepRollback, KeepFini DEF link, pub, life
<1> USE DEF link, list, pub, life
<1>3. TypeOK'
  <2>1. /\ proc' = proc /\ pc' = pc /\ why' = why /\ fds' = fds /\ fd' = fd
        /\ group' = group /\ scan' = scan /\ loadOrder' = loadOrder
        /\ map' = map /\ tail' = tail /\ next' = next /\ prev' = prev
        /\ rMap' = rMap /\ glibc' = glibc /\ tlsModules' = tlsModules /\ early' = early
        /\ inited' = inited /\ finalized' = finalized /\ startupRoot' = startupRoot
        /\ later' = later /\ extended' = extended
    BY <1>1
  <2>2. TypeOK
    OBVIOUS
  <2>3. /\ proc' \in Processes
        /\ pc' \in {"start", "fds", "rtld", "main", "link", "map", "before", "layout",
                   "early", "init", "running", "fini", "done", "rollback", "exit", "through"}
    BY <2>1, <2>2, Zenon DEF TypeOK
  <2>4. why' \in {"none", "relocate", "open failed", "wrong descriptor", "load", "link"}
    BY <2>1, <2>2, Zenon DEF TypeOK
  <2>5. QED
    BY <2>1, <2>2, <2>3, <2>4 DEF TypeOK
<1>4. UnlinkedInv' /\ GroupInv' /\ TablesInv'
  BY <1>1 DEF UnlinkedInv, GroupInv, TablesInv
<1>5. FdsInv' /\ OrderInv' /\ SecureDescriptors'
  BY <1>1 DEF FdsInv, OrderInv, SecureDescriptors, Mapping, Wired
<1>6. QED
  BY <1>2, <1>3, <1>4, <1>5

-----------------------------------------------------------------------------
(* dlopen and dlclose in a process that was started.                       *)

\* WalkOrderIs as one formula.
LEMMA WalkOrderFacts ==
  loadOrder \in Seq(Objects) /\ Len(loadOrder) >= 2 =>
         /\ WalkOrder \in Seq(Objects) /\ Len(WalkOrder) = Len(loadOrder)
         /\ DOMAIN WalkOrder = 1 .. Len(loadOrder)
         /\ WalkOrder[1] = loadOrder[2] /\ WalkOrder[2] = loadOrder[1]
         /\ \A i \in 3 .. Len(loadOrder) : WalkOrder[i] = loadOrder[i]
BY WalkOrderIs

\* The same of the next state.
LEMMA WalkOrderNext ==
  ASSUME loadOrder' \in Seq(Objects), Len(loadOrder') >= 2
  PROVE  /\ WalkOrder' \in Seq(Objects) /\ Len(WalkOrder') = Len(loadOrder')
         /\ DOMAIN WalkOrder' = 1 .. Len(loadOrder')
         /\ WalkOrder'[1] = loadOrder'[2] /\ WalkOrder'[2] = loadOrder'[1]
         /\ \A i \in 3 .. Len(loadOrder') : WalkOrder'[i] = loadOrder'[i]
<1>1. (loadOrder \in Seq(Objects) /\ Len(loadOrder) >= 2 =>
         /\ WalkOrder \in Seq(Objects) /\ Len(WalkOrder) = Len(loadOrder)
         /\ DOMAIN WalkOrder = 1 .. Len(loadOrder)
         /\ WalkOrder[1] = loadOrder[2] /\ WalkOrder[2] = loadOrder[1]
         /\ \A i \in 3 .. Len(loadOrder) : WalkOrder[i] = loadOrder[i])'
  BY WalkOrderFacts, PTL
<1>2. QED
  BY <1>1

\* A program that is not alone with the loader has a third module.
LEMMA NotAloneIs ==
  ASSUME Inv, pc \in Wired, ~Alone
  PROVE  Len(glibc.searchlist) >= 3
<1> USE DEF Inv
<1> DEFINE s == glibc.searchlist
<1>1. Len(s) \in Nat
  BY LenProperties DEF TypeOK
<1>2. /\ Range(s) = Range(group) \cup {Rtld} /\ s[1] = Prog /\ s[2] = Rtld
      /\ s \in Seq(Objects)
  BY DEF WiredInv, TypeOK
<1>3. PICK x \in Range(group) : x # Prog /\ x # Rtld
  BY DEF Alone
<1> HIDE DEF s
<1>4. PICK i \in 1 .. Len(s) : s[i] = x
  BY <1>2, RangeIs
<1>5. i # 1 /\ i # 2
  BY <1>2, <1>3, <1>4
<1>6. Len(s) >= 3
  BY <1>1, <1>5
<1>7. QED
  BY <1>6 DEF s

\* One that is alone with it and has opened nothing yet is all there is.
LEMMA FreshAlone ==
  ASSUME Inv, pc \in Wired, Alone, ~extended
  PROVE  Len(loadOrder) = 2
<1> USE DEF Inv
<1>1. /\ Len(loadOrder) \in Nat /\ Len(loadOrder) >= 2
      /\ loadOrder[1] = Rtld /\ loadOrder[2] = Prog
      /\ Range(loadOrder) = Range(group) \cup {Rtld} \cup later
      /\ loadOrder \in Seq(Objects)
  BY WiredMembers DEF TypeOK
<1>2. later = {} /\ IsInjective(loadOrder)
  BY DEF WiredInv
<1>3. Range(loadOrder) \subseteq {Prog, Rtld}
  BY <1>1, <1>2 DEF Alone
<1>4. SUFFICES ASSUME Len(loadOrder) # 2 PROVE FALSE
  OBVIOUS
<1>5. 3 \in 1 .. Len(loadOrder) /\ 1 \in 1 .. Len(loadOrder) /\ 2 \in 1 .. Len(loadOrder)
  <2> DEFINE n == Len(loadOrder)
  <2>1. n \in Nat /\ n >= 2 /\ n # 2
    BY <1>1, <1>4
  <2> HIDE DEF n
  <2>2. 3 \in 1 .. n /\ 1 \in 1 .. n /\ 2 \in 1 .. n
    BY <2>1
  <2>3. QED
    BY <2>2 DEF n
<1>6. loadOrder[3] \in {Prog, Rtld}
  BY <1>1, <1>3, <1>5, RangeIs
<1>7. DOMAIN loadOrder = 1 .. Len(loadOrder)
  BY <1>1, LenProperties
<1>8. loadOrder[3] # loadOrder[1] /\ loadOrder[3] # loadOrder[2]
  BY <1>2, <1>5, <1>7 DEF IsInjective
<1>9. QED
  BY <1>1, <1>6, <1>8

\* w leads from _r_debug.r_map to the cached end of the list.
WalksToTail(w) ==
  /\ w \in Seq(Objects) /\ IsInjective(w) /\ Len(w) >= 1
  /\ w[1] = rMap /\ prev[w[1]] = Null /\ tail = w[Len(w)]
  /\ \A i \in 1 .. Len(w) - 1 : next[w[i]] = w[i + 1] /\ prev[w[i + 1]] = w[i]

\* add_debug_link_map appends to such a walk.
LEMMA WalkGrows ==
  ASSUME NEW w, WalksToTail(w), TypeOK, NEW o \in Objects, o \notin Range(w),
         AddLinkMap(o), rMap' = rMap,
         NEW w1 \in Seq(Objects), Len(w1) = Len(w) + 1, w1[Len(w) + 1] = o,
         \A i \in 1 .. Len(w) : w1[i] = w[i]
  PROVE  /\ w1[1] = rMap' /\ prev'[w1[1]] = Null /\ next'[w1[Len(w1)]] = Null
         /\ \A i \in 1 .. Len(w1) - 1 :
               next'[w1[i]] = w1[i + 1] /\ prev'[w1[i + 1]] = w1[i]
         /\ tail' = o /\ map' = map
<1> DEFINE n == Len(w)
<1>1. /\ w \in Seq(Objects) /\ IsInjective(w) /\ n >= 1 /\ n \in Nat /\ DOMAIN w = 1 .. n
      /\ w[1] = rMap /\ prev[w[1]] = Null /\ tail = w[n]
      /\ \A i \in 1 .. n - 1 : next[w[i]] = w[i + 1] /\ prev[w[i + 1]] = w[i]
  BY LenProperties DEF WalksToTail
<1>2. Len(w1) = n + 1 /\ w1[n + 1] = o /\ \A i \in 1 .. n : w1[i] = w[i]
  OBVIOUS
<1>3. /\ \A i \in 1 .. n : w[i] \in Objects /\ w[i] # o
      /\ \A i, j \in 1 .. n : w[i] = w[j] => i = j
  BY <1>1, RangeIs, ElementOfSeq DEF IsInjective
<1> HIDE DEF n
<1>4. 1 \in 1 .. n /\ n \in 1 .. n
  BY <1>1
<1>5. tail \in Objects /\ tail # o /\ tail # Null
  BY <1>1, <1>3, <1>4, ObjectsAssumption
<1>6. /\ tail' = o /\ map' = map
      /\ prev'[o] = tail /\ next'[o] = Null /\ next'[tail] = o
      /\ \A m \in Objects \ {o} : prev'[m] = prev[m]
      /\ \A m \in Objects \ {o, tail} : next'[m] = next[m]
  BY <1>5, AddLinkMapIs
<1>7. ASSUME NEW i \in 1 .. n
      PROVE  next'[w1[i]] = w1[i + 1] /\ prev'[w1[i + 1]] = w1[i]
  <2>1. w1[i] = w[i]
    BY <1>2
  <2>2. CASE i = n
    BY <1>1, <1>2, <1>6, <2>1, <2>2
  <2>3. CASE i # n
    <3>1. i \in 1 .. n - 1 /\ i + 1 \in 1 .. n
      BY <1>1, <2>3
    <3>2. w1[i + 1] = w[i + 1] /\ next[w[i]] = w[i + 1] /\ prev[w[i + 1]] = w[i]
      BY <1>1, <1>2, <3>1
    <3>3. w[i] # tail
      BY <1>1, <1>3, <1>4, <2>3
    <3>4. QED
      BY <1>3, <1>6, <2>1, <3>1, <3>2, <3>3
  <2>4. QED
    BY <2>2, <2>3
<1>8. w1[1] = rMap' /\ prev'[w1[1]] = Null /\ next'[w1[n + 1]] = Null
  <2>1. w1[1] = w[1] /\ w[1] \in Objects \ {o}
    BY <1>2, <1>3, <1>4
  <2>2. QED
    BY <1>1, <1>2, <1>6, <2>1
<1>9. Len(w1) - 1 = n
  BY <1>1, <1>2
<1>10. QED
  BY <1>2, <1>6, <1>7, <1>8, <1>9

\* The load order without the loader, its first.
LEMMA TailIs ==
  ASSUME NEW l \in Seq(Objects), Len(l) >= 2
  PROVE  /\ Tail(l) \in Seq(Objects) /\ Len(Tail(l)) = Len(l) - 1
         /\ \A i \in 1 .. Len(l) - 1 : Tail(l)[i] = l[i + 1]
         /\ IsInjective(l) => IsInjective(Tail(l))
         /\ Range(Tail(l)) \subseteq Range(l)
<1> DEFINE r == Tail(l)
           n == Len(l)
<1>1. n \in Nat /\ n >= 2 /\ DOMAIN l = 1 .. n
  BY LenProperties
<1>2. r \in Seq(Objects) /\ Len(r) = n - 1 /\ \A i \in 1 .. n - 1 : r[i] = l[i + 1]
  <2>1. l # <<>>
    BY <1>1
  <2>2. QED
    BY <1>1, <2>1, HeadTailProperties
<1> HIDE DEF r, n
<1>3. DOMAIN r = 1 .. n - 1
  BY <1>2, LenProperties
<1>4. ASSUME IsInjective(l) PROVE IsInjective(r)
  <2>1. \A i, j \in 1 .. n : l[i] = l[j] => i = j
    BY <1>1, <1>4 DEF IsInjective
  <2>2. ASSUME NEW i \in 1 .. n - 1, NEW j \in 1 .. n - 1, r[i] = r[j] PROVE i = j
    <3>1. i + 1 \in 1 .. n /\ j + 1 \in 1 .. n /\ l[i + 1] = l[j + 1]
      BY <1>1, <1>2, <2>2
    <3>2. i + 1 = j + 1
      BY <2>1, <3>1
    <3>3. QED
      BY <3>2
  <2>3. QED
    BY <1>3, <2>2 DEF IsInjective
<1>5. Range(r) \subseteq Range(l)
  <2>1. \A i \in 1 .. n - 1 : i + 1 \in 1 .. n
    BY <1>1
  <2>2. QED
    BY <1>1, <1>2, <1>3, <2>1 DEF Range
<1>6. QED
  BY <1>2, <1>4, <1>5 DEF r, n

\* The walk that a dlopen extends: all the modules, or all but a lost loader.
LEMMA WalkToExtend ==
  ASSUME Inv, pc \in Wired
  PROVE  WalksToTail(IF Alone THEN Tail(loadOrder) ELSE WalkOrder)
<1> USE DEF Inv
<1> DEFINE l == loadOrder
           n == Len(loadOrder)
           v == Tail(loadOrder)
           w == WalkOrder
<1>1. /\ l \in Seq(Objects) /\ n \in Nat /\ n >= 2 /\ DOMAIN l = 1 .. n
      /\ l[1] = Rtld /\ l[2] = Prog /\ Len(glibc.searchlist) \in 2 .. n
  BY WiredMembers, LenProperties DEF TypeOK
<1>2. /\ IsInjective(l) /\ rMap = Prog /\ tail = l[n]
      /\ IsWalk(IF Lost THEN v ELSE w)
  BY DEF WiredInv, Seen
<1>3. /\ v \in Seq(Objects) /\ Len(v) = n - 1 /\ IsInjective(v)
      /\ \A i \in 1 .. n - 1 : v[i] = l[i + 1]
  BY <1>1, <1>2, TailIs
<1>4. /\ w \in Seq(Objects) /\ Len(w) = n /\ w[1] = l[2]
      /\ \A i \in 3 .. n : w[i] = l[i]
  BY <1>1, WalkOrderIs
<1>5. IsInjective(w)
  BY <1>1, <1>2, WalkOrderInjective
<1>6. CASE ~Alone
  <2>1. Len(glibc.searchlist) >= 3
    BY <1>6, NotAloneIs
  <2>2. n >= 3 /\ n \in 3 .. n
    BY <1>1, <2>1
  <2>3. IsWalk(w)
    BY <1>2, <1>6 DEF Lost
  <2>4. tail = w[n]
    BY <1>2, <1>4, <2>2
  <2> HIDE DEF w, n, l, v
  <2>5. QED
    BY <1>4, <1>5, <1>6, <2>2, <2>3, <2>4 DEF WalksToTail, IsWalk, w
<1>7. CASE Alone
  <2>1. v[1] = Prog /\ v[n - 1] = l[n] /\ n - 1 >= 1
    <3>1. 1 \in 1 .. n - 1 /\ n - 1 \in 1 .. n - 1 /\ 1 + 1 = 2 /\ (n - 1) + 1 = n
      BY <1>1
    <3>2. QED
      BY <1>1, <1>3, <3>1
  <2>2. CASE extended
    <3>1. IsWalk(v)
      BY <1>2, <1>7, <2>2 DEF Lost
    <3> HIDE DEF v, n, l
    <3>2. QED
      BY <1>2, <1>3, <1>7, <2>1, <3>1 DEF WalksToTail, IsWalk, v
  <2>3. CASE ~extended
    <3>1. n = 2
      BY <1>7, <2>3, FreshAlone
    <3>2. IsWalk(w)
      BY <1>2, <2>3 DEF Lost
    <3>3. prev[Prog] = Null
      BY <1>1, <1>4, <3>2 DEF IsWalk
    <3> HIDE DEF v, n, l, w
    <3>4. Len(v) = 1 /\ n - 1 = 1
      BY <1>3, <3>1
    <3>5. \A i \in 1 .. Len(v) - 1 : FALSE
      BY <3>4
    <3>6. QED
      BY <1>2, <1>3, <1>7, <2>1, <3>3, <3>4, <3>5 DEF WalksToTail, v
  <2>4. QED
    BY <2>2, <2>3
<1>8. QED
  BY <1>6, <1>7

\* An object is opened: it goes to the end of the list.
LEMMA DlopenWired ==
  ASSUME Inv, NEW o \in Objects, Dlopen(o)
  PROVE  WiredInv'
<1> USE DEF Inv
<1> DEFINE l == loadOrder
           n == Len(loadOrder)
           s == glibc.searchlist
           l1 == loadOrder'
           w == IF Alone THEN Tail(loadOrder) ELSE WalkOrder
           w1 == IF Alone THEN Tail(loadOrder') ELSE WalkOrder'
<1>1. /\ pc \in {"init", "running", "fini"}
      /\ o \in Libs \ Live /\ AddLinkMap(o) /\ l1 = Append(l, o) /\ later' = later \cup {o}
      /\ pc' = pc /\ group' = group /\ rMap' = rMap /\ glibc' = glibc /\ extended'
  BY DEF Dlopen, pub
<1>2. pc \in Wired /\ pc' \in Wired
  BY <1>1 DEF Wired
<1>3. /\ n \in Nat /\ n >= 2 /\ Len(s) \in Nat /\ Len(s) >= 2 /\ Len(s) <= n
      /\ Live = Range(l) /\ l \in Seq(Objects) /\ s \in Seq(Objects)
  <2>1. n \in Nat /\ n >= 2 /\ Len(s) \in 2 .. n /\ Live = Range(l)
    BY <1>2, WiredMembers
  <2>2. l \in Seq(Objects) /\ s \in Seq(Objects)
    BY DEF TypeOK
  <2>3. Len(s) \in Nat /\ Len(s) >= 2 /\ Len(s) <= n
    BY <2>1
  <2>4. QED
    BY <2>1, <2>2, <2>3
<1>4. /\ IsInjective(l) /\ map = Rtld /\ rMap = Prog
      /\ Range(s) = Range(group) \cup {Rtld}
      /\ \A i \in DOMAIN s : s[i] = WalkOrder[i]
      /\ s[1] = Prog /\ s[2] = Rtld
      /\ later = {l[i] : i \in Len(s) + 1 .. n}
  BY <1>2 DEF WiredInv
<1>5. WalksToTail(w)
  BY <1>2, WalkToExtend
<1>6. /\ l1 \in Seq(Objects) /\ Len(l1) = n + 1 /\ IsInjective(l1)
      /\ \A i \in 1 .. n : l1[i] = l[i]
      /\ l1[n + 1] = o
  <2>1. l \in Seq(Objects) /\ IsInjective(l) /\ o \notin Range(l)
    BY <1>1, <1>3, <1>4
  <2>2. QED
    BY <1>1, <2>1, AppendNew
<1>7. /\ WalkOrder \in Seq(Objects) /\ Len(WalkOrder) = n
      /\ WalkOrder[1] = l[2] /\ WalkOrder[2] = l[1]
      /\ \A i \in 3 .. n : WalkOrder[i] = l[i]
  BY <1>3, WalkOrderIs
<1>8. /\ WalkOrder' \in Seq(Objects) /\ Len(WalkOrder') = n + 1
      /\ WalkOrder'[1] = l1[2] /\ WalkOrder'[2] = l1[1]
      /\ \A i \in 3 .. n + 1 : WalkOrder'[i] = l1[i]
  <2>1. l1 \in Seq(Objects) /\ Len(l1) >= 2
    BY <1>3, <1>6
  <2>2. QED
    BY <1>6, <2>1, WalkOrderNext
<1> HIDE DEF l, n, s, l1
<1>9. WalkOrder'[n + 1] = o /\ \A i \in 1 .. n : WalkOrder'[i] = WalkOrder[i]
  <2>1. WalkOrder'[n + 1] = o
    BY <1>3, <1>6, <1>8
  <2>2. WalkOrder'[1] = WalkOrder[1] /\ WalkOrder'[2] = WalkOrder[2]
    BY <1>3, <1>6, <1>7, <1>8
  <2>3. ASSUME NEW i \in 3 .. n PROVE WalkOrder'[i] = WalkOrder[i]
    <3>1. i \in 1 .. n /\ i \in 3 .. n + 1
      BY <1>3
    <3>2. QED
      BY <1>6, <1>7, <1>8, <3>1
  <2>4. QED
    BY <1>3, <2>1, <2>2, <2>3
<1>10. /\ o \notin Range(w) /\ w1 \in Seq(Objects) /\ Len(w1) = Len(w) + 1
       /\ w1[Len(w) + 1] = o /\ \A i \in 1 .. Len(w) : w1[i] = w[i]
  <2>1. CASE Alone
    <3>1. /\ Len(Tail(l)) = n - 1 /\ \A i \in 1 .. n - 1 : Tail(l)[i] = l[i + 1]
          /\ Range(Tail(l)) \subseteq Range(l)
      <4>1. Len(l) = n /\ Len(l) >= 2 /\ l \in Seq(Objects)
        BY <1>3 DEF n, l
      <4>2. QED
        BY <4>1, TailIs
    <3>2. /\ Tail(l1) \in Seq(Objects) /\ Len(Tail(l1)) = n
          /\ \A i \in 1 .. n : Tail(l1)[i] = l1[i + 1]
      <4>1. Len(l1) >= 2 /\ Len(l1) - 1 = n
        BY <1>3, <1>6
      <4>2. QED
        BY <1>6, <4>1, TailIs
    <3>3. o \notin Range(Tail(l))
      BY <1>1, <1>3, <3>1
    <3> DEFINE v == Tail(l)
               v1 == Tail(l1)
    <3>4. w = v /\ w1 = v1
      BY <2>1 DEF l, l1
    <3> HIDE DEF v, v1, w, w1
    <3>5. Len(v) = n - 1 /\ Len(v1) = Len(v) + 1 /\ v1[Len(v) + 1] = o
      <4>1. n \in 1 .. n /\ (n - 1) + 1 = n
        BY <1>3
      <4>2. QED
        BY <1>3, <1>6, <3>1, <3>2, <4>1 DEF v, v1
    <3>6. ASSUME NEW i \in 1 .. Len(v) PROVE v1[i] = v[i]
      <4>1. i \in 1 .. n - 1 /\ i \in 1 .. n /\ i + 1 \in 1 .. n
        BY <1>3, <3>5
      <4>2. QED
        BY <1>6, <3>1, <3>2, <4>1 DEF v, v1
    <3>7. QED
      BY <3>2, <3>3, <3>4, <3>5, <3>6 DEF v, v1
  <2>2. CASE ~Alone
    <3>1. Range(WalkOrder) = Range(loadOrder)
      BY <1>3, <1>4, WalkOrderInjective DEF l, n
    <3>2. o \notin Range(WalkOrder)
      BY <1>1, <1>3, <3>1 DEF l
    <3>3. QED
      BY <1>7, <1>8, <1>9, <2>2, <3>2
  <2>3. QED
    BY <2>1, <2>2
<1> HIDE DEF w, w1
<1>11. /\ w1[1] = rMap' /\ prev'[w1[1]] = Null /\ next'[w1[Len(w1)]] = Null
       /\ \A i \in 1 .. Len(w1) - 1 :
             next'[w1[i]] = w1[i + 1] /\ prev'[w1[i + 1]] = w1[i]
       /\ tail' = o /\ map' = map
  BY <1>1, <1>5, <1>10, WalkGrows, SMTT(30)
<1>12. Seen' = w1
  BY <1>1 DEF Seen, Lost, Alone, w1
<1>13. IsWalk(Seen)'
  BY <1>11, <1>12 DEF IsWalk
<1>14. tail' = l1[Len(l1)]
  BY <1>6, <1>11
<1>15. later' = {l1[i] : i \in Len(s) + 1 .. Len(l1)}
  <2>1. \A i \in Len(s) + 1 .. n : i \in 1 .. n /\ i \in Len(s) + 1 .. Len(l1)
    BY <1>3, <1>6
  <2>2. \A i \in Len(s) + 1 .. Len(l1) : i = n + 1 \/ i \in Len(s) + 1 .. n
    BY <1>3, <1>6
  <2>3. n + 1 \in Len(s) + 1 .. Len(l1)
    BY <1>3, <1>6
  <2>4. later \cup {o} \subseteq {l1[i] : i \in Len(s) + 1 .. Len(l1)}
    BY <1>4, <1>6, <2>1, <2>3
  <2>5. \A i \in Len(s) + 1 .. Len(l1) : l1[i] \in later \cup {o}
    BY <1>4, <1>6, <2>1, <2>2
  <2>6. QED
    BY <1>1, <2>4, <2>5
<1>16. Len(s) \in 2 .. Len(l1) /\ \A i \in DOMAIN s : s[i] = WalkOrder'[i]
  <2>1. Len(s) \in 2 .. Len(l1) /\ \A i \in 1 .. Len(s) : i \in 1 .. n
    BY <1>3, <1>6
  <2>2. DOMAIN s = 1 .. Len(s)
    BY <1>3, LenProperties
  <2>3. QED
    BY <1>4, <1>9, <2>1, <2>2
<1>17. QED
  BY <1>1, <1>4, <1>6, <1>11, <1>13, <1>14, <1>15, <1>16 DEF WiredInv, l1, s

\* dlopen.
LEMMA DlopenStep ==
  ASSUME Inv, NEW o \in Objects, Dlopen(o)
  PROVE  Inv'
<1>1. /\ pc \in {"init", "running", "fini"} /\ o \in Libs \ Live /\ AddLinkMap(o)
      /\ loadOrder' = Append(loadOrder, o) /\ later' = later \cup {o} /\ pc' = pc
      /\ UNCHANGED <<proc, why, fds, fd, group, scan, pub, inited, finalized, startupRoot>>
      /\ extended' = TRUE
  BY DEF Dlopen
<1>2. WiredInv'
  BY DlopenWired
<1> USE DEF Inv
<1>3. TypeOK'
  <2>1. loadOrder' \in Seq(Objects) /\ later' \subseteq Libs
    BY <1>1, AppendProperties DEF TypeOK
  <2>2. /\ next' \in [Objects -> Objects \cup {Null}]
        /\ prev' \in [Objects -> Objects \cup {Null}]
        /\ map' \in Objects \cup {Null} /\ tail' \in Objects \cup {Null}
    BY <1>1 DEF AddLinkMap, TypeOK
  <2>3. QED
    BY <1>1, <2>1, <2>2, ZenonT(60) DEF TypeOK, pub
<1>4. UnlinkedInv' /\ MappingInv' /\ RollbackInv'
  BY <1>1 DEF UnlinkedInv, Unlinked, MappingInv, Mapping, RollbackInv
<1>5. GroupInv'
  <2>1. o \notin Range(group)
    BY <1>1 DEF Live
  <2>2. QED
    BY <1>1, <2>1 DEF GroupInv, Mapping, Wired, pub
<1>6. TablesInv' /\ FdsInv' /\ OrderInv' /\ SecureDescriptors'
  BY <1>1 DEF TablesInv, FdsInv, OrderInv, SecureDescriptors, pub, Wired, Mapping
<1>7. FiniInv'
  BY <1>1, KeepFini
<1>8. QED
  BY <1>2, <1>3, <1>4, <1>5, <1>6, <1>7

\* RemoveLinkMap takes an object out of such a walk that is not its first.
LEMMA WalkShrinks ==
  ASSUME NEW w, WalksToTail(w), next[w[Len(w)]] = Null, TypeOK, map = Rtld,
         NEW o \in Objects, o # Rtld, NEW k \in 2 .. Len(w), w[k] = o,
         RemoveLinkMap(o), rMap' = rMap,
         NEW w1 \in Seq(Objects), Len(w1) = Len(w) - 1,
         \A i \in 1 .. Len(w) - 1 : w1[i] = IF i < k THEN w[i] ELSE w[i + 1]
  PROVE  /\ w1[1] = rMap' /\ prev'[w1[1]] = Null /\ next'[w1[Len(w1)]] = Null
         /\ \A i \in 1 .. Len(w1) - 1 :
               next'[w1[i]] = w1[i + 1] /\ prev'[w1[i + 1]] = w1[i]
         /\ tail' = w1[Len(w1)] /\ map' = Rtld
         /\ next' \in [Objects -> Objects \cup {Null}]
         /\ prev' \in [Objects -> Objects \cup {Null}]
         /\ tail' \in Objects \cup {Null}
<1> DEFINE n == Len(w)
<1>1. /\ w \in Seq(Objects) /\ IsInjective(w) /\ n \in Nat /\ DOMAIN w = 1 .. n
      /\ w[1] = rMap /\ prev[w[1]] = Null /\ tail = w[n] /\ next[w[n]] = Null
      /\ \A i \in 1 .. n - 1 : next[w[i]] = w[i + 1] /\ prev[w[i + 1]] = w[i]
  BY LenProperties DEF WalksToTail
<1>2. /\ Len(w1) = n - 1 /\ k \in 2 .. n
      /\ \A i \in 1 .. n - 1 : w1[i] = IF i < k THEN w[i] ELSE w[i + 1]
  OBVIOUS
<1>3. /\ \A i \in 1 .. n : w[i] \in Objects
      /\ \A i, j \in 1 .. n : w[i] = w[j] => i = j
  BY <1>1, ElementOfSeq DEF IsInjective
<1> HIDE DEF n
<1>4. n >= 2 /\ k \in 1 .. n /\ k - 1 \in 1 .. n - 1 /\ k - 1 \in 1 .. n /\ (k - 1) + 1 = k
  BY <1>1, <1>2
<1>5. prev[o] = w[k - 1] /\ w[k - 1] \in Objects /\ (k < n => next[o] = w[k + 1])
  <2>1. prev[o] = w[k - 1]
    BY <1>1, <1>4
  <2>2. k < n => k \in 1 .. n - 1
    BY <1>1, <1>4
  <2>3. QED
    BY <1>1, <1>3, <1>4, <2>1, <2>2
<1>6. tail = o <=> k = n
  <2>1. n \in 1 .. n
    BY <1>1, <1>4
  <2>2. QED
    BY <1>1, <1>3, <1>4, <2>1
<1>7. Null \notin Objects
  BY ObjectsAssumption
<1>8. /\ map' = Rtld
      /\ tail' = IF k = n THEN w[k - 1] ELSE tail
      /\ next' = [m \in Objects |-> IF m = w[k - 1] THEN next[o] ELSE next[m]]
      /\ prev' = [m \in Objects |-> IF m # next[o] \/ k = n THEN prev[m] ELSE w[k - 1]]
  <2>1. ~NotListed(o)
    BY <1>5, <1>7 DEF NotListed
  <2>2. /\ map' = IF map = o THEN next[o] ELSE map
        /\ tail' = CASE tail # o -> tail
                     [] map = o -> Null
                     [] OTHER -> prev[o]
        /\ next' = [m \in Objects |->
                      IF m = prev[o] /\ map # o THEN next[o] ELSE next[m]]
        /\ prev' = [m \in Objects |->
                      IF m # next[o] \/ tail = o THEN prev[m]
                      ELSE IF map = o THEN Null ELSE prev[o]]
    BY <2>1 DEF RemoveLinkMap
  <2>3. map # o
    OBVIOUS
  <2>4. map' = Rtld /\ tail' = IF k = n THEN w[k - 1] ELSE tail
    BY <1>5, <1>6, <2>2, <2>3
  <2>5. next' = [m \in Objects |-> IF m = w[k - 1] THEN next[o] ELSE next[m]]
    BY <1>5, <2>2, <2>3
  <2>6. prev' = [m \in Objects |-> IF m # next[o] \/ k = n THEN prev[m] ELSE w[k - 1]]
    BY <1>5, <1>6, <2>2, <2>3
  <2>7. QED
    BY <2>4, <2>5, <2>6
<1>9. /\ \A i \in 1 .. n : i # k - 1 => next'[w[i]] = next[w[i]]
      /\ next'[w[k - 1]] = next[o]
      /\ \A i \in 1 .. n : i # k + 1 => prev'[w[i]] = prev[w[i]]
      /\ k < n => prev'[w[k + 1]] = w[k - 1]
  <2>1. next'[w[k - 1]] = next[o]
    BY <1>5, <1>8
  <2>2. ASSUME NEW i \in 1 .. n, i # k - 1 PROVE next'[w[i]] = next[w[i]]
    <3>1. w[i] # w[k - 1] /\ w[i] \in Objects
      BY <1>3, <1>4, <2>2
    <3>2. QED
      BY <1>8, <3>1
  <2>3. ASSUME NEW i \in 1 .. n, i # k + 1 PROVE prev'[w[i]] = prev[w[i]]
    <3>1. w[i] \in Objects
      BY <1>3
    <3>2. k < n => w[i] # next[o]
      <4>1. k < n => k + 1 \in 1 .. n
        BY <1>1, <1>4
      <4>2. QED
        BY <1>3, <1>5, <2>3, <4>1
    <3>3. k = n \/ k < n
      BY <1>1, <1>4
    <3>4. QED
      BY <1>8, <3>1, <3>2, <3>3
  <2>4. k < n => prev'[w[k + 1]] = w[k - 1]
    <3>1. k < n => k + 1 \in 1 .. n /\ k # n
      BY <1>1, <1>4
    <3>2. QED
      BY <1>3, <1>5, <1>8, <3>1
  <2>5. QED
    BY <2>1, <2>2, <2>3, <2>4
<1>10. ASSUME NEW i \in 1 .. n - 2
       PROVE  next'[w1[i]] = w1[i + 1] /\ prev'[w1[i + 1]] = w1[i]
  <2>1. /\ i \in 1 .. n - 1 /\ i + 1 \in 1 .. n - 1 /\ i \in 1 .. n /\ i + 1 \in 1 .. n
        /\ (i + 1) + 1 \in 1 .. n
    BY <1>1, <1>4
  <2>2. CASE i + 1 < k
    <3>1. i < k /\ i # k - 1 /\ i + 1 # k + 1
      BY <1>4, <2>1, <2>2
    <3>2. w1[i] = w[i] /\ w1[i + 1] = w[i + 1]
      BY <1>2, <2>1, <2>2, <3>1
    <3>3. QED
      BY <1>1, <1>9, <2>1, <3>1, <3>2
  <2>3. CASE i + 1 = k
    <3>1. i < k /\ ~ (i + 1 < k) /\ k < n /\ i = k - 1
      BY <1>1, <1>4, <2>1, <2>3
    <3>2. w1[i] = w[k - 1] /\ w1[i + 1] = w[k + 1]
      BY <1>2, <2>1, <2>3, <3>1
    <3>3. QED
      BY <1>5, <1>9, <3>1, <3>2
  <2>4. CASE i + 1 > k
    <3>1. ~ (i < k) /\ ~ (i + 1 < k) /\ i + 1 # k - 1 /\ (i + 1) + 1 # k + 1
      BY <1>1, <1>4, <2>1, <2>4
    <3>2. w1[i] = w[i + 1] /\ w1[i + 1] = w[(i + 1) + 1]
      BY <1>2, <2>1, <3>1
    <3>3. next[w[i + 1]] = w[(i + 1) + 1] /\ prev[w[(i + 1) + 1]] = w[i + 1]
      BY <1>1, <2>1
    <3>4. QED
      BY <1>9, <2>1, <3>1, <3>2, <3>3
  <2>5. QED
    BY <1>4, <2>1, <2>2, <2>3, <2>4
<1>11. w1[1] = rMap' /\ prev'[w1[1]] = Null
  <2>1. 1 \in 1 .. n - 1 /\ 1 \in 1 .. n /\ 1 < k /\ 1 # k + 1
    BY <1>1, <1>2, <1>4
  <2>2. w1[1] = w[1]
    BY <1>2, <2>1
  <2>3. QED
    BY <1>1, <1>9, <2>1, <2>2
<1>12. next'[w1[n - 1]] = Null /\ tail' = w1[n - 1]
  <2>1. n - 1 \in 1 .. n - 1 /\ (n - 1) + 1 = n /\ n \in 1 .. n
    BY <1>1, <1>4
  <2>2. CASE k = n
    <3>1. n - 1 < k /\ n - 1 = k - 1
      BY <1>1, <2>2
    <3>2. w1[n - 1] = w[k - 1]
      BY <1>2, <2>1, <3>1
    <3>3. QED
      BY <1>1, <1>8, <1>9, <2>2, <3>2
  <2>3. CASE k # n
    <3>1. ~ (n - 1 < k) /\ n # k - 1
      BY <1>1, <1>4, <2>3
    <3>2. w1[n - 1] = w[n]
      BY <1>2, <2>1, <3>1
    <3>3. QED
      BY <1>1, <1>8, <1>9, <2>1, <2>3, <3>1, <3>2
  <2>4. QED
    BY <2>2, <2>3
<1>13. /\ next' \in [Objects -> Objects \cup {Null}]
       /\ prev' \in [Objects -> Objects \cup {Null}]
       /\ tail' \in Objects \cup {Null}
  <2>1. tail' \in Objects \cup {Null}
    BY <1>5, <1>8 DEF TypeOK
  <2>2. next' \in [Objects -> Objects \cup {Null}]
    BY <1>8 DEF TypeOK
  <2>3. prev' \in [Objects -> Objects \cup {Null}]
    BY <1>5, <1>8 DEF TypeOK
  <2>4. QED
    BY <2>1, <2>2, <2>3
<1>14. Len(w1) - 1 = n - 2
  BY <1>1, <1>2
<1>15. QED
  BY <1>2, <1>8, <1>10, <1>11, <1>12, <1>13, <1>14

\* An object that was opened later is closed: its neighbours are linked.
LEMMA DlcloseWired ==
  ASSUME Inv, NEW o \in Objects, Dlclose(o)
  PROVE  /\ WiredInv'
         /\ next' \in [Objects -> Objects \cup {Null}]
         /\ prev' \in [Objects -> Objects \cup {Null}]
         /\ map' \in Objects \cup {Null} /\ tail' \in Objects \cup {Null}
         /\ loadOrder' \in Seq(Objects)
<1> USE DEF Inv
<1> DEFINE l == loadOrder
           n == Len(loadOrder)
           s == glibc.searchlist
           l1 == loadOrder'
           w == IF Alone THEN Tail(loadOrder) ELSE WalkOrder
           w1 == IF Alone THEN Tail(loadOrder') ELSE WalkOrder'
<1>1. /\ pc \in {"init", "running", "fini"} /\ o \in later /\ RemoveLinkMap(o)
      /\ l1 = RemoveFirst(l, o) /\ later' = later \ {o} /\ extended' = extended
      /\ pc' = pc /\ group' = group /\ rMap' = rMap /\ glibc' = glibc
  BY DEF Dlclose, pub
<1>2. pc \in Wired /\ pc' \in Wired
  BY <1>1 DEF Wired
<1>3. /\ IsInjective(l) /\ IsWalk(Seen) /\ map = Rtld /\ rMap = Prog /\ extended
      /\ Range(s) = Range(group) \cup {Rtld}
      /\ \A i \in DOMAIN s : s[i] = WalkOrder[i]
      /\ s[1] = Prog /\ s[2] = Rtld
      /\ later = {l[i] : i \in Len(s) + 1 .. n}
  BY <1>1, <1>2 DEF WiredInv
<1>4. n \in Nat /\ Len(s) \in 2 .. n /\ l \in Seq(Objects) /\ s \in Seq(Objects)
  BY <1>2, WiredMembers DEF TypeOK
<1>5. PICK k \in Len(s) + 1 .. n : l[k] = o
  BY <1>1, <1>3
<1>6. ~Alone => Len(s) >= 3
  BY <1>2, NotAloneIs
<1>a. WalksToTail(w) /\ IsWalk(w)
  BY <1>2, <1>3, WalkToExtend DEF Seen, Lost
<1> HIDE DEF s
<1>7. Len(s) \in Nat /\ Len(s) <= n /\ Len(s) >= 2
  BY <1>4
<1> HIDE DEF n
<1>8. /\ n >= 3 /\ k \in 3 .. n /\ k \in 1 .. n
      /\ ~Alone => n >= 4 /\ k \in 4 .. n
  BY <1>4, <1>5, <1>6, <1>7
<1>9. /\ WalkOrder \in Seq(Objects) /\ Len(WalkOrder) = n
      /\ WalkOrder[1] = l[2] /\ WalkOrder[2] = l[1] /\ \A i \in 3 .. n : WalkOrder[i] = l[i]
  <2>1. l \in Seq(Objects) /\ Len(l) >= 2
    BY <1>4, <1>8 DEF n
  <2>2. QED
    BY <2>1, WalkOrderIs DEF n
<1>11. /\ l1 \in Seq(Objects) /\ Len(l1) = n - 1 /\ IsInjective(l1)
       /\ \A i \in 1 .. n - 1 : l1[i] = IF i < k THEN l[i] ELSE l[i + 1]
  <2>1. l \in Seq(Objects) /\ IsInjective(l) /\ k \in 1 .. Len(l)
    BY <1>3, <1>4, <1>8 DEF n
  <2>2. /\ l1 \in Seq(Objects) /\ Len(l1) = Len(l) - 1
        /\ \A i \in 1 .. Len(l) - 1 : l1[i] = IF i < k THEN l[i] ELSE l[i + 1]
    BY <1>1, <1>5, <2>1, RemoveFirstAt
  <2>3. IsInjective(l1)
    BY <1>1, <2>1, RemoveFirstRange
  <2>4. QED
    BY <2>2, <2>3 DEF n
<1>12. /\ WalkOrder' \in Seq(Objects) /\ Len(WalkOrder') = n - 1
       /\ WalkOrder'[1] = l1[2] /\ WalkOrder'[2] = l1[1]
       /\ \A i \in 3 .. n - 1 : WalkOrder'[i] = l1[i]
  <2>1. l1 \in Seq(Objects) /\ Len(l1) >= 2
    BY <1>4, <1>8, <1>11
  <2>2. QED
    BY <1>11, <2>1, WalkOrderNext
<1> HIDE DEF l, l1, w, w1
<1>14. \A i \in 1 .. n - 1 : WalkOrder'[i] = IF i < k THEN WalkOrder[i] ELSE WalkOrder[i + 1]
  <2>1. WalkOrder'[1] = WalkOrder[1] /\ WalkOrder'[2] = WalkOrder[2]
    <3>1. 1 \in 1 .. n - 1 /\ 2 \in 1 .. n - 1 /\ 1 < k /\ 2 < k
      BY <1>4, <1>8
    <3>2. QED
      BY <1>9, <1>11, <1>12, <3>1
  <2>2. ASSUME NEW i \in 3 .. n - 1
        PROVE  WalkOrder'[i] = IF i < k THEN WalkOrder[i] ELSE WalkOrder[i + 1]
    <3>1. i \in 1 .. n - 1 /\ i \in 3 .. n /\ i + 1 \in 3 .. n
      BY <1>4
    <3>2. QED
      BY <1>9, <1>11, <1>12, <3>1
  <2>3. 1 < k /\ 2 < k
    BY <1>4, <1>8
  <2>4. QED
    BY <1>4, <1>8, <2>1, <2>2, <2>3
<1>15. o # Rtld
  <2>1. later \subseteq Libs
    BY DEF TypeOK
  <2>2. QED
    BY <1>1, <2>1, ObjectsAssumption
<1>16. PICK q \in 2 .. Len(w) :
         /\ w[q] = o /\ w1 \in Seq(Objects) /\ Len(w1) = Len(w) - 1
         /\ \A i \in 1 .. Len(w) - 1 : w1[i] = IF i < q THEN w[i] ELSE w[i + 1]
         /\ w1[Len(w1)] = l1[n - 1]
  <2>1. CASE ~Alone
    <3>1. k \in 2 .. n /\ n - 1 \in 3 .. n - 1
      BY <1>4, <1>8, <2>1
    <3>2. WalkOrder[k] = o
      BY <1>5, <1>8, <1>9 DEF l
    <3>3. WalkOrder'[Len(WalkOrder')] = l1[n - 1]
      BY <1>12, <3>1
    <3>4. w = WalkOrder /\ w1 = WalkOrder'
      BY <2>1 DEF w, w1
    <3>5. /\ k \in 2 .. Len(w) /\ w[k] = o /\ w1 \in Seq(Objects) /\ Len(w1) = Len(w) - 1
          /\ \A i \in 1 .. Len(w) - 1 : w1[i] = IF i < k THEN w[i] ELSE w[i + 1]
          /\ w1[Len(w1)] = l1[n - 1]
      BY <1>9, <1>12, <1>14, <3>1, <3>2, <3>3, <3>4
    <3>6. QED
      BY <3>5
  <2>2. CASE Alone
    <3> DEFINE q == k - 1
    <3>1. w = Tail(l) /\ w1 = Tail(l1)
      BY <2>2 DEF w, w1, l, l1
    <3>2. Len(w) = n - 1 /\ \A i \in 1 .. n - 1 : w[i] = l[i + 1]
      <4>1. Len(l) = n /\ Len(l) >= 2 /\ l \in Seq(Objects)
        BY <1>4, <1>8 DEF n, l
      <4>2. QED
        BY <3>1, <4>1, TailIs
    <3>3. w1 \in Seq(Objects) /\ Len(w1) = n - 2 /\ \A i \in 1 .. n - 2 : w1[i] = l1[i + 1]
      <4>1. Len(l1) >= 2 /\ Len(l1) - 1 = n - 2
        BY <1>4, <1>8, <1>11
      <4>2. QED
        BY <1>11, <3>1, <4>1, TailIs
    <3>4. q \in 2 .. n - 1 /\ q + 1 = k /\ q \in 1 .. n - 1
      BY <1>4, <1>8
    <3> HIDE DEF q
    <3>5. w[q] = o
      BY <1>5, <3>2, <3>4 DEF l
    <3>6. ASSUME NEW i \in 1 .. n - 2 PROVE w1[i] = IF i < q THEN w[i] ELSE w[i + 1]
      <4>1. /\ i \in 1 .. n - 1 /\ i + 1 \in 1 .. n - 1 /\ (i < q <=> i + 1 < k)
        BY <1>4, <1>8, <3>4
      <4>2. w1[i] = IF i + 1 < k THEN l[i + 1] ELSE l[(i + 1) + 1]
        BY <1>11, <3>3, <4>1
      <4>3. QED
        BY <3>2, <4>1, <4>2
    <3>7. w1[Len(w1)] = l1[n - 1]
      <4>1. n - 2 \in 1 .. n - 2 /\ (n - 2) + 1 = n - 1
        BY <1>4, <1>8
      <4>2. QED
        BY <3>3, <4>1
    <3>8. Len(w) - 1 = n - 2
      BY <1>4, <3>2
    <3>9. QED
      BY <3>2, <3>3, <3>4, <3>5, <3>6, <3>7, <3>8
  <2>3. QED
    BY <2>1, <2>2
<1>17. /\ w1[1] = rMap' /\ prev'[w1[1]] = Null /\ next'[w1[Len(w1)]] = Null
       /\ \A i \in 1 .. Len(w1) - 1 :
             next'[w1[i]] = w1[i + 1] /\ prev'[w1[i + 1]] = w1[i]
       /\ tail' = w1[Len(w1)] /\ map' = Rtld
       /\ next' \in [Objects -> Objects \cup {Null}]
       /\ prev' \in [Objects -> Objects \cup {Null}]
       /\ tail' \in Objects \cup {Null}
  <2>1. next[w[Len(w)]] = Null
    BY <1>a DEF IsWalk
  <2>2. QED
    BY <1>1, <1>3, <1>a, <1>15, <1>16, <2>1, WalkShrinks
<1>18. Seen' = w1
  BY <1>1, <1>3 DEF Seen, Lost, Alone, w1
<1>19. IsWalk(Seen)'
  BY <1>17, <1>18 DEF IsWalk
<1>20. tail' = l1[Len(l1)]
  BY <1>11, <1>16, <1>17
<1>27. later' = {l1[i] : i \in Len(s) + 1 .. Len(l1)}
  <2>1. ASSUME NEW i \in Len(s) + 1 .. Len(l1) PROVE l1[i] \in later \ {o}
    <3>1. /\ i \in 1 .. n - 1 /\ i \in Len(s) + 1 .. n /\ i + 1 \in Len(s) + 1 .. n
          /\ i \in 1 .. n /\ i + 1 \in 1 .. n
      BY <1>4, <1>7, <1>11
    <3>2. l[i] \in later /\ l[i + 1] \in later
      BY <1>3, <3>1 DEF l, n
    <3>3. \A x, y \in 1 .. n : l[x] = l[y] => x = y
      BY <1>3, <1>4, LenProperties DEF IsInjective, l, n
    <3>4. i < k => l[i] # o
      <4>1. i < k => i # k
        BY <3>1, <1>8
      <4>2. QED
        BY <1>5, <1>8, <3>1, <3>3, <4>1 DEF l
    <3>5. ~ (i < k) => l[i + 1] # o
      <4>1. ~ (i < k) => i + 1 # k
        BY <3>1, <1>8
      <4>2. QED
        BY <1>5, <1>8, <3>1, <3>3, <4>1 DEF l
    <3>6. QED
      BY <1>11, <3>1, <3>2, <3>4, <3>5
  <2>2. ASSUME NEW x \in later \ {o} PROVE \E i \in Len(s) + 1 .. Len(l1) : x = l1[i]
    <3>1. PICK j \in Len(s) + 1 .. n : x = l[j]
      BY <1>3 DEF l, n
    <3>2. j # k
      BY <1>5, <3>1 DEF l
    <3>3. CASE j < k
      <4>1. j \in 1 .. n - 1 /\ j \in Len(s) + 1 .. Len(l1)
        BY <1>4, <1>7, <1>8, <1>11, <3>3
      <4>2. l1[j] = x
        BY <1>11, <3>1, <3>3, <4>1
      <4>3. QED
        BY <4>1, <4>2
    <3>4. CASE j > k
      <4>1. /\ j - 1 \in 1 .. n - 1 /\ j - 1 \in Len(s) + 1 .. Len(l1)
            /\ ~ (j - 1 < k) /\ (j - 1) + 1 = j
        BY <1>4, <1>5, <1>7, <1>8, <1>11, <3>4
      <4>2. l1[j - 1] = x
        BY <1>11, <3>1, <4>1
      <4>3. QED
        BY <4>1, <4>2
    <3>5. QED
      BY <1>7, <1>8, <3>2, <3>3, <3>4
  <2>3. QED
    BY <1>1, <2>1, <2>2
<1>28. Len(s) \in 2 .. Len(l1) /\ \A i \in DOMAIN s : s[i] = WalkOrder'[i]
  <2>1. Len(s) \in 2 .. Len(l1) /\ \A i \in 1 .. Len(s) : i \in 1 .. n - 1 /\ i < k
    BY <1>4, <1>5, <1>7, <1>8, <1>11
  <2>2. DOMAIN s = 1 .. Len(s)
    BY <1>4, LenProperties DEF s
  <2>3. QED
    BY <1>3, <1>14, <2>1, <2>2 DEF s
<1>29. WiredInv'
  BY <1>1, <1>3, <1>11, <1>17, <1>19, <1>20, <1>27, <1>28 DEF WiredInv, l1, s
<1>30. map' \in Objects \cup {Null}
  BY <1>17, ObjectsAssumption DEF Objects
<1>31. QED
  BY <1>11, <1>17, <1>29, <1>30 DEF l1

\* dlclose.
LEMMA DlcloseStep ==
  ASSUME Inv, NEW o \in Objects, Dlclose(o)
  PROVE  Inv'
<1>1. /\ pc \in {"init", "running", "fini"} /\ later' = later \ {o} /\ pc' = pc
      /\ UNCHANGED <<proc, why, fds, fd, group, scan, pub, inited, finalized, startupRoot,
                     extended>>
  BY DEF Dlclose
<1>2. /\ WiredInv'
      /\ next' \in [Objects -> Objects \cup {Null}]
      /\ prev' \in [Objects -> Objects \cup {Null}]
      /\ map' \in Objects \cup {Null} /\ tail' \in Objects \cup {Null}
      /\ loadOrder' \in Seq(Objects)
  BY DlcloseWired
<1> USE DEF Inv
<1>3. TypeOK'
  BY <1>1, <1>2, ZenonT(60) DEF TypeOK, pub
<1>4. UnlinkedInv' /\ MappingInv' /\ RollbackInv'
  BY <1>1 DEF UnlinkedInv, Unlinked, MappingInv, Mapping, RollbackInv
<1>5. GroupInv'
  BY <1>1 DEF GroupInv, Mapping, Wired, pub
<1>6. TablesInv' /\ FdsInv' /\ OrderInv' /\ SecureDescriptors'
  BY <1>1 DEF TablesInv, FdsInv, OrderInv, SecureDescriptors, pub, Wired, Mapping
<1>7. FiniInv'
  BY <1>1, KeepFini
<1>8. QED
  BY <1>2, <1>3, <1>4, <1>5, <1>6, <1>7

-----------------------------------------------------------------------------
(* The theorems.                                                           *)

\* Every step of a startup, of the program and of its end keeps Inv: what is known of
\* the group, the list, the tables and the descriptors at each place of rtld_bootstrap.
THEOREM StartupInvariant == Spec => []Inv
<1>1. Init => Inv
  BY InitInv
<1>2. Inv /\ [Next]_vars => Inv'
  <2> SUFFICES ASSUME Inv, [Next]_vars PROVE Inv'
    OBVIOUS
  <2>1. CASE Bootstrap
    BY <2>1, BootstrapStep
  <2>2. CASE CheckStandardFd
    BY <2>2, CheckStandardFdStep
  <2>3. CASE RegisterRtld
    BY <2>3, RegisterRtldStep
  <2>4. CASE MapMain
    BY <2>4, MapMainStep
  <2>5. CASE ClearRtldLinks
    BY <2>5, ClearRtldLinksStep
  <2>6. CASE MapDependency
    BY <2>6, MapDependencyStep
  <2>7. CASE LinkFails
    BY <2>7, LinkFailsStep
  <2>8. CASE Publish
    BY <2>8, PublishStep
  <2>9. CASE PublishLoadedGlobals
    BY <2>9, PublishLoadedGlobalsStep
  <2>10. CASE PublishLayout
    BY <2>10, PublishLayoutStep
  <2>11. CASE EarlyInit
    BY <2>11, EarlyInitStep
  <2>12. CASE EnterProgram
    BY <2>12, EnterProgramStep
  <2>13. CASE RollbackEnds
    BY <2>13, RollbackEndsStep
  <2>14. CASE FinalizeStartup
    BY <2>14, FinalizeStartupStep
  <2>15. CASE RunFini
    BY <2>15, RunFiniStep
  <2>16. CASE Ended \/ UNCHANGED vars
    BY <2>16, StutterStep DEF Ended
  <2>17. CASE \E o \in Objects : RunInit(o) \/ RollbackDrop(o) \/ Dlopen(o) \/ Dlclose(o)
    BY <2>17, RunInitStep, RollbackDropStep, DlopenStep, DlcloseStep
  <2>18. QED
    BY <2>1, <2>2, <2>3, <2>4, <2>5, <2>6, <2>7, <2>8, <2>9, <2>10, <2>11, <2>12,
       <2>13, <2>14, <2>15, <2>16, <2>17 DEF Next, LinkAndRun
<1>3. QED
  BY <1>1, <1>2, PTL DEF Spec

\* A debugger that walks from _r_debug.r_map meets every committed module once, also
\* after dlopen and dlclose: link_loaded_objects and the end that add_debug_link_map
\* had cached agree for every program that needs another module than the loader; for
\* the others a walk meets all but the loader once something was opened.
THEOREM StartupDebuggerSeesAll == Spec => []DebuggerSeesAll
<1>1. Inv => DebuggerSeesAll
  <2> SUFFICES ASSUME Inv, pc \in {"init", "running", "fini", "done"}
               PROVE  Len(loadOrder) >= 2 /\ IsInjective(loadOrder) /\ IsWalk(Seen)
    BY DEF DebuggerSeesAll
  <2>1. pc \in Wired
    BY DEF Wired
  <2>2. Len(loadOrder) >= 2
    BY <2>1, WiredMembers DEF Inv
  <2>3. QED
    BY <2>1, <2>2 DEF Inv, WiredInv
<1>2. QED
  BY <1>1, StartupInvariant, PTL

\* Drop for ExtraData only writes to link maps that are in memory, in whatever order a
\* failed startup drops its modules and wherever it failed.
THEOREM StartupDropsAreSafe == Spec => []DropsAreSafe
<1>1. Inv => DropsAreSafe
  <2> SUFFICES ASSUME Inv, pc = "rollback", NEW o \in Range(group) \ {Rtld}, ~NotListed(o)
               PROVE  (map # o => prev[o] \in Live) /\ (tail # o => next[o] \in Live)
    BY DEF DropsAreSafe
  <2>1. map = Rtld /\ DoublyLinked(Listed) /\ Rtld \in Live
    <3>1. ~ (Alone /\ prev[Prog] = Null)
      BY DEF Inv, RollbackInv, Alone, NotListed
    <3>2. QED
      BY <3>1 DEF Inv, RollbackInv, Live
  <2>2. o \in Listed
    BY <2>1 DEF Listed, NotListed, Live
  <2>3. QED
    BY <2>1, <2>2 DEF DoublyLinked, Listed
<1>2. QED
  BY <1>1, StartupInvariant, PTL

\* Constructors and the early initialization of the C library find the TLS layout, the
\* list and the tables of glibc complete and in agreement, but for a loader that is
\* lost, and constructors find the C library initialized.
THEOREM StartupReadyForConstructors == Spec => []ReadyForConstructors
<1>1. Inv => ReadyForConstructors
  <2> SUFFICES ASSUME Inv PROVE ReadyForConstructors
    OBVIOUS
  <2> USE DEF Inv
  <2>1. inited # <<>> /\ Libc \in Range(group) => early
    BY DEF TablesInv
  <2>2. ASSUME early \/ inited # <<>>, pc \notin {"rollback", "exit"}
        PROVE  Range(group) \cup {Rtld} \subseteq tlsModules /\ rMap = Prog /\ TablesAgree
    <3>1. pc \in {"init", "running", "fini", "done"}
      BY <2>2 DEF GroupInv
    <3>2. pc \in Wired /\ pc \in Wired \ {"layout"}
      BY <3>1 DEF Wired
    <3>3. /\ Range(group) \cup {Rtld} \subseteq tlsModules
          /\ glibc.aux /\ glibc.loaded = Prog /\ glibc.nloaded = Len(glibc.searchlist)
          /\ Libc \in Range(group) => glibc.libc = Libc
      BY <3>1, <3>2 DEF TablesInv
    <3> DEFINE s == glibc.searchlist
               n == Len(loadOrder)
    <3>4. /\ rMap = Prog /\ Range(s) = Range(group) \cup {Rtld} /\ s[1] = Prog
          /\ Lost \/ IsWalk(WalkOrder)
          /\ \A i \in DOMAIN s : s[i] = WalkOrder[i]
      BY <3>2 DEF WiredInv, Seen
    <3>5. n \in Nat /\ n >= 2 /\ Len(s) \in 2 .. n /\ s \in Seq(Objects)
      BY <3>2, WiredMembers DEF TypeOK
    <3>6. Len(WalkOrder) = n
      BY <3>5, WalkOrderIs DEF TypeOK
    <3>7. ~Lost => \A i \in 1 .. n - 1 : next[WalkOrder[i]] = WalkOrder[i + 1]
      BY <3>4, <3>6 DEF IsWalk
    <3>8. DOMAIN s = 1 .. Len(s)
      BY <3>5, LenProperties
    <3> HIDE DEF s, n
    <3>9. ASSUME ~Lost, NEW i \in 1 .. Len(s) - 1 PROVE next[s[i]] = s[i + 1]
      <4>1. i \in DOMAIN s /\ i + 1 \in DOMAIN s /\ i \in 1 .. n - 1
        BY <3>5, <3>8
      <4>2. QED
        BY <3>4, <3>7, <3>9, <4>1
    <3>10. QED
      BY <3>3, <3>4, <3>9 DEF TablesAgree, s
  <2>3. QED
    BY <2>1, <2>2 DEF ReadyForConstructors
<1>2. QED
  BY <1>1, StartupInvariant, PTL

\* A secure process has descriptors 0, 1 and 2 open before it maps a file, and
\* check_standard_fd never gets another descriptor than the one it opens.
THEOREM StartupSecureDescriptors == Spec => []SecureDescriptors
<1>1. Inv => SecureDescriptors
  BY DEF Inv
<1>2. QED
  BY <1>1, StartupInvariant, PTL

\* The destructors of all the program's modules run, once each, after all the
\* constructors, the program's first and those of another module after a module that
\* needs it; and the state is well typed.
THEOREM StartupFiniMatchesInit == Spec => []FiniMatchesInit
<1>1. Inv => FiniMatchesInit
  <2> SUFFICES ASSUME Inv PROVE FiniMatchesInit
    OBVIOUS
  <2> USE DEF Inv
  <2>1. TypeOK
    OBVIOUS
  <2>2. CASE pc \notin {"fini", "done"}
    <3>1. finalized = <<>>
      BY <2>2 DEF FiniInv
    <3>2. IsInjective(finalized)
      BY <3>1 DEF IsInjective
    <3>3. QED
      BY <2>1, <2>2, <3>1, <3>2 DEF FiniMatchesInit
  <2>3. CASE pc \in {"fini", "done"}
    <3> DEFINE f == FiniScope
               z == finalized
    <3>1. /\ group \in Seq(Objects) /\ IsInjective(group) /\ group # <<>> /\ group[1] = Prog
      BY <2>3 DEF TypeOK, GroupInv, Wired
    <3>2. f \in Seq(Objects) /\ IsInjective(f) /\ Range(f) = Range(group) /\ f[1] = Prog
      BY <3>1 DEF FiniScope
    <3>3. /\ z \in Seq(Objects) /\ DOMAIN z = 1 .. Len(z) /\ DOMAIN f = 1 .. Len(f)
          /\ Len(z) \in Nat /\ Len(f) \in Nat
      BY <3>2, LenProperties DEF TypeOK
    <3>4. /\ Range(group) \ {Rtld} = Range(inited)
          /\ \A i \in DOMAIN z : z[i] = f[i]
          /\ Len(z) <= Len(f) /\ (pc = "done" => Len(z) = Len(f))
      <4>1. IF pc = "done" THEN Len(z) = Len(f) ELSE Len(z) < Len(f)
        BY <2>3 DEF FiniInv
      <4> DEFINE a == Len(z)
                 b == Len(f)
      <4>2. a \in Nat /\ b \in Nat /\ (a = b \/ a < b)
        BY <3>3, <4>1
      <4> HIDE DEF a, b, z, f
      <4>3. a <= b
        BY <4>2
      <4>4. Len(z) <= Len(f) /\ (pc = "done" => Len(z) = Len(f))
        BY <4>1, <4>3 DEF a, b
      <4>5. QED
        BY <2>3, <4>4 DEF FiniInv, f, z
    <3> HIDE DEF f, z
    <3>5. DOMAIN z \subseteq DOMAIN f
      <4>1. \A a, b \in Nat : a <= b => 1 .. a \subseteq 1 .. b
        OBVIOUS
      <4>2. 1 .. Len(z) \subseteq 1 .. Len(f)
        BY <3>3, <3>4, <4>1
      <4>3. QED
        BY <3>3, <4>2, Zenon
    <3>6. IsInjective(z)
      BY <3>2, <3>4, <3>5 DEF IsInjective
    <3>7. pc = "done" => z = f
      BY <3>2, <3>3, <3>4, SeqEqual
    <3>8. z # <<>> => z[1] = Prog
      <4>1. z # <<>> => 1 \in DOMAIN z
        BY <3>3, EmptySeq
      <4>2. QED
        BY <3>2, <3>4, <4>1
    <3>9. \A i \in 2 .. Len(f) : \E j \in 1 .. i - 1 : f[i] \in Range(proc.needed[f[j]])
      BY <2>3 DEF OrderInv, Wired, FiniScope, f
    <3>10. ASSUME NEW i \in 2 .. Len(z)
           PROVE  \E j \in 1 .. i - 1 : z[i] \in Range(proc.needed[z[j]])
      <4>1. i \in 2 .. Len(f) /\ i \in DOMAIN z
        <5> DEFINE a == Len(z)
                   b == Len(f)
        <5>1. a \in Nat /\ b \in Nat /\ a <= b /\ i \in 2 .. a
          BY <3>3, <3>4
        <5> HIDE DEF a, b
        <5>2. i \in 2 .. b /\ i \in 1 .. a
          BY <5>1
        <5>3. QED
          BY <3>3, <5>2 DEF a, b
      <4>2. PICK j \in 1 .. i - 1 : f[i] \in Range(proc.needed[f[j]])
        BY <3>9, <4>1
      <4>3. j \in DOMAIN z
        BY <3>3
      <4>4. QED
        BY <3>4, <4>1, <4>2, <4>3
    <3>11. pc = "done" => Range(z) \ {Rtld} = Range(inited)
      BY <3>2, <3>4, <3>7
    <3>12. QED
      BY <2>1, <3>4, <3>6, <3>8, <3>10, <3>11 DEF FiniMatchesInit, z
  <2>4. QED
    BY <2>2, <2>3
<1>2. QED
  BY <1>1, StartupInvariant, PTL

-----------------------------------------------------------------------------
(* ld.so run as a command.                                                 *)

\* Everything that is ever on the stack.
Word == Nat \cup STRING \cup {Zero} \cup {NewAux[k] : k \in Patched}

\* The word at the place j behind the arguments of a stack.
Behind(env, aux, j) ==
    IF j = 1 THEN Zero
    ELSE IF j <= Len(env) + 1 THEN env[j - 1]
    ELSE IF j = Len(env) + 2 THEN Zero
    ELSE IF j <= Len(env) + 2 * Len(aux) + 2 THEN PairWords(aux)[j - Len(env) - 2]
    ELSE Zero

\* The word at the place k of a stack.
At(args, env, aux, k) ==
    IF k = 1 THEN Len(args)
    ELSE IF k <= Len(args) + 1 THEN args[k - 1]
    ELSE Behind(env, aux, k - Len(args) - 1)

Size(args, env, aux) == Len(args) + Len(env) + 2 * Len(aux) + 5

\* The sequence u of elements of W is s, which has m elements, and then t, which has n.
Joins(W, s, t, m, n, u) ==
    /\ u \in Seq(W)
    /\ m \in Nat /\ n \in Nat
    /\ Len(u) = m + n
    /\ \A k \in 1 .. m : u[k] = s[k]
    /\ \A k \in 1 .. n : u[m + k] = t[k]

\* The words of a concatenation are those of its parts.
LEMMA Concatenated ==
    ASSUME NEW W, NEW s \in Seq(W), NEW t \in Seq(W), NEW m, NEW n, Len(s) = m, Len(t) = n
    PROVE  Joins(W, s, t, m, n, s \o t)
<1>1. /\ s \o t \in Seq(W)
      /\ Len(s \o t) = m + n
      /\ m \in Nat /\ n \in Nat
      /\ \A k \in 1 .. m + n : (s \o t)[k] = IF k <= m THEN s[k] ELSE t[k - m]
  BY ConcatProperties, LenProperties
<1>2. /\ \A k \in 1 .. m : k \in 1 .. m + n /\ k <= m
      /\ \A k \in 1 .. n : m + k \in 1 .. m + n /\ ~ (m + k <= m) /\ (m + k) - m = k
  BY <1>1
<1>3. QED
  BY <1>1, <1>2 DEF Joins

\* A function on the first numbers is a sequence.
LEMMA FunctionIsSeq ==
    ASSUME NEW W, NEW n \in Nat, NEW f \in [1 .. n -> W]
    PROVE  f \in Seq(W) /\ Len(f) = n
OBVIOUS

\* The words of an auxiliary vector are its kinds and values in turn.
LEMMA PairWordsAre ==
    ASSUME NEW W, NEW aux \in Seq(W \X W)
    PROVE  /\ PairWords(aux) \in Seq(W)
           /\ Len(PairWords(aux)) = 2 * Len(aux)
           /\ \A i \in 1 .. Len(aux) :
                /\ PairWords(aux)[2 * i - 1] = aux[i][1]
                /\ PairWords(aux)[2 * i] = aux[i][2]
<1> DEFINE n == Len(aux)
<1>1. n \in Nat /\ \A i \in 1 .. n : aux[i][1] \in W /\ aux[i][2] \in W
  BY LenProperties, ElementOfSeq
<1>2. \A k \in 1 .. 2 * n : IF k % 2 = 1 THEN (k + 1) \div 2 \in 1 .. n ELSE k \div 2 \in 1 .. n
  BY <1>1
<1>3. \A i \in 1 .. n : /\ 2 * i - 1 \in 1 .. 2 * n /\ 2 * i \in 1 .. 2 * n
                        /\ (2 * i - 1) % 2 = 1 /\ (2 * i) % 2 = 0
                        /\ (2 * i - 1 + 1) \div 2 = i /\ (2 * i) \div 2 = i
  BY <1>1
<1>4. \A k \in 1 .. 2 * n : PairWords(aux)[k] \in W
  BY <1>1, <1>2 DEF PairWords
<1>5. PairWords(aux) \in [1 .. 2 * n -> W] /\ 2 * n \in Nat
  BY <1>1, <1>4 DEF PairWords
<1>6. PairWords(aux) \in Seq(W) /\ Len(PairWords(aux)) = 2 * n
  BY <1>5, FunctionIsSeq, Zenon
<1>7. \A i \in 1 .. n : /\ PairWords(aux)[2 * i - 1] = aux[i][1]
                        /\ PairWords(aux)[2 * i] = aux[i][2]
  BY <1>1, <1>3 DEF PairWords
<1>8. QED
  BY <1>6, <1>7

\* The sequence s of elements of W is front, env and pairs, of f, e and p elements,
\* with a null word behind the first and the second and two at the end.
Composition(W, front, env, pairs, f, e, p, s) ==
    /\ s \in Seq(W)
    /\ f \in Nat /\ e \in Nat /\ p \in Nat
    /\ Len(s) = f + e + p + 4
    /\ \A k \in 1 .. f : s[k] = front[k]
    /\ s[f + 1] = Zero
    /\ \A k \in 1 .. e : s[f + 1 + k] = env[k]
    /\ s[f + e + 2] = Zero
    /\ \A k \in 1 .. p : s[f + e + 2 + k] = pairs[k]
    /\ s[f + e + p + 3] = Zero /\ s[f + e + p + 4] = Zero

\* Sequences put together as on the initial stack.
LEMMA Composed ==
    ASSUME NEW W, Zero \in W, NEW front \in Seq(W), NEW env \in Seq(W), NEW pairs \in Seq(W),
           NEW f, Len(front) = f, NEW e, Len(env) = e, NEW p, Len(pairs) = p
    PROVE  Composition(W, front, env, pairs, f, e, p,
                       front \o <<Zero>> \o env \o <<Zero>> \o pairs \o <<Zero, Zero>>)
<1> DEFINE one == <<Zero>>
           two == <<Zero, Zero>>
           s1 == front \o one
           s2 == s1 \o env
           s3 == s2 \o one
           s4 == s3 \o pairs
           s5 == s4 \o two
<1>1. /\ one \in Seq(W) /\ Len(one) = 1 /\ one[1] = Zero
      /\ two \in Seq(W) /\ Len(two) = 2 /\ two[1] = Zero /\ two[2] = Zero
  OBVIOUS
<1> HIDE DEF one, two
<1>2. /\ s1 \in Seq(W) /\ f \in Nat /\ Len(s1) = f + 1
      /\ \A k \in 1 .. f : s1[k] = front[k]
      /\ \A k \in 1 .. 1 : s1[f + k] = one[k]
  <2>1. Joins(W, front, one, f, 1, s1)
    BY <1>1, Concatenated, Zenon
  <2> HIDE DEF s1
  <2>2. QED
    BY <2>1 DEF Joins
<1> HIDE DEF s1
<1>3. /\ s2 \in Seq(W) /\ e \in Nat /\ Len(s2) = f + 1 + e
      /\ \A k \in 1 .. f + 1 : s2[k] = s1[k]
      /\ \A k \in 1 .. e : s2[f + 1 + k] = env[k]
  <2>1. Joins(W, s1, env, f + 1, e, s2)
    BY <1>2, Concatenated, Zenon
  <2> HIDE DEF s2
  <2>2. QED
    BY <2>1 DEF Joins
<1> HIDE DEF s2
<1>4. /\ s3 \in Seq(W) /\ Len(s3) = f + 1 + e + 1
      /\ \A k \in 1 .. f + 1 + e : s3[k] = s2[k]
      /\ \A k \in 1 .. 1 : s3[f + 1 + e + k] = one[k]
  <2>1. Joins(W, s2, one, f + 1 + e, 1, s3)
    BY <1>1, <1>3, Concatenated, Zenon
  <2> HIDE DEF s3
  <2>2. QED
    BY <2>1 DEF Joins
<1> HIDE DEF s3
<1>5. /\ s4 \in Seq(W) /\ p \in Nat /\ Len(s4) = f + 1 + e + 1 + p
      /\ \A k \in 1 .. f + 1 + e + 1 : s4[k] = s3[k]
      /\ \A k \in 1 .. p : s4[f + 1 + e + 1 + k] = pairs[k]
  <2>1. Joins(W, s3, pairs, f + 1 + e + 1, p, s4)
    BY <1>4, Concatenated, Zenon
  <2> HIDE DEF s4
  <2>2. QED
    BY <2>1 DEF Joins
<1> HIDE DEF s4
<1>6. /\ s5 \in Seq(W) /\ Len(s5) = f + 1 + e + 1 + p + 2
      /\ \A k \in 1 .. f + 1 + e + 1 + p : s5[k] = s4[k]
      /\ \A k \in 1 .. 2 : s5[f + 1 + e + 1 + p + k] = two[k]
  <2>1. Joins(W, s4, two, f + 1 + e + 1 + p, 2, s5)
    BY <1>1, <1>5, Concatenated, Zenon
  <2> HIDE DEF s5
  <2>2. QED
    BY <2>1 DEF Joins
<1> HIDE DEF s5
<1>7. Len(s5) = f + e + p + 4
  BY <1>2, <1>3, <1>5, <1>6
<1>8. \A k \in 1 .. f : s5[k] = front[k]
  <2> TAKE k \in 1 .. f
  <2>1. k \in 1 .. f + 1 /\ k \in 1 .. f + 1 + e /\ k \in 1 .. f + 1 + e + 1
        /\ k \in 1 .. f + 1 + e + 1 + p
    <3>1. f \in Nat /\ e \in Nat /\ p \in Nat
      BY <1>2, <1>3, <1>5
    <3>2. QED
      BY <3>1
  <2>2. s3[k] = front[k]
    BY <1>2, <1>3, <1>4, <2>1
  <2>3. s4[k] = s3[k] /\ s5[k] = s4[k]
    BY <1>5, <1>6, <2>1
  <2>4. QED
    BY <2>2, <2>3
<1>9. s5[f + 1] = Zero
  <2>1. f + 1 \in 1 .. f + 1 /\ f + 1 \in 1 .. f + 1 + e /\ f + 1 \in 1 .. f + 1 + e + 1
        /\ f + 1 \in 1 .. f + 1 + e + 1 + p
    BY <1>2, <1>3, <1>5
  <2>2. s1[f + 1] = Zero
    BY <1>1, <1>2
  <2>3. s3[f + 1] = Zero
    BY <1>3, <1>4, <2>1, <2>2
  <2>4. s4[f + 1] = s3[f + 1] /\ s5[f + 1] = s4[f + 1]
    BY <1>5, <1>6, <2>1
  <2>5. QED
    BY <2>3, <2>4
<1>10. \A k \in 1 .. e : s5[f + 1 + k] = env[k]
  <2> TAKE k \in 1 .. e
  <2>1. f + 1 + k \in 1 .. f + 1 + e /\ f + 1 + k \in 1 .. f + 1 + e + 1
        /\ f + 1 + k \in 1 .. f + 1 + e + 1 + p
    BY <1>2, <1>3, <1>5
  <2>2. s3[f + 1 + k] = env[k]
    BY <1>3, <1>4, <2>1
  <2>3. s4[f + 1 + k] = s3[f + 1 + k]
    BY <1>5, <2>1
  <2>4. s5[f + 1 + k] = s4[f + 1 + k]
    BY <1>6, <2>1
  <2>5. QED
    BY <2>2, <2>3, <2>4
<1>11. s5[f + e + 2] = Zero
  <2>1. /\ f + e + 2 = f + 1 + e + 1
        /\ f + 1 + e + 1 \in 1 .. f + 1 + e + 1 /\ f + 1 + e + 1 \in 1 .. f + 1 + e + 1 + p
    BY <1>2, <1>3, <1>5
  <2>2. s3[f + 1 + e + 1] = Zero
    BY <1>1, <1>4
  <2>3. QED
    BY <1>5, <1>6, <2>1, <2>2
<1>12. \A k \in 1 .. p : s5[f + e + 2 + k] = pairs[k]
  <2> TAKE k \in 1 .. p
  <2>1. f + e + 2 + k = f + 1 + e + 1 + k /\ f + 1 + e + 1 + k \in 1 .. f + 1 + e + 1 + p
    BY <1>2, <1>3, <1>5
  <2>2. QED
    BY <1>5, <1>6, <2>1
<1>13. s5[f + e + p + 3] = Zero /\ s5[f + e + p + 4] = Zero
  <2>1. f + e + p + 3 = f + 1 + e + 1 + p + 1 /\ f + e + p + 4 = f + 1 + e + 1 + p + 2
    BY <1>2, <1>3, <1>5
  <2>2. s5[f + 1 + e + 1 + p + 1] = two[1] /\ s5[f + 1 + e + 1 + p + 2] = two[2]
    BY <1>6
  <2>3. QED
    BY <1>1, <2>1, <2>2
<1>14. s5 = front \o <<Zero>> \o env \o <<Zero>> \o pairs \o <<Zero, Zero>>
  BY DEF s5, s4, s3, s2, s1, one, two
<1>15. Composition(W, front, env, pairs, f, e, p, s5)
  BY <1>2, <1>3, <1>5, <1>6, <1>7, <1>8, <1>9, <1>10, <1>11, <1>12, <1>13, Zenon DEF Composition
<1>16. QED
  BY <1>14, <1>15, Zenon

\* The words s are a stack.
IsLayout(W, args, env, aux, s) ==
    /\ s \in Seq(W)
    /\ Len(s) = Size(args, env, aux)
    /\ \A k \in 1 .. Size(args, env, aux) : s[k] = At(args, env, aux, k)

\* The stack that the kernel builds, word by word.
LEMMA LayoutIs ==
    ASSUME NEW W, Zero \in W, Nat \subseteq W,
           NEW args \in Seq(W), NEW env \in Seq(W), NEW aux \in Seq(W \X W)
    PROVE  IsLayout(W, args, env, aux, Layout(args, env, aux))
<1> DEFINE pairs == PairWords(aux)
           one == <<Len(args)>>
           front == one \o args
           s == front \o <<Zero>> \o env \o <<Zero>> \o pairs \o <<Zero, Zero>>
           a == Len(args)
           e == Len(env)
           x == Len(aux)
<1>1. pairs \in Seq(W) /\ Len(pairs) = 2 * x
  BY PairWordsAre
<1>2. a \in Nat /\ e \in Nat /\ x \in Nat
  BY LenProperties
<1>3. one \in Seq(W) /\ Len(one) = 1 /\ one[1] = a
  BY <1>2
<1>4. s = Layout(args, env, aux)
  BY Zenon DEF Layout
<1>5. /\ front \in Seq(W) /\ Len(front) = 1 + a
      /\ \A k \in 1 .. 1 : front[k] = one[k]
      /\ \A k \in 1 .. a : front[1 + k] = args[k]
  <2> HIDE DEF one
  <2>1. Joins(W, one, args, 1, a, front)
    BY <1>3, Concatenated, Zenon
  <2> HIDE DEF front
  <2>2. QED
    BY <2>1 DEF Joins
<1> HIDE DEF pairs, front, one
<1>6. /\ s \in Seq(W)
      /\ Len(s) = (1 + a) + e + 2 * x + 4
      /\ \A k \in 1 .. 1 + a : s[k] = front[k]
      /\ s[(1 + a) + 1] = Zero
      /\ \A k \in 1 .. e : s[(1 + a) + 1 + k] = env[k]
      /\ s[(1 + a) + e + 2] = Zero
      /\ \A k \in 1 .. 2 * x : s[(1 + a) + e + 2 + k] = pairs[k]
      /\ s[(1 + a) + e + 2 * x + 3] = Zero /\ s[(1 + a) + e + 2 * x + 4] = Zero
  <2>1. Composition(W, front, env, pairs, 1 + a, e, 2 * x, s)
    BY <1>1, <1>5, Composed, Zenon
  <2> HIDE DEF s
  <2>2. QED
    BY <2>1, Zenon DEF Composition
<1> HIDE DEF s
<1>7. s[1] = a /\ \A k \in 1 .. a : s[1 + k] = args[k]
  BY <1>2, <1>3, <1>5, <1>6
<1> DEFINE t == a + e + 2 * x + 5
<1>8. t = Size(args, env, aux) /\ Len(s) = t
  BY <1>2, <1>6 DEF Size
<1>9. ASSUME NEW k \in 1 .. t
      PROVE  s[k] = At(args, env, aux, k)
  <2> HIDE DEF a, e, x
  <2>0. /\ k = 1 \/ (k - 1 \in 1 .. a /\ k = 1 + (k - 1) /\ k # 1 /\ k <= a + 1)
           \/ (k - a - 1 \in 1 .. e + 2 * x + 4 /\ k # 1 /\ ~ (k <= a + 1))
    BY <1>2
  <2>1. CASE k = 1
    BY <1>7, <2>1 DEF At, a
  <2>2. CASE k - 1 \in 1 .. a /\ k = 1 + (k - 1) /\ k # 1 /\ k <= a + 1
    <3>1. s[k] = args[k - 1]
      BY <1>7, <2>2
    <3>2. QED
      BY <3>1, <2>2 DEF At, a
  <2>3. CASE k - a - 1 \in 1 .. e + 2 * x + 4 /\ k # 1 /\ ~ (k <= a + 1)
    <3> DEFINE j == k - a - 1
    <3>1. k = a + 1 + j /\ j \in 1 .. e + 2 * x + 4
      BY <1>2, <2>3
    <3>2. At(args, env, aux, k) = Behind(env, aux, j)
      BY <2>3 DEF At, a
    <3> HIDE DEF j
    <3>3. \/ j = 1 /\ k = (1 + a) + 1
          \/ /\ j # 1 /\ j <= e + 1 /\ j - 1 \in 1 .. e /\ k = (1 + a) + 1 + (j - 1)
          \/ /\ j # 1 /\ ~ (j <= e + 1) /\ j = e + 2 /\ k = (1 + a) + e + 2
          \/ /\ j # 1 /\ ~ (j <= e + 1) /\ j # e + 2 /\ j <= e + 2 * x + 2
             /\ j - e - 2 \in 1 .. 2 * x /\ k = (1 + a) + e + 2 + (j - e - 2)
          \/ /\ j # 1 /\ ~ (j <= e + 1) /\ j # e + 2 /\ ~ (j <= e + 2 * x + 2)
             /\ k \in {(1 + a) + e + 2 * x + 3, (1 + a) + e + 2 * x + 4}
      BY <1>2, <3>1
    <3>4. s[k] = Behind(env, aux, j)
      BY <1>6, <3>3 DEF Behind, e, x, pairs
    <3>5. QED
      BY <3>2, <3>4
  <2>4. QED
    BY <2>0, <2>1, <2>2, <2>3
<1>10. QED
  BY <1>4, <1>6, <1>8, <1>9 DEF IsLayout

\* Behind n arguments the stack has this environment and this auxiliary vector.
Follow(n, env, aux) ==
    /\ \A k \in 1 .. Len(env) : env[k] # Zero
    /\ \A k \in 1 .. Len(aux) : aux[k][1] # Zero
    /\ Len(mem) \in Nat /\ n + Len(env) + 2 * Len(aux) + 5 <= Len(mem)
    /\ \A j \in 1 .. Len(env) + 2 * Len(aux) + 4 : mem[n + 1 + j] = Behind(env, aux, j)

\* Then both are found.
LEMMA AuxFound ==
    ASSUME NEW n \in Nat, NEW W, NEW env \in Seq(W), NEW aux \in Seq(W \X W), Follow(n, env, aux)
    PROVE  AuxAt(n) = n + Len(env) + 3 /\ AuxCount(n + Len(env) + 3) = Len(aux)
<1> DEFINE e == Len(env)
           x == Len(aux)
           l == Len(mem)
<1>1. e \in Nat /\ x \in Nat /\ l \in Nat /\ n + e + 2 * x + 5 <= l
  BY LenProperties DEF Follow
<1>2. \A j \in 1 .. e + 2 * x + 4 :
         mem[n + 1 + j] = IF j = 1 THEN Zero
                          ELSE IF j <= e + 1 THEN env[j - 1]
                          ELSE IF j = e + 2 THEN Zero
                          ELSE IF j <= e + 2 * x + 2 THEN PairWords(aux)[j - e - 2]
                          ELSE Zero
  BY DEF Follow, Behind
<1>3. /\ \A k \in 1 .. e : env[k] # Zero
      /\ \A k \in 1 .. x : PairWords(aux)[2 * k - 1] # Zero
  BY PairWordsAre DEF Follow
<1> HIDE DEF e, x, l
<1>4. ZeroAt(n + 2) = n + 2 + e
  <2> DEFINE First(q) == word(q) = Zero /\ \A r \in n + 2 .. q - 1 : word(r) # Zero
  <2>1. n + 2 + e \in n + 2 .. l - 1
    BY <1>1
  <2>2. word(n + 2 + e) = Zero
    <3>1. /\ e + 2 \in 1 .. e + 2 * x + 4 /\ (n + 2 + e) + 1 = n + 1 + (e + 2)
          /\ e + 2 # 1 /\ ~ (e + 2 <= e + 1)
      BY <1>1
    <3>2. QED
      BY <1>2, <3>1 DEF word
  <2>3. ASSUME NEW r \in n + 2 .. (n + 2 + e) - 1
        PROVE  word(r) # Zero
    <3>0. r \in Int /\ n + 2 <= r /\ r <= n + 1 + e
      BY <1>1
    <3>1. /\ r - n \in 1 .. e + 2 * x + 4 /\ r + 1 = n + 1 + (r - n)
          /\ r - n # 1 /\ r - n <= e + 1 /\ r - n - 1 \in 1 .. e
      BY <1>1, <3>0
    <3>2. mem[n + 1 + (r - n)] = env[(r - n) - 1]
      BY <1>2, <3>1
    <3>3. QED
      BY <1>3, <3>1, <3>2 DEF word
  <2>4. ASSUME NEW q \in n + 2 .. l - 1, First(q)
        PROVE  q = n + 2 + e
    <3>1. CASE q < n + 2 + e
      BY <1>1, <2>3, <2>4, <3>1
    <3>2. CASE q > n + 2 + e
      BY <1>1, <2>2, <2>4, <3>2
    <3>3. QED
      BY <1>1, <3>1, <3>2
  <2>5. First(n + 2 + e)
    <3>1. \A r \in n + 2 .. (n + 2 + e) - 1 : word(r) # Zero
      BY <2>3
    <3>2. QED
      BY <2>2, <3>1
  <2>6. ZeroAt(n + 2) = CHOOSE q \in n + 2 .. l - 1 : First(q)
    BY DEF ZeroAt, l
  <2> HIDE DEF First
  <2>7. QED
    BY <2>1, <2>4, <2>5, <2>6
<1>5. AuxAt(n) = n + e + 3
  BY <1>1, <1>4 DEF AuxAt
<1>6. AuxCount(n + e + 3) = x
  <2> DEFINE b == n + e + 3
             Ends(m) == /\ b + 2 * m < l /\ word(b + 2 * m) = Zero
                        /\ \A i \in 0 .. m - 1 : word(b + 2 * i) # Zero
  <2>1. x \in 0 .. l /\ b + 2 * x < l
    BY <1>1
  <2>2. word(b + 2 * x) = Zero
    <3> DEFINE j == e + 2 * x + 3
    <3>1. /\ j \in 1 .. e + 2 * x + 4 /\ (b + 2 * x) + 1 = n + 1 + j
          /\ j # 1 /\ ~ (j <= e + 1) /\ j # e + 2 /\ ~ (j <= e + 2 * x + 2)
      BY <1>1
    <3> HIDE DEF j
    <3>2. QED
      BY <1>2, <3>1 DEF word
  <2>3. ASSUME NEW i \in 0 .. x - 1
        PROVE  word(b + 2 * i) # Zero
    <3> DEFINE j == e + 2 * i + 3
    <3>1. /\ j \in 1 .. e + 2 * x + 4 /\ (b + 2 * i) + 1 = n + 1 + j
          /\ j # 1 /\ ~ (j <= e + 1) /\ j # e + 2 /\ j <= e + 2 * x + 2
          /\ j - e - 2 = 2 * (i + 1) - 1 /\ i + 1 \in 1 .. x
      BY <1>1
    <3> HIDE DEF j
    <3>2. mem[n + 1 + j] = PairWords(aux)[2 * (i + 1) - 1]
      BY <1>2, <3>1
    <3>3. QED
      BY <1>3, <3>1, <3>2 DEF word
  <2>4. ASSUME NEW m \in 0 .. l, Ends(m)
        PROVE  m = x
    <3>1. CASE m < x
      BY <1>1, <2>3, <2>4, <3>1
    <3>2. CASE m > x
      BY <1>1, <2>2, <2>4, <3>2
    <3>3. QED
      BY <1>1, <3>1, <3>2
  <2>5. Ends(x)
    BY <2>1, <2>2, <2>3
  <2>6. AuxCount(b) = CHOOSE m \in 0 .. l : Ends(m)
    BY DEF AuxCount, l
  <2> HIDE DEF Ends
  <2>7. QED
    BY <2>1, <2>4, <2>5, <2>6
<1>7. QED
  BY <1>5, <1>6 DEF e, x

\* The arguments of the executable, ...
NewArgs ==
    LET rest == SubSeq(given.args, index + 1, Len(given.args))
    IN  IF argv0 = Zero THEN rest ELSE <<argv0>> \o Tail(rest)

\* ... and its auxiliary vector.
NewVector == [k \in DOMAIN given.aux |-> NewPair(given.aux[k], given.args[index + 1])]

\* The number of words the kernel put on the stack, and the one at the place k.
Total == Size(given.args, given.env, given.aux)

KernelAt(k) == At(given.args, given.env, given.aux, k)

GivenInv == given \in [args : ArgLists, env : Environments, aux : AuxVectors]

\* The variables have their types and the stack keeps its size.
WordsInv ==
    /\ stage \in {"options", "inspect", "shift", "load", "run", "exit"}
    /\ status \in {0, 1, 127}
    /\ index \in 1 .. Len(given.args)
    /\ argv0 \in Word
    /\ mem \in Seq(Word) /\ Len(mem) = Total
    /\ count \in 0 .. Total /\ moved \in 0 .. count

\* What is on the stack: what the kernel put there, with the words moved so far moved
\* by index places; then the stack of the executable, whose auxiliary vector is
\* replaced last.
MemInv ==
    /\ stage \in {"options", "inspect"} =>
         moved = 0 /\ \A k \in 1 .. Total : mem[k] = KernelAt(k)
    /\ stage \in {"shift", "load", "run"} => index < Len(given.args)
    /\ stage = "shift" =>
         /\ count = Total - 1 - index
         /\ \A k \in 1 .. Total :
              mem[k] = IF k \in 2 .. moved + 1 THEN KernelAt(k + index) ELSE KernelAt(k)
    /\ stage = "load" =>
         /\ process = [argc |-> Len(given.args) - index,
                       auxv |-> Len(given.args) - index + Len(given.env) + 3,
                       exec_path |-> given.args[index + 1]]
         /\ \A k \in 1 .. Total - index : mem[k] = At(NewArgs, given.env, given.aux, k)
    /\ stage = "run" =>
         /\ process.exec_path = given.args[index + 1]
         /\ \A k \in 1 .. Total - index : mem[k] = At(NewArgs, given.env, NewVector, k)

\* The words from the second to the one at `last` are options with their values.
Reads(args, last, value) ==
    \E starts \in SUBSET (2 .. last) :
        OptionsAt(args, starts, last) /\ Argv0At(args, starts, value)

OptionsRead == Reads(given.args, index, argv0)

OptionsInv ==
    /\ stage \in {"options", "shift", "load", "run"} => OptionsRead
    /\ stage \in {"shift", "load", "run"} => given.args[index + 1] \notin Options

DirectInv == GivenInv /\ WordsInv /\ MemInv /\ OptionsInv
-----------------------------------------------------------------------------
\* A sequence of elements of a set is one of elements of a larger set.
LEMMA Widened ==
    ASSUME NEW S, NEW T, S \subseteq T, NEW s \in Seq(S)
    PROVE  s \in Seq(T)
<1> DEFINE n == Len(s)
<1>1. n \in Nat /\ s \in [1 .. n -> S]
  BY LenProperties
<1> HIDE DEF n
<1>2. s \in [1 .. n -> T]
  BY <1>1
<1>3. QED
  BY <1>1, <1>2, FunctionIsSeq

\* What the kernel put on the stack are words, and only null words are null.
LEMMA GivenWords ==
    ASSUME GivenInv
    PROVE  /\ given.args \in Seq(Word) /\ given.args \in Seq(STRING) /\ Len(given.args) \in Nat
           /\ given.args # <<>>
           /\ given.env \in Seq(Word) /\ Len(given.env) \in Nat
           /\ given.aux \in Seq(Word \X Word) /\ Len(given.aux) \in Nat
           /\ \A k \in 1 .. Len(given.args) : given.args[k] # Zero
           /\ \A k \in 1 .. Len(given.env) : given.env[k] # Zero
           /\ \A k \in 1 .. Len(given.aux) : given.aux[k][1] # Zero
<1>1. given.args \in ArgLists /\ given.env \in Environments /\ given.aux \in AuxVectors
  BY DEF GivenInv
<1>2. /\ given.args \in Seq(STRING) /\ given.env \in Seq(STRING)
      /\ given.aux \in Seq(STRING \X (STRING \cup {Zero})) /\ given.args # <<>>
      /\ \A k \in DOMAIN given.args : given.args[k] # Zero
      /\ \A k \in DOMAIN given.env : given.env[k] # Zero
      /\ \A k \in DOMAIN given.aux : given.aux[k][1] # Zero
  BY <1>1, DirectAssumption
<1>3. STRING \subseteq Word /\ STRING \X (STRING \cup {Zero}) \subseteq Word \X Word
  BY DEF Word
<1>4. /\ given.args \in Seq(Word) /\ given.env \in Seq(Word)
      /\ given.aux \in Seq(Word \X Word)
  <2>1. given.args \in Seq(Word) /\ given.env \in Seq(Word)
    BY <1>2, <1>3, Widened, Zenon
  <2>2. given.aux \in Seq(Word \X Word)
    <3> DEFINE S == STRING \X (STRING \cup {Zero})
               T == Word \X Word
    <3>1. given.aux \in Seq(S) /\ S \subseteq T
      BY <1>2, <1>3
    <3> HIDE DEF S, T
    <3>2. given.aux \in Seq(T)
      BY <3>1, Widened, Zenon
    <3>3. QED
      BY <3>2 DEF T
  <2>3. QED
    BY <2>1, <2>2
<1>5. /\ Len(given.args) \in Nat /\ DOMAIN given.args = 1 .. Len(given.args)
      /\ Len(given.env) \in Nat /\ DOMAIN given.env = 1 .. Len(given.env)
      /\ Len(given.aux) \in Nat /\ DOMAIN given.aux = 1 .. Len(given.aux)
  BY <1>4, LenProperties
<1>6. QED
  BY <1>2, <1>4, <1>5

LEMMA WordFacts == Zero \in Word /\ Nat \subseteq Word
BY DEF Word

\* The numbers of words are natural numbers.
LEMMA Sizes ==
    ASSUME GivenInv
    PROVE  /\ Total = Len(given.args) + Len(given.env) + 2 * Len(given.aux) + 5
           /\ Len(given.args) \in Nat \ {0} /\ Len(given.env) \in Nat /\ Len(given.aux) \in Nat
           /\ Total \in Nat
<1>1. /\ Len(given.args) \in Nat /\ Len(given.env) \in Nat /\ Len(given.aux) \in Nat
      /\ given.args # <<>> /\ given.args \in Seq(Word)
  BY GivenWords
<1>2. Len(given.args) # 0
  BY <1>1, EmptySeq
<1> DEFINE a == Len(given.args)
           e == Len(given.env)
           x == Len(given.aux)
<1>3. a \in Nat \ {0} /\ e \in Nat /\ x \in Nat /\ Total = a + e + 2 * x + 5
  BY <1>1, <1>2, Zenon DEF Total, Size
<1> HIDE DEF a, e, x
<1>4. Total \in Nat
  BY <1>3
<1>5. QED
  BY <1>3, <1>4 DEF a, e, x

\* The stack of the kernel, word by word.
LEMMA KernelIs ==
    ASSUME GivenInv
    PROVE  /\ Layout(given.args, given.env, given.aux) \in Seq(Word)
           /\ Len(Layout(given.args, given.env, given.aux)) = Total
           /\ \A k \in 1 .. Total : Layout(given.args, given.env, given.aux)[k] = KernelAt(k)
<1>1. IsLayout(Word, given.args, given.env, given.aux, Layout(given.args, given.env, given.aux))
  BY GivenWords, WordFacts, LayoutIs, Zenon
<1>2. QED
  BY <1>1, Zenon DEF IsLayout, Total, KernelAt

\* The arguments on it.
LEMMA KernelArgs ==
    ASSUME GivenInv
    PROVE  /\ KernelAt(1) = Len(given.args)
           /\ \A k \in 1 .. Len(given.args) : KernelAt(k + 1) = given.args[k]
           /\ \A j \in 1 .. Len(given.env) + 2 * Len(given.aux) + 4 :
                KernelAt(Len(given.args) + 1 + j) = Behind(given.env, given.aux, j)
<1> DEFINE a == Len(given.args)
           b == Len(given.env) + 2 * Len(given.aux) + 4
<1>1. a \in Nat /\ b \in Nat
  <2> DEFINE e == Len(given.env)
             x == Len(given.aux)
  <2>1. a \in Nat /\ e \in Nat /\ x \in Nat
    BY Sizes
  <2> HIDE DEF e, x
  <2>2. e + 2 * x + 4 \in Nat
    BY <2>1
  <2>3. QED
    BY <2>1, <2>2 DEF e, x
<1>2. KernelAt(1) = a
  BY DEF KernelAt, At
<1>3. ASSUME NEW k \in 1 .. a
      PROVE  KernelAt(k + 1) = given.args[k]
  <2> HIDE DEF a
  <2>1. k + 1 # 1 /\ k + 1 <= a + 1 /\ (k + 1) - 1 = k
    BY <1>1
  <2>2. QED
    BY <2>1 DEF KernelAt, At, a
<1>4. ASSUME NEW j \in 1 .. b
      PROVE  KernelAt(a + 1 + j) = Behind(given.env, given.aux, j)
  <2> HIDE DEF a, b
  <2>1. a + 1 + j # 1 /\ ~ (a + 1 + j <= a + 1) /\ (a + 1 + j) - a - 1 = j
    BY <1>1
  <2>2. QED
    BY <2>1 DEF KernelAt, At, a
<1>5. QED
  BY <1>2, <1>3, <1>4

\* The arguments of the executable: argv[0] and what is behind its path.
LEMMA NewArgsAre ==
    ASSUME GivenInv, index \in 1 .. Len(given.args), index < Len(given.args), argv0 \in Word
    PROVE  /\ NewArgs \in Seq(Word)
           /\ Len(NewArgs) = Len(given.args) - index
           /\ NewArgs[1] = IF argv0 = Zero THEN given.args[index + 1] ELSE argv0
           /\ \A k \in 2 .. Len(given.args) - index : NewArgs[k] = given.args[index + k]
<1> DEFINE a == Len(given.args)
           rest == SubSeq(given.args, index + 1, a)
<1>1. a \in Nat /\ given.args \in Seq(Word) /\ \A k \in 1 .. a : given.args[k] \in Word
  BY GivenWords, ElementOfSeq
<1> HIDE DEF a
<1>2. /\ index + 1 \in Int /\ a \in Int /\ index + 1 <= a /\ a - (index + 1) + 1 = a - index
      /\ \A k \in index + 1 .. a : given.args[k] \in Word
      /\ a - index \in Nat /\ a - index >= 1
  BY <1>1 DEF a
<1>3. /\ rest \in Seq(Word) /\ Len(rest) = a - index
      /\ \A k \in 1 .. a - index : rest[k] = given.args[(index + 1) + k - 1]
  <2>1. /\ rest \in Seq(Word) /\ Len(rest) = IF index + 1 <= a THEN a - (index + 1) + 1 ELSE 0
        /\ \A k \in 1 .. a - (index + 1) + 1 : rest[k] = given.args[(index + 1) + k - 1]
    BY <1>2, SubSeqProperties
  <2> HIDE DEF rest
  <2>2. QED
    BY <1>2, <2>1
<1>4. \A k \in 1 .. a - index : rest[k] = given.args[index + k]
  <2> HIDE DEF rest
  <2>1. \A k \in 1 .. a - index : (index + 1) + k - 1 = index + k
    BY <1>2
  <2>2. QED
    BY <1>3, <2>1
<1>5. CASE argv0 = Zero
  <2>1. NewArgs = rest
    BY <1>5 DEF NewArgs, a
  <2> HIDE DEF rest
  <2>2. QED
    BY <1>2, <1>3, <1>4, <1>5, <2>1 DEF a
<1>6. CASE argv0 # Zero
  <2> DEFINE one == <<argv0>>
             others == Tail(rest)
  <2>1. NewArgs = one \o others
    BY <1>6 DEF NewArgs, a
  <2> HIDE DEF rest
  <2>2. /\ others \in Seq(Word) /\ Len(others) = a - index - 1
        /\ \A k \in 1 .. a - index - 1 : others[k] = rest[k + 1]
    <3>1. rest # <<>>
      BY <1>2, <1>3
    <3>2. /\ others \in Seq(Word) /\ Len(others) = Len(rest) - 1
          /\ \A k \in 1 .. Len(others) : others[k] = rest[k + 1]
      BY <1>3, <3>1, HeadTailProperties
    <3> HIDE DEF others
    <3>3. QED
      BY <1>3, <3>2
  <2>3. one \in Seq(Word) /\ Len(one) = 1 /\ one[1] = argv0
    OBVIOUS
  <2> HIDE DEF one, others
  <2>4. Joins(Word, one, others, 1, a - index - 1, one \o others)
    BY <2>2, <2>3, Concatenated, Zenon
  <2>5. /\ NewArgs \in Seq(Word) /\ Len(NewArgs) = a - index
        /\ NewArgs[1] = argv0
        /\ \A k \in 1 .. a - index - 1 : NewArgs[1 + k] = others[k]
    BY <1>2, <2>1, <2>3, <2>4, SMTT(30) DEF Joins
  <2>6. ASSUME NEW k \in 2 .. a - index
        PROVE  NewArgs[k] = given.args[index + k]
    <3>1. k - 1 \in 1 .. a - index - 1 /\ 1 + (k - 1) = k /\ (k - 1) + 1 = k /\ k \in 1 .. a - index
      BY <1>2
    <3>2. NewArgs[1 + (k - 1)] = rest[(k - 1) + 1]
      BY <2>2, <2>5, <3>1
    <3>3. QED
      BY <1>4, <3>1, <3>2
  <2>7. QED
    BY <1>6, <2>5, <2>6 DEF a
<1>7. QED
  BY <1>5, <1>6

\* The stack of the executable is the kernel's, moved by index places, except for argc
\* and argv[0].
LEMMA NewStackIs ==
    ASSUME GivenInv, index \in 1 .. Len(given.args), index < Len(given.args), argv0 \in Word
    PROVE  /\ At(NewArgs, given.env, given.aux, 1) = Len(given.args) - index
           /\ At(NewArgs, given.env, given.aux, 2) =
                IF argv0 = Zero THEN given.args[index + 1] ELSE argv0
           /\ \A k \in 3 .. Total - index :
                At(NewArgs, given.env, given.aux, k) = KernelAt(k + index)
<1> DEFINE a == Len(given.args)
           n == Len(NewArgs)
           t == Total
<1>1. a \in Nat /\ t \in Nat /\ index \in 1 .. a /\ index < a
  BY Sizes
<1>2. n = a - index /\ \A k \in 2 .. a - index : NewArgs[k] = given.args[index + k]
  BY NewArgsAre
<1>3. NewArgs[1] = IF argv0 = Zero THEN given.args[index + 1] ELSE argv0
  BY NewArgsAre
<1>4. At(NewArgs, given.env, given.aux, 1) = a - index
  BY <1>2 DEF At
<1>5. At(NewArgs, given.env, given.aux, 2) = NewArgs[1]
  <2> HIDE DEF n, a
  <2>1. 2 # 1 /\ 2 <= n + 1 /\ 2 - 1 = 1
    BY <1>1, <1>2
  <2>2. QED
    BY <2>1 DEF At, n
<1>6. ASSUME NEW k \in 3 .. t - index
      PROVE  At(NewArgs, given.env, given.aux, k) = KernelAt(k + index)
  <2> HIDE DEF n, a, t
  <2>1. CASE k <= n + 1
    <3>1. /\ k # 1 /\ k - 1 \in 2 .. a - index
          /\ k + index # 1 /\ k + index <= a + 1 /\ (k + index) - 1 = index + (k - 1)
      BY <1>1, <1>2, <2>1
    <3>2. At(NewArgs, given.env, given.aux, k) = NewArgs[k - 1]
      BY <2>1, <3>1 DEF At, n
    <3>3. KernelAt(k + index) = given.args[index + (k - 1)]
      BY <3>1 DEF KernelAt, At, a
    <3>4. QED
      BY <1>2, <3>1, <3>2, <3>3
  <2>2. CASE ~ (k <= n + 1)
    <3>1. /\ k # 1 /\ k + index # 1 /\ ~ (k + index <= a + 1)
          /\ (k + index) - a - 1 = k - n - 1
      BY <1>1, <1>2, <2>2
    <3>2. At(NewArgs, given.env, given.aux, k) = Behind(given.env, given.aux, k - n - 1)
      BY <2>2, <3>1 DEF At, n
    <3>3. KernelAt(k + index) = Behind(given.env, given.aux, k - n - 1)
      BY <3>1 DEF KernelAt, At, a
    <3>4. QED
      BY <3>2, <3>3
  <2>3. QED
    BY <2>1, <2>2
<1>7. QED
  BY <1>3, <1>4, <1>5, <1>6

\* While options are read, the words are the arguments.
LEMMA ReadsArguments ==
    ASSUME DirectInv, stage = "options"
    PROVE  /\ argc = Len(given.args)
           /\ index < Len(given.args) => arg = given.args[index + 1]
           /\ index + 1 < Len(given.args) => word(1 + index + 1) = given.args[index + 2]
<1> DEFINE a == Len(given.args)
           e == Len(given.env)
           x == Len(given.aux)
           t == Total
<1>1. a \in Nat /\ e \in Nat /\ x \in Nat /\ t = a + e + 2 * x + 5 /\ index \in 1 .. a
  BY Sizes DEF DirectInv, WordsInv
<1>2. \A k \in 1 .. t : mem[k] = KernelAt(k)
  BY DEF DirectInv, MemInv
<1>3. KernelAt(1) = a /\ \A k \in 1 .. a : KernelAt(k + 1) = given.args[k]
  BY KernelArgs DEF DirectInv
<1>4. argc = a
  <2> HIDE DEF a, e, x, t
  <2>1. 1 \in 1 .. t /\ 0 + 1 = 1
    BY <1>1
  <2>2. QED
    BY <1>2, <1>3, <2>1 DEF argc, word
<1>5. ASSUME NEW k \in 1 .. a
      PROVE  word(k) = given.args[k]
  <2> HIDE DEF a, e, x, t
  <2>1. k + 1 \in 1 .. t
    BY <1>1
  <2>2. QED
    BY <1>2, <1>3, <2>1 DEF word
<1>6. ASSUME index < a
      PROVE  arg = given.args[index + 1]
  <2> HIDE DEF a, e, x, t
  <2>1. 1 + index = index + 1 /\ index + 1 \in 1 .. a
    BY <1>1, <1>6
  <2>2. QED
    BY <1>5, <2>1 DEF arg
<1>7. ASSUME index + 1 < a
      PROVE  word(1 + index + 1) = given.args[index + 2]
  <2> HIDE DEF a, e, x, t
  <2>1. 1 + index + 1 = index + 2 /\ index + 2 \in 1 .. a
    BY <1>1, <1>7
  <2>2. QED
    BY <1>5, <2>1
<1>8. QED
  BY <1>4, <1>6, <1>7

\* The kernel's stack is what is looked at first, and nothing has been read.
LEMMA DirectInitial == DirectInit => DirectInv
<1> SUFFICES ASSUME DirectInit PROVE DirectInv
  OBVIOUS
<1>1. GivenInv
  BY DEF DirectInit, GivenInv
<1>2. /\ mem = Layout(given.args, given.env, given.aux) /\ stage = "options" /\ index = 1
      /\ argv0 = Zero /\ moved = 0 /\ count = 0 /\ status = 0
  BY DEF DirectInit
<1>3. WordsInv
  <2>1. Total \in Nat /\ Len(given.args) \in Nat \ {0} /\ Zero \in Word
    BY <1>1, Sizes, WordFacts
  <2>2. mem \in Seq(Word) /\ Len(mem) = Total
    BY <1>1, <1>2, KernelIs
  <2>3. QED
    BY <1>2, <2>1, <2>2 DEF WordsInv
<1>4. MemInv
  BY <1>1, <1>2, KernelIs DEF MemInv
<1>5. OptionsInv
  <2>1. {} \in SUBSET (2 .. index)
    OBVIOUS
  <2>2. OptionsAt(given.args, {}, index)
    BY <1>2 DEF OptionsAt
  <2>3. Argv0At(given.args, {}, argv0)
    BY <1>2 DEF Argv0At
  <2>4. OptionsRead
    BY <2>1, <2>2, <2>3 DEF OptionsRead, Reads
  <2>5. QED
    BY <1>2, <2>4 DEF OptionsInv
<1>6. QED
  BY <1>1, <1>3, <1>4, <1>5 DEF DirectInv

\* One more option is read.
LEMMA OneMoreOption ==
    ASSUME DirectInv, stage = "options", NEW value, NEW i,
           \/ i = index + 1 /\ given.args[index + 1] = "--inhibit-cache" /\ value = argv0
           \/ i = index + 2 /\ given.args[index + 1] \in Consuming /\ value = argv0
           \/ i = index + 2 /\ given.args[index + 1] = "--argv0" /\ value = given.args[index + 2]
    PROVE  Reads(given.args, i, value)
<1> DEFINE args == given.args
           new == index + 1
<1>1. index \in Nat /\ index >= 1
  <2>1. index \in 1 .. Len(given.args) /\ Len(given.args) \in Nat
    BY Sizes DEF DirectInv, WordsInv
  <2>2. QED
    BY <2>1
<1>2. PICK starts \in SUBSET (2 .. index) :
         OptionsAt(args, starts, index) /\ Argv0At(args, starts, argv0)
  BY DEF DirectInv, OptionsInv, OptionsRead, Reads
<1> DEFINE more == starts \cup {new}
<1>3. /\ \A k \in starts : k \in 2 .. index
      /\ index >= 2 => 2 \in starts
      /\ \A k \in starts :
           \/ args[k] = "--inhibit-cache" /\ (k + 1 \in starts \/ k = index)
           \/ /\ args[k] \in Consuming \cup {"--argv0"}
              /\ k + 1 \in (2 .. index) \ starts
              /\ k + 2 \in starts \/ k + 1 = index
  BY <1>2 DEF OptionsAt
<1> HIDE DEF args
<1>4. i \in {index + 1, index + 2} /\ more \in SUBSET (2 .. i)
  BY <1>1, <1>3
<1>5. OptionsAt(args, more, i)
  <2>1. more \subseteq 2 .. i
    BY <1>4
  <2>2. 2 \in more
    BY <1>1, <1>3
  <2>3. ASSUME NEW k \in starts
        PROVE  \/ args[k] = "--inhibit-cache" /\ (k + 1 \in more \/ k = i)
               \/ /\ args[k] \in Consuming \cup {"--argv0"}
                  /\ k + 1 \in (2 .. i) \ more
                  /\ k + 2 \in more \/ k + 1 = i
    <3>1. CASE args[k] = "--inhibit-cache" /\ (k + 1 \in starts \/ k = index)
      BY <3>1
    <3>2. CASE /\ args[k] \in Consuming \cup {"--argv0"}
               /\ k + 1 \in (2 .. index) \ starts
               /\ k + 2 \in starts \/ k + 1 = index
      <4>1. k \in Int
        <5>1. k \in 2 .. index
          BY <1>3
        <5>2. QED
          BY <1>1, <5>1
      <4>2. k + 1 \in (2 .. i) \ more
        BY <1>1, <1>4, <3>2
      <4>3. k + 2 \in more
        BY <1>1, <3>2, <4>1
      <4>4. QED
        BY <3>2, <4>2, <4>3
    <3>3. QED
      BY <1>3, <3>1, <3>2
  <2>4. \/ args[new] = "--inhibit-cache" /\ new = i
        \/ /\ args[new] \in Consuming \cup {"--argv0"}
           /\ new + 1 \in (2 .. i) \ more
           /\ new + 1 = i
    <3>1. new + 1 = index + 2 /\ new + 1 \notin more /\ index + 2 \in 2 .. index + 2
      BY <1>1, <1>3
    <3>2. QED
      BY <3>1 DEF args
  <2>5. QED
    BY <2>1, <2>2, <2>3, <2>4 DEF OptionsAt
<1>6. Argv0At(args, more, value)
  <2> DEFINE named == {k \in starts : args[k] = "--argv0"}
             named2 == {k \in more : args[k] = "--argv0"}
  <2>1. CASE args[new] = "--argv0"
    <3>1. value = args[new + 1]
      <4>1. new + 1 = index + 2
        BY <1>1
      <4>2. QED
        BY <2>1, <4>1 DEF args, Consuming
    <3>2. new \in named2 /\ \A j \in named2 : j <= new
      BY <1>1, <1>3, <2>1
    <3>3. QED
      BY <3>1, <3>2 DEF Argv0At
  <2>2. CASE args[new] # "--argv0"
    <3>1. value = argv0
      BY <2>2 DEF args
    <3>2. named2 = named
      BY <2>2
    <3>3. Argv0At(args, starts, argv0)
      BY <1>2
    <3> HIDE DEF more
    <3>4. QED
      BY <3>1, <3>2, <3>3 DEF Argv0At, more
  <2>3. QED
    BY <2>1, <2>2
<1>7. QED
  BY <1>4, <1>5, <1>6 DEF args, Reads

\* The end of the process.
LEMMA ExitKeeps ==
    ASSUME DirectInv, NEW s \in {0, 1, 127}, Exit(s)
    PROVE  DirectInv'
<1>1. /\ stage' = "exit" /\ status' = s
      /\ UNCHANGED <<mem, given, index, argv0, moved, count, process>>
  BY DEF Exit
<1>2. GivenInv'
  BY <1>1 DEF DirectInv, GivenInv
<1>3. Total' = Total
  BY <1>1 DEF Total
<1>4. WordsInv'
  BY <1>1, <1>3 DEF DirectInv, WordsInv
<1>5. MemInv' /\ OptionsInv'
  BY <1>1 DEF MemInv, OptionsInv
<1>6. QED
  BY <1>2, <1>4, <1>5 DEF DirectInv

\* A step that reads at most an option.
LEMMA ReadingKeeps ==
    ASSUME DirectInv, stage = "options", stage' \in {"options", "inspect"},
           UNCHANGED <<mem, given, moved, count, status>>,
           index' \in 1 .. Len(given.args), argv0' \in Word,
           stage' = "options" => OptionsRead'
    PROVE  DirectInv'
<1>1. GivenInv'
  BY DEF DirectInv, GivenInv
<1>2. Total' = Total /\ \A k : KernelAt(k)' = KernelAt(k)
  BY DEF Total, KernelAt
<1>3. WordsInv'
  BY <1>2 DEF DirectInv, WordsInv
<1>4. MemInv'
  BY <1>2 DEF DirectInv, MemInv
<1>5. OptionsInv'
  BY DEF OptionsInv
<1>6. QED
  BY <1>1, <1>3, <1>4, <1>5 DEF DirectInv

\* --verify or --list begins.
LEMMA InspectKeeps ==
    ASSUME DirectInv, Inspect
    PROVE  DirectInv'
<1>1. /\ stage = "options" /\ stage' = "inspect"
      /\ UNCHANGED <<mem, given, index, argv0, moved, count, status>>
  BY DEF Inspect, Looks
<1>2. index' \in 1 .. Len(given.args) /\ argv0' \in Word
  BY <1>1 DEF DirectInv, WordsInv
<1>3. QED
  BY <1>1, <1>2, ReadingKeeps

\* An option is read.
LEMMA SkipOptionKeeps ==
    ASSUME DirectInv, SkipOption
    PROVE  DirectInv'
<1> DEFINE a == Len(given.args)
<1>1. /\ stage = "options" /\ stage' = "options" /\ index < argc
      /\ UNCHANGED <<mem, given, argv0, moved, count, status>>
      /\ \/ arg \in Consuming /\ index + 1 < argc /\ index' = index + 2
         \/ arg = "--inhibit-cache" /\ index' = index + 1
  BY DEF SkipOption, Looks, HasValue
<1>2. a \in Nat /\ index \in 1 .. a /\ argv0 \in Word
  BY Sizes DEF DirectInv, WordsInv
<1>3. argc = a /\ (index < a => arg = given.args[index + 1])
  BY <1>1, ReadsArguments
<1> HIDE DEF a
<1>4. index' \in 1 .. a
  BY <1>1, <1>2, <1>3
<1>5. \/ index' = index + 1 /\ given.args[index + 1] = "--inhibit-cache"
      \/ index' = index + 2 /\ given.args[index + 1] \in Consuming
  BY <1>1, <1>3
<1>6. OptionsRead'
  <2>1. PICK i, value : i = index' /\ value = argv0'
    OBVIOUS
  <2>2. Reads(given.args, i, value)
    BY <1>1, <1>5, <2>1, OneMoreOption
  <2>3. QED
    BY <1>1, <2>1, <2>2 DEF OptionsRead
<1>7. QED
  BY <1>1, <1>2, <1>4, <1>6, ReadingKeeps DEF a

\* --argv0 is read.
LEMMA SetArgv0Keeps ==
    ASSUME DirectInv, SetArgv0
    PROVE  DirectInv'
<1> DEFINE a == Len(given.args)
<1>1. /\ stage = "options" /\ stage' = "options" /\ index < argc /\ index + 1 < argc
      /\ UNCHANGED <<mem, given, moved, count, status>>
      /\ arg = "--argv0" /\ index' = index + 2 /\ argv0' = word(1 + index + 1)
  BY DEF SetArgv0, Looks, HasValue
<1>2. a \in Nat /\ index \in 1 .. a /\ \A k \in 1 .. a : given.args[k] \in Word
  BY Sizes, GivenWords, ElementOfSeq DEF DirectInv, WordsInv
<1>3. /\ argc = a
      /\ index < a => arg = given.args[index + 1]
      /\ index + 1 < a => word(1 + index + 1) = given.args[index + 2]
  BY <1>1, ReadsArguments
<1> HIDE DEF a
<1>4. index' \in 1 .. a /\ index + 2 \in 1 .. a
  BY <1>1, <1>2, <1>3
<1>5. given.args[index + 1] = "--argv0" /\ argv0' = given.args[index + 2]
  BY <1>1, <1>3
<1>6. OptionsRead'
  <2>1. PICK i, value : i = index' /\ value = argv0'
    OBVIOUS
  <2>2. Reads(given.args, i, value)
    BY <1>1, <1>5, <2>1, OneMoreOption
  <2>3. QED
    BY <1>1, <2>1, <2>2 DEF OptionsRead
<1>7. QED
  BY <1>1, <1>2, <1>4, <1>5, <1>6, ReadingKeeps DEF a

\* The executable is found; what is behind it is to be moved.
LEMMA ProgramKeeps ==
    ASSUME DirectInv, Program
    PROVE  DirectInv'
<1> DEFINE a == Len(given.args)
           e == Len(given.env)
           x == Len(given.aux)
<1>1. /\ stage = "options" /\ stage' = "shift" /\ index < argc /\ arg \notin Options
      /\ count' = AuxEnd(AuxAt(argc)) + 2 - (1 + index)
      /\ UNCHANGED <<mem, given, index, argv0, moved, status>>
  BY DEF Program, Looks
<1>2. argc = a /\ (index < a => arg = given.args[index + 1])
  BY <1>1, ReadsArguments
<1>3. /\ a \in Nat \ {0} /\ e \in Nat /\ x \in Nat /\ Total = a + e + 2 * x + 5
      /\ index \in 1 .. a /\ Len(mem) = Total
      /\ moved = 0 /\ \A k \in 1 .. Total : mem[k] = KernelAt(k)
  BY <1>1, Sizes DEF DirectInv, WordsInv, MemInv
<1>4. \A j \in 1 .. e + 2 * x + 4 : mem[a + 1 + j] = Behind(given.env, given.aux, j)
  <2>1. \A j \in 1 .. e + 2 * x + 4 : KernelAt(a + 1 + j) = Behind(given.env, given.aux, j)
    BY KernelArgs DEF DirectInv
  <2> HIDE DEF a, e, x
  <2>2. \A j \in 1 .. e + 2 * x + 4 : a + 1 + j \in 1 .. Total
    BY <1>3
  <2>3. QED
    BY <1>3, <2>1, <2>2
<1>5. AuxAt(a) = a + e + 3 /\ AuxCount(a + e + 3) = x
  <2>1. /\ given.env \in Seq(Word) /\ given.aux \in Seq(Word \X Word)
        /\ \A k \in 1 .. e : given.env[k] # Zero
        /\ \A k \in 1 .. x : given.aux[k][1] # Zero
    BY GivenWords DEF DirectInv
  <2>2. a \in Nat /\ Len(mem) \in Nat /\ a + e + 2 * x + 5 <= Len(mem)
    <3> HIDE DEF a, e, x
    <3>1. QED
      BY <1>3
  <2>3. Follow(a, given.env, given.aux)
    BY <1>4, <2>1, <2>2, Zenon DEF Follow
  <2>4. QED
    BY <2>1, <2>2, <2>3, AuxFound, Zenon
<1>6. count' = Total - 1 - index /\ count' \in 0 .. Total /\ moved \in 0 .. count'
  <2> HIDE DEF a, e, x
  <2>1. AuxEnd(AuxAt(argc)) = (a + e + 3) + 2 * x
    BY <1>2, <1>5 DEF AuxEnd
  <2>2. QED
    BY <1>1, <1>3, <2>1
<1>7. GivenInv' /\ Total' = Total /\ \A k : KernelAt(k)' = KernelAt(k)
  BY <1>1 DEF DirectInv, GivenInv, Total, KernelAt
<1>8. WordsInv'
  BY <1>1, <1>6, <1>7 DEF DirectInv, WordsInv
<1>9. MemInv'
  <2>1. index' < Len(given'.args)
    BY <1>1, <1>2
  <2>2. \A k \in 1 .. Total : k \notin 2 .. moved + 1
    BY <1>3
  <2>3. QED
    BY <1>1, <1>3, <1>6, <1>7, <2>1, <2>2 DEF MemInv
<1>10. OptionsInv'
  <2>1. OptionsRead'
    BY <1>1 DEF DirectInv, OptionsInv, OptionsRead
  <2>2. QED
    BY <1>1, <1>2, <2>1 DEF OptionsInv
<1>11. QED
  BY <1>7, <1>8, <1>9, <1>10 DEF DirectInv

\* Behind the options nothing is read any more.
LEMMA OptionsKept ==
    ASSUME OptionsInv, stage \in {"shift", "load"}, stage' \in {"shift", "load", "run"},
           UNCHANGED <<given, index, argv0>>
    PROVE  OptionsInv'
<1>1. OptionsRead /\ given.args[index + 1] \notin Options
  BY DEF OptionsInv
<1>2. OptionsRead'
  BY <1>1 DEF OptionsRead
<1>3. QED
  BY <1>1, <1>2 DEF OptionsInv

\* A word is moved.
LEMMA ShiftKeeps ==
    ASSUME DirectInv, Shift
    PROVE  DirectInv'
<1>1. /\ stage = "shift" /\ stage' = "shift" /\ moved < count /\ moved' = moved + 1
      /\ mem' = [mem EXCEPT ![2 + moved] = mem[2 + index + moved]]
      /\ UNCHANGED <<given, index, argv0, count, status>>
  <2>1. stage = "shift" /\ moved < count /\ moved \in Nat /\ index \in Nat
    <3>1. /\ Total \in Nat /\ count \in 0 .. Total /\ moved \in 0 .. count
          /\ Len(given.args) \in Nat /\ index \in 1 .. Len(given.args)
      BY Sizes DEF DirectInv, WordsInv
    <3>2. QED
      BY <3>1 DEF Shift
  <2>2. 1 + 1 + moved = 2 + moved /\ (1 + index + moved) + 1 = 2 + index + moved
    BY <2>1
  <2>3. QED
    BY <2>1, <2>2 DEF Shift, word
<1> DEFINE t == Total
<1>2. /\ t \in Nat /\ count = t - 1 - index /\ moved \in 0 .. count
      /\ index \in Nat /\ index >= 1 /\ mem \in Seq(Word) /\ Len(mem) = t
      /\ index < Len(given.args)
  <2>1. /\ t \in Nat /\ Len(given.args) \in Nat
    BY Sizes DEF DirectInv
  <2>2. /\ count = t - 1 - index /\ moved \in 0 .. count
        /\ index \in 1 .. Len(given.args) /\ mem \in Seq(Word) /\ Len(mem) = t
        /\ index < Len(given.args)
    BY <1>1 DEF DirectInv, WordsInv, MemInv
  <2>3. index \in Nat /\ index >= 1
    BY <2>1, <2>2
  <2>4. QED
    BY <2>1, <2>2, <2>3
<1>3. \A k \in 1 .. t :
         mem[k] = IF k \in 2 .. moved + 1 THEN KernelAt(k + index) ELSE KernelAt(k)
  BY <1>1 DEF DirectInv, MemInv
<1>4. GivenInv' /\ Total' = t /\ \A k : KernelAt(k)' = KernelAt(k)
  BY <1>1 DEF DirectInv, GivenInv, Total, KernelAt
<1> HIDE DEF t
<1>5. 2 + moved \in 1 .. t /\ 2 + index + moved \in 1 .. t /\ moved \in Nat /\ moved + 1 \in 0 .. count
  BY <1>1, <1>2
<1>6. mem' \in Seq(Word) /\ Len(mem') = t /\ DOMAIN mem = 1 .. t
  <2>1. mem[2 + index + moved] \in Word /\ DOMAIN mem = 1 .. t
    BY <1>2, <1>5, ElementOfSeq, LenProperties
  <2>2. QED
    BY <1>1, <1>2, <1>5, <2>1, ExceptSeq
<1>7. mem[2 + index + moved] = KernelAt((2 + moved) + index)
  <2>1. 2 + index + moved \notin 2 .. moved + 1 /\ 2 + index + moved = (2 + moved) + index
    BY <1>2, <1>5
  <2>2. QED
    BY <1>3, <1>5, <2>1
<1>8. ASSUME NEW k \in 1 .. t
      PROVE  mem'[k] = IF k \in 2 .. (moved + 1) + 1 THEN KernelAt(k + index) ELSE KernelAt(k)
  <2>1. mem'[k] = IF k = 2 + moved THEN KernelAt((2 + moved) + index) ELSE mem[k]
    BY <1>1, <1>6, <1>7
  <2>2. k \in 2 .. (moved + 1) + 1 <=> (k = 2 + moved \/ k \in 2 .. moved + 1)
    BY <1>5
  <2>3. k = 2 + moved => k \notin 2 .. moved + 1
    BY <1>5
  <2>4. QED
    BY <1>3, <2>1, <2>2, <2>3
<1>9. WordsInv'
  <2>1. count \in 0 .. t
    BY DEF DirectInv, WordsInv, t
  <2>2. QED
    BY <1>1, <1>4, <1>5, <1>6, <2>1 DEF DirectInv, WordsInv
<1>10. MemInv'
  <2>1. count' = Total' - 1 - index' /\ index' < Len(given'.args)
    BY <1>1, <1>2, <1>4
  <2>2. QED
    BY <1>1, <1>4, <1>8, <2>1 DEF MemInv
<1>11. OptionsInv'
  BY <1>1, OptionsKept DEF DirectInv
<1>12. QED
  BY <1>4, <1>9, <1>10, <1>11 DEF DirectInv

\* All words are moved: the stack is the executable's, with the old auxiliary vector.
LEMMA ShiftedKeeps ==
    ASSUME DirectInv, Shifted
    PROVE  DirectInv'
<1> DEFINE a == Len(given.args)
           e == Len(given.env)
           x == Len(given.aux)
           t == Total
           n == a - index
           first == IF argv0 = Zero THEN mem[2] ELSE argv0
<1>1. /\ stage = "shift" /\ stage' = "load" /\ moved = count
      /\ UNCHANGED <<given, index, argv0, moved, count, status>>
  BY DEF Shifted
<1>2. /\ a \in Nat \ {0} /\ e \in Nat /\ x \in Nat /\ t \in Nat /\ t = a + e + 2 * x + 5
      /\ index \in 1 .. a /\ index < a /\ argv0 \in Word
      /\ mem \in Seq(Word) /\ Len(mem) = t /\ count = t - 1 - index
      /\ \A k \in 1 .. t :
           mem[k] = IF k \in 2 .. count + 1 THEN KernelAt(k + index) ELSE KernelAt(k)
  BY <1>1, Sizes DEF DirectInv, WordsInv, MemInv
<1>3. /\ KernelAt(1) = a
      /\ \A k \in 1 .. a : KernelAt(k + 1) = given.args[k]
      /\ \A j \in 1 .. e + 2 * x + 4 : KernelAt(a + 1 + j) = Behind(given.env, given.aux, j)
  BY KernelArgs DEF DirectInv
<1>4. n \in Nat \ {0}
  <2> HIDE DEF a
  <2>1. QED
    BY <1>2
<1>5. mem[1] = a /\ \A k \in 2 .. t - index : mem[k] = KernelAt(k + index)
  <2> HIDE DEF a, e, x, t
  <2>1. 1 \in 1 .. t /\ 1 \notin 2 .. count + 1
        /\ \A k \in 2 .. t - index : k \in 1 .. t /\ k \in 2 .. count + 1
    BY <1>2
  <2>2. QED
    BY <1>2, <1>3, <2>1
<1>6. argc = a /\ argc - index = n
  <2>1. 0 + 1 = 1
    OBVIOUS
  <2>2. QED
    BY <1>5, <2>1 DEF argc, word
<1>7. mem[2] = given.args[index + 1]
  <2> HIDE DEF a, e, x, t
  <2>1. 2 \in 2 .. t - index /\ 2 + index = (index + 1) + 1 /\ index + 1 \in 1 .. a
    BY <1>2
  <2>2. QED
    BY <1>3, <1>5, <2>1
<1>8. AuxAt(n) = n + e + 3
  <2>1. /\ given.env \in Seq(Word) /\ given.aux \in Seq(Word \X Word)
        /\ \A k \in 1 .. e : given.env[k] # Zero
        /\ \A k \in 1 .. x : given.aux[k][1] # Zero
    BY GivenWords DEF DirectInv
  <2>2. Len(mem) \in Nat /\ n + e + 2 * x + 5 <= Len(mem)
    <3> HIDE DEF a, e, x, t
    <3>1. QED
      BY <1>2
  <2>3. \A j \in 1 .. e + 2 * x + 4 : mem[n + 1 + j] = Behind(given.env, given.aux, j)
    <3> HIDE DEF a, e, x, t
    <3>1. \A j \in 1 .. e + 2 * x + 4 :
             n + 1 + j \in 2 .. t - index /\ (n + 1 + j) + index = a + 1 + j
      BY <1>2
    <3>2. QED
      BY <1>3, <1>5, <3>1
  <2>4. Follow(n, given.env, given.aux)
    BY <2>1, <2>2, <2>3, Zenon DEF Follow
  <2>5. n \in Nat
    BY <1>4
  <2> HIDE DEF n
  <2>6. QED
    BY <2>1, <2>4, <2>5, AuxFound, Zenon
<1>9. /\ mem' = [mem EXCEPT ![1] = n, ![2] = first]
      /\ process' = [argc |-> n, auxv |-> n + e + 3, exec_path |-> given.args[index + 1]]
  <2>1. DOMAIN mem = 1 .. t /\ 1 \in 1 .. t /\ 2 \in 1 .. t
    <3>1. DOMAIN mem = 1 .. t
      BY <1>2, LenProperties
    <3> HIDE DEF a, e, x, t
    <3>2. QED
      BY <1>2, <3>1
  <2>2. word(1) = mem[2]
    <3>1. 1 + 1 = 2
      OBVIOUS
    <3>2. QED
      BY <3>1 DEF word
  <2>3. /\ mem' = [mem EXCEPT ![1] = argc - index, ![2] = IF argv0 = Zero THEN @ ELSE argv0]
        /\ process' = [argc |-> argc - index, auxv |-> AuxAt(argc - index), exec_path |-> word(1)]
    BY DEF Shifted
  <2> HIDE DEF a, e, x, t, n
  <2>4. [mem EXCEPT ![1] = n, ![2] = IF argv0 = Zero THEN @ ELSE argv0] =
        [mem EXCEPT ![1] = n, ![2] = first]
    BY <2>1
  <2>5. QED
    BY <1>6, <1>7, <1>8, <2>2, <2>3, <2>4
<1>10. GivenInv' /\ Total' = t /\ NewArgs' = NewArgs
  BY <1>1 DEF DirectInv, GivenInv, Total, NewArgs
<1>11. /\ mem' \in Seq(Word) /\ Len(mem') = t
       /\ mem'[1] = n /\ mem'[2] = first /\ \A k \in 3 .. t : mem'[k] = mem[k]
  <2>1. n \in Word /\ first \in Word
    <3>1. mem[2] \in Word
      <4> HIDE DEF a, e, x, t
      <4>1. 2 \in 1 .. Len(mem)
        BY <1>2
      <4>2. QED
        BY <1>2, <4>1, ElementOfSeq
    <3>2. n \in Word
      BY <1>4, WordFacts
    <3>3. QED
      BY <1>2, <3>1, <3>2
  <2>2. t \in Nat /\ t >= 2
    <3> HIDE DEF a, e, x, t
    <3>1. QED
      BY <1>2
  <2>3. mem \in [1 .. t -> Word]
    BY <1>2, LenProperties
  <2> HIDE DEF n, first, t
  <2>4. mem' \in [1 .. t -> Word]
    BY <1>9, <2>1, <2>3
  <2>5. mem'[1] = n /\ mem'[2] = first /\ \A k \in 3 .. t : mem'[k] = mem[k]
    BY <1>9, <2>2, <2>3
  <2>6. QED
    BY <2>2, <2>4, <2>5, FunctionIsSeq
<1>12. \A k \in 1 .. t - index : mem'[k] = At(NewArgs, given.env, given.aux, k)
  <2>1. /\ At(NewArgs, given.env, given.aux, 1) = n
        /\ At(NewArgs, given.env, given.aux, 2) =
             IF argv0 = Zero THEN given.args[index + 1] ELSE argv0
        /\ \A k \in 3 .. t - index : At(NewArgs, given.env, given.aux, k) = KernelAt(k + index)
    BY <1>2, NewStackIs DEF DirectInv
  <2>2. first = IF argv0 = Zero THEN given.args[index + 1] ELSE argv0
    BY <1>7
  <2> HIDE DEF n, first, a, e, x, t
  <2>3. \A k \in 1 .. t - index :
           k = 1 \/ k = 2 \/ (k \in 3 .. t - index /\ k \in 3 .. t /\ k \in 2 .. t - index)
    BY <1>2
  <2>4. QED
    BY <1>5, <1>11, <2>1, <2>2, <2>3
<1>13. WordsInv'
  <2>1. stage' = "load" /\ argv0' \in Word /\ index' \in 1 .. Len(given'.args)
    BY <1>1, <1>2
  <2>2. status' \in {0, 1, 127} /\ count' \in 0 .. t /\ moved' \in 0 .. count'
    BY <1>1 DEF DirectInv, WordsInv
  <2>3. QED
    BY <1>10, <1>11, <2>1, <2>2 DEF WordsInv
<1>14. MemInv'
  BY <1>1, <1>2, <1>9, <1>10, <1>12 DEF MemInv
<1>15. OptionsInv'
  BY <1>1, OptionsKept DEF DirectInv
<1>16. QED
  BY <1>10, <1>13, <1>14, <1>15 DEF DirectInv

\* The auxiliary vector of the executable has the kinds of the given one.
LEMMA NewVectorIs ==
    ASSUME GivenInv, index \in 1 .. Len(given.args), index < Len(given.args)
    PROVE  /\ NewVector \in Seq(Word \X Word)
           /\ Len(NewVector) = Len(given.aux)
           /\ \A i \in 1 .. Len(given.aux) :
                /\ PairWords(given.aux)[2 * i - 1] = given.aux[i][1]
                /\ PairWords(given.aux)[2 * i] = given.aux[i][2]
                /\ PairWords(NewVector)[2 * i - 1] = given.aux[i][1]
                /\ PairWords(NewVector)[2 * i] = NewPair(given.aux[i], given.args[index + 1])[2]
<1> DEFINE x == Len(given.aux)
           path == given.args[index + 1]
<1>1. /\ x \in Nat /\ given.aux \in Seq(Word \X Word) /\ DOMAIN given.aux = 1 .. x
      /\ \A i \in 1 .. x : given.aux[i] \in Word \X Word
  BY GivenWords, LenProperties, ElementOfSeq
<1>2. path \in Word
  <2>1. given.args \in Seq(Word) /\ Len(given.args) \in Nat
    BY GivenWords
  <2>2. index + 1 \in 1 .. Len(given.args)
    BY <2>1
  <2>3. QED
    BY <2>1, <2>2, ElementOfSeq
<1> HIDE DEF x, path
<1>3. ASSUME NEW i \in 1 .. x
      PROVE  /\ NewPair(given.aux[i], path) \in Word \X Word
             /\ NewPair(given.aux[i], path)[1] = given.aux[i][1]
  <2>1. /\ given.aux[i][1] \in Word /\ given.aux[i][2] \in Word
        /\ given.aux[i][1] \in Patched => NewAux[given.aux[i][1]] \in Word
    BY <1>1 DEF Word
  <2>2. QED
    BY <1>2, <2>1 DEF NewPair
<1>4. /\ NewVector \in [1 .. x -> Word \X Word]
      /\ \A i \in 1 .. x : NewVector[i] = NewPair(given.aux[i], path)
  BY <1>1, <1>3 DEF NewVector, path
<1>5. NewVector \in Seq(Word \X Word) /\ Len(NewVector) = x
  BY <1>1, <1>4, FunctionIsSeq, Zenon
<1>6. \A i \in 1 .. x : /\ PairWords(NewVector)[2 * i - 1] = NewVector[i][1]
                        /\ PairWords(NewVector)[2 * i] = NewVector[i][2]
  BY <1>5, PairWordsAre, Zenon
<1>7. \A i \in 1 .. x : /\ PairWords(given.aux)[2 * i - 1] = given.aux[i][1]
                        /\ PairWords(given.aux)[2 * i] = given.aux[i][2]
  BY <1>1, PairWordsAre, Zenon DEF x
<1>8. ASSUME NEW i \in 1 .. x
      PROVE  /\ PairWords(NewVector)[2 * i - 1] = given.aux[i][1]
             /\ PairWords(NewVector)[2 * i] = NewPair(given.aux[i], path)[2]
  <2>1. NewVector[i] = NewPair(given.aux[i], path)
    BY <1>4
  <2>2. QED
    BY <1>3, <1>6, <2>1
<1>9. QED
  BY <1>5, <1>7, <1>8, Zenon DEF x, path

\* patch_auxv replaces what describes the executable.
LEMMA LoadExecKeeps ==
    ASSUME DirectInv, LoadExec
    PROVE  DirectInv'
<1> DEFINE a == Len(given.args)
           e == Len(given.env)
           x == Len(given.aux)
           t == Total
           n == a - index
           b == n + e + 3
           path == given.args[index + 1]
           kinds == {b + 2 * i : i \in 0 .. x - 1}
<1>1. /\ stage = "load" /\ stage' = "run"
      /\ UNCHANGED <<given, index, argv0, moved, count, process, status>>
  BY DEF LoadExec
<1>2. /\ a \in Nat \ {0} /\ e \in Nat /\ x \in Nat /\ t \in Nat /\ t = a + e + 2 * x + 5
      /\ index \in 1 .. a /\ index < a /\ argv0 \in Word
      /\ mem \in Seq(Word) /\ Len(mem) = t
      /\ process.auxv = b /\ process.exec_path = path
      /\ \A k \in 1 .. t - index : mem[k] = At(NewArgs, given.env, given.aux, k)
  <2>1. /\ a \in Nat \ {0} /\ e \in Nat /\ x \in Nat /\ t \in Nat /\ t = a + e + 2 * x + 5
    BY Sizes DEF DirectInv
  <2>2. /\ index \in 1 .. a /\ argv0 \in Word /\ mem \in Seq(Word) /\ Len(mem) = t
    BY DEF DirectInv, WordsInv
  <2>3. /\ index < a /\ process = [argc |-> n, auxv |-> b, exec_path |-> path]
        /\ \A k \in 1 .. t - index : mem[k] = At(NewArgs, given.env, given.aux, k)
    BY <1>1 DEF DirectInv, MemInv
  <2> HIDE DEF a, e, x, t, n, b, path
  <2>4. process.auxv = b /\ process.exec_path = path
    BY <2>3
  <2>5. QED
    BY <2>1, <2>2, <2>3, <2>4
<1>3. Len(NewArgs) = n /\ n \in Nat \ {0} /\ b \in Nat /\ t - index = n + e + 2 * x + 5
  <2>1. Len(NewArgs) = n
    BY <1>2, NewArgsAre DEF DirectInv
  <2> HIDE DEF a, e, x, t
  <2>2. n \in Nat \ {0} /\ b \in Nat /\ t - index = n + e + 2 * x + 5
    BY <1>2
  <2>3. QED
    BY <2>1, <2>2
<1>4. ASSUME NEW aux, Len(aux) = x, NEW j \in 1 .. e + 2 * x + 4
      PROVE  At(NewArgs, given.env, aux, n + 1 + j) = Behind(given.env, aux, j)
  <2> HIDE DEF n, e, x
  <2>1. n + 1 + j # 1 /\ ~ (n + 1 + j <= n + 1) /\ (n + 1 + j) - n - 1 = j
    BY <1>2, <1>3
  <2>2. QED
    BY <1>3, <2>1 DEF At
<1>5. \A j \in 1 .. e + 2 * x + 4 : mem[n + 1 + j] = Behind(given.env, given.aux, j)
  <2>1. ASSUME NEW j \in 1 .. e + 2 * x + 4
        PROVE  mem[n + 1 + j] = Behind(given.env, given.aux, j)
    <3>1. At(NewArgs, given.env, given.aux, n + 1 + j) = Behind(given.env, given.aux, j)
      BY <1>4
    <3> HIDE DEF a, n, e, x, t
    <3>2. n + 1 + j \in 1 .. t - index
      <4>1. /\ n \in Nat /\ e \in Nat /\ x \in Nat /\ t - index = n + e + 2 * x + 5
        BY <1>2, <1>3
      <4>2. n + 1 + j \in 1 .. n + e + 2 * x + 5
        BY <4>1
      <4>3. QED
        BY <4>1, <4>2
    <3>3. QED
      BY <1>2, <3>1, <3>2
  <2>2. QED
    BY <2>1
<1>6. AuxCount(process.auxv) = x
  <2>1. /\ given.env \in Seq(Word) /\ given.aux \in Seq(Word \X Word)
        /\ \A k \in 1 .. e : given.env[k] # Zero
        /\ \A k \in 1 .. x : given.aux[k][1] # Zero
    BY GivenWords DEF DirectInv
  <2>2. Len(mem) \in Nat /\ n + e + 2 * x + 5 <= Len(mem)
    <3> HIDE DEF a, e, x, t
    <3>1. QED
      BY <1>2, SMTT(30)
  <2>3. Follow(n, given.env, given.aux)
    BY <1>5, <2>1, <2>2, Zenon DEF Follow
  <2>4. n \in Nat
    BY <1>3
  <2>5. process.auxv = n + e + 3
    BY <1>2
  <2> HIDE DEF n
  <2>6. AuxCount(n + e + 3) = x
    BY <2>1, <2>3, <2>4, AuxFound, Zenon
  <2>7. QED
    BY <2>5, <2>6
<1>7. DOMAIN mem = 1 .. t
  BY <1>2, LenProperties
<1> HIDE DEF a, e, x, t, n, b, path, kinds
<1>8. mem' = [k \in 1 .. t |->
                IF k - 2 \in kinds /\ word(k - 2) \in Patched
                THEN IF word(k - 2) = "AT_EXECFN" THEN path ELSE NewAux[word(k - 2)]
                ELSE mem[k]]
  <2>1. kinds = {process.auxv + 2 * i : i \in 0 .. AuxCount(process.auxv) - 1}
    BY <1>2, <1>6 DEF kinds
  <2>2. QED
    BY <1>2, <1>7, <2>1 DEF LoadExec
<1>9. path \in Word
  <2>1. given.args \in Seq(Word)
    BY GivenWords DEF DirectInv
  <2>2. index + 1 \in 1 .. Len(given.args)
    BY <1>2 DEF a
  <2>3. QED
    BY <2>1, <2>2, ElementOfSeq DEF path
<1>10. mem' \in Seq(Word) /\ Len(mem') = t
  <2>1. \A k \in 1 .. t : mem[k] \in Word
    BY <1>2, ElementOfSeq
  <2>2. \A k \in Patched : NewAux[k] \in Word
    BY DEF Word
  <2>3. mem' \in [1 .. t -> Word]
    BY <1>8, <1>9, <2>1, <2>2
  <2>4. QED
    BY <1>2, <2>3, FunctionIsSeq
<1>11. GivenInv' /\ Total' = t /\ NewArgs' = NewArgs /\ NewVector' = NewVector
  BY <1>1 DEF DirectInv, GivenInv, Total, NewArgs, NewVector, NewPair, t
<1>12. /\ Len(NewVector) = x
       /\ \A i \in 1 .. x :
            /\ PairWords(given.aux)[2 * i - 1] = given.aux[i][1]
            /\ PairWords(given.aux)[2 * i] = given.aux[i][2]
            /\ PairWords(NewVector)[2 * i - 1] = given.aux[i][1]
            /\ PairWords(NewVector)[2 * i] = NewPair(given.aux[i], path)[2]
  BY <1>2, NewVectorIs DEF DirectInv, x, path, a
<1>13. ASSUME NEW i \in 1 .. x
       PROVE  LET k == n + e + 2 * i + 3
              IN  /\ mem'[k] = At(NewArgs, given.env, NewVector, k)
                  /\ mem'[k - 1] = At(NewArgs, given.env, NewVector, k - 1)
  <2> DEFINE k == n + e + 2 * i + 3
             j == e + 2 * i + 2
  <2>1. /\ i \in Int /\ k \in 1 .. t /\ k - 1 \in 1 .. t /\ k - 2 \in kinds
        /\ k = n + 1 + j /\ k - 1 = n + 1 + (j - 1) /\ (k - 2) + 1 = k - 1
        /\ j \in 1 .. e + 2 * x + 4 /\ j - 1 \in 1 .. e + 2 * x + 4
    <3>1. i \in Int /\ k - 2 = b + 2 * (i - 1) /\ i - 1 \in 0 .. x - 1
      BY <1>2, <1>3 DEF b
    <3>2. k - 2 \in kinds
      BY <3>1 DEF kinds
    <3>3. QED
      BY <1>2, <1>3, <3>1, <3>2
  <2>2. k - 1 - 2 \notin kinds
    <3>1. SUFFICES ASSUME NEW m \in 0 .. x - 1, k - 1 - 2 = b + 2 * m
                   PROVE  FALSE
      BY DEF kinds
    <3>2. 2 * (i - 1) = 2 * m + 1
      BY <1>2, <1>3, <3>1 DEF b
    <3>3. QED
      BY <1>2, <3>2
  <2>3. ASSUME NEW aux, Len(aux) = x
        PROVE  /\ Behind(given.env, aux, j) = PairWords(aux)[2 * i]
               /\ Behind(given.env, aux, j - 1) = PairWords(aux)[2 * i - 1]
    <3>1. /\ j # 1 /\ ~ (j <= e + 1) /\ j # e + 2 /\ j <= e + 2 * x + 2 /\ j - e - 2 = 2 * i
          /\ j - 1 # 1 /\ ~ (j - 1 <= e + 1) /\ j - 1 # e + 2 /\ j - 1 <= e + 2 * x + 2
          /\ (j - 1) - e - 2 = 2 * i - 1
      BY <1>2
    <3> HIDE DEF j
    <3>2. QED
      BY <2>3, <3>1 DEF Behind, e
  <2>4. /\ mem[k] = given.aux[i][2] /\ mem[k - 1] = given.aux[i][1]
    <3> HIDE DEF k, j
    <3>1. /\ mem[n + 1 + j] = PairWords(given.aux)[2 * i]
          /\ mem[n + 1 + (j - 1)] = PairWords(given.aux)[2 * i - 1]
      BY <1>5, <2>1, <2>3 DEF x
    <3>2. QED
      BY <1>12, <2>1, <3>1
  <2>5. /\ At(NewArgs, given.env, NewVector, k) = NewPair(given.aux[i], path)[2]
        /\ At(NewArgs, given.env, NewVector, k - 1) = given.aux[i][1]
    <3> HIDE DEF k, j
    <3>1. /\ At(NewArgs, given.env, NewVector, n + 1 + j) = Behind(given.env, NewVector, j)
          /\ At(NewArgs, given.env, NewVector, n + 1 + (j - 1)) = Behind(given.env, NewVector, j - 1)
      BY <1>4, <1>12, <2>1
    <3>2. QED
      BY <1>12, <2>1, <2>3, <3>1
  <2> HIDE DEF k, j
  <2>6. word(k - 2) = given.aux[i][1]
    BY <2>1, <2>4 DEF word
  <2>7. mem'[k] = NewPair(given.aux[i], path)[2]
    BY <1>8, <2>1, <2>4, <2>6, DirectAssumption DEF NewPair
  <2>8. mem'[k - 1] = given.aux[i][1]
    BY <1>8, <2>1, <2>2, <2>4
  <2>9. QED
    BY <2>5, <2>7, <2>8 DEF k
<1>14. ASSUME NEW k \in 1 .. t - index, k <= n + e + 3 \/ k >= n + e + 2 * x + 4
       PROVE  mem'[k] = At(NewArgs, given.env, NewVector, k)
  <2>1. k \in 1 .. t /\ k \in Int
    BY <1>2
  <2>2. k - 2 \notin kinds
    <3>1. SUFFICES ASSUME NEW m \in 0 .. x - 1, k - 2 = b + 2 * m
                   PROVE  FALSE
      BY DEF kinds
    <3>2. QED
      BY <1>2, <1>3, <1>14, <2>1, <3>1 DEF b
  <2>3. mem'[k] = At(NewArgs, given.env, given.aux, k)
    BY <1>2, <1>8, <2>1, <2>2
  <2>4. CASE k <= n + 1
    BY <1>3, <2>3, <2>4 DEF At
  <2>5. CASE ~ (k <= n + 1)
    <3> DEFINE j == k - n - 1
    <3>2. /\ k = n + 1 + j /\ j \in 1 .. e + 2 * x + 4
      BY <1>2, <1>3, <1>14, <2>1, <2>5
    <3>3. /\ At(NewArgs, given.env, given.aux, k) = Behind(given.env, given.aux, j)
          /\ At(NewArgs, given.env, NewVector, k) = Behind(given.env, NewVector, j)
      <4> HIDE DEF j
      <4>1. QED
        BY <1>4, <1>12, <3>2 DEF x
    <3>4. \/ j <= e + 1
          \/ j = e + 2
          \/ j # 1 /\ ~ (j <= e + 1) /\ j # e + 2 /\ ~ (j <= e + 2 * x + 2)
      BY <1>2, <1>3, <1>14, <2>1, <2>5
    <3> HIDE DEF j
    <3>5. Behind(given.env, NewVector, j) = Behind(given.env, given.aux, j)
      BY <1>12, <3>4 DEF Behind, e, x
    <3>6. QED
      BY <2>3, <3>3, <3>5
  <2>6. QED
    BY <2>4, <2>5
<1>15. \A k \in 1 .. t - index : mem'[k] = At(NewArgs, given.env, NewVector, k)
  <2> SUFFICES ASSUME NEW k \in 1 .. t - index
               PROVE  mem'[k] = At(NewArgs, given.env, NewVector, k)
    OBVIOUS
  <2>1. CASE k <= n + e + 3 \/ k >= n + e + 2 * x + 4
    BY <1>14, <2>1
  <2>2. CASE ~ (k <= n + e + 3 \/ k >= n + e + 2 * x + 4)
    <3>1. PICK i \in 1 .. x : k = n + e + 2 * i + 3 \/ k = (n + e + 2 * i + 3) - 1
      <4> DEFINE q == k - n - e - 3
      <4>1. k \in Int /\ q \in Int /\ q \in 1 .. 2 * x
        BY <1>2, <1>3, <2>2
      <4> DEFINE i == (q + 1) \div 2
      <4>2. i \in 1 .. x /\ (q = 2 * i \/ q = 2 * i - 1)
        <5> HIDE DEF q
        <5>1. QED
          BY <1>2, <4>1
      <4>3. k = n + e + 2 * i + 3 \/ k = (n + e + 2 * i + 3) - 1
        <5> HIDE DEF i
        <5>1. QED
          BY <1>2, <1>3, <4>1, <4>2
      <4> HIDE DEF i
      <4>4. QED
        BY <4>2, <4>3
    <3>2. QED
      BY <1>13, <3>1
  <2>3. QED
    BY <2>1, <2>2
<1>16. WordsInv'
  <2>1. /\ stage' = "run" /\ argv0' \in Word /\ index' \in 1 .. Len(given'.args)
        /\ status' \in {0, 1, 127} /\ count' \in 0 .. t /\ moved' \in 0 .. count'
    BY <1>1 DEF DirectInv, WordsInv, t
  <2>2. QED
    BY <1>10, <1>11, <2>1 DEF WordsInv
<1>17. MemInv'
  BY <1>1, <1>2, <1>11, <1>15 DEF MemInv, path, a
<1>18. OptionsInv'
  BY <1>1, OptionsKept DEF DirectInv
<1>19. QED
  BY <1>11, <1>16, <1>17, <1>18 DEF DirectInv

\* The invariant is about the stack only.
LEMMA StackUnchanged ==
    ASSUME DirectInv, UNCHANGED stackVars
    PROVE  DirectInv'
<1>1. UNCHANGED <<mem, given, stage, index, argv0, moved, count, process, status>>
  BY DEF stackVars
<1>2. GivenInv'
  BY <1>1 DEF DirectInv, GivenInv
<1>3. /\ Total' = Total /\ NewArgs' = NewArgs /\ NewVector' = NewVector
      /\ \A k : KernelAt(k)' = KernelAt(k)
  BY <1>1 DEF Total, NewArgs, NewVector, NewPair, KernelAt
<1>4. WordsInv'
  BY <1>1, <1>3 DEF DirectInv, WordsInv
<1>5. MemInv'
  BY <1>1, <1>3 DEF DirectInv, MemInv
<1>6. OptionsRead' = OptionsRead
  BY <1>1 DEF OptionsRead
<1>7. OptionsInv'
  BY <1>1, <1>6 DEF DirectInv, OptionsInv
<1>8. QED
  BY <1>2, <1>4, <1>5, <1>7 DEF DirectInv

\* Every step keeps the invariant.
LEMMA DirectSteps ==
    ASSUME DirectInv, [DirectNext]_directVars
    PROVE  DirectInv'
<1>1. CASE NoProgram \/ Inform
  BY <1>1, ExitKeeps DEF NoProgram, Inform
<1>2. CASE Inspect
  BY <1>2, InspectKeeps
<1>3. CASE KeepInspecting
  BY <1>3, StackUnchanged DEF KeepInspecting
<1>4. CASE Inspected
  BY <1>4, ExitKeeps DEF Inspected
<1>5. CASE MissingValue \/ Unknown
  BY <1>5, ExitKeeps DEF MissingValue, Unknown
<1>6. CASE SetArgv0
  BY <1>6, SetArgv0Keeps
<1>7. CASE SkipOption
  BY <1>7, SkipOptionKeeps
<1>8. CASE Program
  BY <1>8, ProgramKeeps
<1>9. CASE Shift
  BY <1>9, ShiftKeeps
<1>10. CASE Shifted
  BY <1>10, ShiftedKeeps
<1>11. CASE LoadFails
  BY <1>11, ExitKeeps DEF LoadFails
<1>12. CASE LoadExec
  BY <1>12, LoadExecKeeps
<1>13. CASE UNCHANGED directVars
  BY <1>13, StackUnchanged DEF directVars
<1>14. QED
  BY <1>1, <1>2, <1>3, <1>4, <1>5, <1>6, <1>7, <1>8, <1>9, <1>10, <1>11, <1>12, <1>13
     DEF DirectNext, ReadCommandLine

\* The stack that the executable finds.
LEMMA InvStartedAsAsked == ASSUME DirectInv PROVE StartedAsAsked
<1>1. OptionsPrecede
  BY DEF DirectInv, OptionsInv, OptionsRead, Reads, OptionsPrecede
<1>2. StackTypeOK
  <2>1. Len(Layout(given.args, given.env, given.aux)) = Total
    BY KernelIs DEF DirectInv
  <2>2. QED
    BY <2>1 DEF DirectInv, WordsInv, StackTypeOK
<1>3. ASSUME stage = "run"
      PROVE  LET want == Layout(NewArgs, given.env, NewVector)
             IN  process.exec_path = given.args[index + 1] /\ Words(0, Len(want)) = want
  <2> DEFINE want == Layout(NewArgs, given.env, NewVector)
             s == Size(NewArgs, given.env, NewVector)
  <2>1. /\ process.exec_path = given.args[index + 1] /\ index < Len(given.args)
        /\ \A k \in 1 .. Total - index : mem[k] = At(NewArgs, given.env, NewVector, k)
    BY <1>3 DEF DirectInv, MemInv
  <2>2. index \in 1 .. Len(given.args) /\ argv0 \in Word /\ GivenInv
    BY DEF DirectInv, WordsInv
  <2>3. NewArgs \in Seq(Word) /\ Len(NewArgs) = Len(given.args) - index
    BY <2>1, <2>2, NewArgsAre
  <2>4. NewVector \in Seq(Word \X Word) /\ Len(NewVector) = Len(given.aux)
    BY <2>1, <2>2, NewVectorIs
  <2>5. IsLayout(Word, NewArgs, given.env, NewVector, want)
    BY <2>2, <2>3, <2>4, GivenWords, WordFacts, LayoutIs, Zenon
  <2>6. s = Total - index /\ s \in Nat
    <3> DEFINE a == Len(given.args)
               e == Len(given.env)
               x == Len(given.aux)
    <3>1. a \in Nat /\ e \in Nat /\ x \in Nat /\ Total = a + e + 2 * x + 5 /\ index \in 1 .. a
      BY <2>2, Sizes
    <3>2. s = (a - index) + e + 2 * x + 5
      BY <2>3, <2>4 DEF Size
    <3> HIDE DEF a, e, x, s
    <3>3. QED
      BY <3>1, <3>2
  <2>7. /\ want \in Seq(Word) /\ Len(want) = s
        /\ \A k \in 1 .. s : want[k] = At(NewArgs, given.env, NewVector, k)
    BY <2>5 DEF IsLayout
  <2> HIDE DEF want, s
  <2>8. want = [k \in 1 .. s |-> mem[k]]
    <3>1. want \in [1 .. s -> Word]
      BY <2>7, LenProperties
    <3>2. \A k \in 1 .. s : want[k] = mem[k]
      BY <2>1, <2>6, <2>7
    <3>3. QED
      BY <3>1, <3>2
  <2>9. Words(0, Len(want)) = [k \in 1 .. s |-> mem[k]]
    <3>1. s - 0 = s /\ \A k \in 1 .. s : (0 + k - 1) + 1 = k
      BY <2>6
    <3>2. QED
      BY <2>7, <3>1 DEF Words, word
  <2>10. QED
    BY <2>1, <2>8, <2>9 DEF want
<1>4. StackAsIfStarted
  BY <1>2, <1>3 DEF StackAsIfStarted, NewArgs, NewVector
<1>5. QED
  BY <1>1, <1>4 DEF StartedAsAsked

\* The inductive invariant of the command.
THEOREM DirectInvariant == DirectSpec => []DirectInv
<1>1. DirectInit => DirectInv
  BY DirectInitial
<1>2. DirectInv /\ [DirectNext]_directVars => DirectInv'
  BY DirectSteps
<1>3. QED
  BY <1>1, <1>2, PTL DEF DirectSpec

\* Whatever the command line, the environment and the auxiliary vector: the executable
\* that runs is the first word behind the options, and the stack that cli.rs and
\* stack.rs moved and patched in place is the one the kernel would have built for it.
THEOREM DirectStartedAsAsked == DirectSpec => []StartedAsAsked
<1>1. DirectInv => StartedAsAsked
  BY InvStartedAsAsked
<1>2. QED
  BY <1>1, DirectInvariant, PTL

-----------------------------------------------------------------------------
(* A whole run of the loader.                                              *)

\* Every step of a run is one of the startup or of the command, or changes nothing there.
LEMMA LaunchSteps ==
    ASSUME [LaunchNext]_launchVars
    PROVE  [Next]_vars /\ [DirectNext]_directVars
<1>1. CASE Begin
  BY <1>1 DEF Begin, Next
<1>2. CASE CommandLine
  BY <1>2 DEF CommandLine, DirectNext
<1>3. CASE Prepare
  BY <1>3 DEF Prepare, Next, DirectNext
<1>4. CASE PrepareMain
  BY <1>4 DEF PrepareMain, Next, DirectNext
<1>5. CASE Proceed
  BY <1>5 DEF Proceed, Next
<1>6. CASE CommandEnds \/ UNCHANGED launchVars
  BY <1>6 DEF CommandEnds, launchVars
<1>7. QED
  BY <1>1, <1>2, <1>3, <1>4, <1>5, <1>6 DEF LaunchNext

\* A whole run of the loader, in which the command line is read between two steps of the
\* startup and either side may end the other, is a behaviour of both models: what is
\* proved of each holds of prepare_direct_exec, where they meet.
THEOREM LaunchKeepsParts ==
    LaunchSpec => [](DebuggerSeesAll /\ FiniMatchesInit /\ StartedAsAsked)
<1>1. LaunchInit => Init /\ DirectInit
  BY DEF LaunchInit
<1>2. [LaunchNext]_launchVars => [Next]_vars /\ [DirectNext]_directVars
  BY LaunchSteps
<1>3. LaunchSpec => Spec /\ DirectSpec
  BY <1>1, <1>2, PTL DEF LaunchSpec, Spec, DirectSpec
<1>4. QED
  BY <1>3, StartupDebuggerSeesAll, StartupFiniMatchesInit, DirectStartedAsAsked, PTL
=============================================================================
