------------------------- MODULE SymbolScopesProofs -------------------------
(***************************************************************************)
(* The scopes of dlsym are right for any modules with any dependencies,    *)
(* however they are opened, promoted and closed: a load group is the least *)
(* set of modules with its root that is closed under dependencies, lookups *)
(* reach loaded modules only, RTLD_DEFAULT's answers are stable and chains *)
(* of RTLD_NEXT complete; and dlinfo answers with a module's own directory.*)
(***************************************************************************)
EXTENDS DlInfo, TLAPS, SequenceTheorems, FiniteSetTheorems, WellFoundedInduction

-----------------------------------------------------------------------------
(* Recursion along a sequence.                                             *)

\* A set of numbers has a least member.
LEMMA Least ==
    ASSUME NEW T \in SUBSET Nat, T # {}
    PROVE  \E x \in T : \A y \in T : x <= y
<1>1. \E x \in T : \A y \in T : ~ (<<y, x>> \in OpToRel(<, Nat))
  <2>1. IsWellFoundedOn(OpToRel(<, Nat), Nat)
    BY NatLessThanWellFounded
  <2>2. QED
    BY <2>1, WFMin
<1>2. PICK x \in T : \A y \in T : ~ (y < x)
  BY <1>1 DEF OpToRel
<1>3. QED
  BY <1>2

\* Induction up to n, for a set of numbers.
LEMMA UpTo ==
    ASSUME NEW n \in Nat, NEW P,
           0 \in P,
           \A k \in 1 .. n : k - 1 \in P => k \in P
    PROVE  \A k \in 0 .. n : k \in P
<1> DEFINE T == (0 .. n) \ P
<1> SUFFICES ASSUME T # {} PROVE FALSE
  OBVIOUS
<1>1. PICK x \in T : \A y \in T : x <= y
  <2>1. T \in SUBSET Nat
    OBVIOUS
  <2>2. QED
    BY <2>1, Least
<1>2. x \in 1 .. n /\ x - 1 \in 0 .. n /\ ~ (x <= x - 1)
  BY <1>1
<1>3. x - 1 \in P
  BY <1>1, <1>2
<1>4. QED
  BY <1>1, <1>2, <1>3

\* f takes the value v at 0 and from k - 1 to k the step F.
Runs(f, n, V, v, F) ==
    /\ f \in [0 .. n -> V]
    /\ f[0] = v
    /\ \A k \in 1 .. n : f[k] = F[<<k, f[k - 1]>>]

\* There is such a function for all v and F.
LEMMA RunExists ==
    ASSUME NEW n \in Nat, NEW V, NEW v \in V, NEW F \in [(1 .. n) \X V -> V]
    PROVE  \E f : Runs(f, n, V, v, F)
<1> DEFINE P == {k \in 0 .. n : \E f : Runs(f, k, V, v, F)}
<1>1. 0 \in P
  <2> DEFINE e == [m \in 0 .. 0 |-> v]
  <2>1. e \in [0 .. 0 -> V] /\ e[0] = v
    OBVIOUS
  <2>2. \A k \in 1 .. 0 : FALSE
    OBVIOUS
  <2>3. Runs(e, 0, V, v, F)
    BY <2>1, <2>2 DEF Runs
  <2>4. QED
    BY <2>3
<1>2. ASSUME NEW k \in 1 .. n, k - 1 \in P
      PROVE  k \in P
  <2>1. PICK f : Runs(f, k - 1, V, v, F)
    BY <1>2
  <2>2. /\ f \in [0 .. k - 1 -> V] /\ f[0] = v
        /\ \A m \in 1 .. k - 1 : f[m] = F[<<m, f[m - 1]>>]
    BY <2>1 DEF Runs
  <2> DEFINE w == F[<<k, f[k - 1]>>]
             g == [m \in 0 .. k |-> IF m = k THEN w ELSE f[m]]
  <2>3. w \in V
    <3>1. k - 1 \in 0 .. k - 1
      OBVIOUS
    <3>2. QED
      BY <2>2, <3>1
  <2> HIDE DEF w
  <2>4. /\ g[k] = w /\ g[0] = v
        /\ \A m \in 0 .. k - 1 : g[m] = f[m]
    BY <2>2
  <2>5. g \in [0 .. k -> V]
    <3>1. \A m \in 0 .. k : m = k \/ m \in 0 .. k - 1
      OBVIOUS
    <3>2. QED
      BY <2>2, <2>3, <3>1
  <2> HIDE DEF g
  <2>6. ASSUME NEW m \in 1 .. k
        PROVE  g[m] = F[<<m, g[m - 1]>>]
    <3>1. m - 1 \in 0 .. k - 1 /\ (m = k \/ (m \in 1 .. k - 1 /\ m \in 0 .. k - 1))
      OBVIOUS
    <3>2. g[m - 1] = f[m - 1]
      BY <2>4, <3>1
    <3>3. CASE m = k
      BY <2>4, <3>2, <3>3 DEF w
    <3>4. CASE m # k
      BY <2>2, <2>4, <3>1, <3>2, <3>4
    <3>5. QED
      BY <3>3, <3>4
  <2>7. Runs(g, k, V, v, F)
    BY <2>4, <2>5, <2>6 DEF Runs
  <2>8. QED
    BY <2>7
<1>3. n \in P
  <2> HIDE DEF P
  <2>1. n \in 0 .. n
    OBVIOUS
  <2>2. QED
    BY <1>1, <1>2, <2>1, UpTo
<1>4. QED
  BY <1>3

-----------------------------------------------------------------------------
(* What Extend and Retain make of sequences.                               *)

\* f takes the steps of Extend.
Extends(f, s, t) ==
    /\ f[0] = s
    /\ \A k \in 1 .. Len(t) :
         f[k] = IF In(t[k], f[k - 1]) THEN f[k - 1] ELSE Append(f[k - 1], t[k])

LEMMA ExtendDef ==
    ASSUME NEW s \in Seq(Modules), NEW t \in Seq(Modules)
    PROVE  \E f : Extends(f, s, t) /\ Extend(s, t) = f[Len(t)]
<1> DEFINE n == Len(t)
           V == Seq(Modules)
           Step(f) == [k \in 0 .. n |->
                         IF k = 0 THEN s
                         ELSE IF In(t[k], f[k - 1]) THEN f[k - 1] ELSE Append(f[k - 1], t[k])]
           F == CHOOSE f : f = Step(f)
           G == [p \in (1 .. n) \X V |->
                   IF In(t[p[1]], p[2]) THEN p[2] ELSE Append(p[2], t[p[1]])]
<1>1. n \in Nat /\ \A k \in 1 .. n : t[k] \in Modules
  OBVIOUS
<1>2. Extend(s, t) = F[n]
  BY DEF Extend
<1>3. G \in [(1 .. n) \X V -> V]
  <2>1. ASSUME NEW p \in (1 .. n) \X V
        PROVE  (IF In(t[p[1]], p[2]) THEN p[2] ELSE Append(p[2], t[p[1]])) \in V
    <3>1. p[2] \in V /\ t[p[1]] \in Modules
      BY <1>1
    <3>2. Append(p[2], t[p[1]]) \in V
      BY <3>1
    <3>3. QED
      BY <3>1, <3>2
  <2>2. QED
    BY <2>1
<1>4. PICK h : Runs(h, n, V, s, G)
  BY <1>1, <1>3, RunExists
<1>5. ASSUME NEW k \in 1 .. n, NEW q \in V
      PROVE  G[<<k, q>>] = IF In(t[k], q) THEN q ELSE Append(q, t[k])
  OBVIOUS
<1> HIDE DEF n, G, V
<1>6. h = Step(h)
  <2>1. h = [k \in 0 .. n |-> h[k]] /\ h[0] = s
    BY <1>4 DEF Runs
  <2>2. ASSUME NEW k \in 0 .. n, k # 0
        PROVE  h[k] = IF In(t[k], h[k - 1]) THEN h[k - 1] ELSE Append(h[k - 1], t[k])
    <3>1. k \in 1 .. n /\ k - 1 \in 0 .. n
      BY <1>1, <2>2
    <3>2. h[k - 1] \in V
      BY <1>4, <3>1 DEF Runs
    <3>3. h[k] = G[<<k, h[k - 1]>>]
      BY <1>4, <3>1 DEF Runs
    <3>4. QED
      BY <1>5, <3>1, <3>2, <3>3
  <2>3. QED
    BY <2>1, <2>2
<1>7. F = Step(F)
  BY <1>6
<1> HIDE DEF F
<1>8. Extends(F, s, t)
  <2>1. 0 \in 0 .. n /\ \A k \in 1 .. n : k \in 0 .. n /\ k # 0
    BY <1>1
  <2>2. F[0] = s
    BY <1>7, <2>1
  <2>3. ASSUME NEW k \in 1 .. n
        PROVE  F[k] = IF In(t[k], F[k - 1]) THEN F[k - 1] ELSE Append(F[k - 1], t[k])
    BY <1>7, <2>1
  <2>4. QED
    BY <2>2, <2>3 DEF Extends, n
<1>9. QED
  BY <1>2, <1>8 DEF n

\* f takes the steps of Retain.
Retains(f, s, kept) ==
    /\ f[0] = <<>>
    /\ \A k \in 1 .. Len(s) :
         f[k] = IF s[k] \in kept THEN Append(f[k - 1], s[k]) ELSE f[k - 1]

LEMMA RetainDef ==
    ASSUME NEW s \in Seq(Modules), NEW kept
    PROVE  \E f : Retains(f, s, kept) /\ Retain(s, kept) = f[Len(s)]
<1> DEFINE n == Len(s)
           V == Seq(Modules)
           Step(f) == [k \in 0 .. n |->
                         IF k = 0 THEN <<>>
                         ELSE IF s[k] \in kept THEN Append(f[k - 1], s[k]) ELSE f[k - 1]]
           F == CHOOSE f : f = Step(f)
           G == [p \in (1 .. n) \X V |->
                   IF s[p[1]] \in kept THEN Append(p[2], s[p[1]]) ELSE p[2]]
<1>1. n \in Nat /\ (\A k \in 1 .. n : s[k] \in Modules) /\ <<>> \in V
  OBVIOUS
<1>2. Retain(s, kept) = F[n]
  BY DEF Retain
<1>3. G \in [(1 .. n) \X V -> V]
  <2>1. ASSUME NEW p \in (1 .. n) \X V
        PROVE  (IF s[p[1]] \in kept THEN Append(p[2], s[p[1]]) ELSE p[2]) \in V
    <3>1. p[2] \in V /\ s[p[1]] \in Modules
      BY <1>1
    <3>2. Append(p[2], s[p[1]]) \in V
      BY <3>1
    <3>3. QED
      BY <3>1, <3>2
  <2>2. QED
    BY <2>1
<1>4. PICK h : Runs(h, n, V, <<>>, G)
  BY <1>1, <1>3, RunExists
<1>5. ASSUME NEW k \in 1 .. n, NEW q \in V
      PROVE  G[<<k, q>>] = IF s[k] \in kept THEN Append(q, s[k]) ELSE q
  OBVIOUS
<1> HIDE DEF n, G, V
<1>6. h = Step(h)
  <2>1. h = [k \in 0 .. n |-> h[k]] /\ h[0] = <<>>
    BY <1>4 DEF Runs
  <2>2. ASSUME NEW k \in 0 .. n, k # 0
        PROVE  h[k] = IF s[k] \in kept THEN Append(h[k - 1], s[k]) ELSE h[k - 1]
    <3>1. k \in 1 .. n /\ k - 1 \in 0 .. n
      BY <1>1, <2>2
    <3>2. h[k - 1] \in V
      BY <1>4, <3>1 DEF Runs
    <3>3. h[k] = G[<<k, h[k - 1]>>]
      BY <1>4, <3>1 DEF Runs
    <3>4. QED
      BY <1>5, <3>1, <3>2, <3>3
  <2>3. QED
    BY <2>1, <2>2
<1>7. F = Step(F)
  BY <1>6
<1> HIDE DEF F
<1>8. Retains(F, s, kept)
  <2>1. 0 \in 0 .. n /\ \A k \in 1 .. n : k \in 0 .. n /\ k # 0
    BY <1>1
  <2>2. F[0] = <<>>
    BY <1>7, <2>1
  <2>3. ASSUME NEW k \in 1 .. n
        PROVE  F[k] = IF s[k] \in kept THEN Append(F[k - 1], s[k]) ELSE F[k - 1]
    BY <1>7, <2>1
  <2>4. QED
    BY <2>2, <2>3 DEF Retains, n
<1>9. QED
  BY <1>2, <1>8 DEF n

\* Every module is in s once.
Once(s) == \A j, k \in 1 .. Len(s) : s[j] = s[k] => j = k

\* r begins with s.
Begins(s, r) == Len(s) <= Len(r) /\ \A j \in 1 .. Len(s) : r[j] = s[j]

LEMMA RangeOf ==
    ASSUME NEW S, NEW s \in Seq(S)
    PROVE  /\ Range(s) \subseteq S
           /\ \A m : m \in Range(s) <=> \E k \in 1 .. Len(s) : s[k] = m
BY DEF Range

LEMMA RangeIs ==
    ASSUME NEW s \in Seq(Modules)
    PROVE  /\ Range(s) \subseteq Modules
           /\ \A m : m \in Range(s) <=> \E k \in 1 .. Len(s) : s[k] = m
BY RangeOf

LEMMA EmptyIs == Once(<<>>) /\ Range(<<>>) = {} /\ <<>> \in Seq(Modules) /\ Len(<<>>) = 0
BY DEF Once, Range

LEMMA OneOf ==
    ASSUME NEW S, NEW m \in S
    PROVE  /\ <<m>> \in Seq(S) /\ Len(<<m>>) = 1 /\ <<m>>[1] = m
           /\ Once(<<m>>) /\ Range(<<m>>) = {m}
<1>1. <<m>> \in Seq(S) /\ Len(<<m>>) = 1 /\ <<m>>[1] = m
  OBVIOUS
<1>2. \A k \in 1 .. 1 : k = 1
  OBVIOUS
<1>3. Once(<<m>>)
  <2> DEFINE q == <<m>>
  <2>1. \A k \in 1 .. Len(q) : k = 1
    BY <1>1, <1>2
  <2> HIDE DEF q
  <2>2. Once(q)
    BY <2>1 DEF Once
  <2>3. QED
    BY <2>2 DEF q
<1>4. Range(<<m>>) = {m}
  BY <1>1, <1>2 DEF Range
<1>5. QED
  BY <1>1, <1>3, <1>4

LEMMA OneIs ==
    ASSUME NEW m \in Modules
    PROVE  /\ <<m>> \in Seq(Modules) /\ Len(<<m>>) = 1 /\ <<m>>[1] = m
           /\ Once(<<m>>) /\ Range(<<m>>) = {m}
BY OneOf

\* The places of a sequence that is longer by one.
LEMMA OneMore ==
    ASSUME NEW n \in Nat
    PROVE  /\ n + 1 \in 1 .. n + 1 /\ n + 1 \in Nat /\ n <= n + 1
           /\ \A m \in 1 .. n : m \in 1 .. n + 1 /\ m # n + 1 /\ m < n + 1
           /\ \A m \in 1 .. n + 1 : m = n + 1 \/ m \in 1 .. n
           /\ \A j, k \in 1 .. n + 1 : j < k => j \in 1 .. n
OBVIOUS

LEMMA AppendOf ==
    ASSUME NEW S, NEW s \in Seq(S), NEW m \in S
    PROVE  /\ Append(s, m) \in Seq(S)
           /\ Len(Append(s, m)) = Len(s) + 1
           /\ Append(s, m)[Len(s) + 1] = m
           /\ \A j \in 1 .. Len(s) : Append(s, m)[j] = s[j]
           /\ Range(Append(s, m)) = Range(s) \cup {m}
           /\ (Once(s) /\ m \notin Range(s)) => Once(Append(s, m))
<1> DEFINE n == Len(s)
           a == Append(s, m)
<1>1. /\ a \in Seq(S) /\ Len(a) = n + 1 /\ n \in Nat
      /\ a[n + 1] = m
      /\ \A j \in 1 .. n : a[j] = s[j]
  OBVIOUS
<1>2. \A x : x \in Range(s) <=> \E k \in 1 .. n : s[k] = x
  BY RangeOf
<1>3. \A x : x \in Range(a) <=> \E k \in 1 .. n + 1 : a[k] = x
  <2> HIDE DEF a, n
  <2>1. \A x : x \in Range(a) <=> \E k \in 1 .. Len(a) : a[k] = x
    BY <1>1, RangeOf
  <2>2. QED
    BY <1>1, <2>1
<1>4. Once(s) <=> \A j, k \in 1 .. n : s[j] = s[k] => j = k
  BY DEF Once
<1>5. Once(a) <=> \A j, k \in 1 .. n + 1 : a[j] = a[k] => j = k
  BY <1>1 DEF Once
<1> HIDE DEF n, a
<1>6. Range(a) = Range(s) \cup {m}
  BY <1>1, <1>2, <1>3, OneMore
<1>7. ASSUME Once(s), m \notin Range(s) PROVE Once(a)
  BY <1>1, <1>2, <1>4, <1>5, <1>7, OneMore
<1>8. QED
  BY <1>1, <1>6, <1>7 DEF n, a

LEMMA AppendIs ==
    ASSUME NEW s \in Seq(Modules), NEW m \in Modules
    PROVE  /\ Append(s, m) \in Seq(Modules)
           /\ Len(Append(s, m)) = Len(s) + 1
           /\ Append(s, m)[Len(s) + 1] = m
           /\ \A j \in 1 .. Len(s) : Append(s, m)[j] = s[j]
           /\ Range(Append(s, m)) = Range(s) \cup {m}
           /\ (Once(s) /\ m \notin Range(s)) => Once(Append(s, m))
BY AppendOf

\* Extend leaves s where it is and adds what is not there, once.
LEMMA ExtendIs ==
    ASSUME NEW s \in Seq(Modules), NEW t \in Seq(Modules)
    PROVE  /\ Extend(s, t) \in Seq(Modules)
           /\ Begins(s, Extend(s, t))
           /\ Range(Extend(s, t)) = Range(s) \cup Range(t)
           /\ Once(s) => Once(Extend(s, t))
<1> DEFINE n == Len(t)
<1>1. n \in Nat /\ \A k \in 1 .. n : t[k] \in Modules
  OBVIOUS
<1>2. PICK f : Extends(f, s, t) /\ Extend(s, t) = f[Len(t)]
  BY ExtendDef
<1>3. /\ f[0] = s
      /\ \A k \in 1 .. n :
           f[k] = IF In(t[k], f[k - 1]) THEN f[k - 1] ELSE Append(f[k - 1], t[k])
  BY <1>2 DEF Extends
<1> DEFINE Q(q, k) == /\ q \in Seq(Modules) /\ Begins(s, q)
                      /\ Range(q) = Range(s) \cup {t[j] : j \in 1 .. k}
                      /\ Once(s) => Once(q)
           P == {k \in 0 .. n : Q(f[k], k)}
<1>4. Range(t) = {t[j] : j \in 1 .. n}
  BY RangeIs
<1> HIDE DEF n
<1>5. 0 \in P
  <2>1. 0 \in 0 .. n /\ {t[j] : j \in 1 .. 0} = {}
    BY <1>1
  <2>2. Begins(s, s)
    BY DEF Begins
  <2>3. QED
    BY <1>3, <2>1, <2>2
<1>6. ASSUME NEW k \in 1 .. n, k - 1 \in P PROVE k \in P
  <2> DEFINE q == f[k - 1]
             m == t[k]
  <2>1. Q(q, k - 1)
    BY <1>6
  <2>2. m \in Modules /\ k \in 0 .. n
    BY <1>1
  <2>3. {t[j] : j \in 1 .. k} = {t[j] : j \in 1 .. k - 1} \cup {m}
    <3>1. \A j : j \in 1 .. k <=> (j \in 1 .. k - 1 \/ j = k)
      BY <1>1
    <3>2. QED
      BY <3>1
  <2>4. f[k] = IF In(m, q) THEN q ELSE Append(q, m)
    BY <1>3
  <2> HIDE DEF q, m
  <2>5. CASE In(m, q)
    <3>1. Q(f[k], k)
      BY <2>1, <2>3, <2>4, <2>5 DEF In
    <3>2. QED
      BY <2>2, <3>1
  <2>6. CASE ~ In(m, q)
    <3> DEFINE a == Append(q, m)
    <3>1. /\ a \in Seq(Modules) /\ Len(a) = Len(q) + 1
          /\ \A j \in 1 .. Len(q) : a[j] = q[j]
          /\ Range(a) = Range(q) \cup {m}
          /\ Once(q) => Once(a)
      BY <2>1, <2>2, <2>6, AppendIs DEF In
    <3>2. f[k] = a
      BY <2>4, <2>6
    <3> HIDE DEF a
    <3>3. Begins(s, a)
      <4>1. Len(s) \in Nat /\ Len(q) \in Nat
        BY <2>1
      <4>2. Len(s) <= Len(q) /\ \A j \in 1 .. Len(s) : j \in 1 .. Len(q) /\ q[j] = s[j]
        BY <2>1, <4>1 DEF Begins
      <4>3. Len(s) <= Len(a)
        BY <3>1, <4>1, <4>2
      <4>4. QED
        BY <3>1, <4>2, <4>3 DEF Begins
    <3>4. Range(a) = Range(s) \cup {t[j] : j \in 1 .. k}
      BY <2>1, <2>3, <3>1
    <3>5. Q(f[k], k)
      BY <2>1, <3>1, <3>2, <3>3, <3>4
    <3>6. QED
      BY <2>2, <3>5
  <2>7. QED
    BY <2>5, <2>6
<1>7. n \in P
  <2> HIDE DEF P
  <2>1. n \in 0 .. n
    BY <1>1
  <2>2. QED
    BY <1>1, <1>5, <1>6, <2>1, UpTo
<1>8. Q(f[n], n)
  BY <1>7
<1>9. QED
  BY <1>2, <1>4, <1>8 DEF n

\* Retain keeps the order: what is in front of another module was so in s.
InOrder(r, s) ==
    \A i, j \in 1 .. Len(r) : i < j =>
      \E a, b \in 1 .. Len(s) : a < b /\ s[a] = r[i] /\ s[b] = r[j]

\* Retain keeps the modules of a set, their order, and every one once.
LEMMA RetainIs ==
    ASSUME NEW s \in Seq(Modules), NEW kept
    PROVE  /\ Retain(s, kept) \in Seq(Modules)
           /\ Range(Retain(s, kept)) = Range(s) \cap kept
           /\ InOrder(Retain(s, kept), s)
           /\ Once(s) => Once(Retain(s, kept))
<1> DEFINE n == Len(s)
<1>1. n \in Nat /\ \A k \in 1 .. n : s[k] \in Modules
  OBVIOUS
<1>2. PICK f : Retains(f, s, kept) /\ Retain(s, kept) = f[Len(s)]
  BY RetainDef
<1>3. /\ f[0] = <<>>
      /\ \A k \in 1 .. n : f[k] = IF s[k] \in kept THEN Append(f[k - 1], s[k]) ELSE f[k - 1]
  BY <1>2 DEF Retains
<1> DEFINE Ordered(q, k) ==
             \A i, j \in 1 .. Len(q) : i < j =>
               \E a, b \in 1 .. k : a < b /\ s[a] = q[i] /\ s[b] = q[j]
           Q(q, k) == /\ q \in Seq(Modules)
                      /\ Range(q) = {s[j] : j \in 1 .. k} \cap kept
                      /\ Ordered(q, k)
                      /\ Once(s) => Once(q)
           P == {k \in 0 .. n : Q(f[k], k)}
<1>4. Range(s) = {s[j] : j \in 1 .. n}
  BY RangeIs
<1>5. Once(s) <=> \A j, k \in 1 .. n : s[j] = s[k] => j = k
  BY DEF Once
<1> HIDE DEF n
<1>6. 0 \in P
  <2>1. 0 \in 0 .. n /\ {s[j] : j \in 1 .. 0} = {}
    BY <1>1
  <2>2. Ordered(<<>>, 0)
    <3>1. \A i \in 1 .. Len(<<>>) : FALSE
      BY EmptyIs
    <3>2. QED
      BY <3>1
  <2> HIDE DEF Ordered
  <2>3. Q(<<>>, 0)
    BY <2>1, <2>2, EmptyIs
  <2>4. QED
    BY <1>3, <2>1, <2>3
<1>7. ASSUME NEW k \in 1 .. n, k - 1 \in P PROVE k \in P
  <2> DEFINE q == f[k - 1]
             m == s[k]
  <2>1. Q(q, k - 1)
    BY <1>7
  <2>2. m \in Modules /\ k \in 0 .. n
    BY <1>1
  <2>3. {s[j] : j \in 1 .. k} = {s[j] : j \in 1 .. k - 1} \cup {m}
    <3>1. \A j : j \in 1 .. k <=> (j \in 1 .. k - 1 \/ j = k)
      BY <1>1
    <3>2. QED
      BY <3>1
  <2>4. f[k] = IF m \in kept THEN Append(q, m) ELSE q
    BY <1>3
  <2>5. /\ k \in 1 .. k
        /\ \A j \in 1 .. k - 1 : j \in 1 .. k /\ j < k /\ j \in 1 .. n
    BY <1>1
  <2>6. Once(s) => m \notin {s[j] : j \in 1 .. k - 1}
    BY <1>5, <2>5
  <2> HIDE DEF q
  <2>7. Ordered(q, k)
    BY <2>1, <2>5
  <2> HIDE DEF m
  <2>8. CASE m \notin kept
    <3> HIDE DEF Ordered
    <3>1. Q(f[k], k)
      BY <2>1, <2>3, <2>4, <2>7, <2>8
    <3>2. QED
      BY <2>2, <3>1
  <2>9. CASE m \in kept
    <3> DEFINE a == Append(q, m)
               l == Len(q)
    <3>1. /\ a \in Seq(Modules) /\ Len(a) = l + 1
          /\ a[l + 1] = m /\ l \in Nat
          /\ \A j \in 1 .. l : a[j] = q[j]
          /\ Range(a) = Range(q) \cup {m}
          /\ (Once(q) /\ m \notin Range(q)) => Once(a)
      BY <2>1, <2>2, AppendIs
    <3>2. f[k] = a
      BY <2>4, <2>9
    <3>3. \A j \in 1 .. l : \E b \in 1 .. k - 1 : s[b] = q[j]
      <4>1. \A j \in 1 .. l : q[j] \in Range(q)
        BY <2>1, RangeIs DEF l
      <4>2. QED
        BY <2>1, <4>1
    <3>4. \A i, j \in 1 .. l : i < j => \E b, c \in 1 .. k : b < c /\ s[b] = q[i] /\ s[c] = q[j]
      BY <2>7
    <3> HIDE DEF a, l
    <3>5. ASSUME NEW i \in 1 .. l + 1, NEW j \in 1 .. l + 1, i < j
          PROVE  \E b, c \in 1 .. k : b < c /\ s[b] = a[i] /\ s[c] = a[j]
      <4>1. i \in 1 .. l /\ (j \in 1 .. l \/ j = l + 1)
        BY <3>1, <3>5, OneMore
      <4>2. CASE j \in 1 .. l
        <5>1. a[i] = q[i] /\ a[j] = q[j]
          BY <3>1, <4>1, <4>2
        <5>2. QED
          BY <3>4, <3>5, <4>1, <4>2, <5>1
      <4>3. CASE j = l + 1
        <5>1. PICK b \in 1 .. k - 1 : s[b] = q[i]
          BY <3>3, <4>1
        <5>2. b \in 1 .. k /\ b < k /\ s[b] = a[i] /\ s[k] = a[j]
          BY <2>5, <3>1, <4>1, <4>3, <5>1 DEF m
        <5>3. QED
          BY <2>5, <5>2
      <4>4. QED
        BY <4>1, <4>2, <4>3
    <3>6. Ordered(a, k)
      <4>1. SUFFICES ASSUME NEW i \in 1 .. Len(a), NEW j \in 1 .. Len(a), i < j
                     PROVE  \E b, c \in 1 .. k : b < c /\ s[b] = a[i] /\ s[c] = a[j]
        OBVIOUS
      <4>2. i \in 1 .. l + 1 /\ j \in 1 .. l + 1
        BY <3>1
      <4>3. QED
        BY <3>5, <4>1, <4>2
    <3> HIDE DEF Ordered
    <3>7. Range(a) = {s[j] : j \in 1 .. k} \cap kept
      BY <2>1, <2>3, <2>9, <3>1
    <3>8. Once(s) => Once(a)
      BY <2>1, <2>6, <3>1
    <3>9. Q(f[k], k)
      BY <3>1, <3>2, <3>6, <3>7, <3>8
    <3>10. QED
      BY <2>2, <3>9
  <2>10. QED
    BY <2>8, <2>9
<1>8. n \in P
  <2> HIDE DEF P
  <2>1. n \in 0 .. n
    BY <1>1
  <2>2. QED
    BY <1>1, <1>6, <1>7, <2>1, UpTo
<1>9. Q(f[n], n)
  BY <1>8
<1>10. QED
  BY <1>2, <1>4, <1>9 DEF n, InOrder

-----------------------------------------------------------------------------
(* A load group is the least set with its root that is closed under the    *)
(* dependencies.                                                           *)

\* A sequence without repetitions is as long as its range is large.
LEMMA OnceBound ==
    ASSUME NEW S, NEW s \in Seq(S), Once(s)
    PROVE  /\ Cardinality(Range(s)) = Len(s)
           /\ IsFiniteSet(S) => Len(s) <= Cardinality(S)
<1> DEFINE n == Len(s)
<1>1. n \in Nat /\ s \in [1 .. n -> S] /\ DOMAIN s = 1 .. n
  OBVIOUS
<1>2. \A j, k \in 1 .. n : s[j] = s[k] => j = k
  BY DEF Once
<1> HIDE DEF n
<1>3. IsFiniteSet(1 .. n) /\ Cardinality(1 .. n) = n
  BY <1>1, FS_Interval
<1>4. s \in Bijection(1 .. n, Range(s))
  <2>1. Range(s) = {s[k] : k \in 1 .. n}
    BY <1>1 DEF Range
  <2>2. s \in [1 .. n -> Range(s)] /\ IsInjective(s)
    BY <1>1, <1>2, <2>1 DEF IsInjective
  <2>3. QED
    BY <2>1, <2>2 DEF Bijection, Injection, Surjection
<1>5. Cardinality(Range(s)) = n
  BY <1>3, <1>4, FS_Bijection DEF ExistsBijection
<1>6. ASSUME IsFiniteSet(S) PROVE n <= Cardinality(S)
  <2>1. s \in Injection(1 .. n, S)
    BY <1>1, <1>2 DEF Injection, IsInjective
  <2>2. QED
    BY <1>3, <1>6, <2>1, FS_Injection
<1>7. QED
  BY <1>5, <1>6 DEF n

\* With a module its dependencies are in S.
Closed(S, d) == \A m \in S : Range(d[m]) \subseteq S

\* S is the least closed set with r.
IsGroup(r, S, d) ==
    /\ r \in S
    /\ Closed(S, d)
    /\ \A T \in SUBSET Modules : (r \in T /\ Closed(T, d)) => S \subseteq T

\* f takes the steps of LoadGroup.
Visits(f, r, d, n) ==
    /\ f[0] = <<r>>
    /\ \A k \in 1 .. n :
         f[k] = IF k > Len(f[k - 1]) THEN f[k - 1] ELSE Extend(f[k - 1], d[f[k - 1][k]])

LEMMA LoadGroupDef ==
    ASSUME NEW r \in Modules, NEW d \in [Modules -> Seq(Modules)]
    PROVE  \E f : /\ Visits(f, r, d, Cardinality(Modules))
                  /\ LoadGroup(r, d) = f[Cardinality(Modules)]
<1> DEFINE n == Cardinality(Modules)
           V == Seq(Modules)
           Visit(q, k) == IF k > Len(q) THEN q ELSE Extend(q, d[q[k]])
           Step(f) == [k \in 0 .. n |-> IF k = 0 THEN <<r>> ELSE Visit(f[k - 1], k)]
           F == CHOOSE f : f = Step(f)
           G == [p \in (1 .. n) \X V |-> Visit(p[2], p[1])]
<1>1. n \in Nat /\ <<r>> \in V
  BY ScopesAssumption, FS_CardinalityType
<1>2. LoadGroup(r, d) = F[n]
  BY DEF LoadGroup
<1>3. ASSUME NEW k \in 1 .. n, NEW q \in V
      PROVE  Visit(q, k) \in V
  <2>1. CASE k > Len(q)
    BY <2>1
  <2>2. CASE ~ k > Len(q)
    <3>1. Len(q) \in Nat /\ k \in Nat
      OBVIOUS
    <3>2. k \in 1 .. Len(q)
      BY <2>2, <3>1
    <3>3. d[q[k]] \in V
      BY <3>2
    <3>4. Extend(q, d[q[k]]) \in V
      BY <3>3, ExtendIs
    <3>5. QED
      BY <2>2, <3>4
  <2>3. QED
    BY <2>1, <2>2
<1> HIDE DEF n, V, Visit
<1>4. G \in [(1 .. n) \X V -> V]
  BY <1>3
<1>5. PICK h : Runs(h, n, V, <<r>>, G)
  BY <1>1, <1>4, RunExists
<1>6. ASSUME NEW k \in 1 .. n, NEW q \in V
      PROVE  G[<<k, q>>] = Visit(q, k)
  OBVIOUS
<1> HIDE DEF G
<1>7. h = Step(h)
  <2>1. h = [k \in 0 .. n |-> h[k]] /\ h[0] = <<r>>
    BY <1>5 DEF Runs
  <2>2. ASSUME NEW k \in 0 .. n, k # 0
        PROVE  h[k] = Visit(h[k - 1], k)
    <3>1. k \in 1 .. n /\ k - 1 \in 0 .. n
      BY <1>1, <2>2
    <3>2. h[k - 1] \in V
      BY <1>5, <3>1 DEF Runs
    <3>3. h[k] = G[<<k, h[k - 1]>>]
      BY <1>5, <3>1 DEF Runs
    <3>4. QED
      BY <1>6, <3>1, <3>2, <3>3
  <2>3. QED
    BY <2>1, <2>2
<1>8. F = Step(F)
  BY <1>7
<1> HIDE DEF F
<1>9. Visits(F, r, d, n)
  <2>1. 0 \in 0 .. n /\ \A k \in 1 .. n : k \in 0 .. n /\ k # 0
    BY <1>1
  <2>2. F[0] = <<r>>
    BY <1>8, <2>1
  <2>3. ASSUME NEW k \in 1 .. n
        PROVE  F[k] = Visit(F[k - 1], k)
    BY <1>8, <2>1
  <2>4. QED
    BY <2>2, <2>3 DEF Visits, Visit
<1>10. QED
  BY <1>2, <1>9 DEF n

\* The group of r has every module once, and is the least closed set with r.
LEMMA LoadGroupIs ==
    ASSUME NEW r \in Modules, NEW d \in [Modules -> Seq(Modules)]
    PROVE  /\ LoadGroup(r, d) \in Seq(Modules)
           /\ Once(LoadGroup(r, d))
           /\ LoadGroup(r, d) # <<>>
           /\ IsGroup(r, Range(LoadGroup(r, d)), d)
<1> DEFINE n == Cardinality(Modules)
<1>1. n \in Nat
  BY ScopesAssumption, FS_CardinalityType
<1>2. PICK f : Visits(f, r, d, n) /\ LoadGroup(r, d) = f[n]
  BY LoadGroupDef
<1>3. /\ f[0] = <<r>>
      /\ \A k \in 1 .. n :
           f[k] = IF k > Len(f[k - 1]) THEN f[k - 1] ELSE Extend(f[k - 1], d[f[k - 1][k]])
  BY <1>2 DEF Visits
<1> DEFINE Visited(q, k) == \A j \in 1 .. k : j <= Len(q) => Range(d[q[j]]) \subseteq Range(q)
           Within(q) == \A T \in SUBSET Modules :
                          (r \in T /\ Closed(T, d)) => Range(q) \subseteq T
           Q(q, k) == /\ q \in Seq(Modules) /\ Once(q) /\ r \in Range(q)
                      /\ Visited(q, k) /\ Within(q)
           P == {k \in 0 .. n : Q(f[k], k)}
<1> HIDE DEF n
<1>4. 0 \in P
  <2>1. Visited(<<r>>, 0)
    <3>1. \A j \in 1 .. 0 : FALSE
      OBVIOUS
    <3>2. QED
      BY <3>1
  <2>2. Within(<<r>>)
    BY OneIs
  <2> HIDE DEF Visited, Within
  <2>3. Q(f[0], 0)
    BY <1>3, <2>1, <2>2, OneIs
  <2>4. QED
    BY <1>1, <2>3
<1>5. ASSUME NEW k \in 1 .. n, k - 1 \in P PROVE k \in P
  <2> DEFINE q == f[k - 1]
  <2>1. Q(q, k - 1)
    BY <1>5
  <2>2. k \in Nat /\ k \in 0 .. n /\ Len(q) \in Nat
    BY <1>1, <2>1
  <2>3. f[k] = IF k > Len(q) THEN q ELSE Extend(q, d[q[k]])
    BY <1>3
  <2>4. \A j \in 1 .. k : j \in 1 .. k - 1 \/ j = k
    BY <2>2
  <2> HIDE DEF q
  <2>5. CASE k > Len(q)
    <3>1. Visited(q, k)
      BY <2>1, <2>2, <2>4, <2>5
    <3> HIDE DEF Visited, Within
    <3>2. Q(f[k], k)
      BY <2>1, <2>3, <2>5, <3>1
    <3>3. QED
      BY <2>2, <3>2
  <2>6. CASE k <= Len(q)
    <3> DEFINE m == q[k]
               e == Extend(q, d[m])
    <3>1. m \in Range(q) /\ m \in Modules /\ d[m] \in Seq(Modules)
      <4>1. k \in 1 .. Len(q)
        BY <2>2, <2>6
      <4>2. QED
        BY <2>1, <4>1, RangeIs
    <3>2. /\ e \in Seq(Modules) /\ Begins(q, e) /\ Once(e)
          /\ Range(e) = Range(q) \cup Range(d[m])
      BY <2>1, <3>1, ExtendIs
    <3>3. f[k] = e
      BY <2>2, <2>3, <2>6
    <3>4. \A j \in 1 .. Len(q) : e[j] = q[j]
      BY <3>2 DEF Begins
    <3>5. e[k] = m
      BY <2>2, <2>6, <3>4
    <3> HIDE DEF m, e
    <3>6. Visited(e, k)
      <4>1. SUFFICES ASSUME NEW j \in 1 .. k
                     PROVE  Range(d[e[j]]) \subseteq Range(e)
        OBVIOUS
      <4>2. CASE j = k
        BY <3>2, <3>5, <4>2
      <4>3. CASE j \in 1 .. k - 1
        <5>1. j \in 1 .. Len(q) /\ j <= Len(q)
          BY <2>2, <2>6, <4>3
        <5>2. Range(d[q[j]]) \subseteq Range(q)
          BY <2>1, <4>3, <5>1
        <5>3. e[j] = q[j]
          BY <3>4, <5>1
        <5>4. QED
          BY <3>2, <5>2, <5>3
      <4>4. QED
        BY <2>4, <4>2, <4>3
    <3>7. Within(e)
      BY <2>1, <3>1, <3>2 DEF Closed
    <3> HIDE DEF Visited, Within
    <3>8. Q(f[k], k)
      BY <2>1, <3>2, <3>3, <3>6, <3>7
    <3>9. QED
      BY <2>2, <3>8
  <2> HIDE DEF P
  <2>7. QED
    BY <2>2, <2>5, <2>6
<1>6. n \in P
  <2> HIDE DEF P
  <2>1. n \in 0 .. n
    BY <1>1
  <2>2. QED
    BY <1>1, <1>4, <1>5, <2>1, UpTo
<1> DEFINE g == f[n]
<1>7. Q(g, n)
  BY <1>6
<1> HIDE DEF g
<1>8. Closed(Range(g), d)
  <2>1. Len(g) <= n /\ Len(g) \in Nat
    BY <1>7, OnceBound, ScopesAssumption DEF n
  <2>2. SUFFICES ASSUME NEW m \in Range(g)
                 PROVE  Range(d[m]) \subseteq Range(g)
    BY DEF Closed
  <2>3. PICK j \in 1 .. Len(g) : g[j] = m
    BY <1>7, RangeIs
  <2>4. j \in 1 .. n /\ j <= Len(g)
    BY <1>1, <2>1
  <2>5. QED
    BY <1>7, <2>3, <2>4
<1>9. g # <<>>
  BY <1>7, EmptyIs
<1> HIDE DEF Visited
<1>10. QED
  BY <1>2, <1>7, <1>8, <1>9 DEF g, IsGroup

-----------------------------------------------------------------------------
(* The invariant of the scopes.                                            *)

Types ==
    /\ loaded \in Seq(Modules)
    /\ deps \in [Modules -> Seq(Modules)]
    /\ global \in Seq(Modules)
    /\ scope \in [Modules -> Seq(Modules)]
    /\ phase \in {"register", "run"}

NoRepetition == Once(loaded) /\ Once(global) /\ \A h \in Modules : Once(scope[h])

\* What is loaded has its dependencies with it: all that it needs, unless it is an
\* object of the process.
LoadedInv ==
    /\ Closed(Range(loaded), deps)
    /\ \A m \in Range(loaded) \ Range(Initial) : deps[m] = Needed[m]
    /\ Range(global) \subseteq Range(loaded)

\* The scope of an open handle is still the group of its module.
ScopeInv ==
    \A h \in Modules : scope[h] # <<>> =>
      h \in Range(loaded) /\ IsGroup(h, Range(scope[h]), deps)

PhaseInv ==
    /\ phase = "register" => Begins(loaded, Initial) /\ \A h \in Modules : scope[h] = <<>>
    /\ phase = "run" => Range(Initial) \subseteq Range(loaded)

Inv == Types /\ NoRepetition /\ LoadedInv /\ ScopeInv /\ PhaseInv

\* A group stays one as long as the dependencies of its members do.
LEMMA GroupKept ==
    ASSUME NEW r, NEW S \in SUBSET Modules, NEW d, NEW e,
           IsGroup(r, S, d), \A m \in S : e[m] = d[m]
    PROVE  IsGroup(r, S, e)
<1>1. r \in S /\ Closed(S, e)
  BY DEF IsGroup, Closed
<1>2. ASSUME NEW T \in SUBSET Modules, r \in T, Closed(T, e)
      PROVE  S \subseteq T
  <2>1. Closed(S \cap T, d)
    BY <1>2 DEF IsGroup, Closed
  <2>2. S \cap T \in SUBSET Modules /\ r \in S \cap T
    BY <1>1, <1>2
  <2>3. S \subseteq S \cap T
    BY <2>1, <2>2 DEF IsGroup
  <2>4. QED
    BY <2>3
<1>3. QED
  BY <1>1, <1>2 DEF IsGroup

\* A group is within every closed set with its root.
LEMMA GroupWithin ==
    ASSUME NEW r \in Modules, NEW d \in [Modules -> Seq(Modules)],
           NEW T \in SUBSET Modules, r \in T, Closed(T, d)
    PROVE  Range(LoadGroup(r, d)) \subseteq T
BY LoadGroupIs DEF IsGroup

LEMMA PromoteIs ==
    ASSUME NEW g \in Seq(Modules), Once(g), NEW r \in Modules,
           NEW d \in [Modules -> Seq(Modules)]
    PROVE  /\ PromoteGlobal(g, r, d) \in Seq(Modules)
           /\ Once(PromoteGlobal(g, r, d))
           /\ Begins(g, PromoteGlobal(g, r, d))
           /\ Range(PromoteGlobal(g, r, d)) = Range(g) \cup Range(LoadGroup(r, d))
BY LoadGroupIs, ExtendIs DEF PromoteGlobal

LEMMA InvInit == Init => Inv
<1> SUFFICES ASSUME Init PROVE Inv
  OBVIOUS
<1>1. loaded = <<>> /\ global = <<>> /\ phase = "register" /\ \A h \in Modules : scope[h] = <<>>
  BY DEF Init
<1>2. Types
  BY EmptyIs DEF Init, Types
<1>3. NoRepetition
  BY <1>1, EmptyIs DEF NoRepetition
<1>4. LoadedInv
  BY <1>1, EmptyIs DEF LoadedInv, Closed
<1>5. ScopeInv
  BY <1>1 DEF ScopeInv
<1>6. PhaseInv
  <2>1. Begins(<<>>, Initial)
    BY ScopesAssumption, EmptyIs DEF Begins
  <2>2. QED
    BY <1>1, <2>1 DEF PhaseInv
<1>7. QED
  BY <1>2, <1>3, <1>4, <1>5, <1>6 DEF Inv

LEMMA InvRegister ==
    ASSUME Inv, RegisterLoaded
    PROVE  Inv'
<1> DEFINE n == Len(loaded)
           m == Initial[n + 1]
           d == [deps EXCEPT ![m] = Retain(Needed[m], Range(loaded))]
<1>1. /\ phase = "register" /\ n < Len(Initial)
      /\ deps' = d /\ loaded' = Append(loaded, m) /\ global' = PromoteGlobal(global, m, d)
      /\ scope' = scope /\ phase' = "register"
  BY DEF RegisterLoaded
<1>2. /\ n \in Nat /\ n + 1 \in 1 .. Len(Initial) /\ m \in Modules
      /\ Initial \in Seq(Modules)
      /\ Begins(loaded, Initial)
  BY <1>1, ScopesAssumption DEF Inv, Types, PhaseInv
<1>3. Range(Needed[m]) \subseteq Modules /\ Needed[m] \in Seq(Modules)
  BY <1>2, ScopesAssumption, RangeIs
<1>4. m \notin Range(loaded)
  <2>1. SUFFICES ASSUME NEW k \in 1 .. n, loaded[k] = m
                 PROVE  FALSE
    BY RangeIs DEF Inv, Types
  <2>2. Initial[k] = Initial[n + 1]
    BY <1>2, <2>1 DEF Begins
  <2>3. k \in DOMAIN Initial /\ n + 1 \in DOMAIN Initial /\ k # n + 1
    BY <1>1, <1>2
  <2>4. QED
    BY <2>2, <2>3, ScopesAssumption
<1>5. m \in Range(Initial)
  BY <1>2, RangeIs
<1>6. d \in [Modules -> Seq(Modules)]
  BY <1>2, <1>3, RetainIs DEF Inv, Types
<1>7. Range(d[m]) \subseteq Range(loaded) /\ \A x \in Modules : x # m => d[x] = deps[x]
  BY <1>2, <1>3, RetainIs DEF Inv, Types
<1> HIDE DEF d, m
<1>8. /\ loaded' \in Seq(Modules) /\ Once(loaded')
      /\ Range(loaded') = Range(loaded) \cup {m}
      /\ Range(loaded) \subseteq Modules
      /\ Len(loaded') = n + 1 /\ loaded'[n + 1] = m
      /\ \A j \in 1 .. n : loaded'[j] = loaded[j]
  BY <1>1, <1>2, <1>4, AppendIs, RangeIs DEF Inv, Types, NoRepetition
<1>9. Closed(Range(loaded'), deps')
  <2>1. Closed(Range(loaded), deps)
    BY DEF Inv, LoadedInv
  <2>2. QED
    BY <1>1, <1>4, <1>7, <1>8, <2>1 DEF Closed
<1>10. /\ global' \in Seq(Modules) /\ Once(global')
       /\ Range(global') \subseteq Range(loaded')
  <2>1. /\ global' \in Seq(Modules) /\ Once(global')
        /\ Range(global') = Range(global) \cup Range(LoadGroup(m, d))
    BY <1>1, <1>2, <1>6, PromoteIs DEF Inv, Types, NoRepetition
  <2>2. Range(LoadGroup(m, d)) \subseteq Range(loaded')
    <3> DEFINE L == Range(loaded')
    <3>1. L \in SUBSET Modules /\ m \in L /\ Closed(L, d)
      BY <1>1, <1>2, <1>8, <1>9
    <3> HIDE DEF L
    <3>2. Range(LoadGroup(m, d)) \subseteq L
      BY <1>2, <1>6, <3>1, GroupWithin
    <3>3. QED
      BY <3>2 DEF L
  <2>3. QED
    BY <1>8, <2>1, <2>2 DEF Inv, LoadedInv
<1>11. Types' /\ NoRepetition'
  BY <1>1, <1>6, <1>8, <1>10 DEF Inv, Types, NoRepetition
<1>12. LoadedInv'
  <2>1. \A x \in Range(loaded') \ Range(Initial) : deps'[x] = Needed[x]
    BY <1>1, <1>5, <1>7, <1>8 DEF Inv, LoadedInv
  <2>2. QED
    BY <1>9, <1>10, <2>1 DEF LoadedInv
<1>13. ScopeInv' /\ \A h \in Modules : scope'[h] = <<>>
  BY <1>1 DEF Inv, PhaseInv, ScopeInv
<1>14. PhaseInv'
  <2>1. Begins(loaded', Initial)
    <3>1. \A j \in 1 .. n + 1 : j = n + 1 \/ j \in 1 .. n
      BY <1>2, OneMore
    <3>2. \A j \in 1 .. n : Initial[j] = loaded[j]
      BY <1>2 DEF Begins
    <3>3. n + 1 <= Len(Initial)
      BY <1>2
    <3>4. \A j \in 1 .. n + 1 : Initial[j] = loaded'[j]
      BY <1>8, <3>1, <3>2 DEF m
    <3>5. QED
      BY <1>8, <3>3, <3>4 DEF Begins
  <2>2. QED
    BY <1>1, <1>13, <2>1 DEF PhaseInv
<1>15. QED
  BY <1>11, <1>12, <1>13, <1>14 DEF Inv

LEMMA InvEndRegister ==
    ASSUME Inv, EndRegister
    PROVE  Inv'
<1>1. /\ loaded' = loaded /\ deps' = deps /\ global' = global /\ scope' = scope
      /\ phase' = "run" /\ phase = "register" /\ Len(loaded) = Len(Initial)
  BY DEF EndRegister
<1>2. Range(Initial) \subseteq Range(loaded)
  <2>1. \A j \in 1 .. Len(Initial) : Initial[j] = loaded[j]
    BY <1>1 DEF Inv, PhaseInv, Begins
  <2>2. QED
    <3>1. \A x \in Range(Initial) : \E j \in 1 .. Len(Initial) : Initial[j] = x
      BY ScopesAssumption, RangeIs
    <3>2. \A j \in 1 .. Len(loaded) : loaded[j] \in Range(loaded)
      BY RangeIs DEF Inv, Types
    <3>3. QED
      BY <1>1, <2>1, <3>1, <3>2
<1>3. Types' /\ NoRepetition' /\ LoadedInv' /\ ScopeInv'
  BY <1>1 DEF Inv, Types, NoRepetition, LoadedInv, ScopeInv
<1>4. PhaseInv'
  BY <1>1, <1>2 DEF PhaseInv
<1>5. QED
  BY <1>3, <1>4 DEF Inv

LEMMA InvOpenNew ==
    ASSUME Inv, NEW r \in Modules, NEW g \in BOOLEAN, OpenNew(r, g)
    PROVE  Inv'
<1> DEFINE d0 == [m \in Modules |-> IF In(m, loaded) THEN deps[m] ELSE Needed[m]]
           group == LoadGroup(r, d0)
           d == [m \in Modules |->
                   IF In(m, group) /\ ~ In(m, loaded) THEN Needed[m] ELSE deps[m]]
<1>1. /\ phase = "run" /\ r \notin Range(loaded)
      /\ deps' = d /\ loaded' = Extend(loaded, group)
      /\ global' = IF g THEN PromoteGlobal(global, r, d) ELSE global
      /\ scope' = [scope EXCEPT ![r] = LoadGroup(r, d)]
      /\ phase' = "run"
  BY DEF OpenNew, In
<1>2. /\ d0 \in [Modules -> Seq(Modules)]
      /\ \A m \in Modules : d0[m] = IF m \in Range(loaded) THEN deps[m] ELSE Needed[m]
  BY ScopesAssumption DEF Inv, Types, In
<1> HIDE DEF d0
<1>3. /\ group \in Seq(Modules) /\ IsGroup(r, Range(group), d0)
      /\ Range(group) \subseteq Modules
  BY <1>2, LoadGroupIs, RangeIs
<1> HIDE DEF group
<1>4. /\ d \in [Modules -> Seq(Modules)]
      /\ \A m \in Modules :
           d[m] = IF m \in Range(group) /\ m \notin Range(loaded) THEN Needed[m] ELSE deps[m]
  BY ScopesAssumption DEF Inv, Types, In
<1> HIDE DEF d
<1> DEFINE L == Range(loaded) \cup Range(group)
<1>5. /\ loaded' \in Seq(Modules) /\ Once(loaded') /\ Range(loaded') = L
      /\ L \subseteq Modules /\ Range(loaded) \subseteq Modules
  BY <1>1, <1>3, ExtendIs, RangeIs DEF Inv, Types, NoRepetition
<1>6. Closed(L, d)
  <2>1. SUFFICES ASSUME NEW m \in L PROVE Range(d[m]) \subseteq L
    BY DEF Closed
  <2>2. CASE m \in Range(loaded)
    <3>1. Range(deps[m]) \subseteq Range(loaded)
      BY <2>2 DEF Inv, LoadedInv, Closed
    <3>2. QED
      BY <1>4, <1>5, <2>2, <3>1
  <2>3. CASE m \notin Range(loaded)
    <3>1. m \in Range(group) /\ m \in Modules
      BY <1>3, <2>3
    <3>2. d[m] = d0[m]
      BY <1>2, <1>4, <2>3, <3>1
    <3>3. Range(d0[m]) \subseteq Range(group)
      BY <1>3, <3>1 DEF IsGroup, Closed
    <3>4. QED
      BY <3>2, <3>3
  <2>4. QED
    BY <2>2, <2>3
<1>7. r \in L
  BY <1>3 DEF IsGroup
<1>8. /\ LoadGroup(r, d) \in Seq(Modules) /\ Once(LoadGroup(r, d))
      /\ IsGroup(r, Range(LoadGroup(r, d)), d)
  BY <1>4, LoadGroupIs
<1>9. Range(LoadGroup(r, d)) \subseteq L
  <2> HIDE DEF L
  <2>1. L \in SUBSET Modules
    BY <1>5
  <2>2. QED
    BY <1>4, <1>6, <1>7, <2>1, GroupWithin
<1>10. /\ global' \in Seq(Modules) /\ Once(global')
       /\ Range(global') \subseteq L
  <2>1. global \in Seq(Modules) /\ Once(global) /\ Range(global) \subseteq L
    BY DEF Inv, Types, NoRepetition, LoadedInv
  <2>2. CASE g
    BY <1>1, <1>4, <1>9, <2>1, <2>2, PromoteIs
  <2>3. CASE ~ g
    BY <1>1, <2>1, <2>3
  <2>4. QED
    BY <2>2, <2>3
<1>11. /\ scope' \in [Modules -> Seq(Modules)]
       /\ scope'[r] = LoadGroup(r, d)
       /\ \A h \in Modules : h # r => scope'[h] = scope[h]
  BY <1>1, <1>8 DEF Inv, Types
<1> HIDE DEF L
<1>12. Types'
  BY <1>1, <1>4, <1>5, <1>10, <1>11 DEF Types
<1>13. NoRepetition'
  BY <1>5, <1>8, <1>10, <1>11 DEF Inv, NoRepetition
<1>14. LoadedInv'
  <2>1. \A x \in L \ Range(Initial) : d[x] = Needed[x]
    BY <1>4, <1>5 DEF L, Inv, LoadedInv
  <2>2. QED
    BY <1>1, <1>5, <1>6, <1>10, <2>1 DEF LoadedInv
<1>15. ScopeInv'
  <2>1. SUFFICES ASSUME NEW h \in Modules, scope'[h] # <<>>
                 PROVE  h \in Range(loaded') /\ IsGroup(h, Range(scope'[h]), deps')
    BY DEF ScopeInv
  <2>2. CASE h = r
    BY <1>1, <1>5, <1>7, <1>8, <1>11, <2>2
  <2>3. CASE h # r
    <3>1. scope'[h] = scope[h] /\ h \in Range(loaded) /\ IsGroup(h, Range(scope[h]), deps)
      BY <1>11, <2>1, <2>3 DEF Inv, ScopeInv
    <3>2. Range(scope[h]) \subseteq Range(loaded)
      BY <1>5, <3>1 DEF Inv, LoadedInv, IsGroup
    <3>3. \A m \in Range(scope[h]) : d[m] = deps[m]
      BY <1>4, <1>5, <3>2
    <3>4. IsGroup(h, Range(scope[h]), d)
      <4>1. Range(scope[h]) \in SUBSET Modules
        BY <1>5, <3>2
      <4>2. QED
        BY <3>1, <3>3, <4>1, GroupKept
    <3>5. QED
      BY <1>1, <1>5, <3>1, <3>4 DEF L
  <2>4. QED
    BY <2>2, <2>3
<1>16. PhaseInv'
  BY <1>1, <1>5 DEF Inv, PhaseInv, L
<1>17. QED
  BY <1>12, <1>13, <1>14, <1>15, <1>16 DEF Inv

LEMMA InvOpenLoaded ==
    ASSUME Inv, NEW m \in Modules, NEW g \in BOOLEAN, OpenLoaded(m, g)
    PROVE  Inv'
<1>1. /\ phase = "run" /\ m \in Range(loaded)
      /\ global' = IF g THEN PromoteGlobal(global, m, deps) ELSE global
      /\ scope' = IF scope[m] = <<>> THEN [scope EXCEPT ![m] = LoadGroup(m, deps)] ELSE scope
      /\ loaded' = loaded /\ deps' = deps /\ phase' = phase
  BY DEF OpenLoaded, In
<1>2. /\ deps \in [Modules -> Seq(Modules)] /\ scope \in [Modules -> Seq(Modules)]
      /\ Range(loaded) \in SUBSET Modules /\ Closed(Range(loaded), deps)
  BY RangeIs DEF Inv, Types, LoadedInv
<1>3. /\ LoadGroup(m, deps) \in Seq(Modules) /\ Once(LoadGroup(m, deps))
      /\ IsGroup(m, Range(LoadGroup(m, deps)), deps)
  BY <1>2, LoadGroupIs
<1>4. Range(LoadGroup(m, deps)) \subseteq Range(loaded)
  BY <1>1, <1>2, GroupWithin
<1>5. /\ global' \in Seq(Modules) /\ Once(global')
      /\ Range(global') \subseteq Range(loaded)
  <2>1. global \in Seq(Modules) /\ Once(global) /\ Range(global) \subseteq Range(loaded)
    BY DEF Inv, Types, NoRepetition, LoadedInv
  <2>2. CASE g
    BY <1>1, <1>2, <1>4, <2>1, <2>2, PromoteIs
  <2>3. CASE ~ g
    BY <1>1, <2>1, <2>3
  <2>4. QED
    BY <2>2, <2>3
<1>6. /\ scope' \in [Modules -> Seq(Modules)]
      /\ scope'[m] = IF scope[m] = <<>> THEN LoadGroup(m, deps) ELSE scope[m]
      /\ \A h \in Modules : h # m => scope'[h] = scope[h]
  <2>1. CASE scope[m] = <<>>
    BY <1>1, <1>2, <1>3, <2>1
  <2>2. CASE scope[m] # <<>>
    BY <1>1, <1>2, <2>2
  <2>3. QED
    BY <2>1, <2>2
<1>7. Types' /\ NoRepetition'
  <2>1. Types'
    BY <1>1, <1>5, <1>6 DEF Inv, Types
  <2>2. NoRepetition'
    BY <1>1, <1>3, <1>5, <1>6 DEF Inv, NoRepetition
  <2>3. QED
    BY <2>1, <2>2
<1>8. LoadedInv'
  BY <1>1, <1>5 DEF Inv, LoadedInv
<1>9. ScopeInv'
  <2>1. SUFFICES ASSUME NEW h \in Modules, scope'[h] # <<>>
                 PROVE  h \in Range(loaded) /\ IsGroup(h, Range(scope'[h]), deps)
    BY <1>1 DEF ScopeInv
  <2>2. CASE scope'[h] = scope[h]
    BY <2>1, <2>2 DEF Inv, ScopeInv
  <2>3. CASE h = m /\ scope'[h] = LoadGroup(m, deps)
    BY <1>1, <1>3, <2>3
  <2>4. QED
    BY <1>6, <2>2, <2>3
<1>10. PhaseInv'
  BY <1>1 DEF Inv, PhaseInv
<1>11. QED
  BY <1>7, <1>8, <1>9, <1>10 DEF Inv

\* What Close keeps: the groups of the objects of the process and of the modules that
\* are still open.
Kept(m) ==
    UNION {Range(LoadGroup(n, deps)) :
             n \in Range(Initial) \cup {n \in Modules \ {m} : scope[n] # <<>>}}

LEMMA KeptIs ==
    ASSUME Inv, NEW m \in Modules
    PROVE  /\ Closed(Kept(m), deps)
           /\ Range(Initial) \subseteq Kept(m)
           /\ \A h \in Modules : (h # m /\ scope[h] # <<>>) => h \in Kept(m)
<1> DEFINE roots == Range(Initial) \cup {n \in Modules \ {m} : scope[n] # <<>>}
<1>1. roots \subseteq Modules /\ Kept(m) = UNION {Range(LoadGroup(n, deps)) : n \in roots}
  BY ScopesAssumption, RangeIs DEF Kept
<1>2. \A n \in roots : IsGroup(n, Range(LoadGroup(n, deps)), deps)
  BY <1>1, LoadGroupIs DEF Inv, Types
<1>3. \A h \in Modules : (h # m /\ scope[h] # <<>>) => h \in roots
  OBVIOUS
<1>4. Range(Initial) \subseteq roots
  OBVIOUS
<1> HIDE DEF roots
<1>5. Closed(Kept(m), deps)
  BY <1>1, <1>2 DEF Closed, IsGroup
<1>6. \A n \in roots : n \in Kept(m)
  BY <1>1, <1>2 DEF IsGroup
<1>7. QED
  BY <1>3, <1>4, <1>5, <1>6

LEMMA InvClose ==
    ASSUME Inv, NEW m \in Modules, Close(m)
    PROVE  Inv'
<1> DEFINE K == Kept(m)
<1>1. /\ phase = "run" /\ phase' = "run"
      /\ loaded' = Retain(loaded, K) /\ global' = Retain(global, K)
      /\ scope' = [scope EXCEPT ![m] = <<>>]
      /\ deps' = [n \in Modules |-> IF n \in K THEN deps[n] ELSE <<>>]
  BY DEF Close, Kept
<1>2. /\ Closed(K, deps) /\ Range(Initial) \subseteq K
      /\ \A h \in Modules : (h # m /\ scope[h] # <<>>) => h \in K
  BY KeptIs
<1> HIDE DEF K
<1>3. /\ loaded \in Seq(Modules) /\ global \in Seq(Modules)
      /\ deps \in [Modules -> Seq(Modules)] /\ scope \in [Modules -> Seq(Modules)]
      /\ Once(loaded) /\ Once(global)
      /\ Range(loaded) \subseteq Modules
  BY RangeIs DEF Inv, Types, NoRepetition
<1>4. /\ loaded' \in Seq(Modules) /\ Once(loaded') /\ Range(loaded') = Range(loaded) \cap K
  BY <1>1, <1>3, RetainIs
<1>5. /\ global' \in Seq(Modules) /\ Once(global') /\ Range(global') = Range(global) \cap K
  BY <1>1, <1>3, RetainIs
<1>6. /\ deps' \in [Modules -> Seq(Modules)]
      /\ \A n \in Modules : n \in K => deps'[n] = deps[n]
  BY <1>1, <1>3, EmptyIs
<1>7. /\ scope' \in [Modules -> Seq(Modules)] /\ scope'[m] = <<>>
      /\ \A h \in Modules : h # m => scope'[h] = scope[h]
  BY <1>1, <1>3, EmptyIs
<1>8. Types'
  BY <1>1, <1>4, <1>5, <1>6, <1>7 DEF Types
<1>9. NoRepetition'
  BY <1>4, <1>5, <1>7, EmptyIs DEF Inv, NoRepetition
<1>10. LoadedInv'
  <2>1. Closed(Range(loaded'), deps')
    BY <1>2, <1>3, <1>4, <1>6 DEF Inv, LoadedInv, Closed
  <2>2. \A x \in Range(loaded') \ Range(Initial) : deps'[x] = Needed[x]
    BY <1>3, <1>4, <1>6 DEF Inv, LoadedInv
  <2>3. Range(global') \subseteq Range(loaded')
    BY <1>4, <1>5 DEF Inv, LoadedInv
  <2>4. QED
    BY <2>1, <2>2, <2>3 DEF LoadedInv
<1>11. ScopeInv'
  <2>1. SUFFICES ASSUME NEW h \in Modules, scope'[h] # <<>>
                 PROVE  h \in Range(loaded') /\ IsGroup(h, Range(scope'[h]), deps')
    BY DEF ScopeInv
  <2>2. h # m /\ scope'[h] = scope[h] /\ scope[h] # <<>>
    BY <1>7, <2>1
  <2>3. h \in Range(loaded) /\ IsGroup(h, Range(scope[h]), deps)
    BY <2>2 DEF Inv, ScopeInv
  <2>4. h \in K /\ h \in Range(loaded')
    BY <1>2, <1>4, <2>2, <2>3
  <2>5. Range(scope[h]) \subseteq Modules /\ Range(scope[h]) \subseteq K
    <3>1. Range(scope[h]) \subseteq Range(loaded)
      BY <1>3, <2>3 DEF Inv, LoadedInv, IsGroup
    <3>2. K \cap Modules \in SUBSET Modules /\ h \in K \cap Modules
      BY <2>4
    <3>3. Closed(K \cap Modules, deps)
      <4>1. \A x \in Modules : Range(deps[x]) \subseteq Modules
        BY <1>3, RangeIs
      <4>2. QED
        BY <1>2, <4>1 DEF Closed
    <3>4. Range(scope[h]) \subseteq K \cap Modules
      BY <2>3, <3>2, <3>3 DEF IsGroup
    <3>5. QED
      BY <3>4
  <2>6. IsGroup(h, Range(scope[h]), deps')
    <3> DEFINE e == deps'
    <3>1. \A x \in Range(scope[h]) : e[x] = deps[x]
      BY <1>6, <2>5
    <3>2. Range(scope[h]) \in SUBSET Modules
      BY <2>5
    <3> HIDE DEF e
    <3>3. IsGroup(h, Range(scope[h]), e)
      BY <2>3, <3>1, <3>2, GroupKept
    <3>4. QED
      BY <3>3 DEF e
  <2>7. QED
    BY <2>2, <2>4, <2>6
<1>12. PhaseInv'
  BY <1>1, <1>2, <1>4 DEF Inv, PhaseInv
<1>13. QED
  BY <1>8, <1>9, <1>10, <1>11, <1>12 DEF Inv

\* Every step keeps the invariant.
LEMMA InvStep == Inv /\ [Next]_vars => Inv'
<1> SUFFICES ASSUME Inv, [Next]_vars PROVE Inv'
  OBVIOUS
<1>1. CASE RegisterLoaded
  BY <1>1, InvRegister
<1>2. CASE EndRegister
  BY <1>2, InvEndRegister
<1>3. CASE \E m \in Modules, g \in BOOLEAN : OpenNew(m, g) \/ OpenLoaded(m, g)
  BY <1>3, InvOpenNew, InvOpenLoaded
<1>4. CASE \E m \in Modules : Close(m)
  BY <1>4, InvClose
<1>5. CASE UNCHANGED vars
  BY <1>5 DEF vars, Inv, Types, NoRepetition, LoadedInv, ScopeInv, PhaseInv
<1>6. QED
  BY <1>1, <1>2, <1>3, <1>4, <1>5 DEF Next

-----------------------------------------------------------------------------
(* dlsym.                                                                  *)

\* The first module of s with a definition of n is at k; there is none: k = 0.
FirstAt(s, n, k) ==
    /\ k \in 0 .. Len(s)
    /\ \A j \in 1 .. Len(s) : (k = 0 \/ j < k) => n \notin Defines[s[j]]
    /\ k # 0 => n \in Defines[s[k]]

\* What First finds.
LEMMA FirstIs ==
    ASSUME NEW s \in Seq(Modules), NEW n
    PROVE  \E k : FirstAt(s, n, k) /\ First(s, n) = IF k = 0 THEN None ELSE s[k]
<1> DEFINE hits == {k \in DOMAIN s : n \in Defines[s[k]]}
<1>1. DOMAIN s = 1 .. Len(s) /\ Len(s) \in Nat
  OBVIOUS
<1>2. First(s, n) = IF hits = {} THEN None ELSE s[CHOOSE k \in hits : \A j \in hits : k <= j]
  BY DEF First
<1>3. CASE hits = {}
  <2>1. FirstAt(s, n, 0)
    BY <1>1, <1>3 DEF FirstAt
  <2>2. QED
    BY <1>2, <1>3, <2>1
<1>4. CASE hits # {}
  <2> DEFINE c == CHOOSE k \in hits : \A j \in hits : k <= j
  <2>1. \E k \in hits : \A j \in hits : k <= j
    <3>1. hits \in SUBSET Nat
      BY <1>1
    <3>2. QED
      BY <1>4, <3>1, Least
  <2>2. c \in hits /\ \A j \in hits : c <= j
    BY <2>1
  <2>3. First(s, n) = s[c]
    BY <1>2, <1>4
  <2> HIDE DEF c
  <2>4. c \in 0 .. Len(s) /\ c # 0 /\ n \in Defines[s[c]]
    BY <1>1, <2>2
  <2>5. \A j \in 1 .. Len(s) : j < c => n \notin Defines[s[j]]
    BY <1>1, <2>2, <2>4
  <2>6. FirstAt(s, n, c)
    BY <2>4, <2>5 DEF FirstAt
  <2>7. QED
    BY <2>3, <2>4, <2>6
<1>5. QED
  BY <1>3, <1>4

\* First finds a module of s, or none.
LEMMA FirstIn ==
    ASSUME NEW s \in Seq(Modules), NEW n
    PROVE  First(s, n) \in Range(s) \cup {None}
<1>1. PICK k : FirstAt(s, n, k) /\ First(s, n) = IF k = 0 THEN None ELSE s[k]
  BY FirstIs
<1>2. k = 0 \/ k \in 1 .. Len(s)
  BY <1>1 DEF FirstAt
<1>3. QED
  BY <1>1, <1>2, RangeIs

\* A place is determined by what First looks for.
LEMMA FirstUnique ==
    ASSUME NEW s \in Seq(Modules), NEW n, NEW k, FirstAt(s, n, k)
    PROVE  First(s, n) = IF k = 0 THEN None ELSE s[k]
<1>1. PICK j : FirstAt(s, n, j) /\ First(s, n) = IF j = 0 THEN None ELSE s[j]
  BY FirstIs
<1>2. j = k
  <2>1. j \in 0 .. Len(s) /\ k \in 0 .. Len(s) /\ Len(s) \in Nat
    BY <1>1 DEF FirstAt
  <2>2. CASE j = 0 \/ k = 0
    BY <1>1, <2>1, <2>2 DEF FirstAt
  <2>3. CASE j # 0 /\ k # 0
    BY <1>1, <2>1, <2>3 DEF FirstAt
  <2>4. QED
    BY <2>2, <2>3
<1>3. QED
  BY <1>1, <1>2

\* The part of s behind k.
LEMMA BehindIs ==
    ASSUME NEW s \in Seq(Modules), NEW k \in 1 .. Len(s)
    PROVE  /\ SubSeq(s, k + 1, Len(s)) \in Seq(Modules)
           /\ Len(SubSeq(s, k + 1, Len(s))) = Len(s) - k
           /\ \A j \in 1 .. Len(s) - k : SubSeq(s, k + 1, Len(s))[j] = s[k + j]
           /\ Range(SubSeq(s, k + 1, Len(s))) \subseteq Range(s)
<1> DEFINE l == Len(s)
           t == SubSeq(s, k + 1, l)
<1>1. /\ l \in Nat /\ k + 1 \in Int /\ k + 1 >= 1 /\ k + 1 <= l + 1
      /\ \A j \in k + 1 .. l : s[j] \in Modules
  OBVIOUS
<1>2. t \in Seq(Modules)
  BY <1>1
<1>3. Len(t) = l - k /\ \A j \in 1 .. l - k : t[j] = s[k + j]
  BY <1>1
<1>4. \A j \in 1 .. l - k : k + j \in 1 .. l
  BY <1>1
<1>5. \A j \in 1 .. l : s[j] \in Range(s)
  BY RangeIs
<1> HIDE DEF t, l
<1>6. \A m \in Range(t) : \E j \in 1 .. Len(t) : t[j] = m
  BY <1>2, RangeIs
<1>7. Range(t) \subseteq Range(s)
  BY <1>3, <1>4, <1>5, <1>6
<1>8. QED
  BY <1>2, <1>3, <1>7 DEF t, l

LEMMA PositionIs ==
    ASSUME NEW s \in Seq(Modules), NEW m \in Range(s)
    PROVE  /\ Position(s, m) \in 1 .. Len(s)
           /\ s[Position(s, m)] = m
BY RangeIs DEF Position

\* dlsym finds loaded modules only.
LEMMA FindsLoaded ==
    ASSUME Inv, NEW h \in Modules \cup {RTLD_DEFAULT, RTLD_NEXT},
           NEW n, NEW caller \in Modules
    PROVE  dlsym(h, n, caller) \in Range(loaded) \cup {None}
<1>1. /\ loaded \in Seq(Modules) /\ global \in Seq(Modules)
      /\ Range(global) \subseteq Range(loaded)
      /\ deps \in [Modules -> Seq(Modules)] /\ scope \in [Modules -> Seq(Modules)]
      /\ Range(loaded) \in SUBSET Modules /\ Closed(Range(loaded), deps)
  BY RangeIs DEF Inv, Types, LoadedInv
<1>2. global_find(n) \in Range(loaded) \cup {None}
  BY <1>1, FirstIn DEF global_find
<1>3. next_find(caller, n) \in Range(loaded) \cup {None}
  <2>1. CASE caller \notin Range(loaded)
    BY <2>1 DEF next_find, In
  <2>2. CASE caller \in Range(loaded)
    <3> DEFINE s == IF In(caller, global) THEN global ELSE LoadGroup(caller, deps)
               t == SubSeq(s, Position(s, caller) + 1, Len(s))
    <3>1. s \in Seq(Modules) /\ caller \in Range(s) /\ Range(s) \subseteq Range(loaded)
      <4>1. /\ LoadGroup(caller, deps) \in Seq(Modules)
            /\ caller \in Range(LoadGroup(caller, deps))
        BY <1>1, LoadGroupIs DEF IsGroup
      <4>2. Range(LoadGroup(caller, deps)) \subseteq Range(loaded)
        BY <1>1, <2>2, GroupWithin
      <4>3. QED
        BY <1>1, <4>1, <4>2 DEF In
    <3>2. next_find(caller, n) = First(t, n)
      BY <2>2 DEF next_find, In
    <3> HIDE DEF s
    <3>3. t \in Seq(Modules) /\ Range(t) \subseteq Range(s)
      BY <3>1, PositionIs, BehindIs
    <3> HIDE DEF t
    <3>4. First(t, n) \in Range(t) \cup {None}
      BY <3>3, FirstIn
    <3>5. QED
      BY <3>1, <3>2, <3>3, <3>4
  <2>3. QED
    BY <2>1, <2>2
<1>4. ASSUME h \in Modules
      PROVE  handle_find(h, n) \in Range(loaded) \cup {None}
  <2>1. CASE scope[h] = <<>>
    BY <1>1, <1>4, <2>1, FirstIn, EmptyIs DEF handle_find
  <2>2. CASE scope[h] # <<>>
    <3>1. h \in Range(loaded) /\ IsGroup(h, Range(scope[h]), deps)
      BY <1>4, <2>2 DEF Inv, ScopeInv
    <3>2. Range(scope[h]) \subseteq Range(loaded)
      BY <1>1, <3>1 DEF IsGroup
    <3>3. First(scope[h], n) \in Range(scope[h]) \cup {None}
      BY <1>1, <1>4, FirstIn
    <3>4. QED
      BY <3>2, <3>3 DEF handle_find
  <2>3. QED
    BY <2>1, <2>2
<1>5. CASE h = RTLD_DEFAULT
  BY <1>2, <1>5, ScopesAssumption DEF dlsym
<1>6. CASE h = RTLD_NEXT
  BY <1>3, <1>6, ScopesAssumption DEF dlsym
<1>7. CASE h \in Modules
  <2>1. h # RTLD_DEFAULT /\ h # RTLD_NEXT
    BY <1>7, ScopesAssumption
  <2>2. dlsym(h, n, caller) = handle_find(h, n)
    BY <2>1 DEF dlsym
  <2>3. QED
    BY <1>4, <1>7, <2>2
<1>8. QED
  BY <1>5, <1>6, <1>7

LEMMA InvTypeOK == Inv => TypeOK
<1> SUFFICES ASSUME Inv PROVE TypeOK
  OBVIOUS
<1>1. Types /\ NoRepetition
  BY DEF Inv
<1>2. /\ Cardinality(Range(loaded)) = Len(loaded)
      /\ Cardinality(Range(global)) = Len(global)
      /\ \A h \in Modules : Cardinality(Range(scope[h])) = Len(scope[h])
  BY <1>1, OnceBound DEF Types, NoRepetition
<1>3. QED
  BY <1>1, <1>2 DEF Types, TypeOK

LEMMA InvHandleReaches == Inv => HandleReaches
<1> SUFFICES ASSUME Inv PROVE HandleReaches
  OBVIOUS
<1>1. ASSUME NEW h \in Modules \ Range(Initial), NEW m \in Range(scope[h]) \ Range(Initial)
      PROVE  Range(Needed[m]) \subseteq Range(scope[h])
  <2>1. scope[h] # <<>>
    BY <1>1, EmptyIs
  <2>2. h \in Range(loaded) /\ IsGroup(h, Range(scope[h]), deps)
    BY <2>1 DEF Inv, ScopeInv
  <2>3. Range(loaded) \in SUBSET Modules /\ Closed(Range(loaded), deps)
    BY RangeIs DEF Inv, Types, LoadedInv
  <2>4. m \in Range(loaded)
    BY <2>2, <2>3 DEF IsGroup
  <2>5. deps[m] = Needed[m]
    BY <2>4 DEF Inv, LoadedInv
  <2>6. QED
    BY <2>2, <2>5 DEF IsGroup, Closed
<1>2. QED
  BY <1>1, InvTypeOK, FindsLoaded DEF HandleReaches

-----------------------------------------------------------------------------
(* RTLD_DEFAULT.                                                           *)

\* What is put behind a scope does not change what First finds.
LEMMA FirstBegins ==
    ASSUME NEW s \in Seq(Modules), NEW r \in Seq(Modules), NEW n,
           Begins(s, r), First(s, n) # None
    PROVE  First(r, n) = First(s, n)
<1>1. PICK k : FirstAt(s, n, k) /\ First(s, n) = IF k = 0 THEN None ELSE s[k]
  BY FirstIs
<1>2. /\ k \in 1 .. Len(s) /\ First(s, n) = s[k] /\ k # 0 /\ k \in Nat
      /\ Len(s) \in Nat /\ Len(r) \in Nat /\ Len(s) <= Len(r)
      /\ \A j \in 1 .. Len(s) : r[j] = s[j]
  BY <1>1 DEF FirstAt, Begins
<1>3. \A j \in 1 .. Len(r) : j < k => (j \in 1 .. Len(s) /\ r[j] = s[j])
  BY <1>2
<1>4. r[k] = s[k] /\ k \in 0 .. Len(r)
  BY <1>2
<1>5. FirstAt(r, n, k)
  BY <1>1, <1>2, <1>3, <1>4 DEF FirstAt
<1>6. QED
  BY <1>2, <1>4, <1>5, FirstUnique

\* Neither does taking others out.
LEMMA FirstRetained ==
    ASSUME NEW s \in Seq(Modules), Once(s), NEW r \in Seq(Modules), NEW n,
           InOrder(r, s), First(s, n) # None, First(s, n) \in Range(r)
    PROVE  First(r, n) = First(s, n)
<1>1. PICK k : FirstAt(s, n, k) /\ First(s, n) = IF k = 0 THEN None ELSE s[k]
  BY FirstIs
<1>2. k \in 1 .. Len(s) /\ First(s, n) = s[k] /\ k # 0 /\ n \in Defines[s[k]]
  BY <1>1 DEF FirstAt
<1>3. PICK i \in 1 .. Len(r) : r[i] = s[k]
  BY <1>2, RangeIs
<1>4. ASSUME NEW j \in 1 .. Len(r), j < i
      PROVE  n \notin Defines[r[j]]
  <2>1. PICK a, b \in 1 .. Len(s) : a < b /\ s[a] = r[j] /\ s[b] = r[i]
    BY <1>3, <1>4 DEF InOrder
  <2>2. b = k
    BY <1>2, <1>3, <2>1 DEF Once
  <2>3. QED
    BY <1>1, <1>2, <2>1, <2>2 DEF FirstAt
<1>5. i # 0 /\ i \in 0 .. Len(r)
  BY <1>3
<1>6. FirstAt(r, n, i)
  BY <1>2, <1>3, <1>4, <1>5 DEF FirstAt
<1>7. QED
  BY <1>2, <1>3, <1>5, <1>6, FirstUnique

\* Every step but Close leaves the global scope at the front of the new one.
LEMMA GlobalBegins ==
    ASSUME Inv, Inv', [Next]_vars, ~ \E m \in Modules : Close(m)
    PROVE  Begins(global, global')
<1>1. /\ global \in Seq(Modules) /\ Once(global)
      /\ deps' \in [Modules -> Seq(Modules)] /\ deps \in [Modules -> Seq(Modules)]
  BY DEF Inv, Types, NoRepetition
<1>2. global' = global => Begins(global, global')
  BY <1>1 DEF Begins
<1> DEFINE e == deps'
<1>3. ASSUME NEW r \in Modules, NEW d \in [Modules -> Seq(Modules)],
             global' = PromoteGlobal(global, r, d)
      PROVE  Begins(global, global')
  BY <1>1, <1>3, PromoteIs
<1>4. CASE RegisterLoaded
  <2>1. PICK k : k = Len(loaded) + 1
    OBVIOUS
  <2>2. global' = PromoteGlobal(global, Initial[k], e)
    BY <1>4, <2>1 DEF RegisterLoaded
  <2>3. Initial[k] \in Modules
    <3>1. Len(loaded) < Len(Initial) /\ loaded \in Seq(Modules) /\ Initial \in Seq(Modules)
      BY <1>4, ScopesAssumption DEF RegisterLoaded, Inv, Types
    <3>2. k \in 1 .. Len(Initial)
      BY <2>1, <3>1
    <3>3. QED
      BY <3>1, <3>2
  <2>4. e \in [Modules -> Seq(Modules)]
    BY <1>1
  <2> HIDE DEF e
  <2>5. QED
    BY <1>3, <2>2, <2>3, <2>4
<1>5. CASE EndRegister
  BY <1>2, <1>5 DEF EndRegister
<1>6. CASE \E m \in Modules, g \in BOOLEAN : OpenNew(m, g) \/ OpenLoaded(m, g)
  <2>1. PICK m \in Modules, g \in BOOLEAN : OpenNew(m, g) \/ OpenLoaded(m, g)
    BY <1>6
  <2>2. CASE OpenNew(m, g)
    <3>1. global' = IF g THEN PromoteGlobal(global, m, e) ELSE global
      BY <2>2 DEF OpenNew
    <3>2. e \in [Modules -> Seq(Modules)]
      BY <1>1
    <3> HIDE DEF e
    <3>3. QED
      BY <1>2, <1>3, <3>1, <3>2
  <2>3. CASE OpenLoaded(m, g)
    <3>1. global' = IF g THEN PromoteGlobal(global, m, deps) ELSE global
      BY <2>3 DEF OpenLoaded
    <3>2. QED
      BY <1>1, <1>2, <1>3, <3>1
  <2>4. QED
    BY <2>1, <2>2, <2>3
<1>7. CASE UNCHANGED vars
  BY <1>2, <1>7 DEF vars
<1>8. QED
  BY <1>4, <1>5, <1>6, <1>7 DEF Next

\* What RTLD_DEFAULT finds stays as long as it is loaded.
LEMMA StableStep ==
    ASSUME Inv, Inv', [Next]_vars, NEW n,
           global_find(n) # None, global_find(n) \in Range(loaded')
    PROVE  global_find(n)' = global_find(n)
<1> DEFINE r == global'
<1>1. /\ global \in Seq(Modules) /\ Once(global) /\ r \in Seq(Modules)
  BY DEF Inv, Types, NoRepetition
<1>2. /\ global_find(n) = First(global, n)
      /\ global_find(n)' = First(r, n)
  BY DEF global_find
<1>3. CASE \E m \in Modules : Close(m)
  <2>1. PICK m \in Modules : Close(m)
    BY <1>3
  <2>2. r = Retain(global, Kept(m)) /\ loaded' = Retain(loaded, Kept(m))
    BY <2>1 DEF Close, Kept
  <2>3. PICK K : K = Kept(m)
    OBVIOUS
  <2>4. /\ InOrder(r, global) /\ Range(r) = Range(global) \cap K
    BY <1>1, <2>2, <2>3, RetainIs
  <2>5. First(global, n) \in Range(global)
    BY <1>1, <1>2, FirstIn
  <2>6. First(global, n) \in K
    <3>1. Range(loaded') = Range(loaded) \cap K
      BY <2>2, <2>3, RetainIs DEF Inv, Types
    <3>2. QED
      BY <1>2, <3>1
  <2> HIDE DEF r
  <2>7. QED
    BY <1>1, <1>2, <2>4, <2>5, <2>6, FirstRetained
<1>4. CASE ~ \E m \in Modules : Close(m)
  <2>1. Begins(global, r)
    BY <1>4, GlobalBegins
  <2> HIDE DEF r
  <2>2. QED
    BY <1>1, <1>2, <2>1, FirstBegins
<1>5. QED
  BY <1>3, <1>4

-----------------------------------------------------------------------------
(* RTLD_NEXT.                                                              *)

\* What RTLD_NEXT finds for code of the module at q of the global scope.
LEMMA NextIs ==
    ASSUME Inv, NEW n, NEW q \in 1 .. Len(global)
    PROVE  \/ /\ \A j \in 1 .. Len(global) : j > q => n \notin Defines[global[j]]
              /\ next_find(global[q], n) = None
           \/ \E p \in 1 .. Len(global) :
                /\ p > q /\ n \in Defines[global[p]]
                /\ \A j \in 1 .. Len(global) : (q < j /\ j < p) => n \notin Defines[global[j]]
                /\ next_find(global[q], n) = global[p]
<1> DEFINE l == Len(global)
           m == global[q]
           t == SubSeq(global, q + 1, Len(global))
<1>1. global \in Seq(Modules) /\ Once(global) /\ l \in Nat /\ q \in Nat /\ q <= l
  BY DEF Inv, Types, NoRepetition
<1>2. m \in Range(global) /\ m \in Range(loaded)
  BY <1>1, RangeIs DEF Inv, LoadedInv
<1>3. Position(global, m) = q
  BY <1>1, <1>2, PositionIs DEF Once
<1>4. next_find(m, n) = First(t, n)
  BY <1>2, <1>3 DEF next_find, In
<1>5. /\ t \in Seq(Modules) /\ Len(t) = l - q
      /\ \A j \in 1 .. l - q : t[j] = global[q + j]
  BY <1>1, BehindIs
<1> HIDE DEF t, m
<1>6. PICK k : FirstAt(t, n, k) /\ First(t, n) = IF k = 0 THEN None ELSE t[k]
  BY <1>5, FirstIs
<1>7. k \in 0 .. l - q /\ \A j \in 1 .. l - q : (k = 0 \/ j < k) => n \notin Defines[t[j]]
  BY <1>5, <1>6 DEF FirstAt
<1>8. \A j \in 1 .. l : j > q => (j - q \in 1 .. l - q /\ q + (j - q) = j)
  BY <1>1
<1>9. \A j \in 1 .. l : j > q => global[j] = t[j - q]
  BY <1>5, <1>8
<1>10. CASE k = 0
  BY <1>4, <1>6, <1>7, <1>8, <1>9, <1>10 DEF l, m
<1>11. CASE k # 0
  <2>1. q + k \in 1 .. l /\ q + k > q /\ k \in 1 .. l - q
    BY <1>1, <1>7, <1>11
  <2>2. t[k] = global[q + k]
    BY <1>5, <2>1
  <2>3. n \in Defines[global[q + k]]
    BY <1>6, <1>11, <2>2 DEF FirstAt
  <2>4. ASSUME NEW j \in 1 .. l, q < j, j < q + k
        PROVE  n \notin Defines[global[j]]
    <3>1. j > q /\ j - q < k
      BY <1>1, <1>7, <2>4
    <3>2. QED
      BY <1>7, <1>8, <1>9, <3>1
  <2>5. next_find(m, n) = global[q + k]
    BY <1>4, <1>6, <1>11, <2>2
  <2>6. QED
    BY <2>1, <2>3, <2>4, <2>5 DEF l, m
<1>12. QED
  BY <1>10, <1>11

\* f takes the steps of Wrappers.
Wraps(f, n, c) ==
    /\ f[0] = <<global_find(n)>>
    /\ \A k \in 1 .. c :
         f[k] = IF Last(f[k - 1]) = None THEN f[k - 1]
                ELSE Append(f[k - 1], next_find(Last(f[k - 1]), n))

\* The members of a way through the wrappers.
Stops == Modules \cup {None}

LEMMA LastIs ==
    ASSUME NEW S, NEW s \in Seq(S), s # <<>>
    PROVE  Last(s) = s[Len(s)] /\ Last(s) \in S /\ Len(s) \in 1 .. Len(s)
BY DEF Last

LEMMA LastAppend ==
    ASSUME NEW S, NEW s \in Seq(S), NEW m \in S
    PROVE  Last(Append(s, m)) = m /\ Append(s, m) # <<>>
<1>1. Len(Append(s, m)) = Len(s) + 1 /\ Append(s, m)[Len(s) + 1] = m /\ Len(s) \in Nat
  BY AppendOf
<1>2. QED
  BY <1>1, EmptyIs DEF Last

LEMMA WrappersDef ==
    ASSUME Inv, NEW n
    PROVE  \E f : /\ Wraps(f, n, Cardinality(Modules))
                  /\ Wrappers(n) = f[Cardinality(Modules)]
<1> DEFINE c == Cardinality(Modules)
           V == {q \in Seq(Stops) : q # <<>>}
           On(q) == IF Last(q) = None THEN q ELSE Append(q, next_find(Last(q), n))
           Step(f) == [k \in 0 .. c |-> IF k = 0 THEN <<global_find(n)>> ELSE On(f[k - 1])]
           F == CHOOSE f : f = Step(f)
           G == [p \in (1 .. c) \X V |-> On(p[2])]
<1>1. c \in Nat
  BY ScopesAssumption, FS_CardinalityType
<1>2. Wrappers(n) = F[c]
  BY DEF Wrappers
<1>3. <<global_find(n)>> \in V
  <2>1. global_find(n) \in Stops
    <3>1. global \in Seq(Modules)
      BY DEF Inv, Types
    <3>2. QED
      BY <3>1, FirstIn, RangeIs DEF global_find, Stops
  <2>2. QED
    BY <2>1, OneOf, EmptyIs
<1>4. ASSUME NEW q \in V PROVE On(q) \in V
  <2>1. Last(q) \in Stops
    BY LastIs
  <2>2. CASE Last(q) = None
    BY <2>2
  <2>3. CASE Last(q) # None
    <3>1. Last(q) \in Modules
      BY <2>1, <2>3 DEF Stops
    <3>2. next_find(Last(q), n) \in Stops
      <4>1. dlsym(RTLD_NEXT, n, Last(q)) = next_find(Last(q), n)
        BY ScopesAssumption DEF dlsym
      <4>2. dlsym(RTLD_NEXT, n, Last(q)) \in Range(loaded) \cup {None}
        BY <3>1, FindsLoaded
      <4>3. QED
        BY <4>1, <4>2, RangeIs DEF Inv, Types, Stops
    <3>3. Append(q, next_find(Last(q), n)) \in V
      BY <3>2, AppendOf, LastAppend
    <3>4. QED
      BY <2>3, <3>3
  <2>4. QED
    BY <2>2, <2>3
<1> HIDE DEF c, V, On
<1>5. G \in [(1 .. c) \X V -> V]
  BY <1>4
<1>6. PICK h : Runs(h, c, V, <<global_find(n)>>, G)
  BY <1>1, <1>3, <1>5, RunExists
<1>7. ASSUME NEW k \in 1 .. c, NEW q \in V
      PROVE  G[<<k, q>>] = On(q)
  OBVIOUS
<1> HIDE DEF G
<1>8. h = Step(h)
  <2>1. h = [k \in 0 .. c |-> h[k]] /\ h[0] = <<global_find(n)>>
    BY <1>6 DEF Runs
  <2>2. ASSUME NEW k \in 0 .. c, k # 0
        PROVE  h[k] = On(h[k - 1])
    <3>1. k \in 1 .. c /\ k - 1 \in 0 .. c
      BY <1>1, <2>2
    <3>2. h[k - 1] \in V
      BY <1>6, <3>1 DEF Runs
    <3>3. h[k] = G[<<k, h[k - 1]>>]
      BY <1>6, <3>1 DEF Runs
    <3>4. QED
      BY <1>7, <3>1, <3>2, <3>3
  <2>3. QED
    BY <2>1, <2>2
<1>9. F = Step(F)
  BY <1>8
<1> HIDE DEF F
<1>10. Wraps(F, n, c)
  <2>1. 0 \in 0 .. c /\ \A k \in 1 .. c : k \in 0 .. c /\ k # 0
    BY <1>1
  <2>2. F[0] = <<global_find(n)>>
    BY <1>9, <2>1
  <2>3. ASSUME NEW k \in 1 .. c
        PROVE  F[k] = On(F[k - 1])
    BY <1>9, <2>1
  <2>4. QED
    BY <2>2, <2>3 DEF Wraps, On
<1>11. QED
  BY <1>2, <1>10 DEF c

\* The definitions of n in the global scope up to q.
Definers(n, q) == {global[j] : j \in {i \in 1 .. q : n \in Defines[global[i]]}}

\* The way w has come to the module at q of the global scope in k steps ...
Underway(w, n, k) ==
    \E q \in 1 .. Len(global) :
      /\ n \in Defines[global[q]] /\ Last(w) = global[q]
      /\ Len(w) = k + 1 /\ Range(w) = Definers(n, q)

\* ... or to its end.
Ended(w, n) == Last(w) = None /\ Range(w) = Definers(n, Len(global)) \cup {None}

WayInv(w, n, k) ==
    /\ w \in Seq(Stops) /\ w # <<>> /\ Once(w)
    /\ Underway(w, n, k) \/ Ended(w, n)

\* No definition of n is between p and q: there is none to add but that at q.
LEMMA DefinersGap ==
    ASSUME NEW n, NEW p \in Nat, NEW q \in Nat, p < q,
           \A j \in 1 .. q : (p < j /\ j < q) => n \notin Defines[global[j]]
    PROVE  Definers(n, q) = Definers(n, p) \cup
             (IF n \in Defines[global[q]] THEN {global[q]} ELSE {})
<1>1. \A j \in 1 .. q : n \in Defines[global[j]] => (j \in 1 .. p \/ j = q)
  OBVIOUS
<1>2. q \in 1 .. q /\ \A j \in 1 .. p : j \in 1 .. q
  OBVIOUS
<1>3. QED
  BY <1>1, <1>2 DEF Definers

\* Without one behind p those up to p are all.
LEMMA DefinersEnd ==
    ASSUME NEW n, NEW p \in Nat, NEW q \in Nat, p <= q,
           \A j \in 1 .. q : p < j => n \notin Defines[global[j]]
    PROVE  Definers(n, q) = Definers(n, p)
<1>1. \A j \in 1 .. q : n \in Defines[global[j]] => j \in 1 .. p
  OBVIOUS
<1>2. \A j \in 1 .. p : j \in 1 .. q
  OBVIOUS
<1>3. QED
  BY <1>1, <1>2 DEF Definers

LEMMA DefinersTypes ==
    ASSUME Inv, NEW n, NEW q \in 0 .. Len(global)
    PROVE  /\ Definers(n, q) \subseteq Modules
           /\ None \notin Definers(n, q)
           /\ Definers(n, 0) = {}
           /\ \A p \in 1 .. Len(global) : p > q => global[p] \notin Definers(n, q)
<1>1. global \in Seq(Modules) /\ Once(global) /\ Len(global) \in Nat
  BY DEF Inv, Types, NoRepetition
<1>2. \A j \in 1 .. q : j \in 1 .. Len(global) /\ global[j] \in Modules
  BY <1>1
<1>3. \A p \in 1 .. Len(global) : \A j \in 1 .. q : p > q => global[p] # global[j]
  BY <1>1, <1>2 DEF Once
<1>4. \A j \in 1 .. 0 : FALSE
  OBVIOUS
<1>5. QED
  BY <1>2, <1>3, <1>4, ScopesAssumption DEF Definers

LEMMA WayInit ==
    ASSUME Inv, NEW n
    PROVE  WayInv(<<global_find(n)>>, n, 0)
<1> DEFINE l == Len(global)
           m == global_find(n)
           w == <<m>>
<1>1. global \in Seq(Modules) /\ l \in Nat /\ 0 \in 0 .. l /\ l \in 0 .. l
  BY DEF Inv, Types
<1>2. PICK k : FirstAt(global, n, k) /\ m = IF k = 0 THEN None ELSE global[k]
  BY <1>1, FirstIs DEF global_find
<1>3. /\ k \in 0 .. l /\ k \in Nat
      /\ \A j \in 1 .. l : (k = 0 \/ j < k) => n \notin Defines[global[j]]
      /\ k # 0 => n \in Defines[global[k]]
  BY <1>1, <1>2 DEF FirstAt
<1>4. m \in Stops
  BY <1>1, <1>2, <1>3 DEF Stops
<1> HIDE DEF m
<1>5. w \in Seq(Stops) /\ Len(w) = 1 /\ w[1] = m /\ Once(w) /\ Range(w) = {m} /\ w # <<>>
  BY <1>4, OneOf, EmptyIs
<1>6. Last(w) = m
  BY <1>5 DEF Last
<1> HIDE DEF w
<1>7. CASE k = 0
  <2>1. Definers(n, l) = {}
    <3>1. Definers(n, l) = Definers(n, 0)
      BY <1>1, <1>3, <1>7, DefinersEnd
    <3>2. QED
      BY <1>1, <3>1, DefinersTypes
  <2>2. Ended(w, n)
    BY <1>2, <1>5, <1>6, <1>7, <2>1 DEF Ended
  <2>3. QED
    BY <1>5, <2>2 DEF WayInv, w, m
<1>8. CASE k # 0
  <2>1. Definers(n, k) = {m}
    <3>1. 0 < k /\ \A j \in 1 .. k : (0 < j /\ j < k) => n \notin Defines[global[j]]
      BY <1>3, <1>8
    <3>2. Definers(n, k) = Definers(n, 0) \cup {global[k]}
      BY <1>3, <1>8, <3>1, DefinersGap
    <3>3. QED
      BY <1>1, <1>2, <1>8, <3>2, DefinersTypes
  <2>2. k \in 1 .. l /\ 0 + 1 = 1
    BY <1>3, <1>8
  <2>3. Underway(w, n, 0)
    BY <1>2, <1>3, <1>5, <1>6, <1>8, <2>1, <2>2 DEF Underway
  <2>4. QED
    BY <1>5, <2>3 DEF WayInv, w, m
<1>9. QED
  BY <1>7, <1>8

LEMMA WayStep ==
    ASSUME Inv, NEW n, NEW w, NEW k \in Nat, WayInv(w, n, k), Last(w) # None
    PROVE  WayInv(Append(w, next_find(Last(w), n)), n, k + 1)
<1> DEFINE l == Len(global)
           m == next_find(Last(w), n)
           a == Append(w, m)
<1>1. global \in Seq(Modules) /\ l \in Nat /\ l \in 0 .. l
  BY DEF Inv, Types
<1>2. w \in Seq(Stops) /\ Once(w) /\ Underway(w, n, k)
  BY DEF WayInv, Ended
<1>3. PICK q \in 1 .. l : /\ n \in Defines[global[q]] /\ Last(w) = global[q]
                          /\ Len(w) = k + 1 /\ Range(w) = Definers(n, q)
  BY <1>2 DEF Underway
<1>4. /\ q \in Nat /\ q \in 0 .. l /\ q <= l
      /\ Definers(n, q) \subseteq Modules /\ None \notin Definers(n, q)
      /\ \A p \in 1 .. l : p > q => global[p] \notin Definers(n, q)
  BY <1>1, DefinersTypes
<1>5. /\ Append(w, None) \in Seq(Stops) /\ Append(w, None) # <<>>
      /\ Last(Append(w, None)) = None
      /\ Range(Append(w, None)) = Range(w) \cup {None} /\ Once(Append(w, None))
  <2>1. None \in Stops /\ None \notin Range(w)
    BY <1>3, <1>4 DEF Stops
  <2>2. QED
    BY <1>2, <2>1, AppendOf, LastAppend
<1>6. ASSUME NEW p \in 1 .. l, p > q
      PROVE  /\ Append(w, global[p]) \in Seq(Stops) /\ Append(w, global[p]) # <<>>
             /\ Last(Append(w, global[p])) = global[p]
             /\ Range(Append(w, global[p])) = Range(w) \cup {global[p]}
             /\ Once(Append(w, global[p]))
             /\ Len(Append(w, global[p])) = (k + 1) + 1
  <2>1. global[p] \in Stops /\ global[p] \notin Range(w)
    BY <1>1, <1>3, <1>4, <1>6 DEF Stops
  <2>2. QED
    BY <1>2, <1>3, <2>1, AppendOf, LastAppend
<1>7. m = next_find(global[q], n)
  BY <1>3
<1> HIDE DEF m
<1>8. CASE m = None /\ \A j \in 1 .. l : j > q => n \notin Defines[global[j]]
  <2>1. Definers(n, l) = Definers(n, q)
    BY <1>1, <1>4, <1>8, DefinersEnd
  <2>2. Ended(a, n)
    BY <1>3, <1>5, <1>8, <2>1 DEF Ended
  <2>3. QED
    BY <1>5, <1>8, <2>2 DEF WayInv, m
<1>9. CASE \E p \in 1 .. l :
             /\ p > q /\ n \in Defines[global[p]]
             /\ \A j \in 1 .. l : (q < j /\ j < p) => n \notin Defines[global[j]]
             /\ m = global[p]
  <2>1. PICK p \in 1 .. l :
             /\ p > q /\ n \in Defines[global[p]]
             /\ \A j \in 1 .. l : (q < j /\ j < p) => n \notin Defines[global[j]]
             /\ m = global[p]
    BY <1>9
  <2>2. Definers(n, p) = Definers(n, q) \cup {global[p]}
    <3>1. p \in Nat /\ q < p /\ \A j \in 1 .. p : (q < j /\ j < p) => n \notin Defines[global[j]]
      BY <1>1, <1>4, <2>1
    <3>2. QED
      BY <1>4, <2>1, <3>1, DefinersGap
  <2>3. Underway(a, n, k + 1)
    BY <1>3, <1>6, <2>1, <2>2 DEF Underway
  <2>4. QED
    BY <1>6, <2>1, <2>3 DEF WayInv, m
<1>10. \/ /\ \A j \in 1 .. l : j > q => n \notin Defines[global[j]]
          /\ m = None
       \/ \E p \in 1 .. l :
            /\ p > q /\ n \in Defines[global[p]]
            /\ \A j \in 1 .. l : (q < j /\ j < p) => n \notin Defines[global[j]]
            /\ m = global[p]
  <2>1. \/ /\ \A j \in 1 .. Len(global) : j > q => n \notin Defines[global[j]]
           /\ next_find(global[q], n) = None
        \/ \E p \in 1 .. Len(global) :
             /\ p > q /\ n \in Defines[global[p]]
             /\ \A j \in 1 .. Len(global) : (q < j /\ j < p) => n \notin Defines[global[j]]
             /\ next_find(global[q], n) = global[p]
    BY NextIs
  <2>2. QED
    BY <1>7, <2>1
<1>11. QED
  BY <1>8, <1>9, <1>10

LEMMA InvWrappersReachAll == Inv => WrappersReachAll
<1> SUFFICES ASSUME Inv, NEW n \in Names
             PROVE  /\ Range(Wrappers(n)) = {m \in Range(global) : n \in Defines[m]} \cup {None}
                    /\ Len(Wrappers(n)) = Cardinality(Range(Wrappers(n)))
  BY DEF WrappersReachAll
<1> DEFINE c == Cardinality(Modules)
<1>1. c \in Nat
  BY ScopesAssumption, FS_CardinalityType
<1>2. PICK f : Wraps(f, n, c) /\ Wrappers(n) = f[c]
  BY WrappersDef
<1> HIDE DEF c
<1>3. /\ f[0] = <<global_find(n)>>
      /\ \A k \in 1 .. c :
           f[k] = IF Last(f[k - 1]) = None THEN f[k - 1]
                  ELSE Append(f[k - 1], next_find(Last(f[k - 1]), n))
  BY <1>2 DEF Wraps
<1> DEFINE P == {k \in 0 .. c : WayInv(f[k], n, k)}
<1>4. 0 \in P
  BY <1>1, <1>3, WayInit
<1>5. ASSUME NEW k \in 1 .. c, k - 1 \in P PROVE k \in P
  <2>1. WayInv(f[k - 1], n, k - 1) /\ k - 1 \in Nat /\ (k - 1) + 1 = k /\ k \in 0 .. c
    BY <1>1, <1>5
  <2>2. CASE Last(f[k - 1]) = None
    <3>1. f[k] = f[k - 1]
      BY <1>3, <2>2
    <3>2. Ended(f[k - 1], n)
      <4>1. ~ Underway(f[k - 1], n, k - 1)
        <5>1. \A q \in 1 .. Len(global) : global[q] # None
          BY ScopesAssumption DEF Inv, Types
        <5>2. QED
          BY <2>2, <5>1 DEF Underway
      <4>2. QED
        BY <2>1, <4>1 DEF WayInv
    <3>3. WayInv(f[k], n, k)
      BY <2>1, <3>1, <3>2 DEF WayInv
    <3>4. QED
      BY <2>1, <3>3
  <2>3. CASE Last(f[k - 1]) # None
    <3>1. f[k] = Append(f[k - 1], next_find(Last(f[k - 1]), n))
      BY <1>3, <2>3
    <3>2. WayInv(Append(f[k - 1], next_find(Last(f[k - 1]), n)), n, (k - 1) + 1)
      BY <2>1, <2>3, WayStep
    <3>3. WayInv(f[k], n, k)
      BY <2>1, <3>1, <3>2
    <3>4. QED
      BY <2>1, <3>3
  <2>4. QED
    BY <2>2, <2>3
<1>6. c \in P
  <2> HIDE DEF P
  <2>1. c \in 0 .. c
    BY <1>1
  <2>2. QED
    BY <1>1, <1>4, <1>5, <2>1, UpTo
<1> DEFINE w == f[c]
<1>7. WayInv(w, n, c)
  BY <1>6
<1> HIDE DEF w
<1>8. w \in Seq(Stops) /\ Once(w)
  BY <1>7 DEF WayInv
<1>9. global \in Seq(Modules) /\ Len(global) \in Nat
  BY DEF Inv, Types
<1>10. ~ Underway(w, n, c)
  <2>1. SUFFICES ASSUME Underway(w, n, c) PROVE FALSE
    OBVIOUS
  <2>2. PICK q \in 1 .. Len(global) : Len(w) = c + 1 /\ Range(w) = Definers(n, q)
    BY <2>1 DEF Underway
  <2>3. Range(w) \subseteq Modules
    BY <1>9, <2>2, DefinersTypes
  <2>4. w \in Seq(Modules)
    BY <1>8, <2>3 DEF Range
  <2>5. Len(w) <= c
    BY <1>8, <2>4, OnceBound, ScopesAssumption DEF c
  <2>6. QED
    BY <1>1, <2>2, <2>5
<1>11. Range(w) = Definers(n, Len(global)) \cup {None}
  BY <1>7, <1>10 DEF WayInv, Ended
<1>12. Definers(n, Len(global)) = {m \in Range(global) : n \in Defines[m]}
  BY <1>9, RangeIs DEF Definers
<1>13. Cardinality(Range(w)) = Len(w)
  BY <1>8, OnceBound
<1>14. QED
  BY <1>2, <1>11, <1>12, <1>13 DEF w

-----------------------------------------------------------------------------
(* dlinfo.                                                                 *)

\* Link map and name are somewhere as long as the module is loaded.
PlaceInv ==
    \A m \in Asked :
      /\ m \in Range(loaded) => place[m] \in MapAddresses \X NameAddresses
      /\ m \notin Range(loaded) => place[m] = Null

\* An entry has the origin of the module it was made for.
CacheInv == \A e \in cache : e.origin = origin_from_name(NameOf[e.of])

AnswerInv ==
    answer # Null =>
      /\ answer.of \in Asked
      /\ ~ Reused(answer.of) => answer.origin = origin_from_name(NameOf[answer.of])

DInv == Inv /\ PlaceInv /\ CacheInv /\ AnswerInv

\* A sequence of one part, and one with a part more.
LEMMA OnePart ==
    ASSUME NEW S, NEW e, NEW n \in Seq(S), Len(n) = 1, Last(n) # e
    PROVE  n # <<e>>
<1>1. n[1] # e /\ <<e>>[1] = e
  BY DEF Last
<1>2. QED
  BY <1>1

LEMMA OneOfTwo ==
    ASSUME NEW l \in Nat, l + 1 = 2
    PROVE  l = 1 /\ 1 \in 1 .. l
OBVIOUS

\* n is neither the empty name nor one in the current or the root directory.
Below(n, d, e) ==
    Front(n) = d /\ n # <<e>> /\ Len(n) # 1 /\ ~ (Len(n) = 2 /\ n[1] = e)

LEMMA OnePartMore ==
    ASSUME NEW S, NEW e, NEW d \in Seq(S), NEW f \in S, Len(d) > 0, d # <<e>>
    PROVE  Below(Append(d, f), d, e)
<1> DEFINE n == Append(d, f)
<1>1. /\ Len(n) = Len(d) + 1 /\ Len(d) \in Nat
      /\ \A j \in 1 .. Len(d) : n[j] = d[j]
      /\ Front(n) = d
  BY DEF Front
<1>2. ASSUME Len(d) = 1, d[1] = e PROVE FALSE
  <2>1. d = [k \in 1 .. 1 |-> d[k]] /\ \A k \in 1 .. 1 : k = 1
    BY <1>2
  <2>2. <<e>> = [k \in 1 .. 1 |-> e]
    OBVIOUS
  <2>3. QED
    BY <1>2, <2>1, <2>2
<1>3. Len(<<e>>) = 1
  OBVIOUS
<1> HIDE DEF n
<1>4. Len(n) # 1
  BY <1>1
<1>5. n # <<e>>
  BY <1>3, <1>4
<1>6. ~ (Len(n) = 2 /\ n[1] = e)
  <2>1. SUFFICES ASSUME Len(n) = 2, n[1] = e PROVE FALSE
    OBVIOUS
  <2> DEFINE l == Len(d)
  <2>2. l \in Nat /\ Len(n) = l + 1
    BY <1>1
  <2> HIDE DEF l
  <2>3. l = 1 /\ 1 \in 1 .. l
    <3>1. l + 1 = 2
      BY <2>1, <2>2, Zenon
    <3>2. QED
      BY <2>2, <3>1, OneOfTwo, Zenon
  <2>4. QED
    BY <1>1, <1>2, <2>1, <2>3 DEF l
<1>7. QED
  BY <1>1, <1>4, <1>5, <1>6 DEF n, Below

\* The four cases of origin_from_name.
LEMMA OriginCases ==
    ASSUME NEW n
    PROVE  /\ (Len(n) = 1 /\ n # <<"">>) => origin_from_name(n) = <<".">>
           /\ (n # <<"">> /\ Len(n) # 1 /\ Len(n) = 2 /\ n[1] = "") =>
                origin_from_name(n) = <<"", "">>
           /\ (n # <<"">> /\ Len(n) # 1 /\ ~ (Len(n) = 2 /\ n[1] = "")) =>
                origin_from_name(n) = Front(n)
<1> DEFINE E == <<"">>
           D == <<".">>
           R == <<"", "">>
           e == ""
<1>1. origin_from_name(n) = CASE n = E -> E
                              [] Len(n) = 1 /\ n # E -> D
                              [] Len(n) = 2 /\ n[1] = e -> R
                              [] OTHER -> Front(n)
  BY Zenon DEF origin_from_name
<1>2. Len(E) = 1
  OBVIOUS
<1> HIDE DEF E, D, R, e
<1>3. /\ (Len(n) = 1 /\ n # E) => origin_from_name(n) = D
      /\ (n # E /\ Len(n) # 1 /\ Len(n) = 2 /\ n[1] = e) => origin_from_name(n) = R
      /\ (n # E /\ Len(n) # 1 /\ ~ (Len(n) = 2 /\ n[1] = e)) => origin_from_name(n) = Front(n)
  BY <1>1
<1>4. QED
  BY <1>3, Zenon DEF E, D, R, e

LEMMA CurrentDirectory ==
    ASSUME NEW n \in Seq(STRING), Len(n) = 1, Last(n) # ""
    PROVE  origin_from_name(n) = <<".">>
<1>1. n # <<"">>
  BY OnePart, Zenon
<1>2. QED
  BY <1>1, OriginCases, Zenon

LEMMA RootDirectory ==
    ASSUME NEW f
    PROVE  origin_from_name(<<"", f>>) = <<"", "">>
<1>1. Len(<<"", f>>) = 2 /\ <<"", f>>[1] = "" /\ Len(<<"", f>>) # 1 /\ <<"", f>> # <<"">>
  OBVIOUS
<1>2. QED
  BY <1>1, OriginCases, Zenon

LEMMA OtherDirectory ==
    ASSUME NEW d \in Seq(STRING), NEW f \in STRING, Len(d) > 0, d # <<"">>
    PROVE  origin_from_name(Append(d, f)) = d
<1> DEFINE n == Append(d, f)
<1>1. Below(n, d, "")
  BY OnePartMore, Zenon
<1> HIDE DEF n
<1>2. origin_from_name(n) = Front(n)
  BY <1>1, OriginCases, Zenon DEF Below
<1>3. QED
  BY <1>1, <1>2, Zenon DEF n, Below

\* The directory in the name is that of the file.
LEMMA OriginIs ==
    ASSUME NEW m \in Asked
    PROVE  origin_from_name(NameOf[m]) = Directory[m]
<1>1. /\ NameOf[m] \in Seq(STRING) /\ Len(NameOf[m]) > 0 /\ Last(NameOf[m]) # ""
      /\ Directory[m] \in Seq(STRING)
  BY FilesAssumption, Zenon
<1>2. \/ Directory[m] = <<".">> /\ Len(NameOf[m]) = 1
      \/ Directory[m] = <<"", "">> /\ NameOf[m] = <<"", Last(NameOf[m])>>
      \/ /\ Len(Directory[m]) > 0 /\ Directory[m] # <<"">>
         /\ NameOf[m] = Append(Directory[m], Last(NameOf[m]))
  BY FilesAssumption, Zenon
<1>3. Last(NameOf[m]) \in STRING
  <2>1. NameOf[m] # <<>>
    <3>1. \A n : Len(n) > 0 => n # <<>>
      BY EmptyIs
    <3>2. QED
      BY <1>1, <3>1, Zenon
  <2>2. QED
    BY <1>1, <2>1, LastIs, Zenon
<1>4. QED
  BY <1>1, <1>2, <1>3, CurrentDirectory, RootDirectory, OtherDirectory, Zenon

LEMMA DInvInit == DInit => DInv
BY InvInit, EmptyIs DEF DInit, DInv, Init, PlaceInv, CacheInv, AnswerInv

LEMMA DInvLoad ==
    ASSUME DInv, Load
    PROVE  DInv'
<1>1. /\ [Next]_vars /\ place' \in Placements(loaded') /\ answer' = Null /\ cache' = cache
  BY DEF Load
<1>2. Inv'
  BY <1>1, InvStep DEF DInv
<1>3. PlaceInv'
  <2> DEFINE L == Range(loaded')
             fresh == {m \in Asked \cap L : place[m] = Null}
             Placed(p) == [m \in Asked |-> CASE m \in fresh -> p[m]
                                             [] m \notin fresh /\ m \in L -> place[m]
                                             [] OTHER -> Null]
  <2>1. PICK p \in [fresh -> MapAddresses \X NameAddresses] : place' = Placed(p)
    BY <1>1 DEF Placements, In
  <2>2. ASSUME NEW m \in Asked
        PROVE  /\ m \in L => place'[m] \in MapAddresses \X NameAddresses
               /\ m \notin L => place'[m] = Null
    <3>1. CASE m \in fresh
      <4>1. place'[m] = p[m] /\ m \in L
        BY <2>1, <3>1
      <4>2. QED
        BY <2>1, <3>1, <4>1
    <3>2. CASE m \notin fresh /\ m \in L
      <4>1. place'[m] = place[m] /\ place[m] # Null
        BY <2>1, <3>2
      <4>2. QED
        BY <3>2, <4>1 DEF DInv, PlaceInv
    <3>3. CASE m \notin L
      <4>1. m \notin fresh
        BY <3>3
      <4>2. place'[m] = Null
        BY <2>1, <3>3, <4>1
      <4>3. QED
        BY <3>3, <4>2
    <3>4. QED
      BY <3>1, <3>2, <3>3
  <2>3. QED
    BY <2>2 DEF PlaceInv
<1>4. CacheInv' /\ AnswerInv'
  BY <1>1 DEF DInv, CacheInv, AnswerInv
<1>5. QED
  BY <1>2, <1>3, <1>4 DEF DInv

\* An open handle is that of a loaded module, which has its place.
LEMMA RegisteredIs ==
    ASSUME DInv, NEW m \in Asked, Registered(m)
    PROVE  place[m] = <<place[m][1], place[m][2]>>
<1>1. m \in Range(loaded)
  BY FilesAssumption DEF DInv, Inv, ScopeInv, Registered
<1>2. QED
  BY <1>1 DEF DInv, PlaceInv

LEMMA DInvCached ==
    ASSUME DInv, NEW m \in Asked, OriginCached(m)
    PROVE  DInv'
<1>1. UNCHANGED vars /\ place' = place /\ cache' = cache
  BY DEF OriginCached
<1>2. PICK e \in cache : /\ e.map = place[m][1] /\ e.name = place[m][2]
                         /\ answer' = [of |-> m, origin |-> e.origin]
  BY DEF OriginCached, Cached
<1>3. <<e.map, e.name>> = place[m]
  BY <1>2, RegisteredIs DEF OriginCached
<1>4. Inv'
  BY <1>1, InvStep DEF DInv
<1>5. PlaceInv' /\ CacheInv'
  BY <1>1 DEF vars, DInv, PlaceInv, CacheInv
<1>6. answer'.of = m /\ answer'.origin = e.origin
  BY <1>2
<1>7. ~ Reused(m)' => e.of = m
  BY <1>1, <1>3 DEF Reused
<1>8. e.origin = origin_from_name(NameOf[e.of])
  BY DEF DInv, CacheInv
<1>9. AnswerInv'
  BY <1>6, <1>7, <1>8 DEF AnswerInv, Reused
<1>10. QED
  BY <1>4, <1>5, <1>9 DEF DInv

LEMMA DInvComputed ==
    ASSUME DInv, NEW m \in Asked, OriginComputed(m)
    PROVE  DInv'
<1> DEFINE o == origin_from_name(NameOf[m])
           e == [map |-> place[m][1], name |-> place[m][2], origin |-> o, of |-> m]
<1>1. /\ UNCHANGED vars /\ place' = place
      /\ cache' = cache \cup {e} /\ answer' = [of |-> m, origin |-> o]
  BY DEF OriginComputed
<1>2. Inv'
  BY <1>1, InvStep DEF DInv
<1>3. PlaceInv'
  BY <1>1 DEF vars, DInv, PlaceInv
<1>4. e.origin = origin_from_name(NameOf[e.of])
  OBVIOUS
<1> HIDE DEF e
<1>5. CacheInv'
  BY <1>1, <1>4 DEF DInv, CacheInv
<1>6. answer'.of = m /\ answer'.origin = o
  BY <1>1
<1>7. AnswerInv'
  BY <1>6 DEF AnswerInv
<1>8. QED
  BY <1>2, <1>3, <1>5, <1>7 DEF DInv

LEMMA DInvStep == DInv /\ [DNext]_dvars => DInv'
<1> SUFFICES ASSUME DInv, [DNext]_dvars PROVE DInv'
  OBVIOUS
<1>1. CASE Load
  BY <1>1, DInvLoad
<1>2. CASE \E m \in Asked : OriginCached(m) \/ OriginComputed(m)
  BY <1>2, DInvCached, DInvComputed
<1>3. CASE UNCHANGED dvars
  <2>1. UNCHANGED vars /\ UNCHANGED <<place, cache, answer>>
    BY <1>3 DEF dvars, dlinfoVars
  <2>2. Inv'
    BY <2>1, InvStep DEF DInv
  <2>3. QED
    BY <2>1, <2>2 DEF vars, DInv, PlaceInv, CacheInv, AnswerInv, Reused
<1>4. QED
  BY <1>1, <1>2, <1>3 DEF DNext

LEMMA InvOriginIsOwn == DInv => OriginIsOwn
BY OriginIs DEF DInv, AnswerInv, OriginIsOwn, write_origin

\* dlinfo leaves the scopes alone.
LEMMA DNextIsNext == [DNext]_dvars => [Next]_vars
<1>1. Load => Next
  BY DEF Load
<1>2. ASSUME NEW m \in Asked, OriginCached(m) \/ OriginComputed(m) PROVE UNCHANGED vars
  BY <1>2 DEF OriginCached, OriginComputed
<1>3. UNCHANGED dvars => UNCHANGED vars
  BY DEF dvars
<1>4. QED
  BY <1>1, <1>2, <1>3 DEF DNext
-----------------------------------------------------------------------------
(* The theorems.                                                           *)

\* What one step of DefaultStable says.
KeepsDefault ==
    \A n \in Names :
      (global_find(n) # None /\ global_find(n) \in Range(loaded')) =>
        global_find(n)' = global_find(n)

LEMMA KeepsDefaultStep == Inv /\ Inv' /\ [Next]_vars => KeepsDefault
BY StableStep DEF KeepsDefault

\* The invariant holds however modules are registered, opened, promoted and closed.
THEOREM ScopesInvariant == Spec => []Inv
BY InvInit, InvStep, PTL DEF Spec

\* A handle of a library that dlopen loaded (registry/manager.rs, open_load) reaches
\* all that the library needs, and dlsym finds loaded modules only: for any number of
\* modules, cyclic dependencies included.
THEOREM ScopesHandleReaches == Spec => []HandleReaches
BY ScopesInvariant, InvHandleReaches, PTL

\* A chain of wrappers, each of which calls what RTLD_NEXT finds (next_find), runs
\* through all definitions of the global scope, once each.
THEOREM ScopesWrappersReachAll == Spec => []WrappersReachAll
BY ScopesInvariant, InvWrappersReachAll, PTL

\* RTLD_DEFAULT's answer (global_find) stays as long as the module found is loaded.
THEOREM ScopesDefaultStable == Spec => DefaultStable
<1>1. Inv /\ Inv' /\ [Next]_vars => [KeepsDefault]_vars
  BY KeepsDefaultStep
<1>2. Spec => [][KeepsDefault]_vars
  BY <1>1, ScopesInvariant, PTL DEF Spec
<1>3. QED
  BY <1>2 DEF DefaultStable, KeepsDefault

\* The same with the questions of dlinfo in between.
THEOREM DlInfoInvariant == DSpec => []DInv
BY DInvInit, DInvStep, PTL DEF DSpec

\* Handles reach what their modules need, in every process that also asks dlinfo.
THEOREM DlInfoHandleReaches == DSpec => []HandleReaches
<1>1. DInv => Inv
  BY DEF DInv
<1>2. QED
  BY <1>1, DlInfoInvariant, InvHandleReaches, PTL

\* So do chains of wrappers.
THEOREM DlInfoWrappersReachAll == DSpec => []WrappersReachAll
<1>1. DInv => Inv
  BY DEF DInv
<1>2. QED
  BY <1>1, DlInfoInvariant, InvWrappersReachAll, PTL

\* So does the stability of RTLD_DEFAULT.
THEOREM DlInfoDefaultStable == DSpec => DefaultStable
<1>1. DInv => Inv
  BY DEF DInv
<1>2. Inv /\ Inv' /\ [DNext]_dvars => [KeepsDefault]_vars
  BY KeepsDefaultStep, DNextIsNext
<1>3. DSpec => [][KeepsDefault]_vars
  BY <1>1, <1>2, DlInfoInvariant, PTL DEF DSpec
<1>4. QED
  BY <1>3 DEF DefaultStable, KeepsDefault

\* RTLD_DI_ORIGIN and RTLD_DI_ORIGIN_PATH (symbols/dlfcn.rs) answer with the directory
\* of the module's own file, whatever is in the cache from modules that were at one of
\* the two addresses before; only the reuse of both deceives the cache.
THEOREM DlInfoOriginIsOwn == DSpec => []OriginIsOwn
BY DlInfoInvariant, InvOriginIsOwn, PTL
=============================================================================
