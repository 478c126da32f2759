------------------------------ MODULE TlsProofs ------------------------------
(***************************************************************************)
(* Proofs about thread-local storage, for any number of threads and of     *)
(* modules, any sizes, alignments and addresses of their TLS segments, and *)
(* any capacity of the DTV and of the arena.                               *)
(***************************************************************************)
EXTENDS Tls, SequenceTheorems, WellFoundedInduction, TLAPS

-----------------------------------------------------------------------------
(* Arithmetic of the layout *)

\* A multiple of a has no remainder.
LEMMA MultipleMod ==
  ASSUME NEW a \in Nat \ {0}, NEW k \in Int
  PROVE  (k * a) % a = 0
OBVIOUS

\* Quotient and remainder.
LEMMA DivMod ==
  ASSUME NEW a \in Nat \ {0}, NEW v \in Int
  PROVE  /\ v \div a \in Int /\ v % a \in 0 .. a - 1
         /\ v = ((v \div a) * a) + (v % a)
OBVIOUS

\* align_up rounds up to a multiple.
LEMMA AlignUp ==
  ASSUME NEW a \in Nat \ {0}, NEW v \in Nat
  PROVE  /\ align_up(v, a) \in Nat
         /\ align_up(v, a) >= v
         /\ \E k \in Int : align_up(v, a) = k * a
<1> DEFINE q == (v + a - 1) \div a
           r == (v + a - 1) % a
<1>1. q \in Int /\ r \in 0 .. a - 1 /\ v + a - 1 = (q * a) + r
  BY DivMod
<1>2. align_up(v, a) = q * a
  BY DEF align_up
<1> HIDE DEF q, r
<1>3. q * a \in Int
  BY <1>1
<1>4. q * a >= v
  BY <1>1, <1>3
<1> QED
  BY <1>1, <1>2, <1>3, <1>4

\* The end of a static block leaves room for it, and its first byte is at an address
\* congruent to p_vaddr.
LEMMA ModuleEnd ==
  ASSUME NEW u \in Nat, NEW info \in Infos, NEW a \in Powers
  PROVE  /\ static_module_end(u, info, a) \in Nat
         /\ static_module_end(u, info, a) >= u + info.memsz
         /\ (static_module_end(u, info, a) + info.vaddr) % a = 0
<1> DEFINE v  == info.vaddr
           m  == u + info.memsz
           q  == (- v) \div a
           f  == (- v) % a
           up == align_up(MaxOf(m - f, 0), a)
           e  == static_module_end(u, info, a)
<1>1. a \in Nat \ {0} /\ v \in Nat /\ m \in Nat
  BY TlsAssumption
<1>2. e = IF up + f < m THEN (up + f) + a ELSE up + f
  BY DEF static_module_end
<1> HIDE DEF v, m, e
<1>3. q \in Int /\ f \in 0 .. a - 1 /\ - v = (q * a) + f
  <2>1. - v \in Int
    BY <1>1
  <2>2. QED
    BY <2>1, <1>1, DivMod
<1> HIDE DEF q, f
<1>4. MaxOf(m - f, 0) \in Nat
  BY <1>1, <1>3 DEF MaxOf
<1>5. PICK k \in Int : up \in Nat /\ up >= MaxOf(m - f, 0) /\ up = k * a
  BY <1>1, <1>4, AlignUp
<1>6. up >= m - f
  BY <1>1, <1>3, <1>5, <1>4 DEF MaxOf
<1> HIDE DEF up
<1>7. e \in Nat /\ e >= m /\ e = up + f
  BY <1>1, <1>2, <1>3, <1>5, <1>6
<1>8. e + v = (k - q) * a
  <2>1. (k - q) * a = (k * a) - (q * a) /\ k * a \in Int /\ q * a \in Int
    BY <1>1, <1>3
  <2>2. QED
    BY <2>1, <1>1, <1>3, <1>5, <1>7
<1>9. (e + v) % a = 0
  BY <1>1, <1>3, <1>8, MultipleMod
<1> QED
  BY <1>7, <1>9 DEF e, m, v

\* The rseq area lies below the static blocks.
LEMMA WithRseq ==
  ASSUME NEW u \in Nat
  PROVE  static_used_with_rseq(u) \in Nat /\ static_used_with_rseq(u) >= u
<1>1. RseqAlign \in Nat \ {0} /\ RseqSize \in Nat
  BY TlsAssumption
<1>2. align_up(u, RseqAlign) \in Nat /\ align_up(u, RseqAlign) >= u
  BY <1>1, AlignUp
<1> QED
  BY <1>1, <1>2 DEF static_used_with_rseq

\* A set of numbers with an upper bound has a largest member.
LEMMA Largest ==
  ASSUME NEW S, NEW b \in Nat, S \subseteq 0 .. b, S # {}
  PROVE  \E n \in S : \A k \in S : n >= k
<1> DEFINE T == {n \in Nat : \A k \in S : n >= k}
<1>1. b \in T
  OBVIOUS
<1>2. \E x \in T : \A y \in T : ~ (<<y, x>> \in OpToRel(<, Nat))
  <2>1. IsWellFoundedOn(OpToRel(<, Nat), Nat) /\ T \subseteq Nat /\ T # {}
    BY <1>1, NatLessThanWellFounded
  <2> HIDE DEF T
  <2>2. QED
    BY <2>1, WFMin
<1>3. PICK x \in T : \A y \in T : ~ (y < x)
  BY <1>2 DEF OpToRel
<1>4. x \in S
  <2>1. SUFFICES ASSUME x \notin S PROVE FALSE
    OBVIOUS
  <2>2. \A k \in S : k \in Nat /\ x >= k /\ x # k
    BY <2>1
  <2>3. x \in Nat /\ x > 0
    <3>1. PICK k \in S : TRUE
      OBVIOUS
    <3>2. k \in Nat /\ x >= k /\ x # k /\ x \in Nat
      BY <2>2
    <3> QED
      BY <3>2
  <2>4. x - 1 \in T
    BY <2>2, <2>3
  <2>5. QED
    BY <1>3, <2>3, <2>4
<1> QED
  BY <1>4

-----------------------------------------------------------------------------
(* The table of modules *)

\* A slot in use is of one of the two kinds, and its kind tells which.
LEMMA SlotKinds ==
  ASSUME modules \in Seq(Slot), NEW i \in DOMAIN modules, modules[i] # Null
  PROVE  /\ modules[i] \in Dynamic \/ modules[i] \in Static
         /\ modules[i] \in Dynamic <=> modules[i].kind = "dynamic"
         /\ modules[i] \in Static <=> modules[i].kind = "static"
<1>1. modules[i] \in Slot
  BY LenProperties, ElementOfSeq
<1>2. modules[i] \in Dynamic \/ modules[i] \in Static
  BY <1>1 DEF Slot
<1>3. /\ \A m \in Dynamic : m.kind = "dynamic"
      /\ \A m \in Static : m.kind = "static"
  BY DEF Dynamic, Static
<1>4. QED
  BY <1>2, <1>3

\* A static module has a slot of that kind.
LEMMA StaticSlot ==
  ASSUME TypeOK, NEW i \in statics
  PROVE  modules[i] \in Static
BY SlotKinds DEF TypeOK

\* What register_module does to the table.
LEMMA Registered ==
  ASSUME modules \in Seq(Slot), NEW m \in Slot, Register(m)
  PROVE  /\ modules' \in Seq(Slot) /\ Len(modules') = Len(modules) + 1
         /\ NewId \in Nat \ {0} /\ NewId \notin DOMAIN modules
         /\ DOMAIN modules' = DOMAIN modules \cup {NewId}
         /\ modules'[NewId] = m
         /\ \A i \in DOMAIN modules : modules'[i] = modules[i]
<1> DEFINE n == Len(modules)
<1>1. n \in Nat /\ DOMAIN modules = 1 .. n /\ \A i \in 1 .. n : modules[i] \in Slot
  BY LenProperties, ElementOfSeq
<1>2. modules' = [i \in DOMAIN modules \cup {n + 1} |->
                    IF i = n + 1 THEN m ELSE modules[i]]
  BY DEF Register, NewId
<1> HIDE DEF n
<1>3. DOMAIN modules \cup {n + 1} = 1 .. n + 1 /\ n + 1 \notin DOMAIN modules
  BY <1>1
<1>4. modules' \in [1 .. n + 1 -> Slot]
  BY <1>1, <1>2, <1>3
<1>5. modules' \in Seq(Slot) /\ Len(modules') = n + 1
  BY <1>1, <1>4, SeqDef, LenProperties
<1>6. QED
  BY <1>1, <1>2, <1>3, <1>5 DEF n, NewId

\* What publishing a module does to the table.
LEMMA Published ==
  ASSUME modules \in Seq(Slot), NEW id \in DOMAIN modules,
         modules[id] \in Dynamic \/ modules[id] \in Static,
         modules' = [modules EXCEPT ![id].source = TRUE]
  PROVE  /\ modules' \in Seq(Slot) /\ Len(modules') = Len(modules)
         /\ DOMAIN modules' = DOMAIN modules
         /\ \A i \in DOMAIN modules : i # id => modules'[i] = modules[i]
         /\ modules[id] \in Dynamic => modules'[id] \in Dynamic
         /\ modules[id] \in Static =>
              /\ modules'[id] \in Static
              /\ modules'[id].info = modules[id].info
              /\ modules'[id].offset = modules[id].offset
<1> DEFINE m == [modules[id] EXCEPT !.source = TRUE]
<1>1. modules' = [modules EXCEPT ![id] = m]
  OBVIOUS
<1>2. /\ modules[id] \in Dynamic => m \in Dynamic
      /\ modules[id] \in Static => /\ m \in Static /\ m.info = modules[id].info
                                   /\ m.offset = modules[id].offset
  BY DEF Dynamic, Static
<1> HIDE DEF m
<1>3. m \in Slot
  BY <1>2 DEF Slot
<1>4. modules' \in Seq(Slot) /\ Len(modules') = Len(modules)
  <2>1. id \in 1 .. Len(modules)
    BY LenProperties
  <2>2. /\ [modules EXCEPT ![id] = m] \in Seq(Slot)
        /\ Len([modules EXCEPT ![id] = m]) = Len(modules)
    BY <1>3, <2>1, ExceptSeq
  <2>3. QED
    BY <1>1, <2>2
<1>5. modules'[id] = m /\ DOMAIN modules' = DOMAIN modules
      /\ \A i \in DOMAIN modules : i # id => modules'[i] = modules[i]
  BY <1>1
<1>6. QED
  BY <1>2, <1>4, <1>5

\* What unregister_module does to the table.
LEMMA Vacated ==
  ASSUME modules \in Seq(Slot), NEW id \in DOMAIN modules,
         modules' = [modules EXCEPT ![id] = Null]
  PROVE  /\ modules' \in Seq(Slot) /\ Len(modules') = Len(modules)
         /\ DOMAIN modules' = DOMAIN modules
         /\ modules'[id] = Null
         /\ \A i \in DOMAIN modules : i # id => modules'[i] = modules[i]
<1>1. id \in 1 .. Len(modules) /\ Null \in Slot
  BY LenProperties DEF Slot
<1>2. /\ [modules EXCEPT ![id] = Null] \in Seq(Slot)
      /\ Len([modules EXCEPT ![id] = Null]) = Len(modules)
  BY <1>1, ExceptSeq
<1>3. QED
  BY <1>2

-----------------------------------------------------------------------------
(* The static blocks *)

\* Two static blocks do not overlap.
Disjoint(m, n) ==
    \/ m.offset <= n.offset - n.info.memsz
    \/ n.offset <= m.offset - m.info.memsz

\* A static block is inside the area of size u, and its first byte congruent to its p_vaddr.
Placed(m, u) ==
    /\ m.offset <= u
    /\ m.info.memsz <= m.offset
    /\ \E p \in Powers : IsNextPowerOfTwo(p, m.info.align)
                         /\ (m.offset + m.info.vaddr) % p = 0

\* The part of the invariant about the table of modules and the static area.
Books ==
    /\ modules \in Seq(Slot)
    /\ Len(modules) <= MaxModules
    /\ statics \subseteq DOMAIN modules
    /\ \A i \in statics : modules[i] \in Static /\ Placed(modules[i], used)
    /\ \A i \in statics : \A j \in statics \ {i} : Disjoint(modules[i], modules[j])
    /\ used \in 0 .. Arena
    /\ maxAlign \in Nat \ {0}
    /\ static_used_with_rseq(used) <= Arena \/ statics = {}

\* The part of the invariant about the threads and their memory.
Memories ==
    /\ layout \in Layout \cup {Null}
    /\ storage \in [Threads -> Layout \cup {Null}]
    /\ owned \subseteq Tcbs
    /\ phase \in [Threads -> {"none", "memory", "tcb", "running", "kept"}]
    /\ dtv \in [Threads -> {Null} \cup [1 .. Slots -> Entry]]
    /\ blocks \subseteq [tp : Threads, ptr : DOMAIN made]
    /\ heap \subseteq DOMAIN made
    /\ made \in Seq(Ids)
    /\ Len(made) <= MaxBlocks
    /\ reach \in [Threads -> Nat]
    /\ images \in [Threads -> SUBSET Ids]

\* The part about what was measured, written and known.
Histories ==
    /\ measured \in [Threads -> Nat \X Nat]
    /\ wrote \in [Threads -> Nat \X Nat]
    /\ known \in [Threads -> SUBSET Ids]

\* The invariant is these three parts and the three about their relation.
LEMMA InvParts ==
  Inv <=> Books /\ Memories /\ Histories /\ MainReady /\ BlocksOnce /\ OwnEntries
<1>1. ASSUME Inv PROVE Books /\ Memories /\ Histories
  <2>1. TypeOK /\ Bounded
    BY <1>1 DEF Inv, LayoutSound
  <2>2. \A i \in statics : modules[i] \in Static /\ Placed(modules[i], used)
    BY <1>1, <2>1, StaticSlot DEF Inv, LayoutSound, Placed
  <2>3. \A i \in statics : \A j \in statics \ {i} : Disjoint(modules[i], modules[j])
    BY <1>1 DEF Inv, LayoutSound, Disjoint
  <2>4. QED
    BY <1>1, <2>1, <2>2, <2>3 DEF Inv, LayoutSound, TypeOK, Bounded, Books, Memories,
       Histories
<1>2. ASSUME Books, Memories, Histories PROVE LayoutSound /\ Bounded
  <2>1. \A i \in statics : modules[i] # Null /\ modules[i].kind = "static"
    <3>1. \A m \in Static : m # Null /\ m.kind = "static"
      BY NullAssumption DEF Static
    <3>2. QED
      BY <1>2, <3>1 DEF Books
  <2>2. ASSUME NEW t \in Threads, dtv[t] # Null, NEW i \in 1 .. Slots
        PROVE  dtv[t][i] \in Entry
    BY <1>2, <2>2 DEF Memories
  <2>3. TypeOK
    BY <1>2, <2>1, <2>2 DEF TypeOK, Books, Memories, Histories
  <2>4. \A i \in statics : \A j \in statics \ {i} : Disjoint(modules[i], modules[j])
    BY <1>2 DEF Books
  <2>5. \A i \in statics : Placed(modules[i], used)
    BY <1>2 DEF Books
  <2>6. static_used_with_rseq(used) <= Arena \/ statics = {}
    BY <1>2 DEF Books
  <2>7. LayoutSound
    BY <2>3, <2>4, <2>5, <2>6 DEF LayoutSound, Placed, Disjoint
  <2>8. QED
    BY <1>2, <2>7 DEF Bounded, Books, Memories
<1>3. QED
  BY <1>1, <1>2 DEF Inv

\* The blocks stay where they are when modules only go or get their source.
LEMMA BooksKept ==
  ASSUME Books, modules' \in Seq(Slot), Len(modules') = Len(modules),
         statics' \subseteq statics, used' = used, maxAlign' = maxAlign,
         \A i \in statics' : /\ i \in DOMAIN modules' /\ modules'[i] \in Static
                             /\ modules'[i].info = modules[i].info
                             /\ modules'[i].offset = modules[i].offset
  PROVE  Books'
<1>1. \A i \in statics' : modules'[i] \in Static /\ Placed(modules'[i], used')
  BY DEF Books, Placed
<1>2. \A i \in statics' : \A j \in statics' \ {i} : Disjoint(modules'[i], modules'[j])
  BY DEF Books, Disjoint
<1>3. static_used_with_rseq(used)' <= Arena \/ statics' = {}
  BY DEF Books, static_used_with_rseq, align_up
<1>4. QED
  BY <1>1, <1>2, <1>3 DEF Books

\* register_module of a dynamic module: the static area is not touched.
LEMMA BooksRegisterDynamic ==
  ASSUME Books, RegisterDynamic
  PROVE  Books'
<1> DEFINE m == [kind |-> "dynamic", source |-> FALSE]
<1>1. m \in Slot
  BY DEF Slot, Dynamic
<1>2. Register(m) /\ modules \in Seq(Slot)
  BY DEF RegisterDynamic, Books
<1> HIDE DEF m
<1>3. /\ modules' \in Seq(Slot) /\ Len(modules') = Len(modules) + 1
      /\ DOMAIN modules \subseteq DOMAIN modules'
      /\ \A i \in DOMAIN modules : modules'[i] = modules[i]
  BY <1>1, <1>2, Registered
<1>4. Len(modules') <= MaxModules
  BY <1>3 DEF RegisterDynamic, NewId
<1>5. statics' = statics /\ used' = used /\ maxAlign' = maxAlign
  BY DEF RegisterDynamic
<1>6. \A i \in statics : i \in DOMAIN modules' /\ modules'[i] = modules[i]
  BY <1>3 DEF Books
<1>7. \A i \in statics' : modules'[i] \in Static /\ Placed(modules'[i], used')
  BY <1>5, <1>6 DEF Books, Placed
<1>8. \A i \in statics' : \A j \in statics' \ {i} : Disjoint(modules'[i], modules'[j])
  BY <1>5, <1>6 DEF Books
<1>9. static_used_with_rseq(used)' <= Arena \/ statics' = {}
  BY <1>5 DEF Books, static_used_with_rseq, align_up
<1>10. QED
  BY <1>3, <1>4, <1>5, <1>6, <1>7, <1>8, <1>9 DEF Books

\* register_static_module: the new block lies below all others.
LEMMA BooksRegisterStatic ==
  ASSUME Books, NEW info \in Infos, RegisterStatic(info)
  PROVE  Books'
<1>1. PICK a \in Powers :
        LET end == static_module_end(used, info, a)
        IN  /\ IsNextPowerOfTwo(a, info.align)
            /\ static_used_with_rseq(end) <= Arena
            /\ Register([kind |-> "static", info |-> info, source |-> FALSE,
                         offset |-> end])
            /\ used' = end
            /\ maxAlign' = MaxOf(maxAlign, a)
  BY DEF RegisterStatic
<1> DEFINE end == static_module_end(used, info, a)
           m   == [kind |-> "static", info |-> info, source |-> FALSE, offset |-> end]
<1>2. /\ used \in Nat /\ Arena \in Nat /\ modules \in Seq(Slot)
      /\ info.memsz \in Nat /\ a \in Nat \ {0} /\ maxAlign \in Nat \ {0}
  BY TlsAssumption DEF Books
<1>3. /\ end \in Nat /\ end >= used + info.memsz
      /\ (end + info.vaddr) % a = 0
  BY <1>2, ModuleEnd
<1>4. /\ IsNextPowerOfTwo(a, info.align) /\ static_used_with_rseq(end) <= Arena
      /\ Register(m) /\ used' = end /\ maxAlign' = MaxOf(maxAlign, a)
      /\ statics' = statics \cup {NewId} /\ NewId <= MaxModules
  BY <1>1 DEF RegisterStatic
<1> HIDE DEF end
<1>5. end <= Arena /\ static_used_with_rseq(end) \in Nat
  <2>1. static_used_with_rseq(end) \in Nat /\ static_used_with_rseq(end) >= end
    BY <1>3, WithRseq
  <2>2. QED
    BY <2>1, <1>2, <1>3, <1>4
<1>6. m \in Static /\ m.info = info /\ m.offset = end
  BY <1>2, <1>3, <1>5 DEF Static
<1> HIDE DEF m
<1>7. /\ modules' \in Seq(Slot) /\ Len(modules') = Len(modules) + 1
      /\ NewId \notin DOMAIN modules
      /\ DOMAIN modules' = DOMAIN modules \cup {NewId}
      /\ modules'[NewId] = m
      /\ \A i \in DOMAIN modules : modules'[i] = modules[i]
  BY <1>2, <1>4, <1>6, Registered DEF Slot
<1>8. /\ \A i \in statics : modules'[i] = modules[i] /\ modules[i] \in Static
      /\ NewId \notin statics
  BY <1>7 DEF Books
<1>9. ASSUME NEW i \in statics
      PROVE  /\ modules[i].offset \in Nat /\ modules[i].info.memsz \in Nat
             /\ modules[i].offset <= used
  BY <1>8, TlsAssumption DEF Static, Books, Placed
<1>10. \A i \in statics' : modules'[i] \in Static /\ Placed(modules'[i], used')
  <2>1. ASSUME NEW i \in statics PROVE Placed(modules[i], used')
    <3>1. modules[i].offset <= end
      BY <1>2, <1>3, <1>9
    <3>2. Placed(modules[i], used)
      BY DEF Books
    <3>3. modules[i].offset <= used'
      BY <3>1, <1>4
    <3>4. modules'[i] = modules[i]
      BY <1>8
    <3>5. QED
      BY <3>2, <3>3, <3>4 DEF Placed
  <2>2. info.memsz <= end
    BY <1>2, <1>3
  <2>3. Placed(m, used')
    BY <1>3, <1>4, <1>6, <2>2 DEF Placed
  <2>4. QED
    BY <1>4, <1>6, <1>7, <1>8, <2>1, <2>3 DEF Placed
<1>11. \A i \in statics' : \A j \in statics' \ {i} : Disjoint(modules'[i], modules'[j])
  <2>1. ASSUME NEW i \in statics PROVE modules[i].offset <= m.offset - m.info.memsz
    BY <1>2, <1>3, <1>6, <1>9
  <2>2. \A i \in statics : Disjoint(modules[i], m) /\ Disjoint(m, modules[i])
    BY <2>1 DEF Disjoint
  <2>3. \A i \in statics : \A j \in statics \ {i} : Disjoint(modules[i], modules[j])
    BY DEF Books
  <2>4. QED
    BY <2>2, <2>3, <1>4, <1>7, <1>8
<1>12. static_used_with_rseq(used)' <= Arena
  <2>1. static_used_with_rseq(used)' = static_used_with_rseq(end)
    BY <1>4 DEF static_used_with_rseq, align_up
  <2>2. QED
    BY <2>1, <1>4
<1>13. used' \in 0 .. Arena /\ maxAlign' \in Nat \ {0} /\ Len(modules') <= MaxModules
  BY <1>2, <1>3, <1>4, <1>5, <1>7 DEF MaxOf, NewId
<1>14. statics' \subseteq DOMAIN modules'
  BY <1>4, <1>7 DEF Books
<1>15. QED
  BY <1>7, <1>10, <1>11, <1>12, <1>13, <1>14 DEF Books

\* init_tls_module and unregister_module leave the blocks where they are.
LEMMA BooksOthers ==
  ASSUME Books, NEW id,
         PublishDynamic(id) \/ PublishStatic(id) \/ Unregister(id)
  PROVE  Books'
<1>1. modules \in Seq(Slot)
  BY DEF Books
<1>2. CASE PublishDynamic(id)
  <2>1. id \in DOMAIN modules /\ modules[id] # Null /\ modules[id].kind = "dynamic"
    BY <1>2 DEF PublishDynamic, tls_module
  <2>2. modules[id] \in Dynamic /\ modules[id] \notin Static
    BY <1>1, <2>1, SlotKinds
  <2>3. id \notin statics
    BY <2>2 DEF Books
  <2>4. modules' = [modules EXCEPT ![id].source = TRUE]
        /\ statics' = statics /\ used' = used /\ maxAlign' = maxAlign
    BY <1>2 DEF PublishDynamic
  <2>5. /\ modules' \in Seq(Slot) /\ Len(modules') = Len(modules)
        /\ DOMAIN modules' = DOMAIN modules
        /\ \A i \in DOMAIN modules : i # id => modules'[i] = modules[i]
    BY <1>1, <2>1, <2>2, <2>4, Published
  <2>6. \A i \in statics : i \in DOMAIN modules' /\ modules'[i] = modules[i]
                           /\ modules[i] \in Static
    BY <2>3, <2>5 DEF Books
  <2>7. QED
    BY <2>4, <2>5, <2>6, BooksKept
<1>3. CASE PublishStatic(id)
  <2>1. id \in DOMAIN modules /\ modules[id] \in Static
    BY <1>3 DEF PublishStatic, Books
  <2>2. modules' = [modules EXCEPT ![id].source = TRUE]
        /\ statics' = statics /\ used' = used /\ maxAlign' = maxAlign
    BY <1>3 DEF PublishStatic
  <2>3. /\ modules' \in Seq(Slot) /\ Len(modules') = Len(modules)
        /\ DOMAIN modules' = DOMAIN modules
        /\ \A i \in DOMAIN modules : i # id => modules'[i] = modules[i]
        /\ modules'[id] \in Static
        /\ modules'[id].info = modules[id].info
        /\ modules'[id].offset = modules[id].offset
    BY <1>1, <2>1, <2>2, Published
  <2>4. \A i \in statics : /\ i \in DOMAIN modules' /\ modules'[i] \in Static
                           /\ modules'[i].info = modules[i].info
                           /\ modules'[i].offset = modules[i].offset
    BY <2>3 DEF Books
  <2>5. QED
    BY <2>2, <2>3, <2>4, BooksKept
<1>4. CASE Unregister(id)
  <2>1. /\ id \in DOMAIN modules
        /\ modules' = [modules EXCEPT ![id] = Null]
        /\ statics' = statics \ {id} /\ used' = used /\ maxAlign' = maxAlign
    BY <1>4 DEF Unregister, tls_module
  <2>2. /\ modules' \in Seq(Slot) /\ Len(modules') = Len(modules)
        /\ DOMAIN modules' = DOMAIN modules
        /\ \A i \in DOMAIN modules : i # id => modules'[i] = modules[i]
    BY <1>1, <2>1, Vacated
  <2>3. \A i \in statics' : i \in DOMAIN modules' /\ modules'[i] = modules[i]
                            /\ modules[i] \in Static
    BY <2>1, <2>2 DEF Books
  <2>4. statics' \subseteq statics
    BY <2>1
  <2>5. QED
    BY <2>1, <2>2, <2>3, <2>4, BooksKept
<1>5. QED
  BY <1>2, <1>3, <1>4

\* The operations of threads do not touch the table.
LEMMA BooksStep ==
  ASSUME Books, [Next]_vars
  PROVE  Books'
<1>1. ASSUME modVars' = modVars PROVE Books'
  <2>1. modules' = modules /\ statics' = statics /\ used' = used /\ maxAlign' = maxAlign
    BY <1>1 DEF modVars
  <2>2. QED
    BY <2>1, BooksKept DEF Books
<1>2. CASE RegisterDynamic
  BY <1>2, BooksRegisterDynamic
<1>3. CASE \E info \in Infos : RegisterStatic(info)
  BY <1>3, BooksRegisterStatic
<1>4. CASE \E info \in Infos : RegisterStaticFails(info)
  BY <1>4, <1>1 DEF RegisterStaticFails
<1>5. CASE \E id \in Ids : PublishDynamic(id) \/ PublishStatic(id) \/ Unregister(id)
  BY <1>5, BooksOthers
<1>6. CASE PublishLayout
  BY <1>6, <1>1 DEF PublishLayout
<1>7. CASE \E t \in Tcbs : \/ AllocateStorage(t) \/ ProvideStorage(t)
                           \/ InitTcb(t) \/ InitRseq(t)
                           \/ Deallocate(t) \/ Reinit(t)
  BY <1>7, <1>1 DEF AllocateStorage, ProvideStorage, InitTcb, InitRseq, Deallocate, Reinit
<1>8. CASE \E t \in Threads, id \in Ids : GetAddr(t, id)
  BY <1>8, <1>1 DEF GetAddr
<1>9. CASE UNCHANGED vars
  BY <1>9, <1>1 DEF vars
<1>10. QED
  BY <1>2, <1>3, <1>4, <1>5, <1>6, <1>7, <1>8, <1>9 DEF Next

-----------------------------------------------------------------------------
(* The threads *)

\* An empty DTV is one.
LEMMA NewDtvType == NewDtv \in [1 .. Slots -> Entry]
BY DEF NewDtv, Entry

\* Entering static blocks makes a DTV again, with those entries.
LEMMA WithStaticsType ==
  ASSUME NEW d \in [1 .. Slots -> Entry], NEW S \in SUBSET Ids
  PROVE  /\ WithStatics(d, S) \in [1 .. Slots -> Entry]
         /\ \A i \in 1 .. Slots :
              WithStatics(d, S)[i] = IF i \in S THEN [static |-> i] ELSE d[i]
<1>1. DOMAIN d = 1 .. Slots
  OBVIOUS
<1>2. \A i \in S : [static |-> i] \in Entry
  BY DEF Entry
<1>3. QED
  BY <1>1, <1>2 DEF WithStatics

\* Ids are within their bound.
LEMMA StaticIds ==
  ASSUME Books PROVE statics \subseteq Ids /\ DOMAIN modules \subseteq Ids
<1>1. Len(modules) \in Nat /\ DOMAIN modules = 1 .. Len(modules)
  BY LenProperties DEF Books
<1>2. QED
  BY <1>1, TlsAssumption DEF Books, Ids

\* The end of the rseq area is a number.
LEMMA RseqType ==
  ASSUME Books PROVE static_used_with_rseq(used) \in Nat
BY WithRseq, TlsAssumption DEF Books

\* The larger of two numbers is one of them and not below either.
LEMMA MaxNat ==
  ASSUME NEW a \in Nat, NEW b \in Nat
  PROVE  MaxOf(a, b) \in Nat /\ MaxOf(a, b) >= a /\ MaxOf(a, b) >= b
         /\ (MaxOf(a, b) = a \/ MaxOf(a, b) = b)
BY DEF MaxOf

\* The size that allocate_storage asks for includes the rseq area.
LEMMA StaticLayoutType ==
  ASSUME Books
  PROVE  /\ StaticLayout \in Layout
         /\ StaticLayout.align = MaxOf(maxAlign, MaxOf(RseqAlign, TcbAlign))
         /\ StaticLayout.size >= static_used_with_rseq(used)
<1> DEFINE a == MaxOf(maxAlign, MaxOf(RseqAlign, TcbAlign))
           r == static_used_with_rseq(used)
<1>1. a \in Nat \ {0}
  <2>1. maxAlign \in Nat \ {0} /\ RseqAlign \in Nat \ {0} /\ TcbAlign \in Nat \ {0}
    BY TlsAssumption DEF Books
  <2>2. QED
    BY <2>1 DEF MaxOf
<1>2. r \in Nat
  BY RseqType
<1>3. StaticLayout = [size |-> align_up(r, a), align |-> a]
  BY DEF StaticLayout, LayoutOf, static_used_info
<1> HIDE DEF a, r
<1>4. align_up(r, a) \in Nat /\ align_up(r, a) >= r
  BY <1>1, <1>2, AlignUp
<1>5. QED
  BY <1>1, <1>3, <1>4 DEF a, r, Layout

\* FarthestOf picks a byte among the static blocks.
LEMMA BooksFarthest ==
  ASSUME Books, NEW S \in SUBSET statics
  PROVE  FarthestOf(S) \in 0 .. used /\ FarthestOf(S) \in Nat
<1> DEFINE F == {0} \cup {modules[i].offset : i \in S}
<1>1. used \in Nat /\ \A i \in S : modules[i].offset \in 0 .. used
  <2>1. ASSUME NEW i \in S PROVE modules[i].offset \in 0 .. used
    <3>1. modules[i] \in Static
      BY DEF Books
    <3>2. modules[i].offset \in Nat /\ used \in Nat
      BY <3>1, TlsAssumption DEF Static, Books
    <3>3. modules[i].offset <= used
      BY DEF Books, Placed
    <3>4. QED
      BY <3>2, <3>3
  <2>2. QED
    BY <2>1, TlsAssumption DEF Books
<1>2. F \subseteq 0 .. used /\ F # {}
  BY <1>1
<1>3. \E n \in F : \A k \in F : n >= k
  <2> HIDE DEF F
  <2>1. QED
    BY <1>1, <1>2, Largest
<1>4. \E n \in F : \A i \in S : n >= modules[i].offset
  BY <1>3
<1>5. FarthestOf(S) \in F
  BY <1>4 DEF FarthestOf
<1>6. QED
  BY <1>1, <1>2, <1>5

\* The allocation of a dynamic block: the new block is not one of the old ones.
LEMMA Allocated ==
  ASSUME Memories, NEW t \in Threads, NEW id \in Ids, Len(made) < MaxBlocks,
         AllocateBlock(t, id)
  PROVE  /\ made' \in Seq(Ids) /\ Len(made') <= MaxBlocks
         /\ Len(made) + 1 \in 1 .. MaxBlocks
         /\ DOMAIN made' = DOMAIN made \cup {Len(made) + 1}
         /\ Len(made) + 1 \notin DOMAIN made
         /\ \A p \in DOMAIN made : made'[p] = made[p]
         /\ made'[Len(made) + 1] = id
<1> DEFINE n == Len(made)
<1>1. made' = Append(made, id)
  BY DEF AllocateBlock
<1>2. made \in Seq(Ids) /\ MaxBlocks \in Nat
  BY TlsAssumption DEF Memories
<1>3. n \in Nat /\ DOMAIN made = 1 .. n
  BY <1>2, LenProperties
<1>4. /\ made' \in Seq(Ids) /\ Len(made') = n + 1
      /\ \A p \in 1 .. n : made'[p] = made[p]
      /\ made'[n + 1] = id
  BY <1>1, <1>2, AppendProperties
<1>5. DOMAIN made' = 1 .. n + 1
  BY <1>4, LenProperties
<1>6. n < MaxBlocks
  OBVIOUS
<1> HIDE DEF n
<1>7. n + 1 <= MaxBlocks /\ n + 1 \in 1 .. MaxBlocks /\ n + 1 \notin 1 .. n
      /\ 1 .. n + 1 = 1 .. n \cup {n + 1}
  BY <1>2, <1>3, <1>6
<1>8. QED
  BY <1>3, <1>4, <1>5, <1>7 DEF n

\* Every step of a module operation keeps the memories well typed.
LEMMA MemoriesModules ==
  ASSUME Books, Memories, MainReady, OwnEntries, NEW info, NEW id,
         \/ RegisterDynamic \/ RegisterStatic(info) \/ RegisterStaticFails(info)
         \/ PublishDynamic(id) \/ PublishStatic(id) \/ Unregister(id) \/ PublishLayout
  PROVE  Memories' /\ MainReady'
<1>1. Main \in Threads
  BY DEF Threads
<1>2. ASSUME EnsureArea, UNCHANGED <<layout, owned, blocks, heap, made, reach, images>>
      PROVE  Memories' /\ MainReady'
  <2>1. [size |-> Arena, align |-> MainAlign] \in Layout
    BY TlsAssumption DEF Layout
  <2>2. storage' \in [Threads -> Layout \cup {Null}]
    BY <1>2, <2>1 DEF EnsureArea, Memories
  <2>3. phase' \in [Threads -> {"none", "memory", "tcb", "running", "kept"}]
        /\ phase'[Main] = "running"
    BY <1>1, <1>2 DEF EnsureArea, Memories
  <2>4. dtv' \in [Threads -> {Null} \cup [1 .. Slots -> Entry]]
    BY <1>2, NewDtvType DEF EnsureArea, Memories
  <2>5. QED
    BY <1>2, <2>2, <2>3, <2>4 DEF Memories, MainReady
<1>3. CASE RegisterDynamic
  BY <1>3 DEF RegisterDynamic, Memories, MainReady
<1>4. CASE RegisterStatic(info)
  BY <1>4, <1>2 DEF RegisterStatic
<1>5. CASE RegisterStaticFails(info)
  BY <1>5, <1>2 DEF RegisterStaticFails
<1>6. CASE PublishDynamic(id)
  BY <1>6 DEF PublishDynamic, Memories, MainReady
<1>7. CASE PublishStatic(id)
  <2>1. id \in Ids /\ phase[Main] = "running"
    BY <1>7, StaticIds DEF PublishStatic, MainReady
  <2>2. dtv[Main] \in [1 .. Slots -> Entry]
    BY <1>1, <2>1 DEF OwnEntries
  <2>3. WithStatics(dtv[Main], {id}) \in [1 .. Slots -> Entry]
    BY <2>1, <2>2, WithStaticsType
  <2>4. dtv' \in [Threads -> {Null} \cup [1 .. Slots -> Entry]]
    BY <1>7, <2>3 DEF PublishStatic, Memories
  <2>5. MaxOf(reach[Main], static_used_with_rseq(used)) \in Nat
    BY <1>1, RseqType, MaxNat DEF Memories
  <2>6. reach' \in [Threads -> Nat]
    BY <1>7, <2>5 DEF PublishStatic, Memories
  <2>7. images' \in [Threads -> SUBSET Ids]
    BY <1>7, <2>1 DEF PublishStatic, Memories
  <2>8. QED
    BY <1>7, <2>4, <2>6, <2>7 DEF PublishStatic, Memories, MainReady
<1>8. CASE Unregister(id)
  <2>1. statics' \subseteq statics
    BY <1>8 DEF Unregister
  <2>2. phase' = phase
    BY <1>8 DEF Unregister
  <2>3. MainReady'
    BY <2>1, <2>2 DEF MainReady
  <2>4. QED
    BY <1>8, <2>3 DEF Unregister, Memories
<1>9. CASE PublishLayout
  BY <1>9, StaticLayoutType DEF PublishLayout, modVars, Memories, MainReady
<1>10. QED
  BY <1>3, <1>4, <1>5, <1>6, <1>7, <1>8, <1>9

\* Every step of a thread keeps the memories well typed.
LEMMA MemoriesThreads ==
  ASSUME Books, Memories, MainReady, NEW t \in Tcbs,
         \/ AllocateStorage(t) \/ ProvideStorage(t) \/ InitTcb(t) \/ InitRseq(t)
         \/ Deallocate(t) \/ Reinit(t)
  PROVE  Memories' /\ MainReady'
<1>1. t \in Threads /\ t # Main /\ Main \in Threads
  BY TlsAssumption DEF Threads
<1>2. ASSUME UNCHANGED statics, NEW s, phase' = [phase EXCEPT ![t] = s]
      PROVE  MainReady'
  BY <1>1, <1>2 DEF MainReady, Memories
<1>3. CASE AllocateStorage(t)
  <2>1. MainReady'
    BY <1>3, <1>2 DEF AllocateStorage, modVars
  <2>2. phase' \in [Threads -> {"none", "memory", "tcb", "running", "kept"}]
    BY <1>3 DEF AllocateStorage, Memories
  <2>3. storage' \in [Threads -> Layout \cup {Null}]
    BY <1>3, StaticLayoutType DEF AllocateStorage, Memories
  <2>4. QED
    BY <1>3, <2>1, <2>2, <2>3 DEF AllocateStorage, Memories
<1>4. CASE ProvideStorage(t)
  <2>1. MainReady'
    BY <1>4, <1>2 DEF ProvideStorage, modVars
  <2>2. phase' \in [Threads -> {"none", "memory", "tcb", "running", "kept"}]
    BY <1>4 DEF ProvideStorage, Memories
  <2>3. storage' \in [Threads -> Layout \cup {Null}]
    BY <1>4 DEF ProvideStorage, Memories
  <2>4. QED
    BY <1>4, <2>1, <2>2, <2>3 DEF ProvideStorage, Memories
<1>5. CASE InitTcb(t)
  <2> DEFINE S == WithImage
  <2>1. MainReady'
    BY <1>5, <1>2 DEF InitTcb, modVars
  <2>2. /\ dtv' = [dtv EXCEPT ![t] = WithStatics(NewDtv, S)]
        /\ images' = [images EXCEPT ![t] = S]
        /\ reach' = [reach EXCEPT ![t] = FarthestOf(S)]
        /\ phase' = [phase EXCEPT ![t] = "tcb"]
        /\ UNCHANGED <<layout, storage, owned, blocks, heap, made>>
    BY <1>5 DEF InitTcb
  <2>3. S \in SUBSET statics /\ S \in SUBSET Ids
    BY StaticIds DEF WithImage
  <2> HIDE DEF S
  <2>4. WithStatics(NewDtv, S) \in [1 .. Slots -> Entry]
    BY <2>3, NewDtvType, WithStaticsType
  <2>5. FarthestOf(S) \in Nat
    BY <2>3, BooksFarthest
  <2>6. phase' \in [Threads -> {"none", "memory", "tcb", "running", "kept"}]
    BY <2>2 DEF Memories
  <2>7. dtv' \in [Threads -> {Null} \cup [1 .. Slots -> Entry]]
    BY <2>2, <2>4 DEF Memories
  <2>8. images' \in [Threads -> SUBSET Ids] /\ reach' \in [Threads -> Nat]
    BY <2>2, <2>3, <2>5 DEF Memories
  <2>9. QED
    BY <2>1, <2>2, <2>6, <2>7, <2>8 DEF Memories
<1>6. CASE InitRseq(t)
  <2>1. MainReady'
    BY <1>6, <1>2 DEF InitRseq, modVars
  <2>2. phase' \in [Threads -> {"none", "memory", "tcb", "running", "kept"}]
    BY <1>6 DEF InitRseq, Memories
  <2>3. MaxOf(reach[t], static_used_with_rseq(used)) \in Nat
    BY <1>1, RseqType, MaxNat DEF Memories
  <2>4. reach' \in [Threads -> Nat]
    BY <1>6, <2>3 DEF InitRseq, Memories
  <2>5. QED
    BY <1>6, <2>1, <2>2, <2>4 DEF InitRseq, Memories
<1>7. CASE Deallocate(t)
  <2>1. MainReady'
    BY <1>7, <1>2 DEF Deallocate, Forget, modVars
  <2>2. phase' \in [Threads -> {"none", "memory", "tcb", "running", "kept"}]
        /\ storage' \in [Threads -> Layout \cup {Null}]
    BY <1>7 DEF Deallocate, Forget, Memories
  <2>3. dtv' \in [Threads -> {Null} \cup [1 .. Slots -> Entry]]
    BY <1>7 DEF Deallocate, Memories
  <2>4. images' \in [Threads -> SUBSET Ids] /\ reach' \in [Threads -> Nat]
    <3>1. CASE Forget(t)
      <4>1. {} \in SUBSET Ids /\ images' = [images EXCEPT ![t] = {}]
            /\ reach' = [reach EXCEPT ![t] = 0]
        BY <3>1 DEF Forget
      <4>2. QED
        BY <4>1 DEF Memories
    <3>2. CASE UNCHANGED <<images, reach>>
      BY <3>2 DEF Memories
    <3>3. QED
      BY <1>7, <3>1, <3>2 DEF Deallocate
  <2>5. blocks' \subseteq blocks /\ heap' \subseteq heap /\ made' = made
        /\ layout' = layout /\ owned' \subseteq owned
    BY <1>7 DEF Deallocate, Forget
  <2>6. QED
    BY <2>1, <2>2, <2>3, <2>4, <2>5 DEF Memories
<1>8. CASE Reinit(t)
  <2>1. MainReady'
    BY <1>8, <1>2 DEF Reinit, modVars
  <2>2. phase' \in [Threads -> {"none", "memory", "tcb", "running", "kept"}]
    BY <1>8 DEF Reinit, Memories
  <2>3. QED
    BY <1>8, <2>1, <2>2 DEF Reinit, Memories
<1>9. QED
  BY <1>3, <1>4, <1>5, <1>6, <1>7, <1>8

\* A call of __tls_get_addr keeps the memories well typed.
LEMMA MemoriesGetAddr ==
  ASSUME Books, Memories, MainReady, OwnEntries, NEW t \in Threads, NEW id \in Ids,
         GetAddr(t, id)
  PROVE  Memories' /\ MainReady'
<1> DEFINE ptr == Len(made) + 1
<1>1. /\ AllocateBlock(t, id) /\ Len(made) < MaxBlocks /\ phase[t] = "running"
      /\ UNCHANGED <<statics, layout, storage, owned, phase, reach, images>>
  BY DEF GetAddr, modVars
<1>2. /\ made' \in Seq(Ids) /\ Len(made') <= MaxBlocks
      /\ ptr \in 1 .. MaxBlocks
      /\ DOMAIN made' = DOMAIN made \cup {ptr}
  BY <1>1, Allocated
<1>3. \/ UNCHANGED <<blocks, dtv>> /\ (heap' = heap \/ heap' = heap \cup {ptr})
      \/ /\ id <= Slots
         /\ heap' = heap \cup {ptr}
         /\ dtv' = [dtv EXCEPT ![t][id] = [block |-> ptr]]
         /\ blocks' = blocks \cup {[tp |-> t, ptr |-> ptr]}
  BY <1>1 DEF AllocateBlock
<1> HIDE DEF ptr
<1>4. heap' \subseteq DOMAIN made' /\ blocks' \subseteq [tp : Threads, ptr : DOMAIN made']
  BY <1>2, <1>3 DEF Memories
<1>5. dtv' \in [Threads -> {Null} \cup [1 .. Slots -> Entry]]
  <2>1. CASE dtv' = dtv
    BY <2>1 DEF Memories
  <2>2. CASE id <= Slots /\ dtv' = [dtv EXCEPT ![t][id] = [block |-> ptr]]
    <3>1. dtv[t] \in [1 .. Slots -> Entry]
      BY <1>1 DEF OwnEntries
    <3>2. id \in 1 .. Slots
      BY <2>2, TlsAssumption DEF Ids
    <3>3. [block |-> ptr] \in Entry
      BY <1>2 DEF Entry
    <3> DEFINE d == [dtv[t] EXCEPT ![id] = [block |-> ptr]]
    <3>4. d \in [1 .. Slots -> Entry]
      BY <3>1, <3>2, <3>3
    <3>5. dtv' = [dtv EXCEPT ![t] = d]
      BY <2>2
    <3> HIDE DEF d
    <3>6. QED
      BY <3>4, <3>5 DEF Memories
  <2>3. QED
    BY <1>3, <2>1, <2>2
<1>6. QED
  BY <1>1, <1>2, <1>4, <1>5 DEF Memories, MainReady

\* Every step keeps the memories well typed and the initial thread ready.
LEMMA MemoriesStep ==
  ASSUME Books, Memories, MainReady, OwnEntries, [Next]_vars
  PROVE  Memories' /\ MainReady'
<1>1. CASE \/ RegisterDynamic
           \/ \E info \in Infos : RegisterStatic(info) \/ RegisterStaticFails(info)
  BY <1>1, MemoriesModules
<1>2. CASE \E id \in Ids : PublishDynamic(id) \/ PublishStatic(id) \/ Unregister(id)
  BY <1>2, MemoriesModules
<1>3. CASE PublishLayout
  BY <1>3, MemoriesModules
<1>4. CASE \E t \in Tcbs : \/ AllocateStorage(t) \/ ProvideStorage(t)
                           \/ InitTcb(t) \/ InitRseq(t)
                           \/ Deallocate(t) \/ Reinit(t)
  BY <1>4, MemoriesThreads
<1>5. CASE \E t \in Threads, id \in Ids : GetAddr(t, id)
  BY <1>5, MemoriesGetAddr
<1>6. CASE UNCHANGED vars
  BY <1>6 DEF vars, modVars, Memories, MainReady
<1>7. QED
  BY <1>1, <1>2, <1>3, <1>4, <1>5, <1>6 DEF Next

\* Every step keeps the histories well typed.
LEMMA HistoriesStep ==
  ASSUME Books, Histories, [Next]_vars
  PROVE  Histories'
<1>1. static_used_info \in Nat \X Nat /\ <<0, 1>> \in Nat \X Nat
  BY TlsAssumption DEF Books, static_used_info
<1>2. WithImage \in SUBSET Ids
  BY StaticIds DEF WithImage
<1>3. Main \in Threads
  BY DEF Threads
<1>4. CASE measured' = measured /\ wrote' = wrote /\ known' = known
  BY <1>4 DEF Histories
<1>5. CASE PublishLayout
  BY <1>1, <1>5 DEF PublishLayout, Histories
<1>6. ASSUME NEW t \in Tcbs,
             \/ AllocateStorage(t) \/ ProvideStorage(t) \/ InitTcb(t) \/ InitRseq(t)
             \/ Deallocate(t) \/ Reinit(t)
      PROVE  Histories'
  <2>1. CASE AllocateStorage(t)
    BY <1>1, <1>2, <2>1 DEF AllocateStorage, Histories
  <2>2. CASE ProvideStorage(t)
    <3>1. measured[Main] \in Nat \X Nat
      BY <1>3 DEF Histories
    <3>2. QED
      BY <1>2, <2>2, <3>1 DEF ProvideStorage, Histories
  <2>3. CASE InitTcb(t)
    BY <1>1, <2>3 DEF InitTcb, Histories
  <2>4. CASE InitRseq(t)
    BY <1>1, <2>4 DEF InitRseq, Histories
  <2>5. CASE Deallocate(t)
    <3>1. CASE Forget(t)
      <4>1. /\ {} \in SUBSET Ids /\ known' = [known EXCEPT ![t] = {}]
            /\ measured' = [measured EXCEPT ![t] = <<0, 1>>]
            /\ wrote' = [wrote EXCEPT ![t] = <<0, 1>>]
        BY <3>1 DEF Forget
      <4>2. QED
        BY <1>1, <4>1 DEF Histories
    <3>2. QED
      BY <1>4, <2>5, <3>1 DEF Deallocate
  <2>6. CASE Reinit(t)
    BY <1>2, <2>6 DEF Reinit, Histories
  <2>7. QED
    BY <1>6, <2>1, <2>2, <2>3, <2>4, <2>5, <2>6
<1>7. CASE UNCHANGED vars
  BY <1>4, <1>7 DEF vars
<1>8. QED
  BY <1>4, <1>5, <1>6, <1>7 DEF Next, RegisterDynamic, RegisterStatic,
     RegisterStaticFails, PublishDynamic, PublishStatic, Unregister, GetAddr

-----------------------------------------------------------------------------
(* Dynamic blocks *)

\* A block that is made is new, a thread that goes takes only its own.
LEMMA BlocksStep ==
  ASSUME Memories, Memories', BlocksOnce, [Next]_vars
  PROVE  BlocksOnce'
<1>1. ASSUME blocks' = blocks, heap' = heap,
             \A t \in Threads : phase[t] # "none" => phase'[t] # "none"
      PROVE  BlocksOnce'
  BY <1>1 DEF BlocksOnce, Memories
<1>2. ASSUME NEW t \in Threads, NEW s \in {"memory", "tcb", "running"},
             phase' = [phase EXCEPT ![t] = s]
      PROVE  \A u \in Threads : phase[u] # "none" => phase'[u] # "none"
  BY <1>2 DEF Memories
<1>3. CASE \E info \in Infos : RegisterStatic(info) \/ RegisterStaticFails(info)
  <2>1. phase' = [phase EXCEPT ![Main] = "running"] /\ blocks' = blocks /\ heap' = heap
    BY <1>3 DEF RegisterStatic, RegisterStaticFails, EnsureArea
  <2>2. QED
    BY <2>1, <1>1, <1>2 DEF Threads
<1>4. CASE RegisterDynamic
  BY <1>4, <1>1 DEF RegisterDynamic
<1>5. CASE \E id \in Ids : PublishDynamic(id) \/ PublishStatic(id) \/ Unregister(id)
  BY <1>5, <1>1 DEF PublishDynamic, PublishStatic, Unregister
<1>6. CASE PublishLayout
  BY <1>6, <1>1 DEF PublishLayout
<1>7. CASE \E t \in Tcbs : \/ AllocateStorage(t) \/ ProvideStorage(t)
                           \/ InitTcb(t) \/ InitRseq(t) \/ Reinit(t)
  <2>1. PICK t \in Tcbs : \/ AllocateStorage(t) \/ ProvideStorage(t)
                          \/ InitTcb(t) \/ InitRseq(t) \/ Reinit(t)
    BY <1>7
  <2>2. /\ blocks' = blocks /\ heap' = heap
        /\ \E s \in {"memory", "tcb", "running"} : phase' = [phase EXCEPT ![t] = s]
    BY <2>1 DEF AllocateStorage, ProvideStorage, InitTcb, InitRseq, Reinit
  <2>3. QED
    BY <2>2, <1>1, <1>2 DEF Threads
<1>8. CASE \E t \in Tcbs : Deallocate(t)
  <2>1. PICK t \in Tcbs : Deallocate(t)
    BY <1>8
  <2>2. /\ blocks' = {b \in blocks : b.tp # t}
        /\ heap' = heap \ {b.ptr : b \in {c \in blocks : c.tp = t}}
        /\ \E s \in {"none", "kept"} : phase' = [phase EXCEPT ![t] = s]
    BY <2>1 DEF Deallocate, Forget
  <2>3. ASSUME NEW b \in blocks' PROVE b.ptr \in heap' /\ phase'[b.tp] # "none"
    <3>1. b \in blocks /\ b.tp # t /\ b.ptr \in heap /\ phase[b.tp] # "none"
      BY <2>2 DEF BlocksOnce
    <3>2. \A c \in blocks : c.tp = t => c.ptr # b.ptr
      BY <3>1 DEF BlocksOnce
    <3>3. phase'[b.tp] = phase[b.tp]
      BY <2>2, <3>1 DEF Memories
    <3>4. QED
      BY <2>2, <3>1, <3>2, <3>3
  <2>4. \A b, c \in blocks' : b.ptr = c.ptr => b = c
    BY <2>2 DEF BlocksOnce
  <2>5. QED
    BY <2>3, <2>4 DEF BlocksOnce
<1>9. CASE \E t \in Threads, id \in Ids : GetAddr(t, id)
  <2>1. PICK t \in Threads, id \in Ids : GetAddr(t, id)
    BY <1>9
  <2> DEFINE ptr == Len(made) + 1
             n == [tp |-> t, ptr |-> ptr]
  <2>2. AllocateBlock(t, id) /\ Len(made) < MaxBlocks /\ phase' = phase
        /\ phase[t] = "running"
    BY <2>1 DEF GetAddr
  <2>3. ptr \notin DOMAIN made
    BY <2>2, Allocated
  <2>4. \/ blocks' = blocks /\ (heap' = heap \/ heap' = heap \cup {ptr})
        \/ heap' = heap \cup {ptr} /\ blocks' = blocks \cup {n}
    BY <2>2 DEF AllocateBlock
  <2>5. n.tp = t /\ n.ptr = ptr
    OBVIOUS
  <2> HIDE DEF ptr, n
  <2>6. \A b \in blocks : b.ptr # ptr
    BY <2>3 DEF Memories
  <2>7. \A b \in blocks' : b.ptr \in heap' /\ phase'[b.tp] # "none"
    BY <2>2, <2>4, <2>5 DEF BlocksOnce
  <2>8. \A b, c \in blocks' : b.ptr = c.ptr => b = c
    BY <2>4, <2>5, <2>6 DEF BlocksOnce
  <2>9. QED
    BY <2>7, <2>8 DEF BlocksOnce
<1>10. CASE UNCHANGED vars
  BY <1>10, <1>1 DEF vars
<1>11. QED
  BY <1>3, <1>4, <1>5, <1>6, <1>7, <1>8, <1>9, <1>10 DEF Next

-----------------------------------------------------------------------------
(* The entries of a DTV *)

\* Ids are never reused: a module keeps its kind as long as it is registered.
KindsKept ==
    \A i \in DOMAIN modules :
      /\ i \in DOMAIN modules'
      /\ modules'[i] # Null => modules[i] # Null /\ modules'[i].kind = modules[i].kind

\* register_module takes a new id, so that no step changes the kind of a module.
LEMMA KindsStep ==
  ASSUME Books, [Next]_vars
  PROVE  KindsKept
<1>1. modules \in Seq(Slot)
  BY DEF Books
<1>2. ASSUME modules' = modules PROVE KindsKept
  BY <1>2 DEF KindsKept
<1>3. ASSUME NEW m \in Slot, Register(m) PROVE KindsKept
  BY <1>1, <1>3, Registered DEF KindsKept
<1>4. CASE RegisterDynamic
  <2>1. [kind |-> "dynamic", source |-> FALSE] \in Slot
    BY DEF Slot, Dynamic
  <2>2. QED
    BY <1>3, <1>4, <2>1 DEF RegisterDynamic
<1>5. CASE \E info \in Infos : RegisterStatic(info)
  <2>1. PICK info \in Infos : RegisterStatic(info)
    BY <1>5
  <2>2. PICK e : /\ used' = e
                 /\ Register([kind |-> "static", info |-> info, source |-> FALSE,
                              offset |-> e])
    BY <2>1 DEF RegisterStatic
  <2>3. e \in 0 .. Arena
    BY <2>1, <2>2, BooksRegisterStatic DEF Books
  <2>4. [kind |-> "static", info |-> info, source |-> FALSE, offset |-> e] \in Slot
    BY <2>3 DEF Slot, Static
  <2>5. QED
    BY <2>2, <2>4, <1>3
<1>6. CASE \E info \in Infos : RegisterStaticFails(info)
  BY <1>6, <1>2 DEF RegisterStaticFails, modVars
<1>7. CASE \E id \in Ids : PublishDynamic(id)
  <2>1. PICK id \in Ids : PublishDynamic(id)
    BY <1>7
  <2>2. /\ id \in DOMAIN modules /\ modules[id] # Null /\ modules[id].kind = "dynamic"
        /\ modules' = [modules EXCEPT ![id].source = TRUE]
    BY <2>1 DEF PublishDynamic, tls_module
  <2>3. modules[id] \in Dynamic
    BY <1>1, <2>2, SlotKinds
  <2>4. /\ DOMAIN modules' = DOMAIN modules
        /\ \A i \in DOMAIN modules : i # id => modules'[i] = modules[i]
        /\ modules'[id] \in Dynamic
    BY <1>1, <2>2, <2>3, Published
  <2>5. modules'[id].kind = "dynamic"
    BY <2>4 DEF Dynamic
  <2>6. QED
    BY <2>2, <2>4, <2>5 DEF KindsKept
<1>8. CASE \E id \in Ids : PublishStatic(id)
  <2>1. PICK id \in Ids : PublishStatic(id)
    BY <1>8
  <2>2. /\ id \in DOMAIN modules /\ modules[id] \in Static
        /\ modules' = [modules EXCEPT ![id].source = TRUE]
    BY <2>1 DEF PublishStatic, Books
  <2>3. /\ DOMAIN modules' = DOMAIN modules
        /\ \A i \in DOMAIN modules : i # id => modules'[i] = modules[i]
        /\ modules'[id] \in Static
    BY <1>1, <2>2, Published
  <2>4. modules'[id].kind = "static" /\ modules[id].kind = "static" /\ modules[id] # Null
    BY <2>2, <2>3, NullAssumption DEF Static
  <2>5. QED
    BY <2>3, <2>4 DEF KindsKept
<1>9. CASE \E id \in Ids : Unregister(id)
  <2>1. PICK id \in Ids : Unregister(id)
    BY <1>9
  <2>2. id \in DOMAIN modules /\ modules' = [modules EXCEPT ![id] = Null]
    BY <2>1 DEF Unregister, tls_module
  <2>3. QED
    BY <1>1, <2>2, Vacated DEF KindsKept
<1>10. CASE PublishLayout
  BY <1>10, <1>2 DEF PublishLayout, modVars
<1>11. CASE \E t \in Tcbs : \/ AllocateStorage(t) \/ ProvideStorage(t)
                            \/ InitTcb(t) \/ InitRseq(t)
                            \/ Deallocate(t) \/ Reinit(t)
  BY <1>11, <1>2 DEF AllocateStorage, ProvideStorage, InitTcb, InitRseq, Deallocate,
                     Reinit, modVars
<1>12. CASE \E t \in Threads, id \in Ids : GetAddr(t, id)
  BY <1>12, <1>2 DEF GetAddr, modVars
<1>13. CASE UNCHANGED vars
  BY <1>13, <1>2 DEF vars, modVars
<1>14. QED
  BY <1>4, <1>5, <1>6, <1>7, <1>8, <1>9, <1>10, <1>11, <1>12, <1>13 DEF Next

\* The blocks of thread t, its memory and what they were made for are kept.
BlocksKept(t) ==
    /\ \A b \in blocks : b.tp = t => b \in blocks' /\ (b.ptr \in heap => b.ptr \in heap')
    /\ \A p \in DOMAIN made : made'[p] = made[p]

\* An entry stays right as long as its block does.
LEMMA OwnEntryKept ==
  ASSUME Memories, KindsKept, NEW t \in Threads, NEW i \in 1 .. Slots, OwnEntry(t, i),
         dtv'[t][i] = dtv[t][i], BlocksKept(t)
  PROVE  OwnEntry(t, i)'
<1>1. CASE dtv[t][i] = Null
  BY <1>1 DEF OwnEntry
<1>2. CASE /\ dtv[t][i] = [static |-> i] /\ i \in DOMAIN modules
           /\ modules[i] # Null => modules[i].kind = "static"
  BY <1>2 DEF OwnEntry, KindsKept
<1>3. CASE /\ i \in DOMAIN modules
           /\ modules[i] # Null => modules[i].kind = "dynamic"
           /\ \E b \in blocks : /\ dtv[t][i] = [block |-> b.ptr]
                                /\ b.tp = t /\ b.ptr \in heap /\ made[b.ptr] = i
  <2>1. PICK b \in blocks : /\ dtv[t][i] = [block |-> b.ptr]
                            /\ b.tp = t /\ b.ptr \in heap /\ made[b.ptr] = i
    BY <1>3
  <2>2. b.ptr \in DOMAIN made
    BY DEF Memories
  <2>3. b \in blocks' /\ b.ptr \in heap' /\ made'[b.ptr] = i
    BY <2>1, <2>2 DEF BlocksKept
  <2>4. i \in DOMAIN modules' /\ (modules'[i] # Null => modules'[i].kind = "dynamic")
    BY <1>3 DEF KindsKept
  <2>5. QED
    BY <2>1, <2>3, <2>4 DEF OwnEntry
<1>4. QED
  BY <1>1, <1>2, <1>3 DEF OwnEntry

\* The entries of a thread that does not take a step.
LEMMA OwnEntriesKept ==
  ASSUME Memories, KindsKept, NEW t \in Threads, OwnEntries,
         phase[t] \in {"tcb", "running"}, dtv'[t] = dtv[t], BlocksKept(t)
  PROVE  dtv'[t] \in [1 .. Slots -> Entry] /\ \A i \in 1 .. Slots : OwnEntry(t, i)'
<1>1. dtv[t] \in [1 .. Slots -> Entry] /\ \A i \in 1 .. Slots : OwnEntry(t, i)
  BY DEF OwnEntries
<1>2. ASSUME NEW i \in 1 .. Slots PROVE OwnEntry(t, i)'
  BY <1>1, OwnEntryKept
<1>3. QED
  BY <1>1, <1>2

\* register_static_module and init_tls_module write to the DTV of the initial thread.
LEMMA OwnEntriesModules ==
  ASSUME Books, Books', Memories, Memories', MainReady, BlocksOnce, OwnEntries, KindsKept,
         NEW info, NEW id,
         \/ RegisterDynamic \/ RegisterStatic(info) \/ RegisterStaticFails(info)
         \/ PublishDynamic(id) \/ PublishStatic(id) \/ Unregister(id) \/ PublishLayout
  PROVE  OwnEntries'
<1>1. Main \in Threads
  BY DEF Threads
<1>2. blocks' = blocks /\ heap' = heap /\ made' = made
  BY DEF RegisterDynamic, RegisterStatic, RegisterStaticFails, PublishDynamic,
         PublishStatic, Unregister, PublishLayout
<1>3. \A t \in Threads : BlocksKept(t)
  BY <1>2 DEF BlocksKept
<1>4. ASSUME phase' = phase, dtv' = dtv PROVE OwnEntries'
  BY <1>3, <1>4, OwnEntriesKept DEF OwnEntries
<1>5. ASSUME EnsureArea PROVE OwnEntries'
  <2>1. SUFFICES ASSUME NEW t \in Threads, phase'[t] \in {"tcb", "running"}
                 PROVE  /\ dtv'[t] \in [1 .. Slots -> Entry]
                        /\ \A i \in 1 .. Slots : OwnEntry(t, i)'
    BY DEF OwnEntries
  <2>2. CASE t = Main /\ phase[Main] = "none"
    <3>1. dtv'[t] = NewDtv
      BY <1>5, <2>2 DEF EnsureArea, Memories
    <3>2. \A i \in 1 .. Slots : dtv'[t][i] = Null
      BY <3>1 DEF NewDtv
    <3>3. QED
      BY <3>1, <3>2, NewDtvType DEF OwnEntry
  <2>3. CASE ~ (t = Main /\ phase[Main] = "none")
    <3>1. dtv'[t] = dtv[t] /\ phase[t] \in {"tcb", "running"}
      BY <1>5, <2>1, <2>3 DEF EnsureArea, Memories, MainReady
    <3>2. QED
      BY <3>1, <1>3, OwnEntriesKept
  <2>4. QED
    BY <2>2, <2>3
<1>6. CASE PublishStatic(id)
  <2>1. phase[Main] = "running" /\ id \in statics /\ statics' = statics
        /\ dtv' = [dtv EXCEPT ![Main] = WithStatics(dtv[Main], {id})] /\ phase' = phase
    BY <1>6 DEF PublishStatic, MainReady
  <2>2. SUFFICES ASSUME NEW t \in Threads, phase'[t] \in {"tcb", "running"}
                 PROVE  /\ dtv'[t] \in [1 .. Slots -> Entry]
                        /\ \A i \in 1 .. Slots : OwnEntry(t, i)'
    BY DEF OwnEntries
  <2>3. CASE t # Main
    <3>1. dtv'[t] = dtv[t] /\ phase[t] \in {"tcb", "running"}
      BY <2>1, <2>2, <2>3 DEF Memories
    <3>2. QED
      BY <3>1, <1>3, OwnEntriesKept
  <2>4. CASE t = Main
    <3>1. dtv'[t] = WithStatics(dtv[t], {id})
      BY <2>1, <2>4 DEF Memories
    <3>2. dtv[t] \in [1 .. Slots -> Entry] /\ {id} \in SUBSET Ids
      BY <2>1, <2>4, <1>1, StaticIds DEF OwnEntries
    <3>3. /\ dtv'[t] \in [1 .. Slots -> Entry]
          /\ \A i \in 1 .. Slots :
               dtv'[t][i] = IF i = id THEN [static |-> i] ELSE dtv[t][i]
      BY <3>1, <3>2, WithStaticsType
    <3>4. id \in DOMAIN modules' /\ modules'[id] \in Static
      BY <2>1 DEF Books
    <3>5. modules'[id].kind = "static"
      BY <3>4 DEF Static
    <3>6. ASSUME NEW i \in 1 .. Slots PROVE OwnEntry(t, i)'
      <4>1. CASE i = id
        BY <4>1, <3>3, <3>4, <3>5 DEF OwnEntry
      <4>2. CASE i # id
        <5>1. dtv'[t][i] = dtv[t][i] /\ OwnEntry(t, i)
          BY <3>3, <4>2, <2>1, <2>4, <1>1 DEF OwnEntries
        <5>2. QED
          BY <5>1, <1>3, OwnEntryKept
      <4>3. QED
        BY <4>1, <4>2
    <3>7. QED
      BY <3>3, <3>6
  <2>5. QED
    BY <2>3, <2>4
<1>7. QED
  BY <1>4, <1>5, <1>6 DEF RegisterDynamic, RegisterStatic, RegisterStaticFails,
     PublishDynamic, Unregister, PublishLayout

\* A thread that is initialised gets the static blocks; one that goes takes none of
\* the blocks of another.
LEMMA OwnEntriesThreads ==
  ASSUME Books, Memories, Memories', BlocksOnce, OwnEntries, KindsKept, NEW t \in Tcbs,
         \/ AllocateStorage(t) \/ ProvideStorage(t) \/ InitTcb(t) \/ InitRseq(t)
         \/ Deallocate(t) \/ Reinit(t)
  PROVE  OwnEntries'
<1>1. t \in Threads
  BY DEF Threads
<1>2. ASSUME NEW u \in Threads, u # t, phase'[u] \in {"tcb", "running"}
      PROVE  dtv'[u] \in [1 .. Slots -> Entry] /\ \A i \in 1 .. Slots : OwnEntry(u, i)'
  <2>1. made' = made /\ dtv'[u] = dtv[u] /\ phase'[u] = phase[u]
    BY <1>1, <1>2 DEF AllocateStorage, ProvideStorage, InitTcb, InitRseq, Deallocate,
                 Forget, Reinit, Memories
  <2>2. BlocksKept(u)
    <3>1. CASE Deallocate(t)
      <4>1. /\ blocks' = {b \in blocks : b.tp # t}
            /\ heap' = heap \ {b.ptr : b \in {c \in blocks : c.tp = t}}
        BY <3>1 DEF Deallocate
      <4>2. ASSUME NEW b \in blocks, b.tp = u
            PROVE  b \in blocks' /\ (b.ptr \in heap => b.ptr \in heap')
        <5>1. \A c \in blocks : c.tp = t => c.ptr # b.ptr
          BY <4>2, <1>2 DEF BlocksOnce
        <5>2. QED
          BY <4>1, <4>2, <5>1, <1>2
      <4>3. QED
        BY <4>2, <2>1 DEF BlocksKept
    <3>2. CASE blocks' = blocks /\ heap' = heap
      BY <3>2, <2>1 DEF BlocksKept
    <3>3. QED
      BY <3>1, <3>2 DEF AllocateStorage, ProvideStorage, InitTcb, InitRseq, Reinit
  <2>3. QED
    BY <2>1, <2>2, <1>2, OwnEntriesKept
<1>3. ASSUME phase'[t] \in {"tcb", "running"}
      PROVE  dtv'[t] \in [1 .. Slots -> Entry] /\ \A i \in 1 .. Slots : OwnEntry(t, i)'
  <2>1. InitTcb(t) \/ InitRseq(t)
    BY <1>1, <1>3 DEF AllocateStorage, ProvideStorage, Deallocate, Forget, Reinit,
                      Memories
  <2>2. CASE InitRseq(t)
    <3>1. /\ phase[t] = "tcb" /\ dtv' = dtv /\ made' = made
          /\ blocks' = blocks /\ heap' = heap
      BY <2>2 DEF InitRseq
    <3>2. QED
      BY <3>1, <1>1, OwnEntriesKept DEF BlocksKept
  <2>3. CASE InitTcb(t)
    <3> DEFINE S == WithImage
    <3>1. dtv'[t] = WithStatics(NewDtv, S)
      BY <1>1, <2>3 DEF InitTcb, Memories
    <3>2. S \in SUBSET statics /\ S \in SUBSET Ids /\ modules' = modules
      BY <2>3, StaticIds DEF InitTcb, modVars, WithImage
    <3> HIDE DEF S
    <3>3. /\ dtv'[t] \in [1 .. Slots -> Entry]
          /\ \A i \in 1 .. Slots :
               dtv'[t][i] = IF i \in S THEN [static |-> i] ELSE NewDtv[i]
      <4>1. /\ WithStatics(NewDtv, S) \in [1 .. Slots -> Entry]
            /\ \A i \in 1 .. Slots : WithStatics(NewDtv, S)[i] =
                 IF i \in S THEN [static |-> i] ELSE NewDtv[i]
        BY <3>2, NewDtvType, WithStaticsType
      <4>2. QED
        BY <3>1, <4>1
    <3>4. \A i \in 1 .. Slots : NewDtv[i] = Null
      BY DEF NewDtv
    <3>5. \A i \in S : i \in DOMAIN modules' /\ modules'[i].kind = "static"
      BY <3>2 DEF Books, Static
    <3>6. QED
      BY <3>3, <3>4, <3>5 DEF OwnEntry
  <2>4. QED
    BY <2>1, <2>2, <2>3
<1>4. QED
  BY <1>2, <1>3 DEF OwnEntries

\* __tls_get_addr enters the block it made for this module and this thread.
LEMMA OwnEntriesGetAddr ==
  ASSUME Books, Memories, Memories', OwnEntries, KindsKept,
         NEW t \in Threads, NEW id \in Ids, GetAddr(t, id)
  PROVE  OwnEntries'
<1> DEFINE ptr == Len(made) + 1
           n == [tp |-> t, ptr |-> ptr]
<1>1. /\ AllocateBlock(t, id) /\ Len(made) < MaxBlocks /\ phase[t] = "running"
      /\ phase' = phase /\ modules' = modules
      /\ id \in DOMAIN modules /\ modules[id].kind = "dynamic"
  BY DEF GetAddr, modVars, tls_module
<1>2. \A p \in DOMAIN made : made'[p] = made[p]
  BY <1>1, Allocated
<1>3. made'[ptr] = id
  BY <1>1, Allocated
<1>4. \/ UNCHANGED <<blocks, dtv>> /\ (heap' = heap \/ heap' = heap \cup {ptr})
      \/ /\ id <= Slots
         /\ heap' = heap \cup {ptr}
         /\ dtv' = [dtv EXCEPT ![t][id] = [block |-> ptr]]
         /\ blocks' = blocks \cup {n}
  BY <1>1 DEF AllocateBlock
<1>5. n.tp = t /\ n.ptr = ptr
  OBVIOUS
<1> HIDE DEF ptr, n
<1>6. \A u \in Threads : BlocksKept(u)
  BY <1>2, <1>4 DEF BlocksKept
<1>7. SUFFICES ASSUME NEW u \in Threads, phase'[u] \in {"tcb", "running"}
               PROVE  /\ dtv'[u] \in [1 .. Slots -> Entry]
                      /\ \A i \in 1 .. Slots : OwnEntry(u, i)'
  BY DEF OwnEntries
<1>8. phase[u] \in {"tcb", "running"}
  BY <1>1, <1>7
<1>9. CASE dtv'[u] = dtv[u]
  BY <1>6, <1>8, <1>9, OwnEntriesKept
<1>10. CASE dtv'[u] # dtv[u]
  <2>1. /\ id <= Slots /\ heap' = heap \cup {ptr} /\ blocks' = blocks \cup {n}
        /\ dtv' = [dtv EXCEPT ![t][id] = [block |-> ptr]]
    BY <1>4, <1>10
  <2>2. u = t
    BY <1>10, <2>1 DEF Memories
  <2>3. dtv[t] \in [1 .. Slots -> Entry] /\ \A i \in 1 .. Slots : OwnEntry(t, i)
    BY <1>1 DEF OwnEntries
  <2>4. dtv'[t] \in [1 .. Slots -> Entry]
    <3>1. dtv'[t] = [dtv[t] EXCEPT ![id] = [block |-> ptr]]
      BY <2>1 DEF Memories
    <3>2. [block |-> ptr] \in Entry
      BY <1>1, Allocated DEF ptr, Entry
    <3>3. QED
      BY <2>3, <3>1, <3>2
  <2>5. ASSUME NEW i \in 1 .. Slots PROVE OwnEntry(t, i)'
    <3>1. CASE i = id
      <4>1. dtv'[t][i] = [block |-> ptr]
        BY <2>1, <2>3, <3>1 DEF Memories
      <4>2. n \in blocks' /\ ptr \in heap'
        BY <2>1
      <4>3. i \in DOMAIN modules' /\ (modules'[i] # Null => modules'[i].kind = "dynamic")
        BY <1>1, <3>1
      <4>4. \E b \in blocks' : /\ dtv'[t][i] = [block |-> b.ptr]
                               /\ b.tp = t /\ b.ptr \in heap' /\ made'[b.ptr] = i
        BY <1>3, <1>5, <3>1, <4>1, <4>2
      <4>5. QED
        BY <4>3, <4>4 DEF OwnEntry
    <3>2. CASE i # id
      <4>1. dtv'[t][i] = dtv[t][i]
        BY <2>1, <2>3, <3>2 DEF Memories
      <4>2. QED
        BY <4>1, <2>3, <1>6, OwnEntryKept
    <3>3. QED
      BY <3>1, <3>2
  <2>6. QED
    BY <2>2, <2>4, <2>5
<1>11. QED
  BY <1>9, <1>10

\* Every step keeps the entries of the DTVs in use right.
LEMMA OwnEntriesStep ==
  ASSUME Books, Books', Memories, Memories', MainReady, BlocksOnce, OwnEntries, [Next]_vars
  PROVE  OwnEntries'
<1>1. KindsKept
  BY KindsStep
<1>2. CASE \/ RegisterDynamic
           \/ \E info \in Infos : RegisterStatic(info) \/ RegisterStaticFails(info)
  BY <1>1, <1>2, OwnEntriesModules
<1>3. CASE \E id \in Ids : PublishDynamic(id) \/ PublishStatic(id) \/ Unregister(id)
  BY <1>1, <1>3, OwnEntriesModules
<1>4. CASE PublishLayout
  BY <1>1, <1>4, OwnEntriesModules
<1>5. CASE \E t \in Tcbs : \/ AllocateStorage(t) \/ ProvideStorage(t)
                           \/ InitTcb(t) \/ InitRseq(t)
                           \/ Deallocate(t) \/ Reinit(t)
  BY <1>1, <1>5, OwnEntriesThreads
<1>6. CASE \E t \in Threads, id \in Ids : GetAddr(t, id)
  BY <1>1, <1>6, OwnEntriesGetAddr
<1>7. CASE UNCHANGED vars
  BY <1>7 DEF vars, modVars, OwnEntries, OwnEntry
<1>8. QED
  BY <1>2, <1>3, <1>4, <1>5, <1>6, <1>7 DEF Next

-----------------------------------------------------------------------------
(* The invariant *)

\* install_resolver_ops leaves empty tables.
LEMMA InitInv == Init => Inv
<1> SUFFICES ASSUME Init PROVE Inv
  OBVIOUS
<1>1. modules \in Seq(Slot) /\ Len(modules) = 0 /\ made \in Seq(Ids) /\ Len(made) = 0
  BY EmptySeq DEF Init
<1>2. Books
  BY <1>1, TlsAssumption DEF Init, Books
<1>3. Memories
  BY <1>1, TlsAssumption DEF Init, Memories
<1>4. Histories
  BY DEF Init, Histories
<1>5. phase = [t \in Threads |-> "none"] /\ blocks = {} /\ statics = {} /\ Main \in Threads
  BY DEF Init, Threads
<1>6. MainReady /\ BlocksOnce /\ OwnEntries
  BY <1>5 DEF MainReady, BlocksOnce, OwnEntries
<1>7. QED
  BY <1>2, <1>3, <1>4, <1>6, InvParts

\* Every step preserves the invariant.
LEMMA NextInv == Inv /\ [Next]_vars => Inv'
<1> SUFFICES ASSUME Inv, [Next]_vars PROVE Inv'
  OBVIOUS
<1>1. Books /\ Memories /\ Histories /\ MainReady /\ BlocksOnce /\ OwnEntries
  BY InvParts
<1>2. Books'
  BY <1>1, BooksStep
<1>3. Memories' /\ MainReady'
  BY <1>1, MemoriesStep
<1>4. BlocksOnce'
  BY <1>1, <1>3, BlocksStep
<1>5. OwnEntries'
  BY <1>1, <1>2, <1>3, OwnEntriesStep
<1>6. Histories'
  BY <1>1, HistoriesStep
<1>7. (Books /\ Memories /\ Histories /\ MainReady /\ BlocksOnce /\ OwnEntries => Inv)'
  BY InvParts, PTL
<1>8. QED
  BY <1>2, <1>3, <1>4, <1>5, <1>6, <1>7

\* Whatever modules come and go and whichever threads are made, initialised again and
\* freed, the tables of rtld/impl/src/tls.rs stay consistent: the area, the DTVs and
\* the table of dynamic blocks.
THEOREM TlsInvariant == Spec => []Inv
<1>1. QED
  BY InitInv, NextInv, PTL DEF Spec

\* Static blocks lie inside the arena, beside each other, above the rseq area, and each
\* at an address congruent to its p_vaddr (static_module_end).
THEOREM TlsLayoutSound == Spec => []LayoutSound
<1>1. Inv => LayoutSound
  BY DEF Inv
<1>2. QED
  BY <1>1, TlsInvariant, PTL

\* Freeing the dynamic blocks of a thread frees nothing twice and nothing of another
\* thread (_dl_deallocate_tls).
THEOREM TlsBlocksOnce == Spec => []BlocksOnce
<1>1. Inv => BlocksOnce
  BY DEF Inv
<1>2. QED
  BY <1>1, TlsInvariant, PTL

\* What dl_tls_get_addr_soft reads in a DTV is the block of this module and this
\* thread, and what __tls_get_addr answers: ids are never given out twice.
THEOREM TlsDtvIsOwn == Spec => []DtvIsOwn
<1>1. Inv => DtvIsOwn
  <2>1. SUFFICES ASSUME Inv, NEW t \in Threads, NEW id \in DOMAIN modules,
                        phase[t] = "running", modules[id] # Null,
                        dtv_value(t, id) # Null
                 PROVE  /\ get_addr(t, id) = dtv_value(t, id)
                        /\ modules[id].kind = "dynamic" =>
                             \E b \in blocks : /\ dtv_value(t, id) = [block |-> b.ptr]
                                               /\ b.tp = t /\ b.ptr \in heap
                                               /\ made[b.ptr] = id
    BY DEF DtvIsOwn
  <2>2. Books /\ Memories /\ OwnEntries
    BY <2>1, InvParts
  <2>3. id \in 1 .. Slots /\ dtv_value(t, id) = dtv[t][id]
    <3>1. id \in Nat \ {0}
      BY <2>2, StaticIds, TlsAssumption DEF Ids
    <3>2. QED
      BY <2>1, <3>1, TlsAssumption DEF dtv_value
  <2>4. OwnEntry(t, id)
    BY <2>1, <2>2, <2>3 DEF OwnEntries
  <2>5. get_addr(t, id) = IF modules[id].kind = "static" THEN [static |-> id]
                          ELSE dtv_value(t, id)
    BY <2>1 DEF get_addr, tls_module
  <2>6. CASE modules[id].kind = "static"
    BY <2>1, <2>3, <2>4, <2>5, <2>6 DEF OwnEntry
  <2>7. CASE modules[id].kind # "static"
    BY <2>1, <2>3, <2>4, <2>5, <2>7 DEF OwnEntry
  <2>8. QED
    BY <2>6, <2>7
<1>2. QED
  BY <1>1, TlsInvariant, PTL

-----------------------------------------------------------------------------
(* Static modules that come and go *)

\* Static modules are the same ones or fewer, with the same TLS segment; the source of
\* one of them appears only when it is published.
LEMMA StaticsStep ==
  ASSUME Books, [Next]_vars, ~ \E info \in Infos : RegisterStatic(info)
  PROVE  \A i \in statics' :
           /\ i \in statics
           /\ modules'[i].info = modules[i].info
           /\ modules'[i].source = modules[i].source \/ PublishStatic(i)
<1>1. modules \in Seq(Slot)
  BY DEF Books
<1>2. CASE modules' = modules /\ statics' = statics
  BY <1>2
<1>3. CASE RegisterDynamic
  <2>1. [kind |-> "dynamic", source |-> FALSE] \in Slot
    BY DEF Slot, Dynamic
  <2>2. statics' = statics /\ Register([kind |-> "dynamic", source |-> FALSE])
    BY <1>3 DEF RegisterDynamic
  <2>3. \A i \in DOMAIN modules : modules'[i] = modules[i]
    BY <1>1, <2>1, <2>2, Registered
  <2>4. QED
    BY <2>2, <2>3 DEF Books
<1>4. CASE \E id \in Ids : PublishDynamic(id)
  <2>1. PICK id \in Ids : PublishDynamic(id)
    BY <1>4
  <2>2. /\ id \in DOMAIN modules /\ modules[id] # Null /\ modules[id].kind = "dynamic"
        /\ modules' = [modules EXCEPT ![id].source = TRUE] /\ statics' = statics
    BY <2>1 DEF PublishDynamic, tls_module
  <2>3. modules[id] \in Dynamic /\ modules[id] \notin Static
    BY <1>1, <2>2, SlotKinds
  <2>4. id \notin statics
    BY <2>3 DEF Books
  <2>5. \A i \in DOMAIN modules : i # id => modules'[i] = modules[i]
    BY <1>1, <2>2, <2>3, Published
  <2>6. QED
    BY <2>2, <2>4, <2>5 DEF Books
<1>5. CASE \E id \in Ids : PublishStatic(id)
  <2>1. PICK id \in Ids : PublishStatic(id)
    BY <1>5
  <2>2. /\ id \in DOMAIN modules /\ modules[id] \in Static
        /\ modules' = [modules EXCEPT ![id].source = TRUE] /\ statics' = statics
    BY <2>1 DEF PublishStatic, Books
  <2>3. /\ \A i \in DOMAIN modules : i # id => modules'[i] = modules[i]
        /\ modules'[id].info = modules[id].info
    BY <1>1, <2>2, Published
  <2>4. QED
    BY <2>1, <2>2, <2>3 DEF Books
<1>6. CASE \E id \in Ids : Unregister(id)
  <2>1. PICK id \in Ids : Unregister(id)
    BY <1>6
  <2>2. id \in DOMAIN modules /\ modules' = [modules EXCEPT ![id] = Null]
        /\ statics' = statics \ {id}
    BY <2>1 DEF Unregister, tls_module
  <2>3. \A i \in DOMAIN modules : i # id => modules'[i] = modules[i]
    BY <1>1, <2>2, Vacated
  <2>4. QED
    BY <2>2, <2>3 DEF Books
<1>7. CASE UNCHANGED vars
  BY <1>2, <1>7 DEF vars, modVars
<1>8. QED
  BY <1>2, <1>3, <1>4, <1>5, <1>6, <1>7 DEF Next, RegisterStaticFails, PublishLayout,
     AllocateStorage, ProvideStorage, InitTcb, InitRseq, Deallocate, Reinit, GetAddr,
     modVars

\* register_static_module of a module that has no image yet.
LEMMA NewStatic ==
  ASSUME Books, NEW info \in Infos, RegisterStatic(info)
  PROVE  /\ NewId \notin statics /\ NewId \notin DOMAIN modules
         /\ statics' = statics \cup {NewId}
         /\ \A i \in statics : modules'[i] = modules[i]
         /\ modules'[NewId].source = FALSE
         /\ modules'[NewId].info = info
         /\ \E a \in Powers : IsNextPowerOfTwo(a, info.align)
                              /\ maxAlign' = MaxOf(maxAlign, a)
<1>1. PICK a \in Powers :
        /\ IsNextPowerOfTwo(a, info.align)
        /\ maxAlign' = MaxOf(maxAlign, a)
        /\ Register([kind |-> "static", info |-> info, source |-> FALSE,
                     offset |-> used'])
  BY DEF RegisterStatic
<1> DEFINE m == [kind |-> "static", info |-> info, source |-> FALSE, offset |-> used']
<1>2. used' \in 0 .. Arena
  BY BooksRegisterStatic DEF Books
<1>3. m \in Slot /\ m.source = FALSE /\ m.info = info
  BY <1>2 DEF Slot, Static
<1>4. Register(m) /\ modules \in Seq(Slot)
  BY <1>1 DEF Books
<1> HIDE DEF m
<1>5. /\ NewId \notin DOMAIN modules /\ modules'[NewId] = m
      /\ \A i \in DOMAIN modules : modules'[i] = modules[i]
  BY <1>3, <1>4, Registered
<1>6. statics' = statics \cup {NewId}
  BY DEF RegisterStatic
<1>7. QED
  BY <1>1, <1>3, <1>5, <1>6 DEF Books

\* The static area only grows, and only register_static_module lets it.
LEMMA AreaGrows ==
  ASSUME Books, [Next]_vars
  PROVE  /\ {used, used', maxAlign, maxAlign'} \subseteq Nat
         /\ used <= used' /\ maxAlign <= maxAlign'
         /\ \/ used' = used /\ maxAlign' = maxAlign
            \/ \E info \in Infos : RegisterStatic(info)
<1>1. {used, used', maxAlign, maxAlign'} \subseteq Nat
  BY BooksStep, TlsAssumption DEF Books
<1>2. CASE used' = used /\ maxAlign' = maxAlign
  BY <1>1, <1>2
<1>3. CASE \E info \in Infos : RegisterStatic(info)
  <2>1. PICK info \in Infos : RegisterStatic(info)
    BY <1>3
  <2>2. PICK a \in Powers : /\ used' = static_module_end(used, info, a)
                            /\ maxAlign' = MaxOf(maxAlign, a)
    BY <2>1 DEF RegisterStatic
  <2>3. info.memsz \in Nat /\ a \in Nat
    BY TlsAssumption
  <2>4. used' >= used + info.memsz
    BY <1>1, <2>2, ModuleEnd
  <2>5. maxAlign <= maxAlign'
    BY <1>1, <2>2, <2>3, MaxNat
  <2>6. QED
    BY <1>1, <1>3, <2>3, <2>4, <2>5
<1>4. CASE UNCHANGED vars
  BY <1>2, <1>4 DEF vars, modVars
<1>5. QED
  BY <1>2, <1>3, <1>4 DEF Next, RegisterDynamic, RegisterStaticFails, PublishDynamic,
     PublishStatic, Unregister, PublishLayout, AllocateStorage, ProvideStorage, InitTcb,
     InitRseq, Deallocate, Reinit, GetAddr, modVars

\* A static module that was there before the step keeps its image and its segment, and
\* one gets an image only when it is published.
LEMMA ImagesStay ==
  ASSUME Books, [Next]_vars
  PROVE  /\ DOMAIN modules \subseteq DOMAIN modules'
         /\ \A i \in statics' \cap DOMAIN modules :
              i \in statics /\ modules'[i].info = modules[i].info
         /\ WithImage \cap statics' \subseteq WithImage'
         /\ \A i \in WithImage' : i \in WithImage \/ PublishStatic(i)
<1>1. DOMAIN modules \subseteq DOMAIN modules'
  BY KindsStep DEF KindsKept
<1>2. CASE \E info \in Infos : RegisterStatic(info)
  <2>1. PICK info \in Infos : RegisterStatic(info)
    BY <1>2
  <2>2. /\ NewId \notin DOMAIN modules /\ statics' = statics \cup {NewId}
        /\ \A i \in statics : modules'[i] = modules[i]
        /\ modules'[NewId].source = FALSE
    BY <2>1, NewStatic
  <2>3. \A i \in statics' \cap DOMAIN modules : i \in statics /\ modules'[i] = modules[i]
    BY <2>2
  <2>4. statics \subseteq statics' /\ WithImage' = WithImage
    BY <2>2 DEF WithImage
  <2>5. QED
    BY <1>1, <2>3, <2>4
<1>3. CASE ~ \E info \in Infos : RegisterStatic(info)
  <2>1. \A i \in statics' :
          /\ i \in statics
          /\ modules'[i].info = modules[i].info
          /\ modules'[i].source = modules[i].source \/ PublishStatic(i)
    BY <1>3, StaticsStep
  <2>2. \A i \in WithImage : ~ PublishStatic(i)
    BY DEF WithImage, PublishStatic
  <2>3. \A i \in WithImage \cap statics' : modules'[i].source = modules[i].source
    BY <2>1, <2>2
  <2>4. WithImage \cap statics' \subseteq WithImage'
    BY <2>3 DEF WithImage
  <2>5. \A i \in WithImage' : i \in WithImage \/ PublishStatic(i)
    BY <2>1 DEF WithImage
  <2>6. QED
    BY <1>1, <2>1, <2>4, <2>5
<1>4. QED
  BY <1>2, <1>3

\* What is known of thread t, its memory and what it received, is as before.
ThreadKept(t) ==
    /\ phase'[t] = phase[t] /\ storage'[t] = storage[t] /\ reach'[t] = reach[t]
    /\ images'[t] = images[t] /\ measured'[t] = measured[t]
    /\ wrote'[t] = wrote[t] /\ known'[t] = known[t]

\* A thread other than the initial one is changed by its own operations only.
LEMMA ThreadStep ==
  ASSUME Memories, Histories, [Next]_vars, NEW t \in Tcbs
  PROVE  \/ ThreadKept(t)
         \/ AllocateStorage(t) \/ ProvideStorage(t) \/ InitTcb(t) \/ InitRseq(t)
         \/ Deallocate(t) \/ Reinit(t)
<1>1. Main \in Threads /\ t \in Threads /\ t # Main
  BY TlsAssumption DEF Threads
<1>2. CASE /\ phase' = phase /\ storage' = storage /\ reach' = reach /\ images' = images
           /\ measured' = measured /\ wrote' = wrote /\ known' = known
  BY <1>2 DEF ThreadKept
<1>3. CASE \E info \in Infos : RegisterStatic(info) \/ RegisterStaticFails(info)
  <2>1. /\ EnsureArea /\ reach' = reach /\ images' = images
        /\ measured' = measured /\ wrote' = wrote /\ known' = known
    BY <1>3 DEF RegisterStatic, RegisterStaticFails
  <2>2. phase'[t] = phase[t] /\ storage'[t] = storage[t]
    BY <1>1, <2>1 DEF EnsureArea, Memories
  <2>3. QED
    BY <2>1, <2>2 DEF ThreadKept
<1>4. CASE \E id \in Ids : PublishStatic(id)
  <2>1. PICK id \in Ids : PublishStatic(id)
    BY <1>4
  <2>2. reach'[t] = reach[t] /\ images'[t] = images[t]
    BY <1>1, <2>1 DEF PublishStatic, Memories
  <2>3. QED
    BY <2>1, <2>2 DEF PublishStatic, ThreadKept
<1>5. CASE PublishLayout
  <2>1. measured'[t] = measured[t]
    BY <1>1, <1>5 DEF PublishLayout, Histories
  <2>2. QED
    BY <1>5, <2>1 DEF PublishLayout, ThreadKept
<1>6. ASSUME NEW u \in Tcbs, u # t,
             \/ AllocateStorage(u) \/ ProvideStorage(u) \/ InitTcb(u) \/ InitRseq(u)
             \/ Deallocate(u) \/ Reinit(u)
      PROVE  ThreadKept(t)
  <2>1. phase'[t] = phase[t] /\ storage'[t] = storage[t]
    BY <1>1, <1>6 DEF AllocateStorage, ProvideStorage, InitTcb, InitRseq, Deallocate,
                      Forget, Reinit, Memories
  <2>2. reach'[t] = reach[t] /\ images'[t] = images[t]
    BY <1>1, <1>6 DEF AllocateStorage, ProvideStorage, InitTcb, InitRseq, Deallocate,
                      Forget, Reinit, Memories
  <2>3. measured'[t] = measured[t] /\ wrote'[t] = wrote[t] /\ known'[t] = known[t]
    BY <1>1, <1>6 DEF AllocateStorage, ProvideStorage, InitTcb, InitRseq, Deallocate,
                      Forget, Reinit, Histories
  <2>4. QED
    BY <2>1, <2>2, <2>3 DEF ThreadKept
<1>7. CASE UNCHANGED vars
  BY <1>2, <1>7 DEF vars
<1>8. QED
  BY <1>2, <1>3, <1>4, <1>5, <1>6, <1>7 DEF Next, RegisterDynamic, PublishDynamic,
     Unregister, GetAddr

\* The layout is published once, and what it counted stays on record.
LEMMA LayoutStep ==
  ASSUME Histories, [Next]_vars
  PROVE  \/ layout' = layout /\ measured'[Main] = measured[Main]
         \/ PublishLayout
<1>1. Main \in Threads /\ \A t \in Tcbs : t \in Threads /\ t # Main
  BY TlsAssumption DEF Threads
<1>2. ASSUME NEW t \in Tcbs,
             \/ AllocateStorage(t) \/ ProvideStorage(t) \/ InitTcb(t) \/ InitRseq(t)
             \/ Deallocate(t) \/ Reinit(t)
      PROVE  layout' = layout /\ measured'[Main] = measured[Main]
  BY <1>1, <1>2 DEF AllocateStorage, ProvideStorage, InitTcb, InitRseq, Deallocate,
                    Forget, Reinit, Histories
<1>3. CASE layout' = layout /\ measured' = measured
  BY <1>3
<1>4. CASE UNCHANGED vars
  BY <1>3, <1>4 DEF vars
<1>5. QED
  BY <1>2, <1>3, <1>4 DEF Next, RegisterDynamic, RegisterStatic, RegisterStaticFails,
     PublishDynamic, PublishStatic, Unregister, GetAddr

-----------------------------------------------------------------------------
(* The memory of threads *)

\* pthread_create measures by the published layout, allocate_storage by the area.
LEMMA MeasuredStep ==
  ASSUME Books, Memories, Histories, MeasuredInv, [Next]_vars
  PROVE  MeasuredInv'
<1>1. Main \in Threads /\ \A t \in Tcbs : t \in Threads /\ t # Main
  BY TlsAssumption DEF Threads
<1>2. layout' # Null => layout' = LayoutOf(measured'[Main])
  <2>1. CASE PublishLayout
    <3>1. layout' = LayoutOf(static_used_info) /\ measured'[Main] = static_used_info
      BY <1>1, <2>1 DEF PublishLayout, StaticLayout, Histories
    <3>2. QED
      BY <3>1
  <2>2. CASE layout' = layout /\ measured'[Main] = measured[Main]
    BY <2>2 DEF MeasuredInv
  <2>3. QED
    BY <2>1, <2>2, LayoutStep
<1>3. layout # Null => layout' # Null
  <2>1. CASE PublishLayout
    BY <2>1 DEF PublishLayout
  <2>2. QED
    BY <2>1, LayoutStep
<1>4. ASSUME NEW t \in Tcbs, phase'[t] # "none"
      PROVE  layout' # Null /\ storage'[t] = LayoutOf(measured'[t])
  <2>1. CASE phase[t] # "none" /\ storage'[t] = storage[t] /\ measured'[t] = measured[t]
    BY <1>3, <2>1 DEF MeasuredInv
  <2>2. CASE AllocateStorage(t)
    <3>1. /\ layout # Null /\ storage'[t] = LayoutOf(static_used_info)
          /\ measured'[t] = static_used_info
      BY <1>1, <2>2 DEF AllocateStorage, StaticLayout, Memories, Histories
    <3>2. QED
      BY <1>3, <3>1
  <2>3. CASE ProvideStorage(t)
    <3>1. layout # Null /\ storage'[t] = layout /\ measured'[t] = measured[Main]
      BY <1>1, <2>3 DEF ProvideStorage, Memories, Histories
    <3>2. QED
      BY <1>3, <3>1 DEF MeasuredInv
  <2>4. CASE ThreadKept(t)
    BY <1>4, <2>1, <2>4 DEF ThreadKept
  <2>5. CASE InitTcb(t) \/ InitRseq(t) \/ Reinit(t)
    BY <2>1, <2>5 DEF InitTcb, InitRseq, Reinit
  <2>6. CASE Deallocate(t)
    <3>1. phase[t] # "none" /\ ~ Forget(t)
      BY <1>1, <1>4, <2>6 DEF Deallocate, Forget, Memories
    <3>2. QED
      BY <2>1, <2>6, <3>1 DEF Deallocate
  <2>7. QED
    BY <2>2, <2>3, <2>4, <2>5, <2>6, ThreadStep
<1>5. QED
  BY <1>2, <1>4 DEF MeasuredInv

\* A thread that is initialised receives every image that is published.
LEMMA ImagesInvStep ==
  ASSUME Books, Memories, Histories, ImagesInv, [Next]_vars
  PROVE  ImagesInv'
<1>1. Main \in Threads /\ \A t \in Tcbs : t \in Threads /\ t # Main
  BY TlsAssumption DEF Threads
<1>2. WithImage' \subseteq images'[Main]
  <2>1. images[Main] \subseteq images'[Main]
    <3>1. CASE images' = images
      BY <3>1
    <3>2. CASE \E id \in Ids : PublishStatic(id)
      BY <1>1, <3>2 DEF PublishStatic, Memories
    <3>3. ASSUME NEW t \in Tcbs,
                 \/ AllocateStorage(t) \/ ProvideStorage(t) \/ InitTcb(t) \/ InitRseq(t)
                 \/ Deallocate(t) \/ Reinit(t)
          PROVE  images'[Main] = images[Main]
      BY <1>1, <3>3 DEF AllocateStorage, ProvideStorage, InitTcb, InitRseq, Deallocate,
                        Forget, Reinit, Memories
    <3>4. CASE UNCHANGED vars
      BY <3>1, <3>4 DEF vars
    <3>5. QED
      BY <3>1, <3>2, <3>3, <3>4 DEF Next, RegisterDynamic, RegisterStatic,
         RegisterStaticFails, PublishDynamic, Unregister, PublishLayout, GetAddr
  <2>2. \A i : PublishStatic(i) => i \in images'[Main]
    BY <1>1 DEF PublishStatic, Memories
  <2>3. QED
    BY <2>1, <2>2, ImagesStay DEF ImagesInv
<1>3. ASSUME NEW t \in Tcbs
      PROVE  /\ known'[t] \cup images'[t] \subseteq DOMAIN modules'
             /\ known'[t] \cap statics' \subseteq WithImage'
             /\ phase'[t] \in {"tcb", "running"} =>
                  known'[t] \cap statics' \subseteq images'[t]
  <2>1. /\ known[t] \cup images[t] \subseteq DOMAIN modules
        /\ known[t] \cap statics \subseteq WithImage
        /\ phase[t] \in {"tcb", "running"} => known[t] \cap statics \subseteq images[t]
    BY DEF ImagesInv
  <2>2. /\ DOMAIN modules \subseteq DOMAIN modules'
        /\ known[t] \cap statics' \subseteq known[t] \cap statics
        /\ WithImage \cap statics' \subseteq WithImage'
    BY <2>1, ImagesStay
  <2>3. WithImage \subseteq statics /\ statics \subseteq DOMAIN modules
    BY DEF WithImage, Books
  <2>4. CASE /\ known'[t] = known[t] /\ images'[t] = images[t]
             /\ phase'[t] \in {"tcb", "running"} => phase[t] \in {"tcb", "running"}
    BY <2>1, <2>2, <2>4
  <2>5. CASE ThreadKept(t)
    BY <2>4, <2>5 DEF ThreadKept
  <2>6. CASE AllocateStorage(t) \/ ProvideStorage(t) \/ Reinit(t)
    <3>1. /\ known'[t] = WithImage /\ images'[t] = images[t] /\ phase'[t] = "memory"
          /\ statics' = statics
      BY <1>1, <2>6 DEF AllocateStorage, ProvideStorage, Reinit, Memories, Histories,
                        modVars
    <3>2. QED
      BY <2>1, <2>2, <2>3, <3>1
  <2>7. CASE InitTcb(t)
    <3>1. known'[t] = known[t] /\ images'[t] = WithImage
      BY <1>1, <2>7 DEF InitTcb, Memories
    <3>2. QED
      BY <2>1, <2>2, <2>3, <3>1
  <2>8. CASE InitRseq(t)
    BY <2>4, <2>8 DEF InitRseq
  <2>9. CASE Deallocate(t)
    <3>1. CASE Forget(t)
      <4>1. known'[t] = {} /\ images'[t] = {}
        BY <1>1, <3>1 DEF Forget, Memories, Histories
      <4>2. QED
        BY <4>1
    <3>2. CASE ~ Forget(t)
      <4>1. known' = known /\ images' = images /\ phase'[t] = "kept"
        BY <1>1, <2>9, <3>2 DEF Deallocate, Memories
      <4>2. QED
        BY <2>4, <4>1
    <3>3. QED
      BY <3>1, <3>2
  <2>10. QED
    BY <2>5, <2>6, <2>7, <2>8, <2>9, ThreadStep
<1>4. QED
  BY <1>2, <1>3 DEF ImagesInv

\* The largest alignment covers every static module.
LEMMA AlignStep ==
  ASSUME Books, AlignInv, [Next]_vars
  PROVE  AlignInv'
<1>1. CASE \E info \in Infos : RegisterStatic(info)
  <2>1. PICK info \in Infos : RegisterStatic(info)
    BY <1>1
  <2>2. PICK a \in Powers : /\ IsNextPowerOfTwo(a, info.align)
                            /\ maxAlign' = MaxOf(maxAlign, a)
    BY <2>1, NewStatic
  <2>3. maxAlign \in Nat /\ maxAlign \in Powers /\ \A p \in Powers : p \in Nat
    BY TlsAssumption DEF AlignInv
  <2>4. /\ maxAlign' \in Nat /\ maxAlign' \in Powers
        /\ maxAlign <= maxAlign' /\ a <= maxAlign'
    BY <2>2, <2>3, MaxNat
  <2>5. ASSUME NEW i \in statics'
        PROVE  \E p \in Powers : /\ IsNextPowerOfTwo(p, modules'[i].info.align)
                                 /\ p <= maxAlign'
    <3>1. CASE i \in statics
      <4>1. PICK p \in Powers : /\ IsNextPowerOfTwo(p, modules[i].info.align)
                                /\ p <= maxAlign
        BY <3>1 DEF AlignInv
      <4>2. p <= maxAlign'
        BY <2>3, <2>4, <4>1
      <4>3. modules'[i] = modules[i]
        BY <2>1, <3>1, NewStatic
      <4>4. QED
        BY <4>1, <4>2, <4>3
    <3>2. CASE i \notin statics
      <4>1. modules'[i].info = info
        BY <2>1, <3>2, NewStatic
      <4>2. QED
        BY <2>2, <2>4, <4>1
    <3>3. QED
      BY <3>1, <3>2
  <2>6. QED
    BY <2>4, <2>5 DEF AlignInv, IsNextPowerOfTwo, MaxOf
<1>2. CASE ~ \E info \in Infos : RegisterStatic(info)
  <2>1. maxAlign' = maxAlign
    BY <1>2, AreaGrows
  <2>2. \A i \in statics' : i \in statics /\ modules'[i].info = modules[i].info
    BY <1>2, StaticsStep
  <2>3. QED
    BY <2>1, <2>2 DEF AlignInv, IsNextPowerOfTwo, MaxOf
<1>3. QED
  BY <1>1, <1>2

\* The initial thread has the arena, and is written to only while a static module
\* is registered: then the blocks and the rseq area fit.
LEMMA MainReachStep ==
  ASSUME Books, Memories, MainReach, [Next]_vars
  PROVE  MainReach'
<1>1. Main \in Threads /\ \A t \in Tcbs : t \in Threads /\ t # Main
  BY TlsAssumption DEF Threads
<1>2. ASSUME phase'[Main] = phase[Main], storage'[Main] = storage[Main],
             reach'[Main] = reach[Main]
      PROVE  MainReach'
  BY <1>2 DEF MainReach
<1>3. CASE \E info \in Infos : RegisterStatic(info) \/ RegisterStaticFails(info)
  <2>1. reach' = reach /\ EnsureArea
    BY <1>3 DEF RegisterStatic, RegisterStaticFails
  <2>2. storage'[Main] = [size |-> Arena, align |-> MainAlign]
    BY <1>1, <2>1 DEF EnsureArea, Memories
  <2>3. QED
    BY <2>1, <2>2 DEF MainReach
<1>4. CASE \E id \in Ids : PublishStatic(id)
  <2>1. statics # {} /\ phase' = phase /\ storage' = storage
        /\ reach' = [reach EXCEPT ![Main] =
                       MaxOf(reach[Main], static_used_with_rseq(used))]
    BY <1>4 DEF PublishStatic
  <2>2. reach'[Main] = MaxOf(reach[Main], static_used_with_rseq(used))
    BY <1>1, <2>1 DEF Memories
  <2>3. static_used_with_rseq(used) <= Arena /\ reach[Main] <= Arena
    BY <2>1 DEF Books, MainReach
  <2>4. reach[Main] \in Nat /\ static_used_with_rseq(used) \in Nat
    BY <1>1, RseqType DEF Memories
  <2>5. reach'[Main] <= Arena
    BY <2>2, <2>3, <2>4, MaxNat
  <2>6. QED
    BY <2>1, <2>5 DEF MainReach
<1>5. CASE \E t \in Tcbs : \/ AllocateStorage(t) \/ ProvideStorage(t)
                           \/ InitTcb(t) \/ InitRseq(t)
                           \/ Deallocate(t) \/ Reinit(t)
  <2>1. PICK t \in Tcbs : \/ AllocateStorage(t) \/ ProvideStorage(t)
                          \/ InitTcb(t) \/ InitRseq(t)
                          \/ Deallocate(t) \/ Reinit(t)
    BY <1>5
  <2>2. /\ phase'[Main] = phase[Main] /\ storage'[Main] = storage[Main]
        /\ reach'[Main] = reach[Main]
    BY <1>1, <2>1 DEF AllocateStorage, ProvideStorage, InitTcb, InitRseq, Deallocate,
                      Forget, Reinit, Memories
  <2>3. QED
    BY <1>2, <2>2
<1>6. CASE phase' = phase /\ storage' = storage /\ reach' = reach
  BY <1>2, <1>6
<1>7. CASE UNCHANGED vars
  BY <1>6, <1>7 DEF vars
<1>8. QED
  BY <1>3, <1>4, <1>5, <1>6, <1>7 DEF Next, RegisterDynamic, PublishDynamic, Unregister,
     PublishLayout, GetAddr

\* Rounding up keeps the order.
LEMMA AlignUpMonotone ==
  ASSUME NEW a \in Nat \ {0}, NEW v \in Nat, NEW w \in Nat, v <= w
  PROVE  align_up(v, a) <= align_up(w, a)
<1> DEFINE x == v + a - 1
           y == w + a - 1
           q == x \div a
           r == y \div a
<1>1. x \in Int /\ y \in Int /\ x <= y
  OBVIOUS
<1>2. align_up(v, a) = q * a /\ align_up(w, a) = r * a
  BY DEF align_up
<1> HIDE DEF x, y
<1>3. /\ q \in Int /\ x % a \in 0 .. a - 1 /\ x = (q * a) + (x % a)
      /\ r \in Int /\ y % a \in 0 .. a - 1 /\ y = (r * a) + (y % a)
  BY <1>1, DivMod
<1> HIDE DEF q, r
<1>4. q * a \in Int /\ r * a \in Int
  BY <1>3
<1>5. CASE q <= r
  <2>1. (r - q) * a >= 0
    BY <1>3, <1>5
  <2>2. (r - q) * a = (r * a) - (q * a)
    BY <1>3
  <2>3. QED
    BY <1>2, <1>4, <2>1, <2>2
<1>6. CASE q > r
  <2>1. (q - (r + 1)) * a >= 0
    BY <1>3, <1>6
  <2>2. (q - (r + 1)) * a = (q * a) - (r * a) - a
    BY <1>3
  <2>3. x > y
    BY <1>3, <1>4, <2>1, <2>2
  <2>4. QED
    BY <1>1, <2>3
<1>7. QED
  BY <1>3, <1>5, <1>6

\* The rseq area of a larger area ends farther below.
LEMMA WithRseqMonotone ==
  ASSUME NEW u \in Nat, NEW v \in Nat, u <= v
  PROVE  static_used_with_rseq(u) <= static_used_with_rseq(v)
<1>1. RseqAlign \in Nat \ {0} /\ RseqSize \in Nat
  BY TlsAssumption
<1>2. align_up(u, RseqAlign) \in Nat /\ align_up(v, RseqAlign) \in Nat
  BY <1>1, AlignUp
<1>3. align_up(u, RseqAlign) <= align_up(v, RseqAlign)
  BY <1>1, AlignUpMonotone
<1>4. QED
  BY <1>1, <1>2, <1>3 DEF static_used_with_rseq

\* What TcbReach says of one thread.
ReachOf(t) ==
    /\ wrote[t][1] <= used /\ wrote[t][2] <= maxAlign /\ wrote[t][2] \in Powers
    /\ reach[t] <= static_used_with_rseq(wrote[t][1])
    /\ \A i \in images[t] \cap statics : \E p \in Powers :
         IsNextPowerOfTwo(p, modules[i].info.align) /\ p <= wrote[t][2]

\* The area grows under a thread that was initialised.
LEMMA ReachKept ==
  ASSUME Books, Memories, Histories, ImagesInv, [Next]_vars, NEW t \in Tcbs, ReachOf(t),
         wrote'[t] = wrote[t], reach'[t] = reach[t], images'[t] = images[t]
  PROVE  ReachOf(t)'
<1>1. t \in Threads
  BY DEF Threads
<1>2. wrote[t][1] \in Nat /\ wrote[t][2] \in Nat
  BY <1>1 DEF Histories
<1>3. wrote[t][1] <= used' /\ wrote[t][2] <= maxAlign'
  BY <1>2, AreaGrows DEF ReachOf
<1>4. \A i \in images[t] \cap statics' :
        i \in statics /\ modules'[i].info = modules[i].info
  BY ImagesStay DEF ImagesInv
<1>5. \A i \in images[t] \cap statics' : \E p \in Powers :
        IsNextPowerOfTwo(p, modules'[i].info.align) /\ p <= wrote[t][2]
  BY <1>4 DEF ReachOf
<1>6. static_used_with_rseq(wrote[t][1])' = static_used_with_rseq(wrote[t][1])
  BY DEF static_used_with_rseq, align_up
<1>7. QED
  BY <1>3, <1>5, <1>6 DEF ReachOf, IsNextPowerOfTwo, MaxOf

\* What a thread is initialised with is what static_used_info says.
LEMMA ReachWritten ==
  ASSUME Books, Memories, AlignInv, NEW t \in Tcbs, modVars' = modVars,
         wrote'[t] = static_used_info,
         reach'[t] \in Nat, reach'[t] <= static_used_with_rseq(used)
  PROVE  ReachOf(t)'
<1>1. used \in Nat /\ maxAlign \in Nat /\ maxAlign \in Powers
  BY TlsAssumption DEF Books, AlignInv
<1>2. used' = used /\ maxAlign' = maxAlign /\ statics' = statics /\ modules' = modules
  BY DEF modVars
<1>3. wrote'[t][1] = used /\ wrote'[t][2] = maxAlign
  BY DEF static_used_info
<1>4. \A i \in images'[t] \cap statics' : \E p \in Powers :
        IsNextPowerOfTwo(p, modules'[i].info.align) /\ p <= maxAlign
  BY <1>2 DEF AlignInv
<1>5. static_used_with_rseq(wrote[t][1])' = static_used_with_rseq(used)
  BY <1>3 DEF static_used_with_rseq, align_up
<1>6. wrote'[t][1] <= used' /\ wrote'[t][2] <= maxAlign' /\ wrote'[t][2] \in Powers
  BY <1>1, <1>2, <1>3
<1>7. QED
  BY <1>3, <1>4, <1>5, <1>6 DEF ReachOf, IsNextPowerOfTwo, MaxOf

\* The initialisation of a thread writes the static blocks and then the rseq area.
LEMMA TcbReachStep ==
  ASSUME Books, Memories, Histories, ImagesInv, AlignInv, TcbReach, [Next]_vars
  PROVE  TcbReach'
<1>1. SUFFICES ASSUME NEW t \in Tcbs PROVE ReachOf(t)'
  BY DEF TcbReach, ReachOf
<1>2. t \in Threads /\ ReachOf(t)
  BY DEF Threads, TcbReach, ReachOf
<1>3. CASE wrote'[t] = wrote[t] /\ reach'[t] = reach[t] /\ images'[t] = images[t]
  BY <1>2, <1>3, ReachKept
<1>4. CASE ThreadKept(t)
  BY <1>3, <1>4 DEF ThreadKept
<1>5. CASE AllocateStorage(t) \/ ProvideStorage(t) \/ Reinit(t)
  BY <1>3, <1>5 DEF AllocateStorage, ProvideStorage, Reinit
<1>6. used \in Nat /\ static_used_with_rseq(used) \in Nat
      /\ used <= static_used_with_rseq(used)
  BY WithRseq, TlsAssumption DEF Books
<1>7. CASE InitTcb(t)
  <2>1. /\ reach'[t] = FarthestOf(WithImage) /\ wrote'[t] = static_used_info
        /\ modVars' = modVars
    BY <1>2, <1>7 DEF InitTcb, Memories, Histories
  <2>2. FarthestOf(WithImage) \in 0 .. used
    BY BooksFarthest DEF WithImage
  <2>3. reach'[t] \in Nat /\ reach'[t] <= static_used_with_rseq(used)
    BY <1>6, <2>1, <2>2
  <2>4. QED
    BY <2>1, <2>3, ReachWritten
<1>8. CASE InitRseq(t)
  <2>1. /\ reach'[t] = MaxOf(reach[t], static_used_with_rseq(used))
        /\ wrote'[t] = static_used_info /\ modVars' = modVars
    BY <1>2, <1>8 DEF InitRseq, Memories, Histories
  <2>2. reach[t] \in Nat /\ wrote[t][1] \in Nat
    BY <1>2 DEF Memories, Histories
  <2>3. /\ static_used_with_rseq(wrote[t][1]) \in Nat
        /\ static_used_with_rseq(wrote[t][1]) <= static_used_with_rseq(used)
    BY <1>2, <1>6, <2>2, WithRseq, WithRseqMonotone DEF ReachOf
  <2>4. reach[t] <= static_used_with_rseq(used)
    BY <1>2, <1>6, <2>2, <2>3 DEF ReachOf
  <2>5. \/ MaxOf(reach[t], static_used_with_rseq(used)) = reach[t]
        \/ MaxOf(reach[t], static_used_with_rseq(used)) = static_used_with_rseq(used)
    BY <1>6, <2>2, MaxNat
  <2>6. reach'[t] \in Nat /\ reach'[t] <= static_used_with_rseq(used)
    BY <1>6, <2>1, <2>2, <2>4, <2>5
  <2>7. QED
    BY <2>1, <2>6, ReachWritten
<1>9. CASE Deallocate(t)
  <2>1. CASE Forget(t)
    <3>1. reach'[t] = 0 /\ images'[t] = {} /\ wrote'[t] = <<0, 1>>
      BY <1>2, <2>1 DEF Forget, Memories, Histories
    <3>2. used' \in Nat /\ maxAlign' \in Nat \ {0} /\ 1 \in Powers
      BY BooksStep, TlsAssumption, PowersAssumption DEF Books
    <3>3. wrote'[t][1] = 0 /\ wrote'[t][2] = 1
      BY <3>1
    <3>4. static_used_with_rseq(0) \in Nat
      BY WithRseq
    <3>5. static_used_with_rseq(wrote[t][1])' = static_used_with_rseq(0)
      BY <3>3 DEF static_used_with_rseq, align_up
    <3>6. /\ wrote'[t][1] <= used' /\ wrote'[t][2] <= maxAlign' /\ wrote'[t][2] \in Powers
          /\ reach'[t] <= static_used_with_rseq(wrote[t][1])'
      BY <3>1, <3>2, <3>3, <3>4, <3>5
    <3>7. QED
      BY <3>1, <3>6 DEF ReachOf
  <2>2. CASE ~ Forget(t)
    BY <1>3, <1>9, <2>2 DEF Deallocate
  <2>3. QED
    BY <2>1, <2>2
<1>10. QED
  BY <1>4, <1>5, <1>7, <1>8, <1>9, ThreadStep

-----------------------------------------------------------------------------
(* The invariant of the threads *)

\* No module, no thread, no layout.
LEMMA InitThreads == Init => ThreadsInv
<1> SUFFICES ASSUME Init PROVE ThreadsInv
  OBVIOUS
<1>1. Inv
  BY InitInv
<1>2. /\ statics = {} /\ layout = Null /\ maxAlign = 1 /\ used = 0
      /\ Main \in Threads /\ \A t \in Tcbs : t \in Threads
  BY DEF Init, Threads
<1>3. /\ \A t \in Threads : phase[t] = "none" /\ reach[t] = 0 /\ images[t] = {}
      /\ \A t \in Threads : wrote[t] = <<0, 1>> /\ known[t] = {}
  BY DEF Init
<1>4. MeasuredInv /\ ImagesInv
  BY <1>2, <1>3 DEF MeasuredInv, ImagesInv, WithImage
<1>5. AlignInv
  BY <1>2, PowersAssumption DEF AlignInv
<1>6. MainReach
  BY <1>2, <1>3, TlsAssumption DEF MainReach
<1>7. TcbReach
  <2>1. static_used_with_rseq(0) \in Nat
    BY WithRseq
  <2>2. QED
    BY <1>2, <1>3, <2>1, PowersAssumption DEF TcbReach
<1>8. QED
  BY <1>1, <1>4, <1>5, <1>6, <1>7 DEF ThreadsInv

\* Every step preserves it.
LEMMA NextThreads == ThreadsInv /\ [Next]_vars => ThreadsInv'
<1> SUFFICES ASSUME ThreadsInv, [Next]_vars PROVE ThreadsInv'
  OBVIOUS
<1>1. /\ Inv /\ MeasuredInv /\ ImagesInv /\ AlignInv /\ MainReach /\ TcbReach
      /\ Books /\ Memories /\ Histories
  BY InvParts DEF ThreadsInv
<1>2. Inv'
  BY <1>1, NextInv
<1>3. MeasuredInv' /\ ImagesInv'
  BY <1>1, MeasuredStep, ImagesInvStep
<1>4. AlignInv' /\ MainReach' /\ TcbReach'
  BY <1>1, AlignStep, MainReachStep, TcbReachStep
<1>5. QED
  BY <1>2, <1>3, <1>4 DEF ThreadsInv

\* Whenever static modules come, before the layout is published or after, memory is as
\* large as it was measured, and a thread is written to as far as static_used_info said
\* when it was initialised.
THEOREM TlsThreadsInvariant == Spec => []ThreadsInv
<1>1. QED
  BY InitThreads, NextThreads, PTL DEF Spec

\* A thread has the images of the static modules that were published when it was made,
\* the initial thread of all that are (init, init_tls_module).
THEOREM TlsHasImages == Spec => []HasImages
<1>1. ThreadsInv => HasImages
  BY DEF ThreadsInv, ImagesInv, HasImages
<1>2. QED
  BY <1>1, TlsThreadsInvariant, PTL

\* Initialising a thread writes inside its memory, which is aligned for every static
\* module it received, whenever no static module came between measuring the memory
\* and the initialisation: allocate_storage counts the rseq area and the largest
\* alignment.  In the initial thread the arena is always large enough.
THEOREM TlsFitsStorage == Spec => []FitsStorage
<1>1. ThreadsInv => FitsStorage
  <2>1. SUFFICES ASSUME ThreadsInv PROVE FitsStorage
    OBVIOUS
  <2>2. /\ MeasuredInv /\ MainReach /\ TcbReach /\ Memories /\ Histories
    BY <2>1, InvParts DEF ThreadsInv
  <2>3. phase[Main] # "none" => reach[Main] <= storage[Main].size
    BY <2>2 DEF MainReach
  <2>4. ASSUME NEW t \in Tcbs, phase[t] # "none", wrote[t] = measured[t]
        PROVE  /\ reach[t] <= storage[t].size
               /\ \A i \in images[t] : i \in statics =>
                    \E p \in Powers : /\ IsNextPowerOfTwo(p, modules[i].info.align)
                                      /\ storage[t].align % p = 0
    <3> DEFINE u == wrote[t][1]
               m == wrote[t][2]
               a == MaxOf(m, MaxOf(RseqAlign, TcbAlign))
               r == static_used_with_rseq(u)
    <3>1. t \in Threads
      BY DEF Threads
    <3>2. /\ u \in Nat /\ m \in Powers /\ reach[t] \in Nat /\ reach[t] <= r
          /\ \A i \in images[t] \cap statics : \E p \in Powers :
               IsNextPowerOfTwo(p, modules[i].info.align) /\ p <= m
      BY <2>2, <3>1 DEF TcbReach, Memories, Histories
    <3>3. storage[t] = [size |-> align_up(r, a), align |-> a]
      BY <2>2, <2>4 DEF MeasuredInv, LayoutOf
    <3> HIDE DEF u, m
    <3>4. /\ RseqAlign \in Powers /\ TcbAlign \in Powers /\ m \in Powers
          /\ \A p \in Powers : p \in Nat \ {0}
      BY <3>2, TlsAssumption, PowersAssumption
    <3>5. a \in Powers /\ m <= a
      BY <3>4 DEF MaxOf
    <3> HIDE DEF a
    <3>6. r \in Nat
      BY <3>2, WithRseq
    <3> HIDE DEF r
    <3>7. align_up(r, a) \in Nat /\ align_up(r, a) >= r
      BY <3>4, <3>5, <3>6, AlignUp
    <3>8. reach[t] <= storage[t].size
      BY <3>2, <3>3, <3>6, <3>7
    <3>9. ASSUME NEW i \in images[t] \cap statics
          PROVE  \E p \in Powers : /\ IsNextPowerOfTwo(p, modules[i].info.align)
                                   /\ storage[t].align % p = 0
      <4>1. PICK p \in Powers : IsNextPowerOfTwo(p, modules[i].info.align) /\ p <= m
        BY <3>2
      <4>2. p <= a
        <5>1. p \in Nat /\ m \in Nat /\ a \in Nat
          BY <3>4, <3>5
        <5>2. QED
          BY <5>1, <3>5, <4>1
      <4>3. a % p = 0
        BY <3>5, <4>2, PowersAssumption
      <4>4. QED
        BY <3>3, <4>1, <4>3
    <3>10. QED
      BY <3>8, <3>9
  <2>5. QED
    BY <2>3, <2>4 DEF FitsStorage
<1>2. QED
  BY <1>1, TlsThreadsInvariant, PTL
=============================================================================
