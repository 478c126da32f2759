---------------------------- MODULE DlErrorProofs ----------------------------
(***************************************************************************)
(* Proofs about dlerror(), for any threads that come and go, any nesting   *)
(* of failing calls and any number of errors, in the std build and in the  *)
(* no_std build, where thread pointers are used again.                     *)
(***************************************************************************)
EXTENDS DlError, TLAPS

\* No two running threads have the same key.
LEMMA KeysApart ==
    ASSUME TypeOK, PointersApart, NEW t \in Running, NEW u \in Running, Key(t) = Key(u)
    PROVE  t = u
BY DEF Key, PointersApart, Running

\* The key of a running thread is a key of the state.
LEMMA KeyType ==
    ASSUME TypeOK, NEW t \in Running
    PROVE  t \in Threads /\ Key(t) \in Threads \cup Pointers
BY DEF Key, TypeOK, Running

\* A call of the loader or of dlerror() by a running thread gives the key of that
\* thread a new state, and the thread what it says; nothing else changes.
LEMMA OwnStateStep ==
    ASSUME Inv, NEW t \in Running,
           NEW s \in [pending : Messages \cup {None}, returned : Messages \cup {None}],
           state' = [state EXCEPT ![Key(t)] = s],
           NEW r \in Messages \cup {None}, recent' = [recent EXCEPT ![t] = r],
           NEW a \in Messages \cup {None}, answer' = [answer EXCEPT ![t] = a],
           UNCHANGED <<std, tp>>, fresh' \in {fresh, fresh \ {t}},
           t \in fresh' => calls'[t] = 0,
           s.pending = r, a # None => s.returned = a,
           calls' \in [Threads -> 0 .. MaxCalls], errors' \in 0 .. MaxErrors,
           \A u \in Threads \ {t} : calls'[u] = calls[u]
    PROVE  Inv'
<1>1. TypeOK
  BY DEF Inv, PendingIsOwn
<1>2. t \in Threads /\ Key(t) \in Threads \cup Pointers
  BY <1>1, KeyType
<1>3. TypeOK'
  BY <1>1, <1>2 DEF TypeOK
<1>4. Running' = Running /\ \A u \in Threads : Key(u)' = Key(u)
  BY DEF Running, Key
<1>5. ASSUME NEW u \in Running
      PROVE  /\ u \in Threads
             /\ state'[Key(u)] = IF u = t THEN s ELSE state[Key(u)]
  <2>1. u \in Threads /\ Key(u) \in Threads \cup Pointers
    BY <1>1, KeyType
  <2>2. Key(u) = Key(t) => u = t
    BY <1>1, KeysApart DEF Inv
  <2>3. QED
    BY <1>1, <2>1, <2>2 DEF TypeOK
<1>6. PendingIsOwn'
  BY <1>1, <1>2, <1>3, <1>4, <1>5 DEF Inv, PendingIsOwn, TypeOK, Running
<1>7. AnswerLives'
  BY <1>1, <1>2, <1>4, <1>5 DEF Inv, AnswerLives, TypeOK, Running
<1>8. PointersApart'
  BY <1>4 DEF Inv, PointersApart
<1>9. NothingLeft'
  <2>1. ASSUME NEW u \in Threads \ Running
        PROVE  /\ u # t
               /\ calls'[u] = 0 /\ recent'[u] = None /\ answer'[u] = None
               /\ std => state'[u] = Empty
    <3>1. u # t
      OBVIOUS
    <3>2. calls'[u] = 0 /\ recent'[u] = None /\ answer'[u] = None
      BY <3>1, <1>1, <1>2 DEF Inv, NothingLeft, TypeOK
    <3>3. ASSUME std
          PROVE  state'[u] = Empty
      BY <3>1, <3>3, <1>1, <1>2 DEF Inv, NothingLeft, TypeOK, Key
    <3>4. QED
      BY <3>1, <3>2, <3>3
  <2>2. \A u \in fresh' : calls'[u] = 0
    BY <1>1 DEF Inv, NothingLeft, TypeOK
  <2>3. QED
    BY <2>1, <2>2, <1>4 DEF NothingLeft, Empty
<1>10. QED
  BY <1>6, <1>7, <1>8, <1>9 DEF Inv

\* A thread that starts finds no state in the std build; in the no_std build it may
\* find that of another thread, but has not called anything yet.
LEMMA StartStep ==
    ASSUME Inv, NEW t \in Threads, Start(t)
    PROVE  Inv'
<1>1. PICK p \in Pointers \ {tp[u] : u \in Running} : tp' = [tp EXCEPT ![t] = p]
  BY DEF Start
<1>2. /\ t \notin Running
      /\ fresh' = fresh \cup {t}
      /\ UNCHANGED <<std, calls, state, errors, recent, answer>>
  BY DEF Start
<1>3. TypeOK
  BY DEF Inv, PendingIsOwn
<1>4. \A u \in Running : tp[u] # p
  BY <1>1
<1>5. /\ Running' = Running \cup {t}
      /\ \A u \in Running : u \in Threads /\ u # t /\ tp'[u] = tp[u]
      /\ tp'[t] = p
  BY <1>1, <1>2, <1>3, DlErrorAssumption DEF Running, TypeOK
<1>6. TypeOK'
  BY <1>1, <1>2, <1>3 DEF TypeOK
<1>7. \A u \in Running : Key(u)' = Key(u)
  BY <1>2, <1>5 DEF Key
<1>8. recent[t] = None /\ answer[t] = None /\ calls[t] = 0
  BY <1>2 DEF Inv, NothingLeft
<1>9. std => state[Key(t)'] = Empty
  BY <1>2 DEF Key, Inv, NothingLeft
<1>10. PendingIsOwn'
  <2>1. std => state[Key(t)'].pending = recent[t]
    BY <1>8, <1>9 DEF Empty
  <2>2. \A u \in Running' : (std' \/ u \notin fresh') => state'[Key(u)'].pending = recent'[u]
    BY <2>1, <1>2, <1>5, <1>7 DEF Inv, PendingIsOwn
  <2>3. QED
    BY <2>2, <1>6 DEF PendingIsOwn
<1>11. AnswerLives'
  <2>1. \A u \in Running' : answer'[u] # None => state'[Key(u)'].returned = answer'[u]
    BY <1>2, <1>5, <1>7, <1>8 DEF Inv, AnswerLives
  <2>2. QED
    BY <2>1 DEF AnswerLives
<1>12. PointersApart'
  BY <1>2, <1>4, <1>5 DEF Inv, PointersApart
<1>13. NothingLeft'
  BY <1>2, <1>5, <1>8 DEF Inv, NothingLeft, Empty
<1>14. QED
  BY <1>10, <1>11, <1>12, <1>13 DEF Inv

\* A thread that exits leaves the others their states.
LEMMA ExitStep ==
    ASSUME Inv, NEW t \in Threads, Exit(t)
    PROVE  Inv'
<1>1. /\ t \in Running /\ calls[t] = 0
      /\ tp' = [tp EXCEPT ![t] = NoPointer]
      /\ state' = IF std THEN [state EXCEPT ![t] = Empty] ELSE state
      /\ recent' = [recent EXCEPT ![t] = None]
      /\ answer' = [answer EXCEPT ![t] = None]
      /\ fresh' = fresh \ {t}
      /\ UNCHANGED <<std, calls, errors>>
  BY DEF Exit
<1>2. TypeOK
  BY DEF Inv, PendingIsOwn
<1>3. Running' = Running \ {t} /\ \A u \in Running' : u \in Threads /\ tp'[u] = tp[u]
  BY <1>1, <1>2 DEF Running, TypeOK
<1>4. TypeOK'
  BY <1>1, <1>2 DEF TypeOK, Empty
<1>5. ASSUME NEW u \in Running'
      PROVE  Key(u)' = Key(u) /\ state'[Key(u)] = state[Key(u)]
  BY <1>1, <1>2, <1>3 DEF Key, TypeOK
<1>6. PendingIsOwn'
  <2>1. \A u \in Running' : (std' \/ u \notin fresh') => state'[Key(u)'].pending = recent'[u]
    BY <1>1, <1>2, <1>3, <1>5 DEF Inv, PendingIsOwn, TypeOK
  <2>2. QED
    BY <2>1, <1>4 DEF PendingIsOwn
<1>7. AnswerLives'
  <2>1. \A u \in Running' : answer'[u] # None => state'[Key(u)'].returned = answer'[u]
    BY <1>1, <1>2, <1>3, <1>5 DEF Inv, AnswerLives, TypeOK
  <2>2. QED
    BY <2>1 DEF AnswerLives
<1>8. PointersApart'
  BY <1>3 DEF Inv, PointersApart
<1>9. NothingLeft'
  <2>1. ASSUME NEW u \in Threads \ Running'
        PROVE  /\ calls'[u] = 0 /\ recent'[u] = None /\ answer'[u] = None
               /\ std => state'[u] = Empty
    <3>1. CASE u = t
      BY <3>1, <1>1, <1>2 DEF TypeOK
    <3>2. CASE u # t
      BY <3>2, <1>1, <1>2, <1>3 DEF Inv, NothingLeft, TypeOK
    <3>3. QED
      BY <3>1, <3>2
  <2>2. \A u \in fresh' : calls'[u] = 0
    BY <1>1 DEF Inv, NothingLeft
  <2>3. QED
    BY <2>1, <2>2, <1>1 DEF NothingLeft, Empty
<1>10. QED
  BY <1>6, <1>7, <1>8, <1>9 DEF Inv

\* The inductive step.
LEMMA InvStep == Inv /\ [Next]_vars => Inv'
<1> SUFFICES ASSUME Inv, [Next]_vars
             PROVE  Inv'
  OBVIOUS
<1>1. TypeOK
  BY DEF Inv, PendingIsOwn
<1>2. Empty \in [pending : Messages \cup {None}, returned : Messages \cup {None}]
  BY DEF Empty
<1>3. ASSUME NEW t \in Threads, calls[t] > 0
      PROVE  t \in Running
  BY <1>3, <1>1 DEF Inv, NothingLeft, TypeOK
<1>4. ASSUME NEW t \in Threads, Call(t)
      PROVE  Inv'
  <2>1. calls' \in [Threads -> 0 .. MaxCalls]
        /\ \A u \in Threads \ {t} : calls'[u] = calls[u]
    BY <1>4, <1>1, DlErrorAssumption DEF Call, TypeOK
  <2>2. errors' \in 0 .. MaxErrors /\ Empty.pending = None
    BY <1>4, <1>1 DEF Call, TypeOK, Empty
  <2>3. QED
    BY <1>4, <2>1, <2>2, <1>2, OwnStateStep DEF Call
<1>5. ASSUME NEW t \in Threads, Succeed(t)
      PROVE  Inv'
  <2>1. calls' \in [Threads -> 0 .. MaxCalls]
        /\ \A u \in Threads : calls[u] = 0 => calls'[u] = 0
    BY <1>5, <1>1, DlErrorAssumption DEF Succeed, TypeOK
  <2>2. TypeOK' /\ Running' = Running
    BY <1>5, <2>1, <1>1 DEF Succeed, TypeOK, Running
  <2>3. QED
    BY <1>5, <2>1, <2>2
       DEF Succeed, Inv, PendingIsOwn, AnswerLives, PointersApart, NothingLeft,
           Key, Empty
<1>6. ASSUME NEW t \in Threads, Fail(t)
      PROVE  Inv'
  <2> DEFINE e == <<t, errors + 1>>
  <2>1. e \in Messages /\ e # None /\ errors' \in 0 .. MaxErrors
    BY <1>6, <1>1, DlErrorAssumption DEF Fail, TypeOK, Messages
  <2>2. calls' \in [Threads -> 0 .. MaxCalls]
        /\ \A u \in Threads \ {t} : calls'[u] = calls[u]
    BY <1>6, <1>1, DlErrorAssumption DEF Fail, TypeOK
  <2>3. /\ state' = [state EXCEPT ![Key(t)] = [pending |-> e, returned |-> None]]
        /\ recent' = [recent EXCEPT ![t] = e]
        /\ answer' = [answer EXCEPT ![t] = None]
        /\ UNCHANGED <<std, tp, fresh>>
        /\ t \in Running
    BY <1>6, <1>3 DEF Fail
  <2>6. t \notin fresh
    BY <1>6, <1>1 DEF Fail, Inv, NothingLeft, TypeOK
  <2> HIDE DEF e
  <2>4. [pending |-> e, returned |-> None]
          \in [pending : Messages \cup {None}, returned : Messages \cup {None}]
    BY <2>1
  <2>5. QED
    BY <2>1, <2>2, <2>3, <2>4, <2>6, OwnStateStep
<1>7. ASSUME NEW t \in Threads, Dlerror(t)
      PROVE  Inv'
  <2> DEFINE a == state[Key(t)].pending
             s == [pending |-> None, returned |-> a]
  <2>1. t \in Running /\ Key(t) \in Threads \cup Pointers
    BY <1>7, <1>1, KeyType DEF Dlerror
  <2>2. a \in Messages \cup {None}
    BY <2>1, <1>1 DEF TypeOK
  <2>3. fresh' = fresh \ {t}
    BY <1>7 DEF Dlerror
  <2>4. /\ state' = [state EXCEPT ![Key(t)] = s]
        /\ answer' = [answer EXCEPT ![t] = a]
        /\ recent' = [recent EXCEPT ![t] = None]
        /\ UNCHANGED <<std, tp, calls, errors>>
    BY <1>7 DEF Dlerror
  <2>5. s \in [pending : Messages \cup {None}, returned : Messages \cup {None}]
        /\ s.pending = None /\ s.returned = a
    BY <2>2
  <2>6. /\ calls' \in [Threads -> 0 .. MaxCalls] /\ errors' \in 0 .. MaxErrors
        /\ \A u \in Threads \ {t} : calls'[u] = calls[u]
    BY <2>4, <1>1 DEF TypeOK
  <2> HIDE DEF a, s
  <2>7. QED
    BY <2>1, <2>2, <2>3, <2>4, <2>5, <2>6, OwnStateStep
<1>8. CASE UNCHANGED vars
  BY <1>8 DEF vars, Inv, PendingIsOwn, TypeOK, AnswerLives, PointersApart, NothingLeft,
              Key, Empty, Running
<1>9. QED
  BY <1>4, <1>5, <1>6, <1>7, <1>8, StartStep, ExitStep DEF Next

\* No thread runs, no error was raised.
LEMMA InitInv == Init => Inv
BY DlErrorAssumption
   DEF Init, Inv, PendingIsOwn, TypeOK, AnswerLives, PointersApart, NothingLeft,
       Empty, Running

\* The invariant in every reachable state.
THEOREM DlErrorInvariant == Spec => []Inv
BY InitInv, InvStep, PTL DEF Spec

\* What dlerror() would report to a running thread is the most recent error of that
\* very thread, also where constructors fail inside of a dlopen (clear and set of
\* api/dlerror.rs): for the thread-locals of the std build at any time, and for the map
\* of the no_std build, whatever thread pointers are used again, once the thread has
\* called the loader or dlerror().
THEOREM DlErrorPendingIsOwn == Spec => []PendingIsOwn
<1>1. Inv => PendingIsOwn
  BY DEF Inv
<1>2. QED
  BY <1>1, DlErrorInvariant, PTL

\* The text that dlerror() returned is not freed before the same thread calls the
\* loader again, whatever others do, in both builds.
THEOREM DlErrorAnswerLives == Spec => []AnswerLives
<1>1. Inv => AnswerLives
  BY DEF Inv
<1>2. QED
  BY <1>1, DlErrorInvariant, PTL
=============================================================================
