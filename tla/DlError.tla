------------------------------- MODULE DlError -------------------------------
(***************************************************************************)
(* dlerror() and the error state of each thread (api/dlerror.rs).  The std *)
(* build keeps the state in a thread-local; the no_std build keeps a map   *)
(* from thread pointers to states behind a spin lock.                      *)
(*                                                                         *)
(* The C entry points dlopen, dlsym and dlclose clear the state of the     *)
(* calling thread first and set it when they fail.  Between the two, the   *)
(* constructors and finalizers they run may call them again.               *)
(***************************************************************************)
EXTENDS Naturals

CONSTANTS Threads,     \* threads of the process
          Pointers,    \* thread pointers (addresses of thread control blocks)
          NoPointer,   \* of a thread that is not running
          None,        \* no message
          MaxErrors,   \* bound: errors raised
          MaxCalls     \* bound: nested calls of one thread

ASSUME DlErrorAssumption ==
    /\ NoPointer \notin Pointers
    /\ {MaxErrors, MaxCalls} \subseteq Nat
    /\ None \notin Threads \X (1 .. MaxErrors)

VARIABLES std,      \* the std build, not the no_std one; fixed
          tp,       \* the thread pointer of each thread
          calls,    \* calls in progress on each thread
          state,    \* DLERROR: pending and returned message of each key
          errors,   \* errors raised so far
          recent,   \* history: the error a dlerror() of this thread must report
          answer,   \* history: the message of its last dlerror() it may still read
          fresh     \* history: threads that called nothing of this since they started

vars == <<std, tp, calls, state, errors, recent, answer, fresh>>

Messages == Threads \X (1 .. MaxErrors)

Empty == [pending |-> None, returned |-> None]

Running == {t \in Threads : tp[t] # NoPointer}

\* The thread-local, or thread_key(): the thread pointer.
Key(t) == IF std THEN t ELSE tp[t]

Init ==
    /\ std \in BOOLEAN
    /\ tp = [t \in Threads |-> NoPointer]
    /\ calls = [t \in Threads |-> 0]
    /\ state = [k \in Threads \cup Pointers |-> Empty]
    /\ errors = 0
    /\ recent = [t \in Threads |-> None]
    /\ answer = [t \in Threads |-> None]
    /\ fresh = {}

\* A thread starts, with a thread pointer that no running thread has; it may be the
\* one of a thread that exited.
Start(t) ==
    /\ t \notin Running
    /\ \E p \in Pointers \ {tp[u] : u \in Running} : tp' = [tp EXCEPT ![t] = p]
    /\ fresh' = fresh \cup {t}
    /\ UNCHANGED <<std, calls, state, errors, recent, answer>>

\* A thread exits: thread-locals are destroyed, the map keeps its entry.
Exit(t) ==
    /\ t \in Running
    /\ calls[t] = 0
    /\ tp' = [tp EXCEPT ![t] = NoPointer]
    /\ state' = IF std THEN [state EXCEPT ![t] = Empty] ELSE state
    /\ recent' = [recent EXCEPT ![t] = None]
    /\ answer' = [answer EXCEPT ![t] = None]
    /\ fresh' = fresh \ {t}
    /\ UNCHANGED <<std, calls, errors>>

\* Mutant: an entry point that does not begin with dlerror::clear().
MutantCall(t) ==
    /\ t \in Running
    /\ calls[t] < MaxCalls
    /\ calls' = [calls EXCEPT ![t] = @ + 1]
    /\ recent' = [recent EXCEPT ![t] = None]
    /\ answer' = [answer EXCEPT ![t] = None]
    /\ fresh' = fresh \ {t}
    /\ UNCHANGED <<std, tp, state, errors>>

\* dlopen, dlsym or dlclose begins with dlerror::clear().
Call(t) ==
    /\ t \in Running
    /\ calls[t] < MaxCalls
    /\ calls' = [calls EXCEPT ![t] = @ + 1]
    /\ state' = [state EXCEPT ![Key(t)] = Empty]
    /\ recent' = [recent EXCEPT ![t] = None]
    /\ answer' = [answer EXCEPT ![t] = None]
    /\ fresh' = fresh \ {t}
    /\ UNCHANGED <<std, tp, errors>>

\* The innermost call succeeds and leaves the state to what nested calls made of it.
Succeed(t) ==
    /\ calls[t] > 0
    /\ calls' = [calls EXCEPT ![t] = @ - 1]
    /\ UNCHANGED <<std, tp, state, errors, recent, answer, fresh>>

\* The innermost call fails: dlerror::set().
Fail(t) ==
    /\ calls[t] > 0
    /\ errors < MaxErrors
    /\ LET e == <<t, errors + 1>>
       IN  /\ state' = [state EXCEPT ![Key(t)] = [pending |-> e, returned |-> None]]
           /\ recent' = [recent EXCEPT ![t] = e]
    /\ errors' = errors + 1
    /\ calls' = [calls EXCEPT ![t] = @ - 1]
    /\ answer' = [answer EXCEPT ![t] = None]
    /\ UNCHANGED <<std, tp, fresh>>

\* Mutant: the message is handed out without being kept.
MutantDlerror(t) ==
    /\ t \in Running
    /\ state' = [state EXCEPT ![Key(t)] = Empty]
    /\ answer' = [answer EXCEPT ![t] = state[Key(t)].pending]
    /\ recent' = [recent EXCEPT ![t] = None]
    /\ fresh' = fresh \ {t}
    /\ UNCHANGED <<std, tp, calls, errors>>

\* dlerror(): the pending message becomes the returned one, whose memory lives on;
\* the one returned before is freed.
Dlerror(t) ==
    /\ t \in Running
    /\ state' = [state EXCEPT ![Key(t)] = [pending |-> None, returned |-> @.pending]]
    /\ answer' = [answer EXCEPT ![t] = state[Key(t)].pending]
    /\ recent' = [recent EXCEPT ![t] = None]
    /\ fresh' = fresh \ {t}
    /\ UNCHANGED <<std, tp, calls, errors>>

Next == \E t \in Threads :
    Start(t) \/ Exit(t) \/ Call(t) \/ Succeed(t) \/ Fail(t) \/ Dlerror(t)

Spec == Init /\ [][Next]_vars
-----------------------------------------------------------------------------
TypeOK ==
    /\ std \in BOOLEAN
    /\ tp \in [Threads -> Pointers \cup {NoPointer}]
    /\ calls \in [Threads -> 0 .. MaxCalls]
    /\ state \in [Threads \cup Pointers ->
                    [pending : Messages \cup {None}, returned : Messages \cup {None}]]
    /\ errors \in 0 .. MaxErrors
    /\ recent \in [Threads -> Messages \cup {None}]
    /\ answer \in [Threads -> Messages \cup {None}]
    /\ fresh \subseteq Threads

\* The state is well typed, and what dlerror() would report to a running thread is
\* the most recent error of that very thread since its last call of the loader, or
\* nothing: in the std build always, in the no_std build from the thread's first call
\* on, also if its thread pointer was the one of a thread that exited.
PendingIsOwn ==
    TypeOK /\ \A t \in Running : (std \/ t \notin fresh) => state[Key(t)].pending = recent[t]

\* The message dlerror() returned stays in memory until the thread calls the loader
\* or dlerror() again, whatever other threads do.
AnswerLives ==
    \A t \in Running : answer[t] # None => state[Key(t)].returned = answer[t]

\* dlerror() never answers a thread with another thread's error.  In the no_std build
\* it does when it is the first that a thread with the memory of another one calls.
AnswerIsOwn == \A t \in Threads : answer[t] # None => answer[t][1] = t
-----------------------------------------------------------------------------
(* The inductive invariant of the proofs *)

\* Running threads have different thread pointers.
PointersApart == \A t, u \in Running : tp[t] = tp[u] => t = u

\* A thread that does not run is in no call and has left nothing behind in the std
\* build; one that called nothing yet is in no call.
NothingLeft ==
    /\ \A t \in Threads \ Running :
         /\ calls[t] = 0
         /\ recent[t] = None /\ answer[t] = None
         /\ std => state[t] = Empty
    /\ \A t \in fresh : calls[t] = 0

Inv ==
    /\ PendingIsOwn
    /\ AnswerLives
    /\ PointersApart
    /\ NothingLeft
=============================================================================
