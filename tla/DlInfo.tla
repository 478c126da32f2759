------------------------------- MODULE DlInfo -------------------------------
(***************************************************************************)
(* dlinfo of an open handle (symbols/dlfcn.rs of the loader): the requests *)
(* RTLD_DI_ORIGIN, whose answer is computed from the name in the link map, *)
(* and RTLD_DI_ORIGIN_PATH, whose answer is cached under the addresses of  *)
(* the link map and of the name.  Both are freed when a module is unloaded *)
(* (SymbolScopes) and may be used again by the next module; an entry of    *)
(* the cache stays.  The other requests copy a field of the link map, or   *)
(* list default directories.                                               *)
(***************************************************************************)
EXTENDS SymbolScopes

CONSTANTS Asked,         \* the modules whose handles dlinfo is asked about
          MapAddresses, NameAddresses,
          NameOf,        \* NameOf[m]: the parts between the slashes of m's path
          Directory,     \* Directory[m]: the parts of the path of its directory
          MaxCached,     \* bound: entries of the cache
          Null

\* A module's file is in the current directory, which its name does not tell, in the
\* root directory, or in one below.
ASSUME FilesAssumption ==
    /\ Asked \subseteq Modules
    /\ \A m \in Asked :
         /\ NameOf[m] \in Seq(STRING) /\ Len(NameOf[m]) > 0 /\ Last(NameOf[m]) # ""
         /\ Directory[m] \in Seq(STRING)
         /\ \/ Directory[m] = <<".">> /\ Len(NameOf[m]) = 1
            \/ Directory[m] = <<"", "">> /\ NameOf[m] = <<"", Last(NameOf[m])>>
            \/ /\ Len(Directory[m]) > 0 /\ Directory[m] # <<"">>
               /\ NameOf[m] = Append(Directory[m], Last(NameOf[m]))

VARIABLES place,   \* the addresses of m's link map and of its name; Null: unloaded
          cache,   \* ORIGIN_CACHE; of: the module for which the entry was made
          answer   \* what RTLD_DI_ORIGIN_PATH answered last, and about which module;
                   \* Null once modules were loaded or unloaded since

dlinfoVars == <<place, cache, answer>>

dvars == <<vars, dlinfoVars>>

DInit ==
    /\ Init
    /\ place = [m \in Asked |-> Null]
    /\ cache = {}
    /\ answer = Null

\* The addresses of link maps and names once the modules in s are loaded: no two
\* modules share one.
Placements(s) ==
    LET fresh == {m \in Asked \cap Range(s) : place[m] = Null}
        Placed(p) == [m \in Asked |-> CASE m \in fresh -> p[m]
                                        [] m \notin fresh /\ In(m, s) -> place[m]
                                        [] OTHER -> Null]
    IN  {q \in {Placed(p) : p \in [fresh -> MapAddresses \X NameAddresses]} :
           \A m, n \in Asked :
             (m # n /\ q[m] # Null /\ q[n] # Null) => q[m][1] # q[n][1] /\ q[m][2] # q[n][2]}

\* Modules are loaded and unloaded.
Load ==
    /\ Next
    /\ place' \in Placements(loaded')
    /\ answer' = Null
    /\ UNCHANGED cache
-----------------------------------------------------------------------------
\* origin_from_name: up to the last slash; "/" if that is the first character; "."
\* without a slash; nothing of an empty name.
origin_from_name(n) ==
    CASE n = <<"">> -> <<"">>
      [] Len(n) = 1 /\ n # <<"">> -> <<".">>
      [] Len(n) = 2 /\ n[1] = "" -> <<"", "">>
      [] OTHER -> Front(n)

\* Mutant: the name's address is no part of the key.
MutantCached(m) == {e \in cache : e.map = place[m][1]}

\* The entry for m.
Cached(m) == {e \in cache : e.map = place[m][1] /\ e.name = place[m][2]}

\* handle_link_map finds the handle.
Registered(m) == scope[m] # <<>>

\* RTLD_DI_ORIGIN_PATH, answered from the cache ...
OriginCached(m) ==
    /\ Registered(m)
    /\ \E e \in Cached(m) : answer' = [of |-> m, origin |-> e.origin]
    /\ UNCHANGED <<vars, place, cache>>

\* ... or computed and put there.
OriginComputed(m) ==
    /\ Registered(m)
    /\ Cached(m) = {}
    /\ Cardinality(cache) < MaxCached
    /\ LET origin == origin_from_name(NameOf[m])
       IN  /\ cache' = cache \cup {[map |-> place[m][1], name |-> place[m][2],
                                    origin |-> origin, of |-> m]}
           /\ answer' = [of |-> m, origin |-> origin]
    /\ UNCHANGED <<vars, place>>

DNext ==
    \/ Load
    \/ \E m \in Asked : OriginCached(m) \/ OriginComputed(m)

DSpec == DInit /\ [][DNext]_dvars

\* RTLD_DI_ORIGIN writes the directory that the name has now.
write_origin(m) == origin_from_name(NameOf[m])
-----------------------------------------------------------------------------
\* The link map and the name of m are both where those of another module were whose
\* origin was asked for.
Reused(m) == \E e \in cache : <<e.map, e.name>> = place[m] /\ e.of # m

\* What RTLD_DI_ORIGIN_PATH answers about a loaded module is the directory of its own
\* file, and what RTLD_DI_ORIGIN answers, however modules came and went at the same
\* addresses before, except where link map and name are both used again.
OriginIsOwn ==
    /\ \A m \in Asked : write_origin(m) = Directory[m]
    /\ (answer # Null /\ ~ Reused(answer.of)) => answer.origin = Directory[answer.of]

\* ... without the exception: not so.
OriginAlwaysOwn == answer # Null => answer.origin = Directory[answer.of]
=============================================================================
