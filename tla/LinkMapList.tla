----------------------------- MODULE LinkMapList -----------------------------
(***************************************************************************)
(* What a debugger expects of r_debug: a sequence of link maps to whose    *)
(* end objects are added and from any place of which they are removed,     *)
(* unless they were there when the loader took over.                       *)
(***************************************************************************)
EXTENDS Sequences, Naturals, SequencesExt

CONSTANTS LinkMaps,  \* link maps that may be listed
          First      \* the list when the loader takes over

VARIABLE list

Listed == {list[i] : i \in DOMAIN list}

\* The objects that were there first stay.
Kept == {First[i] : i \in DOMAIN First}

Init == list = First

Add(m) == list' = Append(list, m)

Delete(i) == list' = RemoveAt(list, i)

Next ==
    \/ \E m \in LinkMaps \ Listed : Add(m)
    \/ \E i \in DOMAIN list : list[i] \notin Kept /\ Delete(i)

Spec == Init /\ [][Next]_list
=============================================================================
