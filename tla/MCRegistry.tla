----------------------------- MODULE MCRegistry -----------------------------
(***************************************************************************)
(* Instances of Registry for TLC: prog is preloaded, libA needs libB.      *)
(***************************************************************************)
EXTENDS Registry, TLC

CONSTANTS prog, libA, libB

MCDeps ==
    [m \in Modules |-> IF m = libA THEN {libB} ELSE {}]

\* Threads are interchangeable.
ThreadSymmetry == Permutations(Threads)

BothApis == {"c", "rust"}

CApi == {"c"}

NoFlags == {{}}

SomeFlags == {{}, {"GLOBAL", "NODELETE"}}
=============================================================================
