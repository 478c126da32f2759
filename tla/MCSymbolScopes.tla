--------------------------- MODULE MCSymbolScopes ---------------------------
(***************************************************************************)
(* Instances of SymbolScopes for TLC: a program and libc, a library libA   *)
(* that needs libB, a wrapper library, all of them (but libB) with a       *)
(* definition of the symbol f; dlinfo is asked about libA and wrap.        *)
(***************************************************************************)
EXTENDS DlInfo

CONSTANTS prog, libc, libA, libB, wrap, f, g

ProcessObjects == <<prog, libc>>

SomeNeeds ==
    [m \in Modules |->
       CASE m = libA -> <<libB, libc>>
         [] m = libc -> <<>>
         [] m = wrap -> <<libB>>
         [] OTHER -> <<libc>>]

SomeDefinitions ==
    [m \in Modules |->
       CASE m = libB -> {g} [] m = prog -> {} [] m = libc -> {f} [] OTHER -> {f, g}]

\* /opt/libA.so, and /wrap.so
SomePaths == [m \in {libA, wrap} |-> IF m = libA THEN <<"", "opt", "libA.so">> ELSE <<"", "wrap.so">>]

\* /opt and /
SomeDirectories == [m \in {libA, wrap} |-> IF m = libA THEN <<"", "opt">> ELSE <<"", "">>]
=============================================================================
