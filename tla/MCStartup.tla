------------------------------ MODULE MCStartup ------------------------------
(***************************************************************************)
(* Startup with a C library that needs the loader, one more library and a  *)
(* plug-in that is only opened later.  Programs need nothing, the loader   *)
(* alone, or the libraries in both orders.                                 *)
(***************************************************************************)
EXTENDS Startup

CONSTANTS libc, liba, plug, ldso, prog

MCLibs == {libc, liba, plug}

\* The DT_NEEDED entries of the libraries, with those of the program.
NeededBy(entries) ==
    [o \in MCLibs \cup {ldso, prog} |->
        CASE o = prog -> entries
          [] o = libc -> <<ldso>>
          [] o = liba -> <<libc, ldso>>
          [] OTHER -> <<>>]

Process(direct, static, secure, tls, entry, open, dyn, entries) ==
    [direct |-> direct, static |-> static, secure |-> secure, tls |-> tls, entry |-> entry,
     fds |-> open, dyn |-> dyn, needed |-> NeededBy(entries)]

NeededLists == {<<ldso>>, <<libc>>, <<liba>>, <<liba, libc>>, <<libc, liba>>,
                <<ldso, liba>>}

\* Programs with dependencies, started directly or by the kernel; secure ones with every
\* set of open descriptors; programs without dependencies, with different dynamic
\* sections; static programs, started directly or by the kernel.
MCProcesses ==
    {Process(d, FALSE, FALSE, FALSE, TRUE, StdFds, {"NEEDED", "RELA"}, e) :
        d \in BOOLEAN, e \in NeededLists}
    \cup {Process(FALSE, FALSE, TRUE, FALSE, TRUE, open, {"NEEDED", "JMPREL"}, <<liba>>) :
        open \in SUBSET StdFds}
    \cup {Process(FALSE, FALSE, FALSE, t, e, StdFds, dyn, <<>>) :
        t \in BOOLEAN, e \in BOOLEAN, dyn \in {{}, {"INIT"}, {"MALFORMED"}}}
    \cup {Process(d, TRUE, FALSE, FALSE, TRUE, StdFds, Null, <<>>) : d \in BOOLEAN}

=============================================================================
