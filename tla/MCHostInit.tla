----------------------------- MODULE MCHostInit -----------------------------
(***************************************************************************)
(* Instances of HostInit for TLC: a program, the vdso, a library with      *)
(* "libc" in its name, and libc, started in several ways.                  *)
(***************************************************************************)
EXTENDS HostInit

CONSTANTS prog, vdso, crypt, libc, libc2, odd

HostMaps == <<prog, vdso, crypt, libc>>

\* libc2 is the libc of another namespace, which glibc does not list; odd is an object
\* that from_raw makes nothing of.
HostObjects ==
    [o \in Host \cup {libc2, odd} |->
       [name |-> CASE o = prog -> "" [] o = vdso -> "linux-vdso" [] o = crypt -> "libc-like"
                   [] OTHER -> "libc",
        accepted |-> CASE o = odd -> {} [] o = crypt -> {"report"}
                       [] OTHER -> {"walk", "report"},
        key  |-> IF o = libc2 THEN libc ELSE o,
        base |-> CASE o = prog -> 100 [] o = crypt -> 200 [] o = libc -> 300 [] o = libc2 -> 400
                   [] o = odd -> 600 [] OTHER -> 500,
        symbols |-> CASE o = prog -> {"environ"}
                      [] o \in {libc, libc2} -> {"environ", "argc", "argv", Atexit, IteratePhdr}
                      [] OTHER -> {},
        dynamic |-> [STRTAB |-> 7, INIT |-> 20, RELACOUNT |-> 3, STRSZ |-> 90]]]

SomeAliases == [k \in Host \cup {odd} |-> IF k = libc THEN {"libdl", "libpthread"} ELSE {}]

Load == [type |-> "LOAD", vaddr |-> 0, offset |-> 0]

Phdr == [type |-> "PHDR", vaddr |-> 64, offset |-> 64]

Dyn(v) == [type |-> "DYNAMIC", vaddr |-> v, offset |-> v]

\* Programs with and without PT_PHDR and DT_DEBUG, and `ld.so program`, where the
\* kernel describes ld.so.
SomeProcesses ==
    {[phdr |-> 164, phdrs |-> <<Phdr, Load, Dyn(70)>>, base |-> Null, musl |-> FALSE,
      reported |-> HostMaps],
     [phdr |-> 164, phdrs |-> <<Load, Dyn(70)>>, base |-> 470, musl |-> TRUE,
      reported |-> HostMaps],
     [phdr |-> 164, phdrs |-> <<Load, Dyn(80)>>, base |-> 470, musl |-> FALSE,
      reported |-> HostMaps \o <<libc2>>],
     [phdr |-> 464, phdrs |-> <<Load, Dyn(80)>>, base |-> Null, musl |-> FALSE,
      reported |-> HostMaps],
     [phdr |-> 164, phdrs |-> <<Phdr, Dyn(70)>>, base |-> Null, musl |-> FALSE,
      reported |-> HostMaps \o <<odd>>]}

\* 170: the program's; 180: of a program that has no DT_DEBUG; 470: an interpreter's;
\* 480: ld.so's own, where r_debug is not entered.
DynamicSections ==
    [a \in {170, 180, 470, 480} |->
       CASE a = 170 -> <<<<"NEEDED", 1>>, <<"DEBUG", "r_debug">>>>
         [] a = 180 -> <<<<"NEEDED", 1>>>>
         [] a = 470 -> <<<<"DEBUG", Null>>, <<"DEBUG", "r_debug">>>>
         [] OTHER   -> <<<<"DEBUG", "unset">>>>]

Versions == [p \in {"r_debug", "unset"} |-> IF p = "unset" THEN 0 ELSE 1]
=============================================================================
