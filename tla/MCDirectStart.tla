---------------------------- MODULE MCDirectStart ----------------------------
(***************************************************************************)
(* Instances of DirectStart for TLC: command lines of up to MaxArgs words, *)
(* and files that need up to three libraries, some of them damaged.        *)
(***************************************************************************)
EXTENDS DirectStart

CONSTANTS MaxArgs

SomeWords == {"prog", "--help", "--list", "--verify", "--argv0", "--preload", "--inhibit-cache", "-x"}

DashWords == {"-x"}

CommandLines == {<<"ld.so">> \o s : s \in UNION {[1 .. n -> SomeWords] : n \in 0 .. MaxArgs}}

\* With an environment and a long auxiliary vector, or without.
Surroundings ==
    {<<<<>>, <<<<"AT_PAGESZ", "4096">>>>>>,
     <<<<"A=1", "B=2">>,
       <<<<"AT_BASE", Zero>>, <<"AT_EXECFN", "ld.so">>, <<"AT_SECURE", Zero>>, <<"AT_PHDR", "ld.so phdr">>>>>>}

SomeEnvironments == {s[1] : s \in Surroundings}

SomeAuxVectors == {s[2] : s \in Surroundings}

ExecutableAux ==
    [kind \in {"AT_PHDR", "AT_PHENT", "AT_PHNUM", "AT_BASE", "AT_ENTRY", "AT_EXECFN"} |-> "new"]
-----------------------------------------------------------------------------
(* Object files, from the list of names that the link editor was given.    *)

libm == <<"m">>

libcm == <<"c", "m">>

NameLists == {<<>>, <<libcm>>, <<libm, libcm>>, <<libcm, libm, libcm>>}

\* The string table: NUL once or twice, then "cm" and "m", which is the end of "cm".
Strings(pad) == [k \in 1 .. pad |-> NUL] \o <<"c", "m", NUL>>

OffsetIn(name, pad) == IF name = libcm THEN pad ELSE pad + 1

\* The string table at the offset 3 and the dynamic section behind it, in a segment
\* that is mapped elsewhere; an entry behind DT_NULL is no entry.
Object(names, pad) ==
    LET dyn == [k \in DOMAIN names |-> <<"NEEDED", OffsetIn(names[k], pad)>>]
               \o <<<<"STRTAB", 101>>, <<"STRSZ", pad + 3>>, <<"NULL", 0>>, <<"NEEDED", 1>>>>
    IN  [ident |-> "elf64 x86_64",
         phnum |-> 3,
         phdrs |-> <<[type |-> "LOAD", offset |-> 0, vaddr |-> 0, filesz |-> 2],
                     [type |-> "LOAD", offset |-> 2, vaddr |-> 100, filesz |-> 20],
                     [type |-> "DYNAMIC", offset |-> 6 + pad, vaddr |-> 104 + pad,
                      filesz |-> Len(dyn)]>>,
         cells |-> <<NUL, NUL>> \o Strings(pad) \o dyn,
         names |-> names]

\* Files that are none, or end before their headers or their dynamic section do.
Damaged ==
    LET o == [Object(<<libm>>, 1) EXCEPT !.names = NoFile]
    IN  {[o EXCEPT !.ident = "other"],
         [o EXCEPT !.phnum = 4],
         [o EXCEPT !.phdrs[3].filesz = 0],
         [o EXCEPT !.phdrs[2].type = "OTHER"],
         [o EXCEPT !.cells = SubSeq(@, 1, 7)]}

ObjectFiles ==
    {Object(names, 1) : names \in NameLists} \cup {Object(<<libm, libcm>>, 2)} \cup Damaged

\* verify and list succeed for a sound object only, and list prints the names of the
\* libraries that the object needs, in the order of the dynamic section, as far as
\* its table goes, unless the file was replaced or could not be read any more.
ListsNeeded ==
    step = "ok" =>
        /\ seen.names # NoFile
        /\ (listing /\ opened = seen /\ ~ cut) => printed = Upto(seen.names, MaxNeeded)

\* ... whatever happened to the file: not so, since it is opened twice and a read
\* that fails only ends the name.
ListsOneFile ==
    (step = "ok" /\ listing) =>
        \E f \in {seen, opened} : f.names # NoFile /\ printed = Upto(f.names, MaxNeeded)
=============================================================================
