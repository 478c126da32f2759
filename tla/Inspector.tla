------------------------------ MODULE Inspector ------------------------------
(***************************************************************************)
(* --verify and --list of ld.so (cli.rs): an object file is opened and its *)
(* headers and dynamic section are read into tables of fixed size; --list  *)
(* then opens the file again and prints the strings that the DT_NEEDED     *)
(* entries name.                                                           *)
(*                                                                         *)
(* A file is a header, a number of program headers and those the file is   *)
(* long enough to have, and cells at the offsets 1 .. Len(cells): a cell   *)
(* is a dynamic entry <<tag, value>> or a character of the string table.   *)
(***************************************************************************)
EXTENDS Integers, Sequences, SequencesExt

CONSTANTS Files,      \* the files that the path may name
          NoFile,     \* there is none, or it may not be opened
          MaxPhdrs, MaxLoads, MaxNeeded, MaxDyn,
          NUL         \* the character that ends a string

VARIABLES step,      \* "idle", "inspect", "reopen", "print", "ok", "failed"
          listing,   \* --list, not --verify
          seen,      \* the file that was inspected
          opened,    \* the file that was opened last
          info,      \* ElfInfo
          printed,   \* the strings printed
          cut        \* a string was not printed to its end: a read failed

inspectVars == <<step, listing, seen, opened, info, printed, cut>>

NoInfo == [needed |-> <<>>, strtab |-> 0, size |-> 0]

InspectorInit ==
    /\ step = "idle"
    /\ listing = FALSE
    /\ seen = NoFile
    /\ opened = NoFile
    /\ info = NoInfo
    /\ printed = <<>>
    /\ cut = FALSE
-----------------------------------------------------------------------------
(* inspect_fd *)

Upto(s, n) == IF Len(s) <= n THEN s ELSE SubSeq(s, 1, n)

LoadsOf(f) == Upto(SelectSeq(f.phdrs, LAMBDA p : p.type = "LOAD"), MaxLoads)

DynamicsOf(f) == SelectSeq(f.phdrs, LAMBDA p : p.type = "DYNAMIC")

HeaderOK(f) ==
    /\ f.ident = "elf64 x86_64"
    /\ f.phnum \in 1 .. MaxPhdrs
    /\ f.phnum <= Len(f.phdrs)

\* Where reading the dynamic section d stops: at a DT_NULL, at the end of the file, or
\* at the end of the section or of what is looked at of it.
ScanEnd(f, d) ==
    CHOOSE k \in 0 .. MaxDyn :
        /\ k = MaxDyn \/ k = d.filesz \/ d.offset + k \notin DOMAIN f.cells
           \/ f.cells[d.offset + k][1] = "NULL"
        /\ k <= d.filesz
        /\ \A j \in 0 .. k - 1 :
             d.offset + j \in DOMAIN f.cells /\ f.cells[d.offset + j][1] # "NULL"

Truncated(f, d) ==
    LET k == ScanEnd(f, d)
    IN  k < MaxDyn /\ k < d.filesz /\ d.offset + k \notin DOMAIN f.cells

Entries(f, d) == SubSeq(f.cells, d.offset, d.offset + ScanEnd(f, d) - 1)

\* The value of the last entry with the tag, 0 if there is none.
ValueOf(entries, tag) ==
    LET hits == SelectSeq(entries, LAMBDA e : e[1] = tag)
    IN  IF hits = <<>> THEN 0 ELSE Last(hits)[2]

\* vaddr_to_offset: the offset behind the first segment whose part of the file has v.
Covering(loads, v) == {k \in DOMAIN loads : loads[k].vaddr <= v /\ v - loads[k].vaddr < loads[k].filesz}

vaddr_to_offset(loads, v) ==
    LET k == CHOOSE j \in Covering(loads, v) : \A i \in Covering(loads, v) : j <= i
    IN  loads[k].offset + v - loads[k].vaddr

\* inspect_fd succeeds.
Inspectable(f) ==
    /\ HeaderOK(f)
    /\ DynamicsOf(f) # <<>>
    /\ LET d == Last(DynamicsOf(f))
           e == Entries(f, d)
       IN  /\ d.offset # 0 /\ d.filesz # 0
           /\ ~ Truncated(f, d)
           /\ ValueOf(e, "STRTAB") # 0
           /\ ValueOf(e, "STRSZ") # 0
           /\ Covering(LoadsOf(f), ValueOf(e, "STRTAB")) # {}

\* Mutant: the string table is where it will be mapped.
MutantInspectFd(f) ==
    LET e == Entries(f, Last(DynamicsOf(f)))
        needed == SelectSeq(e, LAMBDA x : x[1] = "NEEDED")
    IN  [needed |-> Upto([k \in DOMAIN needed |-> needed[k][2]], MaxNeeded),
         strtab |-> ValueOf(e, "STRTAB"),
         size   |-> ValueOf(e, "STRSZ")]

\* ... with the offsets of the names, the string table's offset and its size.
inspect_fd(f) ==
    LET e == Entries(f, Last(DynamicsOf(f)))
        needed == SelectSeq(e, LAMBDA x : x[1] = "NEEDED")
    IN  [needed |-> Upto([k \in DOMAIN needed |-> needed[k][2]], MaxNeeded),
         strtab |-> vaddr_to_offset(LoadsOf(f), ValueOf(e, "STRTAB")),
         size   |-> ValueOf(e, "STRSZ")]

\* print_string_from_file: up to a NUL, the end of the file, or the limit.
string_at(f, offset, limit) ==
    LET n == CHOOSE n \in 0 .. limit :
               /\ n = limit \/ offset + n \notin DOMAIN f.cells \/ f.cells[offset + n] = NUL
               /\ \A j \in 0 .. n - 1 : offset + j \in DOMAIN f.cells /\ f.cells[offset + j] # NUL
    IN  SubSeq(f.cells, offset, offset + n - 1)
-----------------------------------------------------------------------------
\* inspect opens the file.
StartInspect(isList) ==
    /\ step = "idle"
    /\ \E f \in Files \cup {NoFile} :
         /\ seen' = f
         /\ opened' = f
         /\ step' = IF f = NoFile THEN "failed" ELSE "inspect"
    /\ listing' = isList
    /\ UNCHANGED <<info, printed, cut>>

\* inspect_fd and close; a read that fails ends it too.
InspectFile ==
    /\ step = "inspect"
    /\ \/ step' = "failed" /\ UNCHANGED info
       \/ /\ Inspectable(opened)
          /\ info' = inspect_fd(opened)
          /\ step' = IF listing THEN "reopen" ELSE "ok"
    /\ UNCHANGED <<listing, seen, opened, printed, cut>>

\* list opens the path again: the same file, unless it was replaced meanwhile.
Reopen ==
    /\ step = "reopen"
    /\ \E f \in Files \cup {NoFile} :
         /\ opened' = f
         /\ step' = IF f = NoFile THEN "failed" ELSE "print"
    /\ UNCHANGED <<listing, seen, info, printed, cut>>

\* The next name, or what was read of it before a read failed.
PrintName ==
    /\ step = "print"
    /\ Len(printed) < Len(info.needed)
    /\ LET name == string_at(opened, info.strtab + info.needed[Len(printed) + 1], info.size)
       IN  \E n \in 0 .. Len(name) :
             /\ printed' = Append(printed, SubSeq(name, 1, n))
             /\ cut' = (cut \/ n < Len(name))
    /\ UNCHANGED <<step, listing, seen, opened, info>>

\* The loader's own name, and close.
EndList ==
    /\ step = "print"
    /\ Len(printed) = Len(info.needed)
    /\ step' = "ok"
    /\ UNCHANGED <<listing, seen, opened, info, printed, cut>>

InspectStep == InspectFile \/ Reopen \/ PrintName \/ EndList
=============================================================================
