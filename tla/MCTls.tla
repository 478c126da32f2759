-------------------------------- MODULE MCTls --------------------------------
(***************************************************************************)
(* Instances of Tls for TLC.  Sizes are scaled down: an arena of 24 bytes, *)
(* an rseq area of 2 and alignments up to 4.                               *)
(***************************************************************************)
EXTENDS Tls

Info(memsz, align, vaddr) == [memsz |-> memsz, align |-> align, vaddr |-> vaddr]

\* Alignment 0 and alignments that are no power of two, p_vaddr off the alignment,
\* an empty block, and one that does not fit into the arena beside another.
StartupInfos ==
    {Info(2, 3, 3), Info(0, 0, 0), Info(13, 2, 1)}
=============================================================================
