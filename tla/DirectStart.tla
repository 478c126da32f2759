----------------------------- MODULE DirectStart -----------------------------
(***************************************************************************)
(* ld.so run as a command, `ld.so [OPTION]... EXECUTABLE [ARG]...`: the    *)
(* options are read from the initial stack (cli.rs), the stack is then     *)
(* rewritten in place so that it looks as if the kernel had started the    *)
(* executable (bootstrap/stack.rs), and the auxiliary vector is patched    *)
(* once the executable is loaded (bootstrap/startup.rs).  --verify and     *)
(* --list run the Inspector instead.                                       *)
(*                                                                         *)
(* The stack holds words: argc, the argument pointers, a null word, the    *)
(* environment, a null word, pairs of the auxiliary vector, a pair that    *)
(* begins with AT_NULL, which is the null word.  A pointer to a string is  *)
(* the string.                                                             *)
(***************************************************************************)
EXTENDS Inspector

CONSTANTS Zero,         \* the word 0
          ArgLists,     \* the argument lists, argv[0] included
          Environments, \* environments
          AuxVectors,   \* sequences of <<kind, value>>
          Unrecognized, \* all other words in them that begin with a dash
          NewAux        \* NewAux[kind]: what patch_auxv writes

Informing == {"--help", "--version", "--list-diagnostics", "--list-tunables"}

Inspecting == {"--verify", "--list"}

\* consumes_value: accepted with a value, and otherwise ignored.
Consuming == {"--library-path", "--preload", "--audit", "--glibc-hwcaps-prepend",
              "--glibc-hwcaps-mask", "--inhibit-rpath"}

Recognized == Informing \cup Inspecting \cup Consuming \cup {"--argv0", "--inhibit-cache"}

Options == Recognized \cup Unrecognized

Patched == DOMAIN NewAux

ASSUME DirectAssumption ==
    /\ \A args \in ArgLists :
         args \in Seq(STRING) /\ args # <<>> /\ \A k \in DOMAIN args : args[k] # Zero
    /\ \A env \in Environments :
         env \in Seq(STRING) /\ \A k \in DOMAIN env : env[k] # Zero
    /\ \A aux \in AuxVectors :
         aux \in Seq(STRING \X (STRING \cup {Zero})) /\ \A k \in DOMAIN aux : aux[k][1] # Zero
    /\ "AT_EXECFN" \in Patched
    /\ Recognized \cap Unrecognized = {}

VARIABLES mem,       \* the words of the initial stack; raw is address 0
          given,     \* what the kernel put there: args, env and aux
          stage,     \* "options", "inspect", "shift", "load", "run", "exit"
          index,     \* handle_direct_invocation: the argument that is looked at
          argv0,     \* the value of --argv0, or Zero
          moved,     \* rewrite_for_program: the words copied so far
          count,     \* ... of how many
          process,   \* the ProcessStack: argc, argv, envp, auxv, exec_path
          status     \* the exit status

stackVars == <<mem, given, stage, index, argv0, moved, count, process, status>>

directVars == <<stackVars, inspectVars>>

\* The words of an auxiliary vector, without the last pair.
PairWords(aux) ==
    [k \in 1 .. 2 * Len(aux) |-> IF k % 2 = 1 THEN aux[(k + 1) \div 2][1] ELSE aux[k \div 2][2]]

\* The stack the kernel builds.
Layout(args, env, aux) ==
    <<Len(args)>> \o args \o <<Zero>> \o env \o <<Zero>> \o PairWords(aux) \o <<Zero, Zero>>

word(p) == mem[p + 1]

\* The first null word at or behind p.
ZeroAt(p) ==
    CHOOSE q \in p .. Len(mem) - 1 : word(q) = Zero /\ \A r \in p .. q - 1 : word(r) # Zero

\* The pairs of the auxiliary vector at p that are in front of AT_NULL.
AuxCount(p) ==
    CHOOSE n \in 0 .. Len(mem) :
        /\ p + 2 * n < Len(mem) /\ word(p + 2 * n) = Zero
        /\ \A i \in 0 .. n - 1 : word(p + 2 * i) # Zero

\* The AT_NULL pair.
AuxEnd(p) == p + 2 * AuxCount(p)

\* Where the auxiliary vector is if there are n arguments.
AuxAt(n) == ZeroAt(n + 2) + 1

NoProcess == [argc |-> 0, auxv |-> 0, exec_path |-> Zero]

\* InitialStack::parse has found argc, argv, envp and auxv.
DirectInit ==
    /\ given \in [args : ArgLists, env : Environments, aux : AuxVectors]
    /\ mem = Layout(given.args, given.env, given.aux)
    /\ stage = "options"
    /\ index = 1
    /\ argv0 = Zero
    /\ moved = 0
    /\ count = 0
    /\ process = NoProcess
    /\ status = 0
    /\ InspectorInit

argc == word(0)

\* Nothing is inspected.
Exit(s) ==
    /\ stage' = "exit"
    /\ status' = s
    /\ UNCHANGED <<mem, given, index, argv0, moved, count, process, inspectVars>>

\* An argument is looked at.
Looks == stage = "options" /\ index < argc

arg == word(1 + index)

\* option_value
HasValue == index + 1 < argc

\* No argument, or options only: the help is printed.
NoProgram ==
    /\ stage = "options"
    /\ index >= argc
    /\ Exit(0)

Inform ==
    /\ Looks
    /\ arg \in Informing
    /\ Exit(0)

\* verify or list begins, ...
Inspect ==
    /\ Looks
    /\ arg \in Inspecting
    /\ HasValue
    /\ StartInspect(arg = "--list")
    /\ stage' = "inspect"
    /\ UNCHANGED <<mem, given, index, argv0, moved, count, process, status>>

\* ... goes on, ...
KeepInspecting ==
    /\ stage = "inspect"
    /\ InspectStep
    /\ UNCHANGED stackVars

\* ... and ends with what it returned as the exit status.
Inspected ==
    /\ stage = "inspect"
    /\ step \in {"ok", "failed"}
    /\ Exit(IF step = "ok" THEN 0 ELSE 1)

MissingValue ==
    /\ Looks
    /\ arg \in Inspecting \cup Consuming \cup {"--argv0"}
    /\ ~ HasValue
    /\ Exit(1)

Unknown ==
    /\ Looks
    /\ arg \in Unrecognized
    /\ Exit(1)

SetArgv0 ==
    /\ Looks
    /\ arg = "--argv0"
    /\ HasValue
    /\ argv0' = word(1 + index + 1)
    /\ index' = index + 2
    /\ UNCHANGED <<mem, given, stage, moved, count, process, status, inspectVars>>

SkipOption ==
    /\ Looks
    /\ \/ arg \in Consuming /\ HasValue /\ index' = index + 2
       \/ arg = "--inhibit-cache" /\ index' = index + 1
    /\ UNCHANGED <<mem, given, stage, argv0, moved, count, process, status, inspectVars>>

\* The executable: everything from here to the end of the auxiliary vector moves to
\* the place of argv[0].
Program ==
    /\ Looks
    /\ arg \notin Options
    /\ count' = AuxEnd(AuxAt(argc)) + 2 - (1 + index)
    /\ stage' = "shift"
    /\ UNCHANGED <<mem, given, index, argv0, moved, process, status, inspectVars>>

\* Mutant: the last word is moved first.
MutantShift ==
    /\ stage = "shift"
    /\ moved < count
    /\ mem' = [mem EXCEPT ![1 + count - moved] = word(index + count - moved)]
    /\ moved' = moved + 1
    /\ UNCHANGED <<given, stage, index, argv0, count, process, status, inspectVars>>

\* One word is moved; source and destination overlap.
Shift ==
    /\ stage = "shift"
    /\ moved < count
    /\ mem' = [mem EXCEPT ![1 + 1 + moved] = word(1 + index + moved)]
    /\ moved' = moved + 1
    /\ UNCHANGED <<given, stage, index, argv0, count, process, status, inspectVars>>

\* argc is written, the path of the executable kept, argv[0] replaced, and the
\* environment and the auxiliary vector found again.
Shifted ==
    /\ stage = "shift"
    /\ moved = count
    /\ LET n == argc - index
       IN  /\ mem' = [mem EXCEPT ![1] = n, ![2] = IF argv0 = Zero THEN @ ELSE argv0]
           /\ process' = [argc |-> n, auxv |-> AuxAt(n), exec_path |-> word(1)]
    /\ stage' = "load"
    /\ UNCHANGED <<given, index, argv0, moved, count, status, inspectVars>>

\* load_exec, or a step of the startup before it, fails.
LoadFails ==
    /\ stage = "load"
    /\ Exit(127)

\* The executable is loaded; patch_auxv describes it to the executable.
LoadExec ==
    /\ stage = "load"
    /\ LET kinds == {process.auxv + 2 * i : i \in 0 .. AuxCount(process.auxv) - 1}
       IN  mem' = [k \in DOMAIN mem |->
                     IF k - 2 \in kinds /\ word(k - 2) \in Patched
                     THEN IF word(k - 2) = "AT_EXECFN" THEN process.exec_path
                          ELSE NewAux[word(k - 2)]
                     ELSE mem[k]]
    /\ stage' = "run"
    /\ UNCHANGED <<given, index, argv0, moved, count, process, status, inspectVars>>

\* Up to the stack that is left to the executable.
ReadCommandLine ==
    \/ NoProgram \/ Inform \/ Inspect \/ KeepInspecting \/ Inspected \/ MissingValue
    \/ Unknown \/ SetArgv0 \/ SkipOption \/ Program \/ Shift \/ Shifted

DirectNext == ReadCommandLine \/ LoadFails \/ LoadExec

DirectSpec == DirectInit /\ [][DirectNext]_directVars
-----------------------------------------------------------------------------
StackTypeOK ==
    /\ Len(mem) = Len(Layout(given.args, given.env, given.aux))
    /\ stage \in {"options", "inspect", "shift", "load", "run", "exit"}
    /\ index \in 1 .. Len(given.args)
    /\ moved \in 0 .. count
    /\ count \in 0 .. Len(mem)
    /\ status \in {0, 1, 127}

\* The words from address a up to address b.
Words(a, b) == [k \in 1 .. b - a |-> word(a + k - 1)]

\* The auxiliary vector of the executable.
NewPair(pair, path) ==
    <<pair[1], IF pair[1] = "AT_EXECFN" THEN path
               ELSE IF pair[1] \in Patched THEN NewAux[pair[1]] ELSE pair[2]>>

\* The state is well typed, and the executable finds the stack that the kernel
\* would have built for it: its own arguments (with argv[0] as --argv0 says), the
\* same environment, and the same auxiliary vector except for the entries that
\* describe the executable.  The path loaded is the one named on the command line.
StackAsIfStarted ==
    StackTypeOK /\ (stage = "run" =>
      LET path == given.args[index + 1]
          rest == SubSeq(given.args, index + 1, Len(given.args))
          args == IF argv0 = Zero THEN rest ELSE <<argv0>> \o Tail(rest)
          new  == [k \in DOMAIN given.aux |-> NewPair(given.aux[k], path)]
          want == Layout(args, given.env, new)
      IN  process.exec_path = path /\ Words(0, Len(want)) = want)

\* The options at the places `starts`, each followed by the value that it takes, are
\* the arguments from the second to the one at the place `last`.
OptionsAt(args, starts, last) ==
    /\ starts \subseteq 2 .. last
    /\ last >= 2 => 2 \in starts
    /\ \A k \in starts :
         \/ args[k] = "--inhibit-cache" /\ (k + 1 \in starts \/ k = last)
         \/ /\ args[k] \in Consuming \cup {"--argv0"}
            /\ k + 1 \in (2 .. last) \ starts
            /\ k + 2 \in starts \/ k + 1 = last

\* What they say argv[0] is: the value of the last --argv0, Zero without one.
Argv0At(args, starts, value) ==
    LET named == {k \in starts : args[k] = "--argv0"}
    IN  IF named = {} THEN value = Zero
        ELSE \E k \in named : value = args[k + 1] /\ \A j \in named : j <= k

\* An executable is started only after a command line that is complete: the words
\* before it are options, each followed by the value that it takes, and what --argv0
\* said last is its argv[0].
OptionsPrecede ==
    stage \in {"shift", "load", "run"} =>
      /\ given.args[index + 1] \notin Options
      /\ \E starts \in SUBSET (2 .. index) :
           OptionsAt(given.args, starts, index) /\ Argv0At(given.args, starts, argv0)

\* The executable that runs is the first word behind the options, and it finds the
\* stack as if the kernel had started it with the words from there on.
StartedAsAsked == OptionsPrecede /\ StackAsIfStarted
=============================================================================
