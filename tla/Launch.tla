------------------------------- MODULE Launch -------------------------------
(***************************************************************************)
(* A whole run of the loader: Startup, and DirectStart for a process that  *)
(* was started as a command (run, prepare_direct_exec of                   *)
(* bootstrap/startup.rs).  The command line is read and the stack          *)
(* rewritten when the loader has relocated itself, before it publishes     *)
(* anything; the auxiliary vector is patched when the program is mapped.   *)
(***************************************************************************)
EXTENDS Startup, DirectStart

launchVars == <<vars, directVars>>

LaunchInit == Init /\ DirectInit

\* The loader relocates itself, or fails to; a direct process then reads its command line
\* first.
Begin ==
    /\ Bootstrap
    /\ proc.direct => IF pc' = "exit" THEN stage = "options" /\ index = 1 ELSE stage = "load"
    /\ UNCHANGED directVars

\* handle_direct_invocation and rewrite_for_program
CommandLine ==
    /\ proc.direct /\ pc = "start"
    /\ ReadCommandLine
    /\ UNCHANGED vars

\* The descriptors are checked and the loader registered.  A failure ends the process.
Prepare ==
    /\ CheckStandardFd \/ RegisterRtld
    /\ IF proc.direct /\ pc' = "exit" THEN LoadFails ELSE UNCHANGED directVars

\* prepare_kernel_mapped_main, or prepare_direct_exec with patch_auxv
PrepareMain ==
    /\ MapMain
    /\ IF ~ proc.direct THEN UNCHANGED directVars
       ELSE IF pc' = "exit" THEN LoadFails ELSE LoadExec

\* The program is linked and runs.
Proceed == LinkAndRun /\ UNCHANGED directVars

\* The command has done what it was asked for, or was refused.
CommandEnds == stage = "exit" /\ pc = "start" /\ UNCHANGED launchVars

LaunchNext == Begin \/ CommandLine \/ Prepare \/ PrepareMain \/ Proceed \/ CommandEnds

LaunchSpec == LaunchInit /\ [][LaunchNext]_launchVars
=============================================================================
