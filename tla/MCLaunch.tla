------------------------------ MODULE MCLaunch ------------------------------
(***************************************************************************)
(* Launch for TLC: every command line with a static program that ends the  *)
(* startup early, every process of MCStartup with one command line.        *)
(***************************************************************************)
EXTENDS Launch, MCStartup, MCDirectStart

MCGiven(p) ==
    {[args |-> a, env |-> s[1], aux |-> s[2]] :
        a \in IF p.direct /\ p.static THEN CommandLines
              ELSE {<<"ld.so", "--argv0", "--help", "prog">>},
        s \in IF p.direct THEN Surroundings ELSE {CHOOSE s \in Surroundings : s[1] = <<>>}}

MCLaunchInit == Init /\ given \in MCGiven(proc) /\ DirectInit

MCLaunchSpec == MCLaunchInit /\ [][LaunchNext]_launchVars
=============================================================================
