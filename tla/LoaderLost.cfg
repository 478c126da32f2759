SPECIFICATION Spec
CONSTANTS
    ldso = ldso
    prog = prog
    libc = libc
    liba = liba
    plug = plug
    Rtld = ldso
    Prog = prog
    Libc = libc
    Null = Null
    Libs <- MCLibs
    Processes <- MCProcesses
INVARIANT LoaderListedOnce
