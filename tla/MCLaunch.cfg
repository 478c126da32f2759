SPECIFICATION MCLaunchSpec
CONSTANTS
    ldso = ldso
    prog = prog
    libc = libc
    liba = liba
    plug = plug
    Rtld = ldso
    Prog = prog
    Libc = libc
    Null = Null
    Libs <- MCLibs
    Processes <- MCProcesses
    Zero = Zero
    MaxArgs = 4
    ArgLists <- CommandLines
    Environments <- SomeEnvironments
    AuxVectors <- SomeAuxVectors
    Unrecognized <- DashWords
    NewAux <- ExecutableAux
    Files <- ObjectFiles
    NoFile = NoFile
    NUL = NUL
    MaxPhdrs = 4
    MaxLoads = 2
    MaxNeeded = 2
    MaxDyn = 5
INVARIANTS DebuggerSeesAll DropsAreSafe ReadyForConstructors SecureDescriptors FiniMatchesInit StartedAsAsked ListsNeeded
