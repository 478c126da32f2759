\* A file that is replaced, or cannot be read any more, while --list looks at it.
SPECIFICATION DirectSpec
CONSTANTS
    Zero = Zero
    MaxArgs = 2
    ArgLists <- CommandLines
    Environments <- SomeEnvironments
    AuxVectors <- SomeAuxVectors
    Unrecognized <- DashWords
    NewAux <- ExecutableAux
    Files <- ObjectFiles
    NoFile = NoFile
    NUL = NUL
    MaxPhdrs = 4
    MaxLoads = 2
    MaxNeeded = 2
    MaxDyn = 5
CHECK_DEADLOCK FALSE
INVARIANTS ListsOneFile
