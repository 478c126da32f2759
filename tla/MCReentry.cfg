\* One thread, nested calls: constructors, finalizers and callbacks that open
\* and close libraries with and without RTLD_GLOBAL and RTLD_NODELETE.
SPECIFICATION FairSpec
CONSTANTS
    Threads = {t1}
    NoOwner = NoOwner
    prog = prog
    libA = libA
    libB = libB
    Modules = {prog, libA, libB}
    Preloaded = {prog}
    Main = prog
    Deps <- MCDeps
    Aliased = {libA}
    Apis <- CApi
    OpenFlagSets <- SomeFlags
    MaxFrames = 2
    MaxLeases = 1
    MaxAdds = 4
INVARIANTS GlobalLoaded FlagsHonoured
PROPERTIES LockIsReleased
