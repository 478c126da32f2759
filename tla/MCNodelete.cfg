\* A loaded library is opened by a new name, with RTLD_NODELETE.
SPECIFICATION Spec
CONSTANTS
    Threads = {t1}
    NoOwner = NoOwner
    prog = prog
    libA = libA
    libB = libB
    Modules = {prog, libB}
    Preloaded = {prog}
    Main = prog
    Deps <- MCDeps
    Aliased = {libB}
    Apis <- CApi
    OpenFlagSets <- SomeFlags
    MaxFrames = 2
    MaxLeases = 1
    MaxAdds = 3
INVARIANTS NodeleteObeyed
