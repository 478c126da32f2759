\* A constructor opens its own library again, with flags.
SPECIFICATION Spec
CONSTANTS
    Threads = {t1}
    NoOwner = NoOwner
    prog = prog
    libA = libA
    libB = libB
    Modules = {prog, libB}
    Preloaded = {prog}
    Main = prog
    Deps <- MCDeps
    Aliased = {}
    Apis <- CApi
    OpenFlagSets <- SomeFlags
    MaxFrames = 2
    MaxLeases = 1
    MaxAdds = 3
PROPERTIES FlagsKept
