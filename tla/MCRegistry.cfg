\* Two threads, both APIs, a library with a dependency.
SPECIFICATION Spec
CONSTANTS
    Threads = {t1, t2}
    NoOwner = NoOwner
    prog = prog
    libA = libA
    libB = libB
    Modules = {prog, libA, libB}
    Preloaded = {prog}
    Main = prog
    Deps <- MCDeps
    Aliased = {}
    Apis <- BothApis
    OpenFlagSets <- NoFlags
    MaxFrames = 2
    MaxLeases = 1
    MaxAdds = 3
SYMMETRY ThreadSymmetry
INVARIANTS LeaseConservation LoadedIsHeld FramesStayLoaded CountersMatch
PROPERTIES UsesReentrantLock
