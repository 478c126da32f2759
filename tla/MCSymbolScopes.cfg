\* Three libraries opened, promoted and closed in every order.
SPECIFICATION DSpec
CONSTANTS
    prog = prog
    libc = libc
    libA = libA
    libB = libB
    wrap = wrap
    f = f
    g = g
    Modules = {prog, libc, libA, libB, wrap}
    Initial <- ProcessObjects
    Needed <- SomeNeeds
    Names = {f, g}
    Defines <- SomeDefinitions
    None = None
    RTLD_DEFAULT = RTLD_DEFAULT
    RTLD_NEXT = RTLD_NEXT
    Asked = {libA, wrap}
    MapAddresses = {a1, a2}
    NameAddresses = {n1, n2}
    NameOf <- SomePaths
    Directory <- SomeDirectories
    MaxCached = 1
    Null = Null
INVARIANTS WrappersReachAll HandleReaches OriginIsOwn
PROPERTIES DefaultStable
