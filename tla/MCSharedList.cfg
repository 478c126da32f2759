\* The host's linker appends to the list too.
SPECIFICATION SharedSpec
CONSTANTS
    prog = prog
    vdso = vdso
    crypt = crypt
    libc = libc
    libc2 = libc2
    odd = odd
    Own = {m1, m2, m3, m4, m5, m6, m7, m8}
    First <- HostMaps
    Null = Null
    Idle = Idle
    Processes <- SomeProcesses
    Dynamics <- DynamicSections
    Version <- Versions
    Objects <- HostObjects
    libc_compat_aliases <- SomeAliases
    MaxLoaded = 2
CHECK_DEADLOCK FALSE
INVARIANTS AllListed
