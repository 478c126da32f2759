\* The list of the host is taken over, or, where r_debug is not found, the list is
\* empty at first as in the no_std build.  The process may be aborted.
SPECIFICATION HSpec
CONSTANTS
    prog = prog
    vdso = vdso
    crypt = crypt
    libc = libc
    libc2 = libc2
    odd = odd
    Own = {m1, m2, m3, m4, m5, m6, m7, m8}
    First <- HostMaps
    Null = Null
    Idle = Idle
    Processes <- SomeProcesses
    Dynamics <- DynamicSections
    Version <- Versions
    Objects <- HostObjects
    libc_compat_aliases <- SomeAliases
    MaxLoaded = 4
CHECK_DEADLOCK FALSE
INVARIANTS WellLinked LoadOrder HostRegistered
PROPERTIES RefinesLinkMapList
