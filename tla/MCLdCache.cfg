\* Every cache of up to three entries, and two searches in a changing system.  After
\* the calls nothing happens.
SPECIFICATION LSpec
CONSTANTS
    Names <- SomeNames
    NoName = NoName
    Paths <- SomePaths
    NoPath = NoPath
    MaxLibs = 3
    LaterLibs = 1
    Caches <- SomeCaches
    Worlds <- SomeWorlds
    NewDisks <- SomeDisks
    NewFiles <- Places
    NewEnvirons <- SomeEnvirons
    Defaults <- SomeDefaults
    Absent = Absent
    Damaged = Damaged
    Unset = Unset
CHECK_DEADLOCK FALSE
INVARIANTS Sound FindsFirst SearchFinds
PROPERTIES SearchEnds
