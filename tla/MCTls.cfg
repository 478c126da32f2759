\* Static modules come with the program and later.  All bounds may be reached.
SPECIFICATION Spec
CONSTANTS
    Main = Main
    Tcbs = {t1}
    Slots = 2
    Arena = 24
    RseqSize = 2
    RseqAlign = 2
    TcbAlign = 4
    MainAlign = 8
    Powers = {1, 2, 4}
    Infos <- StartupInfos
    Null = Null
    MaxModules = 3
    MaxBlocks = 2
CHECK_DEADLOCK FALSE
INVARIANTS LayoutSound DtvIsOwn BlocksOnce FitsStorage HasImages
