SPECIFICATION Spec
CONSTANTS
    Threads = {t1, t2, t3}
    NoOwner = NoOwner
    MaxGuards = 2
PROPERTIES RefinesReentrantLock
