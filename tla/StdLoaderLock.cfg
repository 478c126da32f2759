\* Three threads: an owner, a waiter and a third thread that barges in between
\* the unlock and the wake-up.
SPECIFICATION FairSpec
CONSTANTS
    Threads = {t1, t2, t3}
    NoOwner = NoOwner
    MaxGuards = 2
INVARIANTS NoLostWakeup
PROPERTIES FreeLockIsTaken RefinesReentrantLock
