SPECIFICATION FairSpec
CONSTANTS
    Threads = {t1, t2}
    NoOwner = NoOwner
    MaxGuards = 1
PROPERTIES FreeLockIsTaken
