\* Threads that come and go, in both builds.
SPECIFICATION Spec
CONSTANTS
    Threads = {t1, t2}
    Pointers = {p1, p2, p3}
    NoPointer = NoPointer
    None = None
    MaxErrors = 3
    MaxCalls = 2
INVARIANT AnswerIsOwn
