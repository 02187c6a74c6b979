SPECIFICATION FairSpec
CONSTANTS
    r1 = r1
    r2 = r2
    r3 = r3
    r4 = r4
    Requests = {r1, r2, r3, r4}
    Threads = {t1, t2}
    Method <- MCMethod
    RetryCap = 1
INVARIANTS
    AtMostOneResponse
PROPERTIES
    ImplementsContract
    EventuallyAnswered
CHECK_DEADLOCK FALSE
