SPECIFICATION FairSpec
CONSTANTS
    a = a
    b = b
    c = c
    Tasks = {a, b, c}
    Order <- MCOrder
    Capacity = 2
    NoTask = NoTask
INVARIANTS
    AtMostCapacity
    EventsInOrder
    SendFailsOnlyAfterNotifyError
PROPERTY
    OthersReported
CHECK_DEADLOCK FALSE
