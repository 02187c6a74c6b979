SPECIFICATION FairSpec
CONSTANTS
    MainThread = MainThread
    Workers = {c1, c2}
    None = None
INVARIANTS
    OnlyCloseAndFailure
PROPERTY
    MainReturnsOrCaught
CHECK_DEADLOCK FALSE
