SPECIFICATION FairSpec
CONSTANTS
    entry = entry
    lib = lib
    other = other
    w1 = w1
    w2 = w2
    None = None
    Files = {entry, lib, other}
    Workspaces = {w1, w2}
    Entries <- MCEntries
    Imports <- MCImports
    Faulty <- MCFaulty
    Threads = {t1, t2}
    FailAt = {"entries"}
    MaxEdits = 2
    MaxCloses = 0
INVARIANTS
    SourceCurrent
    MissingWasCleared
PROPERTIES
    CompilesEnd
CHECK_DEADLOCK FALSE
