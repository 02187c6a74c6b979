SPECIFICATION Spec
CONSTANTS
    entry = entry
    lib = lib
    other = other
    w1 = w1
    w2 = w2
    None = None
    Files = {entry, lib}
    Workspaces = {w1}
    Entries <- MCEntriesOne
    Imports <- MCImportsOne
    Faulty <- MCFaulty
    Threads = {t1, t2}
    FailAt = {}
    MaxEdits = 2
    MaxCloses = 0
INVARIANT
    DbCurrent
CHECK_DEADLOCK FALSE
