SPECIFICATION Spec
CONSTANTS
    entry = entry
    lib = lib
    other = other
    w1 = w1
    w2 = w2
    None = None
    Files = {entry, lib, other}
    Workspaces = {w1, w2}
    Entries <- MCEntries
    Imports <- MCImports
    Faulty <- MCFaulty
    Threads = {t1, t2}
    FailAt = {"clear", "publish"}
    MaxEdits = 2
    MaxCloses = 1
SYMMETRY Symmetry
INVARIANTS
    DbSettles
    EntryDiagsSettle
CHECK_DEADLOCK FALSE
