SPECIFICATION BuildSpec
CONSTANTS
    Pkgs = {p, q}
    External = {q}
    None = None
    Procs = {p1, p2}
    Versions = {v1, v2}
    Partial = Partial
    MaxRuns = 2
    MaxEdits = 1
    MaxStops = 1
    Threads = {t1, t2}
    MaxCalls = 3
INVARIANTS Coherent LinksWhatItParsed ReportsOwnPanic
PROPERTIES RunsEnd
CHECK_DEADLOCK FALSE
