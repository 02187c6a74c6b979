SPECIFICATION Spec
CONSTANTS
    f1 = f1
    f2 = f2
    folder = folder
    found = found
    t1 = t1
    t2 = t2
    NoFile = NoFile
    Files = {f1, f2}
    Workspaces = {folder, found}
    Modules <- MCModules
    Lookup <- MCLookup
    Failing = {folder, found}
    Folders = {folder}
    Threads = {t1, t2}
    MaxClient = 4
    MaxTasks = 2
    MaxJobs = 2
SYMMETRY
    Symmetry
CONSTRAINT
    ShortQueues
INVARIANTS
    RecordedHasState
    PendingHasCompile
    BusyHasCompile
    OpenFileKnown
PROPERTIES
    PanicsOnlyOnClosed
CHECK_DEADLOCK FALSE
