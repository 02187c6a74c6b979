SPECIFICATION MCSpec
CONSTANTS
    main1 = main1
    main2 = main2
    ffile = ffile
    gfile = gfile
    hfile = hfile
    pkg_p = pkg_p
    pkg_q = pkg_q
    root1 = root1
    root2 = root2
    w1 = w1
    w2 = w2
    Files <- MCFiles
    Pkgs <- MCPkgs
    Roots <- MCRoots
    PkgFiles <- MCPkgFiles
    Workspaces <- MCWorkspaces
    Root <- MCRoot
    Main <- MCMain
    MayImport <- MCMayImport
    Imports0 <- MCImports0
    Threads = {t1, t2}
    None = None
    MaxEdits = 3
    MaxWaiting = 0
    MaxOverlaps = 1
    LoadFiles = {main1, ffile, gfile}
    MAIN_PKG = MAIN_PKG
    MaxChanges = 2
    MaxLoads = 2
    MAX_SCAN_FILES = 2
SYMMETRY Symmetry
CHECK_DEADLOCK FALSE
INVARIANTS
    ScopesOfRoot
    StaleHasReason
    IncrementalIsFresh
    CyclesReported
