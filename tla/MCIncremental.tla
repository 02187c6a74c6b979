--------------------------- MODULE MCIncremental ---------------------------
(* What the language server keeps from one compile to the next: the scopes   *)
(* of the resolver (ScopeCache) and the trees of the loader (ModuleLoader).  *)
(* A behaviour is about one of the two.                                      *)
EXTENDS ScopeCache, TLC

CONSTANTS main1, main2, ffile, gfile, hfile, pkg_p, pkg_q, root1, root2, w1, w2,
    LoadFiles, MAIN_PKG, MaxChanges, MaxLoads, MAX_SCAN_FILES
VARIABLES dir, texts, unreadable, entry, cache, result, changes, loads, left, added
-----------------------------------------------------------------------------
(* Scopes: two roots with a package of the same path; one workspace in each. *)
MCFiles == {main1, main2, ffile, gfile, hfile}
MCPkgs == {pkg_p, pkg_q}
MCRoots == {root1, root2}
MCPkgFiles == root1 :> (pkg_p :> {ffile} @@ pkg_q :> {gfile}) @@ root2 :> (pkg_p :> {} @@ pkg_q :> {hfile})
MCWorkspaces == {w1, w2}
MCRoot == w1 :> root1 @@ w2 :> root2
MCMain == w1 :> main1 @@ w2 :> main2
MCMayImport == main1 :> {{}, {pkg_p}} @@ main2 :> {{pkg_q}} @@ ffile :> {{}, {pkg_q}}
                   @@ gfile :> {{}} @@ hfile :> {{}}
MCImports0 ==
    {main1 :> imp @@ main2 :> {pkg_q} @@ ffile :> {pkg_q} @@ gfile :> {} @@ hfile :> {} :
        imp \in {{}, {pkg_p}}}
Symmetry == Permutations(Threads)
-----------------------------------------------------------------------------
(* Trees: three files and two packages, all graphs of imports; main1 is an   *)
(* entry, and may be in a package too.                                       *)
Load == INSTANCE ModuleLoader WITH Files <- LoadFiles, Main <- MAIN_PKG, imports <- texts
load_vars == <<dir, texts, unreadable, entry, cache, result, changes, loads, left, added>>

Dir(ps, qs) == pkg_p :> ps @@ pkg_q :> qs
Dirs == {Dir({ffile}, {gfile}), Dir({main1, ffile}, {gfile}), Dir({ffile, gfile}, {main1}), Dir({ffile}, {})}

LoadInit == (\E dirs \in Dirs : Load!Init(dirs, {main1})) \/ Load!Init(Dir({main1, ffile}, {gfile}), {main1, ffile})
-----------------------------------------------------------------------------
LoaderRuns == entry # {}
NoLoads == Load!Init(Dir({}, {}), {}) /\ texts = [f \in LoadFiles |-> {}]
NoCompiles == Init /\ imports[main1] = {} /\ poolq[1].ws = w1

MCInit == (Init /\ NoLoads) \/ (NoCompiles /\ LoadInit)
MCNext ==
    \/ ~LoaderRuns /\ Next /\ UNCHANGED load_vars
    \/ LoaderRuns /\ Load!Next /\ UNCHANGED vars

MCSpec == MCInit /\ [][MCNext]_<<vars, load_vars>>
-----------------------------------------------------------------------------
(* A load with a cache returns the program that one without returns: the     *)
(* files that the entries reach, their present imports, their packages, and  *)
(* full import paths, but for files that appeared in a directory, packages   *)
(* without files, and trees of loads that failed (ModuleLoader says of which *)
(* exactly; ModuleCache and get_deps in parser lib.rs).                      *)
IncrementalIsFresh == Load!IncrementalIsFresh

(* RecursiveLoad is reported exactly when a file of the program imports      *)
(* itself (toposort of the file graph, parser lib.rs).                       *)
CyclesReported == Load!CyclesReported
=============================================================================
