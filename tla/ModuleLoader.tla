---------------------------- MODULE ModuleLoader ----------------------------
(* The loader of the parser: a search from the entry files through the       *)
(* imports, with a module cache that outlives the loads of a language server.*)
(* A load is one step here; loads that share the cache at the same time are  *)
(* the subject of LspCompile.                                                *)
EXTENDS Naturals, FiniteSets, FiniteSetsExt

CONSTANTS
    Files,      \* paths of k files
    Pkgs,       \* package paths
    Main,       \* MAIN_PKG
    None,
    MaxChanges, \* edits, new files and broken files
    MaxLoads,
    MAX_SCAN_FILES

VARIABLES
    dir,        \* the files in the directory of each package
    imports,    \* the packages that the text of each file imports
    unreadable, \* files that cannot be read
    entry,      \* the files of the main package
    cache,      \* the module cache
    result,     \* what the last load returned
    changes, loads,
    left,       \* history: files whose trees are from a load that failed
    added       \* history: files that appeared in a directory

vars == <<dir, imports, unreadable, entry, cache, result, changes, loads, left, added>>

PkgFile == [path : Files, pkg : Pkgs \cup {Main}]
InPkg(f, p) == [path |-> f, pkg |-> p]

EmptyCache == [ast_cache |-> [f \in Files |-> None], file_pkg |-> [f \in Files |-> {}],
               dep_cache |-> [pf \in PkgFile |-> None], last_compile_input |-> None]
-----------------------------------------------------------------------------
(* The state of a load: the cache, the package map, the packages without     *)
(* files, the graph of files, the files seen and the new ones, the search    *)
(* queue, and how it failed.                                                 *)
Loader ==
    [cache |-> cache, pkgmap |-> {}, empty |-> {}, nodes |-> {}, edges |-> {}, parsed |-> {}, new |-> {},
     queue |-> {}, failed |-> FALSE, panicked |-> FALSE]

Lost(L) == L.failed \/ L.panicked

(* The files of the imported packages, and the packages whose directory has  *)
(* none, which are noted for the program. The importing file must be in the  *)
(* map. Plugins, system modules and packages that are not found have neither.*)
get_deps(m) ==
    [files |-> UNION {{InPkg(f, p) : f \in dir[p]} : p \in m.imports},
     empty |-> {p \in m.imports : dir[p] = {}}]

update_file(L, pf, deps) ==
    [L EXCEPT !.nodes = @ \cup {pf} \cup deps,
              !.edges = {e \in @ : e[1] # pf} \cup ({pf} \X deps)]

(* A file is parsed, its imports are looked up, and both go to the cache.    *)
parse_file(L, pf) ==
    LET m == [imports |-> imports[pf.path], fixed |-> FALSE]
        deps == get_deps(m) IN
    IF Lost(L) THEN L
    ELSE IF pf.path \in unreadable THEN [L EXCEPT !.failed = TRUE]
    ELSE IF pf \notin L.pkgmap THEN [L EXCEPT !.panicked = TRUE]
    ELSE update_file([L EXCEPT !.pkgmap = @ \cup deps.files, !.empty = @ \cup deps.empty,
                               !.cache.ast_cache[pf.path] = m,
                               !.cache.file_pkg[pf.path] = @ \cup {pf},
                               !.cache.dep_cache[pf] = deps.files], pf, deps.files)

(* Dependencies that were not seen yet are queued. *)
Enqueue(L, deps) ==
    [L EXCEPT !.queue = @ \cup (deps \ L.parsed), !.parsed = @ \cup deps]

(* Mutant: the imports of a file that is in the cache are not followed. *)
VisitStopsAtCached(L, pf) ==
    LET m == L.cache.ast_cache[pf.path]
        new == IF pf \notin L.cache.file_pkg[pf.path] THEN {pf} ELSE {}
        seen == [L EXCEPT !.cache.file_pkg[pf.path] = @ \cup {pf}, !.new = @ \cup new] IN
    IF m # None
    THEN update_file([seen EXCEPT !.pkgmap = @ \cup get_deps(m).files], pf, get_deps(m).files)
    ELSE LET parsed == parse_file([seen EXCEPT !.new = @ \cup {pf}], pf) IN
         IF Lost(parsed) THEN parsed ELSE Enqueue(parsed, parsed.cache.dep_cache[pf])

(* A file from the queue. It is new when the cache did not know it for this  *)
(* package. A cached file brings its recorded dependencies; that packages    *)
(* without files were among its imports is not recorded.                     *)
Visit(L, pf) ==
    LET m == L.cache.ast_cache[pf.path]
        new == IF pf \notin L.cache.file_pkg[pf.path] THEN {pf} ELSE {}
        seen == [L EXCEPT !.cache.file_pkg[pf.path] = @ \cup {pf}, !.new = @ \cup new] IN
    IF m # None
    THEN LET deps == IF L.cache.dep_cache[pf] = None THEN get_deps(m)
                     ELSE [files |-> L.cache.dep_cache[pf], empty |-> {}] IN
         Enqueue(update_file([seen EXCEPT !.pkgmap = @ \cup deps.files, !.empty = @ \cup deps.empty],
                             pf, deps.files), deps.files)
    ELSE LET parsed == parse_file([seen EXCEPT !.new = @ \cup {pf}], pf) IN
         IF Lost(parsed) THEN parsed ELSE Enqueue(parsed, parsed.cache.dep_cache[pf])

(* The order of the queue does not matter to what is found.                  *)
RECURSIVE Search(_)
Search(L) ==
    IF L.queue = {} \/ Lost(L) THEN L
    ELSE LET pf == CHOOSE pf \in L.queue : TRUE IN Search(Visit([L EXCEPT !.queue = @ \ {pf}], pf))

ForAll(step(_, _), L, files) == FoldSet(LAMBDA pf, M : step(M, pf), L, files)

(* The entry files are parsed on every load. *)
parse_entry(L) ==
    LET files == {InPkg(f, Main) : f \in entry}
        mapped == [L EXCEPT !.pkgmap = @ \cup files, !.new = @ \cup files]
        parsed == ForAll(parse_file, mapped, files) IN
    IF Lost(parsed) THEN parsed
    ELSE Search([parsed EXCEPT !.queue = UNION {parsed.cache.dep_cache[pf] : pf \in files}])
-----------------------------------------------------------------------------
(* Some of the nodes all lead to one another: petgraph's toposort fails.     *)
HasCycle(nodes, edges) ==
    \E some \in SUBSET nodes \ {{}} : \A n \in some : \E m \in some : <<n, m>> \in edges

(* The graph of paths, in which a file is one node whatever its packages.    *)
IsCyclic(L) ==
    HasCycle({pf.path : pf \in L.nodes}, {<<e[1].path, e[2].path>> : e \in L.edges})

(* The relative imports of new modules become full paths. *)
fix_rel_import_path(L, pf) ==
    IF pf \notin L.pkgmap THEN [L EXCEPT !.panicked = TRUE]
    ELSE [L EXCEPT !.cache.ast_cache[pf.path].fixed = TRUE]

(* The files of the graph are collected from the cache. *)
parse_program(L) ==
    LET found == parse_entry(L) IN
    IF Lost(found) THEN found
    ELSE IF \E pf \in found.nodes : found.cache.ast_cache[pf.path] = None
    THEN [found EXCEPT !.panicked = TRUE]
    ELSE ForAll(fix_rel_import_path, found, found.new \cap found.nodes)

(* The files below the root that nothing imports, unless the last load had   *)
(* the same input, which is noted first, or there are too many packages (the *)
(* entries are in the root itself, unless they are in one of the packages);  *)
(* dependencies of these are followed as far as they are not cached.         *)
AllFiles == UNION {{InPkg(f, p) : f \in dir[p]} : p \in Pkgs}
Scanned == {pf.pkg : pf \in AllFiles} \cup (IF entry \subseteq UNION {dir[p] : p \in Pkgs} THEN {} ELSE {Main})

ScanFile(L, pf) ==
    LET parsed == parse_file([L EXCEPT !.new = @ \cup {pf}], pf) IN
    IF L.cache.ast_cache[pf.path] # None \/ Lost(L) THEN [L EXCEPT !.new = @ \cup {pf}]
    ELSE IF Lost(parsed) THEN parsed
    ELSE Enqueue(fix_rel_import_path(parsed, pf), parsed.cache.dep_cache[pf])

RECURSIVE Scan(_)
Scan(L) ==
    IF L.queue = {} \/ Lost(L) THEN L
    ELSE LET pf == CHOOSE pf \in L.queue : TRUE IN Scan(ScanFile([L EXCEPT !.queue = @ \ {pf}], pf))

scan_not_imported(L) ==
    LET noted == [L EXCEPT !.cache.last_compile_input = entry, !.new = {}]
        unparsed == {pf \in AllFiles : pf.path \notin {n.path : n \in L.nodes}
                                          /\ L.cache.ast_cache[pf.path] = None} IN
    IF L.cache.last_compile_input = entry THEN [L EXCEPT !.new = {}]
    ELSE IF Cardinality(Scanned) > MAX_SCAN_FILES THEN noted
    ELSE Scan([noted EXCEPT !.pkgmap = @ \cup AllFiles, !.queue = unparsed,
                            !.parsed = @ \cup unparsed])

(* The program: its packages, the imported files, the others, and each module.*)
LoadProgramResult(L, scanned) ==
    [ok |-> ~Lost(scanned), panicked |-> scanned.panicked, pkgs |-> L.empty \cup {pf.pkg : pf \in L.nodes},
     files |-> L.nodes, not_imported |-> scanned.new,
     modules |-> scanned.cache.ast_cache, recursive_load |-> IsCyclic(L)]

NotLoaded == [ok |-> FALSE, panicked |-> FALSE, pkgs |-> {}, files |-> {}, not_imported |-> {},
              modules |-> EmptyCache.ast_cache, recursive_load |-> FALSE]

load_all_files_under_paths ==
    /\ loads < MaxLoads
    /\ loads' = loads + 1
    /\ LET L == parse_program(Loader)
           scanned == IF Lost(L) THEN L ELSE scan_not_imported(L) IN
       /\ cache' = scanned.cache
       /\ result' = IF Lost(L) THEN [NotLoaded EXCEPT !.panicked = L.panicked]
                    ELSE LoadProgramResult(L, scanned)
       /\ left' = IF Lost(scanned)
                  THEN left \cup {f \in Files : scanned.cache.ast_cache[f] # cache.ast_cache[f]}
                  ELSE left \ entry
    /\ UNCHANGED <<dir, imports, unreadable, entry, changes, added>>
-----------------------------------------------------------------------------
(* Mutant: the tree of the file stays. *)
ClearKeepsAst(c, f) ==
    [c EXCEPT !.file_pkg[f] = {},
              !.dep_cache = [pf \in PkgFile |-> IF pf \in c.file_pkg[f] THEN None ELSE @[pf]]]

(* ModuleCache::clear *)
clear(c, f) ==
    [c EXCEPT !.ast_cache[f] = None, !.file_pkg[f] = {},
              !.dep_cache = [pf \in PkgFile |-> IF pf \in c.file_pkg[f] THEN None ELSE @[pf]]]

Change ==
    /\ changes < MaxChanges
    /\ changes' = changes + 1
    /\ result' = NotLoaded

(* The user edits a file; the compile that follows clears it first.          *)
Edit(f) ==
    /\ Change
    /\ \E ps \in SUBSET Pkgs \ {imports[f]} : imports' = [imports EXCEPT ![f] = ps]
    /\ cache' = clear(cache, f)
    /\ left' = left \ {f}
    /\ UNCHANGED <<dir, unreadable, entry, loads, added>>

(* External: a file appears in a directory. *)
CreateFile(f, p) ==
    /\ Change
    /\ f \notin dir[p]
    /\ dir' = [dir EXCEPT ![p] = @ \cup {f}]
    /\ added' = added \cup {InPkg(f, p)}
    /\ UNCHANGED <<imports, unreadable, entry, cache, loads, left>>

(* External: a file cannot be read, or can be again. *)
Toggle(f) ==
    /\ Change
    /\ unreadable' = IF f \in unreadable THEN unreadable \ {f} ELSE unreadable \cup {f}
    /\ UNCHANGED <<dir, imports, entry, cache, loads, left, added>>

Init(dirs, mains) ==
    /\ dir = dirs /\ entry = mains
    /\ imports \in [Files -> SUBSET Pkgs]
    /\ unreadable = {} /\ cache = EmptyCache /\ result = NotLoaded
    /\ changes = 0 /\ loads = 0 /\ left = {} /\ added = {}

Next ==
    \/ load_all_files_under_paths
    \/ \E f \in Files : Edit(f) \/ Toggle(f) \/ \E p \in Pkgs : CreateFile(f, p)
-----------------------------------------------------------------------------
(* What files reach through the imports in the texts, but for some that only *)
(* the entries find: these are parsed on every load.                         *)
Deps(pf) == get_deps([imports |-> imports[pf.path]]).files
RECURSIVE Closure(_, _)
Closure(files, missed) ==
    LET more == files \cup UNION {IF pf.pkg = Main THEN Deps(pf) ELSE Deps(pf) \ missed : pf \in files} IN
    IF more = files THEN files ELSE Closure(more, missed)

EntryFiles == {InPkg(f, Main) : f \in entry}
Reachable == Closure(EntryFiles, {})
SurelyReachable == Closure(EntryFiles, added)

(* A load with a cache returns the program that a load without one returns:  *)
(* - its files are those that the entries reach, with their present imports; *)
(*   it may only miss what is reached through a file that appeared in a      *)
(*   directory and that no entry imports, as recorded dependencies are not   *)
(*   looked up again;                                                        *)
(* - each package that they import is known to the resolver, which reports   *)
(*   the others (sema import.rs), except for packages without files that no  *)
(*   entry imports, which a load from the cache forgets;                     *)
(* - relative imports were made full paths, whichever load parsed the file,  *)
(*   unless it failed and the file was not parsed again: that load left the  *)
(*   file in the cache, and it is not new to the next one.                   *)
IncrementalIsFresh ==
    result.ok =>
        /\ SurelyReachable \subseteq result.files /\ result.files \subseteq Reachable
        /\ \A pf \in result.files :
              /\ result.modules[pf.path].imports = imports[pf.path]
              /\ \A p \in imports[pf.path] :
                    p \in result.pkgs \/ (pf.pkg # Main /\ dir[p] \subseteq {f \in Files : InPkg(f, p) \in added})
        /\ \A pf \in result.files \cup result.not_imported :
              result.modules[pf.path].fixed \/ pf.path \in left

(* RecursiveLoad is reported exactly when a file of the program imports      *)
(* itself through the texts of files, by whatever packages these are in.     *)
CyclesReported ==
    (result.ok /\ added = {}) =>
        (result.recursive_load <=>
            \E pf \in Reachable : \E d \in Closure(Deps(pf), {}) : d.path = pf.path)

=============================================================================
