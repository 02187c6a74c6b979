---------------------------- MODULE ScopeCache ----------------------------
(* The scope cache the compiles of all workspaces share: the scopes of the   *)
(* packages that were resolved, and the dependency graph that says which of  *)
(* them a changed file invalidates. A scope is what was read to make it: the *)
(* files, with their versions, of the package and of what it imports. Every  *)
(* section under the cache's lock is one step.                               *)
EXTENDS Naturals, SequencesExt

CONSTANTS
    Files,
    Pkgs,       \* paths of packages other than the main package
    Roots,
    PkgFiles,   \* the files of each package under each root
    Workspaces,
    Root,       \* the root of each workspace
    Main,       \* the file of its main package
    MayImport,  \* the sets of packages each file may import, without cycles
    Imports0,   \* what the files may import at first
    Threads,
    None,       \* no file, no root, no workspace
    MaxEdits,   \* bound: edits of all files
    MaxWaiting, \* bound: compiles that wait when a file is edited
    MaxOverlaps \* bound: compiles that start while another one runs

ASSUME PkgFilesAssumption == PkgFiles \in [Roots -> [Pkgs -> SUBSET Files]]
ASSUME WorkspacesAssumption ==
    /\ IsFiniteSet(Workspaces)
    /\ Root \in [Workspaces -> Roots]
    /\ Main \in [Workspaces -> Files]
ASSUME ImportsAssumption ==
    /\ MayImport \in [Files -> SUBSET SUBSET Pkgs]
    /\ Imports0 \subseteq [Files -> SUBSET Pkgs]
ASSUME NoneAssumption == None \notin Files \cup Roots \cup Workspaces
ASSUME BoundsAssumption == MaxEdits \in Nat /\ MaxWaiting \in Nat /\ MaxOverlaps \in Nat

VARIABLES
    imports,        \* the packages each file imports now
    version,        \* the version of each file
    edits,          \* edits made so far
    ast_cache,      \* the files in the module cache
    last_compile_input, \* the workspace the last scan for files was for
    compiled,       \* the files that were in a program of each workspace
    poolq,          \* compiles waiting: a workspace and the changed file
    worker,         \* the compile of each thread
    cached_scope,   \* the scope cache
    overlaps        \* compiles started while another one ran

contentVars == <<imports, version, edits>>
loadVars == <<ast_cache, last_compile_input, compiled>>
vars == <<contentVars, loadVars, poolq, worker, cached_scope, overlaps>>
-----------------------------------------------------------------------------
(* Packages. *)

(* The packages reached from those of S through succ. *)
Closure(S, succ) ==
    {p \in Pkgs : \A T \in SUBSET Pkgs :
        S \subseteq T /\ (\A q \in T : succ[q] \subseteq T) => p \in T}

FilesOf(root, S) == UNION {PkgFiles[root][p] : p \in S}
PkgsOf(root, f) == {p \in Pkgs : f \in PkgFiles[root][p]}

(* The packages each package imports, with the imports imp of the files. *)
PkgImports(root, imp) == [p \in Pkgs |-> UNION {imp[f] : f \in PkgFiles[root][p]}]

(* A program: the packages reached from the main package that have files,    *)
(* the ones only found by scanning the root, and the contents when parsed.   *)
Programs == [root : Roots, main : Files, pkgs : SUBSET Pkgs, pkgs_not_imported : SUBSET Pkgs,
             imports : [Files -> SUBSET Pkgs], version : [Files -> Nat]]

Reached(w) == Closure(imports[Main[w]], PkgImports(Root[w], imports))
Existing(root) == {p \in Pkgs : PkgFiles[root][p] /= {}}

(* load_all_files_under_paths: files in the module cache are not scanned, and*)
(* nothing is when the workspace is the one of the last scan.                *)
Program(w, in_cache) ==
    LET found == Reached(w) \cap Existing(Root[w])
        loaded == {Main[w]} \cup FilesOf(Root[w], found) \cup in_cache
    IN [root |-> Root[w], main |-> Main[w], pkgs |-> found,
        pkgs_not_imported |-> {p \in Existing(Root[w]) :
            last_compile_input /= w /\ ~(PkgFiles[Root[w]][p] \subseteq loaded)},
        imports |-> imports, version |-> version]

modules(prog) == {prog.main} \cup FilesOf(prog.root, prog.pkgs \cup prog.pkgs_not_imported)
-----------------------------------------------------------------------------
(* The scope cache. *)

NoScope == [read |-> {}, imported |-> FALSE, some |-> FALSE]
Scopes == [read : SUBSET (Files \X Nat), imported : BOOLEAN, some : BOOLEAN]
NoScopes == [p \in Pkgs |-> NoScope]
In(p, scope_map) == scope_map[p].some

EmptyGraph == [nodes |-> {},
               module_map |-> [f \in Files |-> {}],
               parents |-> [p \in Pkgs |-> {}],
               children |-> [p \in Pkgs |-> {}]]

EmptyCache == [program_root |-> None, scope_map |-> NoScopes,
               invalidate_pkg_modules |-> {None}, graph |-> EmptyGraph]

(* The modules S record that they import what imp says. *)
add_new_module(g, S, imp) ==
    LET known == {f \in S : g.module_map[f] /= {}} IN
    [g EXCEPT
       !.children = [q \in Pkgs |->
            @[q] \cup (IF q \in g.nodes THEN {f \in known : q \in imp[f]} ELSE {})],
       !.parents = [p \in Pkgs |-> @[p] \cup UNION {imp[f] : f \in {h \in known : p \in g.module_map[h]}}]]

(* Mutant: only the packages of the file. *)
invalidate_module_alone(g, f) == g.module_map[f]

(* The packages of the file, and those that import them, and so on. *)
invalidate_module(g, f) ==
    Closure(g.module_map[f], [p \in Pkgs |-> UNION {g.module_map[c] : c \in g.children[p]}])

remove_dependency_from_pkg(g, f) ==
    LET parents == UNION {g.parents[p] : p \in g.module_map[f]} IN
    [g EXCEPT !.children = [q \in Pkgs |-> IF q \in parents THEN @[q] \ {f} ELSE @[q]]]

(* DependencyGraph::update, first part: the packages of the program and the  *)
(* modules seen for the first time.                                          *)
AddProgram(g, prog) ==
    LET fs == FilesOf(prog.root, prog.pkgs)
        new_modules == {f \in fs : g.module_map[f] = {}}
    IN add_new_module(
         [g EXCEPT !.nodes = @ \cup prog.pkgs,
                   !.module_map = [f \in Files |-> @[f] \cup (PkgsOf(prog.root, f) \cap prog.pkgs)]],
         new_modules, prog.imports)

(* Second part: a changed module is linked again if the program has it.      *)
Relink(g, f, prog) ==
    LET removed == remove_dependency_from_pkg(g, f) IN
    IF f \in modules(prog) THEN add_new_module(removed, {f}, prog.imports) ELSE removed

clear(c) == [EmptyCache EXCEPT !.program_root = c.program_root]

UpdateWith(c, prog) ==
    LET changed == IF c.invalidate_pkg_modules = {None} THEN prog.main
                   ELSE CHOOSE f \in c.invalidate_pkg_modules : TRUE
        g == AddProgram(c.graph, prog)
        invalidated == invalidate_module(g, changed)
    IN [c EXCEPT !.graph = Relink(g, changed, prog),
                 !.scope_map = [p \in Pkgs |-> IF p \in invalidated THEN NoScope ELSE @[p]]]

(* Mutant: the cache is kept when the root changes. *)
update_any_root(c, prog) == UpdateWith([c EXCEPT !.program_root = prog.root], prog)

(* CachedScope::update. *)
update(c, prog) ==
    UpdateWith(IF c.program_root /= prog.root
               THEN [clear(c) EXCEPT !.program_root = prog.root]
               ELSE c, prog)
-----------------------------------------------------------------------------
(* The resolver. *)

(* check_and_lint_all_pkgs on top of the scopes it starts with: the packages *)
(* reached from the main package through packages without a scope get one,   *)
(* then those not imported, whose own imports are not looked at. The scope   *)
(* of a package without files is dropped again.                              *)
check_and_lint_all_pkgs(prog, scope_map) ==
    LET succ == [p \in Pkgs |-> IF In(p, scope_map) \/ p \notin prog.pkgs THEN {}
                                ELSE PkgImports(prog.root, prog.imports)[p]]
        checked == {p \in Closure(prog.imports[prog.main], succ) : ~In(p, scope_map)}
        Own(S) == {<<f, prog.version[f]>> : f \in FilesOf(prog.root, S)}
        Scope(p) == LET used == Closure({p}, succ) IN
            [read |-> Own(used \cap checked) \cup UNION {scope_map[q].read : q \in used \ checked},
             imported |-> TRUE, some |-> TRUE]
    IN [p \in Pkgs |->
          IF p \in checked THEN (IF p \in prog.pkgs THEN Scope(p) ELSE NoScope)
          ELSE IF p \in prog.pkgs_not_imported /\ ~In(p, scope_map)
               THEN [read |-> Own({p}), imported |-> FALSE, some |-> TRUE]
               ELSE scope_map[p]]

Idle == [pc |-> "idle"]
Running(t) == worker[t].pc /= "idle"

Init ==
    /\ imports \in Imports0
    /\ version = [f \in Files |-> 0]
    /\ edits = 0
    /\ ast_cache = {}
    /\ last_compile_input = None
    /\ compiled = [w \in Workspaces |-> {}]
    /\ poolq \in SetToSeqs({[ws |-> w, file |-> None] : w \in Workspaces})
    /\ worker = [t \in Threads |-> Idle]
    /\ cached_scope = EmptyCache
    /\ overlaps = 0

(* The text of a file changes; the workspaces it was recorded with compile.  *)
Edit(f, imp) ==
    LET told == {w \in Workspaces : f = Main[w] \/ f \in compiled[w]} IN
    /\ edits < MaxEdits
    /\ Len(poolq) <= MaxWaiting
    /\ told /= {}
    /\ imports' = [imports EXCEPT ![f] = imp]
    /\ version' = [version EXCEPT ![f] = @ + 1]
    /\ edits' = edits + 1
    /\ \E s \in SetToSeqs({[ws |-> w, file |-> f] : w \in told}) : poolq' = poolq \o s
    /\ UNCHANGED <<loadVars, worker, cached_scope, overlaps>>

(* A thread takes a compile and parses the program. *)
Start(t) ==
    LET job == Head(poolq)
        in_cache == ast_cache \ {job.file}
        prog == Program(job.ws, in_cache)
    IN
    /\ ~Running(t)
    /\ poolq /= <<>>
    /\ poolq' = Tail(poolq)
    /\ worker' = [worker EXCEPT ![t] = [pc |-> IF job.file = None THEN "begin" ELSE "note",
                                        file |-> job.file, prog |-> prog, scope_map |-> NoScopes]]
    /\ ast_cache' = in_cache \cup modules(prog)
    /\ last_compile_input' = job.ws
    /\ compiled' = [compiled EXCEPT ![job.ws] = @ \cup modules(prog)]
    /\ overlaps' = overlaps + (IF \E u \in Threads : Running(u) THEN 1 ELSE 0)
    /\ overlaps' <= MaxOverlaps
    /\ UNCHANGED <<contentVars, cached_scope>>

(* The lock of the cache is held by another compile, which is in a section.  *)
Locked(t) == \E u \in Threads \ {t} : worker[u].pc \in {"note", "begin", "finish"}

Step(t, from, to, c, scope_map) ==
    /\ worker[t].pc = from
    /\ worker' = [worker EXCEPT ![t] = IF to = "idle" THEN Idle
                                       ELSE [@ EXCEPT !.pc = to, !.scope_map = scope_map]]
    /\ cached_scope' = c
    /\ UNCHANGED <<contentVars, loadVars, poolq, overlaps>>

(* The compile says which module changed. *)
Note(t) ==
    Step(t, "note", "begin",
         [cached_scope EXCEPT !.invalidate_pkg_modules = {worker[t].file}], NoScopes)
NoteSkipped(t) == Locked(t) /\ Step(t, "note", "begin", cached_scope, NoScopes)

(* resolve_program_with_opts: the scopes that are still valid are taken.     *)
Begin(t) ==
    LET c == update(cached_scope, worker[t].prog) IN Step(t, "begin", "finish", c, c.scope_map)
BeginSkipped(t) == Locked(t) /\ Step(t, "begin", "finish", cached_scope, NoScopes)

(* The packages are checked and the scopes stored. *)
Finish(t) ==
    LET prog == worker[t].prog
        c == update(cached_scope, prog)
    IN Step(t, "finish", "idle",
            [c EXCEPT !.scope_map = check_and_lint_all_pkgs(prog, worker[t].scope_map),
                      !.invalidate_pkg_modules = {None}], NoScopes)
FinishSkipped(t) == Locked(t) /\ Step(t, "finish", "idle", cached_scope, NoScopes)

Next ==
    \/ \E f \in Files : \E imp \in MayImport[f] : Edit(f, imp)
    \/ \E t \in Threads : Start(t)
    \/ \E t \in Threads : Note(t)
    \/ \E t \in Threads : NoteSkipped(t)
    \/ \E t \in Threads : Begin(t)
    \/ \E t \in Threads : BeginSkipped(t)
    \/ \E t \in Threads : Finish(t)
    \/ \E t \in Threads : FinishSkipped(t)

Spec == Init /\ [][Next]_vars
-----------------------------------------------------------------------------
(* Properties. *)

Graphs == [nodes : SUBSET Pkgs, module_map : [Files -> SUBSET Pkgs],
           parents : [Pkgs -> SUBSET Pkgs], children : [Pkgs -> SUBSET Files]]
Jobs == [pc : {"note", "begin", "finish"}, file : Files \cup {None}, prog : Programs,
         scope_map : [Pkgs -> Scopes]]

(* The variables stay in their types. *)
TypeOK ==
    /\ imports \in [Files -> SUBSET Pkgs]
    /\ version \in [Files -> Nat]
    /\ edits \in 0..MaxEdits
    /\ ast_cache \in SUBSET Files
    /\ last_compile_input \in Workspaces \cup {None}
    /\ compiled \in [Workspaces -> SUBSET Files]
    /\ poolq \in Seq([ws : Workspaces, file : Files \cup {None}])
    /\ worker \in [Threads -> Jobs \cup {Idle}]
    /\ cached_scope \in [program_root : Roots \cup {None}, scope_map : [Pkgs -> Scopes],
                         invalidate_pkg_modules : {{f} : f \in Files \cup {None}}, graph : Graphs]
    /\ overlaps \in 0..MaxOverlaps

(* However compiles of workspaces with different roots interleave, and       *)
(* whichever of their lock sections are skipped, the scopes in the cache are *)
(* of packages of its program_root: a package of the same path under another *)
(* root is never taken for it.                                               *)
ScopesOfRoot ==
    \A p \in Pkgs : \A r \in cached_scope.scope_map[p].read :
        r[1] \in FilesOf(cached_scope.program_root, Pkgs)

(* The scope of p as resolved from nothing with the contents there are now.  *)
Fresh(p) ==
    LET root == cached_scope.program_root IN
    {<<f, version[f]>> :
        f \in FilesOf(root, Closure({p}, PkgImports(root, imports)))}

Quiet == poolq = <<>> /\ \A t \in Threads : ~Running(t)

(* A file of p imports q, a package of the graph, and q does not know.       *)
EdgeMissing(p) ==
    \E f \in PkgFiles[cached_scope.program_root][p] : \E q \in imports[f] :
        q \in cached_scope.graph.nodes /\ f \notin cached_scope.graph.children[q]

(* Once the compiles of all edits are done, one after the other, a cached    *)
(* scope is what resolving the package again would give, except where a      *)
(* package below it was resolved as not imported or has a file that is not   *)
(* among the children of what it imports.                                    *)
StaleHasReason ==
    Quiet /\ overlaps = 0 =>
        \A p \in Pkgs : In(p, cached_scope.scope_map) /\ cached_scope.scope_map[p].read /= Fresh(p) =>
            \E q \in Closure({p}, PkgImports(cached_scope.program_root, imports)) :
                \/ In(q, cached_scope.scope_map) /\ ~cached_scope.scope_map[q].imported
                \/ EdgeMissing(q)

=============================================================================
