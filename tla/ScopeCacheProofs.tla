------------------------- MODULE ScopeCacheProofs -------------------------
(* The cache never mixes packages of two roots, for any packages, roots,     *)
(* workspaces and threads.                                                   *)
EXTENDS ScopeCache, FiniteSetTheorems, SequenceTheorems, TLAPS

Cache == [program_root : Roots \cup {None}, scope_map : [Pkgs -> Scopes],
          invalidate_pkg_modules : {{f} : f \in Files \cup {None}}, graph : Graphs]

(* What was read for these scopes are files of packages under root. *)
OfRoot(scope_map, root) ==
    \A p \in Pkgs : \A r \in scope_map[p].read : r[1] \in FilesOf(root, Pkgs)

(* The scopes in the cache are of its root, those a compile works with are   *)
(* of the root of its program.                                               *)
IInv ==
    /\ TypeOK
    /\ OfRoot(cached_scope.scope_map, cached_scope.program_root)
    /\ \A t \in Threads : Running(t) => OfRoot(worker[t].scope_map, worker[t].prog.root)
-----------------------------------------------------------------------------
(* The closure is made of packages. *)
LEMMA ClosureType == ASSUME NEW S, NEW succ PROVE Closure(S, succ) \in SUBSET Pkgs
  BY DEF Closure

(* The files of packages are files. *)
LEMMA FilesOfType ==
    ASSUME NEW root \in Roots, NEW S \in SUBSET Pkgs
    PROVE  FilesOf(root, S) \in SUBSET Files /\ FilesOf(root, S) \subseteq FilesOf(root, Pkgs)
  BY PkgFilesAssumption DEF FilesOf

(* No scope is of every root. *)
LEMMA NoScopesType ==
    /\ NoScope \in Scopes
    /\ NoScopes \in [Pkgs -> Scopes]
    /\ \A root : OfRoot(NoScopes, root)
  BY DEF NoScope, NoScopes, Scopes, OfRoot

(* The empty cache. *)
LEMMA EmptyCacheType == EmptyCache \in Cache
  <1>1. EmptyGraph \in Graphs
    BY DEF EmptyGraph, Graphs
  <1> QED BY <1>1, NoScopesType DEF EmptyCache, Cache

(* Linking modules keeps the type of the graph. *)
LEMMA AddNewModuleType ==
    ASSUME NEW g \in Graphs, NEW S \in SUBSET Files, NEW imp \in [Files -> SUBSET Pkgs]
    PROVE  add_new_module(g, S, imp) \in Graphs
  <1> DEFINE known == {f \in S : g.module_map[f] /= {}}
             ch == [q \in Pkgs |-> g.children[q] \cup (IF q \in g.nodes THEN {f \in known : q \in imp[f]} ELSE {})]
             pa == [p \in Pkgs |-> g.parents[p] \cup UNION {imp[f] : f \in {h \in known : p \in g.module_map[h]}}]
  <1>1. ch \in [Pkgs -> SUBSET Files]
    BY DEF Graphs
  <1>2. pa \in [Pkgs -> SUBSET Pkgs]
    BY DEF Graphs
  <1>3. add_new_module(g, S, imp) = [g EXCEPT !.children = ch, !.parents = pa]
    BY DEF add_new_module
  <1> HIDE DEF ch, pa
  <1> QED BY <1>1, <1>2, <1>3, ZenonT(60) DEF Graphs

(* Unlinking a module keeps the type of the graph. *)
LEMMA RemoveType ==
    ASSUME NEW g \in Graphs, NEW f
    PROVE  remove_dependency_from_pkg(g, f) \in Graphs
  BY DEF remove_dependency_from_pkg, Graphs

(* Adding a program keeps the type of the graph. *)
LEMMA AddProgramType ==
    ASSUME NEW g \in Graphs, NEW prog \in Programs
    PROVE  AddProgram(g, prog) \in Graphs
  <1> DEFINE fs == FilesOf(prog.root, prog.pkgs)
             new_modules == {f \in fs : g.module_map[f] = {}}
             mm == [f \in Files |-> g.module_map[f] \cup (PkgsOf(prog.root, f) \cap prog.pkgs)]
             h == [g EXCEPT !.nodes = @ \cup prog.pkgs, !.module_map = mm]
  <1>1. new_modules \in SUBSET Files
    BY FilesOfType DEF Programs
  <1>2. mm \in [Files -> SUBSET Pkgs]
    BY DEF Graphs, Programs
  <1>3. h \in Graphs
    <2> HIDE DEF mm
    <2> QED BY <1>2, ZenonT(60) DEF Graphs, Programs
  <1>4. prog.imports \in [Files -> SUBSET Pkgs]
    BY DEF Programs
  <1>5. AddProgram(g, prog) = add_new_module(h, new_modules, prog.imports)
    BY DEF AddProgram
  <1> QED BY <1>1, <1>3, <1>4, <1>5, AddNewModuleType, SMTT(60)

(* An update leaves scopes of the program's root, none that was not there.   *)
LEMMA UpdateWithType ==
    ASSUME NEW c \in Cache, NEW prog \in Programs
    PROVE  /\ UpdateWith(c, prog) \in Cache
           /\ UpdateWith(c, prog).program_root = c.program_root
           /\ \A p \in Pkgs : UpdateWith(c, prog).scope_map[p] \in {NoScope, c.scope_map[p]}
  <1> DEFINE changed == IF c.invalidate_pkg_modules = {None} THEN prog.main
                        ELSE CHOOSE f \in c.invalidate_pkg_modules : TRUE
             g == AddProgram(c.graph, prog)
             invalidated == invalidate_module(g, changed)
             sm == [p \in Pkgs |-> IF p \in invalidated THEN NoScope ELSE c.scope_map[p]]
             gr == Relink(g, changed, prog)
  <1>1. changed \in Files
    <2>1. PICK f \in Files \cup {None} : c.invalidate_pkg_modules = {f}
      BY DEF Cache
    <2> QED BY <2>1 DEF Programs
  <1> HIDE DEF changed
  <1>2. g \in Graphs
    BY AddProgramType DEF Cache
  <1> HIDE DEF g
  <1>3. gr \in Graphs
    <2>1. prog.imports \in [Files -> SUBSET Pkgs]
      BY DEF Programs
    <2> QED BY <1>1, <1>2, <2>1, RemoveType, AddNewModuleType, SMTT(60) DEF Relink
  <1>4. sm \in [Pkgs -> Scopes]
    BY NoScopesType DEF Cache
  <1>5. UpdateWith(c, prog) = [c EXCEPT !.graph = gr, !.scope_map = sm]
    BY DEF UpdateWith, changed, g
  <1>6. \A p \in Pkgs : sm[p] \in {NoScope, c.scope_map[p]}
    OBVIOUS
  <1> HIDE DEF gr, sm
  <1> QED BY <1>3, <1>4, <1>5, <1>6, ZenonT(60) DEF Cache

(* CachedScope::update: the scopes it leaves are of the program's root. *)
LEMMA UpdateOfRoot ==
    ASSUME NEW c \in Cache, NEW prog \in Programs, OfRoot(c.scope_map, c.program_root)
    PROVE  /\ update(c, prog) \in Cache
           /\ update(c, prog).program_root = prog.root
           /\ OfRoot(update(c, prog).scope_map, prog.root)
  <1> DEFINE d == IF c.program_root /= prog.root
                  THEN [clear(c) EXCEPT !.program_root = prog.root] ELSE c
  <1>1. d \in Cache /\ d.program_root = prog.root
    BY EmptyCacheType, ZenonT(60) DEF clear, Cache, Programs
  <1>2. OfRoot(d.scope_map, prog.root)
    <2>1. CASE c.program_root = prog.root
      BY <2>1
    <2>2. CASE c.program_root /= prog.root
      <3>1. d.scope_map = NoScopes
        BY <2>2, EmptyCacheType DEF clear, Cache, EmptyCache
      <3> QED BY <3>1, NoScopesType
    <2> QED BY <2>1, <2>2
  <1>3. update(c, prog) = UpdateWith(d, prog)
    BY DEF update
  <1> HIDE DEF d
  <1>4. OfRoot(update(c, prog).scope_map, prog.root)
    <2> SUFFICES ASSUME NEW p \in Pkgs, NEW r \in UpdateWith(d, prog).scope_map[p].read
                 PROVE  r[1] \in FilesOf(prog.root, Pkgs)
      BY <1>3 DEF OfRoot
    <2>1. UpdateWith(d, prog).scope_map[p] \in {NoScope, d.scope_map[p]}
      BY <1>1, UpdateWithType
    <2>2. NoScope.read = {}
      BY DEF NoScope
    <2> QED BY <1>2, <2>1, <2>2, SMTT(60) DEF OfRoot
  <1> QED BY <1>1, <1>3, <1>4, UpdateWithType, SMTT(60)

(* The resolver reads files of its program's root and the scopes it got.     *)
LEMMA CheckOfRoot ==
    ASSUME NEW prog \in Programs, NEW scope_map \in [Pkgs -> Scopes], OfRoot(scope_map, prog.root)
    PROVE  /\ check_and_lint_all_pkgs(prog, scope_map) \in [Pkgs -> Scopes]
           /\ OfRoot(check_and_lint_all_pkgs(prog, scope_map), prog.root)
  <1> DEFINE succ == [p \in Pkgs |-> IF In(p, scope_map) \/ p \notin prog.pkgs THEN {}
                                     ELSE PkgImports(prog.root, prog.imports)[p]]
             checked == {p \in Closure(prog.imports[prog.main], succ) : ~In(p, scope_map)}
             Own(S) == {<<f, prog.version[f]>> : f \in FilesOf(prog.root, S)}
             used(p) == Closure({p}, succ)
             read(p) == Own(used(p) \cap checked) \cup UNION {scope_map[q].read : q \in used(p) \ checked}
             Scope(p) == [read |-> read(p), imported |-> TRUE, some |-> TRUE]
             Alone(p) == [read |-> Own({p}), imported |-> FALSE, some |-> TRUE]
             res == check_and_lint_all_pkgs(prog, scope_map)
  <1>1. res = [p \in Pkgs |->
                 IF p \in checked THEN (IF p \in prog.pkgs THEN Scope(p) ELSE NoScope)
                 ELSE IF p \in prog.pkgs_not_imported /\ ~In(p, scope_map)
                      THEN Alone(p)
                      ELSE scope_map[p]]
    BY DEF check_and_lint_all_pkgs
  <1>2. checked \in SUBSET Pkgs /\ \A p : used(p) \in SUBSET Pkgs
    BY ClosureType, SMTT(60)
  <1> HIDE DEF succ, checked, used, res
  <1> DEFINE Good(R) == R \in SUBSET (Files \X Nat) /\ \A r \in R : r[1] \in FilesOf(prog.root, Pkgs)
  <1>3. \A S \in SUBSET Pkgs : Good(Own(S))
    <2>1. \A S \in SUBSET Pkgs : \A f \in FilesOf(prog.root, S) : f \in Files /\ f \in FilesOf(prog.root, Pkgs)
      BY FilesOfType DEF Programs
    <2>2. \A f \in Files : prog.version[f] \in Nat
      BY DEF Programs
    <2> QED BY <2>1, <2>2, SMTT(60)
  <1>4. \A q \in Pkgs : Good(scope_map[q].read)
    BY DEF OfRoot, Scopes
  <1> HIDE DEF Own
  <1>5. \A p \in Pkgs : Good(read(p))
    <2> SUFFICES ASSUME NEW p \in Pkgs PROVE Good(read(p))
      BY Zenon
    <2>1. Good(Own(used(p) \cap checked))
      BY <1>2, <1>3
    <2>2. Good(UNION {scope_map[q].read : q \in used(p) \ checked})
      BY <1>2, <1>4, SMTT(60)
    <2> QED BY <2>1, <2>2, ZenonT(60)
  <1> HIDE DEF read
  <1>6. \A p \in Pkgs : res[p] \in Scopes /\ Good(res[p].read)
    <2> TAKE p \in Pkgs
    <2>1. Scope(p) \in Scopes /\ Good(Scope(p).read)
      BY <1>5 DEF Scopes
    <2>2. Alone(p) \in Scopes /\ Good(Alone(p).read)
      BY <1>3 DEF Scopes
    <2>3. NoScope \in Scopes /\ Good(NoScope.read)
      BY DEF Scopes, NoScope
    <2>4. scope_map[p] \in Scopes /\ Good(scope_map[p].read)
      BY <1>4
    <2>5. res[p] \in {Scope(p), Alone(p), NoScope, scope_map[p]}
      BY <1>1, SMTT(60)
    <2> HIDE DEF Good, Scope, Alone
    <2> QED BY <2>1, <2>2, <2>3, <2>4, <2>5, SMTT(60)
  <1>7. res \in [Pkgs -> Scopes]
    BY <1>1, <1>6, SMTT(60)
  <1> QED BY <1>6, <1>7, SMTT(60) DEF res, OfRoot
-----------------------------------------------------------------------------
(* A function on an initial interval is a sequence. *)
LEMMA FunctionIsSeq ==
    ASSUME NEW S, NEW n \in Nat, NEW s \in [1..n -> S] PROVE s \in Seq(S)
  <1>1. s \in UNION {[1..m -> S] : m \in Nat}
    BY Zenon
  <1>2. Seq(S) = UNION {[1..m -> S] : m \in Nat}
    BY SeqDef, ZenonT(60)
  <1> QED BY <1>1, <1>2, ZenonT(60)

(* The head and the tail of a sequence. *)
LEMMA HeadTail ==
    ASSUME NEW S, NEW s \in Seq(S), s /= <<>>
    PROVE  Head(s) \in S /\ Tail(s) \in Seq(S)
  OBVIOUS

(* Jobs of workspaces, in any order, are a sequence of jobs. *)
LEMMA OrdersType ==
    ASSUME NEW W \in SUBSET Workspaces, NEW f \in Files \cup {None},
           NEW s \in SetToSeqs({[ws |-> w, file |-> f] : w \in W})
    PROVE  s \in Seq([ws : Workspaces, file : Files \cup {None}])
  <1> DEFINE J == {[ws |-> w, file |-> f] : w \in W}
             n == Cardinality(J)
  <1>1. J \subseteq [ws : Workspaces, file : Files \cup {None}]
    OBVIOUS
  <1>2. n \in Nat
    <2>1. IsFiniteSet(W)
      BY WorkspacesAssumption, FS_Subset, SMTT(60)
    <2>2. IsFiniteSet(J)
      <3> DEFINE job == [w \in W |-> [ws |-> w, file |-> f]]
      <3>1. job \in Surjection(W, J)
        BY DEF Surjection
      <3> QED BY <2>1, <3>1, FS_Surjection, SMTT(60)
    <2> QED BY <2>2, FS_CardinalityType, SMTT(60)
  <1>3. s \in [1..n -> J]
    BY DEF SetToSeqs
  <1> HIDE DEF J, n
  <1>4. s \in [1..n -> [ws : Workspaces, file : Files \cup {None}]]
    BY <1>1, <1>3, SMTT(60)
  <1> QED BY <1>2, <1>4, FunctionIsSeq, ZenonT(60)

(* The program of a workspace. *)
LEMMA ProgramType ==
    ASSUME TypeOK, NEW w \in Workspaces, NEW in_cache
    PROVE  /\ Program(w, in_cache) \in Programs
           /\ modules(Program(w, in_cache)) \in SUBSET Files
  <1> DEFINE prog == Program(w, in_cache)
  <1>1. /\ prog.pkgs \in SUBSET Pkgs /\ prog.pkgs_not_imported \in SUBSET Pkgs
        /\ prog.root \in Roots /\ prog.main \in Files
        /\ prog.imports = imports /\ prog.version = version
    BY ClosureType, WorkspacesAssumption, SMTT(60) DEF Program, Existing
  <1>2. prog \in Programs
    BY <1>1, ZenonT(60) DEF Program, Programs, TypeOK
  <1>3. FilesOf(prog.root, prog.pkgs \cup prog.pkgs_not_imported) \in SUBSET Files
    BY <1>1, FilesOfType
  <1> QED BY <1>1, <1>2, <1>3, SMTT(60) DEF modules

(* The first state satisfies the invariant. *)
LEMMA InvInit == Init => IInv
  <1> SUFFICES ASSUME Init PROVE IInv
    OBVIOUS
  <1>1. cached_scope \in Cache
    BY EmptyCacheType DEF Init
  <1>2. poolq \in Seq([ws : Workspaces, file : Files \cup {None}])
    BY OrdersType, Zenon DEF Init
  <1>3. TypeOK
    <2>1. imports \in [Files -> SUBSET Pkgs] /\ version \in [Files -> Nat]
      BY ImportsAssumption DEF Init
    <2>2. edits \in 0..MaxEdits /\ overlaps \in 0..MaxOverlaps
      BY BoundsAssumption DEF Init
    <2>3. worker \in [Threads -> Jobs \cup {Idle}] /\ compiled \in [Workspaces -> SUBSET Files]
      BY DEF Init
    <2>4. ast_cache \in SUBSET Files /\ last_compile_input \in Workspaces \cup {None}
      BY DEF Init
    <2> QED BY <1>1, <1>2, <2>1, <2>2, <2>3, <2>4, ZenonT(60) DEF TypeOK, Cache
  <1>4. OfRoot(cached_scope.scope_map, cached_scope.program_root)
    BY NoScopesType, SMTT(60) DEF Init, EmptyCache
  <1>5. \A t \in Threads : ~Running(t)
    BY DEF Init, Running, Idle
  <1> QED BY <1>3, <1>4, <1>5 DEF IInv

(* A section of a compile: what it puts into the cache and keeps for itself  *)
(* has to be of the right roots.                                             *)
LEMMA InvSection ==
    ASSUME IInv, NEW t \in Threads, NEW from \in {"note", "begin", "finish"},
           NEW to \in {"begin", "finish", "idle"}, NEW c \in Cache, NEW sm \in [Pkgs -> Scopes],
           Step(t, from, to, c, sm),
           OfRoot(c.scope_map, c.program_root), OfRoot(sm, worker[t].prog.root)
    PROVE  IInv'
  <1>1. worker \in [Threads -> Jobs \cup {Idle}] /\ worker[t].pc = from
    BY DEF IInv, TypeOK, Step
  <1>2. worker[t] \in Jobs
    BY <1>1 DEF Idle
  <1> DEFINE w == [worker[t] EXCEPT !.pc = to, !.scope_map = sm]
  <1>3. worker' = [worker EXCEPT ![t] = IF to = "idle" THEN Idle ELSE w]
    BY DEF Step
  <1>4. to /= "idle" => w \in Jobs /\ w.scope_map = sm /\ w.prog = worker[t].prog
    BY <1>2, ZenonT(60) DEF Jobs
  <1> HIDE DEF w
  <1>5. worker' \in [Threads -> Jobs \cup {Idle}]
    BY <1>1, <1>3, <1>4, SMTT(60)
  <1>6. cached_scope' = c
    BY DEF Step
  <1>7. TypeOK'
    BY <1>5, <1>6, ZenonT(60) DEF Step, contentVars, loadVars, IInv, TypeOK, Cache
  <1>8. \A u \in Threads : Running(u)' => OfRoot(worker'[u].scope_map, worker'[u].prog.root)
    <2> TAKE u \in Threads
    <2>1. CASE u = t
      <3>1. CASE to = "idle"
        BY <1>1, <1>3, <2>1, <3>1, SMTT(60) DEF Running, Idle
      <3>2. CASE to /= "idle"
        BY <1>1, <1>3, <1>4, <2>1, <3>2, SMTT(60)
      <3> QED BY <3>1, <3>2, SMTT(60)
    <2>2. CASE u /= t
      BY <1>1, <1>3, <2>2, SMTT(60) DEF IInv, Running
    <2> QED BY <2>1, <2>2, SMTT(60)
  <1> QED BY <1>6, <1>7, <1>8, SMTT(60) DEF IInv

(* Every step preserves the invariant. *)
LEMMA InvStep == IInv /\ [Next]_vars => IInv'
  <1> SUFFICES ASSUME IInv, [Next]_vars PROVE IInv'
    OBVIOUS
  <1>1. /\ cached_scope \in Cache
        /\ OfRoot(cached_scope.scope_map, cached_scope.program_root)
    BY ZenonT(60) DEF IInv, TypeOK, Cache
  <1>2. ASSUME NEW t \in Threads, worker[t].pc \in {"note", "begin", "finish"}
        PROVE  /\ worker[t] \in Jobs /\ worker[t].prog \in Programs
               /\ worker[t].scope_map \in [Pkgs -> Scopes] /\ worker[t].file \in Files \cup {None}
               /\ OfRoot(worker[t].scope_map, worker[t].prog.root)
    <2>1. worker[t] \in Jobs
      BY <1>2, SMTT(60) DEF IInv, TypeOK, Idle
    <2> QED BY <1>2, <2>1, SMTT(60) DEF IInv, Running, Jobs
  <1>3. ASSUME NEW f \in Files, NEW imp \in MayImport[f], Edit(f, imp) PROVE IInv'
    <2>1. imp \in SUBSET Pkgs
      BY ImportsAssumption, SMTT(60)
    <2>2. poolq' \in Seq([ws : Workspaces, file : Files \cup {None}])
      <3> DEFINE told == {w \in Workspaces : f = Main[w] \/ f \in compiled[w]}
      <3>1. PICK s \in SetToSeqs({[ws |-> w, file |-> f] : w \in told}) : poolq' = poolq \o s
        BY <1>3, ZenonT(60) DEF Edit
      <3>2. s \in Seq([ws : Workspaces, file : Files \cup {None}])
        BY OrdersType, ZenonT(60)
      <3> QED BY <3>1, <3>2, SMTT(60) DEF IInv, TypeOK
    <2>3. edits' \in 0..MaxEdits
      BY <1>3, BoundsAssumption, SMTT(60) DEF Edit, IInv, TypeOK
    <2>4. imports' \in [Files -> SUBSET Pkgs] /\ version' \in [Files -> Nat]
      BY <1>3, <2>1, SMTT(60) DEF Edit, IInv, TypeOK
    <2>5. TypeOK'
      BY <1>3, <2>2, <2>3, <2>4, ZenonT(60) DEF Edit, loadVars, IInv, TypeOK
    <2> QED BY <1>3, <2>5, SMTT(60) DEF Edit, IInv, Running
  <1>4. ASSUME NEW t \in Threads, Start(t) PROVE IInv'
    <2> DEFINE job == Head(poolq)
               in_cache == ast_cache \ {job.file}
               prog == Program(job.ws, in_cache)
               new == [pc |-> IF job.file = None THEN "begin" ELSE "note",
                       file |-> job.file, prog |-> prog, scope_map |-> NoScopes]
    <2>1. /\ job \in [ws : Workspaces, file : Files \cup {None}]
          /\ poolq' \in Seq([ws : Workspaces, file : Files \cup {None}])
      <3>1. poolq /= <<>> /\ poolq' = Tail(poolq)
        BY <1>4, SMTT(60) DEF Start
      <3>2. poolq \in Seq([ws : Workspaces, file : Files \cup {None}])
        BY SMTT(60) DEF IInv, TypeOK
      <3> QED BY <3>1, <3>2, HeadTail, ZenonT(60)
    <2>2. prog \in Programs /\ modules(prog) \in SUBSET Files
      BY <2>1, ProgramType, SMTT(60) DEF IInv
    <2>3. /\ worker' = [worker EXCEPT ![t] = new]
          /\ ast_cache' = in_cache \cup modules(prog)
          /\ last_compile_input' = job.ws
          /\ compiled' = [compiled EXCEPT ![job.ws] = @ \cup modules(prog)]
          /\ UNCHANGED <<contentVars, cached_scope>>
      BY <1>4, SMTT(60) DEF Start
    <2>4. overlaps' \in 0..MaxOverlaps
      BY <1>4, BoundsAssumption, SMTT(60) DEF Start, IInv, TypeOK
    <2> HIDE DEF job, prog
    <2>5. new \in Jobs /\ new.scope_map = NoScopes
      BY <2>1, <2>2, NoScopesType, SMTT(60) DEF Jobs
    <2> HIDE DEF new
    <2>6. worker' \in [Threads -> Jobs \cup {Idle}]
      BY <2>3, <2>5, SMTT(60) DEF IInv, TypeOK
    <2>7. compiled' \in [Workspaces -> SUBSET Files] /\ ast_cache' \in SUBSET Files
      BY <2>1, <2>2, <2>3, SMTT(60) DEF IInv, TypeOK
    <2>8. TypeOK'
      BY <2>1, <2>3, <2>4, <2>6, <2>7, ZenonT(60) DEF contentVars, IInv, TypeOK
    <2>9. \A u \in Threads : Running(u)' => OfRoot(worker'[u].scope_map, worker'[u].prog.root)
      <3> TAKE u \in Threads
      <3>1. CASE u = t
        BY <2>3, <2>5, <3>1, NoScopesType, SMTT(60) DEF IInv, TypeOK
      <3>2. CASE u /= t
        BY <2>3, <3>2, SMTT(60) DEF IInv, TypeOK, Running
      <3> QED BY <3>1, <3>2, SMTT(60)
    <2> QED BY <2>3, <2>8, <2>9, SMTT(60) DEF IInv
  <1>5. ASSUME NEW t \in Threads, Note(t) PROVE IInv'
    <2> DEFINE c == [cached_scope EXCEPT !.invalidate_pkg_modules = {worker[t].file}]
    <2>1. Step(t, "note", "begin", c, NoScopes) /\ worker[t].pc = "note"
      BY <1>5 DEF Note, Step
    <2>2. c \in Cache /\ OfRoot(c.scope_map, c.program_root)
      BY <1>1, <1>2, <2>1, SMTT(60) DEF Cache
    <2> HIDE DEF c
    <2> QED BY <2>1, <2>2, NoScopesType, InvSection, SMTT(60)
  <1>6. ASSUME NEW t \in Threads, NoteSkipped(t) \/ BeginSkipped(t) \/ FinishSkipped(t) PROVE IInv'
    BY <1>1, <1>6, NoScopesType, InvSection, SMTT(60) DEF NoteSkipped, BeginSkipped, FinishSkipped
  <1>7. ASSUME NEW t \in Threads, Begin(t) PROVE IInv'
    <2> DEFINE c == update(cached_scope, worker[t].prog)
    <2>1. Step(t, "begin", "finish", c, c.scope_map) /\ worker[t].pc = "begin"
      BY <1>7, SMTT(60) DEF Begin, Step
    <2>2. c \in Cache /\ OfRoot(c.scope_map, c.program_root) /\ c.program_root = worker[t].prog.root
      BY <1>1, <1>2, <2>1, UpdateOfRoot, SMTT(60)
    <2> HIDE DEF c
    <2>3. c.scope_map \in [Pkgs -> Scopes]
      BY <2>2, SMTT(60) DEF Cache
    <2> QED BY <2>1, <2>2, <2>3, InvSection, SMTT(60)
  <1>8. ASSUME NEW t \in Threads, Finish(t) PROVE IInv'
    <2> DEFINE prog == worker[t].prog
               c == update(cached_scope, prog)
               sm == check_and_lint_all_pkgs(prog, worker[t].scope_map)
               d == [c EXCEPT !.scope_map = sm, !.invalidate_pkg_modules = {None}]
    <2>1. Step(t, "finish", "idle", d, NoScopes) /\ worker[t].pc = "finish"
      BY <1>8 DEF Finish, Step
    <2>2. c \in Cache /\ c.program_root = prog.root
      BY <1>1, <1>2, <2>1, UpdateOfRoot, SMTT(60)
    <2>3. sm \in [Pkgs -> Scopes] /\ OfRoot(sm, prog.root)
      BY <1>2, <2>1, CheckOfRoot, SMTT(60)
    <2> HIDE DEF c, sm
    <2>4. d \in Cache /\ d.scope_map = sm /\ d.program_root = prog.root
      BY <2>2, <2>3, ZenonT(60) DEF Cache
    <2> HIDE DEF d
    <2> QED BY <2>1, <2>3, <2>4, NoScopesType, InvSection, SMTT(60)
  <1>9. CASE UNCHANGED vars
    BY <1>9, ZenonT(60) DEF vars, contentVars, loadVars, IInv, TypeOK, Running
  <1> QED BY <1>3, <1>4, <1>5, <1>6, <1>7, <1>8, <1>9, SMTT(60) DEF Next
-----------------------------------------------------------------------------
(* The variables of the cache and of the compiles keep their types. *)
THEOREM TypeCorrect == Spec => []TypeOK
  <1>1. IInv => TypeOK
    BY SMTT(60) DEF IInv
  <1> QED BY <1>1, InvInit, InvStep, PTL DEF Spec

(* For any roots and any compiles that interleave, CachedScope::update and   *)
(* the two sections of resolve_program_with_opts keep the cache to the       *)
(* packages of one root.                                                     *)
THEOREM OneRoot == Spec => []ScopesOfRoot
  <1>1. IInv => ScopesOfRoot
    BY DEF IInv, ScopesOfRoot, OfRoot
  <1> QED BY <1>1, InvInit, InvStep, PTL DEF Spec
=============================================================================
