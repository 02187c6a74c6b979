----------------------------- MODULE LspCompile -----------------------------
(* The compiles of the workspaces and what they share: the contents in vfs,  *)
(* the module cache (syntax trees and sources), the analysis databases, and  *)
(* the diagnostics shown by the client. A content is a version number, the   *)
(* version on disk is 0. Every lock section of a compile job is one step.    *)
EXTENDS Naturals, Sequences, FiniteSets, Functions

CONSTANTS
    Files,
    Workspaces,
    Entries,    \* the files of the main package of each workspace
    Imports,    \* the files each file imports
    Faulty,     \* the pairs of a file and a version with a syntax error
    Threads,
    None,       \* no version
    FailAt,     \* the steps of a compile that may fail
    MaxEdits,   \* bound: edits of all files
    MaxCloses   \* bound: files closed

ASSUME EntriesAssumption == Entries \in [Workspaces -> SUBSET Files]
ASSUME ImportsAssumption == Imports \in [Files -> SUBSET Files]
ASSUME FaultyAssumption == Faulty \in SUBSET (Files \X (1..MaxEdits))
ASSUME WorkspacesFinite == \A ws \in SUBSET Workspaces : Cardinality(ws) \in Nat
ASSUME BoundsAssumption == MaxEdits \in Nat /\ MaxCloses \in Nat
ASSUME NoneAssumption == None \notin Nat
ASSUME FailAtAssumption == FailAt \in SUBSET {"clear", "entries", "imports", "publish"}

VARIABLES
    vfs,        \* the version the client has of each file
    open,       \* the files in vfs
    edits,      \* edits made so far
    closes,     \* files closed so far
    ast_cache,  \* the version of each syntax tree in the module cache, or None
    source_code,\* the version of each source in the module cache, or None
    db,         \* the DBState of each workspace, with the versions in its program
    shown,      \* the version of the diagnostics shown for each file, or None
    poolq,      \* jobs waiting: a workspace and the changed file
    worker,     \* the job of each thread
    cleared,    \* history: the files other compiles cleared during each job
    suspect,    \* history: the files whose last edit met such a clear, or failed
    mixed,      \* history: the workspaces whose diagnostics got mixed up
    stranded    \* history: the workspaces whose last compile to end panicked

clientVars == <<vfs, open, edits, closes>>
cacheVars == <<ast_cache, source_code>>
history == <<cleared, suspect, mixed, stranded>>
vars == <<clientVars, cacheVars, db, shown, poolq, worker, history>>

Idle == [pc |-> "idle"]

(* The files of the program of a workspace: the least set that has its       *)
(* entries and what its files import.                                        *)
Reach == [w \in Workspaces |->
    {f \in Files : \A T \in SUBSET Files :
        Entries[w] \subseteq T /\ (\A g \in T : Imports[g] \subseteq T) => f \in T}]

(* The contents a compile reads: those in vfs, else those on disk. *)
Contents(f) == IF f \in open THEN vfs[f] ELSE 0

NoModules == [f \in Files |-> None]

(* The workspaces have been compiled and their files are open. *)
Init ==
    /\ vfs = [f \in Files |-> 0]
    /\ open = Files
    /\ edits = 0
    /\ closes = 0
    /\ ast_cache = [f \in Files |-> IF \E w \in Workspaces : f \in Reach[w] THEN 0 ELSE None]
    /\ source_code = NoModules
    /\ db = [w \in Workspaces |->
              [state |-> "Ready", diags |-> {},
               modules |-> [f \in Files |-> IF f \in Reach[w] THEN 0 ELSE None]]]
    /\ shown = NoModules
    /\ poolq = <<>>
    /\ worker = [t \in Threads |-> Idle]
    /\ cleared = [t \in Threads |-> {}]
    /\ suspect = {}
    /\ mixed = {}
    /\ stranded = {}
-----------------------------------------------------------------------------
(* The main thread: an edit queues a compile of the workspaces that contain  *)
(* the file, a close queues none.                                            *)

Edit(f) ==
    /\ f \in open
    /\ edits < MaxEdits
    /\ edits' = edits + 1
    /\ vfs' = [vfs EXCEPT ![f] = edits']
    /\ LET ws == {w \in Workspaces : f \in Reach[w]} IN
       \E order \in Bijection(1..Cardinality(ws), ws) :
          poolq' = poolq \o [i \in DOMAIN order |-> [w |-> order[i], file |-> f]]
    /\ suspect' = suspect \ {f}
    /\ UNCHANGED <<open, closes, cacheVars, db, shown, worker, cleared, mixed, stranded>>

Close(f) ==
    /\ f \in open
    /\ closes < MaxCloses
    /\ closes' = closes + 1
    /\ open' = open \ {f}
    /\ vfs' = [vfs EXCEPT ![f] = 0]
    /\ UNCHANGED <<edits, cacheVars, db, shown, poolq, worker, history>>
-----------------------------------------------------------------------------
(* The compile job. *)

Step(t, from, job) ==
    /\ worker[t].pc = from
    /\ worker' = [worker EXCEPT ![t] = job]

Todo(t, pc) == IF worker[t].pc = pc THEN worker[t].todo ELSE {}

Active == {t \in Threads : worker[t].pc \notin {"idle", "panicked"}}

Stored(w) == IF db[w].state \in {"Ready", "Compiling"} THEN db[w].diags ELSE {}

(* A thread takes a job and reads the diagnostics of the last compile. *)
ReadOldDiags(t) ==
    /\ poolq /= <<>>
    /\ Step(t, "idle", [pc |-> "mark", w |-> Head(poolq).w, file |-> Head(poolq).file,
                        old |-> Stored(Head(poolq).w),
                        code |-> NoModules, modules |-> NoModules, parsing |-> None,
                        src |-> 0, diags |-> {}, todo |-> {}, ok |-> TRUE])
    /\ poolq' = Tail(poolq)
    /\ cleared' = [cleared EXCEPT ![t] = {}]
    /\ mixed' = mixed \cup {w \in {Head(poolq).w} : \E u \in Active : worker[u].w = w}
    /\ UNCHANGED <<clientVars, cacheVars, db, shown, suspect, stranded>>

Mark(t) ==
    /\ Step(t, "mark", [worker[t] EXCEPT !.pc = "load"])
    /\ db' = [db EXCEPT ![worker[t].w].state =
                IF @ \in {"Ready", "Compiling"} THEN "Compiling" ELSE "Init"]
    /\ UNCHANGED <<clientVars, cacheVars, shown, poolq, history>>

(* compile: the code of the main package is read from vfs. *)
LoadCode(t) ==
    /\ Step(t, "load", [worker[t] EXCEPT !.pc = "clear",
                          !.code = [f \in Files |-> IF f \in Entries[worker[t].w] THEN Contents(f) ELSE None]])
    /\ UNCHANGED <<clientVars, cacheVars, db, shown, poolq, history>>

(* The other jobs that are between reading their code and storing their      *)
(* result and have the file in their program.                                *)
Reading == {t \in Active : worker[t].pc \notin {"mark", "load"}}
Disturbed(t, f) == {u \in Reading \ {t} : f \in Reach[worker[u].w]}

ClearWith(t, tree, source) ==
    LET f == worker[t].file IN
    /\ Step(t, "clear", [worker[t] EXCEPT !.pc = "entries", !.todo = Entries[worker[t].w]])
    /\ ast_cache' = [ast_cache EXCEPT ![f] = tree]
    /\ source_code' = [source_code EXCEPT ![f] = source]
    /\ cleared' = [u \in Threads |-> IF u \in Disturbed(t, f) THEN cleared[u] \cup {f} ELSE cleared[u]]
    /\ suspect' = IF Disturbed(t, f) = {} THEN suspect ELSE suspect \cup {f}
    /\ UNCHANGED <<clientVars, db, shown, poolq, mixed, stranded>>

(* Mutants: the tree stays in the cache; the source is inserted only when    *)
(* there is none.                                                            *)
ClearModuleKeepsTree(t) ==
    ClearWith(t, ast_cache[worker[t].file], Contents(worker[t].file))
ClearModuleOldSource(t) ==
    LET f == worker[t].file IN
    ClearWith(t, None, IF source_code[f] /= None THEN source_code[f] ELSE Contents(f))

(* Under the module cache's lock the changed file leaves the cache and its   *)
(* contents become its source.                                               *)
ClearModule(t) == ClearWith(t, None, Contents(worker[t].file))

Report(f, v) == IF <<f, v>> \in Faulty THEN {<<f, v>>} ELSE {}

(* The entries are parsed from the code read above, cached or not. *)
ParseEntry(t) ==
    \E f \in Todo(t, "entries") :
        LET v == worker[t].code[f]
            rest == worker[t].todo \ {f}
        IN
        /\ Step(t, "entries", [worker[t] EXCEPT
                    !.pc = IF rest = {} THEN "imports" ELSE @,
                    !.todo = IF rest = {}
                             THEN Reach[worker[t].w] \ Entries[worker[t].w]
                             ELSE rest,
                    !.diags = @ \cup Report(f, v)])
        /\ ast_cache' = [ast_cache EXCEPT ![f] = v]
        /\ UNCHANGED <<clientVars, source_code, db, shown, poolq, history>>

(* Mutant: an imported file is taken to be cached. *)
VisitImportCached(t) ==
    \E f \in Todo(t, "imports") :
        /\ Step(t, "imports", [worker[t] EXCEPT !.todo = @ \ {f}])
        /\ UNCHANGED <<clientVars, cacheVars, db, shown, poolq, history>>

(* An imported file is parsed if its tree is not cached: its source is read, *)
(* from the cache or from disk, and the tree is inserted later.              *)
VisitImport(t) ==
    \E f \in Todo(t, "imports") :
        /\ Step(t, "imports", IF ast_cache[f] /= None
                              THEN [worker[t] EXCEPT !.todo = @ \ {f}]
                              ELSE [worker[t] EXCEPT
                                       !.pc = "parse", !.todo = @ \ {f},
                                       !.parsing = f,
                                       !.src = IF source_code[f] /= None THEN source_code[f] ELSE 0])
        /\ UNCHANGED <<clientVars, cacheVars, db, shown, poolq, history>>

InsertModule(t) ==
    LET f == worker[t].parsing
        v == worker[t].src
    IN
    /\ Step(t, "parse", [worker[t] EXCEPT !.pc = "imports", !.diags = @ \cup Report(f, v)])
    /\ ast_cache' = [ast_cache EXCEPT ![f] = v]
    /\ UNCHANGED <<clientVars, source_code, db, shown, poolq, history>>

ImportsDone(t) ==
    /\ worker[t].pc = "imports"
    /\ worker[t].todo = {}
    /\ Step(t, "imports", [worker[t] EXCEPT !.pc = "collect", !.todo = Reach[worker[t].w]])
    /\ UNCHANGED <<clientVars, cacheVars, db, shown, poolq, history>>

(* Mutant: diagnostics that are gone are not published. *)
PublishedNew(job) == {d[1] : d \in job.diags}

Published(job) == {d[1] : d \in job.old \cup job.diags}

(* The compile fails. Before the program is loaded its diagnostics are lost, *)
(* afterwards (the advanced resolver fails) they are kept.                   *)
CompileFails(t) ==
    LET diags == IF worker[t].pc = "publish" THEN worker[t].diags ELSE {} IN
    /\ worker[t].pc \in FailAt
    /\ worker[t].ok
    /\ worker[t].pc = "publish" => worker[t].todo = Published(worker[t])
    /\ Step(t, worker[t].pc, [worker[t] EXCEPT
                !.pc = "publish", !.ok = FALSE, !.diags = diags,
                !.todo = Published([worker[t] EXCEPT !.diags = diags])])
    /\ suspect' = IF worker[t].pc = "clear" THEN suspect \cup {worker[t].file} ELSE suspect
    /\ mixed' = IF worker[t].pc = "publish" THEN mixed \cup {worker[t].w} ELSE mixed
    /\ UNCHANGED <<clientVars, cacheVars, db, shown, poolq, cleared, stranded>>

(* parse_program puts the program together from the cache, *)
Collect(t) ==
    \E f \in Todo(t, "collect") :
        LET rest == worker[t].todo \ {f} IN
        /\ ast_cache[f] /= None
        /\ Step(t, "collect", [worker[t] EXCEPT
                    !.modules[f] = ast_cache[f],
                    !.pc = IF rest = {} THEN "publish" ELSE @,
                    !.todo = IF rest = {} THEN Published(worker[t]) ELSE rest])
        /\ UNCHANGED <<clientVars, cacheVars, db, shown, poolq, history>>

(* and panics on a tree that is missing there: the job ends.                 *)
CollectPanics(t) ==
    \E f \in Todo(t, "collect") :
        /\ ast_cache[f] = None
        /\ Step(t, "collect", [pc |-> "panicked"])
        /\ suspect' = suspect \cup {worker[t].file}
        /\ stranded' = stranded \cup {w \in {worker[t].w} : \E v \in Workspaces \ {w} : f \in Reach[v]}
        /\ UNCHANGED <<clientVars, cacheVars, db, shown, poolq, cleared, mixed>>

(* The client is told about each file that has diagnostics now or had some   *)
(* before.                                                                   *)
Publish(t) ==
    \E f \in Todo(t, "publish") :
        /\ Step(t, "publish", [worker[t] EXCEPT !.todo = @ \ {f}])
        /\ shown' = [shown EXCEPT ![f] =
                        IF \E d \in worker[t].diags : d[1] = f
                        THEN (CHOOSE d \in worker[t].diags : d[1] = f)[2]
                        ELSE None]
        /\ UNCHANGED <<clientVars, cacheVars, db, poolq, history>>

StoreWith(t, ready, failed) ==
    /\ worker[t].pc = "publish"
    /\ worker[t].todo = {}
    /\ db' = [db EXCEPT ![worker[t].w] = IF worker[t].ok THEN ready ELSE failed]
    /\ worker' = [worker EXCEPT ![t] = Idle]
    /\ stranded' = stranded \ {worker[t].w}
    /\ UNCHANGED <<clientVars, cacheVars, shown, poolq, cleared, suspect, mixed>>

Ready(job) == [state |-> "Ready", modules |-> job.modules, diags |-> job.diags]
CompileFailed == [state |-> "Failed", modules |-> NoModules, diags |-> {}]

StoreOnlyReady(t) == StoreWith(t, Ready(worker[t]), db[worker[t].w])

(* The database of a successful compile, or its failure, is stored. *)
Store(t) == StoreWith(t, Ready(worker[t]), CompileFailed)

(* The pool replaces a thread that panicked. *)
Replace(t) ==
    /\ Step(t, "panicked", Idle)
    /\ UNCHANGED <<clientVars, cacheVars, db, shown, poolq, history>>

CompileStep(t) ==
    \/ ReadOldDiags(t) \/ Mark(t) \/ LoadCode(t) \/ ClearModule(t) \/ ParseEntry(t)
    \/ VisitImport(t) \/ InsertModule(t) \/ ImportsDone(t) \/ CompileFails(t)
    \/ Collect(t) \/ CollectPanics(t) \/ Publish(t) \/ Store(t) \/ Replace(t)

Next ==
    \/ \E f \in Files : Edit(f)
    \/ \E f \in Files : Close(f)
    \/ \E t \in Threads : CompileStep(t)

Spec == Init /\ [][Next]_vars

(* A pool thread takes waiting jobs and runs them to their end. *)
FairSpec == Spec /\ \A t \in Threads : WF_vars(CompileStep(t))
-----------------------------------------------------------------------------
(* Properties. *)

Versions == 0..MaxEdits
JobRecords ==
    [pc : {"mark", "load", "clear", "entries", "imports", "parse", "collect", "publish"},
     w : Workspaces, file : Files, old : SUBSET Faulty,
     code : [Files -> Versions \cup {None}], modules : [Files -> Versions \cup {None}],
     parsing : Files \cup {None}, src : Versions, diags : SUBSET Faulty,
     todo : SUBSET Files, ok : BOOLEAN]

(* The variables stay in their types. *)
TypeOK ==
    /\ vfs \in [Files -> Versions]
    /\ open \in SUBSET Files
    /\ edits \in Versions /\ closes \in 0..MaxCloses
    /\ ast_cache \in [Files -> Versions \cup {None}]
    /\ source_code \in [Files -> Versions \cup {None}]
    /\ db \in [Workspaces -> [state : {"Init", "Ready", "Compiling", "Failed"},
                              modules : [Files -> Versions \cup {None}],
                              diags : SUBSET Faulty]]
    /\ shown \in [Files -> Versions \cup {None}]
    /\ poolq \in Seq([w : Workspaces, file : Files])
    /\ worker \in [Threads -> {Idle, [pc |-> "panicked"]} \cup JobRecords]
    /\ cleared \in [Threads -> SUBSET Files]
    /\ suspect \in SUBSET Files
    /\ mixed \in SUBSET Workspaces
    /\ stranded \in SUBSET Workspaces

Quiet == poolq = <<>> /\ \A t \in Threads : worker[t] = Idle

(* "Update db cache when create(did_open_file), modify(did_change) or        *)
(* delete(did_close_file) vfs files": the database of a workspace that has   *)
(* settled holds the contents the client has.                                *)
DbCurrent ==
    Quiet => \A w \in Workspaces : db[w].state = "Ready" =>
        \A f \in Reach[w] : db[w].modules[f] = Contents(f)

(* It does hold the last edit of every open file, however compiles overlap,  *)
(* fail or panic, unless one of the compiles for that very edit cleared the  *)
(* file under a compile that had read it, failed before it cleared it, or    *)
(* panicked. A later edit of the file makes up for all of them.              *)
DbSettles ==
    Quiet => \A w \in Workspaces : db[w].state = "Ready" =>
        \A f \in (Reach[w] \cap open) \ suspect : db[w].modules[f] = vfs[f]

(* However compiles interleave, the source in the module cache of an open    *)
(* file that was edited is its contents, unless a compile for the file has   *)
(* not cleared it yet: the source is read and stored under one lock.         *)
SourceCurrent ==
    \A f \in open : vfs[f] > 0 =>
        \/ source_code[f] = vfs[f]
        \/ \E i \in DOMAIN poolq : poolq[i].file = f
        \/ \E t \in Active : worker[t].file = f /\ worker[t].pc \in {"mark", "load", "clear"}

(* The entries that no other workspace has in its program. *)
OwnEntries(w) == {f \in Entries[w] : \A v \in Workspaces \ {w} : f \notin Reach[v]}

Right(f, v) == IF <<f, v>> \in Faulty THEN v ELSE None

(* Once settled, an entry shows the syntax errors of its contents and no     *)
(* others: they appear and are cleared again whatever edits, failing and     *)
(* panicking compiles and compiles of other workspaces come between. Only    *)
(* two compiles of the workspace that overlap, and one that fails after it   *)
(* has published, may leave others.                                          *)
EntryDiagsSettle ==
    Quiet => \A w \in Workspaces \ mixed : db[w].state = "Ready" =>
        \A f \in OwnEntries(w) \cap open : shown[f] = Right(f, vfs[f])

(* A tree that is missing when the program is put together ("Module not      *)
(* found in module") was in the cache when this compile visited the file:    *)
(* a compile for an edit of that file has removed it since.                  *)
MissingWasCleared ==
    \A t \in Threads : worker[t].pc = "collect" =>
        \A f \in worker[t].todo : ast_cache[f] /= None \/ f \in cleared[t]

(* A workspace being compiled gets a database, so that what waits for the    *)
(* database is answered, unless its compile panicked on a file of another    *)
(* workspace: compiles of one workspace that panic are made up for by the    *)
(* one that removed their tree.                                              *)
CompilesEnd ==
    \A w \in Workspaces : db[w].state \in {"Init", "Compiling"}
                             ~> db[w].state \in {"Ready", "Failed"} \/ w \in stranded
-----------------------------------------------------------------------------
(* The invariants the properties rest on. *)

Kept(t, S) == \A f \in S : ast_cache[f] /= None \/ f \in cleared[t]

(* The trees a job has visited are in the module cache until it has put its  *)
(* program together, or others have cleared them.                            *)
TreesKept ==
    \A t \in Threads : LET j == worker[t] IN
        /\ j.pc \in {"clear", "entries"} => \A f \in Entries[j.w] : j.code[f] /= None
        /\ j.pc = "entries" => j.todo \subseteq Entries[j.w] /\ Kept(t, Entries[j.w] \ j.todo)
        /\ j.pc = "imports" => Kept(t, Reach[j.w] \ j.todo)
        /\ j.pc = "parse" => Kept(t, Reach[j.w] \ (j.todo \cup {j.parsing}))
        /\ j.pc = "collect" => j.todo \subseteq Reach[j.w] /\ Kept(t, Reach[j.w])

Queued(w, f) == \E i \in DOMAIN poolq : poolq[i].w = w /\ poolq[i].file = f
ToClear == {t \in Active : worker[t].pc \in {"mark", "load", "clear"}}

(* Every workspace of the file has a compile, other than those in T, that    *)
(* has still to clear it.                                                    *)
AllToClear(f, T) ==
    \A w \in Workspaces : f \in Reach[w] =>
        Queued(w, f) \/ \E u \in ToClear \ T : worker[u].w = w /\ worker[u].file = f

(* What the module cache, a job and a database have of a file is the         *)
(* client's, or compiles that correct it are on their way.                   *)
CacheUpToDate(f) ==
    \/ AllToClear(f, {})
    \/ /\ ast_cache[f] \in {None, vfs[f]}
       /\ (IF source_code[f] /= None THEN source_code[f] ELSE 0) = vfs[f]

HasLatest(j, f) ==
    /\ f \in Entries[j.w] => j.code[f] = vfs[f]
    /\ j.pc = "parse" /\ j.parsing = f => j.src = vfs[f]
    /\ j.pc = "collect" /\ f \notin j.todo => j.modules[f] = vfs[f]
    /\ j.pc = "publish" /\ j.ok => j.modules[f] = vfs[f]

JobUpToDate(t, f) == AllToClear(f, {t}) \/ HasLatest(worker[t], f)

DbUpToDate(w, f) ==
    \/ db[w].modules[f] = vfs[f]
    \/ Queued(w, f)
    \/ \E t \in Active : worker[t].w = w /\ worker[t].file = f

Current ==
    \A f \in open \ suspect :
        /\ CacheUpToDate(f)
        /\ \A t \in Reading : f \in Reach[worker[t].w] => JobUpToDate(t, f)
        /\ \A w \in Workspaces : db[w].state = "Ready" /\ f \in Reach[w] => DbUpToDate(w, f)

(* A workspace's diagnostics are about files of its program. *)
DiagsOfProgram ==
    /\ \A w \in Workspaces : \A d \in db[w].diags : d[1] \in Reach[w]
    /\ \A t \in Active : LET j == worker[t] IN
         /\ \A d \in j.old \cup j.diags : d[1] \in Reach[j.w]
         /\ j.pc = "entries" => j.todo \subseteq Entries[j.w]
         /\ j.pc \in {"imports", "parse"} => j.todo \subseteq Reach[j.w] \ Entries[j.w]
         /\ j.pc = "parse" => j.parsing \in Reach[j.w] \ Entries[j.w]
         /\ j.pc = "publish" => j.todo \subseteq Reach[j.w]

Compiled(w) == \E t \in Active : worker[t].w = w
DiagsOf(S, f) == {d \in S : d[1] = f}

(* Unless they are mixed up, a workspace is compiled by one job at a time,   *)
OneCompile == \A t, u \in Active : worker[t].w = worker[u].w => t = u \/ worker[t].w \in mixed

(* and what is shown for an entry is what its database, or the job that      *)
(* compiles it, knows of it.                                                 *)
DbShows(w, f) ==
    /\ shown[f] /= None => \E d \in Stored(w) : d[1] = f
    /\ db[w].state = "Ready" /\ f \in open => shown[f] = Right(f, vfs[f]) \/ Queued(w, f)

Tells(j, f, seen) ==
    /\ j.pc /= "publish" => j.ok /\ (seen[f] /= None => \E d \in j.old : d[1] = f)
    /\ j.pc \in {"mark", "load", "clear"} => j.diags = {}
    /\ j.pc = "entries" => DiagsOf(j.diags, f) = IF f \in j.todo THEN {} ELSE Report(f, j.code[f])
    /\ j.pc \in {"imports", "parse", "collect"} => DiagsOf(j.diags, f) = Report(f, j.code[f])
    /\ j.pc = "publish" =>
         /\ DiagsOf(j.diags, f) = IF j.ok THEN Report(f, j.code[f]) ELSE {}
         /\ f \notin j.todo => seen[f] = IF j.ok THEN Right(f, j.code[f]) ELSE None

JobShows(t, f) ==
    LET j == worker[t] IN
    /\ Tells(j, f, shown)
    /\ j.pc /= "publish" => j.old = Stored(j.w)
    /\ j.pc \notin {"mark", "publish"} => db[j.w].state /= "Ready"
    /\ t \in Reading /\ f \in open => j.code[f] = vfs[f] \/ Queued(j.w, f)

Shows ==
    \A w \in Workspaces \ mixed : \A f \in OwnEntries(w) :
        /\ ~Compiled(w) => DbShows(w, f)
        /\ \A t \in Active : worker[t].w = w => JobShows(t, f)
=============================================================================
