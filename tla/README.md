# KCL: a TLA+ model of the compiler, its language server and its tools

KCL is a configuration language. The repository holds its compiler (parser, type
checker, an evaluator that walks the tree, a code generator), its runtime, a
language server and tools such as the formatter. This project models the parts
whose correctness depends on the order in which things happen (the server, the
caches, the processes that share a directory, the executor of `compiler_base`),
and the parts that are large functions of their input but must agree with each
other (checker and evaluator, evaluator and compiled code, parser and printer).
Each module is translated from the Rust source; `PROJECT.json` maps every
definition to the lines it stands for, and lists the hazards of the code with the
properties that guard them.

Paths below are relative to `src/kclvm` unless they begin with `compiler_base`.

## 1. The system

### 1.1 Parts

| Part | Source | What is hard about it | Modules |
|---|---|---|---|
| Requests of the language server | `tools/src/LSP/src/{state,request,dispatcher,notification}.rs` | a retry racing a cancel, answers after a shutdown, workers that panic | `LspRequests`, `RequestContract` |
| Files and workspaces of the server | the same | a delayed task for a closed file, a compile that ends after the close | `LspWorkspaces` |
| Compiles, module cache, diagnostics | `LSP/src/{state,compile,analysis}.rs`, `parser/src/lib.rs` | compiles that overlap and share trees, compiles that fail half way | `LspCompile` |
| Locks of the server | `LSP/src/*.rs` | six read-write locks, writers that stop new readers | `LspLocks` |
| Incremental resolver | `sema/src/resolver/{mod,scope}.rs` | which scopes a change invalidates; `try_write` that fails and skips | `ScopeCache` |
| Package loader | `parser/src/{lib,file_graph}.rs` | trees of an earlier load, cycles, one file in two packages | `ModuleLoader` |
| Package cache, native runner | `config/src/cache.rs`, `runner/src/{lib,assembler,runner}.rs` | processes that share a directory, kills, edits while compiling | `PkgCache` |
| Fast runner | `runner/src/runner.rs`, `api/src/*/service.rs` | one panic hook for all threads | `PanicHook` |
| Task executor | `compiler_base/parallel/src` | a deadline racing results, slots, panics | `TimeoutExecutor` |
| Global variables and schemas | `evaluator/src/{lazy,scope,schema,context,node}.rs` | values that do not depend on the order of statements | `LazyScope`, `GlobalEval`, `SchemaEval` |
| Type checker | `sema/src/{ty,resolver,builtin}` | agrees with what happens at run time | `Types`, `Declared`, `Checker`, `Language` |
| Expressions at run time | `evaluator/src`, `runtime/src/value` | integers that overflow, unions of configurations, conversions | `Ast`, `Values`, `Union`, `Evaluator` |
| Generated code | `compiler/src/codegen/llvm`, `runtime/src/value/api.rs` | updates in place of values that names share | `Compiled` |
| Library | `runtime/src/*`, `sema/src/builtin` | arguments by position or keyword; offsets in bytes | `Library`, `Strings` |
| Lexer, parser, printer, formatter | `parser/src`, `ast_pretty/src`, `tools/src/format` | what is printed parses to the same tree | `Syntax`, `Parser`, `Printer`, `Format` |
| Query tools | `query/src/{override,selector,path,query}.rs` | a path is changed and nothing else | `Query` |

The parts that are not modelled are in section 6.

### 1.2 How they interact

The main loop of the server is one thread. It takes client messages and internal
tasks, changes the virtual file system and the maps, and hands computations to a
pool. Compile jobs write `workspaces` and `temporary_workspace` and send
diagnostics back as tasks; request jobs read the maps and send a response or a
retry back as a task. A compile job calls the loader, the resolver and the namer
on caches that all jobs share.

The command line and the service load a program (`ModuleLoader`), check it
(`Checker`) and run it in one of two ways: `FastRunner` evaluates the tree
(`Evaluator`, `GlobalEval`, `SchemaEval`, inside the hooks of `PanicHook`), the
native runner compiles it (`Compiled`) to objects that are cached on disk
(`PkgCache`). Both use one runtime (`Values`, `Union`, `Library`, `Strings`). The
formatter and the query tools parse a file, change the tree and print it again.
The executor of `compiler_base` is a library of its own.

## 2. Modules

A module `MCx` holds the values, and where components are checked in one run the
next-state relation, that TLC needs; a module `xProofs` holds theorems.
Definitions whose comment begins with `Mutant:` are wrong variants of the
definition that follows; nothing in the specifications uses them. A bound has a name
that begins with `Max` (or is `RetryCap`) and is a conjunct of a guard of the
environment; the queues of `LspWorkspaces`, which the program itself makes grow, are
cut by a state constraint of the run instead. A history variable records what a
property needs to know of the past; no guard reads it (`outcome` and `stranded` in
`LspWorkspaces`; `cleared`, `suspect`, `mixed` and `stranded` in `LspCompile`; `left`
and `added` in `ModuleLoader`; `spoiled` and `calm` in `PkgCache`; `disturbed` in
`PanicHook`).

### 2.1 State machines

| Module | State and actions |
|---|---|
| `LspRequests` | `pending` is `request_queue.incoming`, `tasks` the task channel, `poolq` and `worker` the thread pool. `ReceiveRequest` (with `on_request`), `cancel`, `Exit`, `HandleResponse`, `HandleRetry`, `TakeJob`, `ComputeAnswer`, `ComputeRetry`, `CountRetry`, `ComputePanic`. The state of the database a handler reads changes by `Environment` |
| `RequestContract` | `status` of each request: sent once, then answered once or cancelled |
| `LspWorkspaces` | `opened_files`, `temporary_workspace`, `workspaces`, `workspace_config_cache`; notifications of the client, the arms of `process_changed_file`, `handle_task`, and the steps of a compile job between its locks: `StartCompile`, `CompileOk`, `RecordTemporary`, `CompileErr`, `CompilePanics` |
| `LspCompile` | `vfs`, module cache, databases and shown diagnostics hold version numbers; one action for each part of a job between two lock sections, from `ReadOldDiags` to `Store`; failures at four places (`FailAt`); the panic on a missing tree, after which the pool replaces the thread |
| `LspLocks` | a handler or job is the sequence of its lock operations; `AnnounceWrite` and `AcquireWrite` are the two halves of a write in parking_lot |
| `ScopeCache` | a scope is the set of file versions it was made from. `Edit`, `Start` (parse), and the three sections under the cache's lock, `Note`, `Begin`, `Finish`, each of which is skipped when `try_write` fails |
| `ModuleLoader` | directories, the imports in each text, the module cache. `load_all_files_under_paths` is one step; files are edited, created, made unreadable between loads |
| `PkgCache` | sources, object files, info file, cache entries, lock files, and the place of each process between `parse` and `done`; `Stop` kills a process anywhere, `Edit` changes a package anywhere |
| `PanicHook` | the hook of the process, the panic record of each thread, the hooks each call has taken; the steps of `catch!` and of `FastRunner::run` |
| `TimeoutExecutor` | `pc` is the place in `run_all_tasks`. `Load`, `Loaded`, `Receive`, `ReceiveTimeout`, `all_timed_out_tasks_info`, `Join`, `Report`, `NotifyFails`; of a task `Send`, `PanicSilently`, `End`, `PanicAfter` |
| `GlobalEval` | the scope of the evaluator (`LazyScope`: setters, levels, cache) and its walk over the modules of a package: one top-level statement is one step, with all the backtracking it causes |
| `SchemaEval` | the evaluation contexts of the schemas and the heap of instances; one schema expression of the main package is one step |
| `Format` | a text, the tree it was parsed to: `parse_file`, `format_file` |
| `Query` | a file and its tree; `parse_spec` and `apply_override` for one specification after another, `write_file`, and reading the file again; or `list` of a path |
| `Language` | a program that grows by a statement: types from `Checker`, values from `Evaluator` and from `Compiled`, compared |

The modules of the server look at the same threads from several sides and do not
share state: each keeps the control of the handlers in full and abstracts the
data that belongs to another. Where one needs an outcome another one decides, it
is a free choice: whether a query finds a ready database (`LspRequests`), whether
a compile of a workspace fails (`Failing` in `LspWorkspaces`, `FailAt` in
`LspCompile`), and, in `LspWorkspaces`, whether it panics.

### 2.2 Functions

| Module | Models |
|---|---|
| `Types` | the types of the resolver, `subsume`, least upper bounds, widening, assignability |
| `Declared` | the types the checker gives builtins, system modules and string members |
| `Checker` | `Check`, the walk of the resolver over expressions and statements: a type and whether an error was reported |
| `Ast` | expressions and statements as the next three modules walk them |
| `Values` | operators of the runtime on values; integers of `IntWidth` bits, floats counted in halves up to `FloatInf` |
| `Union` | merging of configurations with their operations and indexes, schema instances, conversion to a type |
| `Evaluator` | `Eval`, the tree walker; an environment gives names their values |
| `Compiled` | `Run`, what the emitted code does: a name has a value and the cell that holds it, which other names may share |
| `Library` | which arguments a function reads, by position or keyword, which kinds it takes and answers |
| `Strings` | the string members by what they compute, on letters that may be several bytes long |
| `LazyScope` | setters, levels and caches of names, shared by `GlobalEval` and `SchemaEval` |
| `Syntax` | texts as sequences of words, tokens with indents and dedents, trees |
| `Parser` | the recursive descent parser with its precedence climbing |
| `Printer` | the printer with its indents and the greatest line it has printed |

### 2.3 Abstractions a reader should know

- **LspRequests.** What a handler computes is left out; whether it answers,
  retries or panics depends on the state of the database and on the locks, as in
  `try_get_db_state`. Retries are counted up to `RetryCap` and then stay there.
- **LspWorkspaces.** `Lookup` is `lookup_compile_workspaces`, `Modules` the files
  a database of the workspace knows. The `Delete` arm and the `Err` arm of a job
  hold two locks each and are one step (that the two orders deadlock is the
  subject of `LspLocks`). Which trees a compile reads is in `LspCompile`; here a
  compile may panic once it is `disturbed`: another compile at work at the same time
  has a changed file that is part of its program. A panicked job writes no map and
  its thread is free again. The `Create` arm's `insert(None)` and later `remove` are
  one step, because requests only read the entry in between; where the main thread
  panics before the `remove` the entry stays pending. An edit that leaves the text as it
  was makes no change in the vfs and no step. `handle_changed_confg_file` is
  unreachable: the event that leads to it is commented out in `next_event`.
- **LspCompile.** A text is a version; `Faulty` says which versions of which
  files have errors.
- **ScopeCache.** Parsing is one step with the contents at that moment, since stale
  trees are a subject of `LspCompile`. Packages do not appear or vanish on disk,
  imports have no cycles, and there are fewer than `MAX_SCAN_FILES` files. The
  `Err` arm of `invalidate_cache` is unreachable, as `DependencyGraph::update`
  never fails. `node_ty_map`, `schema_mapping` and the global state are left out.
  A compile that skips a section does so only while another compile is under way.
- **TimeoutExecutor.** `Waiting` as a status is treated by the code like `Failed`
  and stands under it. A task sends at most one result and task ids are unique.
  The deadline is an instant fixed with the executor, so all entries of the queue
  have the same one and `late` is a Boolean. After a bug the receiver is
  forgotten, after `Ok` or an error of the notifier it is dropped.
- **PkgCache.** An object is the version of the sources it was compiled from and
  the md5 is the version itself. `External` are the packages outside the root, whose
  cache file is saved even if the package is gone. `spoiled` are the packages whose
  object was replaced without their md5; `calm` says that the sources changed between
  complete runs only.
- **PanicHook.** `disturbed` are the threads whose recording hook was replaced by one
  that does not record while their program ran.
- **ModuleLoader.** A tree is the set of packages its text imports and whether its
  relative imports were made full paths. Packages whose directory has no file are kept
  apart, as the loader does. A load is one step: loads that overlap are a subject of
  `LspCompile`.
- **GlobalEval, SchemaEval.** An expression is a number or a name plus a number,
  in schemas also an instance of another schema. The wrap-around of
  `n - next_level` (lazy.rs:356) is modelled as what the comparison after it makes
  of it.
- **Language.** One package, no imports. Schemas are sets of optional attributes
  with a base and an index signature; their bodies are the subject of
  `SchemaEval`. Both back ends read globals lazily: `Walked` gives the order in which
  statements run when a name is read before its last setter (the setters first, and
  the later one again when the walk comes to it). A value nested in a list or dictionary shares its cell in compiled
  code too, and programs that update it afterwards are left out.
- **Syntax, Parser, Printer.** A word is a token: characters, string escapes,
  interpolation, comments and half levels of indentation are left out, as is the
  recovery after a syntax error.
- **Query.** One file, which parses. A key is the sequence of its dotted parts, one of
  which (`x-y`) needs quotes: the printer keeps those of a configuration's keys and
  writes assignment targets without.

## 3. Runs

| Run | Instance | What it shows |
|---|---|---|
| `requests` | a retrying request, a query, a shutdown and a malformed one; 2 threads; `RetryCap` 1; fair | at most one answer (`AtMostOneResponse`); the server implements `RequestContract`; once the analysis has settled, or after a shutdown, everything is answered (`EventuallyAnswered`) |
| `workspaces` | 2 files, a folder workspace and a found one, both of which may fail; 2 threads, whose compiles may panic; 4 notifications; states with more than 2 tasks or 2 jobs in a queue are not continued | what is recorded for an open file has a state (`RecordedHasState`); what is pending has a compile of its file on its way, or that compile panicked (`PendingHasCompile`); what is Init or Compiling is compiled by a thread, or such a compile panicked and none ended since (`BusyHasCompile`); when all is quiet an open file is known unless a compile of its own failed or panicked (`OpenFileKnown`); the main thread panics only on a closed file (`PanicsOnlyOnClosed`) |
| `compile_settles` | 2 workspaces that share an import; 2 threads; 2 edits; 1 close; failures before the cache is cleared and after there are results; panics | a settled database holds the last edit of every open file (`DbSettles`) and an entry shows the errors of its text (`EntryDiagsSettle`), but for the overlaps both name |
| `compile_parallel` | the same workspaces and threads; 2 edits; failing entries; panics; fair | the cached source is that of the latest text (`SourceCurrent`); a tree that is missing was cleared by another compile (`MissingWasCleared`); no workspace stays busy, but for a panic on a file that two workspaces share (`CompilesEnd`) |
| `compile_stale` (violation) | 1 workspace; 2 threads; 2 edits | two compiles finish out of order and the older database stays |
| `locks` | the main thread and 2 workers; fair | one circle of waits only (`OnlyCloseAndFailure`); outside that circle every handler of the main thread ends (`MainReturnsOrCaught`) |
| `executor` | 3 tasks; 2 slots; fair | `AtMostCapacity`; the notifier hears of a task in order, and never of a timeout after the end (`EventsInOrder`); sends fail only after the notifier did (`SendFailsOnlyAfterNotifyError`); every task that does not vanish is reported (`OthersReported`) |
| `incremental` | 2 workspaces under 2 roots with the same package paths; 2 threads; 3 edits; 1 overlap; 2 loads of 3 files in 2 packages, one of which may be empty, with 2 changes, all import graphs, scans of up to 2 packages | the cache has scopes of one root only (`ScopesOfRoot`); compiles that do not overlap leave a stale scope only for one of two reasons (`StaleHasReason`); a load with cached trees returns what one without returns, but for the gaps of section 5 (`IncrementalIsFresh`), and reports the same cycles (`CyclesReported`) |
| `language` | programs of 2 and 3 statements, also with a name read before it is updated, over values and annotations of every kind, one call of every library function, texts of up to 4 letters; integers of 5 bits | values have their types (`TypesSound`); what the checker accepts does not stop with a type error (`NoTypeError`); both back ends agree (`BackendsAgree`); functions understand the calls the checker accepts (`CallsAsDeclared`); string members agree with each other (`MembersAgree`) |
| `evaluator` | packages of up to 3 statements on 3 names, 4 when they are well-defined, with an if and 2 others; families of 3 schemas with 3 statements and 4 configs | a value does not depend on the order of statements (`OrderIndependent`, `CacheIsFinal`), ifs run as written where names are declared first (`SequentialWhenDeclaredFirst`), attributes are bound late (`LateBinding`) |
| `build` | 2 processes, 2 packages, one of them external, 2 runs, 1 edit, 1 kill; 2 threads with 3 calls of the runner; fair | `Coherent`, `LinksWhatItParsed`, `RunsEnd` of the cache; `ReportsOwnPanic` of the runner, for calls that overlap too |
| `format` | expressions nested two deep in both layouts, every statement form alone and before another, chains of 3 operators, 3 rounds; files of 2 declarations with 21 overrides and 7 paths, keys that need quotes and keys that occur twice among them | `FormatKeepsProgram`, `FormatSettles`, `BindsByPrecedence`; overriding and listing are exact (`QueriesAreExact`) |

The exceptions a property makes are operators of their own with the behaviour in
their comment (`Unfaithful` in `Format`, `ResultMistyped`, `LiteralPasses` and others in
`Language`, `WellDefined` in `GlobalEval` and `SchemaEval`, `Unambiguous` in `Query`);
section 5 tells them.

### 3.1 Bounds

Two files, two workspaces and two threads are the smallest numbers with which one
job overtakes another, one file is closed while another one stays, and two
workspaces share a file. Four requests cover each kind of dispatch that behaves
differently. `MaxClient`, `MaxEdits`, `MaxCloses`, `MaxWaiting`, `MaxOverlaps`,
`MaxChanges`, `MaxLoads`, `MaxRuns`, `MaxStops` and `MaxCalls` are conjuncts of
guards: the environment stops, the program does not. `MaxTasks` and `MaxJobs` are in
the constraint of `workspaces`, which checks invariants and an action property and
no liveness: tasks that come back while a workspace is busy would fill the queues
without end.
Three tasks on two slots make one task wait for a slot. Three edits in
`incremental` let a package be linked, changed in what it imports, and changed
again. Two loads with two changes are enough for a tree, a dependency or a failure
of the first to be met by the second. Two processes with an edit and a kill
between any two of their steps reach every pair of places at which one can
disturb the other; the theorems of section 4 cover all larger numbers. Integers of
five bits overflow in one operation on the numbers of the instance, as 64 bits do
on large ones. Statements are nested as deep as the printer's choice between one
line and several looks; three rounds of formatting show that the third changes
nothing. Symmetry of the threads is used in `workspaces`, `compile_settles` and
`incremental`, none of which has a liveness property; in
`build` the first of the interchangeable threads to call the runner is fixed.

Deadlock checking is off everywhere: once the environment has done all it may, the
program rests, which is how these systems end. That nobody is stuck before is what
the liveness properties and `OnlyCloseAndFailure` say.

### 3.2 Fairness

`FairSpec` of `LspRequests` and `LspCompile`: the main loop's `select` takes among
the ready channels, so a waiting task is handled; a pool thread takes waiting jobs
and runs them to their end (weak fairness of each thread's steps). Nothing is
assumed of the client. `LspWorkspaces` has no liveness property, because its tasks
need not come to an end (section 5). `LspLocks` uses strong fairness of the lock steps, which is what
parking_lot's eventual fairness gives: a lock that is free again and again is
given to each of those who wait. `TimeoutExecutor`: the executor's thread and the
task threads run, and time passes. `PkgCache`: a process that is not killed
runs on (weak fairness of its steps); a lock file that is free again and again is
taken at last because runs are finitely many. The evaluator, the language and the
formatter are sequential, and nothing is claimed of their progress.

## 4. Proofs

All theorems hold for every value of the constants that meets the named
assumptions: finite sets of workspaces or tasks, functions of the right types,
special values outside the sets, bounds that are naturals, and for the executor
that `Order` lists every task once and that there is a slot. TLC evaluates the
assumptions in the runs. Hypotheses beyond these are part of a theorem's
statement and are named here.

- **LspRequestsProofs.** `AnswerOnce` and `Implements`. At most one answer is not
  inductive: that a second `respond` finds nothing rests on what is registered.
  `AnswerInv` adds that a registered request was received and has neither an
  answer nor a cancellation, and that one not received has no answer.
  `Implements` shows that every step of the server is a step of the contract on
  at most one request, or a stutter.
- **LspWorkspacesProofs.** `OptionsCached`: every workspace that is recorded, has
  a state, waits in the queue or is compiled has cached options; by it
  `OptionsNeverPanic`, the unwraps of the options never fail, so that a step on
  which the main thread panics is about a closed file. `PendingIsCompiled` and
  `BusyIsCompiled`, with compiles that fail and panic at will: the job that settles
  a file or a workspace is in the queue or in a thread, unless it panicked.
  `RecordedKept`: the `Delete` arm removes no database an open file is
  recorded with. `OpenFilesKnown` is a statement about quiet states and says
  nothing of the steps that lead there. Its invariant is `FilesRemembered`
  (`NeverForgotten`): an open file for which a workspace is found, and no compile of
  whose own failed or panicked since it was last looked at, has a workspace, has a
  temporary one that is known or pending, or a task or a step of the main loop is
  about to look for one. It needs that a file handled as closed has left
  `opened_files` (`ClosedFirst`). `TemporaryFound`: jobs are for workspaces found for
  their file.
- **LspCompileProofs.** `SourceIsCurrent` for any number of threads, if compiles do
  not fail before the cache is cleared (`"clear"` not in `FailAt`) and every file
  belongs to some program; a compile that fails earlier leaves the old source.
  `TreesStayCached` and by it `MissingTreesCleared`, for any number of threads and
  all failures: `TreesKept` follows the set of files a job has visited through its
  stages; each of their trees is in the cache, or another job has cleared that file
  since this one began (`cleared`). So the panic on a missing tree has no other cause.
- **LspCompileDataProofs.** `DbIsCurrent` and `EntryDiagsAreCurrent`, for any number
  of threads, edits and closes and all failures and panics. The invariant `Current`
  speaks of each open file on its own: every copy of its text (in the module cache, in
  a running job, in a database) is the client's, or all workspaces of the file have a
  compile waiting that was queued for the edit. Files in `suspect` are excepted: a
  compile for their last edit cleared them under a compile that had read them, failed
  before it cleared them, or panicked; the next edit of the file takes it out again,
  which the proof of the `Edit` step has to show from nothing but the jobs it queues.
  `Shows` ties what is shown for an entry to the diagnostics its workspace, or the
  one job that compiles it, knows of. Workspaces in `mixed` are excepted: two of their
  jobs overlapped (`OneAtATime`), or one failed after it had results. It is about
  entries that are part of no other program (`OwnEntries`), because a workspace
  publishes for the files it knows and does not ask who else showed something there.
- **ScopeCacheProofs.** `OneRoot`. That the cache is of one root is not inductive,
  since `Finish` stores what the compile took before: the invariant adds that the
  scopes each running compile works with are of the root of its own program.
- **PkgCacheProofs.** `CacheIsCoherent`, `RunsLinkWhatTheyParsed` and the action
  property `NoUpdateLost`, for any numbers of processes, packages, runs, edits and
  kills. `Locked`: a process has a package's lock exactly at the places where it
  works on it, and while it has `info.lock` what it read is what the info file has;
  this alone gives `NoUpdateLost`. `Kept`: outside the places where an object is
  replaced it is the one whose md5 is recorded. `Calm`: while sources change only
  between complete runs, a package a run is done with is recorded with what the run
  parsed, and a package that is being replaced is not, so that no run replaces an
  object another run has still to link. The conjuncts depend on each other: an edit
  keeps `Calm` only because the cache is coherent when all runs are complete.
- **PanicHookProofs.** `OwnPanicReported`, for calls that overlap in any way. `OwnBy`
  says of a call that is not `disturbed` that the recording hook is set while its
  program runs, and whose message the thread has afterwards; `HookTyped`, that a call
  has the hook it will restore. A step either leaves the hook, and with it the others'
  `OwnBy`, or disturbs whoever runs a program (`Proceeding`).
- **TimeoutExecutorProofs.** One invariant of three parts carries the rest.
  `Slots`: a slot is counted for each running task and for one that is joined and
  not reported yet, and whoever runs is among the running tasks. `Places`: each
  task waits, runs, is joined or is reported, with the events that belong to its
  place. `Results`: results on their way are of running tasks, one each. Then
  `CapacityKept`, `EventOrder`, `FinishedEnded`, `NoUnexpectedResult` and
  `OkIsComplete`; `SendFails` adds `Receiver`, which ties a dropped receiver to
  the result.

Only model-checked:

- all liveness (`EventuallyAnswered`, `CompilesEnd`, `MainReturnsOrCaught`,
  `OthersReported`, `RunsEnd`), which TLAPS does not prove
  under fairness;
- the properties of `Language`, `Library`, `Strings`, `GlobalEval`, `SchemaEval`,
  `Format`, `Query` and `ModuleLoader`: what recursive definitions compute for all
  inputs needs induction over data, which the installed provers do not do;
- `OnlyCloseAndFailure`: locks are not taken in one order, so the invariant has to
  enumerate which suffix of which handler a thread can be at with which locks held,
  and a proof would repeat TLC's search;
- `StaleHasReason`, a statement about the closure of imports after a history of
  compiles.

## 5. What the code does that its reader may not expect

One run ends in a counterexample: in `compile_stale` two jobs of one workspace store
their results in the order they end (state.rs:731), and the older database stays.
The rest of this section is behaviour that the models have and that properties had
to make room for; each item was met while modelling and is in the model unless it
says otherwise.

**Language server.**
A task delayed by 20 ms reaches `process_changed_file` for a file closed meanwhile,
and `opened_files.get_mut(..).unwrap()` panics (state.rs:323, 389).
The `Delete` arm takes `temporary_workspace` and then `workspaces` (state.rs:453-455),
the `Err` arm of a job the other way round (751-760): they deadlock.
The `Delete` arm looks for users of a workspace in `opened_files` only, and a second
file that has it as its temporary workspace loses its database.
With two threads a compile panics on a tree another one cleared ("Module not found",
parser/lib.rs:990), before the job writes any map. If the file is shared by two
workspaces, the one whose compile panicked stays Compiling until it is compiled
again, and every file opened meanwhile comes back as a task for ever
(state.rs:329-334); a temporary workspace stays pending.
A file whose own compile failed or panicked has no workspace until it is edited.
An edit that finds its file with neither a workspace nor a temporary entry only opens
it again (state.rs:429-438), and `Create` may then record a workspace that is Ready
without compiling the edit.
Two tasks of the `Modify` arm chase each other while edits are waiting.
The diagnostics of an imported file vanish when a compile does not parse it again.

**Incremental resolver.**
A package resolved while nothing imported it keeps a scope without its imports, also
when the main package imports it later (resolver/mod.rs:113); scope.rs:528 assumes
"that all changed files must be located in kclvm_ast::MAIN_PKG".
A changed module outside the program loses its edges.
Overlapping compiles leave stale scopes.
Not modelled: the namer skips a package whose path is known from another root
(namer/mod.rs:129-133), and `fully_qualified_name_map` is never cleared.

**Loader, cache, runner.**
A failed load leaves modules in the cache whose relative imports are not made full
paths (lib.rs:997) until the file is parsed again; recorded dependencies are not
looked up again when files appear. An imported package without files is noted by the
load that parses the import ("Record the empty pkg to prevent loss", lib.rs:765) and
forgotten by one that takes the importing file from the cache, after which the
resolver reports that it cannot find the module.
A scan above `MAX_SCAN_FILES` sets `last_compile_input` first (lib.rs:1079), so that
what it missed stays missed; the limit, "a maximum number of files", is compared with
the number of packages.
The md5 of a package is taken when it is saved, not when it was parsed
(cache.rs:118, 203), so an edit in between marks an old object as current; a kill
between the removal of an object and the info file, followed by a revert of the
sources, does the same; the md5 covers the files of the package and not what it
imports (cache.rs:84); objects are linked after their locks are released. An external
package that is gone gets its cache file without an md5 (cache.rs:120-135).
Overlapping runs of `FastRunner` restore each other's panic hook and may lose it; a run
whose recording hook is replaced while its program runs reports an older message or
none.

**Executor.** A task that panics before it sends keeps its slot; it is the assumption
of `OthersReported`.

**Globals and schemas.**
In `_a = 1; b = _a; _a += 1` the update is applied once more, because it was run for
the early reader. With ifs the order of statements matters when a name is read
before it is declared, although lazy.rs:40-42 calls statements "sequentially
independent": only the last setter of a name is walked. An attribute's update may be
applied twice after an early read, and an attribute declared again without a default
hides the inherited one from early readers. A schema that is instantiated from
within a body that runs for it meets its own borrowed context.

**Checker, evaluator, generated code.**
Results the checker types otherwise than they are: `and`, `not`, `~`, the quotient and
the remainder of numbers. Literal types are compared by whether one's text contains
the other's. The last operand of a chain of comparisons is not checked, nor what is
merged into a schema or inserted into a list. A keyword argument is not converted to
its parameter's type. Compiled code updates in place a value that several names
share: in `_x = 1; y = _x; _x += 1` the evaluator gives `y` the value updated once and
`_x` the one updated twice, compiled code updates both twice. `_x += _x` panics in
compiled code, which borrows the one value both to read and to write
(val_bin_aug.rs). Compiled code keeps the kind of the value in an update, takes a
local name for equal to itself, walks over the bytes of a string, tests one condition of a comprehension's clause,
and makes the text of a number a key.

**Library.**
Members of strings and variadic functions ignore keyword arguments; `math.pow` reads
`n` where `y` is declared, `math.log` does not read `e`; `range` drops a `stop`
or `step` given by keyword when what comes before it is missing; `base64.encode`
ignores its encoding, `option` its help. `max()`, `min()` and `bool()` panic without arguments and `zip()` does not end; `pow` with an
integer modulus panics on other numbers. `find` and its kin count bytes, and a range
that ends inside a letter panics.

**Formatter and parser.** Not kept by the formatter: a list or configuration on one
line with an if among several items, `[k: ...str]`, the float `1.0`, a rule with a
doc and no checks, a protocol whose name ends in `Mixin`. A comprehension over
`**` makes the printer panic. A block inside brackets on one line makes a second
round change the text. Decorators in front of something that is no schema are
dropped.

**Query tools.** `override_file` looks for configurations everywhere without asking which
variable they belong to, so a file must have one statement for the variable for an
override to be exact. A later entry overwrites whether an earlier one was changed
(override.rs:902), so that a deletion below a key that occurs twice may be dropped. A
variable whose name needs quotes is written without; keys of configurations keep
theirs. A
unification keeps its instance when the value is no schema, and a second declaration
is appended. An error in a later specification leaves the file unwritten. A target list
`a = b = 1` is split in the order of a hash map. The selector takes one part of the
path for each target, so `list_variables` does not find `b` in `a = b = 1`; duplicates
on the path list the first only; `Variable::merge` compares a variable with itself
(selector.rs:626-672). Not modelled: a file with syntax errors is rewritten from the
repaired tree.

## 6. Not modelled

- **Symbols**: namer, advanced resolver and global state are an arena of cross
  references that follows the scope cache; as a whole it is out of TLC's reach. The
  second `try_write` of compile.rs:146, which decides what of it is cleared, is listed
  as a hazard without a property.
- **Answers of the server's handlers** (completion, hover, rename, ...): queries on a
  finished database that change no state.
- **Lints and the rest of the resolver**, rules, decorators, plugins; imports between
  packages in `Checker` and `Evaluator`.
- **Characters**: what is one token, escapes, interpolation, comments, recovery after
  errors.
- **LLVM**: the values built for the calls that `Compiled` has, and object formats.
- **Texts of the runtime**: plans, JSON and YAML, formatting, digests.
- **Glue**: driver and lookup of workspaces, configuration files, service, C API,
  command line, vet, test runner, diagnostics and sessions.
- **Third-party code** kept in the repository.

`PROJECT.json` gives the files and the reason for each part. The caught panic of
`runtime.catch` (evaluator/src/runtime.rs:50), which leaves the evaluator's stacks as
they were, is listed there as a hazard without a property.

## 7. Checking it

In this directory, with TLC and the community modules on the path:

    tlc -workers 2 -config MCBuild.cfg MCBuild

for a run, with the module and configuration that `PROJECT.json` names, and

    tlapm PkgCacheProofs.tla

for the proofs of a module. The runs `language`, `evaluator`, `incremental`
and `format` take between one and three minutes, the others less than two; the proofs of
`LspCompileDataProofs` and `PkgCacheProofs` are the longest.
