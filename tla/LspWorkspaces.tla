--------------------------- MODULE LspWorkspaces ---------------------------
(* Which workspace an open file belongs to: the maps of the language server  *)
(* (opened_files, temporary_workspace, workspaces, workspace_config_cache),  *)
(* the main loop that processes opened, changed and closed files, and the    *)
(* compile jobs on the thread pool that write the maps behind its back.      *)
(* A critical section under a lock is one step. process_changed_file holds   *)
(* its locks so that each of its three arms is one step too.                 *)
(* What a compile computes is in LspCompile; here it succeeds, fails or      *)
(* panics, the last only after another compile has taken a tree of its       *)
(* program from the module cache.                                            *)
EXTENDS Naturals, Sequences, FiniteSets, Functions

CONSTANTS
    Files,
    Workspaces,
    Modules,    \* the files in the program of each workspace (prog.modules)
    Lookup,     \* what lookup_compile_workspaces finds for each file
    Failing,    \* the workspaces whose compile may fail
    Folders,    \* the workspaces of the folders the client opened
    Threads,    \* threads of the pool
    NoFile,     \* the changed file of a compile that has none
    MaxClient   \* bound: client notifications

ASSUME ModulesAssumption == Modules \in [Workspaces -> SUBSET Files]
ASSUME LookupAssumption == Lookup \in [Files -> SUBSET Workspaces]
ASSUME FoldersAssumption == Folders \in SUBSET Workspaces
ASSUME FailingAssumption == Failing \in SUBSET Workspaces
ASSUME WorkspacesFinite == IsFiniteSet(Workspaces)
ASSUME NamesAssumption == NoFile \notin Files /\ {"absent", "pending"} \cap Workspaces = {}
ASSUME BoundsAssumption == MaxClient \in Nat

VARIABLES
    vfs,                    \* files that have contents
    opened_files,           \* keys of opened_files
    file_workspaces,        \* OpenFileInfo.workspaces of each of them
    temporary_workspace,    \* "absent", "pending" (Some(None)) or a workspace
    workspaces,             \* the DBState of each workspace, or "None"
    workspace_config_cache,
    tasks,                  \* ChangedFile and ReOpenFile tasks, in order
    poolq,                  \* compile jobs waiting for a thread, in order
    worker,                 \* the compile job of each thread
    main,                   \* what the main thread does
    client,                 \* notifications sent so far
    disturbed               \* threads that compile a program some other compile,
                            \* at work at the same time, has a changed file of

(* What the properties need to know of the past; no guard reads it.          *)
VARIABLES
    outcome,    \* of a file's compiles since its temporary entry was last set up:
                \* "failed" or "panicked" if one did
    stranded    \* workspaces of panicked compiles that nothing was stored for since

history == <<outcome, stranded>>
vars == <<vfs, opened_files, file_workspaces, temporary_workspace, workspaces,
          workspace_config_cache, tasks, poolq, worker, main, client, disturbed, history>>

Idle == [do |-> "idle"]
Crashed == [do |-> "crashed"]
Closing(f) == [do |-> "closing", file |-> f]
Process(f, change) == [do |-> "process", file |-> f, change |-> change]
Task(kind, f, change) == [kind |-> kind, file |-> f, change |-> change]
CompileJob(w, f, temp) == [w |-> w, file |-> f, temp |-> temp]
NoJob == [pc |-> "idle"]

(* The jobs of several workspaces, in the order a hash map gives them. *)
JobOrders(ws, f, temp) ==
    {[i \in DOMAIN s |-> CompileJob(s[i], f, temp)] :
        s \in {o \in [1..Cardinality(ws) -> ws] : IsInjective(o)}}

(* Mutant: the options are not cached. *)
async_compile_uncached(ws, f, temp) ==
    /\ UNCHANGED workspace_config_cache
    /\ \E jobs \in JobOrders(ws, f, temp) : poolq' = poolq \o jobs

(* Mutant: a workspace with cached options is taken to be queued already. *)
async_compile_once(ws, f, temp) ==
    /\ workspace_config_cache' = workspace_config_cache \cup ws
    /\ \E jobs \in JobOrders(ws \ workspace_config_cache, f, temp) : poolq' = poolq \o jobs

(* async_compile on the calling thread: the options go into the config cache *)
(* and one job per workspace into the pool.                                  *)
async_compile(ws, f, temp) ==
    /\ workspace_config_cache' = workspace_config_cache \cup ws
    /\ \E jobs \in JobOrders(ws, f, temp) : poolq' = poolq \o jobs

(* new() ends with init_workspaces: the folders are being compiled. *)
Init ==
    /\ vfs = {}
    /\ opened_files = {}
    /\ file_workspaces = [f \in Files |-> {}]
    /\ temporary_workspace = [f \in Files |-> "absent"]
    /\ workspaces = [w \in Workspaces |-> "None"]
    /\ workspace_config_cache = Folders
    /\ tasks = <<>>
    /\ poolq \in JobOrders(Folders, NoFile, FALSE)
    /\ worker = [t \in Threads |-> NoJob]
    /\ main = Idle
    /\ client = 0
    /\ disturbed = {}
    /\ outcome = [f \in Files |-> "none"]
    /\ stranded = {}
-----------------------------------------------------------------------------
(* Notifications. A client opens a closed file and changes or closes an open *)
(* one; for the main thread between two events that is what vfs says.        *)

Notification(open, f) ==
    /\ main = Idle
    /\ client < MaxClient
    /\ client' = client + 1
    /\ open = (f \in vfs)

on_did_open(f) ==
    /\ Notification(FALSE, f)
    /\ vfs' = vfs \cup {f}
    /\ opened_files' = opened_files \cup {f}
    /\ file_workspaces' = [file_workspaces EXCEPT ![f] = {}]
    /\ main' = Process(f, "Create")
    /\ UNCHANGED <<temporary_workspace, workspaces, workspace_config_cache, tasks, poolq, worker,
                   disturbed, history>>

on_did_change(f) ==
    /\ Notification(TRUE, f)
    /\ main' = Process(f, "Modify")
    /\ UNCHANGED <<vfs, opened_files, file_workspaces, temporary_workspace, workspaces,
                   workspace_config_cache, tasks, poolq, worker, disturbed, history>>

(* Closing takes two lock sections: the entry in opened_files goes first,    *)
(* the contents afterwards.                                                  *)
on_did_close(f) ==
    /\ Notification(TRUE, f)
    /\ opened_files' = opened_files \ {f}
    /\ file_workspaces' = [file_workspaces EXCEPT ![f] = {}]
    /\ main' = Closing(f)
    /\ UNCHANGED <<vfs, temporary_workspace, workspaces, workspace_config_cache, tasks,
                   poolq, worker, disturbed, history>>

FinishClose ==
    /\ main.do = "closing"
    /\ vfs' = vfs \ {main.file}
    /\ main' = Process(main.file, "Delete")
    /\ UNCHANGED <<opened_files, file_workspaces, temporary_workspace, workspaces,
                   workspace_config_cache, tasks, poolq, worker, client, disturbed, history>>
-----------------------------------------------------------------------------
(* process_changed_file. *)

SetTemporaryAfter(f, v, how) ==
    /\ temporary_workspace' = [temporary_workspace EXCEPT ![f] = v]
    /\ outcome' = [outcome EXCEPT ![f] = how]

SetTemporary(f, v) == SetTemporaryAfter(f, v, "none")

Busy == {w \in Workspaces : workspaces[w] \in {"Compiling", "Init"}}

Containing(f) == {w \in Workspaces : workspaces[w] = "Ready" /\ f \in Modules[w]}

CreateAgain(f, n) == [i \in 1..n |-> Task("ChangedFile", f, "Create")]

(* A file was opened, or is looked at again, and its temporary entry becomes *)
(* pending. A ready workspace contains it, but it is no longer open: the     *)
(* main thread panics, perhaps after it sent tasks for busy workspaces.      *)
CreatePanics(f) ==
    /\ Containing(f) /= {} /\ f \notin opened_files
    /\ main' = Crashed
    /\ SetTemporary(f, "pending")
    /\ \E n \in 0..Cardinality(Busy) : tasks' = tasks \o CreateAgain(f, n)
    /\ UNCHANGED <<vfs, opened_files, file_workspaces, workspaces, workspace_config_cache,
                   poolq, worker, client, disturbed, stranded>>

(* Every ready workspace that contains the file is recorded in its           *)
(* OpenFileInfo; every busy one makes the main thread come back later. With  *)
(* neither, the file is compiled in the workspaces found for it.             *)
CreateDone(f) ==
    /\ Containing(f) = {} \/ f \in opened_files
    /\ main' = Idle
    /\ file_workspaces' = [file_workspaces EXCEPT ![f] = @ \cup Containing(f)]
    /\ tasks' = tasks \o CreateAgain(f, Cardinality(Busy))
    /\ IF Containing(f) \cup Busy /= {} \/ Lookup[f] = {}
       THEN /\ SetTemporary(f, "absent")
            /\ UNCHANGED <<workspace_config_cache, poolq>>
       ELSE /\ SetTemporary(f, "pending")
            /\ async_compile(Lookup[f], f, TRUE)
    /\ UNCHANGED <<vfs, opened_files, workspaces, worker, client, disturbed, stranded>>

ProcessCreate(f) == CreatePanics(f) \/ CreateDone(f)

(* A file was edited. The main thread panics if it is not open, or if the    *)
(* options of a workspace it belongs to are unknown.                         *)
Unwrapped(f) ==
    /\ f \in opened_files
    /\ file_workspaces[f] \subseteq workspace_config_cache
    /\ file_workspaces[f] = {} /\ temporary_workspace[f] \in Workspaces
          => temporary_workspace[f] \in workspace_config_cache

ModifyPanics(f) ==
    /\ ~Unwrapped(f)
    /\ main' = Crashed
    /\ UNCHANGED <<vfs, opened_files, file_workspaces, temporary_workspace, workspaces,
                   workspace_config_cache, tasks, poolq, worker, client, disturbed, history>>

(* The file is compiled in the workspaces it belongs to, or in its temporary *)
(* workspace; failing both it is opened again. While its temporary workspace *)
(* is pending both the edit and the opening are repeated.                    *)
ModifyDone(f) ==
    LET ws == file_workspaces[f]
        t == temporary_workspace[f]
        reopen == Task("ReOpenFile", f, "Create")
        again == Task("ChangedFile", f, "Modify")
    IN
    /\ Unwrapped(f)
    /\ main' = Idle
    /\ \/ /\ ws /= {}
          /\ async_compile(ws, f, FALSE)
          /\ UNCHANGED tasks
       \/ /\ ws = {} /\ t \in Workspaces
          /\ async_compile({t}, f, TRUE)
          /\ UNCHANGED tasks
       \/ /\ ws = {} /\ t = "pending"
          /\ tasks' = tasks \o <<again, reopen>>
          /\ UNCHANGED <<workspace_config_cache, poolq>>
       \/ /\ ws = {} /\ t = "absent"
          /\ tasks' = Append(tasks, reopen)
          /\ UNCHANGED <<workspace_config_cache, poolq>>
    /\ UNCHANGED <<vfs, opened_files, file_workspaces, temporary_workspace, workspaces, worker,
                   client, disturbed, history>>

ProcessModify(f) == ModifyPanics(f) \/ ModifyDone(f)

DeleteWith(f, dropped) ==
    /\ SetTemporary(f, "absent")
    /\ workspaces' = [w \in Workspaces |-> IF w \in dropped THEN "None" ELSE workspaces[w]]
    /\ stranded' = stranded \ dropped
    /\ main' = Idle
    /\ UNCHANGED <<vfs, opened_files, file_workspaces, workspace_config_cache, tasks,
                   poolq, worker, client, disturbed>>

(* Mutant: the temporary workspace is dropped without looking for its users. *)
ProcessDeleteAlways(f) == DeleteWith(f, {temporary_workspace[f]} \cap Workspaces)

(* A file was closed. Its temporary workspace is dropped unless an open file *)
(* is recorded with the same workspace.                                      *)
ProcessDelete(f) ==
    DeleteWith(f, {w \in Workspaces : /\ w = temporary_workspace[f]
                                     /\ \A g \in opened_files : w \notin file_workspaces[g]})

process_changed_file ==
    /\ main.do = "process"
    /\ CASE main.change = "Create" -> ProcessCreate(main.file)
         [] main.change = "Modify" -> ProcessModify(main.file)
         [] main.change = "Delete" -> ProcessDelete(main.file)

(* Mutant: a task that finds a workspace busy is dropped. *)
handle_task_drops ==
    /\ main = Idle
    /\ tasks /= <<>>
    /\ main' = IF Busy = {} THEN Process(Head(tasks).file, Head(tasks).change) ELSE Idle
    /\ tasks' = Tail(tasks)
    /\ UNCHANGED <<vfs, opened_files, file_workspaces, temporary_workspace, workspaces,
                   workspace_config_cache, poolq, worker, client, disturbed, history>>

(* The main loop takes a task from the channel. *)
handle_task ==
    /\ main = Idle
    /\ tasks /= <<>>
    /\ main' = Process(Head(tasks).file, Head(tasks).change)
    /\ tasks' = Tail(tasks)
    /\ UNCHANGED <<vfs, opened_files, file_workspaces, temporary_workspace, workspaces,
                   workspace_config_cache, poolq, worker, client, disturbed, history>>
-----------------------------------------------------------------------------
(* Compile jobs. *)

Compiling == {t \in Threads : worker[t].pc = "compile"}

(* A free thread takes a job and marks the workspace. Compiles at work at    *)
(* the same time share the module cache: each removes its changed file from  *)
(* it, which may be part of the program of the other.                        *)
StartCompile(t) ==
    LET job == Head(poolq) IN
    /\ poolq /= <<>>
    /\ worker[t] = NoJob
    /\ worker' = [worker EXCEPT ![t] = [pc |-> "compile", job |-> job]]
    /\ poolq' = Tail(poolq)
    /\ workspaces' = [workspaces EXCEPT ![job.w] =
                        IF @ \in {"Ready", "Compiling"} THEN "Compiling" ELSE "Init"]
    /\ disturbed' = disturbed
          \cup {u \in Compiling : job.file \in Modules[worker[u].job.w]}
          \cup {u \in {t} : \E v \in Compiling : worker[v].job.file \in Modules[job.w]}
    /\ UNCHANGED <<vfs, opened_files, file_workspaces, temporary_workspace,
                   workspace_config_cache, tasks, main, client, history>>

StoreState(t, state) ==
    /\ worker[t].pc = "compile"
    /\ workspaces' = [workspaces EXCEPT ![worker[t].job.w] = state]
    /\ stranded' = stranded \ {worker[t].job.w}
    /\ disturbed' = disturbed \ {t}
    /\ UNCHANGED <<vfs, opened_files, file_workspaces, workspace_config_cache, tasks,
                   poolq, main, client>>

(* The compile succeeds: the database is stored; the temporary workspace of  *)
(* the file is recorded in a second lock section.                            *)
CompileOk(t) ==
    LET job == worker[t].job IN
    /\ StoreState(t, "Ready")
    /\ worker' = [worker EXCEPT ![t] = IF job.temp /\ job.file /= NoFile
                                       THEN [@ EXCEPT !.pc = "record"]
                                       ELSE NoJob]
    /\ UNCHANGED <<temporary_workspace, outcome>>

RecordTemporary(t) ==
    /\ worker[t].pc = "record"
    /\ SetTemporary(worker[t].job.file, worker[t].job.w)
    /\ worker' = [worker EXCEPT ![t] = NoJob]
    /\ UNCHANGED <<vfs, opened_files, file_workspaces, workspaces, workspace_config_cache,
                   tasks, poolq, main, client, disturbed, stranded>>

FailWith(t, state, temporary) ==
    LET job == worker[t].job IN
    /\ StoreState(t, state)
    /\ job.w \in Failing
    /\ IF job.temp /\ job.file /= NoFile
       THEN SetTemporaryAfter(job.file, temporary, "failed")
       ELSE UNCHANGED <<temporary_workspace, outcome>>
    /\ worker' = [worker EXCEPT ![t] = NoJob]

(* Mutant: the workspace keeps the state it had while it was compiled. *)
CompileErrStays(t) == FailWith(t, workspaces[worker[t].job.w], "absent")

(* The compile fails: both maps change under both locks. *)
CompileErr(t) == FailWith(t, "Failed", "absent")

(* The compile misses a tree in the module cache and panics: the job ends    *)
(* and neither map is written.                                               *)
CompilePanics(t) ==
    LET job == worker[t].job IN
    /\ worker[t].pc = "compile"
    /\ t \in disturbed
    /\ worker' = [worker EXCEPT ![t] = NoJob]
    /\ disturbed' = disturbed \ {t}
    /\ stranded' = stranded \cup {job.w}
    /\ outcome' = [f \in Files |-> IF job.temp /\ f = job.file THEN "panicked" ELSE outcome[f]]
    /\ UNCHANGED <<vfs, opened_files, file_workspaces, temporary_workspace, workspaces,
                   workspace_config_cache, tasks, poolq, main, client>>

Next ==
    \/ \E f \in Files : on_did_open(f)
    \/ \E f \in Files : on_did_change(f)
    \/ \E f \in Files : on_did_close(f)
    \/ FinishClose
    \/ process_changed_file
    \/ handle_task
    \/ \E t \in Threads : StartCompile(t)
    \/ \E t \in Threads : CompileOk(t)
    \/ \E t \in Threads : RecordTemporary(t)
    \/ \E t \in Threads : CompileErr(t)
    \/ \E t \in Threads : CompilePanics(t)

Spec == Init /\ [][Next]_vars
-----------------------------------------------------------------------------
(* Properties. *)

Jobs == [w : Workspaces, file : Files \cup {NoFile}, temp : BOOLEAN]
Changes == {"Create", "Modify", "Delete"}
DBStates == {"None", "Init", "Ready", "Compiling", "Failed"}

(* The variables stay in their types. *)
TypeOK ==
    /\ vfs \in SUBSET Files
    /\ opened_files \in SUBSET Files
    /\ file_workspaces \in [Files -> SUBSET Workspaces]
    /\ temporary_workspace \in [Files -> Workspaces \cup {"absent", "pending"}]
    /\ workspaces \in [Workspaces -> DBStates]
    /\ workspace_config_cache \in SUBSET Workspaces
    /\ tasks \in Seq([kind : {"ChangedFile", "ReOpenFile"}, file : Files, change : Changes])
    /\ poolq \in Seq(Jobs)
    /\ worker \in [Threads -> {NoJob} \cup [pc : {"compile", "record"}, job : Jobs]]
    /\ main \in {Idle, Crashed} \cup [do : {"closing"}, file : Files]
                \cup [do : {"process"}, file : Files, change : Changes]
    /\ client \in Nat
    /\ disturbed \in SUBSET Threads
    /\ outcome \in [Files -> {"none", "failed", "panicked"}]
    /\ stranded \in SUBSET Workspaces

Running(t) == worker[t] /= NoJob
Queued == {poolq[i] : i \in DOMAIN poolq}
Active == {worker[t].job : t \in {u \in Threads : Running(u)}}

(* A workspace that the main thread may read from opened_files or            *)
(* temporary_workspace has its options cached, however compile jobs and      *)
(* closes interleave. It does because every workspace with a state and every *)
(* job, which records its workspace long after it was queued, has them too.  *)
ConfigCached ==
    /\ \A f \in Files : file_workspaces[f] \subseteq workspace_config_cache
    /\ \A f \in Files : temporary_workspace[f] \in Workspaces
                           => temporary_workspace[f] \in workspace_config_cache
    /\ \A w \in Workspaces : workspaces[w] /= "None" => w \in workspace_config_cache
    /\ \A job \in Queued \cup Active : job.w \in workspace_config_cache

(* The main thread panics only on a file that is not open: of the unwraps in *)
(* process_changed_file those of the options never fail.                     *)
PanicsOnlyOnClosed ==
    [][main /= Crashed /\ main' = Crashed => main.file \notin opened_files]_vars

(* The workspaces recorded for an open file have a database, being rebuilt   *)
(* or failed perhaps, but never removed: a request for the file does not     *)
(* end in AnalysisDatabaseNotFound through opened_files.                     *)
RecordedHasState ==
    \A f \in opened_files : \A w \in file_workspaces[f] : workspaces[w] /= "None"

(* A file whose temporary workspace is pending has a compile on the way that *)
(* will settle it, unless that compile panicked: a request that retries on   *)
(* Some(None) waits for nothing only in that case.                           *)
PendingHasCompile ==
    main /= Crashed => \A f \in Files : temporary_workspace[f] = "pending" =>
        \/ \E job \in Queued \cup Active : job.file = f /\ job.temp
        \/ outcome[f] = "panicked"

(* A workspace that is Init or Compiling is being compiled by some thread,   *)
(* unless a compile of it panicked and none has ended since: what waits for  *)
(* its database (requests, and the tasks of files that come back while a     *)
(* workspace is busy) waits for a running job, however many compiles of it   *)
(* overlap and fail and whichever files are closed.                          *)
BusyHasCompile ==
    \A w \in Busy : w \in stranded \/ \E t \in Compiling : worker[t].job.w = w

Quiet == main = Idle /\ tasks = <<>> /\ poolq = <<>> /\ ~ \E t \in Threads : Running(t)

(* When everything has settled, an open file belongs to a workspace, unless  *)
(* none was found for it or a compile of its own failed or panicked: no      *)
(* edit, close or compile of another file makes the server forget it.        *)
OpenFileKnown ==
    Quiet => \A f \in opened_files :
        \/ file_workspaces[f] /= {}
        \/ temporary_workspace[f] \in Workspaces
        \/ Lookup[f] = {}
        \/ outcome[f] /= "none"

(* Jobs for an opened file compile workspaces found for it, and no other     *)
(* becomes its temporary workspace.                                          *)
JobsFound ==
    /\ \A job \in Queued \cup Active : job.temp /\ job.file \in Files => job.w \in Lookup[job.file]
    /\ \A f \in Files : temporary_workspace[f] \in Workspaces => temporary_workspace[f] \in Lookup[f]
    /\ \A t \in Threads : worker[t].pc = "record" => worker[t].job.temp

(* Why no open file is forgotten: a file is processed as closed only when it *)
(* is not in opened_files,                                                   *)
ClosedIsGone ==
    /\ main.do = "closing" => main.file \notin opened_files
    /\ main.do = "process" /\ main.change = "Delete" => main.file \notin opened_files
    /\ \A i \in DOMAIN tasks : tasks[i].change /= "Delete"

(* and a file with no workspace yet is about to be looked at again, or its   *)
(* temporary workspace is pending, or its compile has failed.                *)
ComesBack(f) ==
    \/ main.do = "process" /\ main.file = f /\ main.change = "Create"
    \/ \E i \in DOMAIN tasks : tasks[i].file = f /\ tasks[i].change = "Create"
Remembered(f) ==
    \/ file_workspaces[f] /= {}
    \/ temporary_workspace[f] /= "absent"
    \/ ComesBack(f)
    \/ Lookup[f] = {}
    \/ outcome[f] /= "none"
FilesRemembered == main /= Crashed => \A f \in opened_files : Remembered(f)
=============================================================================
