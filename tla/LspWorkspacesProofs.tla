------------------------ MODULE LspWorkspacesProofs ------------------------
(* Proofs about LspWorkspaces for every set of files, of workspaces and of   *)
(* threads, whatever the workspaces contain and whatever is looked up.       *)
EXTENDS LspWorkspaces, FiniteSetTheorems, SequenceTheorems, TLAPS

TaskSet == [kind : {"ChangedFile", "ReOpenFile"}, file : Files, change : Changes]

(* The head and the tail of a nonempty queue have the queue's type. *)
LEMMA QueueType ==
    ASSUME NEW S, NEW q \in Seq(S), q /= <<>>
    PROVE  Head(q) \in S /\ Tail(q) \in Seq(S)
OBVIOUS

(* A thread that is not idle holds a job. *)
LEMMA BusyThread ==
    ASSUME TypeOK, NEW t \in Threads, worker[t] /= NoJob
    PROVE  /\ worker[t] \in [pc : {"compile", "record"}, job : Jobs]
           /\ worker[t].job \in Jobs
           /\ worker[t].job.w \in Workspaces
           /\ worker[t].job.file \in Files \cup {NoFile}
           /\ worker[t].job.temp \in BOOLEAN
BY Zenon DEF TypeOK, Jobs

(* A thread in a step of a compile is not idle. *)
LEMMA StepThread ==
    ASSUME NEW t \in Threads, worker[t].pc \in {"compile", "record"}
    PROVE  worker[t] /= NoJob
BY DEF NoJob

(* The main thread in process_changed_file has a file and a kind of change. *)
LEMMA ProcessedFile ==
    ASSUME TypeOK, main.do = "process"
    PROVE  main.file \in Files /\ main.change \in Changes
BY DEF TypeOK, Idle, Crashed

(* The main thread closing a file has that file. *)
LEMMA ClosedFile ==
    ASSUME TypeOK, main.do = "closing"
    PROVE  main.file \in Files
BY DEF TypeOK, Idle, Crashed

(* The number of some of the workspaces is a number, and positive if there   *)
(* are any.                                                                  *)
LEMMA SomeWorkspaces ==
    ASSUME NEW ws \in SUBSET Workspaces
    PROVE  /\ Cardinality(ws) \in Nat
           /\ ws /= {} => 1 \in 1..Cardinality(ws)
<1>1. IsFiniteSet(ws)
  BY WorkspacesFinite, FS_Subset, Zenon
<1>2. Cardinality(ws) \in Nat
  BY <1>1, FS_CardinalityType, Zenon
<1>3. Cardinality(ws) = 0 <=> ws = {}
  BY <1>1, FS_EmptySet, Zenon
<1> QED
  BY <1>2, <1>3

(* An order of jobs: each is a job of one of the workspaces for the file. *)
LEMMA JobOrdersType ==
    ASSUME NEW ws \in SUBSET Workspaces, NEW f \in Files \cup {NoFile}, NEW temp \in BOOLEAN,
           NEW jobs \in JobOrders(ws, f, temp)
    PROVE  /\ jobs \in Seq(Jobs)
           /\ \A i \in DOMAIN jobs : \E w \in ws : jobs[i] = CompileJob(w, f, temp)
           /\ ws /= {} => 1 \in DOMAIN jobs
<1> DEFINE n == Cardinality(ws)
<1>1. n \in Nat /\ (ws /= {} => 1 \in 1..n)
  BY SomeWorkspaces, Zenon
<1>2. PICK o \in [1..n -> ws] : jobs = [i \in DOMAIN o |-> CompileJob(o[i], f, temp)]
  BY Zenon DEF JobOrders
<1>3. DOMAIN jobs = 1..n /\ \A i \in 1..n : jobs[i] = CompileJob(o[i], f, temp) /\ o[i] \in ws
  BY <1>2, Zenon
<1>4. \A i \in 1..n : CompileJob(o[i], f, temp) \in Jobs
  BY <1>3, Zenon DEF CompileJob, Jobs
<1>5. jobs \in [1..n -> Jobs]
  BY <1>2, <1>3, <1>4, Zenon
<1>6. jobs \in Seq(Jobs)
  BY <1>1, <1>5
<1> QED
  BY <1>1, <1>3, <1>6, Zenon

(* What async_compile queues: all jobs are still there, the new ones belong  *)
(* to the workspaces, and there is one if there is a workspace.              *)
LEMMA AsyncCompileEffect ==
    ASSUME TypeOK, NEW ws \in SUBSET Workspaces, NEW f \in Files \cup {NoFile},
           NEW temp \in BOOLEAN, async_compile(ws, f, temp)
    PROVE  /\ poolq' \in Seq(Jobs)
           /\ workspace_config_cache' = workspace_config_cache \cup ws
           /\ Queued \subseteq Queued'
           /\ \A job \in Queued' : job \in Queued \/ \E w \in ws : job = CompileJob(w, f, temp)
           /\ ws /= {} => \E w \in ws : CompileJob(w, f, temp) \in Queued'
<1>1. PICK jobs \in JobOrders(ws, f, temp) : poolq' = poolq \o jobs
  BY Zenon DEF async_compile
<1>2. /\ jobs \in Seq(Jobs)
      /\ \A i \in DOMAIN jobs : \E w \in ws : jobs[i] = CompileJob(w, f, temp)
      /\ ws /= {} => 1 \in DOMAIN jobs
  BY <1>1, JobOrdersType, Zenon
<1>3. poolq \in Seq(Jobs)
  BY Zenon DEF TypeOK
<1>4. /\ poolq' \in Seq(Jobs)
      /\ Len(poolq') = Len(poolq) + Len(jobs)
      /\ \A i \in 1..(Len(poolq) + Len(jobs)) :
            poolq'[i] = IF i <= Len(poolq) THEN poolq[i] ELSE jobs[i - Len(poolq)]
  BY <1>1, <1>2, <1>3, ConcatProperties, Zenon
<1>5. /\ Len(poolq) \in Nat /\ Len(jobs) \in Nat
      /\ DOMAIN poolq = 1..Len(poolq) /\ DOMAIN jobs = 1..Len(jobs)
      /\ DOMAIN poolq' = 1..(Len(poolq) + Len(jobs))
  BY <1>2, <1>3, <1>4
<1>6. Queued \subseteq Queued'
  <2> SUFFICES ASSUME NEW i \in DOMAIN poolq PROVE \E k \in DOMAIN poolq' : poolq[i] = poolq'[k]
    BY Zenon DEF Queued
  <2> QED
    BY <1>4, <1>5
<1>7. \A job \in Queued' : job \in Queued \/ \E w \in ws : job = CompileJob(w, f, temp)
  <2> SUFFICES ASSUME NEW k \in DOMAIN poolq'
               PROVE  \/ \E i \in DOMAIN poolq : poolq'[k] = poolq[i]
                      \/ \E w \in ws : poolq'[k] = CompileJob(w, f, temp)
    BY Zenon DEF Queued
  <2>1. CASE k <= Len(poolq)
    BY <2>1, <1>4, <1>5
  <2>2. CASE ~(k <= Len(poolq))
    <3>1. k - Len(poolq) \in DOMAIN jobs /\ poolq'[k] = jobs[k - Len(poolq)]
      BY <2>2, <1>4, <1>5
    <3> QED
      BY <3>1, <1>2, Zenon
  <2> QED
    BY <2>1, <2>2, Zenon
<1>8. ASSUME ws /= {} PROVE \E w \in ws : CompileJob(w, f, temp) \in Queued'
  <2>1. 1 \in DOMAIN jobs
    BY <1>2, <1>8, Zenon
  <2>2. Len(poolq) + 1 \in DOMAIN poolq' /\ poolq'[Len(poolq) + 1] = jobs[1]
    BY <2>1, <1>4, <1>5
  <2> QED
    BY <2>1, <2>2, <1>2, Zenon DEF Queued
<1> QED
  BY <1>4, <1>6, <1>7, <1>8, Zenon DEF async_compile

(* SetTemporary keeps the type. *)
LEMMA SetTemporaryType ==
    ASSUME TypeOK, NEW f, NEW v \in Workspaces \cup {"absent", "pending"},
           SetTemporary(f, v) \/ SetTemporaryAfter(f, v, "failed")
    PROVE  /\ temporary_workspace' \in [Files -> Workspaces \cup {"absent", "pending"}]
           /\ outcome' \in [Files -> {"none", "failed", "panicked"}]
<1>1. PICK how \in {"none", "failed"} : SetTemporaryAfter(f, v, how)
  BY Zenon DEF SetTemporary
<1>2. how \in {"none", "failed", "panicked"}
  OBVIOUS
<1>3. temporary_workspace' \in [Files -> Workspaces \cup {"absent", "pending"}]
  <2>1. temporary_workspace \in [Files -> Workspaces \cup {"absent", "pending"}]
    BY Zenon DEF TypeOK
  <2>2. temporary_workspace' = [temporary_workspace EXCEPT ![f] = v]
    BY <1>1, Zenon DEF SetTemporaryAfter
  <2> QED
    BY <2>1, <2>2
<1>4. outcome' \in [Files -> {"none", "failed", "panicked"}]
  <2>1. outcome \in [Files -> {"none", "failed", "panicked"}]
    BY Zenon DEF TypeOK
  <2>2. outcome' = [outcome EXCEPT ![f] = how]
    BY <1>1, Zenon DEF SetTemporaryAfter
  <2> QED
    BY <1>2, <2>1, <2>2
<1> QED
  BY <1>3, <1>4

(* The type invariant holds initially. *)
LEMMA TypeInit == Init => TypeOK
<1> SUFFICES ASSUME Init PROVE TypeOK
  BY Zenon
<1>1. vfs \in SUBSET Files /\ opened_files \in SUBSET Files
  BY Zenon DEF Init
<1>2. file_workspaces \in [Files -> SUBSET Workspaces]
  BY Zenon DEF Init
<1>3. temporary_workspace \in [Files -> Workspaces \cup {"absent", "pending"}]
  BY Zenon DEF Init
<1>4. workspaces \in [Workspaces -> DBStates]
  BY Zenon DEF Init, DBStates
<1>5. workspace_config_cache \in SUBSET Workspaces
  BY FoldersAssumption, Zenon DEF Init
<1>6. tasks \in Seq(TaskSet)
  BY DEF Init
<1>7. poolq \in Seq(Jobs)
  BY FoldersAssumption, JobOrdersType, Zenon DEF Init
<1>8. worker \in [Threads -> {NoJob} \cup [pc : {"compile", "record"}, job : Jobs]]
  BY Zenon DEF Init
<1>9. main \in {Idle, Crashed} /\ client \in Nat
  BY Zenon DEF Init
<1>10. /\ disturbed \in SUBSET Threads /\ stranded \in SUBSET Workspaces
       /\ outcome \in [Files -> {"none", "failed", "panicked"}]
  BY Zenon DEF Init
<1> QED
  BY <1>1, <1>2, <1>3, <1>4, <1>5, <1>6, <1>7, <1>8, <1>9, <1>10, Zenon DEF TypeOK, TaskSet

(* The type invariant is preserved by the steps of process_changed_file. *)
LEMMA TypeProcess == TypeOK /\ process_changed_file => TypeOK'
<1> SUFFICES ASSUME TypeOK, process_changed_file PROVE TypeOK'
  BY Zenon
<1> DEFINE f == main.file
<1>1. main.do = "process" /\ f \in Files /\ main.change \in Changes
  BY ProcessedFile, Zenon DEF process_changed_file
<1> USE <1>1
<1>0. tasks \in Seq(TaskSet)
  BY Zenon DEF TypeOK, TaskSet
<1>6. ASSUME NEW n \in 0..Cardinality(Busy) PROVE tasks \o CreateAgain(f, n) \in Seq(TaskSet)
  <2>1. Cardinality(Busy) \in Nat
    BY SomeWorkspaces, Zenon DEF Busy
  <2>2. Task("ChangedFile", f, "Create") \in TaskSet
    BY Zenon DEF Task, TaskSet, Changes
  <2>3. CreateAgain(f, n) \in Seq(TaskSet)
    BY <2>1, <2>2 DEF CreateAgain
  <2> QED
    BY <1>0, <2>3, ConcatProperties, Zenon
<1>7. Cardinality(Busy) \in 0..Cardinality(Busy)
  <2>1. Cardinality(Busy) \in Nat
    BY SomeWorkspaces, Zenon DEF Busy
  <2> QED
    BY <2>1
<1>2. ASSUME CreatePanics(f) \/ ModifyPanics(f) PROVE TypeOK'
  <2>1. CASE ModifyPanics(f)
    BY <2>1, Zenon DEF ModifyPanics, TypeOK, history
  <2>2. CASE CreatePanics(f)
    <3>1. /\ temporary_workspace' \in [Files -> Workspaces \cup {"absent", "pending"}]
          /\ outcome' \in [Files -> {"none", "failed", "panicked"}]
      BY <2>2, SetTemporaryType, Zenon DEF CreatePanics
    <3>2. tasks' \in Seq(TaskSet)
      BY <2>2, <1>6, Zenon DEF CreatePanics
    <3> QED
      BY <2>2, <3>1, <3>2, Zenon DEF CreatePanics, TypeOK, TaskSet
  <2> QED
    BY <1>2, <2>1, <2>2, Zenon
<1>3. ASSUME CreateDone(f) PROVE TypeOK'
  <2>1. /\ file_workspaces' \in [Files -> SUBSET Workspaces]
        /\ tasks' \in Seq(TaskSet)
        /\ main' = Idle
        /\ UNCHANGED <<vfs, opened_files, workspaces, worker, client, disturbed, stranded>>
    BY <1>3, <1>6, <1>7, Zenon DEF CreateDone, Containing, TypeOK
  <2>4. /\ temporary_workspace' \in [Files -> Workspaces \cup {"absent", "pending"}]
        /\ outcome' \in [Files -> {"none", "failed", "panicked"}]
        /\ workspace_config_cache' \in SUBSET Workspaces
        /\ poolq' \in Seq(Jobs)
    <3>1. CASE SetTemporary(f, "absent") /\ UNCHANGED <<workspace_config_cache, poolq>>
      BY <3>1, SetTemporaryType, Zenon DEF TypeOK
    <3>2. CASE SetTemporary(f, "pending") /\ async_compile(Lookup[f], f, TRUE)
      <4>1. Lookup[f] \in SUBSET Workspaces
        BY LookupAssumption, Zenon
      <4>2. poolq' \in Seq(Jobs) /\ workspace_config_cache' = workspace_config_cache \cup Lookup[f]
        BY <3>2, <4>1, AsyncCompileEffect, Zenon
      <4> QED
        BY <3>2, <4>1, <4>2, SetTemporaryType, Zenon DEF TypeOK
    <3> QED
      BY <1>3, <3>1, <3>2, Zenon DEF CreateDone
  <2> QED
    BY <2>1, <2>4, Zenon DEF TypeOK, TaskSet
<1>4. ASSUME ModifyDone(f) PROVE TypeOK'
  <2>1. /\ main' = Idle
        /\ UNCHANGED <<vfs, opened_files, file_workspaces, temporary_workspace, workspaces,
                       worker, client, disturbed, outcome, stranded>>
    BY <1>4, Zenon DEF ModifyDone, history
  <2>2. file_workspaces[f] \in SUBSET Workspaces
    BY Zenon DEF TypeOK
  <2>3. /\ tasks' \in Seq(TaskSet)
        /\ workspace_config_cache' \in SUBSET Workspaces
        /\ poolq' \in Seq(Jobs)
    <3>1. CASE async_compile(file_workspaces[f], f, FALSE) /\ UNCHANGED tasks
      <4>1. /\ poolq' \in Seq(Jobs)
            /\ workspace_config_cache' = workspace_config_cache \cup file_workspaces[f]
        BY <3>1, <2>2, AsyncCompileEffect, Zenon
      <4> QED
        BY <3>1, <4>1, <2>2, <1>0, Zenon DEF TypeOK
    <3>2. CASE /\ temporary_workspace[f] \in Workspaces
               /\ async_compile({temporary_workspace[f]}, f, TRUE)
               /\ UNCHANGED tasks
      <4>1. {temporary_workspace[f]} \in SUBSET Workspaces
        BY <3>2, Zenon
      <4>2. /\ poolq' \in Seq(Jobs)
            /\ workspace_config_cache' = workspace_config_cache \cup {temporary_workspace[f]}
        BY <3>2, <4>1, AsyncCompileEffect, Zenon
      <4> QED
        BY <3>2, <4>1, <4>2, <1>0, Zenon DEF TypeOK
    <3>3. CASE /\ tasks' = tasks \o <<Task("ChangedFile", f, "Modify"), Task("ReOpenFile", f, "Create")>>
               /\ UNCHANGED <<workspace_config_cache, poolq>>
      <4>1. Task("ChangedFile", f, "Modify") \in TaskSet /\ Task("ReOpenFile", f, "Create") \in TaskSet
        BY Zenon DEF Task, TaskSet, Changes
      <4>2. <<Task("ChangedFile", f, "Modify"), Task("ReOpenFile", f, "Create")>> \in Seq(TaskSet)
        BY <4>1
      <4>3. tasks' \in Seq(TaskSet)
        BY <3>3, <4>2, <1>0, ConcatProperties, Zenon
      <4> QED
        BY <3>3, <4>3, Zenon DEF TypeOK
    <3>4. CASE /\ tasks' = Append(tasks, Task("ReOpenFile", f, "Create"))
               /\ UNCHANGED <<workspace_config_cache, poolq>>
      <4>1. Task("ReOpenFile", f, "Create") \in TaskSet
        BY Zenon DEF Task, TaskSet, Changes
      <4> QED
        BY <3>4, <4>1, <1>0 DEF TypeOK
    <3> QED
      BY <1>4, <3>1, <3>2, <3>3, <3>4, Zenon DEF ModifyDone
  <2> QED
    BY <2>1, <2>3, Zenon DEF TypeOK, TaskSet
<1>5. ASSUME ProcessDelete(f) PROVE TypeOK'
  <2>1. /\ temporary_workspace' \in [Files -> Workspaces \cup {"absent", "pending"}]
        /\ outcome' \in [Files -> {"none", "failed", "panicked"}]
    BY <1>5, SetTemporaryType, Zenon DEF ProcessDelete, DeleteWith
  <2>2. workspaces' \in [Workspaces -> DBStates] /\ stranded' \in SUBSET Workspaces
    BY <1>5, Zenon DEF ProcessDelete, DeleteWith, TypeOK, DBStates
  <2> QED
    BY <1>5, <2>1, <2>2, Zenon DEF ProcessDelete, DeleteWith, TypeOK
<1> QED
  BY <1>1, <1>2, <1>3, <1>4, <1>5, Zenon DEF process_changed_file, ProcessCreate, ProcessModify, Changes

(* The type invariant is inductive. *)
LEMMA TypeStep == TypeOK /\ [Next]_vars => TypeOK'
<1> SUFFICES ASSUME TypeOK, [Next]_vars PROVE TypeOK'
  BY Zenon
<1>1. ASSUME NEW f \in Files, on_did_open(f) PROVE TypeOK'
  BY <1>1 DEF on_did_open, history, Notification, Process, TypeOK, Changes
<1>2. ASSUME NEW f \in Files, on_did_change(f) PROVE TypeOK'
  BY <1>2 DEF on_did_change, history, Notification, Process, TypeOK, Changes
<1>3. ASSUME NEW f \in Files, on_did_close(f) PROVE TypeOK'
  BY <1>3 DEF on_did_close, history, Notification, Closing, TypeOK
<1>4. ASSUME FinishClose PROVE TypeOK'
  <2>1. main.file \in Files
    BY <1>4, ClosedFile, Zenon DEF FinishClose
  <2> QED
    BY <1>4, <2>1, Zenon DEF FinishClose, history, Process, TypeOK, Changes
<1>5. ASSUME process_changed_file PROVE TypeOK'
  BY <1>5, TypeProcess, Zenon
<1>6. ASSUME handle_task PROVE TypeOK'
  <2>1. Head(tasks) \in TaskSet /\ Tail(tasks) \in Seq(TaskSet)
    BY <1>6, QueueType, Zenon DEF handle_task, TypeOK, TaskSet
  <2>2. main' \in [do : {"process"}, file : Files, change : Changes]
    BY <1>6, <2>1, Zenon DEF handle_task, Process, TaskSet
  <2> QED
    BY <1>6, <2>1, <2>2, Zenon DEF handle_task, history, TypeOK, TaskSet
<1>7. ASSUME NEW t \in Threads, StartCompile(t) PROVE TypeOK'
  <2>1. Head(poolq) \in Jobs /\ Tail(poolq) \in Seq(Jobs)
    BY <1>7, QueueType, Zenon DEF StartCompile, TypeOK
  <2>2. workspaces' \in [Workspaces -> DBStates]
    BY <1>7, Zenon DEF StartCompile, TypeOK, DBStates
  <2>3. [pc |-> "compile", job |-> Head(poolq)] \in [pc : {"compile", "record"}, job : Jobs]
    BY <2>1, Zenon
  <2>4. disturbed' \in SUBSET Threads
    BY <1>7, Zenon DEF StartCompile, Compiling, TypeOK
  <2> QED
    BY <1>7, <2>1, <2>2, <2>3, <2>4, Zenon DEF StartCompile, history, TypeOK
<1>8. ASSUME NEW t \in Threads, CompileOk(t) PROVE TypeOK'
  <2>1. worker[t] \in [pc : {"compile", "record"}, job : Jobs]
    BY <1>8, StepThread, BusyThread, Zenon DEF CompileOk, StoreState
  <2>2. [worker[t] EXCEPT !.pc = "record"] \in [pc : {"compile", "record"}, job : Jobs]
    BY <2>1, Zenon
  <2>3. worker' \in [Threads -> {NoJob} \cup [pc : {"compile", "record"}, job : Jobs]]
    BY <1>8, <2>2, Zenon DEF CompileOk, TypeOK
  <2>4. /\ workspaces' \in [Workspaces -> DBStates]
        /\ disturbed' \in SUBSET Threads /\ stranded' \in SUBSET Workspaces
    BY <1>8, Zenon DEF CompileOk, StoreState, TypeOK, DBStates
  <2> QED
    BY <1>8, <2>3, <2>4, ZenonT(30) DEF CompileOk, StoreState, TypeOK
<1>9. ASSUME NEW t \in Threads, RecordTemporary(t) PROVE TypeOK'
  <2>1. worker[t].job.w \in Workspaces
    BY <1>9, StepThread, BusyThread, Zenon DEF RecordTemporary
  <2>2. /\ temporary_workspace' \in [Files -> Workspaces \cup {"absent", "pending"}]
        /\ outcome' \in [Files -> {"none", "failed", "panicked"}]
    BY <1>9, <2>1, SetTemporaryType, Zenon DEF RecordTemporary
  <2> QED
    BY <1>9, <2>2, Zenon DEF RecordTemporary, TypeOK
<1>10. ASSUME NEW t \in Threads, CompileErr(t) PROVE TypeOK'
  <2>1. /\ temporary_workspace' \in [Files -> Workspaces \cup {"absent", "pending"}]
        /\ outcome' \in [Files -> {"none", "failed", "panicked"}]
    BY <1>10, SetTemporaryType, ZenonT(30) DEF CompileErr, FailWith, TypeOK
  <2>2. /\ workspaces' \in [Workspaces -> DBStates]
        /\ disturbed' \in SUBSET Threads /\ stranded' \in SUBSET Workspaces
    BY <1>10, Zenon DEF CompileErr, FailWith, StoreState, TypeOK, DBStates
  <2> QED
    BY <1>10, <2>1, <2>2, ZenonT(30) DEF CompileErr, FailWith, StoreState, TypeOK
<1>12. ASSUME NEW t \in Threads, CompilePanics(t) PROVE TypeOK'
  <2>1. worker[t].job.w \in Workspaces
    BY <1>12, StepThread, BusyThread, Zenon DEF CompilePanics
  <2>2. /\ disturbed' \in SUBSET Threads /\ stranded' \in SUBSET Workspaces
        /\ outcome' \in [Files -> {"none", "failed", "panicked"}]
    BY <1>12, <2>1, Zenon DEF CompilePanics, TypeOK
  <2> QED
    BY <1>12, <2>2, Zenon DEF CompilePanics, TypeOK
<1>11. CASE UNCHANGED vars
  BY <1>11, Zenon DEF vars, history, TypeOK
<1> QED
  BY <1>1, <1>2, <1>3, <1>4, <1>5, <1>6, <1>7, <1>8, <1>9, <1>10, <1>11, <1>12, Zenon DEF Next

(* Every variable of the server stays in its type. *)
THEOREM TypeCorrect == Spec => []TypeOK
BY TypeInit, TypeStep, PTL DEF Spec
-----------------------------------------------------------------------------
(* The safety invariants. Given the types each of them is inductive by       *)
(* itself; the lemmas say what the steps do to the jobs and the maps.        *)

(* A job that starts is still queued or active, and no other job appears. *)
LEMMA StartKeepsJobs ==
    ASSUME TypeOK, NEW t \in Threads, StartCompile(t)
    PROVE  /\ Queued' \cup Active' = Queued \cup Active
           /\ Head(poolq) \in Queued
<1>1. poolq \in Seq(Jobs) /\ poolq /= <<>> /\ poolq' = Tail(poolq)
  BY Zenon DEF TypeOK, StartCompile
<1>2. /\ Len(poolq) \in Nat /\ Len(poolq) > 0
      /\ DOMAIN poolq = 1..Len(poolq) /\ DOMAIN poolq' = 1..(Len(poolq) - 1)
      /\ \A i \in 1..(Len(poolq) - 1) : poolq'[i] = poolq[i + 1]
      /\ Head(poolq) = poolq[1]
  BY <1>1
<1>3. Queued = Queued' \cup {Head(poolq)}
  <2>1. ASSUME NEW i \in DOMAIN poolq PROVE poolq[i] \in Queued' \cup {Head(poolq)}
    <3>1. CASE i = 1
      BY <3>1, <1>2, Zenon
    <3>2. CASE i /= 1
      <4>1. i - 1 \in DOMAIN poolq' /\ poolq'[i - 1] = poolq[i]
        BY <3>2, <1>2
      <4> QED
        BY <4>1, Zenon DEF Queued
    <3> QED
      BY <3>1, <3>2, Zenon
  <2>2. ASSUME NEW i \in DOMAIN poolq' PROVE poolq'[i] \in Queued
    <3>1. i + 1 \in DOMAIN poolq /\ poolq'[i] = poolq[i + 1]
      BY <1>2
    <3> QED
      BY <3>1, Zenon DEF Queued
  <2>3. Head(poolq) \in Queued
    <3>1. 1 \in DOMAIN poolq
      BY <1>2
    <3> QED
      BY <3>1, <1>2, Zenon DEF Queued
  <2> QED
    BY <2>1, <2>2, <2>3, Zenon DEF Queued
<1>4. Active' = Active \cup {Head(poolq)}
  <2>1. /\ worker[t] = NoJob
        /\ worker'[t] = [pc |-> "compile", job |-> Head(poolq)]
        /\ \A u \in Threads \ {t} : worker'[u] = worker[u]
    BY Zenon DEF StartCompile, TypeOK
  <2>2. worker'[t] /= NoJob /\ worker'[t].job = Head(poolq)
    BY <2>1 DEF NoJob
  <2> QED
    BY <2>1, <2>2, Zenon DEF Active, Running
<1> QED
  BY <1>3, <1>4, Zenon

(* Ending a job makes none, and leaves all but its own. *)
LEMMA EndKeepsJobs ==
    ASSUME TypeOK, NEW t \in Threads, worker' = [worker EXCEPT ![t] = NoJob], UNCHANGED poolq
    PROVE  /\ Queued' = Queued /\ Active' \subseteq Active
           /\ \A job \in Active : job \in Active' \/ (Running(t) /\ job = worker[t].job)
<1>1. worker'[t] = NoJob /\ \A u \in Threads \ {t} : worker'[u] = worker[u]
  BY Zenon DEF TypeOK
<1> QED
  BY <1>1, Zenon DEF Active, Running, Queued

(* A compile that succeeds keeps its job while it has a file to record. *)
LEMMA OkKeepsJobs ==
    ASSUME TypeOK, NEW t \in Threads, CompileOk(t)
    PROVE  /\ Queued' = Queued /\ Active' \subseteq Active
           /\ \A job \in Active : job.temp /\ job.file \in Files => job \in Active'
<1>1. worker[t] /= NoJob /\ worker[t] \in [pc : {"compile", "record"}, job : Jobs]
  BY StepThread, BusyThread, Zenon DEF CompileOk, StoreState
<1>2. CASE worker[t].job.temp /\ worker[t].job.file /= NoFile
  <2>1. /\ worker'[t] = [worker[t] EXCEPT !.pc = "record"]
        /\ \A u \in Threads \ {t} : worker'[u] = worker[u]
    BY <1>2, Zenon DEF CompileOk, TypeOK
  <2>2. worker'[t] /= NoJob /\ worker'[t].job = worker[t].job
    BY <2>1, <1>1, Zenon DEF NoJob
  <2>3. Active' = Active
    BY <1>1, <2>1, <2>2 DEF Active, Running
  <2> QED
    BY <2>3, Zenon DEF CompileOk, StoreState, Queued
<1>3. CASE ~(worker[t].job.temp /\ worker[t].job.file /= NoFile)
  <2>1. worker' = [worker EXCEPT ![t] = NoJob] /\ UNCHANGED poolq
    BY <1>3, Zenon DEF CompileOk, StoreState
  <2> QED
    BY <1>3, <2>1, EndKeepsJobs, NamesAssumption, Zenon
<1> QED
  BY <1>2, <1>3, Zenon

(* What notifications, the taking of a task and the panic of an edit leave   *)
(* alone.                                                                    *)
Outside ==
    /\ UNCHANGED <<temporary_workspace, workspaces, workspace_config_cache, poolq, worker,
                   outcome, stranded>>
    /\ main' /= Crashed => main /= Crashed
    /\ \A g \in Files : file_workspaces'[g] \subseteq file_workspaces[g]
    /\ \A g \in opened_files' : g \in opened_files \/ file_workspaces'[g] = {}

(* Every step is one of these. *)
LEMMA StepCases ==
    ASSUME TypeOK, [Next]_vars
    PROVE  \/ Outside
           \/ \E f \in Files : \/ CreatePanics(f) \/ CreateDone(f)
                               \/ ModifyDone(f) \/ ProcessDelete(f)
           \/ \E t \in Threads : \/ StartCompile(t) \/ CompileOk(t) \/ RecordTemporary(t)
                                 \/ CompileErr(t) \/ CompilePanics(t)
<1>1. ASSUME NEW f \in Files, on_did_open(f) PROVE Outside
  BY <1>1 DEF on_did_open, history, Notification, Idle, Crashed, TypeOK, Outside
<1>2. ASSUME NEW f \in Files, on_did_change(f) PROVE Outside
  BY <1>2 DEF on_did_change, history, Notification, Idle, Crashed, TypeOK, Outside
<1>3. ASSUME NEW f \in Files, on_did_close(f) PROVE Outside
  BY <1>3 DEF on_did_close, history, Notification, Idle, Crashed, TypeOK, Outside
<1>4. FinishClose \/ handle_task \/ UNCHANGED vars => Outside
  BY DEF FinishClose, handle_task, vars, history, Idle, Crashed, Outside
<1>5. ASSUME process_changed_file
      PROVE  Outside \/ \E f \in Files : CreatePanics(f) \/ CreateDone(f) \/ ModifyDone(f) \/ ProcessDelete(f)
  <2>1. \A f \in Files : ModifyPanics(f) => Outside
    BY Zenon DEF ModifyPanics, history, Outside
  <2> QED
    BY <1>5, <2>1, ProcessedFile, Zenon DEF process_changed_file, ProcessCreate, ProcessModify, Changes
<1> QED
  BY <1>1, <1>2, <1>3, <1>4, <1>5, Zenon DEF Next

(* A panic on opening a file sends tasks and leaves its entry pending. *)
LEMMA CreatePanicsEffect ==
    ASSUME TypeOK, NEW f \in Files, CreatePanics(f)
    PROVE  /\ main' = Crashed
           /\ UNCHANGED <<opened_files, file_workspaces, workspaces, workspace_config_cache,
                          poolq, worker, stranded>>
           /\ Queued' = Queued /\ Active' = Active
           /\ \A g \in Files : \/ temporary_workspace'[g] = temporary_workspace[g]
                               \/ temporary_workspace'[g] = "pending"
<1>1. /\ main' = Crashed
      /\ UNCHANGED <<opened_files, file_workspaces, workspaces, workspace_config_cache,
                     poolq, worker, stranded>>
  BY Zenon DEF CreatePanics
<1>2. Queued' = Queued /\ Active' = Active
  BY <1>1, Zenon DEF Queued, Active, Running
<1>3. \A g \in Files : \/ temporary_workspace'[g] = temporary_workspace[g]
                       \/ temporary_workspace'[g] = "pending"
  BY Zenon DEF CreatePanics, SetTemporary, SetTemporaryAfter, TypeOK
<1> QED
  BY <1>1, <1>2, <1>3, Zenon

(* Opening a file queues jobs for workspaces whose options it caches, and    *)
(* leaves the file pending only with one of them in the queue.               *)
LEMMA CreateEffect ==
    ASSUME TypeOK, NEW f \in Files, CreateDone(f)
    PROVE  /\ \A g \in Files : \A w \in file_workspaces'[g] :
                 w \in file_workspaces[g] \/ (w \in Workspaces /\ workspaces[w] = "Ready")
           /\ UNCHANGED <<opened_files, workspaces, worker, stranded>>
           /\ Active' = Active
           /\ Queued \subseteq Queued'
           /\ workspace_config_cache \subseteq workspace_config_cache'
           /\ \A job \in Queued' : job \in Queued \/ job.w \in workspace_config_cache'
           /\ \A g \in Files :
                 \/ /\ temporary_workspace'[g] = temporary_workspace[g]
                    /\ outcome'[g] = outcome[g]
                 \/ temporary_workspace'[g] = "absent"
                 \/ /\ temporary_workspace'[g] = "pending"
                    /\ \E w \in Workspaces : CompileJob(w, g, TRUE) \in Queued'
<1>1. /\ file_workspaces' = [file_workspaces EXCEPT ![f] =
            @ \cup {w \in Workspaces : workspaces[w] = "Ready" /\ f \in Modules[w]}]
      /\ UNCHANGED <<opened_files, workspaces, worker, stranded>>
      /\ \/ SetTemporary(f, "absent") /\ UNCHANGED <<workspace_config_cache, poolq>>
         \/ /\ SetTemporary(f, "pending") /\ Lookup[f] /= {}
            /\ async_compile(Lookup[f], f, TRUE)
  BY Zenon DEF CreateDone, Containing
<1>0. \A g \in Files : \A w \in file_workspaces'[g] :
         w \in file_workspaces[g] \/ (w \in Workspaces /\ workspaces[w] = "Ready")
  <2> DEFINE containing == {w \in Workspaces : workspaces[w] = "Ready" /\ f \in Modules[w]}
  <2>1. file_workspaces' = [file_workspaces EXCEPT ![f] = @ \cup containing]
    BY <1>1, Zenon
  <2> HIDE DEF containing
  <2>2. \A g \in Files : \A w \in file_workspaces'[g] : w \in file_workspaces[g] \cup containing
    BY <2>1, Zenon DEF TypeOK
  <2>3. ASSUME NEW g \in Files, NEW w \in file_workspaces'[g]
        PROVE  w \in file_workspaces[g] \/ (w \in Workspaces /\ workspaces[w] = "Ready")
    <3>1. w \in file_workspaces[g] \/ w \in containing
      BY <2>2, Zenon
    <3> QED
      BY <3>1, Zenon DEF containing
  <2> QED
    BY <2>3, Zenon
<1>4. Active' = Active
  BY <1>1, Zenon DEF Active, Running
<1>2. CASE SetTemporary(f, "absent") /\ UNCHANGED <<workspace_config_cache, poolq>>
  <2>1. Queued' = Queued
    BY <1>2, Zenon DEF Queued
  <2>2. \A g \in Files :
           \/ temporary_workspace'[g] = temporary_workspace[g] /\ outcome'[g] = outcome[g]
           \/ temporary_workspace'[g] = "absent"
    BY <1>2, Zenon DEF SetTemporary, SetTemporaryAfter, TypeOK
  <2> QED
    BY <1>0, <1>1, <1>2, <1>4, <2>1, <2>2, Zenon
<1>3. CASE SetTemporary(f, "pending") /\ Lookup[f] /= {} /\ async_compile(Lookup[f], f, TRUE)
  <2>1. Lookup[f] \in SUBSET Workspaces
    BY LookupAssumption, Zenon
  <2>2. /\ workspace_config_cache' = workspace_config_cache \cup Lookup[f]
        /\ Queued \subseteq Queued'
        /\ \A job \in Queued' : job \in Queued \/ \E w \in Lookup[f] : job = CompileJob(w, f, TRUE)
        /\ \E w \in Lookup[f] : CompileJob(w, f, TRUE) \in Queued'
    BY <1>3, <2>1, AsyncCompileEffect, ZenonT(60)
  <2>3. \A job \in Queued' : job \in Queued \/ job.w \in workspace_config_cache'
    BY <2>2 DEF CompileJob
  <2>4. \A g \in Files :
           \/ temporary_workspace'[g] = temporary_workspace[g] /\ outcome'[g] = outcome[g]
           \/ g = f /\ temporary_workspace'[g] = "pending"
    BY <1>3, Zenon DEF SetTemporary, SetTemporaryAfter, TypeOK
  <2> QED
    BY <1>0, <1>1, <1>4, <2>1, <2>2, <2>3, <2>4, Zenon
<1> QED
  BY <1>1, <1>2, <1>3, Zenon

(* Editing a file queues jobs for workspaces whose options it caches. *)
LEMMA ModifyEffect ==
    ASSUME TypeOK, NEW f \in Files, ModifyDone(f)
    PROVE  /\ UNCHANGED <<opened_files, file_workspaces, temporary_workspace, workspaces, worker,
                          outcome, stranded>>
           /\ main' = Idle /\ main' /= Crashed
           /\ Queued \subseteq Queued'
           /\ workspace_config_cache \subseteq workspace_config_cache'
           /\ \A job \in Queued' : job \in Queued \/ job.w \in workspace_config_cache'
<1>0. main' = Idle /\ main' /= Crashed
  BY Zenon DEF ModifyDone, Idle, Crashed
<1>1. /\ UNCHANGED <<opened_files, file_workspaces, temporary_workspace, workspaces, worker,
                     outcome, stranded>>
      /\ \/ async_compile(file_workspaces[f], f, FALSE)
         \/ /\ temporary_workspace[f] \in Workspaces
            /\ async_compile({temporary_workspace[f]}, f, TRUE)
         \/ UNCHANGED <<workspace_config_cache, poolq>>
  BY Zenon DEF ModifyDone, history
<1>2. ASSUME NEW ws \in SUBSET Workspaces, NEW temp \in BOOLEAN, async_compile(ws, f, temp)
      PROVE  /\ Queued \subseteq Queued'
             /\ workspace_config_cache \subseteq workspace_config_cache'
             /\ \A job \in Queued' : job \in Queued \/ job.w \in workspace_config_cache'
  <2>1. /\ workspace_config_cache' = workspace_config_cache \cup ws
        /\ Queued \subseteq Queued'
        /\ \A job \in Queued' : job \in Queued \/ \E w \in ws : job = CompileJob(w, f, temp)
    BY <1>2, AsyncCompileEffect
  <2> QED
    BY <2>1 DEF CompileJob
<1>3. CASE async_compile(file_workspaces[f], f, FALSE)
  <2>1. file_workspaces[f] \in SUBSET Workspaces
    BY Zenon DEF TypeOK
  <2> QED
    BY <1>0, <1>1, <1>2, <1>3, <2>1, Zenon
<1>4. CASE /\ temporary_workspace[f] \in Workspaces
           /\ async_compile({temporary_workspace[f]}, f, TRUE)
  BY <1>0, <1>1, <1>2, <1>4, Zenon
<1>5. CASE UNCHANGED <<workspace_config_cache, poolq>>
  BY <1>0, <1>1, <1>5, Zenon DEF Queued
<1> QED
  BY <1>1, <1>3, <1>4, <1>5, Zenon

(* A main thread that has panicked does nothing more. *)
LEMMA CrashedStays ==
    ASSUME [Next]_vars, main = Crashed
    PROVE  main' = Crashed
BY DEF Next, vars, on_did_open, on_did_change, on_did_close, Notification, FinishClose,
       process_changed_file, handle_task, StartCompile, CompileOk, RecordTemporary, CompileErr,
       FailWith, StoreState, CompilePanics, Idle, Crashed

(* The options of a workspace are cached for as long as the main thread can  *)
(* ask for them (the unwraps of workspace_config_cache.get in the Modify arm *)
(* of process_changed_file).                                                 *)
THEOREM OptionsCached == Spec => []ConfigCached
<1>1. Init => ConfigCached
  <2> SUFFICES ASSUME Init PROVE ConfigCached
    OBVIOUS
  <2>1. /\ \A f \in Files : file_workspaces[f] = {} /\ temporary_workspace[f] = "absent"
        /\ \A w \in Workspaces : workspaces[w] = "None"
        /\ \A t \in Threads : ~Running(t)
        /\ workspace_config_cache = Folders
    BY Zenon DEF Init, Running
  <2>2. \A i \in DOMAIN poolq : \E w \in Folders : poolq[i] = CompileJob(w, NoFile, FALSE)
    BY FoldersAssumption, JobOrdersType, Zenon DEF Init
  <2>3. \A job \in Queued \cup Active : job.w \in workspace_config_cache
    BY <2>1, <2>2 DEF Queued, Active, CompileJob
  <2> QED
    BY <2>1, <2>3, NamesAssumption, Zenon DEF ConfigCached
<1>2. TypeOK /\ ConfigCached /\ [Next]_vars => ConfigCached'
  <2> SUFFICES ASSUME TypeOK, ConfigCached, [Next]_vars PROVE ConfigCached'
    BY Zenon
  <2>1. CASE Outside
    BY <2>1, Zenon DEF Outside, ConfigCached, Queued, Active, Running
  <2>7. ASSUME NEW f \in Files, CreatePanics(f) PROVE ConfigCached'
    BY <2>7, CreatePanicsEffect, NamesAssumption, Zenon DEF ConfigCached
  <2>2. ASSUME NEW f \in Files, CreateDone(f) PROVE ConfigCached'
    <3>1. \A g \in Files : file_workspaces'[g] \subseteq workspace_config_cache'
      BY <2>2, CreateEffect, Zenon DEF ConfigCached
    <3>2. \A g \in Files : temporary_workspace'[g] \in Workspaces
                              => temporary_workspace'[g] \in workspace_config_cache'
      BY <2>2, CreateEffect, NamesAssumption, Zenon DEF ConfigCached
    <3>3. /\ \A w \in Workspaces : workspaces'[w] /= "None" => w \in workspace_config_cache'
          /\ \A job \in Queued' \cup Active' : job.w \in workspace_config_cache'
      BY <2>2, CreateEffect, Zenon DEF ConfigCached
    <3> QED
      BY <3>1, <3>2, <3>3, Zenon DEF ConfigCached
  <2>3. ASSUME NEW f \in Files, ModifyDone(f) PROVE ConfigCached'
    <3>1. Active' = Active
      BY <2>3, ModifyEffect, Zenon DEF Active, Running
    <3> QED
      BY <2>3, <3>1, ModifyEffect, Zenon DEF ConfigCached
  <2>4. ASSUME NEW f \in Files, ProcessDelete(f) PROVE ConfigCached'
    <3>1. Queued' = Queued /\ Active' = Active
      BY <2>4, Zenon DEF ProcessDelete, DeleteWith, Queued, Active, Running
    <3>2. \A g \in Files : \/ temporary_workspace'[g] = temporary_workspace[g]
                           \/ temporary_workspace'[g] = "absent"
      BY <2>4, Zenon DEF ProcessDelete, DeleteWith, SetTemporary, SetTemporaryAfter, TypeOK
    <3>3. \A w \in Workspaces : workspaces'[w] \in {workspaces[w], "None"}
      BY <2>4, Zenon DEF ProcessDelete, DeleteWith
    <3>4. UNCHANGED <<file_workspaces, workspace_config_cache>>
      BY <2>4, Zenon DEF ProcessDelete, DeleteWith
    <3> QED
      BY <3>1, <3>2, <3>3, <3>4, NamesAssumption, Zenon DEF ConfigCached
  <2>5. ASSUME NEW t \in Threads, StartCompile(t) PROVE ConfigCached'
    <3>1. Head(poolq).w \in workspace_config_cache
      BY <2>5, StartKeepsJobs, Zenon DEF ConfigCached
    <3> QED
      BY <2>5, <3>1, StartKeepsJobs, Zenon DEF StartCompile, ConfigCached, TypeOK
  <2>6. ASSUME NEW t \in Threads,
               CompileOk(t) \/ RecordTemporary(t) \/ CompileErr(t) \/ CompilePanics(t)
        PROVE  ConfigCached'
    <3>1. worker[t].job \in Active /\ worker[t].job.w \in Workspaces
      BY <2>6, StepThread, BusyThread, Zenon DEF CompileOk, RecordTemporary, CompileErr, FailWith,
                                          StoreState, CompilePanics, Active, Running
    <3>2. worker[t].job.w \in workspace_config_cache
      BY <3>1, Zenon DEF ConfigCached
    <3>3. Queued' = Queued /\ Active' \subseteq Active
      BY <2>6, OkKeepsJobs, EndKeepsJobs, Zenon DEF RecordTemporary, CompileErr, FailWith, StoreState, CompilePanics
    <3>4. \A w \in Workspaces : workspaces'[w] /= "None" => w \in workspace_config_cache
      BY <2>6, <3>2, Zenon DEF CompileOk, RecordTemporary, CompileErr, FailWith, StoreState, CompilePanics, ConfigCached, TypeOK
    <3>5. \A g \in Files : temporary_workspace'[g] \in Workspaces
                              => temporary_workspace'[g] \in workspace_config_cache
      <4>1. \A g \in Files : \/ temporary_workspace'[g] = temporary_workspace[g]
                             \/ temporary_workspace'[g] \in {"absent", worker[t].job.w}
        <5>1. CASE CompileOk(t) \/ CompilePanics(t)
          BY <5>1, Zenon DEF CompileOk, CompilePanics
        <5>2. CASE RecordTemporary(t)
          BY <5>2, Zenon DEF RecordTemporary, SetTemporary, SetTemporaryAfter, TypeOK
        <5>3. CASE CompileErr(t)
          BY <5>3, Zenon DEF CompileErr, FailWith, SetTemporaryAfter, TypeOK
        <5> QED
          BY <2>6, <5>1, <5>2, <5>3, Zenon
      <4> QED
        BY <4>1, <3>2, NamesAssumption, Zenon DEF ConfigCached
    <3>6. UNCHANGED <<file_workspaces, workspace_config_cache>>
      BY <2>6, Zenon DEF CompileOk, RecordTemporary, CompileErr, FailWith, StoreState, CompilePanics
    <3> QED
      BY <3>3, <3>4, <3>5, <3>6, Zenon DEF ConfigCached
  <2> QED
    BY <2>1, <2>2, <2>3, <2>4, <2>5, <2>6, <2>7, StepCases, Zenon
<1> QED
  BY <1>1, <1>2, TypeCorrect, PTL DEF Spec

(* Of the unwraps of process_changed_file only those of opened_files can     *)
(* panic: a step on which the main thread panics processes a closed file.    *)
THEOREM OptionsNeverPanic == Spec => PanicsOnlyOnClosed
<1>1. TypeOK /\ ConfigCached /\ [Next]_vars
        => [main /= Crashed /\ main' = Crashed => main.file \notin opened_files]_vars
  <2> SUFFICES ASSUME TypeOK, ConfigCached, Next, main /= Crashed, main' = Crashed
               PROVE  main.file \notin opened_files
    BY Zenon
  <2>1. process_changed_file
    BY Zenon DEF Next, on_did_open, on_did_change, on_did_close, Closing, FinishClose, Process,
           handle_task, StartCompile, CompileOk, RecordTemporary, CompileErr, FailWith, StoreState,
           CompilePanics, Crashed
  <2>2. main.file \in Files
    BY <2>1, ProcessedFile, Zenon DEF process_changed_file
  <2>3. ~ProcessDelete(main.file)
    BY Zenon DEF ProcessDelete, DeleteWith, Idle, Crashed
  <2>4. ASSUME ProcessCreate(main.file) PROVE main.file \notin opened_files
    BY <2>4, Zenon DEF ProcessCreate, CreatePanics, CreateDone, Idle, Crashed
  <2>5. ASSUME ProcessModify(main.file) PROVE main.file \notin opened_files
    BY <2>2, <2>5, Zenon DEF ProcessModify, ModifyPanics, ModifyDone, Unwrapped, ConfigCached, Idle, Crashed
  <2> QED
    BY <2>1, <2>2, <2>3, <2>4, <2>5, ProcessedFile, Zenon DEF process_changed_file, Changes
<1> QED
  BY <1>1, TypeCorrect, OptionsCached, PTL DEF Spec, PanicsOnlyOnClosed

(* The database of a workspace recorded for an open file is never removed:   *)
(* the Delete arm of process_changed_file looks for users of the workspace.  *)
THEOREM RecordedKept == Spec => []RecordedHasState
<1>1. Init => RecordedHasState
  BY Zenon DEF Init, RecordedHasState
<1>2. TypeOK /\ RecordedHasState /\ [Next]_vars => RecordedHasState'
  <2> SUFFICES ASSUME TypeOK, RecordedHasState, [Next]_vars PROVE RecordedHasState'
    OBVIOUS
  <2>1. CASE Outside
    <3>1. opened_files' \in SUBSET Files
      BY TypeStep, Zenon DEF TypeOK
    <3> QED
      BY <2>1, <3>1, Zenon DEF Outside, RecordedHasState
  <2>2. ASSUME NEW f \in Files, CreateDone(f) PROVE RecordedHasState'
    BY <2>2, CreateEffect, Zenon DEF RecordedHasState, TypeOK
  <2>6. ASSUME NEW f \in Files, CreatePanics(f) PROVE RecordedHasState'
    BY <2>6, CreatePanicsEffect, Zenon DEF RecordedHasState
  <2>3. ASSUME NEW f \in Files, ModifyDone(f) PROVE RecordedHasState'
    BY <2>3, ModifyEffect, Zenon DEF RecordedHasState
  <2>4. ASSUME NEW f \in Files, ProcessDelete(f) PROVE RecordedHasState'
    BY <2>4, ZenonT(60) DEF ProcessDelete, DeleteWith, RecordedHasState, TypeOK
  <2>5. ASSUME NEW t \in Threads,
               \/ StartCompile(t) \/ CompileOk(t) \/ RecordTemporary(t)
               \/ CompileErr(t) \/ CompilePanics(t)
        PROVE  RecordedHasState'
    <3>1. \A w \in Workspaces : workspaces[w] /= "None" => workspaces'[w] /= "None"
      BY <2>5, Zenon DEF StartCompile, CompileOk, RecordTemporary, CompileErr, FailWith, StoreState,
                         CompilePanics, TypeOK
    <3>2. UNCHANGED <<opened_files, file_workspaces>>
      BY <2>5, Zenon DEF StartCompile, CompileOk, RecordTemporary, CompileErr, FailWith, StoreState,
                         CompilePanics
    <3> QED
      BY <3>1, <3>2, Zenon DEF RecordedHasState, TypeOK
  <2> QED
    BY <2>1, <2>2, <2>3, <2>4, <2>5, <2>6, StepCases, Zenon
<1> QED
  BY <1>1, <1>2, TypeCorrect, PTL DEF Spec

(* A pending temporary workspace has a compile job of its file to settle it, *)
(* or that job panicked, however opens, edits, closes and other compiles     *)
(* interleave.                                                               *)
THEOREM PendingIsCompiled == Spec => []PendingHasCompile
<1>1. Init => PendingHasCompile
  BY Zenon DEF Init, PendingHasCompile
<1>2. TypeOK /\ PendingHasCompile /\ [Next]_vars => PendingHasCompile'
  <2> SUFFICES ASSUME TypeOK, PendingHasCompile, [Next]_vars, main' /= Crashed,
                      NEW g \in Files, temporary_workspace'[g] = "pending",
                      outcome'[g] /= "panicked"
               PROVE  \E job \in Queued' \cup Active' : job.file = g /\ job.temp
    BY Zenon DEF PendingHasCompile
  <2>0. ASSUME main /= Crashed, temporary_workspace[g] = "pending", outcome[g] /= "panicked"
        PROVE  \E job \in Queued \cup Active : job.file = g /\ job.temp
    BY <2>0, Zenon DEF PendingHasCompile
  <2>1. CASE Outside
    <3>1. Queued' = Queued /\ Active' = Active
      BY <2>1, Zenon DEF Outside, Queued, Active, Running
    <3> QED
      BY <2>0, <2>1, <3>1, Zenon DEF Outside
  <2>2. ASSUME NEW f \in Files, CreateDone(f)
        PROVE  \E job \in Queued' \cup Active' : job.file = g /\ job.temp
    <3>1. \A w : CompileJob(w, g, TRUE).file = g /\ CompileJob(w, g, TRUE).temp
      BY Zenon DEF CompileJob
    <3>2. /\ Active' = Active /\ Queued \subseteq Queued'
          /\ \/ temporary_workspace[g] = "pending" /\ outcome[g] /= "panicked"
             \/ \E w \in Workspaces : CompileJob(w, g, TRUE) \in Queued'
      BY <2>2, CreateEffect, Zenon
    <3>3. main /= Crashed
      BY <2>2, CrashedStays, Zenon
    <3> QED
      BY <2>0, <3>1, <3>2, <3>3, Zenon
  <2>3. ASSUME NEW f \in Files, ModifyDone(f)
        PROVE  \E job \in Queued' \cup Active' : job.file = g /\ job.temp
    <3>1. Active' = Active
      BY <2>3, ModifyEffect DEF Active, Running
    <3>2. main /= Crashed
      BY <2>3, CrashedStays, Zenon
    <3> QED
      BY <2>0, <2>3, <3>1, <3>2, ModifyEffect, Zenon
  <2>4. ASSUME NEW f \in Files, ProcessDelete(f)
        PROVE  \E job \in Queued' \cup Active' : job.file = g /\ job.temp
    <3>1. Queued' = Queued /\ Active' = Active
      BY <2>4 DEF ProcessDelete, DeleteWith, Queued, Active, Running
    <3>2. temporary_workspace[g] = "pending" /\ outcome[g] = outcome'[g]
      BY <2>4, Zenon DEF ProcessDelete, DeleteWith, SetTemporary, SetTemporaryAfter, TypeOK
    <3>3. main /= Crashed
      BY <2>4, CrashedStays, Zenon
    <3> QED
      BY <2>0, <3>1, <3>2, <3>3, Zenon
  <2>5. ASSUME NEW t \in Threads, StartCompile(t)
        PROVE  \E job \in Queued' \cup Active' : job.file = g /\ job.temp
    <3>1. UNCHANGED <<temporary_workspace, outcome, main>>
      BY <2>5, Zenon DEF StartCompile, history
    <3> QED
      BY <2>0, <2>5, <3>1, StartKeepsJobs, Zenon
  <2>6. ASSUME NEW t \in Threads, CompileOk(t)
        PROVE  \E job \in Queued' \cup Active' : job.file = g /\ job.temp
    <3>1. UNCHANGED <<temporary_workspace, outcome, main>>
      BY <2>6, Zenon DEF CompileOk, StoreState
    <3> QED
      BY <2>0, <2>6, <3>1, OkKeepsJobs, Zenon
  <2>7. ASSUME NEW t \in Threads, RecordTemporary(t) \/ CompileErr(t) \/ CompilePanics(t)
        PROVE  \E job \in Queued' \cup Active' : job.file = g /\ job.temp
    <3>1. worker[t].job \in Jobs /\ worker[t].job.w \in Workspaces
      BY <2>7, StepThread, BusyThread, Zenon DEF RecordTemporary, CompileErr, FailWith, StoreState,
                                                 CompilePanics
    <3>2. /\ temporary_workspace[g] = "pending" /\ outcome[g] /= "panicked"
          /\ ~(worker[t].job.file = g /\ worker[t].job.temp)
      <4>1. CASE RecordTemporary(t)
        BY <4>1, <3>1, NamesAssumption, Zenon DEF RecordTemporary, SetTemporary, SetTemporaryAfter, TypeOK
      <4>2. CASE CompileErr(t)
        BY <4>2, NamesAssumption, Zenon DEF CompileErr, FailWith, SetTemporaryAfter, TypeOK
      <4>3. CASE CompilePanics(t)
        BY <4>3, Zenon DEF CompilePanics
      <4> QED
        BY <2>7, <4>1, <4>2, <4>3, Zenon
    <3>3. /\ Queued' = Queued
          /\ \A job \in Active : job \in Active' \/ job = worker[t].job
      BY <2>7, EndKeepsJobs, Zenon DEF RecordTemporary, CompileErr, FailWith, StoreState, CompilePanics
    <3>4. main /= Crashed
      BY <2>7, Zenon DEF RecordTemporary, CompileErr, FailWith, StoreState, CompilePanics
    <3> QED
      BY <2>0, <3>2, <3>3, <3>4, Zenon
  <2> QED
    BY <2>1, <2>2, <2>3, <2>4, <2>5, <2>6, <2>7, StepCases, CreatePanicsEffect, Zenon
<1> QED
  BY <1>1, <1>2, TypeCorrect, PTL DEF Spec

(* A busy workspace is compiled by a thread unless a compile of it panicked: *)
(* two compiles of one workspace that overlap never leave it Init or         *)
(* Compiling for good.                                                       *)
THEOREM BusyIsCompiled == Spec => []BusyHasCompile
<1>1. Init => BusyHasCompile
  BY Zenon DEF Init, BusyHasCompile, Busy
<1>2. TypeOK /\ BusyHasCompile /\ [Next]_vars => BusyHasCompile'
  <2> SUFFICES ASSUME TypeOK, BusyHasCompile, [Next]_vars PROVE BusyHasCompile'
    OBVIOUS
  <2>1. CASE UNCHANGED <<workspaces, worker, stranded>>
    BY <2>1, Zenon DEF BusyHasCompile, Busy, Compiling
  <2>2. ASSUME NEW f \in Files, ProcessDelete(f) PROVE BusyHasCompile'
    <3>1. /\ \A w \in Busy' : w \in Busy /\ (w \in stranded => w \in stranded')
          /\ UNCHANGED worker
      BY <2>2, Zenon DEF ProcessDelete, DeleteWith, Busy, TypeOK
    <3> QED
      BY <3>1, Zenon DEF BusyHasCompile, Compiling
  <2>3. ASSUME NEW t \in Threads, StartCompile(t) PROVE BusyHasCompile'
    <3>1. Head(poolq) \in Jobs
      BY <2>3, QueueType, Zenon DEF StartCompile, TypeOK
    <3>2. /\ worker[t] = NoJob /\ worker'[t] = [pc |-> "compile", job |-> Head(poolq)]
          /\ \A u \in Threads \ {t} : worker'[u] = worker[u]
      BY <2>3, Zenon DEF StartCompile, TypeOK
    <3>3. worker[t].pc /= "compile" /\ worker'[t].pc = "compile" /\ worker'[t].job.w = Head(poolq).w
      BY <3>2 DEF NoJob
    <3>4. Busy' \subseteq Busy \cup {Head(poolq).w} /\ UNCHANGED stranded
      BY <2>3, Zenon DEF StartCompile, history, Busy, TypeOK
    <3>5. t \in Compiling' /\ t \notin Compiling
      BY <3>3, Zenon DEF Compiling
    <3>6. \A u \in Compiling : u \in Compiling' /\ worker'[u] = worker[u]
      BY <3>2, <3>5, Zenon DEF Compiling
    <3> SUFFICES ASSUME NEW w \in Busy', w \notin stranded'
                 PROVE  \E u \in Compiling' : worker'[u].job.w = w
      BY Zenon DEF BusyHasCompile
    <3>7. CASE w = Head(poolq).w
      BY <3>3, <3>5, <3>7, Zenon
    <3>8. CASE w \in Busy
      BY <3>4, <3>6, <3>8, Zenon DEF BusyHasCompile
    <3> QED
      BY <3>4, <3>7, <3>8, Zenon
  <2>4. ASSUME NEW t \in Threads, CompileOk(t) \/ CompileErr(t) PROVE BusyHasCompile'
    <3>1. Busy' \subseteq Busy \ {worker[t].job.w} /\ stranded' = stranded \ {worker[t].job.w}
      BY <2>4, ZenonT(30) DEF CompileOk, CompileErr, FailWith, StoreState, Busy, TypeOK
    <3>2. \A u \in Threads \ {t} : worker'[u] = worker[u]
      BY <2>4, ZenonT(30) DEF CompileOk, CompileErr, FailWith, StoreState, TypeOK
    <3> QED
      BY <3>1, <3>2, Zenon DEF BusyHasCompile, Compiling
  <2>5. ASSUME NEW t \in Threads, RecordTemporary(t) PROVE BusyHasCompile'
    <3>1. worker[t].pc = "record" /\ UNCHANGED <<workspaces, stranded>>
          /\ \A u \in Threads \ {t} : worker'[u] = worker[u]
      BY <2>5, Zenon DEF RecordTemporary, TypeOK
    <3> QED
      BY <3>1 DEF BusyHasCompile, Compiling, Busy
  <2>6. ASSUME NEW t \in Threads, CompilePanics(t) PROVE BusyHasCompile'
    <3>1. /\ UNCHANGED workspaces /\ stranded' = stranded \cup {worker[t].job.w}
          /\ \A u \in Threads \ {t} : worker'[u] = worker[u]
      BY <2>6, Zenon DEF CompilePanics, TypeOK
    <3> QED
      BY <3>1, Zenon DEF BusyHasCompile, Compiling, Busy
  <2>7. ASSUME NEW f \in Files, CreatePanics(f) \/ CreateDone(f) \/ ModifyDone(f)
        PROVE  UNCHANGED <<workspaces, worker, stranded>>
    BY <2>7, Zenon DEF CreatePanics, CreateDone, ModifyDone, history
  <2> QED
    BY <2>1, <2>2, <2>3, <2>4, <2>5, <2>6, <2>7, StepCases, ZenonT(30) DEF Outside
<1> QED
  BY <1>1, <1>2, TypeCorrect, PTL DEF Spec
-----------------------------------------------------------------------------
(* No open file is forgotten. *)

(* What is sent to the channel is added to what waits in it. *)
LEMMA TasksGrow ==
    ASSUME TypeOK, NEW sent \in Seq(TaskSet), tasks' = tasks \o sent
    PROVE  /\ \A i \in DOMAIN tasks : i \in DOMAIN tasks' /\ tasks'[i] = tasks[i]
           /\ \A i \in DOMAIN sent : \E k \in DOMAIN tasks' : tasks'[k] = sent[i]
           /\ \A k \in DOMAIN tasks' : \/ k \in DOMAIN tasks /\ tasks'[k] = tasks[k]
                                       \/ \E i \in DOMAIN sent : tasks'[k] = sent[i]
<1>1. tasks \in Seq(TaskSet)
  BY Zenon DEF TypeOK, TaskSet
<1>2. /\ Len(tasks') = Len(tasks) + Len(sent) /\ tasks' \in Seq(TaskSet)
      /\ \A i \in 1..(Len(tasks) + Len(sent)) :
            tasks'[i] = IF i <= Len(tasks) THEN tasks[i] ELSE sent[i - Len(tasks)]
  BY <1>1, ConcatProperties, Zenon
<1>3. /\ Len(tasks) \in Nat /\ Len(sent) \in Nat
      /\ DOMAIN tasks = 1..Len(tasks) /\ DOMAIN sent = 1..Len(sent)
      /\ DOMAIN tasks' = 1..(Len(tasks) + Len(sent))
  BY <1>1, <1>2
<1>4. ASSUME NEW i \in DOMAIN sent PROVE \E k \in DOMAIN tasks' : tasks'[k] = sent[i]
  <2>1. /\ Len(tasks) + i \in DOMAIN tasks'
        /\ tasks'[Len(tasks) + i] = sent[i]
    BY <1>2, <1>3
  <2> QED
    BY <2>1, Zenon
<1>5. ASSUME NEW k \in DOMAIN tasks'
      PROVE  \/ k \in DOMAIN tasks /\ tasks'[k] = tasks[k]
             \/ \E i \in DOMAIN sent : tasks'[k] = sent[i]
  <2>1. CASE k <= Len(tasks)
    BY <2>1, <1>2, <1>3
  <2>2. CASE ~(k <= Len(tasks))
    <3>1. k - Len(tasks) \in DOMAIN sent /\ tasks'[k] = sent[k - Len(tasks)]
      BY <2>2, <1>2, <1>3
    <3> QED
      BY <3>1, Zenon
  <2> QED
    BY <2>1, <2>2, Zenon
<1> QED
  BY <1>2, <1>3, <1>4, <1>5

(* Taking a task leaves the others. *)
LEMMA TasksShrink ==
    ASSUME TypeOK, handle_task
    PROVE  /\ \A i \in DOMAIN tasks : tasks[i] = Head(tasks) \/ \E k \in DOMAIN tasks' : tasks'[k] = tasks[i]
           /\ \A k \in DOMAIN tasks' : \E i \in DOMAIN tasks : tasks'[k] = tasks[i]
           /\ \E i \in DOMAIN tasks : tasks[i] = Head(tasks)
<1>1. tasks \in Seq(TaskSet) /\ tasks /= <<>> /\ tasks' = Tail(tasks)
  BY Zenon DEF TypeOK, TaskSet, handle_task
<1>2. /\ Len(tasks) \in Nat /\ Len(tasks) > 0
      /\ DOMAIN tasks = 1..Len(tasks) /\ DOMAIN tasks' = 1..(Len(tasks) - 1)
      /\ \A i \in 1..(Len(tasks) - 1) : tasks'[i] = tasks[i + 1]
      /\ Head(tasks) = tasks[1]
  BY <1>1
<1>3. ASSUME NEW i \in DOMAIN tasks, i /= 1 PROVE \E k \in DOMAIN tasks' : tasks'[k] = tasks[i]
  <2>1. i - 1 \in DOMAIN tasks' /\ tasks'[i - 1] = tasks[i]
    BY <1>2, <1>3
  <2> QED
    BY <2>1, Zenon
<1>4. ASSUME NEW k \in DOMAIN tasks' PROVE \E i \in DOMAIN tasks : tasks'[k] = tasks[i]
  <2>1. k + 1 \in DOMAIN tasks /\ tasks'[k] = tasks[k + 1]
    BY <1>2
  <2> QED
    BY <2>1, Zenon
<1>5. 1 \in DOMAIN tasks
  BY <1>2
<1> QED
  BY <1>2, <1>3, <1>4, <1>5, Zenon

(* The tasks that process_changed_file sends look at the file as opened or   *)
(* as edited, and all tasks that wait are kept.                              *)
LEMMA ProcessTasks ==
    ASSUME TypeOK, process_changed_file
    PROVE  /\ \A i \in DOMAIN tasks : i \in DOMAIN tasks' /\ tasks'[i] = tasks[i]
           /\ \A k \in DOMAIN tasks' : \/ k \in DOMAIN tasks /\ tasks'[k] = tasks[k]
                                       \/ tasks'[k].change \in {"Create", "Modify"}
<1> DEFINE f == main.file
           create == Task("ChangedFile", f, "Create")
           modify == Task("ChangedFile", f, "Modify")
           reopen == Task("ReOpenFile", f, "Create")
<1>1. f \in Files /\ main.change \in Changes
  BY ProcessedFile, Zenon DEF process_changed_file
<1>2. /\ create \in TaskSet /\ modify \in TaskSet /\ reopen \in TaskSet
      /\ create.change = "Create" /\ modify.change = "Modify" /\ reopen.change = "Create"
  BY <1>1, Zenon DEF Task, TaskSet, Changes
<1>3. Cardinality(Busy) \in Nat
  BY SomeWorkspaces, Zenon DEF Busy
<1>4. ASSUME NEW n \in 0..Cardinality(Busy)
      PROVE  /\ CreateAgain(f, n) \in Seq(TaskSet)
             /\ \A i \in DOMAIN CreateAgain(f, n) : CreateAgain(f, n)[i].change = "Create"
  BY <1>2, <1>3 DEF CreateAgain
<1>5. /\ <<modify, reopen>> \in Seq(TaskSet) /\ <<reopen>> \in Seq(TaskSet)
      /\ \A i \in DOMAIN <<modify, reopen>> : <<modify, reopen>>[i].change \in {"Create", "Modify"}
      /\ \A i \in DOMAIN <<reopen>> : <<reopen>>[i].change = "Create"
  BY <1>2
<1>6. tasks \in Seq(TaskSet)
  BY Zenon DEF TypeOK, TaskSet
<1>7. \/ UNCHANGED tasks
      \/ \E n \in 0..Cardinality(Busy) : tasks' = tasks \o CreateAgain(f, n)
      \/ tasks' = tasks \o <<modify, reopen>>
      \/ tasks' = Append(tasks, reopen)
  <2>1. Cardinality(Busy) \in 0..Cardinality(Busy)
    BY <1>3
  <2> QED
    BY <1>1, <2>1, Zenon DEF process_changed_file, ProcessCreate, CreatePanics, CreateDone,
                        ProcessModify, ModifyPanics, ModifyDone, ProcessDelete, DeleteWith, Changes
<1>8. Append(tasks, reopen) = tasks \o <<reopen>>
  BY <1>2, <1>6
<1> HIDE DEF create, modify, reopen
<1>9. ASSUME NEW n \in 0..Cardinality(Busy), tasks' = tasks \o CreateAgain(f, n)
      PROVE  /\ \A i \in DOMAIN tasks : i \in DOMAIN tasks' /\ tasks'[i] = tasks[i]
             /\ \A k \in DOMAIN tasks' : \/ k \in DOMAIN tasks /\ tasks'[k] = tasks[k]
                                         \/ tasks'[k].change \in {"Create", "Modify"}
  <2> DEFINE creates == CreateAgain(f, n)
  <2>1. /\ creates \in Seq(TaskSet) /\ tasks' = tasks \o creates
        /\ \A i \in DOMAIN creates : creates[i].change = "Create"
    BY <1>4, <1>9, Zenon
  <2> HIDE DEF creates
  <2> QED
    BY <2>1, TasksGrow
<1>10. CASE tasks' = tasks \o <<modify, reopen>>
  BY <1>5, <1>10, TasksGrow
<1>11. CASE tasks' = tasks \o <<reopen>>
  BY <1>5, <1>11, TasksGrow, SMTT(30)
<1>12. CASE UNCHANGED tasks
  BY <1>12, Zenon
<1> QED
  BY <1>7, <1>8, <1>9, <1>10, <1>11, <1>12, Zenon

(* The jobs a file gets by being opened, and by being edited. *)
LEMMA CreateJobs ==
    ASSUME TypeOK, NEW f \in Files, CreateDone(f)
    PROVE  /\ Active' = Active
           /\ \A job \in Queued' : job \in Queued \/ \E w \in Lookup[f] : job = CompileJob(w, f, TRUE)
<1>1. /\ UNCHANGED worker
      /\ UNCHANGED poolq \/ async_compile(Lookup[f], f, TRUE)
  BY Zenon DEF CreateDone
<1>2. Lookup[f] \in SUBSET Workspaces
  BY LookupAssumption
<1>3. Active' = Active
  BY <1>1, Zenon DEF Active, Running
<1>4. CASE UNCHANGED poolq
  BY <1>3, <1>4, Zenon DEF Queued
<1>5. CASE async_compile(Lookup[f], f, TRUE)
  BY <1>2, <1>3, <1>5, AsyncCompileEffect, ZenonT(60)
<1> QED
  BY <1>1, <1>4, <1>5, Zenon

LEMMA ModifyJobs ==
    ASSUME TypeOK, NEW f \in Files, ModifyDone(f)
    PROVE  /\ Active' = Active
           /\ \A job \in Queued' : \/ job \in Queued
                                   \/ ~job.temp
                                   \/ /\ temporary_workspace[f] \in Workspaces
                                      /\ job = CompileJob(temporary_workspace[f], f, TRUE)
<1>1. /\ UNCHANGED worker
      /\ \/ async_compile(file_workspaces[f], f, FALSE)
         \/ /\ temporary_workspace[f] \in Workspaces
            /\ async_compile({temporary_workspace[f]}, f, TRUE)
         \/ UNCHANGED poolq
  BY Zenon DEF ModifyDone
<1>2. Active' = Active
  BY <1>1, Zenon DEF Active, Running
<1>3. CASE async_compile(file_workspaces[f], f, FALSE)
  <2>1. file_workspaces[f] \in SUBSET Workspaces
    BY DEF TypeOK
  <2>2. \A job \in Queued' : job \in Queued \/ \E w \in file_workspaces[f] : job = CompileJob(w, f, FALSE)
    BY <1>3, <2>1, AsyncCompileEffect, ZenonT(60)
  <2> QED
    BY <1>2, <2>2 DEF CompileJob
<1>4. CASE temporary_workspace[f] \in Workspaces /\ async_compile({temporary_workspace[f]}, f, TRUE)
  <2>1. {temporary_workspace[f]} \in SUBSET Workspaces
    BY <1>4, Zenon
  <2>2. \A job \in Queued' : job \in Queued \/ \E w \in {temporary_workspace[f]} : job = CompileJob(w, f, TRUE)
    BY <1>4, <2>1, AsyncCompileEffect, Zenon
  <2> QED
    BY <1>2, <1>4, <2>2, Zenon
<1>5. CASE UNCHANGED poolq
  BY <1>2, <1>5, Zenon DEF Queued
<1> QED
  BY <1>1, <1>3, <1>4, <1>5, Zenon

(* A temporary workspace, and every job that may become one, was found for   *)
(* the file (find_workspaces in the Create arm of process_changed_file).     *)
THEOREM TemporaryFound == Spec => []JobsFound
<1>1. Init => JobsFound
  <2> SUFFICES ASSUME Init PROVE JobsFound
    OBVIOUS
  <2>1. /\ \A f \in Files : temporary_workspace[f] = "absent"
        /\ \A t \in Threads : ~Running(t)
    BY Zenon DEF Init, Running
  <2>2. \A i \in DOMAIN poolq : \E w \in Folders : poolq[i] = CompileJob(w, NoFile, FALSE)
    BY FoldersAssumption, JobOrdersType, ZenonT(60) DEF Init
  <2>3. \A job \in Queued \cup Active : ~job.temp
    BY <2>1, <2>2 DEF Queued, Active, CompileJob
  <2>4. \A t \in Threads : worker[t].pc /= "record"
    BY Zenon DEF Init, NoJob
  <2> QED
    BY <2>1, <2>3, <2>4, NamesAssumption, Zenon DEF JobsFound
<1>2. TypeOK /\ JobsFound /\ [Next]_vars => JobsFound'
  <2> SUFFICES ASSUME TypeOK, JobsFound, [Next]_vars PROVE JobsFound'
    OBVIOUS
  <2>1. CASE Outside
    BY <2>1 DEF Outside, JobsFound, Queued, Active, Running
  <2>9. ASSUME NEW f \in Files, CreatePanics(f) PROVE JobsFound'
    BY <2>9, CreatePanicsEffect, NamesAssumption, Zenon DEF JobsFound
  <2>2. ASSUME NEW f \in Files, CreateDone(f) PROVE JobsFound'
    <3>1. ASSUME NEW job \in Queued' \cup Active', job.temp, job.file \in Files
          PROVE  job.w \in Lookup[job.file]
      <4>1. job \in Queued \cup Active \/ \E w \in Lookup[f] : job = CompileJob(w, f, TRUE)
        BY <2>2, CreateJobs, Zenon
      <4> QED
        BY <3>1, <4>1 DEF JobsFound, CompileJob
    <3>2. \A g \in Files : temporary_workspace'[g] \in Workspaces => temporary_workspace'[g] \in Lookup[g]
      BY <2>2, CreateEffect, NamesAssumption, Zenon DEF JobsFound
    <3>3. UNCHANGED worker
      BY <2>2, CreateEffect, Zenon
    <3> QED
      BY <3>1, <3>2, <3>3, Zenon DEF JobsFound
  <2>3. ASSUME NEW f \in Files, ModifyDone(f) PROVE JobsFound'
    <3>1. ASSUME NEW job \in Queued' \cup Active', job.temp, job.file \in Files
          PROVE  job.w \in Lookup[job.file]
      <4>1. \/ job \in Queued \cup Active
            \/ /\ temporary_workspace[f] \in Workspaces
               /\ job = CompileJob(temporary_workspace[f], f, TRUE)
        BY <2>3, <3>1, ModifyJobs, Zenon
      <4> QED
        BY <3>1, <4>1 DEF JobsFound, CompileJob
    <3>2. UNCHANGED <<temporary_workspace, worker>>
      BY <2>3, ModifyEffect, Zenon
    <3> QED
      BY <3>1, <3>2, Zenon DEF JobsFound
  <2>4. ASSUME NEW f \in Files, ProcessDelete(f) PROVE JobsFound'
    <3>1. Queued' = Queued /\ Active' = Active /\ UNCHANGED worker
      BY <2>4, Zenon DEF ProcessDelete, DeleteWith, Queued, Active, Running
    <3>2. \A g \in Files : temporary_workspace'[g] = temporary_workspace[g] \/ temporary_workspace'[g] = "absent"
      BY <2>4, Zenon DEF ProcessDelete, DeleteWith, SetTemporary, SetTemporaryAfter, TypeOK
    <3> QED
      BY <3>1, <3>2, NamesAssumption, Zenon DEF JobsFound
  <2>5. ASSUME NEW t \in Threads, StartCompile(t) PROVE JobsFound'
    <3>1. UNCHANGED temporary_workspace
      BY <2>5 DEF StartCompile
    <3>2. \A u \in Threads : worker'[u].pc = "record" => worker'[u] = worker[u]
      BY <2>5, Zenon DEF StartCompile, TypeOK
    <3> QED
      BY <2>5, <3>1, <3>2, StartKeepsJobs, Zenon DEF JobsFound
  <2>6. ASSUME NEW t \in Threads, CompileOk(t) PROVE JobsFound'
    <3>1. UNCHANGED temporary_workspace
      BY <2>6 DEF CompileOk
    <3>2. worker[t] \in [pc : {"compile", "record"}, job : Jobs]
      BY <2>6, StepThread, BusyThread, Zenon DEF CompileOk, StoreState
    <3>3. \A u \in Threads : worker'[u].pc = "record" => worker'[u].job.temp
      BY <2>6, <3>2, Zenon DEF CompileOk, TypeOK, JobsFound, NoJob
    <3> QED
      BY <2>6, <3>1, <3>3, OkKeepsJobs, Zenon DEF JobsFound
  <2>7. ASSUME NEW t \in Threads, RecordTemporary(t) PROVE JobsFound'
    <3>1. worker[t].job \in Active
      BY <2>7, StepThread, Zenon DEF RecordTemporary, Active, Running
    <3>2. Queued' = Queued /\ Active' \subseteq Active
      BY <2>7, EndKeepsJobs, Zenon DEF RecordTemporary
    <3>3. \A g \in Files : \/ temporary_workspace'[g] = temporary_workspace[g]
                           \/ g = worker[t].job.file /\ temporary_workspace'[g] = worker[t].job.w
      BY <2>7, Zenon DEF RecordTemporary, SetTemporary, SetTemporaryAfter, TypeOK
    <3>4. worker[t].job.file \in Files => worker[t].job.temp
      BY <2>7, Zenon DEF RecordTemporary, JobsFound
    <3>5. \A u \in Threads : worker'[u].pc = "record" => worker'[u] = worker[u]
      BY <2>7, Zenon DEF RecordTemporary, TypeOK, NoJob
    <3> QED
      BY <3>1, <3>2, <3>3, <3>4, <3>5, ZenonT(30) DEF JobsFound
  <2>8. ASSUME NEW t \in Threads, CompileErr(t) \/ CompilePanics(t) PROVE JobsFound'
    <3>2. Queued' = Queued /\ Active' \subseteq Active
      BY <2>8, EndKeepsJobs, Zenon DEF CompileErr, FailWith, StoreState, CompilePanics
    <3>3. \A g \in Files : temporary_workspace'[g] = temporary_workspace[g] \/ temporary_workspace'[g] = "absent"
      BY <2>8, Zenon DEF CompileErr, FailWith, SetTemporaryAfter, CompilePanics, TypeOK
    <3>5. \A u \in Threads : worker'[u].pc = "record" => worker'[u] = worker[u]
      <4>1. worker' = [worker EXCEPT ![t] = NoJob]
        BY <2>8, Zenon DEF CompileErr, FailWith, CompilePanics
      <4> QED
        BY <4>1, Zenon DEF TypeOK, NoJob
    <3> QED
      BY <3>2, <3>3, <3>5, NamesAssumption, Zenon DEF JobsFound
  <2> QED
    BY <2>1, <2>2, <2>3, <2>4, <2>5, <2>6, <2>7, <2>8, <2>9, StepCases, ZenonT(60)
<1> QED
  BY <1>1, <1>2, TypeCorrect, PTL DEF Spec

(* A file that the main thread handles as closed has left opened_files, and  *)
(* no task closes a file.                                                    *)
THEOREM ClosedFirst == Spec => []ClosedIsGone
<1>1. Init => ClosedIsGone
  BY DEF Init, Idle, ClosedIsGone
<1>2. TypeOK /\ ClosedIsGone /\ [Next]_vars => ClosedIsGone'
  <2> SUFFICES ASSUME TypeOK, ClosedIsGone, [Next]_vars PROVE ClosedIsGone'
    OBVIOUS
  <2>1. ASSUME NEW f \in Files, on_did_open(f) PROVE ClosedIsGone'
    BY <2>1, Zenon DEF on_did_open, Process, ClosedIsGone
  <2>2. ASSUME NEW f \in Files, on_did_change(f) PROVE ClosedIsGone'
    BY <2>2, Zenon DEF on_did_change, Process, ClosedIsGone
  <2>3. ASSUME NEW f \in Files, on_did_close(f) PROVE ClosedIsGone'
    BY <2>3, Zenon DEF on_did_close, Closing, ClosedIsGone
  <2>4. ASSUME FinishClose PROVE ClosedIsGone'
    BY <2>4, Zenon DEF FinishClose, Process, ClosedIsGone
  <2>5. ASSUME handle_task PROVE ClosedIsGone'
    <3>1. \A k \in DOMAIN tasks' : tasks'[k].change /= "Delete"
      BY <2>5, TasksShrink, Zenon DEF ClosedIsGone
    <3>2. Head(tasks).change /= "Delete"
      BY <2>5, TasksShrink, Zenon DEF ClosedIsGone
    <3>3. main' = [do |-> "process", file |-> Head(tasks).file, change |-> Head(tasks).change]
      BY <2>5, Zenon DEF handle_task, Process
    <3> QED
      BY <3>1, <3>2, <3>3, Zenon DEF ClosedIsGone
  <2>6. ASSUME process_changed_file PROVE ClosedIsGone'
    <3>1. main' \in {Idle, Crashed}
      BY <2>6, ProcessedFile, Zenon DEF process_changed_file, Changes, ProcessCreate, CreatePanics, CreateDone,
                                        ProcessModify, ModifyPanics, ModifyDone, ProcessDelete, DeleteWith
    <3>2. \A k \in DOMAIN tasks' : tasks'[k].change /= "Delete"
      BY <2>6, ProcessTasks, Zenon DEF ClosedIsGone
    <3> QED
      BY <3>1, <3>2 DEF ClosedIsGone, Idle, Crashed
  <2>7. CASE UNCHANGED <<main, tasks, opened_files>>
    BY <2>7, Zenon DEF ClosedIsGone
  <2> QED
    BY <2>1, <2>2, <2>3, <2>4, <2>5, <2>6, <2>7, ZenonT(60)
    DEF Next, vars, StartCompile, CompileOk, RecordTemporary, CompileErr, FailWith, StoreState, CompilePanics
<1> QED
  BY <1>1, <1>2, TypeCorrect, PTL DEF Spec

(* Looking at an opened file again leaves it with a workspace, a pending one *)
(* or a task to look at it once more, if workspaces are found for it.        *)
LEMMA CreateRemembers ==
    ASSUME TypeOK, NEW f \in Files, CreateDone(f), Lookup[f] /= {}
    PROVE  \/ file_workspaces'[f] /= {}
           \/ temporary_workspace'[f] = "pending"
           \/ \E i \in DOMAIN tasks' : tasks'[i].file = f /\ tasks'[i].change = "Create"
<1> DEFINE containing == Containing(f)
           again == Task("ChangedFile", f, "Create")
           sent == [i \in 1..Cardinality(Busy) |-> again]
<1>1. /\ file_workspaces' = [file_workspaces EXCEPT ![f] = @ \cup containing]
      /\ tasks' = tasks \o sent
      /\ containing \cup Busy = {} => SetTemporary(f, "pending")
  BY Zenon DEF CreateDone, CreateAgain
<1>2. file_workspaces'[f] = file_workspaces[f] \cup containing
  BY <1>1, Zenon DEF TypeOK
<1>3. CASE containing /= {}
  BY <1>2, <1>3, Zenon
<1>4. CASE Busy /= {}
  <2>1. Cardinality(Busy) \in Nat /\ 1 \in 1..Cardinality(Busy)
    BY <1>4, SomeWorkspaces, Zenon DEF Busy
  <2>2. again \in TaskSet /\ again.file = f /\ again.change = "Create"
    BY Zenon DEF Task, TaskSet, Changes
  <2>3. sent \in Seq(TaskSet) /\ 1 \in DOMAIN sent /\ sent[1] = again
    BY <2>1, <2>2
  <2> HIDE DEF sent, again
  <2>4. \E k \in DOMAIN tasks' : tasks'[k] = again
    BY <1>1, <2>3, TasksGrow, Zenon
  <2> QED
    BY <2>2, <2>4, Zenon
<1>5. CASE containing \cup Busy = {}
  BY <1>1, <1>5, Zenon DEF SetTemporary, SetTemporaryAfter, TypeOK
<1> QED
  BY <1>3, <1>4, <1>5, Zenon

(* An open file is never forgotten: it has a workspace, a compile that gives *)
(* it one, or a task to look for one, unless none is found for it or a       *)
(* compile of its own has failed or panicked.                                *)
THEOREM NeverForgotten == Spec => []FilesRemembered
<1>1. Init => FilesRemembered
  BY Zenon DEF Init, FilesRemembered
<1>2. TypeOK /\ ClosedIsGone /\ FilesRemembered /\ [Next]_vars => FilesRemembered'
  <2> SUFFICES ASSUME TypeOK, ClosedIsGone, FilesRemembered, [Next]_vars, main' /= Crashed,
                      NEW g \in opened_files', Lookup[g] /= {}
               PROVE  Remembered(g)'
    BY Zenon DEF FilesRemembered, Remembered
  <2>0. g \in Files /\ main /= Crashed
    BY TypeStep, CrashedStays, Zenon DEF TypeOK
  <2>12. ASSUME g \in opened_files
         PROVE  file_workspaces[g] /= {} \/ temporary_workspace[g] /= "absent" \/ ComesBack(g) \/ outcome[g] /= "none"
    BY <2>0, <2>12, Zenon DEF FilesRemembered, Remembered
  <2>1. ASSUME NEW f \in Files, on_did_open(f) PROVE Remembered(g)'
    <3>1. CASE g = f
      BY <2>1, <3>1, Zenon DEF on_did_open, Process, Remembered, ComesBack
    <3>2. CASE g /= f
      <4>1. /\ g \in opened_files /\ main = Idle /\ file_workspaces'[g] = file_workspaces[g]
            /\ UNCHANGED <<temporary_workspace, tasks, outcome>>
        BY <2>0, <2>1, <3>2, Zenon DEF on_did_open, history, Notification, TypeOK
      <4> QED
        BY <2>12, <4>1 DEF Remembered, ComesBack, Idle
    <3> QED
      BY <3>1, <3>2, Zenon
  <2>2. ASSUME NEW f \in Files, on_did_change(f) PROVE Remembered(g)'
    BY <2>2, <2>12 DEF on_did_change, history, Notification, Remembered, ComesBack, Idle
  <2>3. ASSUME NEW f \in Files, on_did_close(f) PROVE Remembered(g)'
    <3>1. /\ g \in opened_files /\ g /= f /\ main = Idle /\ file_workspaces'[g] = file_workspaces[g]
          /\ UNCHANGED <<temporary_workspace, tasks, outcome>>
      BY <2>0, <2>3, Zenon DEF on_did_close, history, Notification, TypeOK
    <3> QED
      BY <2>12, <3>1 DEF Remembered, ComesBack, Idle
  <2>4. ASSUME FinishClose PROVE Remembered(g)'
    BY <2>4, <2>12 DEF FinishClose, history, Remembered, ComesBack
  <2>5. ASSUME handle_task PROVE Remembered(g)'
    <3>1. /\ main = Idle /\ UNCHANGED <<opened_files, file_workspaces, temporary_workspace, outcome>>
          /\ main' = [do |-> "process", file |-> Head(tasks).file, change |-> Head(tasks).change]
      BY <2>5, Zenon DEF handle_task, history, Process
    <3>2. \/ file_workspaces[g] /= {} \/ temporary_workspace[g] /= "absent" \/ outcome[g] /= "none"
          \/ \E i \in DOMAIN tasks : tasks[i].file = g /\ tasks[i].change = "Create"
      BY <2>12, <3>1, Zenon DEF ComesBack, Idle
    <3>3. ASSUME NEW i \in DOMAIN tasks, tasks[i].file = g, tasks[i].change = "Create"
          PROVE  ComesBack(g)'
      <4>1. tasks[i] = Head(tasks) \/ \E k \in DOMAIN tasks' : tasks'[k] = tasks[i]
        BY <2>5, TasksShrink, Zenon
      <4> QED
        BY <3>1, <3>3, <4>1, Zenon DEF ComesBack
    <3> QED
      BY <3>1, <3>2, <3>3, Zenon DEF Remembered
  <2>6. ASSUME process_changed_file PROVE Remembered(g)'
    <3> DEFINE f == main.file
    <3>1. main.do = "process" /\ f \in Files /\ main.change \in Changes
      BY <2>6, ProcessedFile DEF process_changed_file
    <3>2. UNCHANGED opened_files
      BY <2>6, <3>1, Zenon DEF process_changed_file, ProcessCreate, CreatePanics, CreateDone, ProcessModify,
                               ModifyPanics, ModifyDone, ProcessDelete, DeleteWith, Changes
    <3>3. ASSUME file_workspaces'[g] = file_workspaces[g], temporary_workspace'[g] = temporary_workspace[g],
                 outcome'[g] = outcome[g], g /= f \/ main.change /= "Create"
          PROVE  Remembered(g)'
      <4>1. \/ file_workspaces[g] /= {} \/ temporary_workspace[g] /= "absent" \/ outcome[g] /= "none"
            \/ \E i \in DOMAIN tasks : tasks[i].file = g /\ tasks[i].change = "Create"
        BY <2>12, <3>1, <3>2, <3>3, Zenon DEF ComesBack
      <4>2. \A i \in DOMAIN tasks : i \in DOMAIN tasks' /\ tasks'[i] = tasks[i]
        BY <2>6, ProcessTasks, Zenon
      <4> QED
        BY <3>3, <4>1, <4>2, Zenon DEF Remembered, ComesBack
    <3>4. ASSUME CreateDone(f), main.change = "Create" PROVE Remembered(g)'
      <4>1. CASE g = f
        BY <2>0, <3>1, <3>4, <4>1, CreateRemembers, Zenon DEF Remembered, ComesBack
      <4>2. CASE g /= f
        <5>1. file_workspaces'[g] = file_workspaces[g]
          BY <2>0, <3>1, <3>4, <4>2, ZenonT(60) DEF CreateDone, TypeOK
        <5>2. temporary_workspace'[g] = temporary_workspace[g] /\ outcome'[g] = outcome[g]
          <6>1. SetTemporary(f, "absent") \/ SetTemporary(f, "pending")
            BY <3>4, Zenon DEF CreateDone
          <6> QED
            BY <2>0, <3>1, <4>2, <6>1, Zenon DEF SetTemporary, SetTemporaryAfter, TypeOK
        <5> QED
          BY <3>3, <4>2, <5>1, <5>2, Zenon
      <4> QED
        BY <4>1, <4>2, Zenon
    <3>5. ASSUME ModifyDone(f), main.change = "Modify" PROVE Remembered(g)'
      <4>1. UNCHANGED <<file_workspaces, temporary_workspace, outcome>>
        BY <3>1, <3>5, ModifyEffect, Zenon
      <4> QED
        BY <3>3, <3>5, <4>1, Zenon
    <3>6. ASSUME ProcessDelete(f), main.change = "Delete" PROVE Remembered(g)'
      <4>1. g /= f
        BY <3>1, <3>2, <3>6, Zenon DEF ClosedIsGone
      <4>2. /\ UNCHANGED file_workspaces
            /\ temporary_workspace'[g] = temporary_workspace[g] /\ outcome'[g] = outcome[g]
        BY <2>0, <3>6, <4>1, Zenon DEF ProcessDelete, DeleteWith, SetTemporary, SetTemporaryAfter, TypeOK
      <4> QED
        BY <3>3, <4>1, <4>2, Zenon
    <3>7. ~CreatePanics(f) /\ ~ModifyPanics(f)
      BY Zenon DEF CreatePanics, ModifyPanics
    <3> QED
      BY <2>6, <3>1, <3>4, <3>5, <3>6, <3>7, ZenonT(30) DEF process_changed_file, ProcessCreate, ProcessModify, Changes
  <2>7. ASSUME UNCHANGED <<main, tasks, opened_files, file_workspaces>>,
               \/ outcome'[g] /= "none"
               \/ temporary_workspace'[g] /= "absent"
               \/ temporary_workspace'[g] = temporary_workspace[g] /\ outcome'[g] = outcome[g]
        PROVE  Remembered(g)'
    BY <2>7, <2>12, Zenon DEF Remembered, ComesBack
  <2>8. ASSUME NEW t \in Threads, StartCompile(t) \/ CompileOk(t) PROVE Remembered(g)'
    BY <2>7, <2>8, Zenon DEF StartCompile, history, CompileOk, StoreState
  <2>9. ASSUME NEW t \in Threads, RecordTemporary(t) PROVE Remembered(g)'
    <3>1. worker[t].job.w \in Workspaces
      BY <2>9, StepThread, BusyThread, Zenon DEF RecordTemporary
    <3>2. \/ temporary_workspace'[g] /= "absent"
          \/ temporary_workspace'[g] = temporary_workspace[g] /\ outcome'[g] = outcome[g]
      BY <2>0, <2>9, <3>1, NamesAssumption, ZenonT(30) DEF RecordTemporary, SetTemporary, SetTemporaryAfter, TypeOK
    <3> QED
      BY <2>7, <2>9, <3>2, Zenon DEF RecordTemporary
  <2>10. ASSUME NEW t \in Threads, CompileErr(t) \/ CompilePanics(t) PROVE Remembered(g)'
    <3>1. \/ outcome'[g] /= "none"
          \/ temporary_workspace'[g] = temporary_workspace[g] /\ outcome'[g] = outcome[g]
      BY <2>0, <2>10, ZenonT(30) DEF CompileErr, FailWith, SetTemporaryAfter, CompilePanics, TypeOK
    <3> QED
      BY <2>7, <2>10, <3>1, Zenon DEF CompileErr, FailWith, StoreState, CompilePanics
  <2>11. CASE UNCHANGED vars
    BY <2>7, <2>11, Zenon DEF vars, history
  <2> QED
    BY <2>1, <2>2, <2>3, <2>4, <2>5, <2>6, <2>8, <2>9, <2>10, <2>11, ZenonT(60) DEF Next
<1> QED
  BY <1>1, <1>2, TypeCorrect, ClosedFirst, PTL DEF Spec

(* When everything has settled, an open file belongs to a workspace unless   *)
(* none is found for it or a compile of its own failed or panicked: the      *)
(* retries of process_changed_file lose no file, whatever compiles overlap   *)
(* with them, fail or panic.                                                 *)
THEOREM OpenFilesKnown == Spec => []OpenFileKnown
<1>1. TypeOK /\ PendingHasCompile /\ FilesRemembered => OpenFileKnown
  <2> SUFFICES ASSUME TypeOK, PendingHasCompile, FilesRemembered, Quiet, NEW f \in opened_files,
                      Lookup[f] /= {}, outcome[f] = "none"
               PROVE  file_workspaces[f] /= {} \/ temporary_workspace[f] \in Workspaces
    BY Zenon DEF OpenFileKnown
  <2>1. f \in Files
    BY Zenon DEF TypeOK
  <2>2. main = Idle /\ tasks = <<>> /\ poolq = <<>> /\ \A t \in Threads : ~Running(t)
    BY Zenon DEF Quiet
  <2>3. Queued = {} /\ Active = {} /\ DOMAIN tasks = {} /\ main /= Crashed
    BY <2>2 DEF Queued, Active, Idle, Crashed
  <2>4. temporary_workspace[f] /= "pending"
    BY <2>1, <2>3, Zenon DEF PendingHasCompile
  <2>5. Remembered(f) /\ ~ComesBack(f)
    BY <2>1, <2>2, <2>3, Zenon DEF FilesRemembered, ComesBack, Idle
  <2> QED
    BY <2>1, <2>4, <2>5, Zenon DEF Remembered, TypeOK
<1> QED
  BY <1>1, TypeCorrect, PendingIsCompiled, NeverForgotten, PTL
=============================================================================
