-------------------------- MODULE LspCompileProofs --------------------------
(* Proofs about LspCompile for any files, imports, workspaces and versions:  *)
(* the types, the sources that compiles read, and the trees they find.       *)
EXTENDS LspCompile, TLAPS

Stages == {"mark", "load", "clear", "entries", "imports", "parse", "collect", "publish"}
JobSet == [w : Workspaces, file : Files]
DbRecords == [state : {"Init", "Ready", "Compiling", "Failed"},
              modules : [Files -> Versions \cup {None}], diags : SUBSET Faulty]

(* A program has the entries of its workspace and files only. *)
LEMMA ReachType ==
    ASSUME NEW w \in Workspaces
    PROVE  Reach[w] \in SUBSET Files /\ Entries[w] \subseteq Reach[w]
BY EntriesAssumption, Zenon DEF Reach

JobOf(t) ==
    /\ worker[t] \in JobRecords
    /\ worker[t].w \in Workspaces /\ worker[t].file \in Files
    /\ worker[t].old \in SUBSET Faulty /\ worker[t].diags \in SUBSET Faulty
    /\ worker[t].code \in [Files -> Versions \cup {None}]
    /\ worker[t].modules \in [Files -> Versions \cup {None}]
    /\ worker[t].parsing \in Files \cup {None} /\ worker[t].src \in Versions
    /\ worker[t].todo \in SUBSET Files /\ worker[t].ok \in BOOLEAN

(* A thread in a step of a compile holds a job. *)
LEMMA JobType ==
    ASSUME TypeOK, NEW t \in Threads, worker[t].pc \in Stages
    PROVE  JobOf(t)
<1>1. worker[t] \in {Idle, [pc |-> "panicked"]} \cup JobRecords
  BY Zenon DEF TypeOK
<1>2. worker[t] /= Idle /\ worker[t] /= [pc |-> "panicked"]
  BY DEF Idle, Stages
<1>3. worker[t] \in JobRecords
  BY <1>1, <1>2, Zenon
<1> QED
  BY <1>3, Zenon DEF JobRecords, JobOf

(* Active threads are those in a step of a compile. *)
LEMMA ActiveStage ==
    ASSUME TypeOK, NEW t \in Threads
    PROVE  /\ worker[t].pc \in Stages \cup {"idle", "panicked"}
           /\ t \in Active <=> worker[t].pc \in Stages
<1>1. worker[t] \in {Idle, [pc |-> "panicked"]} \cup JobRecords
  BY Zenon DEF TypeOK
<1>2. worker[t].pc \in Stages \cup {"idle", "panicked"}
  BY <1>1 DEF Idle, JobRecords, Stages
<1> QED
  BY <1>2, Zenon DEF Active, Stages

(* The contents of a file are a version. *)
LEMMA ContentsType ==
    ASSUME TypeOK, NEW f \in Files
    PROVE  Contents(f) \in Versions /\ Contents(f) /= None
BY BoundsAssumption, NoneAssumption DEF TypeOK, Contents, Versions

(* The head and the tail of a nonempty queue have the queue's type. *)
LEMMA QueueType ==
    ASSUME NEW S, NEW q \in Seq(S), q /= <<>>
    PROVE  Head(q) \in S /\ Tail(q) \in Seq(S)
OBVIOUS

(* A function on an interval from 1 is a sequence. *)
LEMMA FunctionIsSequence ==
    ASSUME NEW S, NEW n \in Nat, NEW g \in [1..n -> S]
    PROVE  g \in Seq(S) /\ Len(g) = n
OBVIOUS

(* What the elements of a concatenation are. *)
LEMMA ConcatElements ==
    ASSUME NEW S, NEW p \in Seq(S), NEW q \in Seq(S)
    PROVE  /\ p \o q \in Seq(S)
           /\ \A i \in DOMAIN p : i \in DOMAIN (p \o q) /\ (p \o q)[i] = p[i]
           /\ \A i \in 1..Len(q) : Len(p) + i \in DOMAIN (p \o q) /\ (p \o q)[Len(p) + i] = q[i]
<1>1. p \o q \in Seq(S) /\ Len(p \o q) = Len(p) + Len(q)
  OBVIOUS
<1>2. DOMAIN p = 1..Len(p) /\ DOMAIN (p \o q) = 1..Len(p \o q) /\ Len(p) \in Nat /\ Len(q) \in Nat
  BY <1>1
<1>3. \A i \in 1..(Len(p) + Len(q)) : (p \o q)[i] = IF i <= Len(p) THEN p[i] ELSE q[i - Len(p)]
  OBVIOUS
<1>4. \A i \in DOMAIN p : i \in DOMAIN (p \o q) /\ (p \o q)[i] = p[i]
  BY <1>1, <1>2, <1>3
<1>5. ASSUME NEW i \in 1..Len(q)
      PROVE  Len(p) + i \in DOMAIN (p \o q) /\ (p \o q)[Len(p) + i] = q[i]
  <2>1. Len(p) + i \in 1..(Len(p) + Len(q)) /\ ~(Len(p) + i <= Len(p)) /\ (Len(p) + i) - Len(p) = i
    BY <1>2
  <2> QED
    BY <1>1, <1>2, <1>3, <2>1, Zenon
<1> QED
  BY <1>1, <1>4, <1>5, Zenon

(* An edit queues one compile for each workspace of the file, behind those   *)
(* that wait.                                                                *)
LEMMA EditQueues ==
    ASSUME TypeOK, NEW f \in Files, Edit(f)
    PROVE  /\ poolq' \in Seq(JobSet)
           /\ \A i \in DOMAIN poolq : i \in DOMAIN poolq' /\ poolq'[i] = poolq[i]
           /\ \A w \in Workspaces : f \in Reach[w] =>
                \E i \in DOMAIN poolq' : poolq'[i].w = w /\ poolq'[i].file = f
<1> DEFINE ws == {w \in Workspaces : f \in Reach[w]}
           n == Cardinality(ws)
<1>1. PICK order \in Bijection(1..n, ws) :
         poolq' = poolq \o [i \in DOMAIN order |-> [w |-> order[i], file |-> f]]
  BY Zenon DEF Edit
<1>2. n \in Nat
  BY WorkspacesFinite, Zenon
<1>3. order \in [1..n -> ws] /\ \A w \in ws : \E i \in 1..n : order[i] = w
  BY <1>1, Zenon DEF Bijection, Injection, Surjection
<1> DEFINE new == [i \in 1..n |-> [w |-> order[i], file |-> f]]
<1>4. poolq' = poolq \o new
  BY <1>1, <1>3, Zenon
<1>5. new \in Seq(JobSet) /\ Len(new) = n
  <2>1. new \in [1..n -> JobSet]
    BY <1>3, Zenon DEF JobSet
  <2> HIDE DEF new, n
  <2> QED
    BY <2>1, <1>2, FunctionIsSequence, Zenon
<1>6. poolq \in Seq(JobSet)
  BY Zenon DEF TypeOK, JobSet
<1> HIDE DEF n, ws
<1>7. poolq' \in Seq(JobSet) /\ \A i \in DOMAIN poolq : i \in DOMAIN poolq' /\ poolq'[i] = poolq[i]
  <2> HIDE DEF new
  <2> QED
    BY <1>4, <1>5, <1>6, ConcatElements, Zenon
<1>8. \A i \in 1..n : Len(poolq) + i \in DOMAIN poolq' /\ poolq'[Len(poolq) + i] = new[i]
  <2> HIDE DEF new
  <2> QED
    BY <1>4, <1>5, <1>6, ConcatElements
<1>9. ASSUME NEW w \in Workspaces, f \in Reach[w]
      PROVE  \E i \in DOMAIN poolq' : poolq'[i].w = w /\ poolq'[i].file = f
  <2>1. PICK i \in 1..n : order[i] = w
    BY <1>3, <1>9, Zenon DEF ws
  <2>2. Len(poolq) + i \in DOMAIN poolq' /\ poolq'[Len(poolq) + i] = new[i]
    BY <1>8, Zenon
  <2>3. new[i].w = w /\ new[i].file = f
    BY <2>1, Zenon
  <2> QED
    BY <2>2, <2>3, Zenon
<1> QED
  BY <1>7, <1>9, Zenon

(* The variables stay in their types, and no version exceeds the edits. *)
THEOREM TypeCorrect == Spec => []TypeOK
<1>1. Init => TypeOK
  BY BoundsAssumption, ReachType DEF Init, TypeOK, NoModules, Versions, Idle
<1>2. TypeOK /\ [Next]_vars => TypeOK'
  <2> SUFFICES ASSUME TypeOK, [Next]_vars PROVE TypeOK'
    BY Zenon
  <2> USE BoundsAssumption
  <2>1. ASSUME NEW f \in Files, Edit(f) PROVE TypeOK'
    <3>1. poolq' \in Seq(JobSet)
      BY <2>1, EditQueues, Zenon
    <3>2. edits' \in Versions /\ vfs' \in [Files -> Versions]
      BY <2>1 DEF Edit, TypeOK, Versions
    <3> QED
      BY <2>1, <3>1, <3>2, Zenon DEF Edit, TypeOK, JobSet, cacheVars
  <2>2. ASSUME NEW f \in Files, Close(f) PROVE TypeOK'
    BY <2>2 DEF Close, TypeOK, Versions, cacheVars, history
  <2>3. ASSUME NEW t \in Threads, ReadOldDiags(t) PROVE TypeOK'
    <3>1. Head(poolq) \in JobSet /\ Tail(poolq) \in Seq(JobSet)
      BY <2>3, QueueType, Zenon DEF ReadOldDiags, TypeOK, JobSet
    <3>2. Stored(Head(poolq).w) \in SUBSET Faulty
      BY <3>1, Zenon DEF Stored, TypeOK, JobSet
    <3> DEFINE j == [pc |-> "mark", w |-> Head(poolq).w, file |-> Head(poolq).file,
                     old |-> Stored(Head(poolq).w),
                     code |-> NoModules, modules |-> NoModules, parsing |-> None,
                     src |-> 0, diags |-> {}, todo |-> {}, ok |-> TRUE]
    <3>3. j \in JobRecords
      BY <3>1, <3>2 DEF JobRecords, NoModules, Versions, JobSet
    <3> HIDE DEF j
    <3>4. worker' = [worker EXCEPT ![t] = j]
      BY <2>3, Zenon DEF ReadOldDiags, Step, j
    <3>5. cleared' \in [Threads -> SUBSET Files] /\ mixed' \in SUBSET Workspaces
      BY <2>3, <3>1, Zenon DEF ReadOldDiags, TypeOK, JobSet
    <3> QED
      BY <2>3, <3>1, <3>3, <3>4, <3>5, Zenon DEF ReadOldDiags, TypeOK, JobSet, clientVars, cacheVars
  <2>4. ASSUME NEW t \in Threads, Mark(t) PROVE TypeOK'
    <3>1. worker[t] \in JobRecords /\ worker[t].w \in Workspaces
      BY <2>4, JobType, Zenon DEF Mark, Step, Stages, JobOf
    <3>2. [worker[t] EXCEPT !.pc = "load"] \in JobRecords
      BY <3>1, Zenon DEF JobRecords
    <3>3. worker' = [worker EXCEPT ![t] = [worker[t] EXCEPT !.pc = "load"]]
      BY <2>4, Zenon DEF Mark, Step
    <3>4. db' \in [Workspaces -> DbRecords]
      <4> DEFINE w == worker[t].w
                 s == IF db[w].state \in {"Ready", "Compiling"} THEN "Compiling" ELSE "Init"
      <4>1. db' = [db EXCEPT ![w] = [db[w] EXCEPT !.state = s]]
        BY <2>4, Zenon DEF Mark
      <4>2. db \in [Workspaces -> DbRecords] /\ s \in {"Init", "Compiling"} /\ w \in Workspaces
        BY <3>1, Zenon DEF TypeOK, DbRecords
      <4> HIDE DEF s, w
      <4>3. [db[w] EXCEPT !.state = s] \in DbRecords
        BY <4>2, Zenon DEF DbRecords
      <4> QED
        BY <4>1, <4>2, <4>3, Zenon
    <3>5. worker' \in [Threads -> {Idle, [pc |-> "panicked"]} \cup JobRecords]
      BY <3>2, <3>3, Zenon DEF TypeOK
    <3> QED
      BY <2>4, <3>4, <3>5, Zenon DEF Mark, TypeOK, DbRecords, clientVars, cacheVars, history
  <2>5. ASSUME NEW t \in Threads, LoadCode(t) PROVE TypeOK'
    <3> DEFINE code == [f \in Files |-> IF f \in Entries[worker[t].w] THEN Contents(f) ELSE None]
               k == [worker[t] EXCEPT !.pc = "clear", !.code = code]
    <3>1. worker[t] \in JobRecords
      BY <2>5, JobType, Zenon DEF LoadCode, Step, Stages, JobOf
    <3>2. code \in [Files -> Versions \cup {None}]
      BY ContentsType, Zenon
    <3>3. worker' = [worker EXCEPT ![t] = k]
      BY <2>5, Zenon DEF LoadCode, Step
    <3>4. k \in JobRecords
      <4> HIDE DEF code
      <4> QED BY <3>1, <3>2, Zenon DEF JobRecords
    <3> HIDE DEF k
    <3> QED
      BY <2>5, <3>3, <3>4, Zenon DEF LoadCode, TypeOK, clientVars, cacheVars, history
  <2>6. ASSUME NEW t \in Threads, ClearModule(t) PROVE TypeOK'
    <3> DEFINE k == [worker[t] EXCEPT !.pc = "entries", !.todo = Entries[worker[t].w]]
    <3>1. worker[t] \in JobRecords /\ worker[t].w \in Workspaces /\ worker[t].file \in Files
      BY <2>6, JobType, Zenon DEF ClearModule, ClearWith, Step, Stages, JobOf
    <3>2. k \in JobRecords
      BY <3>1, EntriesAssumption, Zenon DEF JobRecords
    <3>3. worker' = [worker EXCEPT ![t] = k]
      BY <2>6, Zenon DEF ClearModule, ClearWith, Step
    <3>4. Contents(worker[t].file) \in Versions
      BY <3>1, ContentsType, Zenon
    <3> HIDE DEF k
    <3>5. cleared' \in [Threads -> SUBSET Files] /\ suspect' \in SUBSET Files
      BY <2>6, <3>1, Zenon DEF ClearModule, ClearWith, TypeOK
    <3> QED
      BY <2>6, <3>1, <3>2, <3>3, <3>4, <3>5, Zenon DEF ClearModule, ClearWith, TypeOK, clientVars
  <2>7. ASSUME NEW t \in Threads, ParseEntry(t) PROVE TypeOK'
    <3> DEFINE rest(f) == worker[t].todo \ {f}
               k(f) == [worker[t] EXCEPT
                          !.pc = IF rest(f) = {} THEN "imports" ELSE @,
                          !.todo = IF rest(f) = {} THEN Reach[worker[t].w] \ Entries[worker[t].w]
                                                   ELSE rest(f),
                          !.diags = @ \cup Report(f, worker[t].code[f])]
    <3>1. PICK f \in Todo(t, "entries") :
             /\ worker[t].pc = "entries"
             /\ worker' = [worker EXCEPT ![t] = k(f)]
             /\ ast_cache' = [ast_cache EXCEPT ![f] = worker[t].code[f]]
      BY <2>7, Zenon DEF ParseEntry, Step
    <3>2. JobOf(t)
      BY <3>1, JobType, Zenon DEF Stages, JobOf
    <3>3. f \in Files /\ rest(f) \in SUBSET Files /\ worker[t].code[f] \in Versions \cup {None}
      BY <3>1, <3>2, Zenon DEF Todo, JobOf
    <3>4. Reach[worker[t].w] \ Entries[worker[t].w] \in SUBSET Files
      BY <3>2, ReachType, Zenon DEF JobOf
    <3>5. worker[t].diags \cup Report(f, worker[t].code[f]) \in SUBSET Faulty
      BY <3>2, Zenon DEF Report, JobOf
    <3>6. k(f) \in JobRecords
      <4> HIDE DEF rest
      <4> QED BY <3>1, <3>2, <3>3, <3>4, <3>5, Zenon DEF JobRecords, JobOf
    <3> HIDE DEF k
    <3> QED
      BY <2>7, <3>1, <3>3, <3>6, Zenon DEF ParseEntry, TypeOK, clientVars, history
  <2>8. ASSUME NEW t \in Threads, VisitImport(t) PROVE TypeOK'
    <3> DEFINE k(f) == IF ast_cache[f] /= None
                       THEN [worker[t] EXCEPT !.todo = @ \ {f}]
                       ELSE [worker[t] EXCEPT
                               !.pc = "parse", !.todo = @ \ {f}, !.parsing = f,
                               !.src = IF source_code[f] /= None THEN source_code[f] ELSE 0]
    <3>1. PICK f \in Todo(t, "imports") :
             worker[t].pc = "imports" /\ worker' = [worker EXCEPT ![t] = k(f)]
      BY <2>8, Zenon DEF VisitImport, Step
    <3>2. JobOf(t)
      BY <3>1, JobType, Zenon DEF Stages, JobOf
    <3>3. f \in Files /\ (IF source_code[f] /= None THEN source_code[f] ELSE 0) \in Versions
      BY <3>1, <3>2 DEF Todo, JobOf, TypeOK, Versions
    <3>4. k(f) \in JobRecords
      BY <3>2, <3>3, Zenon DEF JobRecords, JobOf
    <3> HIDE DEF k
    <3> QED
      BY <2>8, <3>1, <3>4, Zenon DEF VisitImport, TypeOK, clientVars, cacheVars, history
  <2>9. ASSUME NEW t \in Threads, InsertModule(t) PROVE TypeOK'
    <3> DEFINE k == [worker[t] EXCEPT !.pc = "imports",
                          !.diags = @ \cup Report(worker[t].parsing, worker[t].src)]
    <3>1. JobOf(t)
      BY <2>9, JobType, Zenon DEF InsertModule, Step, Stages
    <3>2. worker[t].diags \cup Report(worker[t].parsing, worker[t].src) \in SUBSET Faulty
      BY <3>1, Zenon DEF Report, JobOf
    <3>3. k \in JobRecords
      BY <3>1, <3>2, Zenon DEF JobRecords, JobOf
    <3>4. worker' = [worker EXCEPT ![t] = k]
      BY <2>9, Zenon DEF InsertModule, Step
    <3> HIDE DEF k
    <3> QED
      BY <2>9, <3>1, <3>3, <3>4, Zenon DEF InsertModule, TypeOK, JobOf, clientVars, history
  <2>10. ASSUME NEW t \in Threads, ImportsDone(t) PROVE TypeOK'
    <3> DEFINE k == [worker[t] EXCEPT !.pc = "collect", !.todo = Reach[worker[t].w]]
    <3>1. JobOf(t)
      BY <2>10, JobType, Zenon DEF ImportsDone, Step, Stages
    <3>2. k \in JobRecords
      BY <3>1, ReachType, Zenon DEF JobRecords, JobOf
    <3>3. worker' = [worker EXCEPT ![t] = k]
      BY <2>10, Zenon DEF ImportsDone, Step
    <3> HIDE DEF k
    <3> QED
      BY <2>10, <3>2, <3>3, Zenon DEF ImportsDone, TypeOK, clientVars, cacheVars, history
  <2>11. ASSUME NEW t \in Threads, CompileFails(t) PROVE TypeOK'
    <3> DEFINE diags == IF worker[t].pc = "publish" THEN worker[t].diags ELSE {}
               todo == Published([worker[t] EXCEPT !.diags = diags])
               k == [worker[t] EXCEPT !.pc = "publish", !.ok = FALSE, !.diags = diags, !.todo = todo]
    <3>1. JobOf(t)
      BY <2>11, JobType, FailAtAssumption, Zenon DEF CompileFails, Stages
    <3>2. diags \in SUBSET Faulty /\ todo \in SUBSET Files
      <4>1. diags \in SUBSET Faulty
        BY <3>1, Zenon DEF JobOf
      <4> HIDE DEF diags
      <4>2. todo = {d[1] : d \in worker[t].old \cup diags}
        BY <3>1, Zenon DEF JobOf, JobRecords, Published
      <4> QED
        BY <3>1, <4>1, <4>2, FaultyAssumption DEF JobOf
    <3>3. k \in JobRecords
      <4> HIDE DEF diags, todo
      <4> QED BY <3>1, <3>2, Zenon DEF JobRecords, JobOf
    <3>4. worker' = [worker EXCEPT ![t] = k]
      BY <2>11, Zenon DEF CompileFails, Step
    <3> HIDE DEF k
    <3>5. suspect' \in SUBSET Files /\ mixed' \in SUBSET Workspaces
      BY <2>11, <3>1, Zenon DEF CompileFails, JobOf, TypeOK
    <3> QED
      BY <2>11, <3>3, <3>4, <3>5, Zenon DEF CompileFails, TypeOK, clientVars, cacheVars
  <2>12. ASSUME NEW t \in Threads, Collect(t) PROVE TypeOK'
    <3> DEFINE rest(f) == worker[t].todo \ {f}
               k(f) == [worker[t] EXCEPT
                          !.modules[f] = ast_cache[f],
                          !.pc = IF rest(f) = {} THEN "publish" ELSE @,
                          !.todo = IF rest(f) = {} THEN Published(worker[t]) ELSE rest(f)]
    <3>1. PICK f \in Todo(t, "collect") :
             /\ worker[t].pc = "collect"
             /\ worker' = [worker EXCEPT ![t] = k(f)]
      BY <2>12, Zenon DEF Collect, Step
    <3>2. JobOf(t)
      BY <3>1, JobType, Zenon DEF Stages
    <3>3. f \in Files /\ rest(f) \in SUBSET Files /\ ast_cache[f] \in Versions \cup {None}
      BY <3>1, <3>2, Zenon DEF Todo, JobOf, TypeOK
    <3>4. Published(worker[t]) \in SUBSET Files
      BY <3>2, FaultyAssumption DEF Published, JobOf
    <3>5. k(f) \in JobRecords
      <4> HIDE DEF rest
      <4> QED BY <3>1, <3>2, <3>3, <3>4, Zenon DEF JobRecords, JobOf
    <3> HIDE DEF k
    <3> QED
      BY <2>12, <3>1, <3>5, Zenon DEF Collect, TypeOK, clientVars, cacheVars, history
  <2>17. ASSUME NEW t \in Threads, CollectPanics(t) PROVE TypeOK'
    <3>1. JobOf(t)
      BY <2>17, JobType, Zenon DEF CollectPanics, Step, Stages
    <3>2. suspect' \in SUBSET Files /\ stranded' \in SUBSET Workspaces
      BY <2>17, <3>1, Zenon DEF CollectPanics, JobOf, TypeOK
    <3>3. worker' = [worker EXCEPT ![t] = [pc |-> "panicked"]]
      BY <2>17, Zenon DEF CollectPanics, Step
    <3> QED
      BY <2>17, <3>2, <3>3, Zenon DEF CollectPanics, TypeOK, clientVars, cacheVars
  <2>13. ASSUME NEW t \in Threads, Publish(t) PROVE TypeOK'
    <3> DEFINE v(f) == IF \E d \in worker[t].diags : d[1] = f
                       THEN (CHOOSE d \in worker[t].diags : d[1] = f)[2] ELSE None
               k(f) == [worker[t] EXCEPT !.todo = @ \ {f}]
    <3>1. PICK f \in Todo(t, "publish") :
             /\ worker[t].pc = "publish"
             /\ worker' = [worker EXCEPT ![t] = k(f)]
             /\ shown' = [shown EXCEPT ![f] = v(f)]
      BY <2>13, Zenon DEF Publish, Step
    <3>2. JobOf(t)
      BY <3>1, JobType, Zenon DEF Stages
    <3>3. k(f) \in JobRecords
      BY <3>2, Zenon DEF JobRecords, JobOf
    <3>4. v(f) \in Versions \cup {None}
      <4>1. CASE \E d \in worker[t].diags : d[1] = f
        <5>1. (CHOOSE d \in worker[t].diags : d[1] = f) \in Faulty
          BY <3>2, <4>1, Zenon DEF JobOf
        <5> QED
          BY <4>1, <5>1, FaultyAssumption DEF Versions
      <4>2. CASE ~ \E d \in worker[t].diags : d[1] = f
        BY <4>2, Zenon
      <4> QED
        BY <4>1, <4>2, Zenon
    <3> HIDE DEF k, v
    <3> QED
      BY <2>13, <3>1, <3>3, <3>4, Zenon DEF Publish, TypeOK, clientVars, cacheVars, history
  <2>14. ASSUME NEW t \in Threads, Store(t) PROVE TypeOK'
    <3> DEFINE e == IF worker[t].ok THEN Ready(worker[t]) ELSE CompileFailed
    <3>1. JobOf(t)
      BY <2>14, JobType, Zenon DEF Store, StoreWith, Stages
    <3>2. e \in DbRecords
      BY <3>1, Zenon DEF JobOf, DbRecords, Ready, CompileFailed, NoModules
    <3>3. db' = [db EXCEPT ![worker[t].w] = e]
      BY <2>14, Zenon DEF Store, StoreWith
    <3>4. db' \in [Workspaces -> DbRecords]
      <4> HIDE DEF e
      <4> QED BY <3>2, <3>3, Zenon DEF TypeOK, DbRecords
    <3> QED
      BY <2>14, <3>4, Zenon DEF Store, StoreWith, TypeOK, DbRecords, clientVars, cacheVars
  <2>15. ASSUME NEW t \in Threads, Replace(t) PROVE TypeOK'
    BY <2>15, Zenon DEF Replace, Step, TypeOK, clientVars, cacheVars, history
  <2>16. ASSUME UNCHANGED vars PROVE TypeOK'
    BY <2>16, Zenon DEF vars, clientVars, cacheVars, history, TypeOK
  <2> QED
    BY <2>1, <2>2, <2>3, <2>4, <2>5, <2>6, <2>7, <2>8, <2>9, <2>10, <2>11, <2>12, <2>13, <2>14,
       <2>15, <2>16, <2>17, Zenon DEF Next, CompileStep
<1> QED
  BY <1>1, <1>2, PTL DEF Spec

(* A step of a compile leaves the client's files and the other threads       *)
(* alone, and takes a job only when it starts one.                           *)
LEMMA StepFrame ==
    ASSUME TypeOK, NEW t \in Threads, CompileStep(t)
    PROVE  /\ UNCHANGED clientVars
           /\ \A u \in Threads \ {t} : worker'[u] = worker[u]
           /\ ReadOldDiags(t) \/ poolq' = poolq
<1>1. UNCHANGED clientVars /\ (ReadOldDiags(t) \/ poolq' = poolq)
  BY Zenon DEF CompileStep, ReadOldDiags, Mark, LoadCode, ClearModule, ClearWith, ParseEntry, VisitImport,
     InsertModule, ImportsDone, CompileFails, Collect, CollectPanics, Publish, Store, StoreWith, Replace, clientVars
<1>2. \E k : worker' = [worker EXCEPT ![t] = k]
  BY Zenon DEF CompileStep, ReadOldDiags, Mark, LoadCode, ClearModule, ClearWith, ParseEntry, VisitImport,
     InsertModule, ImportsDone, CompileFails, Collect, CollectPanics, Publish, Store, StoreWith, Replace, Step
<1>3. \A u \in Threads \ {t} : worker'[u] = worker[u]
  BY <1>2, Zenon DEF TypeOK
<1> QED
  BY <1>1, <1>3, Zenon

(* Every file of the model belongs to a program: an edit of a file that is   *)
(* in no workspace compiles nothing.                                         *)
FilesUsed == \A f \in Files : \E w \in Workspaces : f \in Reach[w]

(* However many compiles overlap, the source the module cache has of an      *)
(* edited file is its contents unless a compile is still to clear it: the    *)
(* contents are read and stored under one lock, and every edit queues a      *)
(* compile behind it. The compile must not fail before it clears the file.   *)
THEOREM SourceIsCurrent ==
    ASSUME FilesUsed, "clear" \notin FailAt
    PROVE  Spec => []SourceCurrent
<1>1. Init => SourceCurrent
  BY DEF Init, SourceCurrent
<1>2. TypeOK /\ SourceCurrent /\ [Next]_vars => SourceCurrent'
  <2> DEFINE Waits(f) == \E i \in DOMAIN poolq : poolq[i].file = f
             Clears(f) == \E t \in Active :
                worker[t].file = f /\ worker[t].pc \in {"mark", "load", "clear"}
  <2> SUFFICES ASSUME TypeOK, SourceCurrent, [Next]_vars, NEW g \in open', vfs'[g] > 0
               PROVE  source_code'[g] = vfs'[g] \/ Waits(g)' \/ Clears(g)'
    BY Zenon DEF SourceCurrent
  <2>0. g \in open /\ g \in Files
    <3>1. open' \subseteq open
      BY StepFrame, Zenon DEF Next, vars, clientVars, Edit, Close
    <3> QED
      BY <3>1, Zenon DEF TypeOK
  <2>1. ASSUME NEW f \in Files, Edit(f)
        PROVE  source_code'[g] = vfs'[g] \/ Waits(g)' \/ Clears(g)'
    <3>1. CASE g = f
      BY <2>1, <3>1, EditQueues DEF FilesUsed
    <3>2. CASE g /= f
      <4>1. vfs'[g] = vfs[g] /\ source_code' = source_code /\ worker' = worker
        BY <2>0, <2>1, <3>2, Zenon DEF Edit, TypeOK, cacheVars
      <4>2. source_code[g] = vfs[g] \/ Waits(g) \/ Clears(g)
        BY <2>0, <4>1, Zenon DEF SourceCurrent
      <4>3. Waits(g) => Waits(g)'
        BY <2>1, EditQueues, Zenon
      <4>4. Active' = Active
        BY <4>1, Zenon DEF Active
      <4> QED
        BY <4>1, <4>2, <4>3, <4>4, Zenon
    <3> QED
      BY <3>1, <3>2, Zenon
  <2>2. ASSUME NEW f \in Files, Close(f)
        PROVE  source_code'[g] = vfs'[g] \/ Waits(g)' \/ Clears(g)'
    <3>1. vfs'[g] = vfs[g] /\ source_code' = source_code /\ worker' = worker /\ poolq' = poolq
      BY <2>0, <2>2, Zenon DEF Close, TypeOK, cacheVars
    <3>2. Active' = Active
      BY <3>1, Zenon DEF Active
    <3> QED
      BY <2>0, <3>1, <3>2, Zenon DEF SourceCurrent
  <2>3. ASSUME NEW t \in Threads, CompileStep(t)
        PROVE  source_code'[g] = vfs'[g] \/ Waits(g)' \/ Clears(g)'
    <3>1. vfs' = vfs /\ (source_code[g] = vfs[g] \/ Waits(g) \/ Clears(g))
      BY <2>0, <2>3, StepFrame, Zenon DEF clientVars, SourceCurrent
    <3>2. CASE source_code[g] = vfs[g]
      <4>1. CASE ClearModule(t)
        <5>1. source_code' = [source_code EXCEPT ![worker[t].file] = Contents(worker[t].file)]
          BY <4>1, Zenon DEF ClearModule, ClearWith
        <5>2. Contents(g) = vfs[g]
          BY <2>0, Zenon DEF Contents
        <5> QED
          BY <2>0, <3>1, <3>2, <5>1, <5>2, Zenon DEF TypeOK
      <4>2. CASE ~ClearModule(t)
        <5>1. source_code' = source_code
          BY <2>3, <4>2, Zenon DEF CompileStep, ReadOldDiags, Mark, LoadCode, ParseEntry, VisitImport, InsertModule,
             ImportsDone, CompileFails, Collect, CollectPanics, Publish, Store, StoreWith, Replace, cacheVars
        <5> QED
          BY <3>1, <3>2, <5>1, Zenon
      <4> QED
        BY <4>1, <4>2, Zenon
    <3>3. CASE Waits(g)
      <4>1. CASE ReadOldDiags(t)
        <5>1. PICK i \in DOMAIN poolq : poolq[i].file = g
          BY <3>3, Zenon
        <5>2. poolq' = Tail(poolq) /\ poolq \in Seq(JobSet) /\ poolq /= <<>>
          BY <4>1, Zenon DEF ReadOldDiags, TypeOK, JobSet
        <5>3. CASE i = 1
          <6>1. worker'[t].pc = "mark" /\ worker'[t].file = g
            BY <4>1, <5>1, <5>2, <5>3 DEF ReadOldDiags, Step, TypeOK
          <6> QED
            BY <6>1, Zenon DEF Active
        <5>4. CASE i /= 1
          <6>1. i - 1 \in DOMAIN poolq' /\ poolq'[i - 1] = poolq[i]
            BY <5>1, <5>2, <5>4
          <6> QED
            BY <5>1, <6>1, Zenon
        <5> QED
          BY <5>3, <5>4, Zenon
      <4>2. CASE ~ReadOldDiags(t)
        BY <2>3, <3>3, <4>2, StepFrame, Zenon
      <4> QED
        BY <4>1, <4>2
    <3>4. CASE Clears(g)
      <4>1. PICK u \in Active : worker[u].file = g /\ worker[u].pc \in {"mark", "load", "clear"}
        BY <3>4, Zenon
      <4>2. CASE u /= t
        <5>1. worker'[u] = worker[u] /\ u \in Threads
          BY <2>3, <4>2, StepFrame, Zenon DEF Active
        <5> QED
          BY <4>1, <5>1, Zenon DEF Active
      <4>3. CASE u = t
        <5>1. Mark(t) \/ LoadCode(t) \/ ClearModule(t)
          <6>1. worker[t].pc \in {"mark", "load", "clear"} /\ worker[t].pc \notin FailAt
            BY <4>1, <4>3, FailAtAssumption, Zenon
          <6> QED
            BY <2>3, <6>1, Zenon DEF CompileStep, ReadOldDiags, ParseEntry, VisitImport, InsertModule, ImportsDone,
               CompileFails, Collect, CollectPanics, Publish, Store, StoreWith, Replace, Step, Todo
        <5>2. JobOf(t)
          BY <4>1, <4>3, JobType, Zenon DEF Stages
        <5>3. CASE ClearModule(t)
          <6>1. source_code' = [source_code EXCEPT ![g] = Contents(g)]
            BY <4>1, <4>3, <5>3, Zenon DEF ClearModule, ClearWith
          <6> QED
            BY <2>0, <3>1, <6>1, Zenon DEF TypeOK, Contents
        <5>4. CASE Mark(t)
          <6>1. worker'[t] = [worker[t] EXCEPT !.pc = "load"]
            BY <5>4, Zenon DEF Mark, Step, TypeOK
          <6>2. worker'[t].pc = "load" /\ worker'[t].file = g
            BY <4>1, <4>3, <5>2, <6>1, Zenon DEF JobOf, JobRecords
          <6> QED
            BY <6>2, Zenon DEF Active
        <5>5. CASE LoadCode(t)
          <6> DEFINE code == [f \in Files |-> IF f \in Entries[worker[t].w] THEN Contents(f) ELSE None]
          <6>1. worker'[t] = [worker[t] EXCEPT !.pc = "clear", !.code = code]
            BY <5>5, Zenon DEF LoadCode, Step, TypeOK
          <6> HIDE DEF code
          <6>2. worker'[t].pc = "clear" /\ worker'[t].file = g
            BY <4>1, <4>3, <5>2, <6>1, Zenon DEF JobOf, JobRecords
          <6> QED
            BY <6>2, Zenon DEF Active
        <5> QED
          BY <5>1, <5>3, <5>4, <5>5, Zenon
      <4> QED
        BY <4>2, <4>3, Zenon
    <3> QED
      BY <3>1, <3>2, <3>3, <3>4, Zenon
  <2>5. ASSUME UNCHANGED vars
        PROVE  source_code'[g] = vfs'[g] \/ Waits(g)' \/ Clears(g)'
    <3>1. Active' = Active /\ worker' = worker
      BY <2>5, Zenon DEF Active, vars
    <3> QED
      BY <2>5, <2>0, <3>1, Zenon DEF vars, clientVars, cacheVars, SourceCurrent
  <2> QED
    BY <2>1, <2>2, <2>3, <2>5, Zenon DEF Next
<1> QED
  BY <1>1, <1>2, TypeCorrect, PTL DEF Spec
-----------------------------------------------------------------------------
(* What each step of a compile does to the job of its thread, by fields.     *)

Keeps(t) ==
    /\ worker'[t].w = worker[t].w
    /\ worker'[t].file = worker[t].file
    /\ worker'[t].old = worker[t].old
    /\ worker[t].w \in Workspaces

(* A job starts with the diagnostics of the last compile. *)
LEMMA AfterRead ==
    ASSUME TypeOK, NEW t \in Threads, ReadOldDiags(t)
    PROVE  /\ worker[t].pc = "idle" /\ worker'[t].pc = "mark"
           /\ worker'[t].w = Head(poolq).w /\ worker'[t].file = Head(poolq).file
           /\ worker'[t].old = Stored(Head(poolq).w)
           /\ worker'[t].diags = {} /\ worker'[t].ok = TRUE
           /\ poolq /= <<>> /\ poolq' = Tail(poolq) /\ Head(poolq) \in JobSet
           /\ cleared' = [cleared EXCEPT ![t] = {}]
           /\ mixed' = mixed \cup {w \in {Head(poolq).w} : \E u \in Active : worker[u].w = w}
           /\ UNCHANGED <<clientVars, cacheVars, db, shown, suspect, stranded>>
BY QueueType, Zenon DEF ReadOldDiags, Step, TypeOK, JobSet

(* The database is marked as compiling. *)
LEMMA AfterMark ==
    ASSUME TypeOK, NEW t \in Threads, Mark(t)
    PROVE  /\ worker[t].pc = "mark" /\ worker'[t].pc = "load" /\ Keeps(t)
           /\ worker'[t].diags = worker[t].diags /\ worker'[t].ok = worker[t].ok
           /\ \A w \in Workspaces :
                /\ db'[w].modules = db[w].modules
                /\ db'[w].diags = db[w].diags
                /\ w /= worker[t].w => db'[w] = db[w]
           /\ db'[worker[t].w].state = IF db[worker[t].w].state \in {"Ready", "Compiling"}
                                      THEN "Compiling" ELSE "Init"
           /\ UNCHANGED <<clientVars, cacheVars, shown, poolq, history>>
<1>1. worker'[t] = [worker[t] EXCEPT !.pc = "load"] /\ worker[t].pc = "mark"
  BY Zenon DEF Mark, Step, TypeOK
<1>2. JobOf(t)
  BY <1>1, JobType, Zenon DEF Stages
<1>3. worker'[t].pc = "load" /\ Keeps(t) /\ worker'[t].diags = worker[t].diags /\ worker'[t].ok = worker[t].ok
  BY <1>1, <1>2, Zenon DEF JobOf, JobRecords, Keeps
<1>4. ASSUME NEW w \in Workspaces
      PROVE  db'[w].modules = db[w].modules /\ db'[w].diags = db[w].diags /\ (w /= worker[t].w => db'[w] = db[w])
  BY <1>2 DEF Mark, TypeOK, JobOf
<1>5. db'[worker[t].w].state = IF db[worker[t].w].state \in {"Ready", "Compiling"} THEN "Compiling" ELSE "Init"
  BY <1>2 DEF Mark, TypeOK, JobOf
<1> QED
  BY <1>1, <1>3, <1>4, <1>5, Zenon DEF Mark

(* The code of the entries is read. *)
LEMMA AfterLoad ==
    ASSUME TypeOK, NEW t \in Threads, LoadCode(t)
    PROVE  /\ worker[t].pc = "load" /\ worker'[t].pc = "clear" /\ Keeps(t)
           /\ \A f \in Entries[worker[t].w] : worker'[t].code[f] = Contents(f)
           /\ worker'[t].diags = worker[t].diags /\ worker'[t].ok = worker[t].ok
           /\ UNCHANGED <<clientVars, cacheVars, db, shown, poolq, history>>
<1> DEFINE code == [f \in Files |-> IF f \in Entries[worker[t].w] THEN Contents(f) ELSE None]
<1>1. worker'[t] = [worker[t] EXCEPT !.pc = "clear", !.code = code] /\ worker[t].pc = "load"
  BY Zenon DEF LoadCode, Step, TypeOK
<1>2. JobOf(t)
  BY <1>1, JobType, Zenon DEF Stages
<1>3. \A f \in Entries[worker[t].w] : code[f] = Contents(f)
  BY <1>2, EntriesAssumption, Zenon DEF JobOf
<1> HIDE DEF code
<1>4. /\ worker'[t].pc = "clear" /\ Keeps(t) /\ worker'[t].code = code
      /\ worker'[t].diags = worker[t].diags /\ worker'[t].ok = worker[t].ok
  BY <1>1, <1>2, Zenon DEF JobOf, JobRecords, Keeps
<1> QED
  BY <1>1, <1>3, <1>4, Zenon DEF LoadCode

(* The changed file is cleared and its contents become its source. *)
LEMMA AfterClear ==
    ASSUME TypeOK, NEW t \in Threads, ClearModule(t)
    PROVE  /\ worker[t].pc = "clear" /\ worker'[t].pc = "entries" /\ Keeps(t)
           /\ worker'[t].todo = Entries[worker[t].w] /\ worker'[t].code = worker[t].code
           /\ worker'[t].diags = worker[t].diags /\ worker'[t].ok = worker[t].ok
           /\ worker[t].file \in Files
           /\ ast_cache' = [ast_cache EXCEPT ![worker[t].file] = None]
           /\ source_code' = [source_code EXCEPT ![worker[t].file] = Contents(worker[t].file)]
           /\ cleared' = [u \in Threads |-> IF u \in Disturbed(t, worker[t].file)
                                           THEN cleared[u] \cup {worker[t].file} ELSE cleared[u]]
           /\ suspect' = IF Disturbed(t, worker[t].file) = {} THEN suspect ELSE suspect \cup {worker[t].file}
           /\ UNCHANGED <<clientVars, db, shown, poolq, mixed, stranded>>
<1>1. worker'[t] = [worker[t] EXCEPT !.pc = "entries", !.todo = Entries[worker[t].w]] /\ worker[t].pc = "clear"
  BY Zenon DEF ClearModule, ClearWith, Step, TypeOK
<1>2. JobOf(t)
  BY <1>1, JobType, Zenon DEF Stages
<1>3. /\ worker'[t].pc = "entries" /\ Keeps(t)
      /\ worker'[t].todo = Entries[worker[t].w] /\ worker'[t].code = worker[t].code
      /\ worker'[t].diags = worker[t].diags /\ worker'[t].ok = worker[t].ok
  BY <1>1, <1>2, Zenon DEF JobOf, JobRecords, Keeps
<1> QED
  BY <1>1, <1>2, <1>3, Zenon DEF ClearModule, ClearWith, JobOf

(* An entry is parsed from the code that was read. *)
LEMMA AfterEntry ==
    ASSUME TypeOK, NEW t \in Threads, ParseEntry(t)
    PROVE  /\ worker[t].pc = "entries" /\ Keeps(t)
           /\ worker'[t].code = worker[t].code /\ worker'[t].ok = worker[t].ok
           /\ \E f \in worker[t].todo :
                /\ worker'[t].diags = worker[t].diags \cup Report(f, worker[t].code[f])
                /\ IF worker[t].todo \ {f} = {}
                   THEN /\ worker'[t].pc = "imports"
                        /\ worker'[t].todo = Reach[worker[t].w] \ Entries[worker[t].w]
                   ELSE /\ worker'[t].pc = "entries"
                        /\ worker'[t].todo = worker[t].todo \ {f}
                /\ ast_cache' = [ast_cache EXCEPT ![f] = worker[t].code[f]]
           /\ UNCHANGED <<clientVars, source_code, db, shown, poolq, history>>
<1> DEFINE todo(f) == IF worker[t].todo \ {f} = {}
                      THEN Reach[worker[t].w] \ Entries[worker[t].w] ELSE worker[t].todo \ {f}
           pc(f) == IF worker[t].todo \ {f} = {} THEN "imports" ELSE worker[t].pc
           diags(f) == worker[t].diags \cup Report(f, worker[t].code[f])
<1>1. worker[t].pc = "entries" /\ UNCHANGED <<clientVars, source_code, db, shown, poolq, history>>
  BY Zenon DEF ParseEntry, Step
<1>2. PICK f \in worker[t].todo :
        /\ worker'[t] = [worker[t] EXCEPT !.pc = pc(f), !.todo = todo(f), !.diags = diags(f)]
        /\ ast_cache' = [ast_cache EXCEPT ![f] = worker[t].code[f]]
  BY Zenon DEF ParseEntry, Step, Todo, TypeOK
<1>3. JobOf(t)
  BY <1>1, JobType, Zenon DEF Stages
<1>4. /\ worker'[t].pc = pc(f) /\ worker'[t].todo = todo(f) /\ worker'[t].diags = diags(f)
      /\ Keeps(t) /\ worker'[t].code = worker[t].code /\ worker'[t].ok = worker[t].ok
  <2> HIDE DEF pc, todo, diags
  <2> QED BY <1>2, <1>3, Zenon DEF JobOf, JobRecords, Keeps
<1> QED
  BY <1>1, <1>2, <1>4, Zenon

(* An import is taken from the cache, or is to be parsed from its source. *)
LEMMA AfterVisit ==
    ASSUME TypeOK, NEW t \in Threads, VisitImport(t)
    PROVE  /\ worker[t].pc = "imports" /\ Keeps(t)
           /\ worker'[t].code = worker[t].code /\ worker'[t].diags = worker[t].diags
           /\ worker'[t].ok = worker[t].ok
           /\ \E f \in worker[t].todo :
                /\ worker'[t].todo = worker[t].todo \ {f}
                /\ IF ast_cache[f] /= None THEN worker'[t].pc = "imports"
                   ELSE /\ worker'[t].pc = "parse" /\ worker'[t].parsing = f
                        /\ worker'[t].src = IF source_code[f] /= None THEN source_code[f] ELSE 0
           /\ UNCHANGED <<clientVars, cacheVars, db, shown, poolq, history>>
<1> DEFINE src(f) == IF source_code[f] /= None THEN source_code[f] ELSE 0
<1>1. worker[t].pc = "imports" /\ UNCHANGED <<clientVars, cacheVars, db, shown, poolq, history>>
  BY Zenon DEF VisitImport, Step
<1>2. PICK f \in worker[t].todo :
        worker'[t] = IF ast_cache[f] /= None THEN [worker[t] EXCEPT !.todo = @ \ {f}]
                     ELSE [worker[t] EXCEPT !.pc = "parse", !.todo = @ \ {f}, !.parsing = f, !.src = src(f)]
  BY Zenon DEF VisitImport, Step, Todo, TypeOK
<1>3. JobOf(t)
  BY <1>1, JobType, Zenon DEF Stages
<1> HIDE DEF src
<1>4. /\ Keeps(t) /\ worker'[t].code = worker[t].code
      /\ worker'[t].diags = worker[t].diags /\ worker'[t].ok = worker[t].ok
  BY <1>2, <1>3 DEF JobOf, JobRecords, Keeps
<1>5. worker'[t].todo = worker[t].todo \ {f}
  BY <1>2, <1>3, ZenonT(60) DEF JobOf, JobRecords
<1>6. CASE ast_cache[f] /= None
  <2>1. worker'[t].pc = "imports"
    BY <1>1, <1>2, <1>3, <1>6, Zenon DEF JobOf, JobRecords
  <2> QED
    BY <1>1, <1>4, <1>5, <1>6, <2>1, Zenon
<1>7. CASE ast_cache[f] = None
  <2>1. worker'[t].pc = "parse" /\ worker'[t].parsing = f /\ worker'[t].src = src(f)
    BY <1>2, <1>3, <1>7, Zenon DEF JobOf, JobRecords
  <2> QED
    BY <1>1, <1>4, <1>5, <1>7, <2>1, Zenon DEF src
<1> QED
  BY <1>6, <1>7, Zenon

(* The tree of a parsed import is inserted. *)
LEMMA AfterInsert ==
    ASSUME TypeOK, NEW t \in Threads, InsertModule(t)
    PROVE  /\ worker[t].pc = "parse" /\ worker'[t].pc = "imports" /\ Keeps(t)
           /\ worker'[t].code = worker[t].code /\ worker'[t].todo = worker[t].todo
           /\ worker'[t].diags = worker[t].diags \cup Report(worker[t].parsing, worker[t].src)
           /\ worker'[t].ok = worker[t].ok
           /\ worker[t].src \in Versions
           /\ ast_cache' = [ast_cache EXCEPT ![worker[t].parsing] = worker[t].src]
           /\ UNCHANGED <<clientVars, source_code, db, shown, poolq, history>>
<1> DEFINE diags == worker[t].diags \cup Report(worker[t].parsing, worker[t].src)
<1>1. worker[t].pc = "parse" /\ worker'[t] = [worker[t] EXCEPT !.pc = "imports", !.diags = diags]
  BY Zenon DEF InsertModule, Step, TypeOK
<1>2. JobOf(t)
  BY <1>1, JobType, Zenon DEF Stages
<1>3. /\ worker'[t].pc = "imports" /\ Keeps(t) /\ worker'[t].code = worker[t].code
      /\ worker'[t].todo = worker[t].todo /\ worker'[t].diags = diags /\ worker'[t].ok = worker[t].ok
  <2> HIDE DEF diags
  <2> QED BY <1>1, <1>2, Zenon DEF JobOf, JobRecords, Keeps
<1> QED
  BY <1>1, <1>2, <1>3, Zenon DEF InsertModule, JobOf

(* With every import visited, the program is put together. *)
LEMMA AfterImports ==
    ASSUME TypeOK, NEW t \in Threads, ImportsDone(t)
    PROVE  /\ worker[t].pc = "imports" /\ worker[t].todo = {} /\ worker'[t].pc = "collect" /\ Keeps(t)
           /\ worker'[t].code = worker[t].code /\ worker'[t].todo = Reach[worker[t].w]
           /\ worker'[t].diags = worker[t].diags /\ worker'[t].ok = worker[t].ok
           /\ UNCHANGED <<clientVars, cacheVars, db, shown, poolq, history>>
<1>1. worker[t].pc = "imports" /\ worker'[t] = [worker[t] EXCEPT !.pc = "collect", !.todo = Reach[worker[t].w]]
  BY Zenon DEF ImportsDone, Step, TypeOK
<1>2. JobOf(t)
  BY <1>1, JobType, Zenon DEF Stages
<1>3. /\ worker'[t].pc = "collect" /\ Keeps(t) /\ worker'[t].code = worker[t].code
      /\ worker'[t].todo = Reach[worker[t].w] /\ worker'[t].diags = worker[t].diags
      /\ worker'[t].ok = worker[t].ok
  BY <1>1, <1>2, Zenon DEF JobOf, JobRecords, Keeps
<1> QED
  BY <1>1, <1>3, Zenon DEF ImportsDone

(* A failing compile goes on to publish what it has. *)
LEMMA AfterFail ==
    ASSUME TypeOK, NEW t \in Threads, CompileFails(t)
    PROVE  /\ worker[t].pc \in FailAt /\ worker'[t].pc = "publish" /\ ~worker'[t].ok /\ Keeps(t)
           /\ worker[t].ok /\ worker'[t].code = worker[t].code
           /\ worker'[t].diags = IF worker[t].pc = "publish" THEN worker[t].diags ELSE {}
           /\ worker'[t].todo = {d[1] : d \in worker'[t].old \cup worker'[t].diags}
           /\ suspect' = IF worker[t].pc = "clear" THEN suspect \cup {worker[t].file} ELSE suspect
           /\ mixed' = IF worker[t].pc = "publish" THEN mixed \cup {worker[t].w} ELSE mixed
           /\ UNCHANGED <<clientVars, cacheVars, db, shown, poolq, cleared, stranded>>
<1> DEFINE diags == IF worker[t].pc = "publish" THEN worker[t].diags ELSE {}
           todo == Published([worker[t] EXCEPT !.diags = diags])
<1>1. worker[t].pc \in FailAt /\ worker[t].ok
  BY Zenon DEF CompileFails
<1>2. worker'[t] = [worker[t] EXCEPT !.pc = "publish", !.ok = FALSE, !.diags = diags, !.todo = todo]
  BY Zenon DEF CompileFails, Step, TypeOK
<1>3. JobOf(t)
  BY <1>1, JobType, FailAtAssumption, Zenon DEF Stages
<1>4. todo = {d[1] : d \in worker[t].old \cup diags}
  <2> HIDE DEF diags
  <2> QED BY <1>3, Zenon DEF JobOf, JobRecords, Published
<1>5. /\ worker'[t].pc = "publish" /\ ~worker'[t].ok /\ Keeps(t) /\ worker'[t].code = worker[t].code
      /\ worker'[t].diags = diags /\ worker'[t].todo = todo
  <2> HIDE DEF diags, todo
  <2> QED BY <1>2, <1>3, ZenonT(30) DEF JobOf, JobRecords, Keeps
<1> QED
  BY <1>1, <1>4, <1>5, Zenon DEF CompileFails, Keeps

(* A file's tree becomes part of the program. *)
LEMMA AfterCollect ==
    ASSUME TypeOK, NEW t \in Threads, Collect(t)
    PROVE  /\ worker[t].pc = "collect" /\ Keeps(t)
           /\ worker'[t].code = worker[t].code
           /\ worker'[t].diags = worker[t].diags /\ worker'[t].ok = worker[t].ok
           /\ \E f \in worker[t].todo :
                /\ ast_cache[f] /= None
                /\ worker'[t].modules = [worker[t].modules EXCEPT ![f] = ast_cache[f]]
                /\ f \in DOMAIN worker[t].modules
                /\ IF worker[t].todo \ {f} = {}
                   THEN /\ worker'[t].pc = "publish"
                        /\ worker'[t].todo = {d[1] : d \in worker[t].old \cup worker[t].diags}
                   ELSE /\ worker'[t].pc = "collect"
                        /\ worker'[t].todo = worker[t].todo \ {f}
           /\ UNCHANGED <<clientVars, cacheVars, db, shown, poolq, history>>
<1> DEFINE todo(f) == IF worker[t].todo \ {f} = {} THEN Published(worker[t]) ELSE worker[t].todo \ {f}
           pc(f) == IF worker[t].todo \ {f} = {} THEN "publish" ELSE worker[t].pc
           modules(f) == [worker[t].modules EXCEPT ![f] = ast_cache[f]]
<1>1. worker[t].pc = "collect" /\ UNCHANGED <<clientVars, cacheVars, db, shown, poolq, history>>
  BY Zenon DEF Collect, Step
<1>2. PICK f \in worker[t].todo :
        /\ ast_cache[f] /= None
        /\ worker'[t] = [worker[t] EXCEPT !.modules[f] = ast_cache[f], !.pc = pc(f), !.todo = todo(f)]
  BY Zenon DEF Collect, Step, Todo, TypeOK
<1>3. JobOf(t)
  BY <1>1, JobType, Zenon DEF Stages
<1>4. worker'[t] = [worker[t] EXCEPT !.modules = modules(f), !.pc = pc(f), !.todo = todo(f)]
  BY <1>2, Zenon
<1>5. /\ Keeps(t) /\ worker'[t].code = worker[t].code
      /\ worker'[t].diags = worker[t].diags /\ worker'[t].ok = worker[t].ok
      /\ worker'[t].modules = modules(f) /\ worker'[t].pc = pc(f) /\ worker'[t].todo = todo(f)
  <2> HIDE DEF pc, todo, modules
  <2> QED BY <1>4, <1>3, Zenon DEF JobOf, JobRecords, Keeps
<1>6. f \in DOMAIN worker[t].modules
  BY <1>2, <1>3, Zenon DEF JobOf
<1> QED
  BY <1>1, <1>2, <1>5, <1>6, Zenon DEF Published

(* A tree is missing and the thread panics. *)
LEMMA AfterPanic ==
    ASSUME TypeOK, NEW t \in Threads, CollectPanics(t)
    PROVE  /\ worker[t].pc = "collect" /\ worker'[t].pc = "panicked"
           /\ worker[t].w \in Workspaces /\ worker[t].file \in Files
           /\ suspect' = suspect \cup {worker[t].file}
           /\ UNCHANGED <<clientVars, cacheVars, db, shown, poolq, cleared, mixed>>
<1>1. worker[t].pc = "collect" /\ worker'[t] = [pc |-> "panicked"]
  BY Zenon DEF CollectPanics, Step, TypeOK
<1>2. JobOf(t)
  BY <1>1, JobType, Zenon DEF Stages
<1>3. worker'[t].pc = "panicked"
  BY <1>1
<1> QED
  BY <1>1, <1>2, <1>3, Zenon DEF CollectPanics, JobOf

(* The diagnostics of one file are shown. *)
LEMMA AfterPublish ==
    ASSUME TypeOK, NEW t \in Threads, Publish(t)
    PROVE  /\ worker[t].pc = "publish" /\ worker'[t].pc = "publish" /\ Keeps(t)
           /\ worker'[t].code = worker[t].code /\ worker'[t].diags = worker[t].diags
           /\ worker'[t].modules = worker[t].modules /\ worker'[t].ok = worker[t].ok
           /\ \E f \in worker[t].todo :
                /\ worker'[t].todo = worker[t].todo \ {f}
                /\ shown' = [shown EXCEPT ![f] =
                               IF \E d \in worker[t].diags : d[1] = f
                               THEN (CHOOSE d \in worker[t].diags : d[1] = f)[2] ELSE None]
           /\ UNCHANGED <<clientVars, cacheVars, db, poolq, history>>
<1> DEFINE v(f) == IF \E d \in worker[t].diags : d[1] = f
                   THEN (CHOOSE d \in worker[t].diags : d[1] = f)[2] ELSE None
<1>1. worker[t].pc = "publish" /\ UNCHANGED <<clientVars, cacheVars, db, poolq, history>>
  BY Zenon DEF Publish, Step
<1>2. PICK f \in worker[t].todo :
        /\ worker'[t] = [worker[t] EXCEPT !.todo = @ \ {f}]
        /\ shown' = [shown EXCEPT ![f] = v(f)]
  BY Zenon DEF Publish, Step, Todo, TypeOK
<1>3. JobOf(t)
  BY <1>1, JobType, Zenon DEF Stages
<1>4. /\ worker'[t].pc = "publish" /\ Keeps(t)
      /\ worker'[t].code = worker[t].code /\ worker'[t].diags = worker[t].diags
      /\ worker'[t].modules = worker[t].modules /\ worker'[t].ok = worker[t].ok
      /\ worker'[t].todo = worker[t].todo \ {f}
  BY <1>1, <1>2, <1>3, Zenon DEF JobOf, JobRecords, Keeps
<1> QED
  BY <1>1, <1>2, <1>4, Zenon

(* The outcome is stored and the thread is idle. *)
LEMMA AfterStore ==
    ASSUME TypeOK, NEW t \in Threads, Store(t)
    PROVE  /\ worker[t].pc = "publish" /\ worker[t].todo = {} /\ worker'[t].pc = "idle"
           /\ worker[t].w \in Workspaces
           /\ db'[worker[t].w].state = IF worker[t].ok THEN "Ready" ELSE "Failed"
           /\ worker[t].ok => db'[worker[t].w].modules = worker[t].modules
           /\ db'[worker[t].w].diags = IF worker[t].ok THEN worker[t].diags ELSE {}
           /\ \A w \in Workspaces \ {worker[t].w} : db'[w] = db[w]
           /\ UNCHANGED <<clientVars, cacheVars, shown, poolq, cleared, suspect, mixed>>
<1>1. worker[t].pc = "publish" /\ worker[t].todo = {} /\ UNCHANGED <<clientVars, cacheVars, shown, poolq, cleared, suspect, mixed>>
  BY Zenon DEF Store, StoreWith
<1>2. JobOf(t)
  BY <1>1, JobType, Zenon DEF Stages
<1>3. worker'[t].pc = "idle"
  BY Zenon DEF Store, StoreWith, Idle, TypeOK
<1>4. db' = [db EXCEPT ![worker[t].w] = IF worker[t].ok THEN Ready(worker[t]) ELSE CompileFailed]
  BY Zenon DEF Store, StoreWith
<1>5. db'[worker[t].w] = IF worker[t].ok THEN Ready(worker[t]) ELSE CompileFailed
  BY <1>2, <1>4, Zenon DEF JobOf, TypeOK
<1>6. \A w \in Workspaces \ {worker[t].w} : db'[w] = db[w]
  BY <1>4, Zenon DEF TypeOK
<1> QED
  BY <1>1, <1>2, <1>3, <1>5, <1>6 DEF JobOf, Ready, CompileFailed

(* A thread that panicked is replaced. *)
LEMMA AfterReplace ==
    ASSUME TypeOK, NEW t \in Threads, Replace(t)
    PROVE  /\ worker[t].pc = "panicked" /\ worker'[t].pc = "idle"
           /\ UNCHANGED <<clientVars, cacheVars, db, shown, poolq, history>>
BY Zenon DEF Replace, Step, Idle, TypeOK

(* What another thread has visited stays in the cache, or the step clears it *)
(* and that is noted.                                                        *)
LEMMA OthersKept ==
    ASSUME TypeOK, TreesKept, NEW t \in Threads, CompileStep(t), NEW u \in Threads \ {t},
           u \in Reading, NEW S \in SUBSET Reach[worker[u].w], Kept(u, S)
    PROVE  Kept(u, S)'
<1> SUFFICES ASSUME NEW g \in S PROVE ast_cache'[g] /= None \/ g \in cleared'[u]
  BY Zenon DEF Kept
<1>1. ast_cache[g] /= None \/ g \in cleared[u]
  BY Zenon DEF Kept
<1>2. worker[u].w \in Workspaces
  BY ActiveStage, JobType, Zenon DEF Reading, JobOf
<1>3. g \in Files /\ g \in Reach[worker[u].w]
  BY <1>2, ReachType, Zenon
<1>4. CASE UNCHANGED <<ast_cache, cleared>>
  BY <1>1, <1>4, Zenon
<1>5. CASE ReadOldDiags(t)
  <2>1. ast_cache' = ast_cache /\ cleared' = [cleared EXCEPT ![t] = {}]
    BY <1>5, AfterRead, Zenon DEF cacheVars
  <2>2. cleared'[u] = cleared[u]
    BY <2>1, Zenon DEF TypeOK
  <2> QED
    BY <1>1, <2>1, <2>2, Zenon
<1>6. CASE ClearModule(t)
  <2> DEFINE f == worker[t].file
  <2>3. /\ ast_cache' = [ast_cache EXCEPT ![f] = None]
        /\ cleared' = [v \in Threads |-> IF v \in Disturbed(t, f) THEN cleared[v] \cup {f} ELSE cleared[v]]
    BY <1>6, AfterClear, Zenon
  <2>4. cleared'[u] = IF u \in Disturbed(t, f) THEN cleared[u] \cup {f} ELSE cleared[u]
    BY <2>3, Zenon
  <2>1. CASE g = f
    <3>1. u \in Disturbed(t, f)
      BY <1>3, <2>1, Zenon DEF Disturbed
    <3> QED
      BY <2>1, <2>4, <3>1, Zenon
  <2>2. CASE g /= f
    <3>1. ast_cache'[g] = ast_cache[g]
      BY <1>3, <2>2, <2>3, Zenon DEF TypeOK
    <3> QED
      BY <1>1, <2>4, <3>1, Zenon
  <2> QED
    BY <2>1, <2>2, Zenon
<1>7. CASE ParseEntry(t)
  <2>1. PICK f \in worker[t].todo : ast_cache' = [ast_cache EXCEPT ![f] = worker[t].code[f]]
    BY <1>7, AfterEntry, Zenon
  <2>2. f \in Entries[worker[t].w]
    BY <1>7, <2>1, AfterEntry, Zenon DEF TreesKept
  <2>3. worker[t].code[f] /= None /\ cleared' = cleared
    BY <1>7, <2>2, AfterEntry, Zenon DEF TreesKept, history
  <2> QED
    BY <1>1, <1>3, <2>1, <2>3, Zenon DEF TypeOK
<1>8. CASE InsertModule(t)
  <2>1. /\ ast_cache' = [ast_cache EXCEPT ![worker[t].parsing] = worker[t].src]
        /\ worker[t].src \in Versions /\ cleared' = cleared
    BY <1>8, AfterInsert, Zenon DEF history
  <2>2. worker[t].src /= None
    BY <2>1, NoneAssumption, BoundsAssumption DEF Versions
  <2> QED
    BY <1>1, <1>3, <2>1, <2>2, Zenon DEF TypeOK
<1> QED
  BY <1>4, <1>5, <1>6, <1>7, <1>8, ZenonT(60)
  DEF CompileStep, Mark, LoadCode, VisitImport, ImportsDone, CompileFails, Collect, CollectPanics, Publish,
      Store, StoreWith, Replace, cacheVars, history

(* However many compiles overlap, a tree that a compile has visited is in    *)
(* the module cache until its program is put together, or another compile    *)
(* has cleared the file in the meantime.                                     *)
THEOREM TreesStayCached == Spec => []TreesKept
<1>1. Init => TreesKept
  BY DEF Init, TreesKept, Idle
<1>2. TypeOK /\ TreesKept /\ [Next]_vars => TreesKept'
  <2> DEFINE C(u) == /\ worker[u].pc \in {"clear", "entries"} =>
                           \A f \in Entries[worker[u].w] : worker[u].code[f] /= None
                     /\ worker[u].pc = "entries" =>
                           /\ worker[u].todo \subseteq Entries[worker[u].w]
                           /\ Kept(u, Entries[worker[u].w] \ worker[u].todo)
                     /\ worker[u].pc = "imports" => Kept(u, Reach[worker[u].w] \ worker[u].todo)
                     /\ worker[u].pc = "parse" =>
                           Kept(u, Reach[worker[u].w] \ (worker[u].todo \cup {worker[u].parsing}))
                     /\ worker[u].pc = "collect" =>
                           worker[u].todo \subseteq Reach[worker[u].w] /\ Kept(u, Reach[worker[u].w])
  <2> SUFFICES ASSUME TypeOK, TreesKept, [Next]_vars, NEW u \in Threads PROVE C(u)'
    BY Zenon DEF TreesKept
  <2>0. \A t \in Threads : C(t)
    BY Zenon DEF TreesKept
  <2>1. ASSUME UNCHANGED <<worker, ast_cache, cleared>> PROVE C(u)'
    BY <2>0, <2>1, Zenon DEF Kept
  <2>2. ASSUME NEW t \in Threads \ {u}, CompileStep(t) PROVE C(u)'
    <3>1. worker'[u] = worker[u]
      BY <2>2, StepFrame, Zenon
    <3>2. CASE worker[u].pc \in {"entries", "imports", "parse", "collect"}
      <4>1. u \in Reading /\ worker[u].w \in Workspaces
        BY <3>2, JobType, Zenon DEF Reading, Active, Stages, JobOf
      <4>2. Entries[worker[u].w] \subseteq Reach[worker[u].w]
        BY <4>1, ReachType, Zenon
      <4>3. \A S \in SUBSET Reach[worker[u].w] : Kept(u, S) => Kept(u, S)'
        BY <2>2, <4>1, OthersKept, Zenon
      <4> HIDE DEF C
      <4>4. CASE worker[u].pc = "entries"
        BY <2>0, <3>1, <4>2, <4>3, <4>4 DEF C
      <4>5. CASE worker[u].pc = "imports"
        BY <2>0, <3>1, <4>3, <4>5 DEF C
      <4>6. CASE worker[u].pc = "parse"
        BY <2>0, <3>1, <4>3, <4>6 DEF C
      <4>7. CASE worker[u].pc = "collect"
        BY <2>0, <3>1, <4>3, <4>7 DEF C
      <4> QED
        BY <3>2, <4>4, <4>5, <4>6, <4>7, Zenon
    <3>3. CASE worker[u].pc \notin {"entries", "imports", "parse", "collect"}
      BY <2>0, <3>1, <3>3, Zenon
    <3> QED
      BY <3>2, <3>3, Zenon
  <2>3. ASSUME CompileStep(u) PROVE C(u)'
    <3>1. C(u)
      BY <2>0, Zenon
    <3>2. CASE ReadOldDiags(u)
      BY <3>2, AfterRead, Zenon
    <3>3. CASE Mark(u)
      BY <3>3, AfterMark, Zenon
    <3>4. CASE LoadCode(u)
      <4>1. \A f \in Entries[worker[u].w] : f \in Files
        BY <3>4, AfterLoad, EntriesAssumption, Zenon DEF Keeps
      <4> QED
        BY <3>4, <4>1, AfterLoad, ContentsType DEF Keeps
    <3>5. CASE ClearModule(u)
      BY <3>1, <3>5, AfterClear DEF Keeps, Kept
    <3>6. CASE ParseEntry(u)
      <4>1. PICK f \in worker[u].todo :
                /\ IF worker[u].todo \ {f} = {}
                   THEN /\ worker'[u].pc = "imports"
                        /\ worker'[u].todo = Reach[worker[u].w] \ Entries[worker[u].w]
                   ELSE /\ worker'[u].pc = "entries"
                        /\ worker'[u].todo = worker[u].todo \ {f}
                /\ ast_cache' = [ast_cache EXCEPT ![f] = worker[u].code[f]]
        BY <3>6, AfterEntry, Zenon
      <4>2. /\ worker[u].pc = "entries" /\ Keeps(u) /\ worker'[u].code = worker[u].code
            /\ JobOf(u) /\ cleared' = cleared
        BY <3>6, AfterEntry, JobType, Zenon DEF Stages, history
      <4>3. ASSUME NEW g \in Entries[worker[u].w], g \in worker[u].todo => g = f
            PROVE  ast_cache'[g] /= None \/ g \in cleared'[u]
        <5>1. g \in Files
          BY <4>2, EntriesAssumption, Zenon DEF JobOf
        <5> QED
          BY <3>1, <4>1, <4>2, <4>3, <5>1, Zenon DEF Kept, TypeOK
      <4> QED
        BY <3>1, <4>1, <4>2, <4>3, Zenon DEF Kept, Keeps
    <3>7. CASE VisitImport(u)
      <4>1. PICK f \in worker[u].todo :
                /\ worker'[u].todo = worker[u].todo \ {f}
                /\ IF ast_cache[f] /= None THEN worker'[u].pc = "imports"
                   ELSE worker'[u].pc = "parse" /\ worker'[u].parsing = f
        BY <3>7, AfterVisit
      <4>2. worker[u].pc = "imports" /\ Keeps(u) /\ UNCHANGED <<ast_cache, cleared>>
        BY <3>7, AfterVisit, Zenon DEF cacheVars, history
      <4> QED
        BY <3>1, <4>1, <4>2, Zenon DEF Kept, Keeps
    <3>8. CASE InsertModule(u)
      <4>1. /\ worker[u].pc = "parse" /\ worker'[u].pc = "imports" /\ Keeps(u) /\ worker'[u].todo = worker[u].todo
            /\ ast_cache' = [ast_cache EXCEPT ![worker[u].parsing] = worker[u].src]
            /\ worker[u].src \in Versions /\ cleared' = cleared
        BY <3>8, AfterInsert, Zenon DEF history
      <4>2. worker[u].src /= None
        BY <4>1, NoneAssumption, BoundsAssumption DEF Versions
      <4>3. ASSUME NEW g \in Reach[worker[u].w] \ worker[u].todo PROVE ast_cache'[g] /= None \/ g \in cleared'[u]
        <5>1. g \in Files
          BY <4>1, <4>3, ReachType, Zenon DEF Keeps
        <5> QED
          BY <3>1, <4>1, <4>2, <5>1, Zenon DEF Kept, TypeOK
      <4> QED
        BY <4>1, <4>3, Zenon DEF Kept, Keeps
    <3>9. CASE ImportsDone(u)
      BY <3>1, <3>9, AfterImports DEF Keeps, Kept, cacheVars, history
    <3>10. CASE CompileFails(u)
      BY <3>10, AfterFail, Zenon
    <3>11. CASE Collect(u)
      <4>1. \/ worker'[u].pc = "publish"
            \/ worker'[u].pc = "collect" /\ worker'[u].todo \subseteq worker[u].todo
        BY <3>11, AfterCollect, Zenon
      <4>2. worker[u].pc = "collect" /\ Keeps(u) /\ UNCHANGED <<ast_cache, cleared>>
        BY <3>11, AfterCollect, Zenon DEF cacheVars, history
      <4> QED
        BY <3>1, <4>1, <4>2, Zenon DEF Kept, Keeps
    <3>12. CASE CollectPanics(u)
      BY <3>12, AfterPanic, Zenon
    <3>13. CASE Publish(u)
      BY <3>13, AfterPublish, Zenon
    <3>14. CASE Store(u)
      BY <3>14, AfterStore, Zenon
    <3>15. CASE Replace(u)
      BY <3>15, AfterReplace, Zenon
    <3> QED
      BY <2>3, <3>2, <3>3, <3>4, <3>5, <3>6, <3>7, <3>8, <3>9, <3>10, <3>11, <3>12, <3>13, <3>14, <3>15, Zenon
         DEF CompileStep
  <2> HIDE DEF C
  <2> QED
    BY <2>1, <2>2, <2>3, Zenon DEF Next, Edit, Close, vars, cacheVars, history
<1> QED
  BY <1>1, <1>2, TypeCorrect, PTL DEF Spec

(* A compile that misses a tree when it puts its program together, and       *)
(* panics, lost it to another compile, for any number of threads, workspaces *)
(* and files, whatever is edited, closed or fails.                           *)
THEOREM MissingTreesCleared == Spec => []MissingWasCleared
<1>1. TreesKept => MissingWasCleared
  BY Zenon DEF TreesKept, Kept, MissingWasCleared
<1> QED
  BY <1>1, TreesStayCached, PTL
=============================================================================
