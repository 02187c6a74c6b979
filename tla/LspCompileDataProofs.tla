------------------------ MODULE LspCompileDataProofs ------------------------
(* What the databases of the workspaces hold and what the client shows, for  *)
(* any files, imports, workspaces, versions and number of threads.           *)
EXTENDS LspCompileProofs

(* An edit queues a compile of every workspace of its file. *)
LEMMA EditKeeps ==
    ASSUME TypeOK, NEW g \in Files, Edit(g)
    PROVE  /\ \A w \in Workspaces, f \in Files : Queued(w, f) => Queued(w, f)'
           /\ \A w \in Workspaces : g \in Reach[w] => Queued(w, g)'
           /\ \A f \in Files \ {g} : vfs'[f] = vfs[f]
<1>1. \A w \in Workspaces, f \in Files : Queued(w, f) => Queued(w, f)'
  BY EditQueues, Zenon DEF Queued
<1>2. \A w \in Workspaces : g \in Reach[w] => Queued(w, g)'
  BY EditQueues, Zenon DEF Queued
<1>3. \A f \in Files \ {g} : vfs'[f] = vfs[f]
  BY Zenon DEF Edit, TypeOK
<1> QED
  BY <1>1, <1>2, <1>3, Zenon

(* A compile that starts takes only its own job. *)
LEMMA ReadKeeps ==
    ASSUME TypeOK, NEW t \in Threads, ReadOldDiags(t)
    PROVE  \A w \in Workspaces, f \in Files :
             Queued(w, f) => Queued(w, f)' \/ (worker'[t].w = w /\ worker'[t].file = f)
<1> SUFFICES ASSUME NEW w \in Workspaces, NEW f \in Files, Queued(w, f)
             PROVE  Queued(w, f)' \/ (worker'[t].w = w /\ worker'[t].file = f)
  BY Zenon
<1>1. PICK i \in DOMAIN poolq : poolq[i].w = w /\ poolq[i].file = f
  BY Zenon DEF Queued
<1>2. poolq' = Tail(poolq) /\ poolq \in Seq(JobSet) /\ poolq /= <<>>
  BY Zenon DEF ReadOldDiags, TypeOK, JobSet
<1>3. CASE i = 1
  <2>1. Head(poolq) = poolq[1]
    BY <1>2
  <2> QED
    BY <1>1, <1>3, <2>1, AfterRead, Zenon
<1>4. CASE i /= 1
  <2>1. i - 1 \in DOMAIN poolq' /\ poolq'[i - 1] = poolq[i]
    BY <1>1, <1>2, <1>4
  <2> QED
    BY <1>1, <2>1, Zenon DEF Queued
<1> QED
  BY <1>3, <1>4, Zenon

(* The other steps take no job, and no step changes the client's files or    *)
(* forgets what happened.                                                    *)
LEMMA StepKeeps ==
    ASSUME TypeOK, NEW t \in Threads, CompileStep(t)
    PROVE  /\ ~ReadOldDiags(t) => \A w, f : Queued(w, f)' <=> Queued(w, f)
           /\ vfs' = vfs /\ open' = open
           /\ suspect \subseteq suspect' /\ mixed \subseteq mixed'
<1>1. ~ReadOldDiags(t) => \A w, f : Queued(w, f)' <=> Queued(w, f)
  BY StepFrame, Zenon DEF Queued
<1>2. vfs' = vfs /\ open' = open
  BY StepFrame, Zenon DEF clientVars
<1>3. suspect \subseteq suspect' /\ mixed \subseteq mixed'
  BY DEF CompileStep, ReadOldDiags, Mark, LoadCode, ClearModule, ClearWith, ParseEntry, VisitImport,
     InsertModule, ImportsDone, CompileFails, Collect, CollectPanics, Publish, Store, StoreWith, Replace, history
<1> QED
  BY <1>1, <1>2, <1>3, Zenon

(* The diagnostics of a workspace are about files of its program, and a      *)
(* compile has only files of the program to do.                              *)
THEOREM DiagsInProgram == Spec => []DiagsOfProgram
<1>1. Init => DiagsOfProgram
  BY DEF Init, DiagsOfProgram, Active, Idle
<1>2. TypeOK /\ TypeOK' /\ DiagsOfProgram /\ [Next]_vars => DiagsOfProgram'
  <2> SUFFICES ASSUME TypeOK, TypeOK', DiagsOfProgram, [Next]_vars PROVE DiagsOfProgram'
    BY Zenon 
  <2> DEFINE J(j) == /\ \A d \in j.old \cup j.diags : d[1] \in Reach[j.w]
                     /\ j.pc = "entries" => j.todo \subseteq Entries[j.w]
                     /\ j.pc \in {"imports", "parse"} => j.todo \subseteq Reach[j.w] \ Entries[j.w]
                     /\ j.pc = "parse" => j.parsing \in Reach[j.w] \ Entries[j.w]
                     /\ j.pc = "publish" => j.todo \subseteq Reach[j.w]
             B == \A w \in Workspaces : \A d \in db[w].diags : d[1] \in Reach[w]
  <2>1. ASSUME worker' = worker, db' = db PROVE DiagsOfProgram'
    BY <2>1, Zenon DEF DiagsOfProgram, Active
  <2>2. ASSUME NEW t \in Threads, CompileStep(t) PROVE DiagsOfProgram'
    <3>1. worker[t].pc \in Stages => J(worker[t])
      BY ActiveStage, Zenon DEF DiagsOfProgram
    <3>2. ASSUME B', worker'[t].pc \in Stages => J(worker'[t]) PROVE DiagsOfProgram'
      <4>1. ASSUME NEW u \in Active' PROVE J(worker'[u])
        <5>1. CASE u = t
          <6>1. worker'[t].pc \in Stages
            <7>1. worker'[t] \in {Idle, [pc |-> "panicked"]} \cup JobRecords /\ worker'[t].pc \notin {"idle", "panicked"}
              BY <4>1, <5>1, Zenon DEF TypeOK, Active
            <7> QED
              BY <7>1 DEF Idle, JobRecords, Stages
          <6> QED
            BY <3>2, <5>1, <6>1, Zenon
        <5>2. CASE u /= t
          <6>1. worker'[u] = worker[u] /\ u \in Threads
            BY <2>2, <4>1, <5>2, StepFrame, Zenon DEF Active
          <6>2. u \in Active
            BY <4>1, <6>1, Zenon DEF Active
          <6> QED
            BY <6>1, <6>2, Zenon DEF DiagsOfProgram
        <5> QED
          BY <5>1, <5>2, Zenon
      <4> QED
        BY <3>2, <4>1, Zenon DEF DiagsOfProgram
    <3>3. B
      BY Zenon DEF DiagsOfProgram
    <3>4. \A f, v : \A d \in Report(f, v) : d[1] = f
      BY DEF Report
    <3>5. CASE ReadOldDiags(t)
      <4>1. \A d \in Stored(Head(poolq).w) : d[1] \in Reach[Head(poolq).w]
        BY <3>3, <3>5, AfterRead, Zenon DEF Stored, JobSet
      <4> QED
        BY <3>2, <3>3, <3>5, <4>1, AfterRead, ZenonT(30)
    <3>6. CASE Mark(t)
      <4>1. ASSUME NEW w \in Workspaces PROVE db'[w].diags = db[w].diags
        BY <3>6, AfterMark, Zenon
      <4>2. J(worker'[t])
        BY <3>1, <3>6, AfterMark, Zenon DEF Keeps, Stages
      <4>3. B'
        BY <3>3, <4>1, Zenon
      <4> QED
        BY <3>2, <4>2, <4>3, Zenon
    <3>7. CASE LoadCode(t)
      BY <3>1, <3>2, <3>3, <3>7, AfterLoad, Zenon DEF Keeps, Stages
    <3>8. CASE ClearModule(t)
      BY <3>1, <3>2, <3>3, <3>8, AfterClear, ZenonT(30) DEF Keeps, Stages
    <3>9. CASE ParseEntry(t)
      <4>1. PICK f \in worker[t].todo :
                /\ worker'[t].diags = worker[t].diags \cup Report(f, worker[t].code[f])
                /\ IF worker[t].todo \ {f} = {}
                   THEN /\ worker'[t].pc = "imports"
                        /\ worker'[t].todo = Reach[worker[t].w] \ Entries[worker[t].w]
                   ELSE /\ worker'[t].pc = "entries"
                        /\ worker'[t].todo = worker[t].todo \ {f}
        BY <3>9, AfterEntry, Zenon
      <4>2. worker[t].pc = "entries" /\ Keeps(t) /\ db' = db
        BY <3>9, AfterEntry, Zenon
      <4>3. f \in Reach[worker[t].w]
        BY <3>1, <4>1, <4>2, ReachType, Zenon DEF Keeps, Stages
      <4> QED
        BY <3>1, <3>2, <3>3, <3>4, <4>1, <4>2, <4>3, ZenonT(30) DEF Keeps, Stages
    <3>10. CASE VisitImport(t)
      <4>1. PICK f \in worker[t].todo :
                /\ worker'[t].todo = worker[t].todo \ {f}
                /\ worker'[t].pc = "imports" \/ (worker'[t].pc = "parse" /\ worker'[t].parsing = f)
        BY <3>10, AfterVisit, ZenonT(30)
      <4>2. worker[t].pc = "imports" /\ Keeps(t) /\ db' = db /\ worker'[t].diags = worker[t].diags
        BY <3>10, AfterVisit, Zenon
      <4> QED
        BY <3>1, <3>2, <3>3, <4>1, <4>2, Zenon DEF Keeps, Stages
    <3>11. CASE InsertModule(t)
      BY <3>1, <3>2, <3>3, <3>4, <3>11, AfterInsert DEF Keeps, Stages
    <3>12. CASE ImportsDone(t)
      BY <3>1, <3>2, <3>3, <3>12, AfterImports, Zenon DEF Keeps, Stages
    <3>13. CASE CompileFails(t)
      <4>1. worker[t].pc \in Stages
        BY <3>13, AfterFail, FailAtAssumption, Zenon DEF Stages
      <4> QED
        BY <3>1, <3>2, <3>3, <3>13, <4>1, AfterFail DEF Keeps
    <3>14. CASE Collect(t)
      <4>1. /\ worker[t].pc = "collect" /\ db' = db /\ Keeps(t) /\ worker'[t].diags = worker[t].diags
            /\ \/ worker'[t].pc = "collect"
               \/ /\ worker'[t].pc = "publish"
                  /\ worker'[t].todo = {d[1] : d \in worker[t].old \cup worker[t].diags}
        BY <3>14, AfterCollect, Zenon
      <4> QED
        BY <3>1, <3>2, <3>3, <4>1, ZenonT(30) DEF Keeps, Stages
    <3>15. CASE Publish(t)
      BY <3>1, <3>2, <3>3, <3>15, AfterPublish, Zenon DEF Keeps, Stages
    <3>16. CASE Store(t)
      BY <3>1, <3>2, <3>3, <3>16, AfterStore DEF Stages
    <3>17. CASE Replace(t)
      BY <3>2, <3>3, <3>17, AfterReplace, Zenon DEF Stages
    <3>18. CASE CollectPanics(t)
      BY <3>2, <3>3, <3>18, AfterPanic, Zenon DEF Stages
    <3> QED
      BY <2>2, <3>5, <3>6, <3>7, <3>8, <3>9, <3>10, <3>11, <3>12, <3>13, <3>14, <3>15, <3>16, <3>17, <3>18, ZenonT(30)
         DEF CompileStep
  <2> QED
    BY <2>1, <2>2, Zenon DEF Next, Edit, Close, vars
<1> QED
  BY <1>1, <1>2, TypeCorrect, PTL DEF Spec

-----------------------------------------------------------------------------
(* What has been read from the client is up to date, or is read again. *)

(* A compile leaves the steps before the clear by clearing or by failing. *)
LEMMA BeforeClear ==
    ASSUME TypeOK, NEW t \in Threads, CompileStep(t), worker[t].pc \in {"mark", "load", "clear"}
    PROVE  Mark(t) \/ LoadCode(t) \/ ClearModule(t) \/ (CompileFails(t) /\ worker[t].pc = "clear")
<1>1. CASE ReadOldDiags(t)
  BY <1>1, AfterRead, Zenon
<1>2. CASE ParseEntry(t)
  BY <1>2, AfterEntry, Zenon
<1>3. CASE VisitImport(t)
  BY <1>3, AfterVisit, Zenon
<1>4. CASE InsertModule(t)
  BY <1>4, AfterInsert, Zenon
<1>5. CASE ImportsDone(t)
  BY <1>5, AfterImports, Zenon
<1>6. CASE CompileFails(t)
  BY <1>6, AfterFail, FailAtAssumption, Zenon
<1>7. CASE Collect(t) \/ CollectPanics(t)
  BY <1>7, AfterCollect, AfterPanic, Zenon
<1>8. CASE Publish(t) \/ Store(t) \/ Replace(t)
  BY <1>8, AfterPublish, AfterStore, AfterReplace, Zenon
<1> QED
  BY <1>1, <1>2, <1>3, <1>4, <1>5, <1>6, <1>7, <1>8, Zenon DEF CompileStep

(* The compiles that are to clear a file remain until one of them clears it. *)
LEMMA ToClearKept ==
    ASSUME TypeOK, NEW t \in Threads, CompileStep(t), NEW f \in Files, f \notin suspect', NEW T,
           AllToClear(f, T), ReadOldDiags(t) => t \notin T,
           ClearModule(t) /\ worker[t].file = f => t \in T
    PROVE  AllToClear(f, T)'
<1> SUFFICES ASSUME NEW w \in Workspaces, f \in Reach[w]
             PROVE  Queued(w, f)' \/ \E u \in ToClear' \ T : worker'[u].w = w /\ worker'[u].file = f
  BY Zenon DEF AllToClear
<1>1. CASE Queued(w, f)
  <2>1. CASE ReadOldDiags(t)
    <3>1. t \in ToClear' \ T
      BY <2>1, AfterRead, Zenon DEF ToClear, Active
    <3> QED
      BY <1>1, <2>1, <3>1, ReadKeeps, Zenon
  <2>2. CASE ~ReadOldDiags(t)
    BY <1>1, <2>2, StepKeeps, Zenon
  <2> QED
    BY <2>1, <2>2, Zenon
<1>2. CASE ~Queued(w, f)
  <2>1. PICK u \in ToClear \ T : worker[u].w = w /\ worker[u].file = f
    BY <1>2, Zenon DEF AllToClear
  <2>2. CASE u /= t
    <3>1. worker'[u] = worker[u] /\ u \in ToClear'
      BY <2>1, <2>2, StepFrame, Zenon DEF ToClear, Active
    <3> QED
      BY <2>1, <3>1, Zenon
  <2>3. CASE u = t
    <3>1. worker[t].pc \in {"mark", "load", "clear"} /\ t \notin T /\ worker[t].w = w /\ worker[t].file = f
      BY <2>1, <2>3, Zenon DEF ToClear
    <3>2. ~ClearModule(t)
      BY <3>1, Zenon
    <3>3. ~(CompileFails(t) /\ worker[t].pc = "clear")
      BY <3>1, AfterFail
    <3>4. Mark(t) \/ LoadCode(t)
      BY <3>1, <3>2, <3>3, BeforeClear, Zenon
    <3>5. worker'[t].pc \in {"load", "clear"} /\ Keeps(t)
      BY <3>4, AfterMark, AfterLoad, Zenon
    <3>6. t \in ToClear'
      BY <3>5, Zenon DEF ToClear, Active
    <3> QED
      BY <3>1, <3>5, <3>6, Zenon DEF Keeps
  <2> QED
    BY <2>2, <2>3, Zenon
<1> QED
  BY <1>1, <1>2, Zenon

(* What the thread that takes the step is to clear does not count for the    *)
(* job of that thread, and counts for nothing once it has cleared it.        *)
LEMMA ToClearOthers ==
    ASSUME NEW t \in Threads, NEW f \in Files
    PROVE  /\ AllToClear(f, {t}) => AllToClear(f, {})
           /\ t \notin ToClear => (AllToClear(f, {}) => AllToClear(f, {t}))
BY Zenon DEF AllToClear

(* A compile keeps the module cache up to date. *)
LEMMA CacheStep ==
    ASSUME TypeOK, TypeOK', DiagsOfProgram, Current, NEW t \in Threads, CompileStep(t),
           NEW g \in open, g \notin suspect'
    PROVE  CacheUpToDate(g)'
<1>1. g \in Files /\ g \in open \ suspect /\ vfs' = vfs
  BY StepKeeps DEF TypeOK
<1>2. ASSUME ReadOldDiags(t) \/ ~(ClearModule(t) /\ worker[t].file = g), AllToClear(g, {})
      PROVE  CacheUpToDate(g)'
  <2>1. ClearModule(t) /\ worker[t].file = g => t \in {}
    BY <1>2, AfterRead, AfterClear, Zenon
  <2>2. AllToClear(g, {})'
    BY <1>1, <1>2, <2>1, ToClearKept, Zenon
  <2> QED
    BY <2>2, Zenon DEF CacheUpToDate
<1>3. CASE ClearModule(t) /\ worker[t].file = g
  <2>0. /\ ast_cache' = [ast_cache EXCEPT ![g] = None]
        /\ source_code' = [source_code EXCEPT ![g] = Contents(g)]
    BY <1>3, AfterClear, Zenon
  <2>1. ast_cache'[g] = None /\ source_code'[g] = vfs[g]
    BY <1>1, <2>0, Zenon DEF TypeOK, Contents
  <2>2. vfs[g] /= None
    BY <1>1, NoneAssumption, BoundsAssumption DEF TypeOK, Versions
  <2> QED
    BY <1>1, <2>1, <2>2, Zenon DEF CacheUpToDate
<1>4. CASE ~(ClearModule(t) /\ worker[t].file = g)
  <2>1. CASE AllToClear(g, {})
    BY <1>2, <1>4, <2>1, Zenon
  <2>2. CASE ~AllToClear(g, {})
    <3>1. /\ ast_cache[g] \in {None, vfs[g]}
          /\ (IF source_code[g] /= None THEN source_code[g] ELSE 0) = vfs[g]
      BY <1>1, <2>2, Zenon DEF Current, CacheUpToDate
    <3>2. ASSUME source_code'[g] = source_code[g], ast_cache'[g] \in {ast_cache[g], vfs[g]}
          PROVE  CacheUpToDate(g)'
      BY <1>1, <3>1, <3>2, Zenon DEF CacheUpToDate
    <3>3. ASSUME NEW j \in {worker[t]}, t \in Reading, g \in Reach[j.w] PROVE HasLatest(j, g)
      BY <1>1, <2>2, <3>3, ToClearOthers, Zenon DEF Current, JobUpToDate
    <3>4. CASE ClearModule(t)
      <4>1. /\ ast_cache' = [ast_cache EXCEPT ![worker[t].file] = None]
            /\ source_code' = [source_code EXCEPT ![worker[t].file] = Contents(worker[t].file)]
        BY <3>4, AfterClear, Zenon
      <4>2. ast_cache'[g] = ast_cache[g] /\ source_code'[g] = source_code[g]
        BY <1>1, <1>4, <3>4, <4>1, Zenon DEF TypeOK
      <4> QED
        BY <3>2, <4>2, Zenon
    <3>5. CASE ParseEntry(t)
      <4>1. PICK f \in worker[t].todo : ast_cache' = [ast_cache EXCEPT ![f] = worker[t].code[f]]
        BY <3>5, AfterEntry, Zenon
      <4>2. worker[t].pc = "entries" /\ Keeps(t) /\ source_code' = source_code
        BY <3>5, AfterEntry, Zenon
      <4>3. t \in Reading
        BY <4>2, Zenon DEF Reading, Active
      <4>4. f \in Entries[worker[t].w] /\ f \in Reach[worker[t].w]
        BY <4>1, <4>2, <4>3, ReachType, Zenon DEF DiagsOfProgram, Keeps, Reading
      <4>5. f = g => worker[t].code[f] = vfs[g]
        BY <3>3, <4>3, <4>4, Zenon DEF HasLatest
      <4>6. ast_cache'[g] \in {ast_cache[g], vfs[g]}
        BY <1>1, <4>1, <4>5, Zenon DEF TypeOK
      <4> QED
        BY <3>2, <4>2, <4>6, Zenon
    <3>6. CASE InsertModule(t)
      <4>1. /\ worker[t].pc = "parse" /\ Keeps(t) /\ source_code' = source_code
            /\ ast_cache' = [ast_cache EXCEPT ![worker[t].parsing] = worker[t].src]
        BY <3>6, AfterInsert, Zenon
      <4>2. t \in Reading
        BY <4>1, Zenon DEF Reading, Active
      <4>3. worker[t].parsing \in Reach[worker[t].w]
        BY <4>1, <4>2, Zenon DEF DiagsOfProgram, Reading
      <4>4. worker[t].parsing = g => worker[t].src = vfs[g]
        BY <3>3, <4>1, <4>2, <4>3, Zenon DEF HasLatest
      <4>5. ast_cache'[g] \in {ast_cache[g], vfs[g]}
        BY <1>1, <4>1, <4>4, Zenon DEF TypeOK
      <4> QED
        BY <3>2, <4>1, <4>5, Zenon
    <3>7. CASE ~ClearModule(t) /\ ~ParseEntry(t) /\ ~InsertModule(t)
      <4>1. ast_cache' = ast_cache /\ source_code' = source_code
        BY <3>7, Zenon DEF CompileStep, ReadOldDiags, Mark, LoadCode, VisitImport, ImportsDone, CompileFails,
           Collect, CollectPanics, Publish, Store, StoreWith, Replace, cacheVars
      <4> QED
        BY <3>2, <4>1, Zenon
    <3> QED
      BY <3>4, <3>5, <3>6, <3>7, Zenon
  <2> QED
    BY <2>1, <2>2, Zenon
<1> QED
  BY <1>3, <1>4, Zenon

(* A compile keeps the other jobs up to date: when it clears a file that     *)
(* another job has read, that file is suspect.                               *)
LEMMA OthersStep ==
    ASSUME TypeOK, Current, NEW t \in Threads, CompileStep(t),
           NEW g \in open, g \notin suspect', NEW u \in Threads \ {t}, u \in Reading', g \in Reach[worker'[u].w]
    PROVE  JobUpToDate(u, g)'
<1>1. g \in Files /\ g \in open \ suspect /\ vfs' = vfs
  BY StepKeeps DEF TypeOK
<1>2. worker'[u] = worker[u] /\ u \in Reading
  BY StepFrame, Zenon DEF Reading, Active
<1>3. CASE AllToClear(g, {u})
  <2>1. ~(ClearModule(t) /\ worker[t].file = g)
    <3> SUFFICES ASSUME ClearModule(t), worker[t].file = g PROVE FALSE
      BY Zenon
    <3>1. u \in Disturbed(t, worker[t].file)
      BY <1>2, Zenon DEF Disturbed
    <3> QED
      BY <3>1, AfterClear
  <2>2. AllToClear(g, {u})'
    BY <1>1, <1>3, <2>1, ToClearKept, Zenon
  <2> QED
    BY <2>2, Zenon DEF JobUpToDate
<1>4. CASE HasLatest(worker[u], g)
  BY <1>1, <1>2, <1>4, Zenon DEF JobUpToDate, HasLatest
<1> QED
  BY <1>1, <1>2, <1>3, <1>4, Zenon DEF Current, JobUpToDate

(* A compile keeps its own job up to date. *)
LEMMA OwnStep ==
    ASSUME TypeOK, TypeOK', DiagsOfProgram, TreesKept, Current, NEW t \in Threads, CompileStep(t),
           NEW g \in open, g \notin suspect', t \in Reading', g \in Reach[worker'[t].w]
    PROVE  JobUpToDate(t, g)'
<1>1. g \in Files /\ g \in open \ suspect /\ vfs' = vfs
  BY StepKeeps DEF TypeOK
<1>2. ASSUME AllToClear(g, {t}), ~ReadOldDiags(t) PROVE JobUpToDate(t, g)'
  <2>1. AllToClear(g, {t})'
    BY <1>1, <1>2, ToClearKept, Zenon
  <2> QED
    BY <2>1, Zenon DEF JobUpToDate
<1>3. ASSUME /\ g \in Entries[worker'[t].w] => worker'[t].code[g] = vfs[g]
             /\ worker'[t].pc = "parse" /\ worker'[t].parsing = g => worker'[t].src = vfs[g]
             /\ worker'[t].pc = "collect" /\ g \notin worker'[t].todo => worker'[t].modules[g] = vfs[g]
             /\ worker'[t].pc = "publish" /\ worker'[t].ok => worker'[t].modules[g] = vfs[g]
      PROVE  JobUpToDate(t, g)'
  BY <1>1, <1>3, Zenon DEF JobUpToDate, HasLatest
<1>4. ASSUME t \in Reading, g \in Reach[worker[t].w]
      PROVE  AllToClear(g, {t}) \/ HasLatest(worker[t], g)
  BY <1>1, <1>4, Zenon DEF Current, JobUpToDate
<1>5. ASSUME t \notin ToClear
      PROVE  \/ AllToClear(g, {t})
             \/ /\ ast_cache[g] \in {None, vfs[g]}
                /\ (IF source_code[g] /= None THEN source_code[g] ELSE 0) = vfs[g]
  BY <1>1, <1>5, ToClearOthers, Zenon DEF Current, CacheUpToDate
<1>6. CASE ReadOldDiags(t) \/ Mark(t) \/ CollectPanics(t) \/ Store(t) \/ Replace(t)
  <2>1. worker'[t].pc \in {"idle", "panicked", "mark", "load"}
    BY <1>6, AfterRead, AfterMark, AfterPanic, AfterStore, AfterReplace, Zenon
  <2> QED
    BY <2>1, Zenon DEF Reading, Active
<1>7. CASE LoadCode(t)
  <2>1. /\ worker'[t].pc = "clear" /\ Keeps(t)
        /\ \A f \in Entries[worker[t].w] : worker'[t].code[f] = Contents(f)
    BY <1>7, AfterLoad, Zenon
  <2> QED
    BY <1>3, <2>1, Zenon DEF Keeps, Contents
<1>8. CASE ClearModule(t) \/ ParseEntry(t) \/ InsertModule(t)
  <2>1. /\ worker[t].pc \in {"clear", "entries", "parse"} /\ worker'[t].pc \in {"entries", "imports"} /\ Keeps(t)
        /\ worker'[t].code = worker[t].code /\ ~ReadOldDiags(t)
    BY <1>8, AfterClear, AfterEntry, AfterInsert, AfterRead, Zenon
  <2>2. t \in Reading /\ worker'[t].w = worker[t].w
    BY <2>1, Zenon DEF Reading, Active, Keeps
  <2> QED
    BY <1>2, <1>3, <1>4, <2>1, <2>2, Zenon DEF HasLatest
<1>9. CASE VisitImport(t)
  <2>1. worker[t].pc = "imports" /\ Keeps(t) /\ worker'[t].code = worker[t].code /\ ~ReadOldDiags(t)
    BY <1>9, AfterVisit, AfterRead, Zenon
  <2>2. PICK f \in worker[t].todo :
          \/ worker'[t].pc = "imports"
          \/ /\ worker'[t].pc = "parse" /\ worker'[t].parsing = f
             /\ worker'[t].src = IF source_code[f] /= None THEN source_code[f] ELSE 0
    BY <1>9, AfterVisit, Zenon
  <2>3. t \in Reading /\ t \notin ToClear /\ worker'[t].w = worker[t].w
    BY <2>1, Zenon DEF Reading, Active, ToClear, Keeps
  <2>4. CASE AllToClear(g, {t})
    BY <1>2, <2>1, <2>4, Zenon
  <2>5. CASE ~AllToClear(g, {t})
    <3>1. g \in Entries[worker'[t].w] => worker'[t].code[g] = vfs[g]
      BY <1>4, <2>1, <2>3, <2>5, Zenon DEF HasLatest
    <3>2. worker'[t].pc = "parse" /\ worker'[t].parsing = g => worker'[t].src = vfs[g]
      BY <1>5, <2>2, <2>3, <2>5, Zenon
    <3> QED
      BY <1>3, <2>2, <3>1, <3>2, Zenon
  <2> QED
    BY <2>4, <2>5, Zenon
<1>10. CASE ImportsDone(t)
  <2>1. /\ worker[t].pc = "imports" /\ worker'[t].pc = "collect" /\ Keeps(t)
        /\ worker'[t].code = worker[t].code /\ worker'[t].todo = Reach[worker[t].w] /\ ~ReadOldDiags(t)
    BY <1>10, AfterImports, AfterRead, Zenon
  <2>2. t \in Reading /\ worker'[t].w = worker[t].w
    BY <2>1, Zenon DEF Reading, Active, Keeps
  <2> QED
    BY <1>2, <1>3, <1>4, <2>1, <2>2, Zenon DEF HasLatest
<1>11. CASE CompileFails(t)
  <2>1. /\ worker[t].pc \in FailAt /\ worker'[t].pc = "publish" /\ ~worker'[t].ok /\ Keeps(t)
        /\ worker'[t].code = worker[t].code
    BY <1>11, AfterFail, Zenon
  <2>2. t \in Reading /\ worker'[t].w = worker[t].w /\ ~ReadOldDiags(t)
    BY <2>1, FailAtAssumption, AfterRead, Zenon DEF Reading, Active, Keeps
  <2> QED
    BY <1>2, <1>3, <1>4, <2>1, <2>2, Zenon DEF HasLatest
<1>12. CASE Collect(t)
  <2>1. worker[t].pc = "collect" /\ Keeps(t) /\ worker'[t].code = worker[t].code /\ ~ReadOldDiags(t)
    BY <1>12, AfterCollect, AfterRead, Zenon
  <2>2. PICK f \in worker[t].todo :
          /\ ast_cache[f] /= None
          /\ worker'[t].modules = [worker[t].modules EXCEPT ![f] = ast_cache[f]]
          /\ \/ worker[t].todo \ {f} = {} /\ worker'[t].pc = "publish"
             \/ worker'[t].pc = "collect" /\ worker'[t].todo = worker[t].todo \ {f}
    BY <1>12, AfterCollect, Zenon
  <2>3. t \in Reading /\ t \notin ToClear /\ worker'[t].w = worker[t].w
    BY <2>1, Zenon DEF Reading, Active, ToClear, Keeps
  <2>4. worker'[t].modules[g] = IF g = f THEN ast_cache[g] ELSE worker[t].modules[g]
    <3>1. worker[t].modules \in [Files -> Versions \cup {None}]
      BY <2>1, JobType, Zenon DEF JobOf, Stages
    <3> QED
      BY <1>1, <2>2, <3>1, Zenon
  <2>5. CASE AllToClear(g, {t})
    BY <1>2, <2>1, <2>5, Zenon
  <2>6. CASE ~AllToClear(g, {t})
    <3>1. HasLatest(worker[t], g)
      BY <1>4, <2>3, <2>6, Zenon
    <3>2. g \in Entries[worker'[t].w] => worker'[t].code[g] = vfs[g]
      BY <2>1, <2>3, <3>1, Zenon DEF HasLatest
    <3>3. g = f \/ g \notin worker[t].todo => worker'[t].modules[g] = vfs[g]
      <4>1. CASE g = f
        BY <1>5, <2>2, <2>3, <2>4, <2>6, <4>1, Zenon
      <4>2. CASE g /= f
        BY <2>1, <2>4, <3>1, <4>2, Zenon DEF HasLatest
      <4> QED
        BY <4>1, <4>2, Zenon
    <3> QED
      BY <1>3, <2>2, <3>2, <3>3, Zenon
  <2> QED
    BY <2>5, <2>6, Zenon
<1>13. CASE Publish(t)
  <2>1. /\ worker[t].pc = "publish" /\ worker'[t].pc = "publish" /\ Keeps(t) /\ ~ReadOldDiags(t)
        /\ worker'[t].code = worker[t].code /\ worker'[t].modules = worker[t].modules
        /\ worker'[t].ok = worker[t].ok
    BY <1>13, AfterPublish, AfterRead, Zenon
  <2>2. t \in Reading /\ worker'[t].w = worker[t].w
    BY <2>1, Zenon DEF Reading, Active, Keeps
  <2> QED
    BY <1>2, <1>3, <1>4, <2>1, <2>2, Zenon DEF HasLatest
<1> QED
  BY <1>6, <1>7, <1>8, <1>9, <1>10, <1>11, <1>12, <1>13, Zenon DEF CompileStep

(* What a database does not have of a file stays under way until the compile *)
(* that brings it ends.                                                      *)
LEMMA UnderWay ==
    ASSUME TypeOK, NEW t \in Threads, CompileStep(t), NEW g \in Files, g \notin suspect', NEW w \in Workspaces,
           Queued(w, g) \/ \E u \in Active : worker[u].w = w /\ worker[u].file = g,
           Store(t) => worker[t].w /= w
    PROVE  Queued(w, g)' \/ \E u \in Active' : worker'[u].w = w /\ worker'[u].file = g
<1>1. CASE Queued(w, g)
  <2>1. CASE ReadOldDiags(t)
    <3>1. t \in Active'
      BY <2>1, AfterRead, Zenon DEF Active
    <3> QED
      BY <1>1, <2>1, <3>1, ReadKeeps, Zenon
  <2>2. CASE ~ReadOldDiags(t)
    BY <1>1, <2>2, StepKeeps, Zenon
  <2> QED
    BY <2>1, <2>2, Zenon
<1>2. ASSUME NEW u \in Active, worker[u].w = w, worker[u].file = g
      PROVE  \E v \in Active' : worker'[v].w = w /\ worker'[v].file = g
  <2>1. CASE u /= t
    <3>1. worker'[u] = worker[u] /\ u \in Active'
      BY <2>1, StepFrame, Zenon DEF Active
    <3> QED
      BY <1>2, <3>1, Zenon
  <2>2. CASE u = t
    <3>1. ~ReadOldDiags(t) /\ ~Replace(t)
      BY <2>2, AfterRead, AfterReplace, Zenon DEF Active
    <3>2. ~CollectPanics(t)
      BY <1>2, <2>2, AfterPanic
    <3>3. ~Store(t)
      BY <1>2, <2>2, Zenon
    <3>4. Keeps(t)
      BY <3>1, <3>2, <3>3, AfterMark, AfterLoad, AfterClear, AfterEntry, AfterVisit, AfterInsert, AfterImports,
         AfterFail, AfterCollect, AfterPublish, Zenon DEF CompileStep
    <3>5. worker'[t].pc \notin {"idle", "panicked"}
      <4>1. CASE ParseEntry(t)
        BY <4>1, AfterEntry, Zenon
      <4>2. CASE VisitImport(t)
        BY <4>2, AfterVisit, Zenon
      <4>3. CASE Collect(t)
        BY <4>3, AfterCollect, Zenon
      <4>4. CASE Mark(t) \/ LoadCode(t) \/ ClearModule(t)
        BY <4>4, AfterMark, AfterLoad, AfterClear, Zenon
      <4>5. CASE InsertModule(t) \/ ImportsDone(t) \/ CompileFails(t) \/ Publish(t)
        BY <4>5, AfterInsert, AfterImports, AfterFail, AfterPublish, Zenon
      <4> QED
        BY <3>1, <3>2, <3>3, <4>1, <4>2, <4>3, <4>4, <4>5, Zenon DEF CompileStep
    <3>6. t \in Active'
      BY <3>5, Zenon DEF Active
    <3> QED
      BY <1>2, <2>2, <3>4, <3>6, Zenon DEF Keeps
  <2> QED
    BY <2>1, <2>2, Zenon
<1> QED
  BY <1>1, <1>2, Zenon

(* A compile keeps the databases up to date. *)
LEMMA DbStep ==
    ASSUME TypeOK, Current, NEW t \in Threads, CompileStep(t),
           NEW g \in open, g \notin suspect', NEW w \in Workspaces, db'[w].state = "Ready", g \in Reach[w]
    PROVE  DbUpToDate(w, g)'
<1>1. g \in Files /\ g \in open \ suspect /\ vfs' = vfs
  BY StepKeeps DEF TypeOK
<1>2. CASE Store(t) /\ worker[t].w = w
  <2>1. worker[t].ok /\ db'[w].modules = worker[t].modules /\ worker[t].pc = "publish" /\ ~ReadOldDiags(t)
    BY <1>2, AfterStore, AfterRead, Zenon
  <2>2. t \in Reading
    BY <2>1, Zenon DEF Reading, Active
  <2>3. CASE AllToClear(g, {t})
    <3>1. CASE Queued(w, g)
      BY <2>1, <3>1, StepKeeps, Zenon DEF DbUpToDate
    <3>2. CASE ~Queued(w, g)
      <4>1. PICK u \in ToClear \ {t} : worker[u].w = w /\ worker[u].file = g
        BY <2>3, <3>2, Zenon DEF AllToClear
      <4>2. worker'[u] = worker[u] /\ u \in Active'
        BY <4>1, StepFrame, Zenon DEF ToClear, Active
      <4> QED
        BY <4>1, <4>2, Zenon DEF DbUpToDate
    <3> QED
      BY <3>1, <3>2, Zenon
  <2>4. CASE HasLatest(worker[t], g)
    BY <1>1, <2>1, <2>4, Zenon DEF HasLatest, DbUpToDate
  <2> QED
    BY <1>1, <1>2, <2>2, <2>3, <2>4, Zenon DEF Current, JobUpToDate
<1>3. CASE ~(Store(t) /\ worker[t].w = w)
  <2>1. db[w].state = "Ready" /\ db'[w].modules = db[w].modules
    <3>1. CASE Store(t)
      BY <1>3, <3>1, AfterStore, Zenon
    <3>2. CASE Mark(t)
      BY <3>2, AfterMark, Zenon
    <3>3. CASE ~Store(t) /\ ~Mark(t)
      <4>1. db' = db
        BY <3>3, Zenon DEF CompileStep, ReadOldDiags, LoadCode, ClearModule, ClearWith, ParseEntry, VisitImport,
           InsertModule, ImportsDone, CompileFails, Collect, CollectPanics, Publish, Replace
      <4> QED
        BY <4>1, Zenon
    <3> QED
      BY <3>1, <3>2, <3>3, Zenon
  <2>2. CASE db[w].modules[g] = vfs[g]
    BY <1>1, <2>1, <2>2, Zenon DEF DbUpToDate
  <2>3. CASE db[w].modules[g] /= vfs[g]
    <3>1. Queued(w, g) \/ \E u \in Active : worker[u].w = w /\ worker[u].file = g
      BY <1>1, <2>1, <2>3, Zenon DEF Current, DbUpToDate
    <3>2. Queued(w, g)' \/ \E u \in Active' : worker'[u].w = w /\ worker'[u].file = g
      <4>1. Store(t) => worker[t].w /= w
        BY <1>3, Zenon
      <4> QED
        BY <1>1, <3>1, <4>1, UnderWay
    <3> QED
      BY <3>2, Zenon DEF DbUpToDate
  <2> QED
    BY <2>2, <2>3, Zenon
<1> QED
  BY <1>2, <1>3, Zenon

(* An edit and a close keep Current: the compiles of every workspace of an   *)
(* edited file are queued.                                                   *)
LEMMA CurrentEdit ==
    ASSUME TypeOK, Current, NEW g \in Files, Edit(g)
    PROVE  Current'
<1>1. /\ ast_cache' = ast_cache /\ source_code' = source_code /\ worker' = worker /\ db' = db
      /\ open' = open /\ suspect' = suspect \ {g}
  BY Zenon DEF Edit, cacheVars
<1>2. Active' = Active /\ ToClear' = ToClear /\ Reading' = Reading
  BY <1>1, Zenon DEF Active, ToClear, Reading
<1> SUFFICES ASSUME NEW f \in open \ suspect'
             PROVE  /\ CacheUpToDate(f)'
                    /\ \A t \in Reading : f \in Reach[worker[t].w] => JobUpToDate(t, f)'
                    /\ \A w \in Workspaces : db[w].state = "Ready" /\ f \in Reach[w] => DbUpToDate(w, f)'
  BY <1>1, <1>2, Zenon DEF Current
<1>3. f \in Files
  BY Zenon DEF TypeOK
<1>4. CASE f = g
  <2>1. \A w \in Workspaces : f \in Reach[w] => Queued(w, f)'
    BY <1>4, EditKeeps, Zenon
  <2>2. \A T : AllToClear(f, T)'
    BY <2>1, Zenon DEF AllToClear
  <2> QED
    BY <2>1, <2>2, Zenon DEF CacheUpToDate, JobUpToDate, DbUpToDate
<1>5. CASE f /= g
  <2>1. vfs'[f] = vfs[f] /\ f \in open \ suspect /\ \A w \in Workspaces : Queued(w, f) => Queued(w, f)'
    BY <1>1, <1>3, <1>5, EditKeeps
  <2>2. \A T : AllToClear(f, T) => AllToClear(f, T)'
    BY <1>1, <1>2, <2>1, Zenon DEF AllToClear
  <2>3. CacheUpToDate(f)'
    BY <1>1, <2>1, <2>2, Zenon DEF Current, CacheUpToDate
  <2>4. ASSUME NEW t \in Reading, f \in Reach[worker[t].w] PROVE JobUpToDate(t, f)'
    BY <1>1, <2>1, <2>2, <2>4, Zenon DEF Current, JobUpToDate, HasLatest
  <2>5. ASSUME NEW w \in Workspaces, db[w].state = "Ready", f \in Reach[w] PROVE DbUpToDate(w, f)'
    <3>1. DbUpToDate(w, f)
      BY <2>1, <2>5, Zenon DEF Current
    <3> QED
      BY <1>1, <1>2, <2>1, <3>1 DEF DbUpToDate
  <2> QED
    BY <2>3, <2>4, <2>5, Zenon
<1> QED
  BY <1>4, <1>5, Zenon

LEMMA CurrentClose ==
    ASSUME TypeOK, Current, NEW g \in Files, Close(g)
    PROVE  Current'
<1>1. /\ ast_cache' = ast_cache /\ source_code' = source_code /\ worker' = worker /\ db' = db
      /\ open' = open \ {g} /\ suspect' = suspect /\ poolq' = poolq
      /\ \A f \in Files \ {g} : vfs'[f] = vfs[f]
  BY Zenon DEF Close, cacheVars, history, TypeOK
<1>2. Active' = Active /\ ToClear' = ToClear /\ Reading' = Reading /\ \A w, f : Queued(w, f)' <=> Queued(w, f)
  BY <1>1, Zenon DEF Active, ToClear, Reading, Queued
<1> SUFFICES ASSUME NEW f \in open' \ suspect
             PROVE  /\ CacheUpToDate(f)'
                    /\ \A t \in Reading : f \in Reach[worker[t].w] => JobUpToDate(t, f)'
                    /\ \A w \in Workspaces : db[w].state = "Ready" /\ f \in Reach[w] => DbUpToDate(w, f)'
  BY <1>1, <1>2, Zenon DEF Current
<1>3. vfs'[f] = vfs[f] /\ f \in open \ suspect
  BY <1>1 DEF TypeOK
<1>4. \A T : AllToClear(f, T) <=> AllToClear(f, T)'
  BY <1>1, <1>2 DEF AllToClear
<1>5. CacheUpToDate(f)'
  BY <1>1, <1>3, <1>4, Zenon DEF Current, CacheUpToDate
<1>6. ASSUME NEW t \in Reading, f \in Reach[worker[t].w] PROVE JobUpToDate(t, f)'
  BY <1>1, <1>3, <1>4, <1>6, Zenon DEF Current, JobUpToDate, HasLatest
<1>7. ASSUME NEW w \in Workspaces, db[w].state = "Ready", f \in Reach[w] PROVE DbUpToDate(w, f)'
  BY <1>1, <1>2, <1>3, <1>7, Zenon DEF Current, DbUpToDate
<1> QED
  BY <1>5, <1>6, <1>7, Zenon

(* However compiles overlap, fail and panic and whatever files are closed,   *)
(* what the module cache, the compiles and the databases hold of an open     *)
(* file is the client's, or compiles that correct it are on their way:       *)
(* every edit queues a compile of each workspace of the file, and each of    *)
(* them clears the file. The exception is a file that such a compile cleared *)
(* under a compile that had read it, or did not get to clear or to store.    *)
THEOREM StaysCurrent == Spec => []Current
<1>1. Init => Current
  <2> SUFFICES ASSUME Init, NEW f \in open
               PROVE  /\ CacheUpToDate(f)
                      /\ \A t \in Reading : f \in Reach[worker[t].w] => JobUpToDate(t, f)
                      /\ \A w \in Workspaces : db[w].state = "Ready" /\ f \in Reach[w] => DbUpToDate(w, f)
    BY Zenon DEF Current
  <2>0. f \in Files
    BY Zenon DEF Init
  <2>1. CacheUpToDate(f)
    BY <2>0, NoneAssumption, Zenon DEF Init, CacheUpToDate, NoModules
  <2>2. Reading = {}
    BY Zenon DEF Init, Reading, Active, Idle
  <2>3. ASSUME NEW w \in Workspaces, f \in Reach[w] PROVE DbUpToDate(w, f)
    BY <2>0, <2>3, Zenon DEF Init, DbUpToDate
  <2> QED
    BY <2>1, <2>2, <2>3, Zenon
<1>2. TypeOK /\ TypeOK' /\ TreesKept /\ DiagsOfProgram /\ Current /\ [Next]_vars => Current'
  <2> SUFFICES ASSUME TypeOK, TypeOK', TreesKept, DiagsOfProgram, Current, [Next]_vars PROVE Current'
    BY Zenon
  <2>1. ASSUME NEW t \in Threads, CompileStep(t) PROVE Current'
    <3> SUFFICES ASSUME NEW f \in open' \ suspect'
                 PROVE  /\ CacheUpToDate(f)'
                        /\ \A u \in Reading' : f \in Reach[worker'[u].w] => JobUpToDate(u, f)'
                        /\ \A w \in Workspaces : db'[w].state = "Ready" /\ f \in Reach[w] => DbUpToDate(w, f)'
      BY Zenon DEF Current
    <3>1. f \in open /\ f \notin suspect'
      BY <2>1, StepKeeps, Zenon
    <3>2. CacheUpToDate(f)'
      BY <2>1, <3>1, CacheStep, Zenon
    <3>3. ASSUME NEW u \in Reading', f \in Reach[worker'[u].w] PROVE JobUpToDate(u, f)'
      <4>1. u \in Threads
        BY Zenon DEF Reading, Active
      <4>2. CASE u = t
        BY <2>1, <3>1, <3>3, <4>2, OwnStep, Zenon
      <4>3. CASE u /= t
        BY <2>1, <3>1, <3>3, <4>1, <4>3, OthersStep, Zenon
      <4> QED
        BY <4>2, <4>3, Zenon
    <3>4. ASSUME NEW w \in Workspaces, db'[w].state = "Ready", f \in Reach[w] PROVE DbUpToDate(w, f)'
      BY <2>1, <3>1, <3>4, DbStep, Zenon
    <3> QED
      BY <3>2, <3>3, <3>4, Zenon
  <2>2. ASSUME UNCHANGED vars PROVE Current'
    <3>1. /\ vfs' = vfs /\ open' = open /\ ast_cache' = ast_cache /\ source_code' = source_code /\ db' = db
          /\ poolq' = poolq /\ worker' = worker /\ suspect' = suspect
      BY <2>2 DEF vars, clientVars, cacheVars, history
    <3>2. /\ Active' = Active /\ ToClear' = ToClear /\ Reading' = Reading
          /\ \A w, f : Queued(w, f)' <=> Queued(w, f)
      BY <3>1, Zenon DEF Active, ToClear, Reading, Queued
    <3>3. \A f, T : AllToClear(f, T)' <=> AllToClear(f, T)
      BY <3>1, <3>2 DEF AllToClear
    <3>4. /\ \A f : CacheUpToDate(f)' <=> CacheUpToDate(f)
          /\ \A t, f : JobUpToDate(t, f)' <=> JobUpToDate(t, f)
          /\ \A w, f : DbUpToDate(w, f)' <=> DbUpToDate(w, f)
      BY <3>1, <3>2, <3>3 DEF CacheUpToDate, JobUpToDate, HasLatest, DbUpToDate
    <3> QED
      BY <3>1, <3>2, <3>4, Zenon DEF Current
  <2> QED
    BY <2>1, <2>2, CurrentEdit, CurrentClose, Zenon DEF Next
<1> QED
  BY <1>1, <1>2, TypeCorrect, TreesStayCached, DiagsInProgram, PTL DEF Spec

(* Once compiles have settled, the database of a workspace holds the last    *)
(* edit of every open file, with any number of threads and whatever failed   *)
(* or panicked, except for the files named above.                            *)
THEOREM DbIsCurrent == Spec => []DbSettles
<1>1. Current => DbSettles
  <2> SUFFICES ASSUME Current, Quiet, NEW w \in Workspaces,
                      db[w].state = "Ready", NEW f \in (Reach[w] \cap open) \ suspect
               PROVE  db[w].modules[f] = vfs[f]
    BY Zenon DEF DbSettles
  <2>1. Active = {} /\ ~Queued(w, f)
    BY DEF Quiet, Queued, Active, Idle
  <2> QED
    BY <2>1, Zenon DEF Current, DbUpToDate
<1> QED
  BY <1>1, StaysCurrent, PTL
-----------------------------------------------------------------------------
(* What the client shows. *)

(* A job that goes on keeps its workspace. *)
LEMMA JobGoesOn ==
    ASSUME TypeOK, NEW t \in Threads, CompileStep(t), ~ReadOldDiags(t), t \in Active'
    PROVE  t \in Active /\ Keeps(t)
<1>1. ~Store(t) /\ ~CollectPanics(t) /\ ~Replace(t)
  BY AfterStore, AfterPanic, AfterReplace, Zenon DEF Active
<1>2. Keeps(t)
  BY <1>1, AfterMark, AfterLoad, AfterClear, AfterEntry, AfterVisit, AfterInsert, AfterImports,
     AfterFail, AfterCollect, AfterPublish, Zenon DEF CompileStep
<1>3. worker[t].pc \in Stages
  <2>1. CASE CompileFails(t)
    BY <2>1, AfterFail, FailAtAssumption, Zenon DEF Stages
  <2>2. CASE ~CompileFails(t)
    BY <1>1, <2>2, AfterMark, AfterLoad, AfterClear, AfterEntry, AfterVisit, AfterInsert, AfterImports,
       AfterCollect, AfterPublish, Zenon DEF CompileStep, Stages
  <2> QED
    BY <2>1, <2>2, Zenon
<1> QED
  BY <1>2, <1>3, ActiveStage, Zenon

(* A workspace that two jobs compile is noted when the second starts. *)
THEOREM OneAtATime == Spec => []OneCompile
<1>1. Init => OneCompile
  BY DEF Init, OneCompile, Active, Idle
<1>2. TypeOK /\ OneCompile /\ [Next]_vars => OneCompile'
  <2> SUFFICES ASSUME TypeOK, OneCompile, [Next]_vars PROVE OneCompile'
    BY Zenon
  <2>1. ASSUME worker' = worker, mixed' = mixed PROVE OneCompile'
    BY <2>1, Zenon DEF OneCompile, Active
  <2>2. ASSUME NEW t \in Threads, CompileStep(t) PROVE OneCompile'
    <3>1. mixed \subseteq mixed'
      BY <2>2, StepKeeps, Zenon
    <3>2. ASSUME NEW u \in Active', u /= t PROVE u \in Active /\ worker'[u] = worker[u]
      BY <2>2, <3>2, StepFrame, Zenon DEF Active
    <3>3. ASSUME NEW u \in Active', u /= t, t \in Active', worker'[u].w = worker'[t].w
          PROVE  worker'[t].w \in mixed'
      <4>1. CASE ReadOldDiags(t)
        <5>1. /\ worker'[t].w = Head(poolq).w
              /\ mixed' = mixed \cup {w \in {Head(poolq).w} : \E x \in Active : worker[x].w = w}
          BY <4>1, AfterRead, Zenon
        <5>2. u \in Active /\ worker[u].w = Head(poolq).w
          BY <3>2, <3>3, <5>1, Zenon
        <5> QED
          BY <5>1, <5>2, Zenon
      <4>2. CASE ~ReadOldDiags(t)
        <5>1. t \in Active /\ worker'[t].w = worker[t].w
          BY <2>2, <3>3, <4>2, JobGoesOn, Zenon DEF Keeps
        <5>2. u \in Active /\ worker[u].w = worker[t].w
          BY <3>2, <3>3, <5>1, Zenon
        <5> QED
          BY <3>1, <3>3, <5>1, <5>2, Zenon DEF OneCompile
      <4> QED
        BY <4>1, <4>2, Zenon
    <3>4. ASSUME NEW u \in Active', NEW v \in Active', worker'[u].w = worker'[v].w
          PROVE  u = v \/ worker'[u].w \in mixed'
      <4>1. CASE u /= t /\ v /= t
        BY <3>1, <3>2, <3>4, <4>1, Zenon DEF OneCompile
      <4>2. CASE u = t \/ v = t
        BY <3>3, <3>4, <4>2, Zenon
      <4> QED
        BY <4>1, <4>2, Zenon
    <3> QED
      BY <3>4, Zenon DEF OneCompile
  <2> QED
    BY <2>1, <2>2, Zenon DEF Next, Edit, Close, vars, history
<1> QED
  BY <1>1, <1>2, TypeCorrect, PTL DEF Spec

(* An edit keeps what is shown for an entry, a close too. *)
LEMMA ShowsClient ==
    ASSUME TypeOK, Shows, NEW g \in Files, Edit(g) \/ Close(g)
    PROVE  Shows'
<1>1. worker' = worker /\ db' = db /\ shown' = shown /\ mixed' = mixed /\ open' \subseteq open
  BY DEF Edit, Close, history
<1>2. Active' = Active /\ Reading' = Reading /\ \A w : Stored(w)' = Stored(w) /\ (Compiled(w)' <=> Compiled(w))
  BY <1>1, Zenon DEF Active, Reading, Stored, Compiled
<1> SUFFICES ASSUME NEW w \in Workspaces \ mixed, NEW f \in OwnEntries(w)
             PROVE  /\ ~Compiled(w) => DbShows(w, f)'
                    /\ \A t \in Active : worker[t].w = w => JobShows(t, f)'
  BY <1>1, <1>2, Zenon DEF Shows
<1>3. f \in Files /\ f \in Reach[w]
  BY ReachType, Zenon DEF OwnEntries
<1>4. ASSUME f \in open' PROVE (f \in open /\ vfs'[f] = vfs[f] /\ (Queued(w, f) => Queued(w, f)')) \/ Queued(w, f)'
  <2>1. CASE Edit(g)
    BY <1>1, <1>3, <1>4, <2>1, EditKeeps
  <2>2. CASE Close(g)
    <3>1. open' = open \ {g} /\ vfs' = [vfs EXCEPT ![g] = 0] /\ poolq' = poolq
      BY <2>2, Zenon DEF Close
    <3> QED
      BY <1>3, <1>4, <3>1, Zenon DEF TypeOK, Queued
  <2> QED
    BY <2>1, <2>2, Zenon
<1>5. ASSUME ~Compiled(w) PROVE DbShows(w, f)'
  <2>1. DbShows(w, f)
    BY <1>5, Zenon DEF Shows
  <2> QED
    BY <1>1, <1>2, <1>4, <2>1 DEF DbShows
<1>6. ASSUME NEW t \in Active, worker[t].w = w PROVE JobShows(t, f)'
  <2>1. JobShows(t, f)
    BY <1>6, Zenon DEF Shows
  <2>2. ASSUME t \in Reading, f \in open' PROVE worker[t].code[f] = vfs'[f] \/ Queued(w, f)'
    <3>1. f \in open => worker[t].code[f] = vfs[f] \/ Queued(w, f)
      BY <1>6, <2>1, <2>2, Zenon DEF JobShows
    <3> QED
      BY <1>4, <2>2, <3>1, Zenon
  <2>3. /\ Tells(worker[t], f, shown)
        /\ worker[t].pc /= "publish" => worker[t].old = Stored(worker[t].w)
        /\ worker[t].pc \notin {"mark", "publish"} => db[worker[t].w].state /= "Ready"
    BY <2>1, Zenon DEF JobShows
  <2> QED
    BY <1>1, <1>2, <1>6, <2>2, <2>3, Zenon DEF JobShows
<1> QED
  BY <1>5, <1>6, Zenon

(* A step of a compile does not touch what another workspace shows for its   *)
(* own entries.                                                              *)
LEMMA ShowsElsewhere ==
    ASSUME TypeOK, DiagsOfProgram, Shows, NEW t \in Threads, CompileStep(t),
           NEW w \in Workspaces \ mixed, NEW f \in OwnEntries(w),
           t \in Active => worker[t].w /= w, t \in Active' => worker'[t].w /= w
    PROVE  /\ ~Compiled(w)' => DbShows(w, f)'
           /\ \A u \in Active' : worker'[u].w = w => JobShows(u, f)'
<1>1. f \in Files /\ f \in Reach[w] /\ vfs' = vfs /\ open' = open
  BY ReachType, StepKeeps, Zenon DEF OwnEntries
<1>2. db'[w] = db[w]
  <2>1. CASE Mark(t)
    BY <2>1, AfterMark, Zenon DEF Active
  <2>2. CASE Store(t)
    <3>1. worker[t].pc = "publish" /\ \A v \in Workspaces \ {worker[t].w} : db'[v] = db[v]
      BY <2>2, AfterStore, Zenon
    <3> QED
      BY <3>1 DEF Active
  <2>3. CASE ~Store(t) /\ ~Mark(t)
    <3>1. db' = db
      BY <2>3, Zenon DEF CompileStep, ReadOldDiags, LoadCode, ClearModule, ClearWith, ParseEntry, VisitImport,
         InsertModule, ImportsDone, CompileFails, Collect, CollectPanics, Publish, Replace
    <3> QED
      BY <3>1, Zenon
  <2> QED
    BY <2>1, <2>2, <2>3, Zenon
<1>3. shown'[f] = shown[f]
  <2>1. CASE Publish(t)
    <3> DEFINE v(h) == IF \E d \in worker[t].diags : d[1] = h
                       THEN (CHOOSE d \in worker[t].diags : d[1] = h)[2] ELSE None
    <3>1. PICK h \in worker[t].todo : shown' = [shown EXCEPT ![h] = v(h)]
      BY <2>1, AfterPublish, Zenon
    <3> HIDE DEF v
    <3>2. worker[t].pc = "publish" /\ worker[t].w \in Workspaces
      BY <2>1, AfterPublish, Zenon DEF Keeps
    <3>3. t \in Active
      BY <3>2, Zenon DEF Active
    <3>4. h \in Reach[worker[t].w]
      BY <3>1, <3>2, <3>3, Zenon DEF DiagsOfProgram
    <3>5. h /= f
      BY <3>2, <3>3, <3>4 DEF OwnEntries
    <3> QED
      BY <1>1, <3>1, <3>5, Zenon DEF TypeOK
  <2>2. CASE ~Publish(t)
    <3>1. shown' = shown
      BY <2>2, Zenon DEF CompileStep, ReadOldDiags, Mark, LoadCode, ClearModule, ClearWith, ParseEntry, VisitImport,
         InsertModule, ImportsDone, CompileFails, Collect, CollectPanics, Store, StoreWith, Replace
    <3> QED
      BY <3>1, Zenon
  <2> QED
    BY <2>1, <2>2, Zenon
<1>4. Queued(w, f) => Queued(w, f)'
  <2>1. CASE ReadOldDiags(t)
    <3>1. t \in Active'
      BY <2>1, AfterRead, Zenon DEF Active
    <3> QED
      BY <1>1, <2>1, <3>1, ReadKeeps, Zenon
  <2>2. CASE ~ReadOldDiags(t)
    BY <2>2, StepKeeps, Zenon
  <2> QED
    BY <2>1, <2>2, Zenon
<1>5. Stored(w)' = Stored(w)
  BY <1>2, Zenon DEF Stored
<1>6. ASSUME ~Compiled(w)' PROVE DbShows(w, f)'
  <2>1. ASSUME NEW u \in Active, worker[u].w = w PROVE FALSE
    <3>1. u /= t /\ u \in Threads
      BY <2>1, Zenon DEF Active
    <3>2. worker'[u] = worker[u]
      BY <3>1, StepFrame, Zenon
    <3> QED
      BY <1>6, <2>1, <3>2, Zenon DEF Compiled, Active
  <2>2. DbShows(w, f)
    BY <2>1, Zenon DEF Shows, Compiled
  <2> QED
    BY <1>1, <1>2, <1>3, <1>4, <1>5, <2>2 DEF DbShows
<1>7. ASSUME NEW u \in Active', worker'[u].w = w PROVE JobShows(u, f)'
  <2>1. u /= t /\ u \in Threads
    BY <1>7, Zenon DEF Active
  <2>2. worker'[u] = worker[u]
    BY <2>1, StepFrame, Zenon
  <2>3. u \in Active /\ (u \in Reading' <=> u \in Reading)
    BY <1>7, <2>1, <2>2, Zenon DEF Active, Reading
  <2>4. /\ Tells(worker[u], f, shown)
        /\ worker[u].pc /= "publish" => worker[u].old = Stored(w)
        /\ worker[u].pc \notin {"mark", "publish"} => db[w].state /= "Ready"
        /\ u \in Reading /\ f \in open => worker[u].code[f] = vfs[f] \/ Queued(w, f)
    BY <1>7, <2>2, <2>3, Zenon DEF Shows, JobShows
  <2>5. Tells(worker'[u], f, shown')
    BY <1>3, <2>2, <2>4 DEF Tells
  <2> QED
    BY <1>1, <1>2, <1>4, <1>5, <1>7, <2>2, <2>3, <2>4, <2>5, Zenon DEF JobShows
<1> QED
  BY <1>6, <1>7, Zenon

(* The steps of a job keep what it knows and shows of an entry. *)
LEMMA TellsStep ==
    ASSUME TypeOK, DiagsOfProgram, NEW t \in Threads, CompileStep(t), t \in Active, t \in Active',
           worker[t].w \notin mixed', NEW g \in Entries[worker[t].w], Tells(worker[t], g, shown)
    PROVE  Tells(worker'[t], g, shown')
<1>1. g \in Files /\ worker[t].w \in Workspaces
  BY ActiveStage, JobType, ReachType, Zenon DEF JobOf
<1>2. \A f, v : \A d \in Report(f, v) : d[1] = f
  BY DEF Report
<1>3. CASE Mark(t) \/ LoadCode(t)
  <2>1. /\ worker[t].pc \in {"mark", "load"} /\ worker'[t].pc \in {"load", "clear"} /\ Keeps(t) /\ shown' = shown
        /\ worker'[t].diags = worker[t].diags /\ worker'[t].ok = worker[t].ok
    BY <1>3, AfterMark, AfterLoad, Zenon
  <2> QED
    BY <2>1 DEF Tells, Keeps
<1>4. CASE ClearModule(t)
  <2>1. /\ worker[t].pc = "clear" /\ worker'[t].pc = "entries" /\ Keeps(t) /\ shown' = shown
        /\ worker'[t].diags = worker[t].diags /\ worker'[t].ok = worker[t].ok
        /\ worker'[t].todo = Entries[worker[t].w]
    BY <1>4, AfterClear, Zenon
  <2> QED
    BY <2>1 DEF Tells, Keeps, DiagsOf
<1>5. CASE ParseEntry(t)
  <2>1. /\ worker[t].pc = "entries" /\ Keeps(t) /\ shown' = shown
        /\ worker'[t].code = worker[t].code /\ worker'[t].ok = worker[t].ok
    BY <1>5, AfterEntry, Zenon
  <2>2. PICK f \in worker[t].todo :
                /\ worker'[t].diags = worker[t].diags \cup Report(f, worker[t].code[f])
                /\ IF worker[t].todo \ {f} = {}
                   THEN worker'[t].pc = "imports"
                   ELSE worker'[t].pc = "entries" /\ worker'[t].todo = worker[t].todo \ {f}
    BY <1>5, AfterEntry, Zenon
  <2>3. DiagsOf(worker'[t].diags, g) =
          IF g \in worker[t].todo /\ g /= f THEN {} ELSE Report(g, worker[t].code[g])
    <3>1. DiagsOf(worker[t].diags, g) = IF g \in worker[t].todo THEN {} ELSE Report(g, worker[t].code[g])
      BY <2>1, Zenon DEF Tells
    <3>2. DiagsOf(worker'[t].diags, g) =
            DiagsOf(worker[t].diags, g) \cup (IF g = f THEN Report(g, worker[t].code[g]) ELSE {})
      BY <1>2, <2>2, Zenon DEF DiagsOf
    <3> QED
      BY <2>2, <3>1, <3>2, Zenon
  <2>4. worker[t].ok /\ (shown[g] /= None => \E d \in worker[t].old : d[1] = g)
    BY <2>1, Zenon DEF Tells
  <2>5. CASE worker[t].todo \ {f} = {}
    <3>1. worker'[t].pc = "imports" /\ DiagsOf(worker'[t].diags, g) = Report(g, worker'[t].code[g])
      BY <2>1, <2>2, <2>3, <2>5, Zenon
    <3> QED
      BY <2>1, <2>4, <3>1, Zenon DEF Keeps, Tells
  <2>6. CASE worker[t].todo \ {f} /= {}
    <3>1. /\ worker'[t].pc = "entries"
          /\ DiagsOf(worker'[t].diags, g) = IF g \in worker'[t].todo THEN {} ELSE Report(g, worker'[t].code[g])
      BY <2>1, <2>2, <2>3, <2>6, Zenon
    <3> QED
      BY <2>1, <2>4, <3>1, Zenon DEF Keeps, Tells
  <2> QED
    BY <2>5, <2>6, Zenon
<1>6. CASE VisitImport(t) \/ ImportsDone(t)
  <2>1. /\ worker[t].pc = "imports" /\ worker'[t].pc \in {"imports", "parse", "collect"} /\ Keeps(t)
        /\ shown' = shown /\ worker'[t].code = worker[t].code /\ worker'[t].ok = worker[t].ok
        /\ worker'[t].diags = worker[t].diags
    <3>1. CASE VisitImport(t)
      BY <3>1, AfterVisit, Zenon
    <3>2. CASE ImportsDone(t)
      BY <3>2, AfterImports, Zenon
    <3> QED
      BY <1>6, <3>1, <3>2, Zenon
  <2> QED
    BY <2>1 DEF Tells, Keeps
<1>7. CASE InsertModule(t)
  <2>1. /\ worker[t].pc = "parse" /\ worker'[t].pc = "imports" /\ Keeps(t) /\ shown' = shown
        /\ worker'[t].code = worker[t].code /\ worker'[t].ok = worker[t].ok
        /\ worker'[t].diags = worker[t].diags \cup Report(worker[t].parsing, worker[t].src)
    BY <1>7, AfterInsert, Zenon
  <2>2. worker[t].parsing /= g
    BY <2>1, Zenon DEF DiagsOfProgram
  <2>3. DiagsOf(worker'[t].diags, g) = DiagsOf(worker[t].diags, g)
    BY <1>2, <2>1, <2>2 DEF DiagsOf
  <2>4. /\ worker[t].ok /\ (shown[g] /= None => \E d \in worker[t].old : d[1] = g)
        /\ DiagsOf(worker'[t].diags, g) = Report(g, worker'[t].code[g])
    BY <2>1, <2>3, Zenon DEF Tells
  <2> QED
    BY <2>1, <2>4, Zenon DEF Keeps, Tells
<1>8. CASE CompileFails(t)
  <2>1. worker[t].pc \in {"clear", "entries", "imports"}
    BY <1>8, AfterFail, FailAtAssumption
  <2>2. /\ worker'[t].pc = "publish" /\ ~worker'[t].ok /\ shown' = shown /\ worker'[t].diags = {}
        /\ worker'[t].todo = {d[1] : d \in worker[t].old}
    BY <1>8, <2>1, AfterFail, Zenon DEF Keeps
  <2> QED
    BY <2>1, <2>2 DEF Tells, DiagsOf
<1>9. CASE Collect(t)
  <2>1. /\ worker[t].pc = "collect" /\ shown' = shown
        /\ Keeps(t) /\ worker'[t].code = worker[t].code
        /\ worker'[t].diags = worker[t].diags /\ worker'[t].ok = worker[t].ok
        /\ \/ worker'[t].pc = "collect"
           \/ /\ worker'[t].pc = "publish"
              /\ worker'[t].todo = {d[1] : d \in worker[t].old \cup worker[t].diags}
    BY <1>9, AfterCollect, Zenon
  <2>2. CASE worker'[t].pc = "collect"
    BY <2>1, <2>2 DEF Tells, Keeps
  <2>3. CASE worker'[t].pc = "publish"
    <3>1. ASSUME g \notin worker'[t].todo PROVE shown[g] = Right(g, worker[t].code[g])
      <4>1. DiagsOf(worker[t].diags, g) = Report(g, worker[t].code[g])
        BY <2>1, Zenon DEF Tells
      <4>2. DiagsOf(worker[t].diags, g) = {} /\ ~ \E d \in worker[t].old : d[1] = g
        BY <2>1, <2>3, <3>1, ZenonT(30) DEF DiagsOf
      <4>3. shown[g] = None
        BY <2>1, <4>2, Zenon DEF Tells
      <4> QED
        BY <4>1, <4>2, <4>3, Zenon DEF Report, Right
    <3> QED
      BY <2>1, <2>3, <3>1 DEF Tells, Keeps
  <2> QED
    BY <2>1, <2>2, <2>3, Zenon
<1>10. CASE Publish(t)
  <2>1. /\ worker[t].pc = "publish" /\ worker'[t].pc = "publish"
        /\ worker'[t].code = worker[t].code /\ worker'[t].ok = worker[t].ok /\ worker'[t].diags = worker[t].diags
    BY <1>10, AfterPublish, Zenon
  <2> DEFINE v(h) == IF \E d \in worker[t].diags : d[1] = h
                     THEN (CHOOSE d \in worker[t].diags : d[1] = h)[2] ELSE None
  <2>2. PICK h \in worker[t].todo :
          worker'[t].todo = worker[t].todo \ {h} /\ shown' = [shown EXCEPT ![h] = v(h)]
    BY <1>10, AfterPublish, Zenon
  <2>4. ASSUME h = g
        PROVE  v(h) = IF worker[t].ok THEN Right(h, worker[t].code[h]) ELSE None
    <3>1. DiagsOf(worker[t].diags, h) = IF worker[t].ok THEN Report(h, worker[t].code[h]) ELSE {}
      BY <1>1, <2>1, <2>4, Zenon DEF Tells
    <3>2. CASE worker[t].ok /\ <<h, worker[t].code[h]>> \in Faulty
      <4>1. DiagsOf(worker[t].diags, h) = {<<h, worker[t].code[h]>>}
        BY <3>1, <3>2, Zenon DEF Report
      <4>2. \E d \in worker[t].diags : d[1] = h
        BY <4>1, Zenon DEF DiagsOf
      <4>3. (CHOOSE d \in worker[t].diags : d[1] = h) = <<h, worker[t].code[h]>>
        BY <4>1, <4>2, Zenon DEF DiagsOf
      <4> DEFINE c == CHOOSE d \in worker[t].diags : d[1] = h
      <4>4. v(h) = c[2]
        BY <4>2, Zenon
      <4> HIDE DEF v
      <4>5. c[2] = worker[t].code[h]
        <5>1. c = <<h, worker[t].code[h]>>
          BY <4>3, Zenon
        <5> HIDE DEF c
        <5> QED
          BY <5>1, Zenon
      <4>6. v(h) = worker[t].code[h]
        BY <4>4, <4>5, Zenon
      <4> QED
        BY <3>2, <4>6, Zenon DEF Right
    <3>3. CASE ~(worker[t].ok /\ <<h, worker[t].code[h]>> \in Faulty)
      <4>1. DiagsOf(worker[t].diags, h) = {}
        BY <3>1, <3>3, Zenon DEF Report
      <4>2. ~ \E d \in worker[t].diags : d[1] = h
        BY <4>1, Zenon DEF DiagsOf
      <4> QED
        BY <3>3, <4>2, Zenon DEF Right
    <3> QED
      BY <3>2, <3>3, Zenon
  <2> HIDE DEF v
  <2>5. shown'[g] = IF g = h THEN v(h) ELSE shown[g]
    BY <1>1, <2>2, ZenonT(30) DEF TypeOK
  <2> QED
    BY <2>1, <2>2, <2>4, <2>5 DEF Tells
<1>11. ~ReadOldDiags(t) /\ ~CollectPanics(t) /\ ~Store(t) /\ ~Replace(t)
  BY AfterRead, AfterPanic, AfterStore, AfterReplace, Zenon DEF Active
<1> QED
  BY <1>3, <1>4, <1>5, <1>6, <1>7, <1>8, <1>9, <1>10, <1>11, Zenon DEF CompileStep

(* A job that goes on shows what it knows, and the database of its workspace *)
(* waits for it.                                                             *)
LEMMA JobShowsStep ==
    ASSUME TypeOK, DiagsOfProgram, NEW t \in Threads, CompileStep(t), t \in Active, t \in Active',
           NEW w \in Workspaces \ mixed', worker[t].w = w, NEW g \in Entries[w], JobShows(t, g)
    PROVE  JobShows(t, g)'
<1>1. ~ReadOldDiags(t) /\ ~CollectPanics(t) /\ ~Store(t) /\ ~Replace(t)
  BY AfterRead, AfterPanic, AfterStore, AfterReplace, Zenon DEF Active
<1>2. Keeps(t) /\ worker'[t].w = w /\ vfs' = vfs /\ open' = open
  BY <1>1, JobGoesOn, StepKeeps, Zenon DEF Keeps
<1>3. \A v, f : Queued(v, f)' <=> Queued(v, f)
  BY <1>1, StepKeeps, Zenon
<1>4. Tells(worker'[t], g, shown')
  BY TellsStep, Zenon DEF JobShows
<1>5. /\ worker[t].pc /= "publish" => worker[t].old = Stored(w)
      /\ worker[t].pc \notin {"mark", "publish"} => db[w].state /= "Ready"
      /\ t \in Reading /\ g \in open => worker[t].code[g] = vfs[g] \/ Queued(w, g)
  BY Zenon DEF JobShows
<1>6. CASE Mark(t)
  <2>1. /\ worker[t].pc = "mark" /\ worker'[t].pc = "load" /\ db'[w].diags = db[w].diags
        /\ db'[w].state = IF db[w].state \in {"Ready", "Compiling"} THEN "Compiling" ELSE "Init"
    BY <1>2, <1>5, <1>6, AfterMark, Zenon
  <2>2. Stored(w)' = Stored(w) /\ db'[w].state /= "Ready"
    BY <2>1, Zenon DEF Stored
  <2>3. t \notin Reading'
    BY <2>1, Zenon DEF Reading
  <2> QED
    BY <1>2, <1>4, <1>5, <2>1, <2>2, <2>3, Zenon DEF JobShows, Keeps
<1>7. CASE LoadCode(t)
  <2>1. /\ worker[t].pc = "load" /\ worker'[t].pc = "clear" /\ db' = db
        /\ \A f \in Entries[worker[t].w] : worker'[t].code[f] = Contents(f)
    BY <1>7, AfterLoad, Zenon
  <2>2. Stored(w)' = Stored(w) /\ (g \in open => worker'[t].code[g] = vfs[g])
    BY <2>1, Zenon DEF Stored, Contents
  <2> QED
    BY <1>2, <1>4, <1>5, <2>1, <2>2, Zenon DEF JobShows, Keeps
<1>8. CASE ~Mark(t) /\ ~LoadCode(t)
  <2>1. db' = db
    BY <1>1, <1>8, Zenon DEF CompileStep, ClearModule, ClearWith, ParseEntry, VisitImport,
       InsertModule, ImportsDone, CompileFails, Collect, Publish
  <2>2. worker'[t].code = worker[t].code
    BY <1>1, <1>8, AfterClear, AfterEntry, AfterVisit, AfterInsert, AfterImports,
       AfterFail, AfterCollect, AfterPublish, Zenon DEF CompileStep
  <2>3. worker[t].pc \notin {"mark", "load"}
    <3>1. CASE CompileFails(t)
      BY <3>1, AfterFail, FailAtAssumption, Zenon
    <3>2. CASE ~CompileFails(t)
      BY <1>1, <1>8, <3>2, AfterClear, AfterEntry, AfterVisit, AfterInsert, AfterImports,
         AfterCollect, AfterPublish, Zenon DEF CompileStep
    <3> QED
      BY <3>1, <3>2, Zenon
  <2>4. worker[t].pc = "publish" => worker'[t].pc = "publish"
    <3>1. CASE CompileFails(t) \/ Publish(t)
      BY <3>1, AfterFail, AfterPublish, Zenon
    <3>2. CASE ~CompileFails(t) /\ ~Publish(t)
      BY <1>1, <1>8, <3>2, AfterClear, AfterEntry, AfterVisit, AfterInsert, AfterImports,
         AfterCollect, Zenon DEF CompileStep
    <3> QED
      BY <3>1, <3>2, Zenon
  <2>5. t \in Reading /\ Stored(w)' = Stored(w)
    BY <2>1, <2>3, Zenon DEF Reading, Stored
  <2>6. worker'[t].pc /= "publish" => worker'[t].old = Stored(w)' /\ db'[w].state /= "Ready"
    BY <1>2, <1>5, <2>1, <2>3, <2>4, <2>5, Zenon DEF Keeps
  <2>7. g \in open' => worker'[t].code[g] = vfs'[g] \/ Queued(w, g)'
    BY <1>2, <1>3, <1>5, <2>2, <2>5, Zenon
  <2> QED
    BY <1>2, <1>4, <2>6, <2>7, Zenon DEF JobShows
<1> QED
  BY <1>6, <1>7, <1>8, Zenon

(* A job that ends leaves its database with what is shown. *)
LEMMA JobEnds ==
    ASSUME TypeOK, NEW t \in Threads, Store(t) \/ CollectPanics(t), CompileStep(t), t \in Active,
           NEW g \in Entries[worker[t].w], JobShows(t, g), NEW w \in Workspaces, worker[t].w = w
    PROVE  DbShows(w, g)'
<1>1. ~ReadOldDiags(t) /\ vfs' = vfs /\ open' = open
  BY AfterRead, StepKeeps, Zenon DEF Active
<1>2. Queued(w, g)' <=> Queued(w, g)
  BY <1>1, StepKeeps, Zenon
<1>3. CASE Store(t)
  <2>1. worker[t].pc = "publish" /\ worker[t].todo = {} /\ shown' = shown
    BY <1>3, AfterStore, Zenon
  <2>2. /\ DiagsOf(worker[t].diags, g) = IF worker[t].ok THEN Report(g, worker[t].code[g]) ELSE {}
        /\ shown[g] = IF worker[t].ok THEN Right(g, worker[t].code[g]) ELSE None
    BY <2>1, Zenon DEF JobShows, Tells
  <2>3. g \in open => worker[t].code[g] = vfs[g] \/ Queued(w, g)
    BY <2>1, Zenon DEF JobShows, Reading
  <2>4. CASE worker[t].ok
    <3>1. db'[w].state = "Ready" /\ db'[w].diags = worker[t].diags
      BY <1>3, <2>4, AfterStore, Zenon
    <3>2. shown[g] /= None => \E d \in Stored(w)' : d[1] = g
      BY <2>2, <2>4, <3>1, Zenon DEF Right, Report, DiagsOf, Stored
    <3> QED
      BY <1>1, <1>2, <2>1, <2>2, <2>3, <2>4, <3>2, Zenon DEF DbShows
  <2>5. CASE ~worker[t].ok
    <3>1. db'[w].state = "Failed"
      BY <1>3, <2>5, AfterStore, Zenon
    <3> QED
      BY <2>1, <2>2, <2>5, <3>1, Zenon DEF DbShows
  <2> QED
    BY <2>4, <2>5, Zenon
<1>4. CASE CollectPanics(t)
  <2>1. worker[t].pc = "collect" /\ db' = db /\ shown' = shown
    BY <1>4, AfterPanic, Zenon
  <2>2. db[w].state /= "Ready" /\ (shown[g] /= None => \E d \in Stored(w) : d[1] = g)
    BY <2>1, Zenon DEF JobShows, Tells
  <2>3. Stored(w)' = Stored(w)
    BY <2>1, Zenon DEF Stored
  <2> QED
    BY <2>1, <2>2, <2>3, Zenon DEF DbShows
<1> QED
  BY <1>3, <1>4, Zenon

(* However compiles of different workspaces overlap, fail and panic, what is *)
(* shown for an entry is what its database, or the job that compiles it,     *)
(* knows of it. Two jobs of one workspace that overlap, and a job that fails *)
(* after it has published, are the exceptions.                               *)
THEOREM ShownIsKnown == Spec => []Shows
<1>1. Init => Shows
  <2> SUFFICES ASSUME Init, NEW w \in Workspaces, NEW f \in OwnEntries(w) PROVE DbShows(w, f) /\ Active = {}
    BY Zenon DEF Shows
  <2>1. Active = {}
    BY DEF Init, Active, Idle
  <2>2. f \in Files
    BY ReachType, Zenon DEF OwnEntries
  <2>3. <<f, 0>> \notin Faulty
    BY FaultyAssumption, BoundsAssumption
  <2>4. shown[f] = None /\ vfs[f] = 0
    BY <2>2, Zenon DEF Init, NoModules
  <2>5. Right(f, vfs[f]) = None
    BY <2>3, <2>4, Zenon DEF Right
  <2> QED
    BY <2>1, <2>4, <2>5, Zenon DEF DbShows
<1>2. TypeOK /\ DiagsOfProgram /\ OneCompile /\ Shows /\ [Next]_vars => Shows'
  <2> SUFFICES ASSUME TypeOK, DiagsOfProgram, OneCompile, Shows, [Next]_vars PROVE Shows'
    BY Zenon
  <2>1. ASSUME NEW t \in Threads, CompileStep(t) PROVE Shows'
    <3> SUFFICES ASSUME NEW w \in Workspaces \ mixed', NEW f \in OwnEntries(w)
                 PROVE  /\ ~Compiled(w)' => DbShows(w, f)'
                        /\ \A u \in Active' : worker'[u].w = w => JobShows(u, f)'
      BY Zenon DEF Shows
    <3>1. w \in Workspaces \ mixed /\ f \in Entries[w]
      BY <2>1, StepKeeps, Zenon DEF OwnEntries
    <3>2. ASSUME NEW u \in Active', u /= t PROVE u \in Active /\ worker'[u] = worker[u]
      BY <2>1, <3>2, StepFrame, Zenon DEF Active
    <3>3. CASE ReadOldDiags(t) /\ worker'[t].w = w
      <4>1. /\ worker'[t].pc = "mark" /\ worker'[t].old = Stored(w) /\ worker'[t].diags = {} /\ worker'[t].ok
            /\ db' = db /\ shown' = shown /\ w = Head(poolq).w
            /\ mixed' = mixed \cup {v \in {Head(poolq).w} : \E u \in Active : worker[u].w = v}
        BY <3>3, AfterRead, Zenon
      <4>2. ~Compiled(w)
        BY <4>1, Zenon DEF Compiled
      <4>3. DbShows(w, f)
        BY <3>1, <4>2, Zenon DEF Shows
      <4>4. Stored(w)' = Stored(w) /\ t \in Active' /\ t \notin Reading'
        BY <4>1, Zenon DEF Stored, Active, Reading
      <4>5. Tells(worker'[t], f, shown')
        BY <4>1, <4>3, Zenon DEF Tells, DbShows
      <4>6. JobShows(t, f)'
        BY <3>3, <4>1, <4>4, <4>5, Zenon DEF JobShows
      <4>7. Compiled(w)'
        BY <3>3, <4>4, Zenon DEF Compiled
      <4>8. ASSUME NEW u \in Active', worker'[u].w = w PROVE u = t
        BY <3>2, <4>2, <4>8, Zenon DEF Compiled
      <4> QED
        BY <4>6, <4>7, <4>8, Zenon
    <3>4. CASE t \in Active /\ worker[t].w = w
      <4>1. JobShows(t, f)
        BY <3>1, <3>4, Zenon DEF Shows
      <4>2. ASSUME NEW u \in Active', worker'[u].w = w PROVE u = t
        BY <3>1, <3>2, <3>4, <4>2, Zenon DEF OneCompile
      <4>3. ~ReadOldDiags(t)
        BY <3>4, AfterRead, Zenon DEF Active
      <4>4. CASE t \in Active'
        <5>1. JobShows(t, f)'
          BY <2>1, <3>1, <3>4, <4>1, <4>4, JobShowsStep, Zenon
        <5>2. Compiled(w)'
          BY <2>1, <3>4, <4>3, <4>4, JobGoesOn, Zenon DEF Compiled, Keeps
        <5> QED
          BY <4>2, <5>1, <5>2, Zenon
      <4>5. CASE t \notin Active'
        <5>1. worker'[t].pc \in {"idle", "panicked"}
          BY <4>5, Zenon DEF Active
        <5>2. ~Replace(t)
          BY <3>4, AfterReplace, Zenon DEF Active
        <5>3. ~ParseEntry(t) /\ ~VisitImport(t) /\ ~Collect(t)
          BY <5>1, AfterEntry, AfterVisit, AfterCollect, Zenon
        <5>4. ~Mark(t) /\ ~LoadCode(t) /\ ~ClearModule(t)
          BY <5>1, AfterMark, AfterLoad, AfterClear, Zenon
        <5>5. ~InsertModule(t) /\ ~ImportsDone(t) /\ ~CompileFails(t) /\ ~Publish(t)
          BY <5>1, AfterInsert, AfterImports, AfterFail, AfterPublish, Zenon
        <5>6. Store(t) \/ CollectPanics(t)
          BY <2>1, <4>3, <5>2, <5>3, <5>4, <5>5, Zenon DEF CompileStep
        <5>7. DbShows(w, f)'
          BY <2>1, <3>1, <3>4, <4>1, <5>6, JobEnds, Zenon
        <5> QED
          BY <4>2, <4>5, <5>7, Zenon
      <4> QED
        BY <4>4, <4>5, Zenon
    <3>5. CASE /\ ~(ReadOldDiags(t) /\ worker'[t].w = w)
               /\ ~(t \in Active /\ worker[t].w = w)
      <4>1. t \in Active' => worker'[t].w /= w
        BY <2>1, <3>5, JobGoesOn, Zenon DEF Keeps
      <4> QED
        BY <2>1, <3>1, <3>5, <4>1, ShowsElsewhere, Zenon
    <3> QED
      BY <3>3, <3>4, <3>5, Zenon
  <2>2. ASSUME UNCHANGED vars PROVE Shows'
    <3>1. /\ vfs' = vfs /\ open' = open /\ db' = db /\ shown' = shown
          /\ poolq' = poolq /\ worker' = worker /\ mixed' = mixed
      BY <2>2 DEF vars, clientVars, history
    <3>2. /\ Active' = Active /\ Reading' = Reading
          /\ \A w, f : Queued(w, f)' <=> Queued(w, f)
          /\ \A w : Stored(w)' = Stored(w) /\ (Compiled(w)' <=> Compiled(w))
      BY <3>1, Zenon DEF Active, Reading, Queued, Stored, Compiled
    <3>3. /\ \A w, f : DbShows(w, f)' <=> DbShows(w, f)
          /\ \A t, f : JobShows(t, f)' <=> JobShows(t, f)
      BY <3>1, <3>2 DEF DbShows, JobShows
    <3> QED
      BY <3>1, <3>2, <3>3, Zenon DEF Shows
  <2> QED
    BY <2>1, <2>2, ShowsClient, Zenon DEF Next
<1> QED
  BY <1>1, <1>2, TypeCorrect, DiagsInProgram, OneAtATime, PTL DEF Spec

(* Once compiles have settled, an entry shows the syntax errors of its       *)
(* contents and no others, whatever was edited and closed, whichever         *)
(* compiles failed or panicked and however those of different workspaces     *)
(* overlapped. The entry must not be part of another workspace, whose        *)
(* compiles publish for it too.                                              *)
THEOREM EntryDiagsAreCurrent == Spec => []EntryDiagsSettle
<1>1. Shows => EntryDiagsSettle
  <2> SUFFICES ASSUME Shows, Quiet, NEW w \in Workspaces \ mixed,
                      db[w].state = "Ready", NEW f \in OwnEntries(w) \cap open
               PROVE  shown[f] = Right(f, vfs[f])
    BY Zenon DEF EntryDiagsSettle
  <2>1. ~Compiled(w) /\ ~Queued(w, f)
    BY DEF Quiet, Compiled, Queued, Active, Idle
  <2> QED
    BY <2>1, Zenon DEF Shows, DbShows
<1> QED
  BY <1>1, ShownIsKnown, PTL
=============================================================================
