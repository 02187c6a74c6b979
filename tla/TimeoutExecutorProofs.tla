----------------------- MODULE TimeoutExecutorProofs -----------------------
(* Safety of TimeoutExecutor for any tasks, order and capacity. *)
EXTENDS TimeoutExecutor, FiniteSetTheorems, SequenceTheorems, TLAPS

W == <<"wait">>
WT == <<"wait", "timeout">>
WF == <<"wait", "finished">>
WTF == <<"wait", "timeout", "finished">>
EventKinds == {"wait", "timeout", "finished"}
Ended == {"done", "panicked"}
Heard == {"sent"} \cup Ended

(* A slot is counted for every running task, and for the one that has been   *)
(* joined and is not reported yet; whoever runs is among them.               *)
Slots ==
    /\ Cardinality(running_tasks) + (IF pc = "report" THEN 1 ELSE 0) <= running_count
    /\ \A t \in Tasks : thread[t] \in {"run", "sent"} => t \in running_tasks

(* A task waits, runs, is joined, or has been reported. *)
Places ==
    /\ \A i, j \in DOMAIN waiting_tasks : waiting_tasks[i] = waiting_tasks[j] => i = j
    /\ \A i \in DOMAIN waiting_tasks : thread[waiting_tasks[i]] = "new"
    /\ \A t \in Tasks : thread[t] = "new" => \E i \in DOMAIN waiting_tasks : waiting_tasks[i] = t
    /\ \A t \in Tasks :
          \/ thread[t] = "new" /\ t \notin running_tasks /\ events[t] = <<>>
          \/ t \in running_tasks /\ thread[t] /= "new" /\ events[t] \in {W, WT}
          \/ /\ t \notin running_tasks /\ thread[t] \in Ended
             /\ pc \in {"report", "returned"} /\ finished_task.task = t
             /\ events[t] \in {W, WT} /\ result /= "Ok"
          \/ /\ t \notin running_tasks /\ thread[t] \in Ended
             /\ events[t] \in {WF, WTF}
    /\ \A i \in DOMAIN timeout_queue :
          timeout_queue[i] \in running_tasks => events[timeout_queue[i]] = W

(* Results are of running tasks, one each. *)
Results ==
    /\ \A i \in DOMAIN channel :
          /\ channel[i].task \in running_tasks
          /\ thread[channel[i].task] \in Heard
          /\ pc \in {"check", "join"} => channel[i].task /= finished_task.task
    /\ \A i, j \in DOMAIN channel : channel[i].task = channel[j].task => i = j
    /\ pc \in {"load", "receive"} => finished_task = NoResult
    /\ pc \in {"join", "report"} => finished_task /= NoResult
    /\ pc \in {"check", "join"} /\ finished_task /= NoResult =>
          /\ finished_task.task \in running_tasks
          /\ thread[finished_task.task] \in Heard
    /\ pc = "report" =>
          /\ finished_task.task \notin running_tasks
          /\ thread[finished_task.task] \in Ended
          /\ events[finished_task.task] \in {W, WT}
    /\ result = "none" <=> pc /= "returned"
    /\ result /= "Panic"
    /\ result = "Ok" => waiting_tasks = <<>> /\ running_tasks = {}

(* The receiver is gone after success, with no thread left, or after an      *)
(* error of the notifier.                                                    *)
Receiver ==
    /\ rx = "dropped" => result \in {"Ok", "Err"}
    /\ (\E t \in Tasks : thread[t] = "unsent") => result = "Err"

IInv == TypeOK /\ Slots /\ Places /\ Results
-----------------------------------------------------------------------------
(* The head and the tail of a sequence, element by element. *)
LEMMA HeadTail ==
    ASSUME NEW S, NEW s \in Seq(S), s /= <<>>
    PROVE  /\ Head(s) \in S /\ Tail(s) \in Seq(S)
           /\ 1 \in DOMAIN s /\ s[1] = Head(s)
           /\ \A i \in DOMAIN Tail(s) : i \in Nat /\ i + 1 \in DOMAIN s /\ i + 1 /= 1 /\ Tail(s)[i] = s[i + 1]
           /\ \A i \in DOMAIN s : i = 1 \/ (i - 1 \in DOMAIN Tail(s) /\ Tail(s)[i - 1] = s[i])
  OBVIOUS

(* Appending, element by element. *)
LEMMA Appended ==
    ASSUME NEW S, NEW s \in Seq(S), NEW e \in S
    PROVE  /\ Append(s, e) \in Seq(S)
           /\ \A i \in DOMAIN Append(s, e) : (i \in DOMAIN s /\ Append(s, e)[i] = s[i])
                                               \/ (i \notin DOMAIN s /\ i = Len(s) + 1 /\ Append(s, e)[i] = e)
           /\ \A i \in DOMAIN s : i \in DOMAIN Append(s, e) /\ Append(s, e)[i] = s[i]
  OBVIOUS

(* A sequence that is s with e at its end. *)
LEMMA AppendIs ==
    ASSUME NEW S, NEW s \in Seq(S), NEW e \in S, NEW u \in Seq(S),
           Len(u) = Len(s) + 1, u[Len(s) + 1] = e, \A i \in 1..Len(s) : u[i] = s[i]
    PROVE  Append(s, e) = u
  <1>1. Append(s, e) \in Seq(S) /\ Len(Append(s, e)) = Len(s) + 1
    OBVIOUS
  <1>2. \A i \in 1..Len(u) : Append(s, e)[i] = u[i]
    OBVIOUS
  <1> QED BY <1>1, <1>2, SeqEqual

(* The events of a task grow along the sequences of EventsInOrder. *)
LEMMA EventSequences ==
    /\ {W, WT, WF, WTF} \subseteq Seq(EventKinds)
    /\ Append(<<>>, "wait") = W
    /\ Append(W, "timeout") = WT
    /\ Append(W, "finished") = WF
    /\ Append(WT, "finished") = WTF
  <1>1. /\ <<>> \in Seq(EventKinds) /\ W \in Seq(EventKinds) /\ WT \in Seq(EventKinds)
        /\ WF \in Seq(EventKinds) /\ WTF \in Seq(EventKinds)
        /\ "wait" \in EventKinds /\ "timeout" \in EventKinds /\ "finished" \in EventKinds
    BY DEF W, WT, WF, WTF, EventKinds
  <1>2. /\ Len(<<>>) = 0 /\ Len(W) = 1 /\ Len(WT) = 2 /\ Len(WF) = 2 /\ Len(WTF) = 3
    BY DEF W, WT, WF, WTF
  <1>3. /\ W[1] = "wait"
        /\ WT[1] = "wait" /\ WT[2] = "timeout"
        /\ WF[1] = "wait" /\ WF[2] = "finished"
        /\ WTF[1] = "wait" /\ WTF[2] = "timeout" /\ WTF[3] = "finished"
    BY DEF W, WT, WF, WTF
  <1>4. Append(<<>>, "wait") = W
    BY DEF W
  <1>5. Append(W, "timeout") = WT
    <2>1. Len(WT) = Len(W) + 1 /\ WT[Len(W) + 1] = "timeout" /\ \A i \in 1..Len(W) : WT[i] = W[i]
      BY <1>2, <1>3
    <2> QED BY <1>1, <2>1, AppendIs, ZenonT(60)
  <1>6. Append(W, "finished") = WF
    <2>1. Len(WF) = Len(W) + 1 /\ WF[Len(W) + 1] = "finished" /\ \A i \in 1..Len(W) : WF[i] = W[i]
      BY <1>2, <1>3
    <2> QED BY <1>1, <2>1, AppendIs, ZenonT(60)
  <1>7. Append(WT, "finished") = WTF
    <2>1. Len(WTF) = Len(WT) + 1 /\ WTF[Len(WT) + 1] = "finished" /\ \A i \in 1..Len(WT) : WTF[i] = WT[i]
      BY <1>2, <1>3
    <2> QED BY <1>1, <2>1, AppendIs, ZenonT(60)
  <1> QED BY <1>1, <1>4, <1>5, <1>6, <1>7

(* The initial state satisfies the invariant. *)
LEMMA InvInit == Init => IInv
  <1> SUFFICES ASSUME Init PROVE IInv
    OBVIOUS
  <1>1. TypeOK
    <2>1. waiting_tasks \in Seq(Tasks) /\ running_count \in 0..Capacity
      BY OrderAssumption, CapacityAssumption DEF Init
    <2>2. timeout_queue \in Seq(Tasks) /\ channel \in Seq([task : Tasks, status : TaskStatus])
      BY DEF Init
    <2>3. events \in [Tasks -> Seq({"wait", "timeout", "finished"})]
      BY DEF Init
    <2> QED BY <2>1, <2>2, <2>3, ZenonT(60) DEF Init, TypeOK
  <1>2. Slots
    BY FS_EmptySet DEF Init, Slots
  <1>3. Places
    BY OrderAssumption DEF Init, Places
  <1>4. Results
    BY DEF Init, Results
  <1> QED BY <1>1, <1>2, <1>3, <1>4 DEF IInv

(* Loading a task. *)
LEMMA InvLoad == IInv /\ Load => IInv'
  <1> SUFFICES ASSUME IInv, Load PROVE IInv'
    OBVIOUS
  <1> DEFINE t == Head(waiting_tasks)
  <1> USE DEF IInv
  <1>1. /\ t \in Tasks /\ thread[t] = "new" /\ t \notin running_tasks /\ events[t] = <<>>
        /\ \A i \in DOMAIN Tail(waiting_tasks) : Tail(waiting_tasks)[i] /= t
    <2>1. 1 \in DOMAIN waiting_tasks /\ waiting_tasks[1] = t /\ t \in Tasks
      BY HeadTail DEF Load, TypeOK
    <2>2. thread[t] = "new"
      BY <2>1 DEF Places
    <2>3. t \notin running_tasks /\ events[t] = <<>>
      BY <2>1, <2>2 DEF Places, Ended
    <2>4. \A i \in DOMAIN Tail(waiting_tasks) : Tail(waiting_tasks)[i] /= t
      BY <2>1, HeadTail DEF Load, TypeOK, Places
    <2> QED BY <2>1, <2>2, <2>3, <2>4
  <1>2. /\ events' = [u \in Tasks |-> IF u = t THEN W ELSE events[u]]
        /\ thread' = [thread EXCEPT ![t] = "run"]
        /\ running_tasks' = running_tasks \cup {t}
    BY <1>1, EventSequences, ZenonT(60) DEF Load, Notify
  <1>3. TypeOK'
    <2>1. waiting_tasks' \in Seq(Tasks)
      BY HeadTail DEF Load, TypeOK
    <2>2. timeout_queue' \in Seq(Tasks)
      BY <1>1, Appended DEF Load, TypeOK
    <2>3. running_count' \in 0..Capacity
      BY CapacityAssumption DEF Load, TypeOK, has_room
    <2>4. events' \in [Tasks -> Seq({"wait", "timeout", "finished"})]
      BY <1>2, EventSequences DEF TypeOK, EventKinds
    <2> QED BY <1>1, <1>2, <2>1, <2>2, <2>3, <2>4, SMTT(60) DEF Load, TypeOK
  <1>4. Slots'
    <2>1. Cardinality(running_tasks') = Cardinality(running_tasks) + 1
      <3>1. IsFiniteSet(running_tasks)
        BY TasksFinite, FS_Subset DEF TypeOK
      <3> QED BY <1>1, <1>2, <3>1, FS_AddElement, Zenon
    <2>2. Cardinality(running_tasks) \in Nat
      BY TasksFinite, FS_Subset, FS_CardinalityType DEF TypeOK
    <2>3. \A u \in Tasks : thread'[u] \in {"run", "sent"} => u \in running_tasks'
      BY <1>1, <1>2 DEF TypeOK, Slots
    <2> QED BY <2>1, <2>2, <2>3, SMTT(60) DEF Load, TypeOK, Slots
  <1>5. Places'
    <2>1. \A i, j \in DOMAIN waiting_tasks' : waiting_tasks'[i] = waiting_tasks'[j] => i = j
      BY HeadTail, SMTT(60) DEF Load, TypeOK, Places
    <2>2. \A i \in DOMAIN waiting_tasks' : thread'[waiting_tasks'[i]] = "new"
      BY <1>1, <1>2, HeadTail DEF Load, TypeOK, Places
    <2>3. \A u \in Tasks : thread'[u] = "new" => \E i \in DOMAIN waiting_tasks' : waiting_tasks'[i] = u
      <3> SUFFICES ASSUME NEW u \in Tasks, thread'[u] = "new"
                   PROVE  \E i \in DOMAIN waiting_tasks' : waiting_tasks'[i] = u
        OBVIOUS
      <3>1. u /= t /\ thread[u] = "new"
        BY <1>1, <1>2 DEF TypeOK
      <3>2. PICK i \in DOMAIN waiting_tasks : waiting_tasks[i] = u
        BY <3>1 DEF Places
      <3> QED BY <3>1, <3>2, HeadTail, Zenon DEF Load, TypeOK
    <2>4. \A u \in Tasks \ {t} : thread'[u] = thread[u] /\ events'[u] = events[u]
                                   /\ (u \in running_tasks' <=> u \in running_tasks)
      BY <1>2 DEF TypeOK
    <2>5. thread'[t] = "run" /\ events'[t] = W /\ t \in running_tasks'
      BY <1>1, <1>2 DEF TypeOK
    <2>6. \A i \in DOMAIN timeout_queue' :
            timeout_queue'[i] \in running_tasks' => events'[timeout_queue'[i]] = W
      <3> SUFFICES ASSUME NEW i \in DOMAIN timeout_queue', timeout_queue'[i] \in running_tasks'
                   PROVE  events'[timeout_queue'[i]] = W
        OBVIOUS
      <3>1. CASE i \in DOMAIN timeout_queue /\ timeout_queue'[i] = timeout_queue[i]
        <4>1. timeout_queue[i] \in Tasks
          BY <3>1 DEF TypeOK
        <4> QED BY <3>1, <4>1, <2>4, <2>5 DEF Places
      <3>2. CASE timeout_queue'[i] = t
        BY <3>2, <2>5
      <3> QED BY <1>1, <3>1, <3>2, Appended, SMTT(60) DEF Load, TypeOK
    <2>7. UNCHANGED <<pc, finished_task, result>>
      BY DEF Load
    <2> QED BY <2>1, <2>2, <2>3, <2>4, <2>5, <2>6, <2>7, SMTT(60) DEF Places
  <1>6. Results'
    <2>1. \A u \in running_tasks : thread'[u] = thread[u] /\ u \in running_tasks'
      BY <1>1, <1>2 DEF TypeOK
    <2>2. pc = "load" /\ UNCHANGED <<pc, channel, finished_task, result>>
      BY DEF Load
    <2> QED BY <2>1, <2>2 DEF Results
  <1> QED BY <1>3, <1>4, <1>5, <1>6

(* Nothing is left to load: the executor waits, or is done. *)
LEMMA InvLoaded == IInv /\ Loaded => IInv'
  <1> SUFFICES ASSUME IInv, Loaded PROVE IInv'
    OBVIOUS
  <1> USE DEF IInv
  <1>1. UNCHANGED <<waiting_tasks, running_tasks, running_count, timeout_queue, late,
                    channel, finished_task, thread, events>> /\ pc = "load"
    BY DEF Loaded, LoadedWith
  <1>2. \/ pc' = "returned" /\ result' = "Ok" /\ rx' = "dropped" /\ running_count = 0
        \/ pc' = "receive" /\ UNCHANGED <<result, rx>>
    BY DEF Loaded, LoadedWith, Return, Goto
  <1>3. TypeOK'
    BY <1>1, <1>2 DEF TypeOK
  <1>4. Slots'
    BY <1>1, <1>2 DEF Slots
  <1>5. running_count = 0 => waiting_tasks = <<>> /\ running_tasks = {}
    <2>1. running_count = 0 => waiting_tasks = <<>>
      BY CapacityAssumption DEF Loaded, LoadedWith, has_room
    <2>2. IsFiniteSet(running_tasks) /\ Cardinality(running_tasks) \in Nat
      BY TasksFinite, FS_Subset, FS_CardinalityType DEF TypeOK
    <2>3. running_count = 0 => Cardinality(running_tasks) = 0
      BY <1>1, <2>2 DEF Slots
    <2> QED BY <2>1, <2>2, <2>3, FS_EmptySet
  <1>6. Places'
    BY <1>1, <1>2 DEF Places
  <1>7. Results'
    BY <1>1, <1>2, <1>5 DEF Results
  <1> QED BY <1>3, <1>4, <1>6, <1>7

(* A result is received. *)
LEMMA InvReceive == IInv /\ Receive => IInv'
  <1> SUFFICES ASSUME IInv, Receive PROVE IInv'
    OBVIOUS
  <1> USE DEF IInv
  <1>1. /\ UNCHANGED <<waiting_tasks, running_tasks, running_count, timeout_queue, late, rx,
                       thread, events, result>>
        /\ pc = "receive" /\ pc' \in {"join", "check"}
        /\ finished_task' = Head(channel) /\ channel' = Tail(channel) /\ channel /= <<>>
    BY DEF Receive, Goto
  <1>2. /\ finished_task' \in [task : Tasks, status : TaskStatus]
        /\ channel' \in Seq([task : Tasks, status : TaskStatus])
    BY <1>1, HeadTail, Zenon DEF TypeOK
  <1>3. finished_task' /= NoResult
    BY <1>2, NoTaskAssumption DEF NoResult
  <1>4. TypeOK'
    BY <1>1, <1>2, Zenon DEF TypeOK
  <1>5. Slots'
    BY <1>1 DEF Slots
  <1>6. Places'
    BY <1>1 DEF Places
  <1>7. Results'
    <2>1. 1 \in DOMAIN channel /\ channel[1] = finished_task'
      BY <1>1, HeadTail DEF TypeOK
    <2>2. finished_task'.task \in running_tasks /\ thread[finished_task'.task] \in Heard
      BY <2>1 DEF Results
    <2>3. \A i \in DOMAIN channel' : i + 1 \in DOMAIN channel /\ i + 1 /= 1 /\ channel'[i] = channel[i + 1] /\ i \in Nat
      BY <1>1, HeadTail DEF TypeOK
    <2>4. \A i \in DOMAIN channel' :
             /\ channel'[i].task \in running_tasks
             /\ thread[channel'[i].task] \in Heard
             /\ channel'[i].task /= finished_task'.task
      BY <2>1, <2>3 DEF Results
    <2>5. \A i, j \in DOMAIN channel' : channel'[i].task = channel'[j].task => i = j
      BY <2>3, SMTT(60) DEF Results
    <2> QED BY <1>1, <1>3, <2>2, <2>4, <2>5 DEF Results
  <1> QED BY <1>4, <1>5, <1>6, <1>7

(* No result before the deadline. *)
LEMMA InvReceiveTimeout == IInv /\ ReceiveTimeout => IInv'
  BY DEF IInv, ReceiveTimeout, Goto, TypeOK, Slots, Places, Results

(* The tasks that timed out are reported. *)
LEMMA InvCheck == IInv /\ all_timed_out_tasks_info => IInv'
  <1> SUFFICES ASSUME IInv, all_timed_out_tasks_info PROVE IInv'
    OBVIOUS
  <1> USE DEF IInv
  <1> DEFINE timed_out == IF late THEN Queued \cap running_tasks ELSE {}
  <1>1. /\ UNCHANGED <<waiting_tasks, running_tasks, running_count, late, channel, rx,
                       finished_task, thread, result>>
        /\ pc = "check"
        /\ pc' = IF finished_task = NoResult THEN "receive" ELSE "join"
        /\ timeout_queue' = IF late THEN <<>> ELSE timeout_queue
    BY DEF all_timed_out_tasks_info, CheckWith, Goto
  <1>2. events' = [t \in Tasks |-> IF t \in timed_out THEN Append(events[t], "timeout") ELSE events[t]]
    BY DEF all_timed_out_tasks_info, CheckWith, Notify
  <1>3. \A t \in timed_out : t \in running_tasks /\ t \in Tasks /\ events[t] = W
    BY DEF Queued, Places, TypeOK
  <1>4. events' = [t \in Tasks |-> IF t \in timed_out THEN WT ELSE events[t]]
    BY <1>2, <1>3, EventSequences, ZenonT(60)
  <1> HIDE DEF timed_out
  <1>5. TypeOK'
    <2>1. events' \in [Tasks -> Seq({"wait", "timeout", "finished"})]
      BY <1>4, EventSequences DEF TypeOK, EventKinds
    <2>2. timeout_queue' \in Seq(Tasks)
      BY <1>1 DEF TypeOK
    <2> QED BY <1>1, <2>1, <2>2 DEF TypeOK
  <1>6. Slots'
    BY <1>1 DEF Slots
  <1>7. Places'
    <2>1. \A t \in Tasks : IF t \in timed_out THEN events'[t] = WT ELSE events'[t] = events[t]
      BY <1>4
    <2>2. \A i \in DOMAIN timeout_queue' :
            timeout_queue'[i] \in running_tasks' => events'[timeout_queue'[i]] = W
      <3>1. CASE late
        BY <3>1, <1>1
      <3>2. CASE ~late
        <4>1. timeout_queue' = timeout_queue /\ events' = events
          BY <3>2, <1>1, <1>2 DEF timed_out, TypeOK
        <4> QED BY <4>1, <1>1 DEF Places
      <3> QED BY <3>1, <3>2 DEF TypeOK
    <2>3. \A t \in Tasks :
          \/ thread[t] = "new" /\ t \notin running_tasks /\ events'[t] = <<>>
          \/ t \in running_tasks /\ thread[t] /= "new" /\ events'[t] \in {W, WT}
          \/ t \notin running_tasks /\ thread[t] \in Ended /\ events'[t] \in {WF, WTF}
      BY <1>1, <1>3, <2>1 DEF Places
    <2> QED BY <1>1, <2>2, <2>3 DEF Places
  <1>8. Results'
    BY <1>1 DEF Results
  <1> QED BY <1>5, <1>6, <1>7, <1>8

(* A thread is joined. *)
LEMMA InvJoin == IInv /\ Join => IInv'
  <1> SUFFICES ASSUME IInv, Join PROVE IInv'
    OBVIOUS
  <1> USE DEF IInv
  <1> DEFINE t == finished_task.task
  <1>1. /\ pc = "join" /\ finished_task \in [task : Tasks, status : TaskStatus]
        /\ t \in running_tasks /\ t \in Tasks
    BY DEF Join, Results, TypeOK
  <1>2. /\ thread[t] \in Ended
        /\ running_tasks' = running_tasks \ {t}
        /\ pc' = "report"
        /\ UNCHANGED <<result, rx, waiting_tasks, running_count, timeout_queue, late, channel,
                       thread, events>>
    BY <1>1 DEF Join, Goto, Ended
  <1>3. finished_task' \in [task : Tasks, status : TaskStatus] /\ finished_task'.task = t
    BY <1>1 DEF Join, TaskStatus
  <1>4. finished_task' /= NoResult
    BY <1>3, NoTaskAssumption DEF NoResult
  <1>5. TypeOK'
    BY <1>2, <1>3 DEF TypeOK
  <1>6. Slots'
    <2>1. IsFiniteSet(running_tasks) /\ Cardinality(running_tasks) \in Nat
      BY TasksFinite, FS_Subset, FS_CardinalityType DEF TypeOK
    <2>2. Cardinality(running_tasks') = Cardinality(running_tasks) - 1
      BY <1>1, <1>2, <2>1, FS_RemoveElement, ZenonT(60)
    <2>3. \A u \in Tasks : thread'[u] \in {"run", "sent"} => u \in running_tasks'
      BY <1>2 DEF Slots, Ended
    <2> QED BY <1>1, <1>2, <2>1, <2>2, <2>3, SMTT(60) DEF Slots, TypeOK
  <1>7. events[t] \in {W, WT}
    BY <1>1, SMTT(60) DEF Places
  <1>8. Places'
    <2>1. \A u \in Tasks \ {t} : u \in running_tasks' <=> u \in running_tasks
      BY <1>2, SMTT(60)
    <2>2. result /= "Ok"
      BY <1>1 DEF Results
    <2>3. \A u \in Tasks :
          \/ thread[u] = "new" /\ u \notin running_tasks' /\ events[u] = <<>>
          \/ u \in running_tasks' /\ thread[u] /= "new" /\ events[u] \in {W, WT}
          \/ u = t /\ u \notin running_tasks' /\ thread[u] \in Ended /\ events[u] \in {W, WT}
          \/ u \notin running_tasks' /\ thread[u] \in Ended /\ events[u] \in {WF, WTF}
      BY <1>1, <1>2, <1>7, <2>1, SMTT(60) DEF Places
    <2>4. \A i \in DOMAIN timeout_queue :
            timeout_queue[i] \in running_tasks' => events[timeout_queue[i]] = W
      BY <1>2 DEF Places
    <2> QED BY <1>2, <1>3, <2>2, <2>3, <2>4 DEF Places
  <1>9. Results'
    <2>1. \A i \in DOMAIN channel : channel[i].task \in running_tasks'
      BY <1>1, <1>2 DEF Results
    <2> QED BY <1>1, <1>2, <1>3, <1>4, <1>7, <2>1, SMTT(60) DEF Results
  <1> QED BY <1>5, <1>6, <1>8, <1>9

(* A joined task is reported. *)
LEMMA InvReport == IInv /\ Report => IInv'
  <1> SUFFICES ASSUME IInv, Report PROVE IInv'
    OBVIOUS
  <1> USE DEF IInv
  <1> DEFINE t == finished_task.task
  <1>1. /\ pc = "report" /\ finished_task \in [task : Tasks, status : TaskStatus] /\ t \in Tasks
        /\ t \notin running_tasks /\ thread[t] \in Ended /\ events[t] \in {W, WT}
    BY DEF Report, ReportWith, Results, TypeOK
  <1>2. UNCHANGED <<waiting_tasks, running_tasks, timeout_queue, late, channel, thread>>
    BY DEF Report, ReportWith
  <1>3. CASE finished_task.status = "Bug"
    <2>1. pc' = "returned" /\ result' = "Bug" /\ rx' = "forgotten"
            /\ UNCHANGED <<events, running_count, finished_task>>
      BY <1>3, <1>1 DEF Report, ReportWith, Return, Goto
    <2>2. TypeOK'
      BY <1>2, <2>1 DEF TypeOK
    <2>3. Slots'
      <3>1. Cardinality(running_tasks) \in Nat
        BY TasksFinite, FS_Subset, FS_CardinalityType DEF TypeOK
      <3> QED BY <1>1, <1>2, <2>1, <3>1, SMTT(60) DEF Slots, TypeOK
    <2>4. Places'
      BY <1>1, <1>2, <2>1 DEF Places
    <2>5. Results'
      BY <1>1, <1>2, <2>1 DEF Results
    <2> QED BY <2>2, <2>3, <2>4, <2>5
  <1>4. CASE finished_task.status /= "Bug"
    <2>1. /\ pc' = "load" /\ UNCHANGED <<result, rx>> /\ finished_task' = NoResult
          /\ running_count' = running_count - 1
          /\ events' = [u \in Tasks |-> IF u = t THEN Append(events[t], "finished") ELSE events[u]]
      BY <1>4, <1>1 DEF Report, ReportWith, Notify, Goto
    <2>2. /\ events'[t] \in {WF, WTF}
          /\ \A u \in Tasks \ {t} : events'[u] = events[u]
      BY <1>1, <2>1, EventSequences
    <2>3. Slots' /\ running_count' \in 0..Capacity
      <3>1. Cardinality(running_tasks) \in Nat
        BY TasksFinite, FS_Subset, FS_CardinalityType DEF TypeOK
      <3>2. Cardinality(running_tasks) + 1 <= running_count /\ running_count \in 0..Capacity
        BY <1>1 DEF Slots, TypeOK
      <3> QED BY <1>1, <1>2, <2>1, <3>1, <3>2, CapacityAssumption, SMTT(60) DEF Slots
    <2>4. TypeOK'
      <3>1. events' \in [Tasks -> Seq({"wait", "timeout", "finished"})]
        <4>1. \A u \in Tasks : events'[u] \in Seq({"wait", "timeout", "finished"})
          BY <2>2, EventSequences, ZenonT(60) DEF TypeOK, EventKinds
        <4> QED BY <2>1, <4>1
      <3> QED BY <1>2, <2>1, <2>3, <3>1 DEF TypeOK
    <2>5. Places'
      <3>1. \A u \in Tasks :
            \/ thread[u] = "new" /\ u \notin running_tasks /\ events'[u] = <<>>
            \/ u \in running_tasks /\ thread[u] /= "new" /\ events'[u] \in {W, WT}
            \/ u \notin running_tasks /\ thread[u] \in Ended /\ events'[u] \in {WF, WTF}
        BY <1>1, <2>2, SMTT(60) DEF Places
      <3>2. \A i \in DOMAIN timeout_queue :
              timeout_queue[i] \in running_tasks => events'[timeout_queue[i]] = W
        BY <1>1, <2>2, SMTT(60) DEF Places, TypeOK
      <3> QED BY <1>2, <2>1, <3>1, <3>2, SMTT(60) DEF Places
    <2>6. Results'
      BY <1>1, <1>2, <2>1 DEF Results
    <2> QED BY <2>3, <2>4, <2>5, <2>6
  <1> QED BY <1>3, <1>4

(* The notifier fails. *)
LEMMA InvNotifyFails == IInv /\ NotifyFails => IInv'
  <1> SUFFICES ASSUME IInv, NotifyFails PROVE IInv'
    OBVIOUS
  <1> USE DEF IInv
  <1>1. /\ pc \in {"load", "check", "report"} /\ pc' = "returned" /\ result' = "Err" /\ rx' = "dropped"
        /\ UNCHANGED <<waiting_tasks, running_tasks, running_count, late, channel,
                       finished_task, thread>>
    BY DEF NotifyFails, Return, Goto
  <1>2. Slots'
    <2>1. Cardinality(running_tasks) \in Nat
      BY TasksFinite, FS_Subset, FS_CardinalityType DEF TypeOK
    <2> QED BY <1>1, <2>1, SMTT(60) DEF Slots, TypeOK
  <1>3. Results'
    BY <1>1 DEF Results
  <1>4. CASE UNCHANGED <<timeout_queue, events>>
    <2>1. TypeOK'
      BY <1>1, <1>4 DEF TypeOK
    <2>2. Places'
      BY <1>1, <1>4 DEF Places
    <2> QED BY <1>2, <1>3, <2>1, <2>2
  <1>5. ASSUME pc = "check", timeout_queue' = <<>>, NEW i \in DOMAIN timeout_queue,
               Notify({timeout_queue[j] : j \in 1..(i - 1)} \cap running_tasks, "timeout")
        PROVE  IInv'
    <2> DEFINE told == {timeout_queue[j] : j \in 1..(i - 1)} \cap running_tasks
    <2>1. \A t \in told : t \in running_tasks /\ t \in Tasks /\ events[t] = W
      <3>1. \A j \in 1..(i - 1) : j \in DOMAIN timeout_queue
        BY DEF TypeOK
      <3> QED BY <3>1 DEF Places, TypeOK
    <2>2. events' = [t \in Tasks |-> IF t \in told THEN WT ELSE events[t]]
      BY <1>5, <2>1, EventSequences, ZenonT(60) DEF Notify
    <2> HIDE DEF told
    <2>3. TypeOK'
      <3>1. events' \in [Tasks -> Seq({"wait", "timeout", "finished"})]
        BY <2>2, EventSequences, SMTT(60) DEF TypeOK, EventKinds
      <3> QED BY <1>1, <1>5, <3>1 DEF TypeOK
    <2>4. Places'
      <3>1. \A t \in Tasks : IF t \in told THEN events'[t] = WT ELSE events'[t] = events[t]
        BY <2>2
      <3>2. \A t \in Tasks :
            \/ thread[t] = "new" /\ t \notin running_tasks /\ events'[t] = <<>>
            \/ t \in running_tasks /\ thread[t] /= "new" /\ events'[t] \in {W, WT}
            \/ t \notin running_tasks /\ thread[t] \in Ended /\ events'[t] \in {WF, WTF}
        BY <1>5, <2>1, <3>1 DEF Places
      <3> QED BY <1>1, <1>5, <3>2 DEF Places
    <2> QED BY <1>2, <1>3, <2>3, <2>4, SMTT(60)
  <1> QED BY <1>4, <1>5, ZenonT(60) DEF NotifyFails

(* A thread moves on without a result: what the executor knows stays true. *)
LEMMA InvThread ==
    ASSUME IInv, NEW t \in Tasks, NEW from, NEW to,
           ThreadGoes(t, from, to), UNCHANGED <<mainVars, channel>>, late' \in BOOLEAN,
           \/ from = "run" /\ to \in {"silent", "unsent"}
           \/ from = "sent" /\ to \in Ended
    PROVE  IInv'
  <1> USE DEF IInv
  <1>1. /\ thread[t] = from /\ thread'[t] = to
        /\ \A u \in Tasks \ {t} : thread'[u] = thread[u]
        /\ thread' \in [Tasks -> {"new", "run", "sent", "done", "panicked", "silent", "unsent"}]
    BY DEF ThreadGoes, TypeOK, Ended
  <1>2. UNCHANGED <<pc, waiting_tasks, running_tasks, running_count, timeout_queue, rx,
                    finished_task, events, result, channel>>
    BY DEF mainVars
  <1>3. t \in running_tasks
    BY <1>1 DEF Slots
  <1>4. TypeOK'
    BY <1>1, <1>2 DEF TypeOK
  <1>5. Slots'
    BY <1>1, <1>2, <1>3, SMTT(60) DEF Slots
  <1>6. Places'
    <2>1. \A i \in DOMAIN waiting_tasks : thread'[waiting_tasks[i]] = "new"
      BY <1>1 DEF Places, TypeOK
    <2>2. \A u \in Tasks : thread'[u] = "new" => thread[u] = "new"
      BY <1>1 DEF Ended
    <2>3. \A u \in Tasks : thread[u] \in Ended => thread'[u] = thread[u]
      BY <1>1 DEF Ended
    <2>4. \A u \in Tasks : u \in running_tasks => thread'[u] /= "new"
      BY <1>1 DEF Places, Ended
    <2>5. \A u \in Tasks : thread[u] = "new" => thread'[u] = "new"
      BY <1>1, SMTT(60)
    <2> QED BY <1>2, <2>1, <2>2, <2>3, <2>4, <2>5, SMTT(60) DEF Places
  <1>7. Results'
    <2>1. \A u \in Tasks : thread[u] \in Heard => thread'[u] \in Heard
      BY <1>1 DEF Heard, Ended
    <2>2. \A u \in Tasks : thread[u] \in Ended => thread'[u] \in Ended
      BY <1>1 DEF Ended
    <2> QED BY <1>2, <2>1, <2>2, SMTT(60) DEF Results, TypeOK
  <1> QED BY <1>4, <1>5, <1>6, <1>7

(* A thread sends its result. *)
LEMMA InvSend == ASSUME NEW t \in Tasks, NEW status \in TaskStatus, IInv, Send(t, status) PROVE IInv'
  <1>1. CASE rx = "dropped"
    <2>1. ThreadGoes(t, "run", "unsent") /\ UNCHANGED <<mainVars, channel>> /\ late' \in BOOLEAN
      BY <1>1 DEF Send, IInv, TypeOK
    <2> QED BY <2>1, InvThread
  <1>2. CASE rx /= "dropped"
    <2> USE DEF IInv
    <2> DEFINE r == [task |-> t, status |-> status]
    <2>1. /\ thread[t] = "run" /\ thread'[t] = "sent"
          /\ \A u \in Tasks \ {t} : thread'[u] = thread[u]
          /\ thread' \in [Tasks -> {"new", "run", "sent", "done", "panicked", "silent", "unsent"}]
      BY <1>2, ZenonT(60) DEF Send, ThreadGoes, TypeOK
    <2>2. UNCHANGED <<pc, waiting_tasks, running_tasks, running_count, timeout_queue, rx,
                      finished_task, events, result, late>>
      BY DEF Send, mainVars
    <2>3. channel' = Append(channel, r) /\ r \in [task : Tasks, status : TaskStatus] /\ r.task = t
      BY <1>2 DEF Send
    <2>4. t \in running_tasks
      BY <2>1 DEF Slots
    <2>5. TypeOK'
      <3>1. channel' \in Seq([task : Tasks, status : TaskStatus])
        BY <2>3, Appended DEF TypeOK
      <3> QED BY <2>1, <2>2, <3>1, SMTT(60) DEF TypeOK
    <2>6. Slots'
      BY <2>1, <2>2, <2>4, SMTT(60) DEF Slots
    <2>7. Places'
      <3>1. \A i \in DOMAIN waiting_tasks : thread'[waiting_tasks[i]] = "new"
        BY <2>1 DEF Places, TypeOK
      <3>2. \A u \in Tasks : thread'[u] = "new" <=> thread[u] = "new"
        BY <2>1
      <3>3. \A u \in Tasks : thread[u] \in Ended => thread'[u] \in Ended
        BY <2>1, SMTT(60) DEF Ended
      <3> QED BY <2>2, <3>1, <3>2, <3>3, SMTT(60) DEF Places
    <2>8. Results'
      <3>1. \A u \in Tasks : thread[u] \in Heard => thread'[u] \in Heard /\ u /= t
        BY <2>1, SMTT(60) DEF Heard, Ended
      <3>2. \A i \in DOMAIN channel : channel[i].task \in Tasks /\ channel[i].task /= t
        BY <3>1, SMTT(60) DEF Results, TypeOK
      <3>3. \A i \in DOMAIN channel' : (i \in DOMAIN channel /\ channel'[i] = channel[i])
                                       \/ (i \notin DOMAIN channel /\ i = Len(channel) + 1 /\ channel'[i] = r)
        BY <2>3, Appended, SMTT(60) DEF TypeOK
      <3>4. \A i, j \in DOMAIN channel' : channel'[i].task = channel'[j].task => i = j
        BY <2>3, <3>2, <3>3 DEF Results
      <3>5. pc \in {"check", "join"} => finished_task.task /= t
        <4>1. CASE finished_task = NoResult
          BY <4>1, NoTaskAssumption, SMTT(60) DEF NoResult
        <4>2. CASE finished_task /= NoResult
          BY <4>2, <3>1, SMTT(60) DEF Results, TypeOK
        <4> QED BY <4>1, <4>2
      <3>6. \A i \in DOMAIN channel' :
               /\ channel'[i].task \in running_tasks
               /\ thread'[channel'[i].task] \in Heard
               /\ pc \in {"check", "join"} => channel'[i].task /= finished_task.task
        <4>1. TAKE i \in DOMAIN channel'
        <4>2. CASE i \in DOMAIN channel /\ channel'[i] = channel[i]
          BY <4>2, <3>1, <3>2, SMTT(60) DEF Results
        <4>3. CASE channel'[i] = r
          BY <4>3, <2>1, <2>3, <2>4, <3>5, SMTT(60) DEF Heard
        <4> QED BY <3>3, <4>2, <4>3
      <3>7. \A u \in Tasks : thread[u] \in Ended => thread'[u] \in Ended
        BY <2>1 DEF Ended
      <3> QED BY <2>2, <3>1, <3>4, <3>6, <3>7, SMTT(60) DEF Results, TypeOK
    <2> QED BY <2>5, <2>6, <2>7, <2>8, SMTT(60)
  <1> QED BY <1>1, <1>2

(* Every step preserves the invariant. *)
LEMMA InvStep == IInv /\ [Next]_vars => IInv'
  <1> SUFFICES ASSUME IInv, [Next]_vars PROVE IInv'
    OBVIOUS
  <1>1. ASSUME NEW t \in Tasks, PanicSilently(t) \/ End(t) \/ PanicAfter(t) PROVE IInv'
    <2>1. UNCHANGED <<mainVars, channel>> /\ late' \in BOOLEAN
      BY <1>1 DEF PanicSilently, End, PanicAfter, IInv, TypeOK
    <2>2. CASE PanicSilently(t)
      BY <2>1, <2>2, InvThread DEF PanicSilently
    <2>3. CASE End(t)
      BY <2>1, <2>3, InvThread DEF End, Ended
    <2>4. CASE PanicAfter(t)
      BY <2>1, <2>4, InvThread, SMTT(60) DEF PanicAfter, Ended
    <2> QED BY <1>1, <2>2, <2>3, <2>4
  <1>2. CASE PassDeadline
    BY <1>2, SMTT(60) DEF PassDeadline, mainVars, IInv, TypeOK, Slots, Places, Results
  <1>3. CASE UNCHANGED vars
    BY <1>3 DEF vars, mainVars, IInv, TypeOK, Slots, Places, Results
  <1> QED BY <1>1, <1>2, <1>3, InvLoad, InvLoaded, InvReceive, InvReceiveTimeout, InvCheck, InvJoin,
             InvReport, InvNotifyFails, InvSend, SMTT(60) DEF Next
-----------------------------------------------------------------------------
(* The inductive invariant holds always. *)
THEOREM Invariant == Spec => []IInv
  BY InvInit, InvStep, PTL DEF Spec

(* The variables of run_all_tasks and of the threads keep their types, and   *)
(* running_count stays between zero and concurrency_capacity.                *)
THEOREM TypeCorrect == Spec => []TypeOK
  <1>1. IInv => TypeOK
    BY DEF IInv
  <1> QED BY <1>1, Invariant, PTL

(* However many tasks there are, never more than concurrency_capacity of     *)
(* them run at a time.                                                       *)
THEOREM CapacityKept == Spec => []AtMostCapacity
  <1>1. IInv => AtMostCapacity
    <2> SUFFICES ASSUME IInv PROVE AtMostCapacity
      OBVIOUS
    <2> DEFINE alive == {t \in Tasks : thread[t] \in {"run", "sent"}}
    <2>1. alive \subseteq running_tasks /\ IsFiniteSet(running_tasks)
      BY TasksFinite, FS_Subset DEF IInv, Slots, TypeOK
    <2>2. /\ Cardinality(alive) <= Cardinality(running_tasks)
          /\ Cardinality(alive) \in Nat /\ Cardinality(running_tasks) \in Nat
      BY <2>1, FS_Subset, FS_CardinalityType
    <2>3. Cardinality(running_tasks) <= running_count /\ running_count \in 0..Capacity
      BY <2>2 DEF IInv, Slots, TypeOK
    <2> QED BY <2>2, <2>3, CapacityAssumption DEF AtMostCapacity
  <1> QED BY <1>1, Invariant, PTL

(* For any number of tasks the notifier hears of each one in order and at    *)
(* most once of each event, whatever results race the deadline.              *)
THEOREM EventOrder == Spec => []EventsInOrder
  <1>1. IInv => EventsInOrder
    BY ZenonT(60) DEF IInv, Places, EventsInOrder, W, WT, WF, WTF
  <1> QED BY <1>1, Invariant, PTL

(* A "finished" among the events of a task tells that it has been joined. *)
LEMMA ReportedIs ==
    ASSUME IInv, NEW t \in Tasks
    PROVE  /\ Reported(t) => events[t] \in {WF, WTF} /\ thread[t] \in Ended
           /\ events[t] \in {WF, WTF} => Reported(t)
  <1>1. /\ \A i \in DOMAIN W : W[i] /= "finished"
        /\ \A i \in DOMAIN WT : WT[i] /= "finished"
        /\ \A i \in DOMAIN <<>> : <<>>[i] /= "finished"
    BY DEF W, WT
  <1>2. /\ 2 \in DOMAIN WF /\ WF[2] = "finished"
        /\ 3 \in DOMAIN WTF /\ WTF[3] = "finished"
    BY DEF WF, WTF
  <1>3. events[t] \in {WF, WTF} => Reported(t)
    BY <1>2 DEF Reported
  <1>4. events[t] \in {<<>>, W, WT} => ~Reported(t)
    BY <1>1 DEF Reported
  <1> QED BY <1>3, <1>4 DEF IInv, Places

(* A task is reported finished only when its thread has been joined. *)
THEOREM FinishedEnded == Spec => []FinishedHasEnded
  <1>1. IInv => FinishedHasEnded
    BY ReportedIs, SMTT(60) DEF FinishedHasEnded, Ended
  <1> QED BY <1>1, Invariant, PTL

(* The panic of run_all_tasks on a result of a task it does not run is dead  *)
(* code, for any number of tasks and any order of results and timeouts.      *)
THEOREM NoUnexpectedResult == Spec => []ResultsAreExpected
  <1>1. IInv => ResultsAreExpected
    BY DEF IInv, Results, ResultsAreExpected
  <1> QED BY <1>1, Invariant, PTL

(* run_all_tasks returns Ok only when each of its tasks was run and reported *)
(* finished.                                                                 *)
THEOREM OkIsComplete == Spec => []OkMeansAllFinished
  <1>1. IInv => OkMeansAllFinished
    <2> SUFFICES ASSUME IInv, result = "Ok", NEW t \in Tasks PROVE Reported(t)
      BY DEF OkMeansAllFinished
    <2>1. waiting_tasks = <<>> /\ running_tasks = {}
      BY DEF IInv, Results
    <2>2. thread[t] /= "new"
      BY <2>1 DEF IInv, Places
    <2>3. events[t] \in {WF, WTF}
      BY <2>1, <2>2 DEF IInv, Places
    <2> QED BY <2>3, ReportedIs
  <1> QED BY <1>1, Invariant, PTL

(* Receiver is preserved: it needs the other invariants. *)
LEMMA ReceiverStep == IInv /\ IInv' /\ Receiver /\ [Next]_vars => Receiver'
  <1> SUFFICES ASSUME IInv, IInv', Receiver, [Next]_vars PROVE Receiver'
    BY SMTT(60)
  <1>1. result = "Ok" => \A t \in Tasks : thread[t] /= "run"
    BY SMTT(60) DEF IInv, Slots, Results
  <1>2. result' /= "Panic" /\ (result = "none" <=> pc /= "returned")
    BY DEF IInv, Results
  <1>3. ASSUME NEW t \in Tasks, NEW s \in TaskStatus, Send(t, s) PROVE Receiver'
    <2>1. UNCHANGED <<result, rx>> /\ thread[t] = "run"
      BY <1>3, SMTT(60) DEF Send, mainVars, ThreadGoes
    <2>2. \A u \in Tasks \ {t} : thread'[u] = thread[u]
      BY <1>3 DEF Send, ThreadGoes, IInv, TypeOK
    <2>3. thread'[t] = "unsent" => rx = "dropped"
      BY <1>3 DEF Send, ThreadGoes, IInv, TypeOK
    <2> QED BY <1>1, <2>1, <2>2, <2>3, SMTT(60) DEF Receiver
  <1>4. ASSUME NEW t \in Tasks, PanicSilently(t) \/ End(t) \/ PanicAfter(t) PROVE Receiver'
    <2>1. UNCHANGED <<result, rx>>
      BY <1>4 DEF PanicSilently, End, PanicAfter, mainVars
    <2>2. \A u \in Tasks : thread'[u] = "unsent" => thread[u] = "unsent"
      BY <1>4, SMTT(60) DEF PanicSilently, End, PanicAfter, ThreadGoes, IInv, TypeOK
    <2> QED BY <2>1, <2>2 DEF Receiver
  <1>5. ASSUME UNCHANGED thread, UNCHANGED <<result, rx>> PROVE Receiver'
    BY <1>5 DEF Receiver
  <1>6. CASE Load
    <2>1. \A u \in Tasks : thread'[u] = "unsent" => thread[u] = "unsent"
      BY <1>6 DEF Load, IInv, TypeOK
    <2> QED BY <1>6, <2>1 DEF Load, Receiver
  <1>7. ASSUME result = "none", UNCHANGED thread, rx' = "dropped" => result' \in {"Ok", "Err", "Panic"},
               result' \in {"Ok", "Err", "Panic", "Bug"}
        PROVE  Receiver'
    BY <1>2, <1>7 DEF Receiver
  <1>8. CASE Loaded
    BY <1>2, <1>5, <1>7, <1>8 DEF Loaded, LoadedWith, Return, Goto
  <1>9. CASE Join
    BY <1>2, <1>5, <1>7, <1>9 DEF Join, Return, Goto
  <1>10. CASE Report
    BY <1>2, <1>5, <1>7, <1>10, SMTT(60) DEF Report, ReportWith, Return, Goto
  <1>11. CASE NotifyFails
    BY <1>2, <1>5, <1>7, <1>11, SMTT(60) DEF NotifyFails, Return, Goto
  <1>12. CASE Receive \/ ReceiveTimeout \/ all_timed_out_tasks_info
    BY <1>5, <1>12 DEF Receive, ReceiveTimeout, all_timed_out_tasks_info, CheckWith
  <1>13. CASE PassDeadline \/ UNCHANGED vars
    BY <1>5, <1>13 DEF PassDeadline, vars, mainVars
  <1> QED BY <1>3, <1>4, <1>6, <1>8, <1>9, <1>10, <1>11, <1>12, <1>13, SMTT(60) DEF Next

(* A thread finds the receiver gone, and panics in its send, only when the   *)
(* notifier failed: std::mem::forget(rx) covers the return for a bug.        *)
THEOREM SendFails == Spec => []SendFailsOnlyAfterNotifyError
  <1>1. Init => Receiver
    BY DEF Init, Receiver
  <1>2. Receiver => SendFailsOnlyAfterNotifyError
    BY DEF Receiver, SendFailsOnlyAfterNotifyError
  <1> QED BY <1>1, <1>2, ReceiverStep, Invariant, PTL DEF Spec
=============================================================================
