-------------------------- MODULE TimeoutExecutor --------------------------
(* TimeoutExecutor::run_all_tasks: one thread loads tasks into threads of    *)
(* their own, at most `Capacity` at a time, receives their results through a *)
(* channel, reports the ones that run past the deadline, and joins them.     *)
(* The deadline is a point in time fixed when the executor is created, the   *)
(* same for all tasks.                                                       *)
EXTENDS Naturals, Sequences, FiniteSets

CONSTANTS
    Tasks,
    Order,      \* the tasks in the order of the slice
    Capacity,   \* concurrency_capacity
    NoTask

ASSUME OrderAssumption ==
    /\ Order \in Seq(Tasks)
    /\ \A i, j \in DOMAIN Order : Order[i] = Order[j] => i = j
    /\ \A t \in Tasks : \E i \in DOMAIN Order : Order[i] = t
ASSUME TasksFinite == IsFiniteSet(Tasks)
ASSUME CapacityAssumption == Capacity \in Nat \ {0}
ASSUME NoTaskAssumption == NoTask \notin Tasks

(* Failed stands for Waiting too, which the executor treats alike. *)
TaskStatus == {"Finished", "Failed", "Bug"}

VARIABLES
    pc,             \* where run_all_tasks is
    waiting_tasks,
    running_tasks,
    running_count,
    timeout_queue,
    late,           \* the deadline has passed
    channel,        \* results on their way: a task and its status
    rx,             \* the receiver: "open", "forgotten" or "dropped"
    finished_task,  \* the result received last
    thread,         \* what the thread of each task does
    events,         \* the events of each task the notifier got
    result          \* what run_all_tasks returned

mainVars == <<pc, waiting_tasks, running_tasks, running_count, timeout_queue, rx,
              finished_task, events, result>>
vars == <<mainVars, late, channel, thread>>

NoResult == [task |-> NoTask, status |-> "Failed"]

Init ==
    /\ pc = "load"
    /\ waiting_tasks = Order
    /\ running_tasks = {}
    /\ running_count = 0
    /\ timeout_queue = <<>>
    /\ late = FALSE
    /\ channel = <<>>
    /\ rx = "open"
    /\ finished_task = NoResult
    /\ thread = [t \in Tasks |-> "new"]
    /\ events = [t \in Tasks |-> <<>>]
    /\ result = "none"
-----------------------------------------------------------------------------
(* The executor. *)

Goto(l) == pc' = l

(* run_all_tasks returns r and leaves the receiver as said. *)
Return(r, receiver) ==
    /\ Goto("returned")
    /\ result' = r
    /\ rx' = receiver

Notify(S, event) ==
    events' = [t \in Tasks |-> IF t \in S THEN Append(events[t], event) ELSE events[t]]

has_room == running_count < Capacity

(* A waiting task is announced, its thread started, its timeout queued. *)
Load ==
    LET t == Head(waiting_tasks) IN
    /\ pc = "load"
    /\ waiting_tasks /= <<>>
    /\ has_room
    /\ waiting_tasks' = Tail(waiting_tasks)
    /\ Notify({t}, "wait")
    /\ thread' = [thread EXCEPT ![t] = "run"]
    /\ running_tasks' = running_tasks \cup {t}
    /\ timeout_queue' = Append(timeout_queue, t)
    /\ running_count' = running_count + 1
    /\ UNCHANGED <<pc, late, channel, rx, finished_task, result>>

LoadedWith(all_done) ==
    /\ pc = "load"
    /\ ~(has_room /\ waiting_tasks /= <<>>)
    /\ IF all_done
       THEN Return("Ok", "dropped")
       ELSE Goto("receive") /\ UNCHANGED <<result, rx>>
    /\ UNCHANGED <<waiting_tasks, running_tasks, running_count, timeout_queue, late,
                   channel, finished_task, thread, events>>

(* No room or no task is left: the results are waited for, or all is done. *)
Loaded == LoadedWith(running_count = 0)

(* A result arrives. With an empty timeout queue the loop of timeouts ends.  *)
Receive ==
    /\ pc = "receive"
    /\ channel /= <<>>
    /\ finished_task' = Head(channel)
    /\ channel' = Tail(channel)
    /\ Goto(IF timeout_queue = <<>> THEN "join" ELSE "check")
    /\ UNCHANGED <<waiting_tasks, running_tasks, running_count, timeout_queue, late, rx,
                   thread, events, result>>

(* No result until the deadline of the queue's front. *)
ReceiveTimeout ==
    /\ pc = "receive"
    /\ channel = <<>>
    /\ timeout_queue /= <<>>
    /\ late
    /\ Goto("check")
    /\ UNCHANGED <<waiting_tasks, running_tasks, running_count, timeout_queue, late, channel,
                   rx, finished_task, thread, events, result>>

CheckWith(timed_out, still_running) ==
    /\ pc = "check"
    /\ running_tasks' = IF late THEN still_running ELSE running_tasks
    /\ timeout_queue' = IF late THEN <<>> ELSE timeout_queue
    /\ Notify(IF late THEN timed_out ELSE {}, "timeout")
    /\ Goto(IF finished_task = NoResult THEN "receive" ELSE "join")
    /\ UNCHANGED <<waiting_tasks, running_count, late, channel, rx, finished_task, thread, result>>

Queued == {timeout_queue[i] : i \in DOMAIN timeout_queue}

(* Mutant: tasks that have finished are reported as well. *)
all_timed_out_tasks_info_any == CheckWith(Queued, running_tasks)

(* All tasks in the queue have the same deadline: once it has passed the     *)
(* queue is emptied, and the tasks that still run are reported.              *)
all_timed_out_tasks_info == CheckWith(Queued \cap running_tasks, running_tasks)

(* Mutant: the thread is not waited for. *)
JoinUnended ==
    LET t == finished_task.task IN
    /\ pc = "join"
    /\ running_tasks' = running_tasks \ {t}
    /\ Goto("report")
    /\ UNCHANGED <<waiting_tasks, running_count, timeout_queue, late, channel, rx,
                   finished_task, thread, events, result>>

(* The result's thread is joined: if it panicked after it reported success   *)
(* the status becomes Bug. A result of a task that is not running panics.    *)
Join ==
    LET t == finished_task.task IN
    /\ pc = "join"
    /\ IF t \notin running_tasks
       THEN /\ Return("Panic", "dropped")
            /\ UNCHANGED <<running_tasks, finished_task>>
       ELSE /\ thread[t] \in {"done", "panicked"}
            /\ running_tasks' = running_tasks \ {t}
            /\ finished_task' = [finished_task EXCEPT !.status =
                    IF thread[t] = "panicked" /\ @ = "Finished" THEN "Bug" ELSE @]
            /\ Goto("report")
            /\ UNCHANGED <<result, rx>>
    /\ UNCHANGED <<waiting_tasks, running_count, timeout_queue, late, channel, thread, events>>

ReportWith(receiver, freed) ==
    /\ pc = "report"
    /\ IF finished_task.status = "Bug"
       THEN /\ Return("Bug", receiver)
            /\ UNCHANGED <<events, running_count, finished_task>>
       ELSE /\ Notify({finished_task.task}, "finished")
            /\ running_count' = running_count - freed
            /\ finished_task' = NoResult
            /\ Goto("load")
            /\ UNCHANGED <<result, rx>>
    /\ UNCHANGED <<waiting_tasks, running_tasks, timeout_queue, late, channel, thread>>

(* Mutants: the receiver is dropped when the executor gives up; the slot of  *)
(* a finished task is not free.                                              *)
ReportDrops == ReportWith("dropped", 1)
ReportKeepsSlot == ReportWith("forgotten", 0)

(* A bug ends the run; the receiver is forgotten, so that the threads left   *)
(* can still send. Else the task is reported finished.                       *)
Report == ReportWith("forgotten", 1)

(* The notifier fails, at any of its calls: run_all_tasks returns its error. *)
(* Of the tasks that timed out, those before the failing call were reported. *)
NotifyFails ==
    /\ \/ /\ \/ pc = "load" /\ has_room /\ waiting_tasks /= <<>>
             \/ pc = "report" /\ finished_task.status /= "Bug"
          /\ UNCHANGED <<timeout_queue, events>>
       \/ /\ pc = "check" /\ late
          /\ \E i \in DOMAIN timeout_queue :
                /\ timeout_queue[i] \in running_tasks
                /\ Notify({timeout_queue[j] : j \in 1..(i - 1)} \cap running_tasks, "timeout")
          /\ timeout_queue' = <<>>
    /\ Return("Err", "dropped")
    /\ UNCHANGED <<waiting_tasks, running_tasks, running_count, late, channel, finished_task, thread>>
-----------------------------------------------------------------------------
(* The tasks. *)

ThreadGoes(t, from, to) ==
    /\ thread[t] = from
    /\ thread' = [thread EXCEPT ![t] = to]

(* run() sends its result; without a receiver the send fails and its unwrap  *)
(* panics.                                                                   *)
Send(t, status) ==
    /\ IF rx = "dropped"
       THEN ThreadGoes(t, "run", "unsent") /\ UNCHANGED channel
       ELSE /\ ThreadGoes(t, "run", "sent")
            /\ channel' = Append(channel, [task |-> t, status |-> status])
    /\ UNCHANGED <<mainVars, late>>

(* run() panics before it sends: nobody hears of the task. *)
PanicSilently(t) == ThreadGoes(t, "run", "silent") /\ UNCHANGED <<mainVars, late, channel>>

(* run() returns, or panics after it has sent. *)
End(t) == ThreadGoes(t, "sent", "done") /\ UNCHANGED <<mainVars, late, channel>>
PanicAfter(t) == ThreadGoes(t, "sent", "panicked") /\ UNCHANGED <<mainVars, late, channel>>

PassDeadline == ~late /\ late' = TRUE /\ UNCHANGED <<mainVars, channel, thread>>

MainStep ==
    \/ Load \/ Loaded \/ Receive \/ ReceiveTimeout \/ all_timed_out_tasks_info \/ Join \/ Report
TaskStep(t) ==
    (\E s \in TaskStatus : Send(t, s)) \/ PanicSilently(t) \/ End(t) \/ PanicAfter(t)

Next ==
    \/ Load
    \/ Loaded
    \/ Receive
    \/ ReceiveTimeout
    \/ all_timed_out_tasks_info
    \/ Join
    \/ Report
    \/ NotifyFails
    \/ \E t \in Tasks, s \in TaskStatus : Send(t, s)
    \/ \E t \in Tasks : PanicSilently(t)
    \/ \E t \in Tasks : End(t)
    \/ \E t \in Tasks : PanicAfter(t)
    \/ PassDeadline

Spec == Init /\ [][Next]_vars

(* The executor and the threads run, tasks end, and time passes. *)
FairSpec ==
    /\ Spec
    /\ WF_vars(MainStep)
    /\ \A t \in Tasks : WF_vars(TaskStep(t))
    /\ WF_vars(PassDeadline)
-----------------------------------------------------------------------------
(* Properties. *)

(* The variables stay in their types. *)
TypeOK ==
    /\ pc \in {"load", "receive", "check", "join", "report", "returned"}
    /\ waiting_tasks \in Seq(Tasks)
    /\ running_tasks \in SUBSET Tasks
    /\ running_count \in 0..Capacity
    /\ timeout_queue \in Seq(Tasks)
    /\ late \in BOOLEAN
    /\ channel \in Seq([task : Tasks, status : TaskStatus])
    /\ rx \in {"open", "forgotten", "dropped"}
    /\ finished_task \in [task : Tasks, status : TaskStatus] \cup {NoResult}
    /\ thread \in [Tasks -> {"new", "run", "sent", "done", "panicked", "silent", "unsent"}]
    /\ events \in [Tasks -> Seq({"wait", "timeout", "finished"})]
    /\ result \in {"none", "Ok", "Bug", "Err", "Panic"}

(* At no moment do more than `Capacity` tasks run: a slot is given away only *)
(* after the thread that had it was joined.                                  *)
AtMostCapacity == Cardinality({t \in Tasks : thread[t] \in {"run", "sent"}}) <= Capacity

(* The notifier hears of a task in order and at most once each: that it      *)
(* waits, that it timed out, that it finished; never a timeout of a task     *)
(* that has finished, also when its result and the deadline race.            *)
EventsInOrder ==
    \A t \in Tasks : events[t] \in
        {<<>>, <<"wait">>, <<"wait", "timeout">>, <<"wait", "finished">>,
         <<"wait", "timeout", "finished">>}

Reported(t) == \E i \in DOMAIN events[t] : events[t][i] = "finished"

(* A task is reported finished only after its thread has ended: what the     *)
(* task does after it sent its result is not cut off.                        *)
FinishedHasEnded == \A t \in Tasks : Reported(t) => thread[t] \in {"done", "panicked"}

(* Every result that is received is of a running task: the panic on an       *)
(* unknown result is never reached, although results wait in the channel     *)
(* while other tasks time out and are joined.                                *)
ResultsAreExpected == result /= "Panic"

(* "Prevent remaining threads from panicking": a thread finds the receiver   *)
(* gone only if the notifier failed, never because another task was a bug.   *)
SendFailsOnlyAfterNotifyError ==
    (\E t \in Tasks : thread[t] = "unsent") => result = "Err"

(* Ok is returned only when every task was reported finished. *)
OkMeansAllFinished == result = "Ok" => \A t \in Tasks : Reported(t)

Silent == {t \in Tasks : thread[t] = "silent"}

(* A task that panics without a result keeps its slot for ever; while fewer  *)
(* of them are lost than there are slots, every other task is run and        *)
(* reported, unless a bug or the notifier ends the run.                      *)
OthersReported ==
    [](Cardinality(Silent) < Capacity)
        => <>(result /= "none" \/ \A t \in Tasks : Reported(t) \/ t \in Silent)
=============================================================================
