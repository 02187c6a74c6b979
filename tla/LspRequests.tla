---------------------------- MODULE LspRequests ----------------------------
(* The life of a client request in the language server: registration and     *)
(* dispatch on the main loop (request.rs, dispatcher.rs), the computation on *)
(* the thread pool, the answer or the retry that travels back through the    *)
(* task channel, cancellation, shutdown and exit (state.rs, notification.rs).*)
(* The analysis state a computation reads is an environment: LspWorkspaces   *)
(* models it in full.                                                        *)
EXTENDS Naturals, Sequences, FiniteSets

CONSTANTS
    Requests,   \* request ids; a client never uses one twice
    Threads,    \* threads of the pool
    Method,     \* the method of each request
    RetryCap    \* where the retry counter of this model saturates

(* What on_request tells apart: the synchronous shutdown request; queries of *)
(* the analysis database and requests that never look at it (formatting,     *)
(* code actions), both dispatched with `on`; completion, dispatched with     *)
(* `on_maybe_retry`, triggered by a newline or otherwise; known methods whose*)
(* parameters do not parse; and methods it does not know.                    *)
Methods == {"shutdown", "query", "local", "completion", "newline", "badParams", "unknown"}

ASSUME MethodAssumption == Method \in [Requests -> Methods]
ASSUME RetryCapAssumption == RetryCap \in Nat \ {0}

(* The DBState a request finds, or NotFound for the three lookup errors of   *)
(* try_get_db_state.                                                         *)
DBStates == {"Ready", "Compiling", "Init", "Failed", "NotFound"}
NoJob == [id |-> "none", pc |-> "idle"]

VARIABLES
    received,   \* ids the client has sent
    pending,    \* request_queue.incoming
    shutdown_requested,
    running,    \* FALSE once the main loop has returned
    tasks,      \* the task channel: responses and retries, in order
    poolq,      \* jobs queued in the thread pool, in order
    worker,     \* what each pool thread does
    request_retry,
    responses,  \* number of responses sent for each id
    cancelled,  \* ids cancelled while pending
    lost,       \* ids whose worker panicked
    db,         \* the DBState of the workspace the requests are about
    locked      \* a writer holds the vfs or the workspaces lock

vars == <<received, pending, shutdown_requested, running, tasks, poolq, worker,
          request_retry, responses, cancelled, lost, db, locked>>
mainVars == <<received, pending, shutdown_requested, running, responses, cancelled>>
envVars == <<db, locked>>
poolVars == <<poolq, worker, request_retry, lost>>

Init ==
    /\ received = {}
    /\ pending = {}
    /\ shutdown_requested = FALSE
    /\ running = TRUE
    /\ tasks = <<>>
    /\ poolq = <<>>
    /\ worker = [t \in Threads |-> NoJob]
    /\ request_retry = [r \in Requests |-> 0]
    /\ responses = [r \in Requests |-> 0]
    /\ cancelled = {}
    /\ lost = {}
    /\ db = "NotFound"
    /\ locked = FALSE
-----------------------------------------------------------------------------
(* Main loop. *)

(* respond: the answer is sent only if the id is still registered; `before`  *)
(* is the set of registered ids when respond is called.                      *)
respond(r, before) ==
    /\ pending' = before \ {r}
    /\ responses' = IF r \in before
                    THEN [responses EXCEPT ![r] = @ + 1]
                    ELSE responses

(* Variants of on_request: a shut down server that still dispatches; one that*)
(* answers without completing the id and dispatches as well.                 *)
on_request_ignores_shutdown(r) ==
    IF Method[r] \in {"shutdown", "badParams", "unknown"}
    THEN /\ shutdown_requested' = (shutdown_requested \/ Method[r] = "shutdown")
         /\ respond(r, pending \cup {r})
         /\ UNCHANGED poolq
    ELSE /\ pending' = pending \cup {r}
         /\ poolq' = Append(poolq, r)
         /\ UNCHANGED <<shutdown_requested, responses>>

on_request_no_return(r) ==
    IF Method[r] \in {"shutdown", "badParams", "unknown"}
    THEN on_request_ignores_shutdown(r)
    ELSE /\ pending' = pending \cup {r}
         /\ poolq' = Append(poolq, r)
         /\ responses' = IF shutdown_requested
                         THEN [responses EXCEPT ![r] = @ + 1] ELSE responses
         /\ UNCHANGED shutdown_requested

(* on_request registers the id, answers at once after a shutdown, and else   *)
(* dispatches on the method.                                                 *)
on_request(r) ==
    LET registered == pending \cup {r} IN
    IF shutdown_requested
    THEN respond(r, registered) /\ UNCHANGED <<shutdown_requested, poolq>>
    ELSE CASE Method[r] = "shutdown" ->
                /\ shutdown_requested' = TRUE
                /\ respond(r, registered)
                /\ UNCHANGED poolq
           [] Method[r] \in {"badParams", "unknown"} ->
                /\ respond(r, registered)
                /\ UNCHANGED <<shutdown_requested, poolq>>
           [] OTHER ->
                /\ pending' = registered
                /\ poolq' = Append(poolq, r)
                /\ UNCHANGED <<shutdown_requested, responses>>

(* A request message from the client. *)
ReceiveRequest(r) ==
    /\ running
    /\ r \notin received
    /\ received' = received \cup {r}
    /\ on_request(r)
    /\ UNCHANGED <<running, tasks, worker, request_retry, cancelled, lost, envVars>>

(* A cancel notification: the id is completed, nothing is sent. *)
cancel(r) ==
    /\ running
    /\ r \in received
    /\ pending' = pending \ {r}
    /\ cancelled' = IF r \in pending THEN cancelled \cup {r} ELSE cancelled
    /\ UNCHANGED <<received, shutdown_requested, running, responses, tasks, poolVars, envVars>>

(* The exit notification ends the main loop. *)
Exit ==
    /\ running
    /\ running' = FALSE
    /\ UNCHANGED <<received, pending, shutdown_requested, responses, cancelled,
                   tasks, poolVars, envVars>>

(* handle_task for a response or a retry taken from the channel. *)
HandleResponse ==
    /\ running
    /\ tasks /= <<>>
    /\ Head(tasks).kind = "Response"
    /\ tasks' = Tail(tasks)
    /\ respond(Head(tasks).id, pending)
    /\ UNCHANGED <<received, shutdown_requested, running, cancelled, poolVars, envVars>>

(* Mutant: the guard that drops a completed request is missing. *)
HandleRetryUnguarded ==
    /\ running
    /\ tasks /= <<>>
    /\ Head(tasks).kind = "Retry"
    /\ tasks' = Tail(tasks)
    /\ on_request(Head(tasks).id)
    /\ UNCHANGED <<received, running, cancelled, worker, request_retry, lost, envVars>>

HandleRetry ==
    /\ running
    /\ tasks /= <<>>
    /\ Head(tasks).kind = "Retry"
    /\ tasks' = Tail(tasks)
    /\ IF Head(tasks).id \in pending
       THEN on_request(Head(tasks).id)
       ELSE UNCHANGED <<pending, responses, shutdown_requested, poolq>>
    /\ UNCHANGED <<received, running, cancelled, worker, request_retry, lost, envVars>>
-----------------------------------------------------------------------------
(* Pool threads. *)

(* A free thread takes the oldest job. *)
TakeJob(t) ==
    /\ poolq /= <<>>
    /\ worker[t] = NoJob
    /\ worker' = [worker EXCEPT ![t] = [id |-> Head(poolq), pc |-> "compute"]]
    /\ poolq' = Tail(poolq)
    /\ UNCHANGED <<mainVars, tasks, request_retry, lost, envVars>>

(* What a lookup of the database finds; Ok(None) while a lock is written. *)
try_get_db_state == IF locked THEN "None" ELSE db

(* Whether a query of the database returns LSPError::Retry. *)
query_retries == try_get_db_state \in {"None", "Init", "Compiling"}

(* Completion accepts the previous database of a workspace in Compiling      *)
(* unless it was triggered by a newline.                                     *)
completion_retries(newline) ==
    \/ try_get_db_state \in {"None", "Init"}
    \/ newline /\ try_get_db_state = "Compiling"

(* Mutant: a failed compile is retried like an unfinished one. *)
MustRetryUntilReady(r) == Method[r] /= "local" /\ try_get_db_state /= "Ready"

MustRetry(r) ==
    \/ Method[r] = "query" /\ query_retries
    \/ Method[r] = "completion" /\ completion_retries(FALSE)
    \/ Method[r] = "newline" /\ completion_retries(TRUE)

Send(kind, r) == tasks' = Append(tasks, [kind |-> kind, id |-> r])

(* The handler answers: with a result, or with Ok(None) when the compile     *)
(* failed or the file, its workspace or its database is not found.           *)
ComputeAnswer(t) ==
    LET r == worker[t].id IN
    /\ worker[t].pc = "compute"
    /\ ~MustRetry(r)
    /\ Send("Response", r)
    /\ worker' = [worker EXCEPT ![t] = NoJob]
    /\ UNCHANGED <<mainVars, poolq, request_retry, lost, envVars>>

(* The handler asks for a retry. on_maybe_retry sends the task first and     *)
(* counts the retry afterwards, in a step of its own.                        *)
ComputeRetry(t) ==
    LET r == worker[t].id IN
    /\ worker[t].pc = "compute"
    /\ MustRetry(r)
    /\ Send("Retry", r)
    /\ worker' = [worker EXCEPT ![t] = IF Method[r] = "query" THEN NoJob
                                       ELSE [@ EXCEPT !.pc = "count"]]
    /\ UNCHANGED <<mainVars, poolq, request_retry, lost, envVars>>

CountRetry(t) ==
    /\ worker[t].pc = "count"
    /\ request_retry' = [request_retry EXCEPT ![worker[t].id] =
                            IF @ < RetryCap THEN @ + 1 ELSE @]
    /\ worker' = [worker EXCEPT ![t] = NoJob]
    /\ UNCHANGED <<mainVars, tasks, poolq, lost, envVars>>

(* The handler panics: try_get_db_state unwraps the entry of the file in     *)
(* opened_files, which a close racing with the request has removed. The pool *)
(* replaces the thread; nothing is sent.                                     *)
ComputePanic(t) ==
    /\ worker[t].pc = "compute"
    /\ lost' = lost \cup {worker[t].id}
    /\ worker' = [worker EXCEPT ![t] = NoJob]
    /\ UNCHANGED <<mainVars, tasks, poolq, request_retry, envVars>>
-----------------------------------------------------------------------------
(* The environment: compiles start and finish, the file is closed, writers   *)
(* take and free locks.                                                      *)
Compile ==
    \/ /\ db' = CASE db \in {"Ready", "Compiling"} -> "Compiling"
                  [] db \in {"Init", "Failed", "NotFound"} -> "Init"
       /\ UNCHANGED locked
    \/ /\ db' = "NotFound"
       /\ UNCHANGED locked
    \/ /\ db \in {"Init", "Compiling"}
       /\ db' \in {"Ready", "Failed"}
       /\ UNCHANGED locked
    \/ /\ locked' = ~locked
       /\ UNCHANGED db

Environment == Compile /\ UNCHANGED <<mainVars, tasks, poolVars>>

MainStep == HandleResponse \/ HandleRetry
ThreadStep(t) == TakeJob(t) \/ ComputeAnswer(t) \/ ComputeRetry(t) \/ CountRetry(t)

Next ==
    \/ \E r \in Requests : ReceiveRequest(r) \/ cancel(r)
    \/ Exit
    \/ HandleResponse
    \/ HandleRetry
    \/ \E t \in Threads : TakeJob(t)
    \/ \E t \in Threads : ComputeAnswer(t)
    \/ \E t \in Threads : ComputeRetry(t)
    \/ \E t \in Threads : CountRetry(t)
    \/ \E t \in Threads : ComputePanic(t)
    \/ Environment

Spec == Init /\ [][Next]_vars

(* The select in next_event chooses at random among the ready channels, so a *)
(* waiting task is eventually handled; pool threads run to completion.       *)
FairSpec == Spec /\ WF_vars(MainStep) /\ \A t \in Threads : WF_vars(ThreadStep(t))
-----------------------------------------------------------------------------
Job == [id : Requests, pc : {"compute", "count"}] \cup {NoJob}
Task == [kind : {"Response", "Retry"}, id : Requests]

(* Every variable keeps the shape the server's types give it. *)
TypeOK ==
    /\ received \in SUBSET Requests
    /\ pending \in SUBSET received
    /\ shutdown_requested \in BOOLEAN
    /\ running \in BOOLEAN
    /\ tasks \in Seq(Task)
    /\ poolq \in Seq(Requests)
    /\ worker \in [Threads -> Job]
    /\ request_retry \in [Requests -> 0..RetryCap]
    /\ responses \in [Requests -> Nat]
    /\ cancelled \in SUBSET received
    /\ lost \in SUBSET Requests
    /\ db \in DBStates
    /\ locked \in BOOLEAN

(* A client gets at most one response to a request, however often the request*)
(* was retried and whatever was cancelled or shut down in between: `respond` *)
(* sends only for a registered id, and a retry registers only an id that is  *)
(* still registered.                                                         *)
AtMostOneResponse == \A r \in Requests : responses[r] <= 1

(* A request that was cancelled before its answer never gets one, even when  *)
(* its answer or its retry was already in the task channel at that moment.   *)
CancelledUnanswered == \A r \in cancelled : responses[r] = 0

(* The status the contract sees. *)
Status == [r \in Requests |->
    CASE responses[r] > 0 -> "answered"
      [] r \in cancelled /\ responses[r] = 0 -> "cancelled"
      [] r \in pending /\ r \notin cancelled /\ responses[r] = 0 -> "open"
      [] OTHER -> "unsent"]

Contract == INSTANCE RequestContract WITH status <- Status

(* The server implements the contract: seen from the client, every step sends*)
(* one request, answers one open request or cancels one, and answers and     *)
(* cancellations are final.                                                  *)
ImplementsContract == Contract!Spec

(* The workspace has been compiled and nobody writes. *)
Settled == ~locked /\ db \in {"Ready", "Failed", "NotFound"}

(* When the analysis settles, every request is answered or cancelled: the    *)
(* retry loop through the task channel loses none and starves none.  Once    *)
(* shutdown was requested every open request is answered although no compile *)
(* may ever finish: the retry itself answers with an error.  Only an exit or *)
(* a panicked worker leaves one open.                                        *)
EventuallyAnswered ==
    /\ <>[]Settled => \A r \in Requests :
           r \in pending ~> (r \notin pending \/ r \in lost \/ ~running)
    /\ shutdown_requested ~> (pending \subseteq lost \/ ~running)
=============================================================================
