------------------------- MODULE LspRequestsProofs -------------------------
(* Proofs about LspRequests for every set of requests, every assignment of   *)
(* methods to them and every number of pool threads.                         *)
EXTENDS LspRequests, TLAPS

(* What keeps an answer unique: an open request has neither been answered    *)
(* nor cancelled, and a request not yet sent has not been answered.          *)
AnswerInv ==
    /\ AtMostOneResponse
    /\ CancelledUnanswered
    /\ \A r \in pending : responses[r] = 0 /\ r \notin cancelled
    /\ \A r \in Requests \ received : responses[r] = 0

IInv == TypeOK /\ AnswerInv

(* What respond and on_request may do to r and must not do to the others. *)
AnswersOnly(r) ==
    /\ \A x \in Requests \ {r} : responses'[x] = responses[x]
    /\ \A x \in Requests \ {r} : x \in pending' <=> x \in pending
    /\ \/ responses'[r] = responses[r]
       \/ responses'[r] = 1 /\ r \notin pending'

(* A thread that computes or counts holds a request. *)
LEMMA BusyWorker ==
    ASSUME TypeOK, NEW t \in Threads, worker[t].pc \in {"compute", "count"}
    PROVE  worker[t].id \in Requests
BY DEF TypeOK, Job, NoJob

(* The head and the tail of a nonempty queue have the queue's type. *)
LEMMA QueueType ==
    ASSUME NEW S, NEW q \in Seq(S), q /= <<>>
    PROVE  Head(q) \in S /\ Tail(q) \in Seq(S)
OBVIOUS

(* A task at the head of the channel is about a request. *)
LEMMA HeadRequest ==
    ASSUME TypeOK, tasks /= <<>>
    PROVE  Head(tasks).id \in Requests
<1>1. Head(tasks) \in Task
  BY QueueType DEF TypeOK
<1> QED
  BY <1>1 DEF Task

(* respond keeps the type of what it assigns. *)
LEMMA RespondType ==
    ASSUME TypeOK, NEW r \in Requests, NEW before \in SUBSET Requests, respond(r, before)
    PROVE  /\ pending' \in SUBSET before
           /\ responses' \in [Requests -> Nat]
BY DEF TypeOK, respond

(* on_request keeps the type of what it assigns and registers at most r. *)
LEMMA OnRequestType ==
    ASSUME TypeOK, NEW r \in Requests, on_request(r)
    PROVE  /\ pending' \in SUBSET (pending \cup {r})
           /\ responses' \in [Requests -> Nat]
           /\ shutdown_requested' \in BOOLEAN
           /\ poolq' \in Seq(Requests)
<1> DEFINE registered == pending \cup {r}
<1>1. registered \in SUBSET Requests
  BY DEF TypeOK
<1>2. CASE respond(r, registered)
           /\ shutdown_requested' \in {shutdown_requested, TRUE} /\ UNCHANGED poolq
  BY <1>1, <1>2, RespondType, Zenon DEF TypeOK
<1>3. CASE /\ pending' = registered
           /\ poolq' = Append(poolq, r)
           /\ UNCHANGED <<shutdown_requested, responses>>
  BY <1>1, <1>3 DEF TypeOK
<1> QED
  BY <1>2, <1>3, Zenon DEF on_request

(* The type invariant is inductive. *)
THEOREM TypeCorrect == Spec => []TypeOK
<1>1. Init => TypeOK
  <2> SUFFICES ASSUME Init PROVE TypeOK
    OBVIOUS
  <2>1. request_retry \in [Requests -> 0..RetryCap] /\ responses \in [Requests -> Nat]
    BY RetryCapAssumption DEF Init
  <2>2. worker \in [Threads -> Job]
    BY DEF Init, Job
  <2>3. tasks \in Seq(Task) /\ poolq \in Seq(Requests)
    BY DEF Init
  <2>4. received = {} /\ pending = {} /\ cancelled = {} /\ lost = {}
    BY DEF Init
  <2>5. running \in BOOLEAN /\ shutdown_requested \in BOOLEAN /\ locked \in BOOLEAN
    BY Zenon DEF Init
  <2>6. db \in DBStates
    BY DEF Init, DBStates
  <2> QED
    BY <2>1, <2>2, <2>3, <2>4, <2>5, <2>6 DEF TypeOK
<1>2. TypeOK /\ [Next]_vars => TypeOK'
  <2> SUFFICES ASSUME TypeOK, [Next]_vars PROVE TypeOK'
    OBVIOUS
  <2> USE DEF mainVars, envVars, poolVars
  <2>1. ASSUME NEW r \in Requests, ReceiveRequest(r) PROVE TypeOK'
    BY <2>1, OnRequestType DEF TypeOK, ReceiveRequest
  <2>2. ASSUME NEW r \in Requests, cancel(r) PROVE TypeOK'
    BY <2>2 DEF TypeOK, cancel
  <2>3. CASE Exit
    BY <2>3, Zenon DEF TypeOK, Exit
  <2>4. CASE HandleResponse
    <3>1. Head(tasks) \in Task /\ Tail(tasks) \in Seq(Task)
      BY <2>4, QueueType DEF TypeOK, HandleResponse
    <3>2. Head(tasks).id \in Requests /\ pending \in SUBSET Requests
      BY <3>1 DEF Task, TypeOK
    <3> QED
      BY <2>4, <3>1, <3>2, RespondType, SMTT(60) DEF TypeOK, HandleResponse
  <2>5. CASE HandleRetry
    <3>1. Head(tasks) \in Task /\ Tail(tasks) \in Seq(Task)
      BY <2>5, QueueType DEF TypeOK, HandleRetry
    <3>2. Head(tasks).id \in Requests
      BY <3>1 DEF Task
    <3>3. CASE Head(tasks).id \in pending
      BY <2>5, <3>1, <3>2, <3>3, OnRequestType, SMTT(60) DEF TypeOK, HandleRetry
    <3>4. CASE Head(tasks).id \notin pending
      BY <2>5, <3>1, <3>4 DEF TypeOK, HandleRetry
    <3> QED
      BY <3>3, <3>4
  <2>6. ASSUME NEW t \in Threads, TakeJob(t) PROVE TypeOK'
    <3>1. Head(poolq) \in Requests /\ Tail(poolq) \in Seq(Requests)
      BY <2>6, QueueType DEF TypeOK, TakeJob
    <3> QED
      BY <2>6, <3>1, SMTT(60) DEF TypeOK, TakeJob, Job
  <2>7. ASSUME NEW t \in Threads, ComputeAnswer(t) PROVE TypeOK'
    BY <2>7, BusyWorker DEF TypeOK, ComputeAnswer, Send, Task, Job
  <2>8. ASSUME NEW t \in Threads, ComputeRetry(t) PROVE TypeOK'
    <3> DEFINE r == worker[t].id
    <3>1. r \in Requests /\ worker[t] \in Job \ {NoJob}
      BY <2>8, BusyWorker DEF TypeOK, ComputeRetry, NoJob
    <3>2. [worker[t] EXCEPT !.pc = "count"] \in Job
      BY <3>1 DEF Job
    <3>3. worker' \in [Threads -> Job]
      BY <2>8, <3>2 DEF TypeOK, ComputeRetry, Job
    <3>4. tasks' \in Seq(Task)
      BY <2>8, <3>1 DEF TypeOK, ComputeRetry, Send, Task
    <3> QED
      BY <2>8, <3>3, <3>4 DEF TypeOK, ComputeRetry
  <2>9. ASSUME NEW t \in Threads, CountRetry(t) PROVE TypeOK'
    BY <2>9, BusyWorker, RetryCapAssumption, SMTT(60) DEF TypeOK, CountRetry, Job
  <2>10. ASSUME NEW t \in Threads, ComputePanic(t) PROVE TypeOK'
    BY <2>10, BusyWorker DEF TypeOK, ComputePanic, Job
  <2>11. CASE Environment
    BY <2>11, Zenon DEF TypeOK, Environment, Compile, DBStates
  <2>12. CASE UNCHANGED vars
    BY <2>12 DEF TypeOK, vars
  <2> QED
    BY <2>1, <2>2, <2>3, <2>4, <2>5, <2>6, <2>7, <2>8, <2>9, <2>10, <2>11, <2>12
    DEF Next
<1> QED
  BY <1>1, <1>2, PTL DEF Spec

(* Responding to r, when r is unanswered if registered, touches only r. *)
LEMMA RespondAnswers ==
    ASSUME TypeOK, NEW r \in Requests,
           NEW before, before \in {pending, pending \cup {r}},
           r \in before => responses[r] = 0,
           respond(r, before)
    PROVE  AnswersOnly(r) /\ (r \in before => responses'[r] = 1)
BY DEF TypeOK, respond, AnswersOnly

(* So does dispatching it, whatever the method and the shutdown flag. *)
LEMMA OnRequestAnswers ==
    ASSUME TypeOK, NEW r \in Requests, responses[r] = 0, on_request(r)
    PROVE  AnswersOnly(r) /\ (responses'[r] = responses[r] => r \in pending')
<1>1. CASE respond(r, pending \cup {r})
  BY <1>1, RespondAnswers
<1>2. CASE pending' = pending \cup {r} /\ UNCHANGED responses
  BY <1>2 DEF AnswersOnly
<1> QED
  BY <1>1, <1>2 DEF on_request

(* A step that at most answers the uncancelled request r keeps AnswerInv. *)
LEMMA AnswerPreserved ==
    ASSUME TypeOK, TypeOK', AnswerInv, NEW r \in Requests, AnswersOnly(r),
           r \in pending \/ r \notin received,
           received' = received \cup {r}, UNCHANGED cancelled
    PROVE  AnswerInv'
<1>1. responses[r] = 0 /\ r \notin cancelled
  BY DEF TypeOK, AnswerInv
<1>2. responses'[r] \in {0, 1} /\ (r \in pending' => responses'[r] = 0)
  BY <1>1 DEF AnswersOnly
<1>3. \A x \in Requests \ {r} :
         responses'[x] = responses[x] /\ (x \in pending' <=> x \in pending)
  BY DEF AnswersOnly
<1>4. AtMostOneResponse'
  BY <1>2, <1>3 DEF AnswerInv, AtMostOneResponse
<1>5. CancelledUnanswered'
  BY <1>1, <1>3 DEF AnswerInv, CancelledUnanswered, TypeOK
<1>6. \A x \in pending' : responses'[x] = 0 /\ x \notin cancelled'
  BY <1>1, <1>2, <1>3 DEF AnswerInv, TypeOK
<1>7. \A x \in Requests \ received' : responses'[x] = 0
  BY <1>3 DEF AnswerInv
<1> QED
  BY <1>4, <1>5, <1>6, <1>7 DEF AnswerInv

(* The invariant behind the results below holds in every behaviour. *)
THEOREM AnswerInvariant == Spec => []IInv
<1>1. Init => AnswerInv
  BY DEF Init, AnswerInv, AtMostOneResponse, CancelledUnanswered
<1>2. TypeOK /\ TypeOK' /\ AnswerInv /\ [Next]_vars => AnswerInv'
  <2> SUFFICES ASSUME TypeOK, TypeOK', AnswerInv, [Next]_vars PROVE AnswerInv'
    OBVIOUS
  <2> USE DEF mainVars, envVars, poolVars
  <2>1. ASSUME NEW r \in Requests, ReceiveRequest(r) PROVE AnswerInv'
    <3>1. responses[r] = 0 /\ on_request(r)
      BY <2>1 DEF ReceiveRequest, AnswerInv
    <3>2. AnswersOnly(r)
      BY <3>1, OnRequestAnswers
    <3>3. r \notin received /\ received' = received \cup {r} /\ UNCHANGED cancelled
      BY <2>1 DEF ReceiveRequest
    <3> QED
      BY <3>2, <3>3, AnswerPreserved
  <2>2. ASSUME NEW r \in Requests, cancel(r) PROVE AnswerInv'
    BY <2>2 DEF TypeOK, AnswerInv, cancel, AtMostOneResponse, CancelledUnanswered
  <2>3. CASE HandleResponse
    <3> DEFINE r == Head(tasks).id
    <3>1. r \in Requests
      BY <2>3, HeadRequest DEF HandleResponse
    <3>2. CASE r \in pending
      <4>1. AnswersOnly(r)
        BY <2>3, <3>1, <3>2, RespondAnswers DEF HandleResponse, AnswerInv
      <4>2. received' = received \cup {r} /\ UNCHANGED cancelled
        BY <2>3, <3>2 DEF HandleResponse, TypeOK
      <4> QED
        BY <3>1, <3>2, <4>1, <4>2, AnswerPreserved
    <3>3. CASE r \notin pending
      BY <2>3, <3>3 DEF HandleResponse, respond, AnswerInv, AtMostOneResponse,
                        CancelledUnanswered, TypeOK
    <3> QED
      BY <3>2, <3>3
  <2>4. CASE HandleRetry
    <3> DEFINE r == Head(tasks).id
    <3>1. r \in Requests
      BY <2>4, HeadRequest DEF HandleRetry
    <3>2. CASE r \in pending
      <4>1. responses[r] = 0 /\ on_request(r)
        BY <2>4, <3>2 DEF HandleRetry, AnswerInv
      <4>2. AnswersOnly(r)
        BY <3>1, <4>1, OnRequestAnswers
      <4>3. received' = received \cup {r} /\ UNCHANGED cancelled
        BY <2>4, <3>2 DEF HandleRetry, TypeOK
      <4> QED
        BY <3>1, <3>2, <4>2, <4>3, AnswerPreserved
    <3>3. CASE r \notin pending
      BY <2>4, <3>3 DEF HandleRetry, AnswerInv, AtMostOneResponse, CancelledUnanswered
    <3> QED
      BY <3>2, <3>3
  <2>5. CASE UNCHANGED <<received, pending, responses, cancelled>>
    BY <2>5 DEF AnswerInv, AtMostOneResponse, CancelledUnanswered
  <2> QED
    BY <2>1, <2>2, <2>3, <2>4, <2>5
    DEF Next, vars, Exit, TakeJob, ComputeAnswer, ComputeRetry, CountRetry,
        ComputePanic, Environment
<1> QED
  BY <1>1, <1>2, TypeCorrect, PTL DEF Spec, IInv

(* A client gets at most one response per request, and none after a          *)
(* cancellation, for any number of requests and threads: `respond` completes *)
(* the id it answers, and only an id still registered is dispatched again.   *)
THEOREM AnswerOnce == Spec => [](AtMostOneResponse /\ CancelledUnanswered)
<1>1. IInv => AtMostOneResponse /\ CancelledUnanswered
  BY DEF IInv, AnswerInv
<1> QED
  BY <1>1, AnswerInvariant, PTL

(* What Status says of one request. *)
LEMMA StatusOf ==
    ASSUME TypeOK, AnswerInv, NEW r \in Requests
    PROVE  /\ r \in pending => Status[r] = "open"
           /\ responses[r] > 0 => Status[r] = "answered"
           /\ r \in cancelled => Status[r] = "cancelled"
           /\ (r \notin pending /\ responses[r] = 0 /\ r \notin cancelled)
                => Status[r] = "unsent"
<1>1. responses[r] \in Nat
  BY DEF TypeOK
<1>2. r \in pending => responses[r] = 0 /\ r \notin cancelled
  BY DEF AnswerInv
<1>3. r \in cancelled => responses[r] = 0
  BY DEF AnswerInv, CancelledUnanswered
<1> QED
  BY <1>1, <1>2, <1>3 DEF Status

(* A request none of whose history changes keeps its status. *)
LEMMA StatusFrame ==
    ASSUME NEW r \in Requests, responses'[r] = responses[r],
           r \in pending' <=> r \in pending, r \in cancelled' <=> r \in cancelled
    PROVE  Status'[r] = Status[r]
BY DEF Status

(* Status is a function on Requests, before and after a step. *)
LEMMA StatusFunction ==
    /\ Status = [x \in Requests |-> Status[x]]
    /\ Status' = [x \in Requests |-> Status'[x]]
BY DEF Status

(* It depends on three variables only. *)
LEMMA StatusStutter ==
    ASSUME UNCHANGED <<pending, responses, cancelled>>
    PROVE  Status' = Status
BY DEF Status

(* A step that answers at most the request r, which is open or new, is a     *)
(* step of the contract or leaves it unchanged.                              *)
LEMMA AnswerStep ==
    ASSUME TypeOK, TypeOK', AnswerInv, AnswerInv', NEW r \in Requests, AnswersOnly(r),
           r \in pending \/ r \notin received, UNCHANGED cancelled,
           responses'[r] = responses[r] => r \in pending'
    PROVE  [Contract!Next]_Status
<1>1. responses[r] = 0 /\ r \notin cancelled
  BY DEF TypeOK, AnswerInv
<1>2. \A x \in Requests \ {r} : Status'[x] = Status[x]
  BY StatusFrame DEF AnswersOnly
<1>3. Status' = [Status EXCEPT ![r] = Status'[r]]
  BY <1>2, StatusFunction
<1>4. Status[r] \in {"unsent", "open"}
  BY <1>1, StatusOf
<1>5. CASE r \in pending'
  <2>1. Status'[r] = "open"
    <3>1. responses'[r] = 0 /\ r \notin cancelled'
      BY <1>1, <1>5 DEF AnswersOnly
    <3> QED
      BY <1>5, <3>1 DEF Status
  <2>2. CASE Status[r] = "unsent"
    BY <1>3, <2>1, <2>2 DEF Contract!Next, Contract!Move
  <2>3. CASE Status[r] = "open"
    <3>1. \A x \in Requests : Status'[x] = Status[x]
      BY <1>2, <2>1, <2>3
    <3> QED
      BY <3>1, StatusFunction
  <2> QED
    BY <1>4, <2>2, <2>3
<1>6. CASE r \notin pending'
  <2>1. responses'[r] = 1
    BY <1>6 DEF AnswersOnly
  <2>2. Status'[r] = "answered"
    BY <2>1 DEF Status
  <2> QED
    BY <1>3, <1>4, <2>2 DEF Contract!Next, Contract!Move
<1> QED
  BY <1>5, <1>6

(* The server implements RequestContract: its answers and cancellations are  *)
(* final, for any number of requests, retries and threads.                   *)
THEOREM Implements == Spec => ImplementsContract
<1>1. Init => Contract!Init
  BY DEF Init, Contract!Init, Status
<1>2. IInv /\ IInv' /\ [Next]_vars => [Contract!Next]_Status
  <2> SUFFICES ASSUME TypeOK, TypeOK', AnswerInv, AnswerInv', [Next]_vars
               PROVE  [Contract!Next]_Status
    BY DEF IInv
  <2> USE DEF mainVars, envVars, poolVars
  <2>1. ASSUME NEW r \in Requests, ReceiveRequest(r) PROVE [Contract!Next]_Status
    <3>1. responses[r] = 0 /\ on_request(r) /\ r \notin received /\ UNCHANGED cancelled
      BY <2>1 DEF ReceiveRequest, AnswerInv
    <3> QED
      BY <3>1, OnRequestAnswers, AnswerStep
  <2>2. ASSUME NEW r \in Requests, cancel(r) PROVE [Contract!Next]_Status
    <3>1. \A x \in Requests \ {r} : Status'[x] = Status[x]
      BY <2>2, StatusFrame DEF cancel
    <3>2. Status' = [Status EXCEPT ![r] = Status'[r]]
      BY <3>1, StatusFunction
    <3>3. CASE r \in pending
      <4>1. Status[r] = "open"
        BY <3>3, StatusOf
      <4>2. responses'[r] = 0 /\ r \in cancelled'
        BY <2>2, <3>3 DEF cancel, AnswerInv
      <4>3. Status'[r] = "cancelled"
        BY <4>2 DEF Status
      <4> QED
        BY <3>2, <4>1, <4>3 DEF Contract!Next, Contract!Move
    <3>4. CASE r \notin pending
      <4>1. Status' = Status
        BY <2>2, <3>4 DEF cancel, Status
      <4> QED
        BY <4>1
    <3> QED
      BY <3>3, <3>4
  <2>3. CASE HandleResponse
    <3> DEFINE r == Head(tasks).id
    <3>1. r \in Requests
      BY <2>3, HeadRequest DEF HandleResponse
    <3>2. CASE r \in pending
      <4>1. responses[r] = 0 /\ respond(r, pending) /\ UNCHANGED cancelled
        BY <2>3, <3>2 DEF HandleResponse, AnswerInv
      <4>2. AnswersOnly(r) /\ responses'[r] = 1
        BY <3>1, <3>2, <4>1, RespondAnswers
      <4> QED
        BY <3>1, <3>2, <4>1, <4>2, AnswerStep
    <3>3. CASE r \notin pending
      <4>1. UNCHANGED <<pending, responses, cancelled>>
        BY <2>3, <3>3 DEF HandleResponse, respond
      <4> QED
        BY <4>1, StatusStutter
    <3> QED
      BY <3>2, <3>3
  <2>4. CASE HandleRetry
    <3> DEFINE r == Head(tasks).id
    <3>1. r \in Requests
      BY <2>4, HeadRequest DEF HandleRetry
    <3>2. CASE r \in pending
      <4>1. responses[r] = 0 /\ on_request(r) /\ UNCHANGED cancelled
        BY <2>4, <3>2 DEF HandleRetry, AnswerInv
      <4> QED
        BY <3>1, <3>2, <4>1, OnRequestAnswers, AnswerStep
    <3>3. CASE r \notin pending
      BY <2>4, <3>3, StatusStutter DEF HandleRetry
    <3> QED
      BY <3>2, <3>3
  <2>5. CASE UNCHANGED <<pending, responses, cancelled>>
    BY <2>5, StatusStutter
  <2> QED
    BY <2>1, <2>2, <2>3, <2>4, <2>5
    DEF Next, vars, Exit, TakeJob, ComputeAnswer, ComputeRetry, CountRetry,
        ComputePanic, Environment
<1> QED
  BY <1>1, <1>2, AnswerInvariant, PTL DEF Spec, ImplementsContract, Contract!Spec
=============================================================================
