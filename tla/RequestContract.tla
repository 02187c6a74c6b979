-------------------------- MODULE RequestContract --------------------------
(* What the language server promises a client about one set of requests,     *)
(* without queues, threads or retries: a request is sent once, then answered *)
(* once or cancelled, and neither is ever undone. LspRequests implements it. *)
CONSTANT Requests
VARIABLE status

Init == status = [r \in Requests |-> "unsent"]

Move(r, from, to) ==
    /\ status[r] = from
    /\ status' = [status EXCEPT ![r] = to]

Next == \E r \in Requests :
    \/ Move(r, "unsent", "open")
    \/ Move(r, "unsent", "answered")   \* answered while it is dispatched
    \/ Move(r, "open", "answered")
    \/ Move(r, "open", "cancelled")

Spec == Init /\ [][Next]_status
=============================================================================
