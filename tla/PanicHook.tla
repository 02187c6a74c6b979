----------------------------- MODULE PanicHook -----------------------------
(* The panic hook of the process, which the fast runner and the entry points *)
(* around it replace for the length of a call, and the panic record of each  *)
(* thread, from which the runner takes the message of a program that panics. *)
EXTENDS Naturals, Sequences

CONSTANTS
    Threads,
    MaxCalls    \* calls of all threads

VARIABLES
    hook,       \* the hook of the process: "default", "silent" or "record"
    thread,     \* the call of each thread
    record,     \* KCL_RUNTIME_PANIC_RECORD: the call whose message it has
    calls,      \* number of calls so far, which names them
    disturbed   \* history: the threads whose recording hook was replaced while the program ran

NoMessage == 0
hook_vars == <<hook, thread, record, calls, disturbed>>

(* A call: its number, whether catch! or kclvm_cli_run surrounds the runner, *)
(* the hooks it has taken, whether the program panicked, and the message it  *)
(* returns.                                                                  *)
NoCall == [pc |-> "idle", id |-> 0, wrapped |-> FALSE, prev |-> <<>>, panicked |-> FALSE,
           err_message |-> NoMessage]

HookInit ==
    /\ hook = "default" /\ calls = 0 /\ disturbed = {}
    /\ thread = [t \in Threads |-> NoCall]
    /\ record = [t \in Threads |-> NoMessage]

In(t, pc) == thread[t].pc = pc
Busy(t) == ~In(t, "idle")
GotoPc(t, pc) == thread' = [thread EXCEPT ![t].pc = pc]

Call(t) ==
    /\ In(t, "idle") /\ calls < MaxCalls
    /\ calls' = calls + 1
    /\ \E wrapped \in BOOLEAN :
          thread' = [thread EXCEPT ![t] = [NoCall EXCEPT !.pc = IF wrapped THEN "wrap_take" ELSE "take",
                                                         !.id = calls + 1, !.wrapped = wrapped]]
    /\ disturbed' = disturbed \ {t}
    /\ UNCHANGED <<hook, record>>

(* A hook that does not record comes between the programs that run and the   *)
(* one they set.                                                             *)
Disturb == disturbed' = IF hook' = "record" THEN disturbed ELSE disturbed \cup {u \in Threads : In(u, "run")}

(* take_hook() leaves the default hook behind; set_hook() comes later. *)
take_hook(t, from, to) ==
    /\ In(t, from)
    /\ hook' = "default" /\ Disturb
    /\ thread' = [thread EXCEPT ![t].pc = to, ![t].prev = Append(@, hook)]
    /\ UNCHANGED <<record, calls>>

set_hook(t, from, to, new) ==
    /\ In(t, from)
    /\ hook' = new /\ Disturb
    /\ GotoPc(t, to)
    /\ UNCHANGED <<record, calls>>

(* catch! and kclvm_cli_run: silence around the call. *)
Wrap(t) ==
    \/ take_hook(t, "wrap_take", "wrap_set")
    \/ set_hook(t, "wrap_set", "take", "silent")

(* Mutant: the runner leaves the hook alone. *)
InstallNothing(t) ==
    \/ take_hook(t, "take", "set")
    \/ set_hook(t, "set", "run", Head(thread[t].prev))

(* FastRunner::run *)
Install(t) ==
    \/ take_hook(t, "take", "set")
    \/ set_hook(t, "set", "run", "record")

(* The evaluator returns or panics; the recording hook writes the message to *)
(* the record of the thread.                                                 *)
Evaluate(t) ==
    /\ In(t, "run")
    /\ \E panicked \in BOOLEAN :
          /\ thread' = [thread EXCEPT ![t].pc = "restore", ![t].panicked = panicked]
          /\ record' = IF panicked /\ hook = "record" THEN [record EXCEPT ![t] = thread[t].id] ELSE record
    /\ UNCHANGED <<hook, calls, disturbed>>

Restore(t) ==
    /\ In(t, "restore")
    /\ hook' = thread[t].prev[Len(thread[t].prev)] /\ Disturb
    /\ GotoPc(t, "report")
    /\ UNCHANGED <<record, calls>>

(* The message of a panic is whatever the thread's record has. *)
Report(t) ==
    /\ In(t, "report")
    /\ thread' = [thread EXCEPT
           ![t].err_message = IF thread[t].panicked THEN record[t] ELSE NoMessage,
           ![t].pc = IF thread[t].wrapped THEN "wrap_restore" ELSE "return"]
    /\ UNCHANGED <<hook, record, calls, disturbed>>

WrapRestore(t) ==
    /\ In(t, "wrap_restore")
    /\ hook' = Head(thread[t].prev) /\ Disturb
    /\ GotoPc(t, "return")
    /\ UNCHANGED <<record, calls>>

Return(t) ==
    /\ In(t, "return")
    /\ thread' = [thread EXCEPT ![t] = NoCall]
    /\ UNCHANGED <<hook, record, calls, disturbed>>

HookNext ==
    \E t \in Threads :
        Call(t) \/ Wrap(t) \/ Install(t) \/ Evaluate(t) \/ Restore(t) \/ Report(t) \/ WrapRestore(t)
            \/ Return(t)

HookSpec == HookInit /\ [][HookNext]_hook_vars
-----------------------------------------------------------------------------
(* A call returns the message of its own panic, never the one of an earlier  *)
(* run of the thread, and no message when there is no panic, wherever the    *)
(* calls before it have left the hook and however many overlap it, unless    *)
(* one of them replaced the recording hook while the program ran. (The       *)
(* record is not reset, and overlapping calls restore each other's hook: the *)
(* runner is documented not to be thread safe.)                              *)
ReportsOwnPanic ==
    \A t \in Threads :
        (In(t, "return") /\ t \notin disturbed) =>
            thread[t].err_message = (IF thread[t].panicked THEN thread[t].id ELSE NoMessage)
=============================================================================
