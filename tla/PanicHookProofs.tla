-------------------------- MODULE PanicHookProofs ---------------------------
(* What a run of the fast runner reports, for any number of threads and      *)
(* calls.                                                                    *)
EXTENDS PanicHook, TLAPS

(* A call that has taken a hook has it to give back.                         *)
Hooks == {"default", "silent", "record"}
CallRecord ==
    [pc : {"idle", "wrap_take", "wrap_set", "take", "set", "run", "restore", "report", "wrap_restore", "return"},
     id : Nat, wrapped : BOOLEAN, prev : Seq(Hooks), panicked : BOOLEAN, err_message : Nat]

HookTyped ==
    /\ hook \in Hooks /\ calls \in Nat /\ record \in [Threads -> Nat]
    /\ thread \in [Threads -> CallRecord]
    /\ \A t \in Threads : thread[t].pc \in {"set", "run", "restore", "report", "wrap_restore"} => thread[t].prev # <<>>

(* What holds of a call on the way to its return when none disturbs it.      *)
OwnBy(t) ==
    t \notin disturbed =>
        /\ In(t, "run") => hook = "record"
        /\ (thread[t].pc \in {"restore", "report"} /\ thread[t].panicked) => record[t] = thread[t].id
        /\ thread[t].pc \in {"wrap_restore", "return"} =>
              thread[t].err_message = (IF thread[t].panicked THEN thread[t].id ELSE NoMessage)

HookInv == HookTyped /\ \A t \in Threads : OwnBy(t)

(* A step of t leaves the calls of the others where they are, and the hook   *)
(* as well or disturbs them.                                                 *)
Proceeds(t) ==
    /\ \A u \in Threads \ {t} : thread'[u] = thread[u] /\ record'[u] = record[u]
    /\ \/ UNCHANGED hook /\ disturbed \ {t} \subseteq disturbed'
       \/ Disturb

LEMMA Proceeding ==
    ASSUME HookInv, NEW t \in Threads, Proceeds(t), OwnBy(t)'
    PROVE  \A u \in Threads : OwnBy(u)'
<1>1. ASSUME NEW u \in Threads \ {t} PROVE OwnBy(u)'
  <2>1. CASE UNCHANGED hook /\ disturbed \ {t} \subseteq disturbed'
    BY <1>1, <2>1, Zenon DEF Proceeds, HookInv, OwnBy, In
  <2>2. CASE Disturb
    <3>1. disturbed \subseteq disturbed' /\ (In(u, "run") => u \in disturbed' \/ hook' = "record")
      BY <1>1, <2>2, Zenon DEF Disturb
    <3> QED
      BY <1>1, <3>1, Zenon DEF Proceeds, HookInv, OwnBy, In
  <2> QED
    BY <2>1, <2>2, Zenon DEF Proceeds
<1> QED
  BY <1>1, Zenon

LEMMA HookStep == HookInv /\ [HookNext]_hook_vars => HookInv'
<1> SUFFICES ASSUME HookInv, [HookNext]_hook_vars PROVE HookInv'
  OBVIOUS
<1> USE DEF HookInv
<1>1. ASSUME NEW t \in Threads, Call(t) PROVE HookInv'
  <2>1. PICK w \in BOOLEAN : thread' = [thread EXCEPT ![t] = [NoCall EXCEPT !.pc = IF w THEN "wrap_take" ELSE "take",
                                                                        !.id = calls + 1, !.wrapped = w]]
    BY <1>1, Zenon DEF Call
  <2>2. /\ UNCHANGED <<hook, record>> /\ calls' = calls + 1 /\ disturbed' = disturbed \ {t}
        /\ thread'[t] = [pc |-> IF w THEN "wrap_take" ELSE "take", id |-> calls + 1, wrapped |-> w, prev |-> <<>>,
                         panicked |-> FALSE, err_message |-> NoMessage]
    BY <1>1, <2>1, Zenon DEF Call, NoCall, HookTyped
  <2>3. HookTyped'
    <3>1. thread'[t] \in CallRecord
      BY <2>2, SMT DEF HookTyped, CallRecord, NoMessage
    <3>2. \A u \in Threads \ {t} : thread'[u] = thread[u]
      BY <2>1, Zenon DEF HookTyped
    <3>3. thread' \in [Threads -> CallRecord]
      BY <2>1, <3>1, <3>2, Zenon DEF HookTyped
    <3> QED
      BY <2>2, <3>2, <3>3, SMT DEF HookTyped
  <2>4. Proceeds(t)
    BY <2>1, <2>2, Zenon DEF Proceeds, HookTyped
  <2>5. OwnBy(t)'
    BY <2>2, SMT DEF OwnBy, In
  <2> QED
    BY <2>3, <2>4, <2>5, Proceeding, Zenon
<1>2. ASSUME NEW t \in Threads, take_hook(t, "wrap_take", "wrap_set") PROVE HookInv'
  <2>1. HookTyped'
    BY <1>2, SMT DEF take_hook, HookTyped, CallRecord, Hooks, In, NoMessage
  <2>2. Proceeds(t)
    BY <1>2, Zenon DEF take_hook, Proceeds, HookTyped, CallRecord
  <2>3. OwnBy(t)'
    BY <1>2, Zenon DEF take_hook, OwnBy, In, HookTyped, CallRecord
  <2> QED
    BY <2>1, <2>2, <2>3, Proceeding, Zenon
<1>3. ASSUME NEW t \in Threads, set_hook(t, "wrap_set", "take", "silent") PROVE HookInv'
  <2>1. HookTyped'
    BY <1>3, ZenonT(60) DEF set_hook, GotoPc, HookTyped, CallRecord, Hooks, In, NoMessage
  <2>2. Proceeds(t)
    BY <1>3, Zenon DEF set_hook, GotoPc, Proceeds, HookTyped, CallRecord
  <2>3. OwnBy(t)'
    BY <1>3, Zenon DEF set_hook, GotoPc, OwnBy, In, HookTyped, CallRecord
  <2> QED
    BY <2>1, <2>2, <2>3, Proceeding
<1>4. ASSUME NEW t \in Threads, take_hook(t, "take", "set") PROVE HookInv'
  <2>1. HookTyped'
    BY <1>4, SMT DEF take_hook, HookTyped, CallRecord, Hooks, In, NoMessage
  <2>2. Proceeds(t)
    BY <1>4, Zenon DEF take_hook, Proceeds, HookTyped, CallRecord
  <2>3. OwnBy(t)'
    BY <1>4, Zenon DEF take_hook, OwnBy, In, HookTyped, CallRecord
  <2> QED
    BY <2>1, <2>2, <2>3, Proceeding
<1>5. ASSUME NEW t \in Threads, set_hook(t, "set", "run", "record") PROVE HookInv'
  <2>1. HookTyped'
    BY <1>5, ZenonT(60) DEF set_hook, GotoPc, HookTyped, CallRecord, Hooks, In, NoMessage
  <2>2. Proceeds(t)
    BY <1>5, Zenon DEF set_hook, GotoPc, Proceeds, HookTyped, CallRecord
  <2>3. OwnBy(t)'
    BY <1>5, Zenon DEF set_hook, GotoPc, OwnBy, In, HookTyped, CallRecord
  <2> QED
    BY <2>1, <2>2, <2>3, Proceeding
<1>6. ASSUME NEW t \in Threads, Evaluate(t) PROVE HookInv'
  <2>1. HookTyped'
    <3>1. thread[t].prev # <<>> /\ thread[t].prev \in Seq(Hooks) /\ thread[t] \in CallRecord
      BY <1>6, Zenon DEF Evaluate, HookTyped, CallRecord, In
    <3>2. hook' \in Hooks
      BY <1>6, <3>1, Zenon DEF Evaluate, HookTyped
    <3>3. calls' \in Nat /\ record' \in [Threads -> Nat]
      BY <1>6, <3>1, Zenon DEF Evaluate, HookTyped, CallRecord
    <3>4. thread' \in [Threads -> CallRecord]
      <4>1. PICK b \in BOOLEAN : thread' = [thread EXCEPT ![t].pc = "restore", ![t].panicked = b]
        BY <1>6, Zenon DEF Evaluate
      <4> QED
        BY <3>1, <4>1, Zenon DEF HookTyped, CallRecord
    <3>5. \A u \in Threads : thread'[u].prev = thread[u].prev /\ (u # t => thread'[u].pc = thread[u].pc)
      BY <1>6, SMT DEF Evaluate, HookTyped, CallRecord
    <3> QED
      BY <3>1, <3>2, <3>3, <3>4, <3>5, Zenon DEF HookTyped
  <2>2. Proceeds(t)
    BY <1>6, SMT DEF Evaluate, Proceeds, HookTyped, CallRecord
  <2>3. OwnBy(t)'
    BY <1>6, SMT DEF Evaluate, OwnBy, In, HookTyped, CallRecord
  <2> QED
    BY <2>1, <2>2, <2>3, Proceeding
<1>7. ASSUME NEW t \in Threads, Restore(t) PROVE HookInv'
  <2>1. HookTyped'
    <3>1. thread[t].prev # <<>> /\ thread[t].prev \in Seq(Hooks) /\ thread[t] \in CallRecord
      BY <1>7, Zenon DEF Restore, HookTyped, CallRecord, In
    <3>2. hook' \in Hooks
      BY <1>7, <3>1, SMT DEF Restore, HookTyped
    <3>3. calls' \in Nat /\ record' \in [Threads -> Nat]
      BY <1>7, <3>1, Zenon DEF Restore, HookTyped, CallRecord
    <3>4. thread' \in [Threads -> CallRecord]
      BY <1>7, <3>1, Zenon DEF Restore, GotoPc, HookTyped, CallRecord, NoMessage
    <3>5. \A u \in Threads : thread'[u].prev = thread[u].prev /\ (u # t => thread'[u].pc = thread[u].pc)
      BY <1>7, Zenon DEF Restore, GotoPc, HookTyped, CallRecord
    <3> QED
      BY <3>1, <3>2, <3>3, <3>4, <3>5, ZenonT(60) DEF HookTyped
  <2>2. Proceeds(t)
    BY <1>7, Zenon DEF Restore, GotoPc, Proceeds, HookTyped, CallRecord
  <2>3. OwnBy(t)'
    <3>1. disturbed \subseteq disturbed'
      BY <1>7, Zenon DEF Restore, Disturb
    <3>2. thread[t] \in CallRecord /\ thread' = [thread EXCEPT ![t].pc = "report"]
      BY <1>7, Zenon DEF Restore, GotoPc, HookTyped
    <3> QED
      BY <1>7, <3>1, <3>2, ZenonT(30) DEF Restore, OwnBy, In, HookTyped, CallRecord
  <2> QED
    BY <2>1, <2>2, <2>3, Proceeding
<1>8. ASSUME NEW t \in Threads, Report(t) PROVE HookInv'
  <2>1. HookTyped'
    <3>1. thread[t].prev # <<>> /\ thread[t].prev \in Seq(Hooks) /\ thread[t] \in CallRecord
      BY <1>8, Zenon DEF Report, HookTyped, CallRecord, In
    <3>2. hook' \in Hooks
      BY <1>8, <3>1, Zenon DEF Report, HookTyped
    <3>3. calls' \in Nat /\ record' \in [Threads -> Nat]
      BY <1>8, <3>1, Zenon DEF Report, HookTyped, CallRecord
    <3>4. thread' \in [Threads -> CallRecord]
      BY <1>8, <3>1, Zenon DEF Report, HookTyped, CallRecord, NoMessage
    <3>5. \A u \in Threads : thread'[u].prev = thread[u].prev /\ (u # t => thread'[u].pc = thread[u].pc)
      BY <1>8, SMT DEF Report, HookTyped, CallRecord
    <3> QED
      BY <3>1, <3>2, <3>3, <3>4, <3>5, ZenonT(60) DEF HookTyped
  <2>2. Proceeds(t)
    BY <1>8, Zenon DEF Report, Proceeds, HookTyped, CallRecord
  <2>3. OwnBy(t)'
    BY <1>8, ZenonT(60) DEF Report, OwnBy, In, HookTyped, CallRecord
  <2> QED
    BY <2>1, <2>2, <2>3, Proceeding
<1>9. ASSUME NEW t \in Threads, WrapRestore(t) PROVE HookInv'
  <2>1. HookTyped'
    <3>1. thread[t].prev # <<>> /\ thread[t].prev \in Seq(Hooks) /\ thread[t] \in CallRecord
      BY <1>9, Zenon DEF WrapRestore, HookTyped, CallRecord, In
    <3>2. hook' \in Hooks
      BY <1>9, <3>1, SMT DEF WrapRestore, HookTyped
    <3>3. calls' \in Nat /\ record' \in [Threads -> Nat]
      BY <1>9, <3>1, Zenon DEF WrapRestore, HookTyped, CallRecord
    <3>4. thread' \in [Threads -> CallRecord]
      BY <1>9, <3>1, Zenon DEF WrapRestore, GotoPc, HookTyped, CallRecord, NoMessage
    <3>5. \A u \in Threads : thread'[u].prev = thread[u].prev /\ (u # t => thread'[u].pc = thread[u].pc)
      BY <1>9, Zenon DEF WrapRestore, GotoPc, HookTyped, CallRecord
    <3> QED
      BY <3>1, <3>2, <3>3, <3>4, <3>5, ZenonT(60) DEF HookTyped
  <2>2. Proceeds(t)
    BY <1>9, Zenon DEF WrapRestore, GotoPc, Proceeds, HookTyped, CallRecord
  <2>3. OwnBy(t)'
    <3>1. disturbed \subseteq disturbed'
      BY <1>9, Zenon DEF WrapRestore, Disturb
    <3>2. thread[t] \in CallRecord /\ thread' = [thread EXCEPT ![t].pc = "return"]
      BY <1>9, Zenon DEF WrapRestore, GotoPc, HookTyped
    <3> QED
      BY <1>9, <3>1, <3>2, ZenonT(30) DEF WrapRestore, OwnBy, In, HookTyped, CallRecord
  <2> QED
    BY <2>1, <2>2, <2>3, Proceeding
<1>10. ASSUME NEW t \in Threads, Return(t) PROVE HookInv'
  <2>1. HookTyped'
    BY <1>10, SMT DEF Return, NoCall, HookTyped, CallRecord, Hooks, In, NoMessage
  <2>2. Proceeds(t)
    BY <1>10, Zenon DEF Return, Proceeds, HookTyped
  <2>3. OwnBy(t)'
    BY <1>10, Zenon DEF Return, NoCall, OwnBy, In, HookTyped
  <2> QED
    BY <2>1, <2>2, <2>3, Proceeding
<1>11. CASE UNCHANGED hook_vars
  BY <1>11, Zenon DEF hook_vars, HookTyped, OwnBy, In
<1> QED
  BY <1>1, <1>2, <1>3, <1>4, <1>5, <1>6, <1>7, <1>8, <1>9, <1>10, <1>11, Zenon DEF HookNext, Wrap, Install

(* A run of the fast runner reports its own panic, whatever earlier runs     *)
(* have left in the hook and in the record and whichever runs overlap it,    *)
(* unless one of them replaces the recording hook while its program runs.    *)
THEOREM OwnPanicReported == HookSpec => []ReportsOwnPanic
<1>1. HookInit => HookInv
  BY SMT DEF HookInit, HookInv, HookTyped, OwnBy, NoCall, CallRecord, Hooks, NoMessage, In
<1>2. HookInv => ReportsOwnPanic
  BY Zenon DEF HookInv, OwnBy, ReportsOwnPanic, In
<1> QED
  BY <1>1, <1>2, HookStep, PTL DEF HookSpec
=============================================================================
