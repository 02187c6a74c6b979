------------------------------ MODULE LspLocks ------------------------------
(* The locks of the language server. Every handler and job is the sequence   *)
(* of lock operations it performs; threads run them at the same time. The    *)
(* locks are parking_lot's: a writer announces itself, which stops new       *)
(* readers, and then waits for the readers to leave.                         *)
EXTENDS Naturals, Sequences, FiniteSets

CONSTANTS
    Workers,        \* threads of the pool
    MainThread,
    None

ASSUME ProcsAssumption == MainThread \notin Workers /\ None \notin Workers \cup {MainThread}

Procs == Workers \cup {MainThread}
Locks == {"vfs", "opened_files", "temporary_workspace", "workspaces",
          "workspace_config_cache", "module_cache"}

Read(l) == <<"read", l>>
Write(l) == <<"write", l>>
TryRead(l) == <<"try_read", l>>
Unlock(l) == <<"unlock", l>>

(* The whole critical section of a read or write of l. *)
ReadOnly(l) == <<Read(l), Unlock(l)>>
WriteOnly(l) == <<Write(l), Unlock(l)>>

VARIABLES
    script,     \* the lock operations a thread still has to do
    readers,    \* the threads that read each lock
    writer      \* the thread that writes each lock or waits to

vars == <<script, readers, writer>>
-----------------------------------------------------------------------------
(* The lock operations of the code. *)

on_did_open == <<Write("vfs"), Write("opened_files"), Unlock("opened_files"), Unlock("vfs")>>
on_did_change == on_did_open
on_did_close ==
    <<Read("vfs"), Write("opened_files"), Unlock("opened_files"), Unlock("vfs")>>
        \o WriteOnly("vfs")
process_vfs_changes == WriteOnly("vfs")

async_compile == ReadOnly("vfs") \o WriteOnly("workspace_config_cache")

(* The arms of process_changed_file. An opened file is recorded with the     *)
(* workspaces that contain it, or gets a temporary workspace if there is one.*)
CreateContained ==
    ReadOnly("vfs") \o <<Read("workspaces")>> \o WriteOnly("temporary_workspace")
        \o WriteOnly("opened_files") \o WriteOnly("temporary_workspace")
        \o <<Unlock("workspaces")>>
CreateTemporary ==
    ReadOnly("vfs") \o <<Read("workspaces")>> \o WriteOnly("temporary_workspace")
        \o async_compile \o <<Unlock("workspaces")>>
CreateNone ==
    ReadOnly("vfs") \o <<Read("workspaces")>> \o WriteOnly("temporary_workspace")
        \o WriteOnly("temporary_workspace") \o <<Unlock("workspaces")>>
Modify ==
    ReadOnly("vfs") \o <<Read("opened_files")>> \o ReadOnly("temporary_workspace")
        \o ReadOnly("workspace_config_cache") \o async_compile \o <<Unlock("opened_files")>>
Delete ==
    ReadOnly("vfs") \o
    <<Write("temporary_workspace"), Write("workspaces"), Read("opened_files"),
      Unlock("opened_files"), Unlock("workspaces"), Unlock("temporary_workspace")>>

(* What the main thread does for one event. *)
MainScripts ==
    {on_did_open \o process_vfs_changes \o c : c \in {CreateContained, CreateTemporary, CreateNone}}
    \cup {on_did_change \o process_vfs_changes \o Modify, on_did_close \o process_vfs_changes \o Delete}

(* A compile job up to its result: old diagnostics, mark, code of the main   *)
(* package, source of the changed file.                                      *)
Compile ==
    ReadOnly("workspaces") \o WriteOnly("workspaces") \o ReadOnly("vfs")
        \o <<Write("module_cache"), Read("vfs"), Unlock("vfs"), Unlock("module_cache")>>

CompileOk == Compile \o WriteOnly("workspaces") \o WriteOnly("temporary_workspace")

(* Mutant: a failing compile locks in the order of a close, but looks at the *)
(* open files as well.                                                       *)
CompileErrOpened ==
    Compile \o <<Write("temporary_workspace"), Write("workspaces"), Write("opened_files"),
                 Unlock("opened_files"), Unlock("workspaces"), Unlock("temporary_workspace")>>

CompileErr ==
    Compile \o <<Write("workspaces"), Write("temporary_workspace"),
                 Unlock("temporary_workspace"), Unlock("workspaces")>>

try_get_db_state ==
    <<TryRead("vfs"), Read("opened_files"), Read("temporary_workspace"), TryRead("workspaces"),
      Unlock("workspaces"), Unlock("temporary_workspace"), Unlock("opened_files"), Unlock("vfs")>>
QueryRequest == ReadOnly("vfs") \o try_get_db_state

JobScripts == {CompileOk, CompileErr, QueryRequest}
-----------------------------------------------------------------------------
Init ==
    /\ script = [p \in Procs |-> <<>>]
    /\ readers = [l \in Locks |-> {}]
    /\ writer = [l \in Locks |-> None]

At(p, op) == script[p] /= <<>> /\ Head(script[p])[1] = op
Lock(p) == Head(script[p])[2]
Advance(p) == script' = [script EXCEPT ![p] = Tail(@)]

(* An event for the main thread, a job for a worker. *)
Start(p) ==
    /\ script[p] = <<>>
    /\ \E s \in IF p = MainThread THEN MainScripts ELSE JobScripts :
          script' = [script EXCEPT ![p] = s]
    /\ UNCHANGED <<readers, writer>>

AcquireRead(p) ==
    /\ At(p, "read") \/ At(p, "try_read")
    /\ writer[Lock(p)] = None
    /\ readers' = [readers EXCEPT ![Lock(p)] = @ \cup {p}]
    /\ Advance(p)
    /\ UNCHANGED writer

(* A try_read that finds a writer gives up: the job drops its guards and     *)
(* returns.                                                                  *)
GiveUp(p) ==
    /\ At(p, "try_read")
    /\ writer[Lock(p)] /= None
    /\ readers' = [l \in Locks |-> readers[l] \ {p}]
    /\ script' = [script EXCEPT ![p] = <<>>]
    /\ UNCHANGED writer

AnnounceWrite(p) ==
    /\ At(p, "write")
    /\ writer[Lock(p)] = None
    /\ writer' = [writer EXCEPT ![Lock(p)] = p]
    /\ UNCHANGED <<script, readers>>

AcquireWrite(p) ==
    /\ At(p, "write")
    /\ writer[Lock(p)] = p
    /\ readers[Lock(p)] = {}
    /\ Advance(p)
    /\ UNCHANGED <<readers, writer>>

Release(p) ==
    /\ At(p, "unlock")
    /\ readers' = [readers EXCEPT ![Lock(p)] = @ \ {p}]
    /\ writer' = [writer EXCEPT ![Lock(p)] = IF @ = p THEN None ELSE @]
    /\ Advance(p)

LockStep(p) ==
    \/ AcquireRead(p) \/ GiveUp(p) \/ AnnounceWrite(p) \/ AcquireWrite(p) \/ Release(p)

Next == \E p \in Procs : Start(p) \/ LockStep(p)

Spec == Init /\ [][Next]_vars

(* A thread that can go on does, and parking_lot's eventual fairness hands a *)
(* lock that is free again and again to everyone who waits for it.           *)
FairSpec == Spec /\ \A p \in Procs : SF_vars(LockStep(p))
-----------------------------------------------------------------------------
(* Properties. *)

Ops == ({"read", "write", "try_read", "unlock"} \X Locks)

(* The variables stay in their types.                                       *)
TypeOK ==
    /\ script \in [Procs -> Seq(Ops)]
    /\ readers \in [Locks -> SUBSET Procs]
    /\ writer \in [Locks -> Procs \cup {None}]

(* The threads p cannot go on without. *)
WaitsFor(p) ==
    IF At(p, "read") THEN {writer[Lock(p)]} \ {None}
    ELSE IF At(p, "write")
         THEN IF writer[Lock(p)] = p THEN readers[Lock(p)] ELSE {writer[Lock(p)]} \ {None}
         ELSE {}

Circular(S) == S /= {} /\ \A p \in S : WaitsFor(p) \cap S /= {}

(* The main thread closes a file, holds temporary_workspace and wants        *)
(* workspaces, which a failing compile holds that wants temporary_workspace. *)
CloseAgainstFailure ==
    /\ writer["temporary_workspace"] = MainThread
    /\ At(MainThread, "write") /\ Lock(MainThread) = "workspaces"
    /\ writer["workspaces"] \in Workers
    /\ At(writer["workspaces"], "write")
    /\ Lock(writer["workspaces"]) = "temporary_workspace"

(* However handlers, compiles and requests overlap, threads wait for each    *)
(* other in a circle in one way only, the order of process_changed_file for  *)
(* a close against that of a failing compile; and none waits for itself on a *)
(* lock it holds already.                                                    *)
OnlyCloseAndFailure ==
    \A S \in SUBSET Procs : Circular(S) => CloseAgainstFailure

(* The main thread gets through every handler to its next event, unless it   *)
(* is caught in that one deadlock: no other order of locks and no stream of  *)
(* requests or compiles starves it.                                          *)
MainReturnsOrCaught ==
    script[MainThread] /= <<>> ~> (script[MainThread] = <<>> \/ CloseAgainstFailure)

=============================================================================
