------------------------------ MODULE MCBuild ------------------------------
(* The two back ends that run a program: the native one with its object      *)
(* cache (PkgCache), and the evaluator with the panic hook (PanicHook). A    *)
(* behaviour is about one of the two.                                        *)
EXTENDS PkgCache, PanicHook

NativeIsQuiet == runs = 0 /\ edits = 0
FastIsQuiet == calls = 0

(* Threads are interchangeable: the first call is the one of a given thread. *)
FirstCall == calls = 0 => Busy(CHOOSE t \in Threads : TRUE)'

BuildNext ==
    \/ FastIsQuiet /\ Next /\ UNCHANGED hook_vars
    \/ NativeIsQuiet /\ HookNext /\ FirstCall /\ UNCHANGED vars

(* Versions of different packages are never compared: one start is enough. *)
BuildInit == Init /\ HookInit /\ source = [k \in Pkgs |-> CHOOSE v \in Versions : TRUE]

NativeStep(k) == FastIsQuiet /\ Step(k) /\ UNCHANGED hook_vars

BuildSpec ==
    /\ BuildInit
    /\ [][BuildNext]_<<vars, hook_vars>>
    /\ \A k \in Procs : WF_vars(NativeStep(k))
=============================================================================
