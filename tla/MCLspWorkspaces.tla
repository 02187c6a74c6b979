-------------------------- MODULE MCLspWorkspaces --------------------------
(* Two files, the workspace of an opened folder, and a workspace that is     *)
(* found for the files when the folder does not contain them.                *)
EXTENDS LspWorkspaces, TLC

CONSTANTS
    f1, f2, folder, found, t1, t2,
    MaxTasks,   \* tasks in the channel of the states that are explored further
    MaxJobs     \* jobs in the pool of those states

(* The folder's program contains f1; both files' directory is "found", whose *)
(* program contains f2; for f2 the lookup finds the folder's settings too.   *)
MCModules == folder :> {f1} @@ found :> {f2}
MCLookup == f1 :> {found} @@ f2 :> {folder, found}

Symmetry == Permutations(Threads)

(* Files that come back while workspaces are busy make the channel and the   *)
(* pool's queue grow without end.                                            *)
ShortQueues == Len(tasks) <= MaxTasks /\ Len(poolq) <= MaxJobs
=============================================================================
