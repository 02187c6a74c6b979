------------------------- MODULE MCTimeoutExecutor -------------------------
(* Three tasks for two threads. *)
EXTENDS TimeoutExecutor

CONSTANTS a, b, c

MCOrder == <<a, b, c>>
=============================================================================
