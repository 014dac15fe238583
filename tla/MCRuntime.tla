----------------------------- MODULE MCRuntime -----------------------------
(***************************************************************************)
(* Runtime for TLC: every way of running the program, on platforms with    *)
(* and without signal handlers.                                            *)
(***************************************************************************)
EXTENDS Runtime

AllSetups == {"json", "watch", "pipe", "mongo", "multi"}

JsonOnly == {"json"}
============================================================================
