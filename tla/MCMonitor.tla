----------------------------- MODULE MCMonitor -----------------------------
(* An instance of Monitor for TLC: key 1 starts a read-eval-print loop, key *)
(* 2 a batch program.                                                       *)
EXTENDS Monitor

Menu == [key \in {"1", "2"} |-> IF key = "1" THEN "repl" ELSE "batch"]
=============================================================================
