------------------------------ MODULE MCExecutor ------------------------------
(* Three tasks, scheduled by the main thread, by the owner or by each other.*)
EXTENDS Executor
=============================================================================
