--------------------------- MODULE MCExecutionResult ---------------------------
(* A small instance of ExecutionResult for TLC. *)
EXTENDS ExecutionResult

CONSTANTS InvalidNonce, ActionFailed
===============================================================================
