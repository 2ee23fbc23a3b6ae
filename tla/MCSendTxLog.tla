------------------------------ MODULE MCSendTxLog ------------------------------
(* Small instances of SendTxLog for TLC. *)
EXTENDS SendTxLog

CONSTANT k1

\* An InMemorySigner.
OneKey == <<k1>>
===============================================================================
