------------------------------ MODULE MCTxBuilder ------------------------------
(* A small instance of TxBuilder for TLC. *)
EXTENDS TxBuilder

CONSTANTS empty, b1, e1, e2, a0, a1, transfer, backoff, optimistic, none
===============================================================================
