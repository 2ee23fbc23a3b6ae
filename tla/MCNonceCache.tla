----------------------------- MODULE MCNonceCache -----------------------------
(* A small instance of NonceCache for TLC. *)
EXTENDS NonceCache

CONSTANTS t1, t2, t3, k1
===============================================================================
