------------------------------ MODULE MCTxStatus ------------------------------
(* Small instances of TxStatus for TLC. *)
EXTENDS TxStatus

\* The signer's account and the contract's.
CONSTANTS alice, bob
ASSUME TwoAccounts == alice # bob
===============================================================================
