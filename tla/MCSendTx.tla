------------------------------- MODULE MCSendTx -------------------------------
(* Small instances of SendTx for TLC. *)
EXTENDS SendTx

CONSTANTS k1, k2

\* An InMemorySigner, and a KeyRotatingSigner with two keys.
OneKey == <<k1>>
TwoKeys == TryFromIter(<<[account |-> "alice", key |-> k1],
                         [account |-> "alice", key |-> k2]>>)

ASSUME OneAccountOnly ==
    /\ TryFromIter(<<>>) = "InvalidArgs"
    /\ TryFromIter(<<[account |-> "alice", key |-> k1],
                     [account |-> "bob", key |-> k2]>>) = "InvalidArgs"

TaskSymmetry ==
    {f \in Permutations(Task) : \A t \in Droppable : f[t] \in Droppable}
===============================================================================
