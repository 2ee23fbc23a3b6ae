------------------------------- MODULE SendTxLog -------------------------------
(***************************************************************************)
(* SendTx with a log of the entries of the nonce cache (history variables; *)
(* the steps are those of SendTx).  The removals of a key's entry that     *)
(* invalidate_cache completed divide its history into epochs, numbered     *)
(* from 0; every signed transaction is filed under the epoch in which      *)
(* fetch_nonce gave out its nonce.                                         *)
(***************************************************************************)
EXTENDS SendTx

VARIABLES
    epoch,      \* removals completed, for each key
    born,       \* epoch in which the task's last nonce was given out
    signed,     \* every transaction ever signed, with the epoch of its nonce
    purges      \* every removal, with the attempt whose answer led to it

logVars == <<epoch, born, signed, purges>>
loggedVars == <<sendVars, logVars>>

LogInit ==
    /\ epoch = [k \in Key |-> 0]
    /\ born = [t \in Task |-> 0]
    /\ signed = {} /\ purges = {}

\* RemoveEntry, the only step that takes a task from "remove" with its entry
\* gone: a dropped call leaves "check".
Removes(t) == pc[t] = "remove" /\ pc'[t] # "remove" /\ at'[t] = "check"

Signs(t) == at[t] # "sent" /\ at'[t] = "sent"

Log ==
    /\ epoch' = [k \in Key |->
          epoch[k] + IF \E t \in Task : Removes(t) /\ key[t] = k THEN 1 ELSE 0]
    /\ born' = [t \in Task |-> IF Returns(t) THEN epoch[key[t]] ELSE born[t]]
    /\ signed' = signed \union
          {[tx |-> tx'[t], epoch |-> born[t]] : t \in {u \in Task : Signs(u)}}
    /\ purges' = purges \union
          {[key |-> key[t], epoch |-> epoch[key[t]] + 1,
            task |-> t, try |-> Len(replies[t])] : t \in {u \in Task : Removes(u)}}

LoggedSpec == SendInit /\ LogInit /\ [][SendNext /\ Log]_loggedVars

(* The fairness of FairSendSpec.                                           *)
FairLoggedSpec ==
    /\ LoggedSpec
    /\ \A t \in Task :
          /\ WF_sendVars(Attempt(t))
          /\ WF_sendVars(Answer(t))
          /\ WF_sendVars(\E x \in network : x.task = t /\ Serve(x))

\* The answers after which a call removes the entry of its key.
MayRemove(t, reply) ==
    \/ reply \in StaleNonce \union {"delegate_nonce"}
    \/ mode[t] = "async" /\ reply \in {"invalid_tx", "timeout"}

(* Two transactions of a key are signed with the same nonce only when the  *)
(* key's entry was removed after the first nonce was given out and before  *)
(* the second, on an answer that calls for it: never because calls raced   *)
(* for the first entry, failed, retried or were dropped.                   *)
NonceSharedAfterRemoval ==
    \A a, b \in signed :
        a # b /\ a.tx.pk = b.tx.pk /\ a.tx.nonce = b.tx.nonce =>
            \E p \in purges :
                /\ p.key = a.tx.pk
                /\ \/ a.epoch < p.epoch /\ p.epoch <= b.epoch
                   \/ b.epoch < p.epoch /\ p.epoch <= a.epoch
                /\ MayRemove(p.task, replies[p.task][p.try])
===============================================================================
