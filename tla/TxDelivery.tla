------------------------------ MODULE TxDelivery ------------------------------
(***************************************************************************)
(* What a caller that sends actions is promised, without nonces, keys or   *)
(* cache: a call makes its attempts one after the other, each with at most *)
(* one transaction; it succeeds only on an executed transaction, is told    *)
(* that one was refused only when it never will be executed, and fails     *)
(* only when its attempts are used up; and what it has sent may still be   *)
(* executed after it ended.  SendTx implements this (Delivery there).      *)
(***************************************************************************)
EXTENDS Naturals

CONSTANTS
    Caller,     \* calls of send_tx or send_tx_async
    Retries     \* length of the retry strategy

VARIABLES
    waits,      \* whether a call waits for an outcome
    status,     \* "open", "ok", "refused", "failed" or "dropped"
    ended,      \* attempts that ended
    pending,    \* attempts whose transaction is on its way
    executed    \* attempts whose transaction was executed

vars == <<waits, status, ended, pending, executed>>

Limit(c) == IF waits[c] THEN Retries + 1 ELSE 1

Init ==
    /\ waits \in [Caller -> BOOLEAN]
    /\ status = [c \in Caller |-> "open"]
    /\ ended = [c \in Caller |-> 0]
    /\ pending = [c \in Caller |-> {}]
    /\ executed = [c \in Caller |-> {}]

Attempting(c) == status[c] = "open" /\ ended[c] < Limit(c)

Send(c) ==
    /\ Attempting(c)
    /\ ended[c] + 1 \notin pending[c] \union executed[c]
    /\ pending' = [pending EXCEPT ![c] = @ \union {ended[c] + 1}]
    /\ UNCHANGED <<waits, status, ended, executed>>

Execute(c, i) ==
    /\ i \in pending[c]
    /\ pending' = [pending EXCEPT ![c] = @ \ {i}]
    /\ executed' = [executed EXCEPT ![c] = @ \union {i}]
    /\ UNCHANGED <<waits, status, ended>>

\* A transaction is refused or lost after its attempt ended.
Lose(c, i) ==
    /\ i \in pending[c]
    /\ pending' = [pending EXCEPT ![c] = @ \ {i}]
    /\ UNCHANGED <<waits, status, ended, executed>>

\* With an answer, or without one.
EndAttempt(c) ==
    /\ Attempting(c)
    /\ ended' = [ended EXCEPT ![c] = @ + 1]
    /\ pending' \in {pending, [pending EXCEPT ![c] = @ \ {ended'[c]}]}
    /\ UNCHANGED <<waits, status, executed>>

Close(c, how) ==
    /\ status[c] = "open"
    /\ status' = [status EXCEPT ![c] = how]
    /\ UNCHANGED <<waits, ended, pending, executed>>

Succeed(c) ==
    /\ ended[c] > 0 /\ (waits[c] => ended[c] \in executed[c])
    /\ Close(c, "ok")

\* The outcome of a transaction that a block holds and that did not run.
Reject(c) ==
    /\ waits[c] /\ ended[c] > 0
    /\ ended[c] \notin pending[c] \union executed[c]
    /\ Close(c, "refused")

GiveUp(c) == ended[c] = Limit(c) /\ Close(c, "failed")

Drop(c) == Close(c, "dropped")

Next ==
    \E c \in Caller :
        \/ Send(c) \/ EndAttempt(c)
        \/ Succeed(c) \/ Reject(c) \/ GiveUp(c) \/ Drop(c)
        \/ \E i \in pending[c] : Execute(c, i) \/ Lose(c, i)

Spec == Init /\ [][Next]_vars
===============================================================================
