------------------------------- MODULE TxStatus -------------------------------
(***************************************************************************)
(* AsyncTransactionStatus (near-fetch/src/ops.rs), the handle returned by  *)
(* transact_async, over Client::status_tx_async (lib.rs): several clones   *)
(* of one handle poll or wait for the same transaction while the chain     *)
(* moves it along.  The node and the chain are external.                   *)
(***************************************************************************)
EXTENDS Naturals

CONSTANTS
    Task,       \* futures, each holding a clone of the handle
    Account,    \* accounts a transaction may be sent from and to
    Faults      \* what may go wrong: a subset of AllFaults

AllFaults == {"timeout",    \* the node gives up waiting: TimeoutError
              "rpc",        \* any other RPC error, or an answer with no outcome
              "fork",       \* a block that is not final loses to a fork
              "discard"}    \* the chain never takes the transaction

ASSUME StatusFaultAssumption == Faults \subseteq AllFaults

VARIABLES
    signer,     \* account that signed the transaction
    receiver,   \* its receiver_id
    sender,     \* sender_id of the handle, "none" before there is one
    stage,      \* how far the chain has taken the transaction
    op,         \* call a task is in, "none" if it is in none
    target,     \* wait_until of its RPC request
    asleep,     \* tasks in wait that sleep until the next poll
    result,     \* how the task's last call ended
    saw         \* status in the node's last answer to that call

accounts == <<signer, receiver, sender>>
vars == <<accounts, stage, op, target, asleep, result, saw>>

\* TxExecutionStatus; a transaction may also not be sent yet, or never be
\* taken into a block.
Status == {"None", "Included", "ExecutedOptimistic", "IncludedFinal",
           "Executed", "Final"}
Stage == Status \union {"Unsent", "Discarded"}
Completed == {"ExecutedOptimistic", "Executed", "Final"}
\* "unready" stands for the errors that say no more than "not yet".
Result == {"none", "pending", "ready", "unready", "rpc"}

TypeOK ==
    /\ signer \in Account /\ receiver \in Account
    /\ sender \in Account \union {"none"}
    /\ stage \in Stage
    /\ op \in [Task -> {"none", "status", "wait", "wait_until"}]
    /\ target \in [Task -> Status]
    /\ asleep \in SUBSET Task
    /\ result \in [Task -> Result]
    /\ saw \in [Task -> Status \union {"unanswered"}]

Init ==
    /\ signer \in Account /\ receiver \in Account /\ sender = "none"
    /\ stage = "Unsent"
    /\ op = [t \in Task |-> "none"]
    /\ target = [t \in Task |-> "None"]
    /\ asleep = {}
    /\ result = [t \in Task |-> "none"]
    /\ saw = [t \in Task |-> "unanswered"]

-----------------------------------------------------------------------------
(* The chain and the node (external)                                       *)

\* Execution and finality of the block advance independently.
Later ==
    [None |-> {"Included"},
     Included |-> {"ExecutedOptimistic", "IncludedFinal"},
     ExecutedOptimistic |-> {"Executed"},
     IncludedFinal |-> {"Executed"},
     Executed |-> {"Final"},
     Final |-> {}]

Advance ==
    /\ stage \in Status /\ stage' \in Later[stage]
    /\ UNCHANGED <<accounts, op, target, asleep, result, saw>>

Setback ==
    /\ \/ "fork" \in Faults /\ stage \in {"Included", "ExecutedOptimistic"} /\ stage' = "None"
       \/ "discard" \in Faults /\ stage = "None" /\ stage' = "Discarded"
    /\ UNCHANGED <<accounts, op, target, asleep, result, saw>>

\* The node answers once the transaction is as far as the caller asked for.
Reached ==
    [None |-> Status,
     Included |-> Status \ {"None"},
     ExecutedOptimistic |-> Completed,
     IncludedFinal |-> {"IncludedFinal", "Executed", "Final"},
     Executed |-> {"Executed", "Final"},
     Final |-> {"Final"}]

-----------------------------------------------------------------------------
(* The client                                                              *)

\* send_tx_async returned a hash: the handle is made of it and of receiver_id.
TransactAsync ==
    /\ stage = "Unsent" /\ stage' = "None"
    /\ sender' = receiver
    /\ UNCHANGED <<signer, receiver, op, target, asleep, result, saw>>

Calling(t) == op[t] # "none" /\ t \notin asleep

Return(t, res) ==
    /\ op' = [op EXCEPT ![t] = "none"]
    /\ result' = [result EXCEPT ![t] = res]
    /\ UNCHANGED asleep

Request(t, call, wanted) ==
    /\ stage # "Unsent" /\ op[t] = "none"
    /\ op' = [op EXCEPT ![t] = call]
    /\ target' = [target EXCEPT ![t] = wanted]
    /\ result' = [result EXCEPT ![t] = "none"]
    /\ saw' = [saw EXCEPT ![t] = "unanswered"]
    /\ UNCHANGED <<accounts, stage, asleep>>

StatusCall(t) == Request(t, "status", "Included")
WaitCall(t) == Request(t, "wait", "Included")
WaitUntilCall(t) == \E wanted \in Status : Request(t, "wait_until", wanted)

\* Poll::Pending from status(): wait sleeps and polls again.
Pending(t) ==
    IF op[t] = "wait"
      THEN asleep' = asleep \union {t} /\ UNCHANGED <<op, result>>
      ELSE Return(t, "pending")

\* Mutants: a discarded transaction is answered for; Ready does not leave
\* the loop of wait.
AnsweredDiscarded(t) ==
    /\ Calling(t) /\ stage \in Reached[target[t]] \union {"Discarded"}
    /\ saw' = [saw EXCEPT ![t] = stage]
    /\ Return(t, "ready")
    /\ UNCHANGED <<accounts, stage, target>>
AnsweredInLoop(t) ==
    /\ Calling(t) /\ stage \in Reached[target[t]]
    /\ saw' = [saw EXCEPT ![t] = stage]
    /\ IF op[t] = "wait" THEN Pending(t) ELSE Return(t, "ready")
    /\ UNCHANGED <<accounts, stage, target>>

\* The request names sender as the account that signed, and a node that has
\* the transaction by its hash may answer whichever account is named.
\* status_tx_async turns an answer that is only None or Included into
\* RpcTransactionPending, which only status() understands.
Answered(t) ==
    /\ Calling(t) /\ stage \in Reached[target[t]]
    /\ saw' = [saw EXCEPT ![t] = stage]
    /\ IF stage \notin {"None", "Included"} THEN Return(t, "ready")
       ELSE IF op[t] = "wait_until" THEN Return(t, "unready")
       ELSE Pending(t)
    /\ UNCHANGED <<accounts, stage, target>>

\* The node gives up waiting, has no such transaction, or looks for it among
\* those of the account that the request names, which may be another one.
Unknown ==
    \/ "timeout" \in Faults
    \/ stage \in {"None", "Discarded"}
    \/ sender # signer

\* Mutant: only RpcTransactionPending is taken for pending.
NotFoundIsError(t) ==
    /\ Calling(t) /\ Unknown
    /\ Return(t, "unready")
    /\ UNCHANGED <<accounts, stage, target, saw>>

\* TimeoutError or UnknownTransaction: pending for status() and wait().
NotFound(t) ==
    /\ Calling(t) /\ Unknown
    /\ IF op[t] = "wait_until" THEN Return(t, "unready") ELSE Pending(t)
    /\ UNCHANGED <<accounts, stage, target, saw>>

RpcError(t) ==
    /\ "rpc" \in Faults /\ Calling(t)
    /\ Return(t, "rpc")
    /\ UNCHANGED <<accounts, stage, target, saw>>

Wake(t) ==
    /\ t \in asleep /\ asleep' = asleep \ {t}
    /\ UNCHANGED <<accounts, stage, op, target, result, saw>>

-----------------------------------------------------------------------------
Poll(t) == Answered(t) \/ NotFound(t) \/ RpcError(t) \/ Wake(t)

Next ==
    \/ TransactAsync \/ Advance \/ Setback
    \/ \E t \in Task :
          StatusCall(t) \/ WaitCall(t) \/ WaitUntilCall(t) \/ Poll(t)

Spec == Init /\ [][Next]_vars

\* "Get the AccountId of the account that initiated this transaction": the
\* sender_id that the handle sends along with the hash is the signer's.
SenderInitiated == sender # "none" => sender = signer

(* A node that is asked about the right account and has an answer does not *)
(* time out for ever, every other request is given up, a sleep ends; and a *)
(* transaction that is not discarded ends up in a final block, whatever    *)
(* forks there are.  Nothing makes a node find a transaction of another    *)
(* account than the one it is asked about.                                 *)
FairSpec ==
    /\ Spec
    /\ SF_vars(Advance /\ stage' = "IncludedFinal")
    /\ \A t \in Task : WF_vars(Poll(t)) /\ SF_vars(SenderInitiated /\ Answered(t))
    /\ WF_vars(Advance)

-----------------------------------------------------------------------------
Returns(t, call) == op[t] = call /\ op'[t] = "none"

(* A transaction that is not known yet, a node that gives up waiting, a    *)
(* fork or a discarded transaction are no errors of status() and wait().   *)
PendingIsNoError ==
    [][\A t \in Task : Returns(t, "status") \/ Returns(t, "wait")
          => result'[t] # "unready"]_vars

(* A wait() whose handle names the account that signed returns unless the  *)
(* chain discards the transaction, from however many clones it is polled   *)
(* and however often the node times out or a block loses to a fork.        *)
WaitReturns ==
    \A t \in Task : op[t] = "wait" /\ SenderInitiated
                      ~> op[t] = "none" \/ stage = "Discarded"

(* "Note that .await will wait till completion of the transaction": once   *)
(* the transaction is executed in a final block, wait() returns.           *)
AwaitCompletes ==
    \A t \in Task : op[t] = "wait" /\ stage = "Final" ~> op[t] = "none"

(* "Wait until the transaction completes": the result that wait() hands    *)
(* out is of a transaction that is executed.                               *)
WaitsForCompletion ==
    [][\A t \in Task : Returns(t, "wait") /\ result'[t] = "ready"
          => saw'[t] \in Completed]_vars
===============================================================================
