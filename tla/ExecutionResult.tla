---------------------------- MODULE ExecutionResult ----------------------------
(***************************************************************************)
(* ExecutionFinalResult (near-fetch/src/result.rs), made of the answers    *)
(* the node gives while a transaction is being executed, and fetch_tx_errs *)
(* (lib.rs), which looks for stale nonces in the same answers.  The chain  *)
(* is external: it executes the transaction and the receipts it leads to.  *)
(***************************************************************************)
EXTENDS Naturals, SequencesExt

CONSTANTS
    NonceErrors,    \* DelegateActionInvalidNonce, InvalidTxError::InvalidNonce
    OtherErrors,    \* every other TxExecutionError
    Nothing,        \* no result yet
    MaxOutcomes,    \* bound: the transaction and its receipts
    GasBurnt        \* amounts one of them may burn

Errors == NonceErrors \union OtherErrors

ASSUME ResultAssumption ==
    /\ {"Unknown", "SuccessReceiptId", "SuccessValue", "NotStarted", "Started"}
         \intersect Errors = {}
    /\ MaxOutcomes \in Nat \ {0} /\ GasBurnt \subseteq Nat

VARIABLES
    latest,     \* the execution as far as the latest block has it
    settled,    \* the execution as far as the last final block has it
    held,       \* the ExecutionFinalResult of the last poll
    firm        \* whether that poll waited for final blocks

chainVars == <<latest, settled>>
vars == <<chainVars, held, firm>>

\* ExecutionStatusView and FinalExecutionStatus
Status == {"Unknown", "SuccessReceiptId", "SuccessValue"} \union Errors
FinalStatus == {"NotStarted", "Started", "SuccessValue"} \union Errors
OutcomeView == [status : Status, gas : Nat]
Result == [status : FinalStatus, transaction_outcome : OutcomeView,
           receipts_outcome : Seq(OutcomeView)]
\* Outcomes of the transaction, first, and of its receipts; which of them
\* has the value of the transaction; the gas burnt so far.
Execution == [outcomes : Seq(OutcomeView), head : Nat, burnt : Nat]

TypeOK ==
    /\ latest \in Execution /\ latest.head \in DOMAIN latest.outcomes
    /\ settled \in Execution /\ settled.head \in DOMAIN settled.outcomes
    /\ held = Nothing \/ held \in Result
    /\ firm \in BOOLEAN

NotExecuted == [status |-> "Unknown", gas |-> 0]

Init ==
    /\ latest = [outcomes |-> <<NotExecuted>>, head |-> 1, burnt |-> 0]
    /\ settled = latest
    /\ held = Nothing /\ firm = FALSE

-----------------------------------------------------------------------------
(* The chain (external)                                                    *)

\* A transaction fails or becomes a receipt; a receipt fails, has a value or
\* hands over to a new receipt, and may have refunds follow.
Execute(i, status, gas) ==
    LET outcomes == latest.outcomes
    IN  /\ outcomes[i].status = "Unknown"
        /\ i = 1 => status # "SuccessValue"
        /\ \E new \in 0 .. MaxOutcomes - Len(outcomes) :
              /\ status = "SuccessReceiptId" => new > 0
              /\ i = 1 => new = (IF status = "SuccessReceiptId" THEN 1 ELSE 0)
              /\ latest' =
                   [outcomes |-> ReplaceAt(outcomes, i, [status |-> status, gas |-> gas])
                                   \o [j \in 1 .. new |-> NotExecuted],
                    head |-> IF i = latest.head /\ status = "SuccessReceiptId"
                               THEN Len(outcomes) + 1 ELSE latest.head,
                    burnt |-> latest.burnt + gas]
        /\ UNCHANGED <<settled, held, firm>>

Settle == settled' = latest /\ UNCHANGED <<latest, held, firm>>

\* The blocks that are not final lose to a fork.
Undo == latest' = settled /\ UNCHANGED <<settled, held, firm>>

\* FinalExecutionOutcomeView of an execution.
ViewStatus(exec) ==
    IF exec.outcomes[exec.head].status # "Unknown"
      THEN exec.outcomes[exec.head].status
    ELSE IF Len(exec.outcomes) = 1 THEN "NotStarted" ELSE "Started"

View(exec) == [status |-> ViewStatus(exec),
               transaction_outcome |-> Head(exec.outcomes),
               receipts_outcome |-> Tail(exec.outcomes)]

-----------------------------------------------------------------------------
(* The client                                                              *)

\* A poll that waits for Final is answered from final blocks, another one,
\* as by default, from the latest block.
Polled(final) == IF final THEN settled ELSE latest

\* Mutant: the status of the transaction's own outcome.
FromViewOwnStatus(final) ==
    /\ held' = [View(Polled(final)) EXCEPT
                  !.status = Head(Polled(final).outcomes).status]
    /\ firm' = final
    /\ UNCHANGED chainVars

\* from_view(), after transact() or a poll of a handle.
FromView(final) ==
    /\ held' = View(Polled(final)) /\ firm' = final
    /\ UNCHANGED chainVars

Failed(outcome) == outcome.status \in Errors

\* A list of a result's outcomes is the set of their places, in which order
\* they are listed: 0 is the transaction, the others are its receipts.
Outcome(result, place) ==
    IF place = 0 THEN result.transaction_outcome ELSE result.receipts_outcome[place]

ReceiptFailures(result) ==
    {place \in DOMAIN result.receipts_outcome : Failed(result.receipts_outcome[place])}

IsSuccess(result) == result.status = "SuccessValue"
IsFailure(result) == result.status \in Errors

\* Mutant: a successful transaction has no failures.
FailuresUnlessSuccess(result) ==
    {place \in {0} \union ReceiptFailures(result) :
        ~IsSuccess(result) /\ Failed(Outcome(result, place))}

Failures(result) ==
    {place \in {0} : Failed(result.transaction_outcome)} \union ReceiptFailures(result)

\* Mutant: what converting the transaction burnt is left out.
GasOfReceipts(result) ==
    FoldLeft(LAMBDA sum, outcome : sum + outcome.gas, 0, result.receipts_outcome)

TotalGasBurnt(result) ==
    FoldLeft(LAMBDA sum, outcome : sum + outcome.gas,
             result.transaction_outcome.gas, result.receipts_outcome)

\* Mutant: a result is good if nothing in it failed.
IntoResultOfAll(result) ==
    IF result.status \in {"NotStarted", "Started"} THEN "TxStatus"
    ELSE IF Failures(result) = {} THEN "Ok" ELSE "TxExecution"

\* Ok, an execution error, or TxStatus for "not yet".
IntoResult(result) ==
    IF IsSuccess(result) THEN "Ok"
    ELSE IF IsFailure(result) THEN result.status ELSE "TxStatus"

\* Mutant: the receipts are not looked at.
FetchTxErrsOfTx(result) ==
    {result.status, result.transaction_outcome.status} \intersect Errors

\* The final status, the transaction, the receipts, which may repeat an error.
FetchTxErrs(result) ==
    ({result.status, result.transaction_outcome.status}
       \union {result.receipts_outcome[i].status : i \in DOMAIN result.receipts_outcome})
      \intersect Errors

\* check_and_invalidate_cache removes the entry, for one of these or several.
Removes(result) == \E err \in FetchTxErrs(result) : err \in NonceErrors

Next ==
    \/ \E final \in BOOLEAN : FromView(final)
    \/ Settle \/ Undo
    \/ \E i \in DOMAIN latest.outcomes, gas \in GasBurnt,
          status \in Status \ {"Unknown"} : Execute(i, status, gas)

Spec == Init /\ [][Next]_vars

-----------------------------------------------------------------------------
Held == held # Nothing

(* The client looks for stale nonces where its caller sees failures: an    *)
(* answer clears the cache exactly when one of its failures() is a stale   *)
(* nonce, and a failed result has a failure to show for it, although       *)
(* fetch_tx_errs and failures() go through the answer each in its own way. *)
StaleNoncesSeen ==
    Held => LET seen == {Outcome(held, place).status : place \in Failures(held)}
            IN  /\ Removes(held) <=> seen \intersect NonceErrors # {}
                /\ IsFailure(held) => held.status \in seen

(* A verdict on final blocks is final: once into_result() of such a poll   *)
(* is Ok or an execution error, every later poll says the same, of the     *)
(* latest block too, whatever refunds, callbacks or forks still come.      *)
VerdictIsFinal ==
    [][Held /\ firm /\ IntoResult(held) # "TxStatus"
          => IntoResult(held') = IntoResult(held)]_vars

(* What failures() reported of final blocks, every later poll reports too, *)
(* whatever the verdict is by then and wherever new failures come in       *)
(* between.  (That outcomes keep their places is the chain's doing.)       *)
FailuresStay ==
    [][Held /\ firm =>
         /\ Failures(held) \subseteq Failures(held')
         /\ \A place \in Failures(held) :
               Outcome(held', place) = Outcome(held, place)]_vars

(* total_gas_burnt() is all the gas burnt up to the block that was asked:  *)
(* by the receipts and by the conversion of the transaction, by what       *)
(* failed and by what did not; of final blocks, it only grows.             *)
GasIsAllBurnt ==
    Held => /\ firm => TotalGasBurnt(held) <= settled.burnt
            /\ \A final \in BOOLEAN : held = View(Polled(final)) =>
                  TotalGasBurnt(held) = Polled(final).burnt
===============================================================================
