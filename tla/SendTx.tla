-------------------------------- MODULE SendTx --------------------------------
(***************************************************************************)
(* Client::send_tx_once inside the retry loop of RetryableTransaction, and *)
(* Client::send_tx_async (near-fetch/src/lib.rs, ops.rs).  Each task makes *)
(* one call; all share the client's nonce cache (NonceCache, whose steps   *)
(* are taken from there) and one signer (KeyRotatingSigner).  The network  *)
(* below the JSON-RPC client is external: a set of signed transactions     *)
(* that the chain executes, refuses, or never answers for.                 *)
(***************************************************************************)
EXTENDS NonceCache, KeyRotatingSigner

CONSTANTS
    Mode,       \* how calls may wait: a subset of Modes
    Retries,    \* length of the retry strategy; 0 is also "no strategy"
    Faults,     \* what may go wrong: a subset of AllFaults
    MaxBumps    \* bound: transactions of the keys sent by other programs

Modes == {"executed",   \* wait_until a status that comes with an outcome
          "included",   \* wait_until None or Included: no outcome comes
          "async"}      \* send_tx_async
AllFaults == {"rpc",      \* view_block or access_key fails
              "timeout",  \* the node answers TimeoutError
              "lost",     \* the transport fails, before or after delivery
              "expired",  \* the block a transaction names lost to a fork
              "block",    \* a refused transaction is taken into a block
          "delegate"} \* a delegate action inside has a stale nonce

ASSUME SignersAssumption == Signers \in Seq(Key) /\ Signers # <<>>
ASSUME ModeAssumption == Mode \subseteq Modes
ASSUME FaultAssumption == Faults \subseteq AllFaults
ASSUME RetriesAssumption == Retries \in Nat /\ MaxBumps \in Nat

VARIABLES
    at,         \* where in send_tx_once or send_tx_async each task is
    mode,       \* how the task's call waits
    ckey,       \* cache_key of the attempt
    tx,         \* transaction the task signed last, Vacant before the first
    replies,    \* how each attempt of the task ended, the last one last
    removals,   \* invalidate_cache calls left in check_and_invalidate_cache
    network,    \* transactions sent that are neither executed nor refused
    executed,   \* transactions executed by the chain
    bumps       \* transactions of other programs executed so far

callVars == <<at, mode, ckey, tx, replies, removals>>
netVars == <<network, executed, bumps>>
sendVars == <<vars, counter, callVars, netVars>>

Place == {"start", "cache_key", "nonce", "sent", "check", "done"}

\* Outcomes of an executed transaction, the second with the failure
\* DelegateActionInvalidNonce inside.
Outcomes == {"outcome", "delegate_nonce"}

\* Outcomes of a transaction that a block holds and that did not run: an Ok
\* answer with the failure InvalidTxError::InvalidNonce, or another one.
Rejections == {"failed_nonce", "failed_tx"}

Reply == Outcomes \union Rejections \union
         {"accepted", "invalid_nonce", "invalid_tx", "timeout", "lost", "rpc",
          "dropped"}
Tx == [task : Task, try : Nat, pk : Key, nonce : Nat, by : Key]

ASSUME NoTxAssumption == Vacant \notin Tx

SendTypeOK ==
    /\ TypeOK /\ SignerTypeOK
    /\ at \in [Task -> Place]
    /\ mode \in [Task -> Mode]
    /\ ckey \in [Task -> Key]
    /\ tx \in [Task -> Tx \union {Vacant}]
    /\ replies \in [Task -> Seq(Reply)]
    /\ removals \in [Task -> Nat]
    /\ network \in SUBSET Tx /\ executed \in SUBSET Tx
    /\ bumps \in 0 .. MaxBumps
    /\ \A t \in Task : at[t] = "sent" => tx[t] \in Tx

SendInit ==
    /\ Init /\ SignerInit
    /\ at = [t \in Task |-> "start"]
    /\ mode \in [Task -> Mode]
    /\ ckey = key
    /\ tx = [t \in Task |-> Vacant]
    /\ replies = [t \in Task |-> <<>>]
    /\ removals = [t \in Task |-> 0]
    /\ network = {} /\ executed = {} /\ bumps = 0

Goto(t, place) == at' = [at EXCEPT ![t] = place]

-----------------------------------------------------------------------------
(* One attempt: send_tx_once or send_tx_async up to the RPC call           *)

\* The cache key is taken from the signer before sign_tx runs.
CacheKey(t) ==
    /\ at[t] = "start"
    /\ ckey' = [ckey EXCEPT ![t] = CurrentSigner]
    /\ Goto(t, "cache_key")
    /\ UNCHANGED <<vars, counter, mode, tx, replies, removals, netVars>>

\* sign_tx asks the signer again, then fetches a nonce for what it says.
SignTx(t) ==
    /\ at[t] = "cache_key"
    /\ FetchNonce(t, CurrentSigner)
    /\ Goto(t, "nonce")
    /\ UNCHANGED <<counter, mode, ckey, tx, replies, removals, netVars>>

\* The steps of fetch_nonce and of invalidate_cache, as in NonceCache.
CacheStep(t) ==
    /\ \/ ReadHit(t) \/ ReadMiss(t) \/ WaitWrite(t)
       \/ EntryOccupied(t) \/ EntryVacant(t)
       \/ ViewBlockOk(t) \/ AccessKeyOk(t) \/ RemoveEntry(t)
       \/ "rpc" \in Faults /\ RpcErr(t)
    /\ UNCHANGED <<counter, callVars, netVars>>

\* An attempt has its result: what is left is the cache check, if any.
Ended(t, reply, errs) ==
    /\ Goto(t, "check")
    /\ replies' = [replies EXCEPT ![t] = Append(@, reply)]
    /\ removals' = [removals EXCEPT ![t] = errs]
    /\ UNCHANGED <<mode, ckey>>

\* `?` on fetch_nonce: neither the rotation nor the cache check is reached.
NonceErr(t) ==
    /\ at[t] = "nonce" /\ pc[t] = "err"
    /\ Ended(t, "rpc", 0)
    /\ UNCHANGED <<vars, counter, tx, netVars>>

\* Mutant: the counter moves before the signing key is chosen.
SignRotated(t) ==
    /\ at[t] = "nonce" /\ pc[t] = "ok"
    /\ FetchAndRotateSigner
    /\ tx' = [tx EXCEPT ![t] =
          [task |-> t, try |-> Len(replies[t]) + 1,
           pk |-> key[t], nonce |-> got[t], by |-> CurrentSigner']]
    /\ network' = network \union {tx'[t]}
    /\ Goto(t, "sent")
    /\ UNCHANGED <<vars, mode, ckey, replies, removals, executed, bumps>>

\* The signer rotates while it signs; the request goes out.
Sign(t) ==
    /\ at[t] = "nonce" /\ pc[t] = "ok"
    /\ tx' = [tx EXCEPT ![t] =
          [task |-> t, try |-> Len(replies[t]) + 1,
           pk |-> key[t], nonce |-> got[t], by |-> CurrentSigner]]
    /\ FetchAndRotateSigner
    /\ network' = network \union {tx'[t]}
    /\ Goto(t, "sent")
    /\ UNCHANGED <<vars, mode, ckey, replies, removals, executed, bumps>>
-----------------------------------------------------------------------------
(* How the RPC call of an attempt ends                                     *)

\* Mutant: InvalidNonce is an error like any other.
HandlerErrKept(t, reply) == Ended(t, reply, IF mode[t] = "async" THEN 1 ELSE 0)

\* A JSON-RPC handler error: send_tx_async invalidates on any of them,
\* check_and_invalidate_cache only on InvalidNonce.
HandlerErr(t, reply) ==
    Ended(t, reply, IF mode[t] = "async" \/ reply = "invalid_nonce" THEN 1 ELSE 0)

\* Mutant: an outcome with a stale delegate nonce is reported as an error.
OutcomeAsError(t) ==
    /\ at[t] = "sent" /\ mode[t] # "async" /\ tx[t] \in executed
    /\ \E errs \in 0 .. (IF "delegate" \in Faults THEN 2 ELSE 0) :
          Ended(t, IF errs > 0 THEN "invalid_nonce" ELSE "outcome", errs)
    /\ UNCHANGED <<vars, counter, tx, netVars>>

\* The outcome of an executed transaction.  The same failed delegate action
\* may be found twice: as the final status and in its receipt.
Outcome(t) ==
    /\ at[t] = "sent" /\ mode[t] # "async" /\ tx[t] \in executed
    /\ \E errs \in 0 .. (IF "delegate" \in Faults THEN 2 ELSE 0) :
          Ended(t, IF errs > 0 THEN "delegate_nonce" ELSE "outcome", errs)
    /\ UNCHANGED <<vars, counter, tx, netVars>>

\* The outcome of a transaction that a block holds and that was refused.  A
\* stale nonce too may be found twice: as the final status and as that of
\* the transaction itself.
FailedOutcome(t, reason) ==
    /\ "block" \in Faults /\ mode[t] # "async"
    /\ IF reason = "invalid_nonce"
         THEN \E errs \in {1, 2} : Ended(t, "failed_nonce", errs)
         ELSE Ended(t, "failed_tx", 0)

\* A call is told why its transaction was refused: by an error, or by an
\* outcome.
Told(t, reason) == HandlerErr(t, reason) \/ FailedOutcome(t, reason)

\* An answer without an outcome; the transaction is on its way.
Accepted(t) ==
    /\ at[t] = "sent" /\ mode[t] # "executed"
    /\ Ended(t, "accepted", 0)
    /\ UNCHANGED <<vars, counter, tx, netVars>>

TimeoutError(t) ==
    /\ "timeout" \in Faults /\ at[t] = "sent"
    /\ HandlerErr(t, "timeout")
    /\ UNCHANGED <<vars, counter, tx, netVars>>

\* The request or its answer is lost; the two look alike to the client.
TransportError(t) ==
    /\ "lost" \in Faults /\ at[t] = "sent"
    /\ network' \in {network, network \ {tx[t]}}
    /\ Ended(t, "lost", 0)
    /\ UNCHANGED <<vars, counter, tx, executed, bumps>>

-----------------------------------------------------------------------------
(* The network (external)                                                  *)

\* The access key's nonce becomes that of the transaction; gaps are fine.
Execute(x) ==
    /\ x \in network /\ x.by = x.pk
    /\ ChainTo(x.pk, x.nonce)
    /\ network' = network \ {x} /\ executed' = executed \union {x}
    /\ UNCHANGED <<cache, readers, writers, queue, pc, key, got, given,
                   counter, callVars, bumps>>

\* latest() may name a block that loses to a fork; then it is Expired.
Reasons(x) ==
    {reason \in {"invalid_tx", "invalid_nonce"} :
        \/ reason = "invalid_tx" /\ (x.by # x.pk \/ "expired" \in Faults)
        \/ reason = "invalid_nonce" /\ x.by = x.pk /\ x.nonce <= chain[x.pk]}

\* Invalid on arrival, or made so by a later nonce executed before it.  Who
\* still waits for the transaction is told.
Refuse(x) ==
    /\ x \in network
    /\ network' = network \ {x}
    /\ \E reason \in Reasons(x) :
          IF at[x.task] = "sent" /\ tx[x.task] = x
            THEN Told(x.task, reason)
            ELSE UNCHANGED <<at, mode, ckey, replies, removals>>
    /\ UNCHANGED <<vars, counter, tx, executed, bumps>>

Bump(k) ==
    /\ bumps < MaxBumps /\ bumps' = bumps + 1
    /\ ChainTo(k, chain[k] + 1)
    /\ UNCHANGED <<cache, readers, writers, queue, pc, key, got, given,
                   counter, callVars, network, executed>>

-----------------------------------------------------------------------------
(* After the answer                                                        *)

\* Mutants: a removal too many; the entry of the key the signer has by now;
\* a removal that does not take the lock.
CheckTooOften(t) ==
    /\ at[t] = "check"
    /\ Invalidate(t, ckey[t])
    /\ removals' = [removals EXCEPT ![t] = @ - 1]
    /\ UNCHANGED <<counter, at, mode, ckey, tx, replies, netVars>>
CheckCurrentKey(t) ==
    /\ at[t] = "check" /\ removals[t] > 0
    /\ Invalidate(t, CurrentSigner)
    /\ removals' = [removals EXCEPT ![t] = @ - 1]
    /\ UNCHANGED <<counter, at, mode, ckey, tx, replies, netVars>>
CheckUnlocked(t) ==
    /\ at[t] = "check" /\ removals[t] > 0
    /\ cache' = [cache EXCEPT ![ckey[t]] = Vacant]
    /\ given' = [given EXCEPT ![ckey[t]] = {}]
    /\ removals' = [removals EXCEPT ![t] = @ - 1]
    /\ UNCHANGED <<readers, writers, queue, pc, key, got, chain,
                   counter, at, mode, ckey, tx, replies, netVars>>

CheckAndInvalidateCache(t) ==
    /\ at[t] = "check" /\ removals[t] > 0
    /\ Invalidate(t, ckey[t])
    /\ removals' = [removals EXCEPT ![t] = @ - 1]
    /\ UNCHANGED <<counter, at, mode, ckey, tx, replies, netVars>>

\* A missing outcome is an error of send_tx_once, one that tells of a failure
\* is not; a hash is all that send_tx_async needs.
Succeeded(t) ==
    Last(replies[t]) \in
        IF mode[t] = "async" THEN {"accepted"} ELSE Outcomes \union Rejections

\* Mutant: the first attempt is counted as a retry.
ConcludeEarly(t) ==
    /\ at[t] = "check" /\ removals[t] = 0 /\ pc[t] \in Returned
    /\ IF Succeeded(t) \/ mode[t] = "async" \/ Len(replies[t]) >= Retries
         THEN Goto(t, "done") ELSE Goto(t, "start")
    /\ UNCHANGED <<vars, counter, mode, ckey, tx, replies, removals, netVars>>

\* Retry::start tries again after any error while the strategy has delays.
Conclude(t) ==
    /\ at[t] = "check" /\ removals[t] = 0 /\ pc[t] \in Returned
    /\ IF Succeeded(t) \/ mode[t] = "async" \/ Len(replies[t]) > Retries
         THEN Goto(t, "done") ELSE Goto(t, "start")
    /\ UNCHANGED <<vars, counter, mode, ckey, tx, replies, removals, netVars>>

\* The caller drops the call at an await point; what was sent stays sent.
DropCall(t) ==
    /\ \/ at[t] \in {"nonce", "check"} /\ DropFuture(t)
       \/ /\ at[t] = "sent" \/ (at[t] = "start" /\ replies[t] # <<>>)
          /\ UNCHANGED vars
    /\ Goto(t, "done")
    /\ replies' = [replies EXCEPT ![t] = Append(@, "dropped")]
    /\ UNCHANGED <<counter, mode, ckey, tx, removals, netVars>>

-----------------------------------------------------------------------------
Attempt(t) ==
    \/ CacheKey(t) \/ SignTx(t) \/ CacheStep(t) \/ NonceErr(t) \/ Sign(t)
    \/ CheckAndInvalidateCache(t) \/ Conclude(t)

Answer(t) ==
    Outcome(t) \/ Accepted(t) \/ TimeoutError(t) \/ TransportError(t)

Serve(x) == Execute(x) \/ Refuse(x)

Finished == (\A t \in Task : at[t] = "done") /\ UNCHANGED sendVars

SendNext ==
    \/ \E t \in Task : Attempt(t) \/ Answer(t)
    \/ \E t \in Droppable : DropCall(t)
    \/ \E x \in network : Serve(x)
    \/ \E k \in Key : Bump(k)
    \/ Finished

SendSpec == SendInit /\ [][SendNext]_sendVars

(* The runtime polls every woken future, the JSON-RPC client and the node  *)
(* answer every request, and the chain takes or refuses what it was sent.  *)
FairSendSpec ==
    /\ SendSpec
    /\ \A t \in Task :
          /\ WF_sendVars(Attempt(t))
          /\ WF_sendVars(Answer(t))
          /\ WF_sendVars(\E x \in network : x.task = t /\ Serve(x))

-----------------------------------------------------------------------------
(* The calls use the cache as its own specification allows, so what is     *)
(* proved about NonceCache holds of the cache inside the client.           *)
UsesCache == UnboundedSpec

Tries(set) == [t \in Task |-> {x.try : x \in {y \in set : y.task = t}}]

Status(t) ==
    IF at[t] # "done" THEN "open"
    ELSE IF Last(replies[t]) = "dropped" THEN "dropped"
    ELSE IF Last(replies[t]) \in Rejections THEN "refused"
    ELSE IF Succeeded(t) THEN "ok" ELSE "failed"

\* Attempts a call has made; "dropped" is not how an attempt ends.
Made(t) ==
    IF Status(t) = "dropped" THEN Len(replies[t]) - 1 ELSE Len(replies[t])

Delivery == INSTANCE TxDelivery WITH
    Caller <- Task,
    waits <- [t \in Task |-> mode[t] # "async"],
    status <- [t \in Task |-> Status(t)],
    ended <- [t \in Task |-> Made(t)],
    pending <- Tries(network),
    executed <- Tries(executed)

(* Retries, cache checks and drops keep to what a caller is promised: one  *)
(* transaction per attempt, one attempt after the other, an outcome only   *)
(* of a transaction that was executed or never will be, and failure only   *)
(* after the last attempt.                                                 *)
ImplementsDelivery == Delivery!Spec

(* KeyRotatingSigner "will rotate the key used for signing on each call":  *)
(* a transaction is signed with the key it names, although public_key()    *)
(* and sign() are two calls with fetch_nonce's awaits between them.        *)
SignedByOwnKey == \A x \in network \union executed : x.by = x.pk

\* The two answers that a transaction's nonce is stale.
StaleNonce == {"invalid_nonce", "failed_nonce"}

Refused(t) == replies[t] # <<>> /\ Last(replies[t]) \in StaleNonce

(* "This value will get invalidated when an InvalidNonce error is          *)
(* returned": once an attempt is over, the entry that handed out a nonce   *)
(* the chain refused is gone, whatever other calls did in the meantime.    *)
StaleEntryGone ==
    \A t \in Task : Refused(t) /\ at[t] \in {"start", "done"} =>
        tx[t].nonce \notin given[tx[t].pk]

\* How often a call was told that its nonce was stale.
Refusals(t) ==
    Cardinality({i \in DOMAIN replies[t] : replies[t][i] \in StaleNonce})

(* A call is not refused for a stale nonce more often than other           *)
(* transactions of its keys were executed, in any interleaving: a refusal  *)
(* clears what made it stale, so the next one needs a new cause.           *)
RefusalsPaidFor ==
    \A t \in Task : Refusals(t) <= Cardinality(executed \ {tx[t]}) + bumps

(* With one retry for each other transaction of the key, and an otherwise  *)
(* faultless network, every call ends with the outcome of its transaction. *)
RetriesSuffice ==
    \A t \in Task : at[t] = "done" => Last(replies[t]) \in Outcomes

(* What was sent twice is executed twice only if the first attempt left in *)
(* doubt what became of its transaction: it timed out, its answer was lost *)
(* or told no outcome.  After a refusal, or a failed fetch_nonce, nothing  *)
(* of the attempt is left that the chain could still execute, and after an *)
(* outcome there is no further attempt.                                    *)
SentTwiceOnlyInDoubt ==
    \A x \in executed, y \in network \union executed :
        x.task = y.task /\ x.try < y.try =>
            replies[x.task][x.try] \in {"accepted", "timeout", "lost"}

(* "Retry this transactions if it fails": an attempt whose transaction the *)
(* chain executed is never followed by another one.                        *)
RetriedOnlyIfFailed ==
    [][\A t \in Task :
          at[t] = "check" /\ at'[t] = "start" => tx[t] \notin executed]_sendVars

(* Every call returns: the wait for the lock, the retries and the cache    *)
(* checks of other calls do not keep it forever.                           *)
AllCallsReturn == \A t \in Task : <>(at[t] = "done")
===============================================================================
