# near-fetch in TLA+

near-fetch is a Rust client for the NEAR JSON-RPC API. It signs transactions,
sends them, retries them, and caches the nonce of every access key it uses, so
that many tasks can send through one `Client` at once. This directory holds TLA+
models of it, TLC configurations that check them on small instances, and proofs
that TLAPS checks.

Paths below are relative to `near-fetch/src/` of the repository.

## The system

| Component | State | Operations | Source |
|---|---|---|---|
| Nonce cache | `access_key_nonces`: `RwLock<HashMap<(account, public key), AtomicU64>>`, shared by all clones of a `Client` | `fetch_nonce`, `cached_nonce`, `invalidate_cache` | `lib.rs` 190-199, 262-265, 335-376 |
| Key rotating signer | the keys and an `Arc<AtomicUsize>` counter | `try_from_iter`, `from_signers`, `public_key`, `sign` | `signer.rs` |
| Sending | nothing of its own; one signed transaction per attempt | `send_tx`, `send_tx_once`, `send_tx_async`, `sign_tx`, `check_and_invalidate_cache`, `fetch_tx_errs` | `lib.rs` 79-178, 229-265, 309-333 |
| Retrying | the delays left in the strategy | `RetryableTransaction::into_future` over `tokio_retry` | `ops.rs` 427-490 |
| Builders | function arguments or their error, actions or their error, strategy, `wait_until` | every method of `Function`, `FunctionCallTransaction`, `Transaction` | `ops.rs` 41-463 |
| Status of an asynchronous transaction | `sender_id` and hash | `status`, `wait`, `wait_until`, `status_tx_async` | `ops.rs` 492-621, `lib.rs` 267-300 |
| Queries | method and block reference | `Query`, `QueryChunk`, `ProcessQuery` | `query.rs` |
| Results | status and outcomes of a transaction | `ExecutionFinalResult`, `ExecutionDetails`, `Value` | `result.rs` |
| Errors | none | conversions | `error.rs` |

`retry.rs` is not in the crate's module list: it is dead code.

How they interact. A call of a builder's `transact` becomes a
`RetryableTransaction`; its future calls `send_tx_once` until one attempt
succeeds or the strategy has no delay left. An attempt reads the signer's public
key twice (once for the cache key, once to sign), awaits `fetch_nonce`, has the
signer sign (which rotates it), awaits the RPC, then looks at the answer and
invalidates the cache entry once for each `InvalidNonce` it finds. `fetch_nonce`
awaits the lock and, while it holds a guard, an RPC of its own. A call of
`transact_async` makes one attempt that does not wait for execution and returns
a handle that polls the transaction's status.

What is hard in it. Nothing runs under one lock from beginning to end: tasks
interleave at every await, callers may drop a future at any of them, the
transactions of a key must be executed in nonce order but travel freely, and an
answer about an entry may come after that entry was replaced. RPCs fail, time
out or lose their answer; a failed attempt may have been executed. Other
programs may use the same keys.

What makes each part correct:

- nonce cache: no nonce is returned twice for an entry, an entry only grows, an
  access key is not queried by two tasks at once, every caller is answered;
- sending: a refused nonce clears the entry it came from; refusals are never more
  than their causes; a nonce is shared only across a removal; enough retries end in
  success; actions are executed twice only after an attempt that left in doubt what
  became of it; a transaction is signed with the key it names;
- status: no result before completion, no error for "not yet", every wait returns;
- builders: an argument error is kept until a later `args_json` or `args_borsh`
  replaces it, and what is sent is what was asked;
- results: an answer made before everything was executed agrees with later ones;
  the cache check and the caller see the same failures;
- queries: the answer is about what was named last, the default is the latest
  block, and the two requests of a chunk query are about one block.

## Modules

| Module | Models | Composition |
|---|---|---|
| `NonceDispenser` | what callers of `fetch_nonce` are promised: one atomic step, a nonce not given before | abstract specification |
| `NonceCache` | the nonce map, its lock and its RPCs | implements `NonceDispenser` (`Dispenser`, an INSTANCE with a refinement mapping) |
| `NonceCacheProofs` | theorems about `NonceCache` | extends it |
| `KeyRotatingSigner` | construction, keys and counter | |
| `TxDelivery` | what a caller that sends actions is promised: attempts, success, failure | abstract specification |
| `SendTx` | attempts, answers, retries, network | extends `NonceCache` and `KeyRotatingSigner` and takes their steps; implements `TxDelivery` (`Delivery`, an INSTANCE with a refinement mapping) |
| `SendTxLog` | `SendTx` with a log of the cache entries' lives (history variables) | extends `SendTx` |
| `TxStatus` | the handle of an asynchronous transaction | |
| `TxBuilder` | the builders up to the first RPC | |
| `ExecutionResult` | `ExecutionFinalResult` and `fetch_tx_errs`, over a chain that executes receipts and forks | |
| `Queries` | `Query` and `QueryChunk`, over nodes that lag and fork | |
| `SendTxProofs` | theorems: types, use of the cache, signing key | extends `SendTx` and `NonceCacheProofs` |
| `SendTxRefinement` | theorems: attempts, what may be executed twice, the implementation of `TxDelivery` | extends `SendTxProofs` |
| `SendTxNonces` | theorems: shared and refused nonces, what a retry may cost | extends `SendTxRefinement` and `SendTxLog` |
| `TxStatusProofs`, `TxBuilderProofs`, `ExecutionResultProofs`, `QueriesProofs` | theorems about the module of that name | each extends its module |
| `MC...` | model values, symmetry | extend the module they instantiate |

In each module an operator whose comment says "Mutant" is a plausible wrong
version of the definition after it. No specification uses it. It is there to show
that the property it is paired with in `PROJECT.json` can be violated.

### NonceCache

`cache[k]` is the `AtomicU64` of a map entry, `Vacant` without one. The lock is
`readers`, `writers` and the FIFO `queue` of tokio's fair `RwLock`: a waiting
writer holds back the readers behind it. `pc[t]` is the await point of a task:

| `pc` | Code |
|---|---|
| `read` | `access_key_nonces.read().await` |
| `missed` | read guard dropped, write lock not yet asked for |
| `write` | `write().await` of `fetch_nonce` |
| `view_block` | `fetch_add` done, `client.view_block().await` under the guard |
| `access_key` | `client.access_key().await` under the write guard |
| `remove` | `write().await` of `invalidate_cache` |
| `ok`, `err`, `idle` | returned, or not called |

A stretch of code between two awaits is one action. `ReadHit` and
`EntryOccupied` are the two callers of `cached_nonce`. `RpcErr` is the `?` after
either RPC, `DropFuture` a future dropped at an await. The chain's nonce is
external: `access_key` returns what a node knew at some moment since the request,
or up to `MaxLag` less. `given` records the nonces returned under the present
entry and is used by no guard.

`given` is emptied by `RemoveEntry`, because the code promises nothing across
an invalidation: the next entry comes from the chain, and may give a nonce that
another transaction still carries. `SendTx` deals with what follows from that.

### KeyRotatingSigner and SendTx

`CurrentSigner` is `public_key()`; `FetchAndRotateSigner` the `fetch_add` of
`sign()`. With `Signers <- <<k1>>` it is an `InMemorySigner`. `TryFromIter` refuses
an empty list and keys of several accounts, and the two-key instances are made
with it. `from_signers` refuses nothing: `Signers # <<>>` is an assumption of
`SendTx`, and on an empty signer every use divides by zero.

`at[t]` says where an attempt is: `start` (before the cache key is read),
`cache_key` (before `sign_tx` reads the key again), `nonce` (in `fetch_nonce`),
`sent` (RPC in flight), `check` (in `check_and_invalidate_cache`, with
`removals[t]` calls of `invalidate_cache` left), `done`. `replies[t]` records how
each attempt ended, so that its length is the number of attempts. `network` holds what was
sent, `executed` what the chain took.

Answers: `Outcome` (executed; `fetch_tx_errs` may find up to two stale delegate
nonces in it, and the reply is then `delegate_nonce`), `Accepted` (an answer without
an outcome), `Refuse` (a stale nonce, or another invalid-transaction error for a
wrong signature or, with the fault `expired`, for a block that lost to a fork:
`view_block` names the latest block, not a final one), `TimeoutError` (the
transaction stays on its way), `TransportError` (request or answer lost). A call
is `Told` of a refusal in one of two ways, which `check_and_invalidate_cache`
distinguishes: the node's handler error (`HandlerErr`), or, with the fault `block`,
an `Ok` answer whose outcome is that of a transaction taken into a block and refused
there (`FailedOutcome`). The latter has the failure once or twice, as final status
and as the transaction's, hence up to two removals, and ends the call: for
`send_tx_once` an outcome is no error, whatever it tells. `Conclude` is the retry
loop: any error is retried while delays are left, except in `send_tx_async`. Delays
themselves are not modelled: any task may take any time for any step.

`Delivery` forgets nonces, keys, lock and cache: `ended` counts the replies,
`pending` and `executed` hold the attempts whose transactions are in `network` and
in `executed`. A refusal that answers a waiting call is an `EndAttempt` that loses
the transaction; one that comes after the attempt is over is a `Lose`. A call that
ends on a `FailedOutcome` is a `Reject`.

`SendTxLog` adds a log to each step and changes none: completed removals divide the
life of a key's entry into epochs (`epoch`), `signed` files every signed transaction
under the epoch in which its nonce was given out, `purges` every removal with the
attempt whose answer led to it. `NonceSharedAfterRemoval` is about that log.

### TxStatus

`stage` is the transaction's progress on the chain, `op[t]` the call a clone of
the handle is in, `target[t]` the `wait_until` it sent. `Answered` holds the
`matches!` of `status_tx_async` and the `match`es of `status` and `wait`;
`NotFound` is `UnknownTransaction` or `TimeoutError`. `signer` and `receiver` are
the transaction's, `sender` the handle's `sender_id`, as `transact_async` sets it: to
the receiver. A node that has the transaction by its hash may answer whichever
account the request names; one that looks for it under that account may also not find
it (`Unknown`), for as long as the account is not the signer's.

### TxBuilder

`kind` chooses the builder; `function` is the `Function` under construction,
`actions` the `Result<Vec<Action>>`, `request` what the sending code is handed,
or the error that the future returns before anything is sent. `wrote` and
`asked` record the caller's methods and are what the properties compare with.
`transact_async` drops strategy and `wait_until` without a word, as in the code.

### ExecutionResult

`latest` is the execution as the latest block has it, `settled` as the last final
block has it; `Undo` is a fork. An execution is the list of outcomes, the
transaction's first, with the position of the one whose value becomes the
transaction's (`head`) and the gas burnt. `FromView` is a poll, of final blocks
(`firm`) or of the latest one, and makes the `held` result. `Failures`,
`TotalGasBurnt`, `IntoResult`, `IsSuccess`, `IsFailure` are the methods of that
result; the same methods of `ExecutionResult<T>` read the same details.
`Failures` is the set of the places of those that failed (0 the transaction, `i`
the receipt at `i`): the code's list, whose order is that of the places.
`FetchTxErrs` and `Removes` are what `check_and_invalidate_cache` makes of the
answer, by the same places. They go through an answer in a way of their own (final status,
transaction, receipts), which is what `StaleNoncesSeen` compares.

### Queries

A block is the path of forks that leads to it, so that a prefix is an ancestor;
the path also stands for its hash. `head[n]` is a node's latest block; `Served`
is the set of blocks a node may answer a reference from. `ref` and `what` are the
builder's fields: block or chunk reference, and arguments, prefix or shard. `at` is
`new` while methods are chained, `block` while `QueryChunk` awaits `view_block()`,
`answer` while the request itself is out. `asked` (the reference named last) and
`oldest` (the lowest head when the query was awaited) are history and guard
nothing. So do `named` (the arguments, prefix or shard named last, an error
included) and `spoilt` (whether the arguments serialised last were bad), which the
answer is compared with. `Finality::DoomSlug` is left out: it lies between the other two. The
sync checkpoint that `GasPrice` refuses cannot be set by any method.

## Runs

Constants of the runs are the bounds; no run replaces a definition.

| Run | Instance | Shows |
|---|---|---|
| `NonceCache_calls` | 3 tasks, all droppable; 1 key; nonces to 3; 2 foreign nonces; lag 1 | `IndInv`, `OneAccessKeyQuery`, `FreshNonce`, `NeverBackwards`, `ImplementsDispenser`, `CallReturns`, `RemovalReturns` |
| `SendTx_faults` | 2 calls, `transact` or `transact_async`, one droppable; 1 key; RPC errors, timeouts, refusals in a block, stale delegate nonces; 1 retry | `StaleEntryGone`, `RefusalsPaidFor`, `NonceSharedAfterRemoval`, `UsesCache`, `AllCallsReturn` |
| `SendTx_retries` | 3 calls, 1 key, 3 retries, a foreign transaction, stale delegate nonces | `RetriesSuffice`, `StaleEntryGone`, `RefusalsPaidFor` |
| `SendTx_rotating` | 1 call, 2 keys, every fault and mode, 2 retries, 2 foreign transactions | `SignedByOwnKey`, `StaleEntryGone`, `RefusalsPaidFor`, `SentTwiceOnlyInDoubt`, `UsesCache`, `ImplementsDelivery` |
| `TxStatus_waits` | 2 clones, 2 accounts, every fault | `PendingIsNoError`, `WaitReturns` |
| `TxBuilder_deferred` | 3 argument calls per function, 2 actions per batch, 2 errors | `ArgsAsWritten`, `RequestAsAsked` |
| `ExecutionResult_polls` | a transaction and 4 receipts, one stale nonce error and one other | `StaleNoncesSeen`, `GasIsAllBurnt`, `VerdictIsFinal`, `FailuresStay` |
| `Queries_nodes` | 2 nodes, 2 forks, 2 blocks above genesis | `AnsweredAsAsked`, `LatestIsFresh`, `FinalNeverUndone`, `ChunkOfViewedBlock` |
| `SendTx_shared_signer` | 2 calls, 2 keys, no faults | violates `SignedByOwnKey` |
| `SendTx_no_outcome` | 1 call that waits for no outcome, 1 retry | violates `RetriedOnlyIfFailed` |
| `TxStatus_sender` | 1 clone, 2 accounts, no faults, fair | violates `AwaitCompletes` |
| `TxStatus_completion` | 1 clone, 2 accounts, no faults | violates `WaitsForCompletion` |

Each passing run but `SendTx_retries` and `SendTx_rotating` also checks its module's
type invariant.

Why the bounds are enough for the interesting cases:

- Two tasks race for the write lock; the third comes between the drop of the
  read guard and the write lock, or invalidates. `MaxNonce = 3` lets an entry be
  used, removed, and filled again at the same value (the case a dropped guard would
  turn into a duplicate), or above it, since foreign transactions move the chain.
  A fetch that reserves a nonce at the bound is not started (`Room`). One key is
  enough for the lock, which is one for all keys; that entries of different keys
  stay apart is checked with two keys in `SendTx_rotating` (`UsesCache`) and proved
  for any number.
- In `SendTx` nonces are bounded by the number of attempts and foreign
  transactions; `MaxNonce` and `MaxChain` are set above that and cut nothing.
- `RetriesSuffice` needs three retries for three calls and one foreign
  transaction; with two TLC finds a call that fails.
- In `SendTx_faults` the other call and its delegate failures take the place of the
  foreign transaction: each makes the chain pass a nonce that the first call
  holds, or removes an entry that it has just filled. `SendTx_retries` and
  `SendTx_rotating` have foreign transactions.
- `CounterMod = 2` in `SendTx_rotating` is a multiple of the two keys, as `2^64`
  is, and lets the counter wrap within one call.
- In `ExecutionResult` one receipt makes up to three others, so that a failure
  can come between two that were reported. Every outcome burns one unit of gas.
- Two heights above genesis are enough in `Queries` for a node to lag, for two
  nodes to disagree about a height, and for one of the forks to become final.
- Tasks are interchangeable (symmetry) wherever only safety is checked and their
  droppability is kept; runs with liveness use no symmetry.

`NonceCache` and `TxStatus` have no final state: callers may always call again.
`ExecutionResult` can always be polled. `SendTx`, `Queries` and `TxBuilder` end in
`Finished`, `Finished` and `Submitted`, so the deadlock check
is on in every run and would report a call that is stuck.

### Findings

- *Shared rotating signer* (`SendTx_shared_signer`): `sign_tx` reads
  `public_key()`, awaits the nonce, then signs with whatever key the shared
  counter selects by then. Two concurrent calls on one `KeyRotatingSigner` yield a
  transaction that names one key and is signed with the other. The cache key is yet
  another read, so the entry that is invalidated may be of a key not used at all.
- *No outcome counts as failure* (`SendTx_no_outcome`): with `wait_until(None)` the
  node's answer carries no outcome, `send_tx_once` returns an error, and a retry
  strategy sends the executed actions again.
- *Receiver as sender* (`TxStatus_sender`): the handle of `transact_async` is made
  with `receiver_id` where `sender_id` is meant. The status request names that
  account, a node that looks there finds no transaction, `status()` takes
  `UnknownTransaction` for pending, and `wait()` never returns, although the
  transaction is executed in a final block.
- *Waiting stops before completion* (`TxStatus_completion`): `status_tx_async`
  rejects only the answers `None` and `Included`, so `wait()`, documented to wait "until
  the transaction completes", hands out a result at `IncludedFinal`, before the
  receipts are executed.

Also seen, without a run of its own: `wait_until(None)` and `wait_until(Included)`
fail when the node answers that just this status is reached, because
`status_tx_async` turns the answer into `RpcTransactionPending` (`lib.rs` 286-291),
while `ops.rs` 586 says "Waits until
a sepcific transaction status is reached"; the theorem `ExecutionAwaited` says that
these two are the only ones. `send_tx_async` never learns of a refused nonce from a
node that does not wait, so it goes on using the stale entry. After a timeout or a
lost answer the retry may execute the actions a second time, which no client could
know; `SentTwiceOnlyInDoubt` says that it happens after no other end of an attempt
but one without an outcome.

## Fairness

- `NonceCache!FairSpec`: weak fairness of `Progress(t)`. The runtime polls woken
  futures, tokio's `RwLock` is FIFO, and an RPC ends with an answer or an error
  (the JSON-RPC client's request either completes or fails). No fairness of
  callers, drops or the chain.
- `SendTx!FairSendSpec`: weak fairness of each task's own steps, of the end of its
  RPC, and of the chain's treatment of its transaction (execute or refuse).
  Nothing forces faults, drops or foreign transactions. `FairLoggedSpec` is the same
  for the steps with their log.
- `TxStatus!FairSpec`: weak fairness of the poll loop and of the chain; strong
  fairness of an answer while the request names the signer (a node that has one
  does not time out for ever, nor fail for ever) and of finality (forks end).
  Nothing makes a node answer for a transaction of another account, so `WaitReturns`
  is about handles that name the signer; the handles that the code makes need not,
  which is the finding above. A discarded transaction is excepted: there `wait()`
  polls for ever, by design of its loop.

## Proofs

Eight modules hold theorems. Each theorem is for every value of the constants
that satisfies the named assumptions of the modules, and for any numbers of
tasks, keys, nodes and outcomes. Where a theorem needs more, its hypothesis is in
the table, and a run or a TLC experiment below shows that it is needed.

Assumptions on constants say only what the code's types say: `Vacant` (no map
entry) is no nonce and no transaction; an error is no value, a value of one
variant of an enum is none of another (`QueryAssumption`, `BuilderAssumption`,
`ValuesAssumption`, `ResultAssumption`); a signer has a key
(`SignersAssumption`); there is a node to ask; bounds are naturals; `Droppable`
is a set of tasks. Nonces are natural numbers: `AtomicU64` does not wrap in practice
and the chain would refuse long before.

Every inductive invariant below was an INVARIANT of a TLC run before its proof.

### `NonceCacheProofs`

| Theorem | States |
|---|---|
| `TypeCorrect` | `UnboundedSpec => []TypeOK` |
| `InvariantHolds` | `UnboundedSpec => []IndInv` |
| `NoncesAreFresh` | `UnboundedSpec => FreshNonce` |
| `EntriesOnlyGrow` | `UnboundedSpec => NeverBackwards` |
| `SingleQuery` | `UnboundedSpec => []OneAccessKeyQuery` |
| `CacheImplementsDispenser` | `UnboundedSpec => ImplementsDispenser` |
| `BoundsOnlyRestrict` | `Spec => UnboundedSpec` |

`Spec` has TLC's bounds on nonces in its actions, `UnboundedSpec` has none. The
last theorem carries the others over to `Spec`.

The argument. That a nonce is fresh does not follow from itself: between
`fetch_add` and the answer of `view_block` other tasks step. `IndInv` adds what
carries it through: `Guarded` (who waits for an RPC holds the lock, and writers
exclude readers, so no entry is removed under a reservation), and `Reserved`
(what was returned or is reserved lies at or below the entry, and the reservations
of one key differ from each other and from what was returned). A nonce from
`access_key` is fresh because the entry was vacant, hence nothing was given under
it; a reserved one because of `Reserved`. Each conjunct has a lemma with one step
per action or group of actions that disturb it the same way. The refinement maps
a task's `pc` to the status its caller sees; only the step that returns changes
`given`, and `FreshNonce` is what makes it a `Give`.

### `SendTxProofs`, `SendTxRefinement`, `SendTxNonces`

| Theorem | States | Under |
|---|---|---|
| `SendTypeCorrect` | `[]SendTypeOK` | |
| `ClientUsesCache` | `UsesCache`, which is `UnboundedSpec` | |
| `InvariantInClient`, `FreshInClient` | `[]IndInv`, `FreshNonce` inside the client | |
| `OwnKeySigns` | `[]SignedByOwnKey` | `OneKeyOrOneCaller` |
| `TriesHold` | `[]TryInv` | |
| `ClientImplementsDelivery` | `ImplementsDelivery` | |
| `OnlyDoubtSendsTwice` | `[]SentTwiceOnlyInDoubt` | |
| `NoncesSharedAfterRemovals` | `[]NonceSharedAfterRemoval`, of `LoggedSpec` | |
| `StaleEntriesGo` | `[]StaleEntryGone` | `OneKeyOrOneCaller`, `MaxLag = 0` |
| `RefusalsArePaidFor` | `[]RefusalsPaidFor` | `OneKeyOrOneCaller`, `MaxLag = 0` |
| `RetriesAreEnough` | `[]RetriesSuffice` | the same, `OnlyDelays`, `EnoughRetries` |

All but the one about the log are of `SendSpec`, which `LoggedSpec` implements.
The hypotheses:

- `OneKeyOrOneCaller`: a signer with one key, of any number of callers, or a
  rotating signer with one caller. `SendTx_shared_signer` is what happens without.
- `MaxLag = 0`: a node answers `access_key` with a nonce of the chain since the
  request. With a lag of 1, TLC finds `StaleEntryGone` and `RefusalsPaidFor`
  violated: the entry that is filled again is as stale as the one removed.
- `OnlyDelays`: calls wait for execution, the network only delays and reorders,
  no call is dropped, and delegate actions may be stale. `EnoughRetries`: the
  calls and the foreign transactions are at most one more than the retries. With
  two retries for three calls and one foreign transaction TLC finds a call that
  fails.

The arguments, one per invariant:

- *The cache inside the client.* A step of sending either leaves the cache's
  variables alone or is one of its steps; the bounds of `Room` and `MaxChain` are
  not in `UnboundedNext`, so nothing is asked of the constants. The theorems of
  `NonceCacheProofs` then hold of the client's behaviours.
- *Own key* (`KeyInv`). From the choice of the key to the request for its nonce the
  current signer stays: with one key rotating changes nothing, with one caller no
  one else rotates.
- *Delivery* (`TryInv`). `Counted` bounds the replies by the retries and has a reply
  for every call that ended; `OutcomeShown` backs an outcome by an executed
  transaction of that attempt; `TriesNumbered` makes a call's transactions those of its
  attempts, so that a new one is not in `network` already. Each client step is
  then a step of `TxDelivery` or leaves its variables alone.
- *Twice only in doubt* (`DoubtInv`). Under any faults: a reply after which a call
  never tries again (an outcome, of whatever kind, or a drop) is its last one
  (`FinalIsLast`), and a reply that says the transaction is void (a refusal, or
  `fetch_nonce` failed) leaves nothing of that attempt on its way or executed
  (`NoneLeft`). So an executed transaction with a later one beside it had a reply that
  is neither: a timeout, a lost answer, or one without an outcome. That such an
  attempt may be repeated is what `SendTx_no_outcome` shows.
- *Shared nonces* (`RemovalInv`, `LogInv`). Within an epoch of a key every nonce given
  out is another one (`FreshInClient`), so two transactions with one nonce are of
  different epochs; every epoch up to the present one was ended by a removal
  in `purges` (`EpochsEnded`). `RemovalInv` traces a removal to the reply that asks
  for it, and a reply once given does not change.
- *Refused nonces* (`CleanAfter`). A refused nonce is at or below the chain's. When
  the entry it came from is removed, everything that can refill it queries the chain
  afterwards, or was given above it (`Clean`); `Clean` survives every later step,
  also those of other calls that remove the entry again.
- *Retries* (`TxInv`, `GoneInv`, lemmas for the next two). Without timeouts and lost
  answers, the transaction of an attempt that failed is neither on its way nor
  executed, so that each call has at most one executed transaction.
- *The price of a refusal* (`PaidInv`). The keys that are stale for a call
  (`StaleKeys`: an entry, a query in flight, a reserved nonce or a transaction on
  its way that the chain has passed) and the refusals it got are together at most
  the transactions executed. An execution, of another's or a foreign transaction,
  makes at most one key stale; a refusal takes one out, because the call
  removes the entry before it goes on (`Pending`), and the writer that removes has no
  query of the key beside it. What is fetched afterwards is fresh, since nodes do
  not lag. The call's own executed transaction is one more than is
  charged.
- *Enough retries* (`Persistent`). A call that is only delayed is only ever refused,
  so it ends on an outcome or has more refusals than retries. The last
  theorem plays this against `PaidInv`: there are not as many transactions to pay
  with.

### `TxStatusProofs`

| Theorem | States |
|---|---|
| `StatusTypeCorrect` | `Spec => []TypeOK` |
| `SleepersWait` | `Spec => []OnlyWaitSleeps` |
| `InclusionAwaited` | `Spec => WaitsForInclusion` (what is left of `WaitsForCompletion`) |
| `PendingIsHandled` | `Spec => PendingIsNoError` |
| `ExecutionAwaited` | `Spec => WaitsUntilExecuted` |

`OnlyWaitSleeps` is what the two action properties need: a call that sleeps
between polls is a `wait()`, so `status()` answers at its first poll.
`WaitsForInclusion` is what is left of the violated `WaitsForCompletion`: the result
that `wait()` hands out is of a transaction that is executed, or at least in a final
block. `WaitsUntilExecuted` is what is left of the documentation of `wait_until()`:
asked for any status beyond `Included`, the first answer that names a status ends it
with a result.

### `TxBuilderProofs`

| Theorem | States |
|---|---|
| `BuilderTypeCorrect` | `Spec => []TypeOK` |
| `ArgumentsAreKept` | `Spec => []ArgsAsWritten` |
| `SentAsAsked` | `Spec => []RequestAsAsked` |

For chains of any length: `MaxArgs` and `MaxActions` are any naturals. `RawIsGood`
(raw bytes are no error) carries the arguments: only `args()` clears an
earlier error. `BatchKept` carries the actions: they are the list of what was asked
for, or the arguments of the last unusable one. Both are about positions of the
history lists, which only grow at their end.

### `ExecutionResultProofs`

| Theorem | States |
|---|---|
| `ResultTypeCorrect` | `Spec => []TypeOK` |
| `VerdictsAreFinal` | `Spec => VerdictIsFinal` |
| `FailuresAreFinal` | `Spec => FailuresStay` |
| `StaleNoncesFound` | `Spec => []StaleNoncesSeen` |
| `AllGasCounted` | `Spec => []GasIsAllBurnt` |

`ResultInv`: an execution is `Sound` (what has the transaction's value hands over
to no receipt), the latest one has `Grown` from the settled one (an executed outcome
stays at its place, which is the chain's doing and not the client's), and a result of final blocks is `Backed` by the settled one.
Growing keeps a result backed, and two results that are backed by one execution
agree on what either saw executed. `FailureShown` (a failed result has an
outcome that failed with its error) is what makes the final status, which
`fetch_tx_errs` reads first, add nothing to the outcomes. For the gas, `GasInv` has
the books of an execution `Balanced`: sums up to each place lead to what was burnt,
and what was not executed burnt nothing. `total_gas_burnt()` is a fold; that it is the
last of those sums is `FoldAddsUp`, that it is defined at all for a list of any length
`FoldExists`. Both take the least place where they would fail (`Least`) in place
of an induction theorem. TLC checked `GasInv` with the fold in place of the sums,
for receipts that burn 0 or 2.

### `QueriesProofs`

| Theorem | States |
|---|---|
| `QueryTypeCorrect` | `Spec => []TypeOK` |
| `AnswersAreAsAsked` | `Spec => []AnsweredAsAsked` |
| `AnswersAreFresh` | `Spec => []LatestIsFresh` |
| `FinalAnswersStay` | `Spec => []FinalNeverUndone` |
| `ChunkOfOneBlock` | `Spec => []ChunkOfViewedBlock` |

`AnsweredAsAsked` compares the answer with the history of the caller's methods, not
with the builder's fields; that the two agree, and that a builder whose last
serialised arguments were bad holds the error, is `Kept`. `QueryInv` adds to the
promises what a request on its way carries: it is made from what was named last
(`AskedFor`), or, between the two requests of a chunk query, it asks for the latest
block; and no head has gone below the lowest of when the caller began to wait
(`NoneOlder`), which the block that `view_block()` gave inherits. That a final block
stays on the final chain is transitivity of the prefix relation.

### Only model-checked

- Liveness, which is out of the proof system's reach: `CallReturns`, `RemovalReturns`
  (`NonceCache_calls`), `AllCallsReturn` (`SendTx_faults`), `WaitReturns`
  (`TxStatus_waits`).
- The findings: a violation is an instance, and TLC shows it.

## Not modelled

- `error.rs`: conversions between error types. The distinctions callers make are
  in the models above.
- The examples, which call the library once each and have no logic of their own.
- Serialisation, base64, JSON, logs; delays and jitter; amounts beyond opaque
  values; account names (one signer account per client in `SendTx`).
- VRF signatures of a `KeyRotatingSigner`, which read the current key and leave
  the rotation alone.
- The content of transactions: two calls that share a nonce after an invalidation
  and have equal actions and block hash send one transaction. It is executed once,
  and both report its outcome. `NonceSharedAfterRemoval` bounds when this may come
  about; the model keeps the two transactions apart.
- A transaction that is executed in a block that loses to a fork: `SendTx` treats
  execution as final. `ExecutionResult` and `TxStatus` have the forks.

## Plan

1. Done: all modules of the table above, their runs, and theorems for every
   invariant and action property of a passing run.
2. Possible next: what a caller gains from the implementation of `TxDelivery`, as theorems of
   `SendSpec`: a waiting call that succeeds has an executed attempt of its own, and
   no call makes more attempts than its strategy allows.
3. Possible next: the order of the keys of a `KeyRotatingSigner`: between two uses of one key by
   one caller every other key is used, as long as the counter does not wrap.
