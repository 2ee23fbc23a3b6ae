------------------------------ MODULE NonceCache ------------------------------
(***************************************************************************)
(* Client::access_key_nonces (near-fetch/src/lib.rs): the map from an      *)
(* access key to the last nonce handed out for it, behind tokio's fair     *)
(* RwLock, and the two public operations on it, fetch_nonce and            *)
(* invalidate_cache.  Every task is one future polled by a multi-threaded  *)
(* runtime; pc[t] names the await point where that future is suspended.    *)
(* Code between two await points is one step, except where another thread  *)
(* could see the difference (ReadMiss / WaitWrite).                        *)
(***************************************************************************)
EXTENDS Naturals, SequencesExt

CONSTANTS
    Task,       \* futures that share one Client (clones share the Arc)
    Key,        \* CacheKey: (account id, public key) pairs
    Vacant,     \* the value of a key that is not in the map
    MaxNonce,   \* bound: no new fetch once a cached nonce has reached it
    MaxChain,   \* bound: largest nonce other users of a key may reach
    MaxLag,     \* how far behind the head an answering node may be
    Droppable   \* tasks whose caller may drop the future (timeout, select!)

ASSUME VacantAssumption == Vacant \notin Nat
ASSUME BoundAssumption ==
    MaxNonce \in Nat /\ MaxChain \in Nat /\ MaxLag \in Nat
ASSUME DroppableAssumption == Droppable \subseteq Task

VARIABLES
    cache,      \* access_key_nonces
    readers,    \* tasks holding the lock for reading
    writers,    \* tasks holding the lock for writing
    queue,      \* tasks waiting for the lock, first come first served
    pc,         \* await point of each task
    key,        \* the cache key the task's current call is about
    got,        \* nonce the call holds: reserved, or returned if pc is "ok";
                \* during access_key, the chain's nonce when it was asked for
    chain,      \* nonce of each access key on the chain
    given       \* history: nonces returned since the entry was created

vars == <<cache, readers, writers, queue, pc, key, got, chain, given>>

Returned == {"idle", "ok", "err"}
Waiting  == {"read", "write", "remove"}
Calling  == {"view_block", "access_key"}
Stage    == Returned \union Waiting \union Calling \union {"missed"}

TypeOK ==
    /\ cache \in [Key -> Nat \union {Vacant}]
    /\ readers \in SUBSET Task /\ writers \in SUBSET Task
    /\ queue \in Seq(Task)
    /\ pc \in [Task -> Stage]
    /\ key \in [Task -> Key]
    /\ got \in [Task -> Nat]
    /\ chain \in [Key -> Nat]
    /\ given \in [Key -> SUBSET Nat]

Init ==
    /\ cache = [k \in Key |-> Vacant]
    /\ readers = {} /\ writers = {} /\ queue = <<>>
    /\ pc = [t \in Task |-> "idle"]
    /\ key \in [Task -> Key]
    /\ got = [t \in Task |-> 0]
    /\ chain = [k \in Key |-> 0]
    /\ given = [k \in Key |-> {}]

-----------------------------------------------------------------------------
(* tokio::sync::RwLock: requests are served in the order they were made,   *)
(* so a waiting writer holds back the readers that come after it.          *)

IsNext(t)   == queue # <<>> /\ Head(queue) = t
CanRead(t)  == IsNext(t) /\ writers = {}
CanWrite(t) == IsNext(t) /\ writers = {} /\ readers = {}

Enqueue(t) == queue' = Append(queue, t) /\ UNCHANGED <<readers, writers>>
Release(t) ==
    /\ readers' = readers \ {t}
    /\ writers' = writers \ {t}
    /\ UNCHANGED queue

Move(t, stage) == pc' = [pc EXCEPT ![t] = stage]

-----------------------------------------------------------------------------
(* fetch_nonce *)

FetchNonce(t, k) ==
    /\ pc[t] \in Returned
    /\ Move(t, "read")
    /\ key' = [key EXCEPT ![t] = k]
    /\ got' = [got EXCEPT ![t] = 0]
    /\ Enqueue(t)
    /\ UNCHANGED <<cache, chain, given>>

\* Mutant: the caller is given the old value itself.
CachedNonceOld(t) ==
    /\ cache[key[t]] # Vacant
    /\ cache' = [cache EXCEPT ![key[t]] = @ + 1]
    /\ got' = [got EXCEPT ![t] = cache[key[t]]]
    /\ Move(t, "view_block")
    /\ UNCHANGED <<key, chain, given>>

\* cached_nonce up to its await: fetch_add returns the old value and the
\* caller will be given one more than that.
CachedNonce(t) ==
    /\ cache[key[t]] # Vacant
    /\ cache' = [cache EXCEPT ![key[t]] = @ + 1]
    /\ got' = [got EXCEPT ![t] = cache[key[t]] + 1]
    /\ Move(t, "view_block")
    /\ UNCHANGED <<key, chain, given>>

\* Mutant: the guard is dropped before view_block is awaited.
ReadHitUnguarded(t) ==
    /\ pc[t] = "read" /\ CanRead(t)
    /\ CachedNonce(t)
    /\ queue' = Tail(queue)
    /\ UNCHANGED <<readers, writers>>

\* The read guard lives until fetch_nonce returns: it is held during the RPC.
ReadHit(t) ==
    /\ pc[t] = "read" /\ CanRead(t)
    /\ CachedNonce(t)
    /\ queue' = Tail(queue) /\ readers' = readers \union {t}
    /\ UNCHANGED writers

\* Mutant: the access key is queried under the read guard.
ReadMissQueries(t) ==
    /\ pc[t] = "read" /\ CanRead(t)
    /\ cache[key[t]] = Vacant
    /\ Move(t, "access_key")
    /\ queue' = Tail(queue) /\ readers' = readers \union {t}
    /\ UNCHANGED <<writers, cache, key, got, chain, given>>

\* Mutant: drop(nonces) is forgotten.
ReadMissKeepsGuard(t) ==
    /\ pc[t] = "read" /\ CanRead(t)
    /\ cache[key[t]] = Vacant
    /\ Move(t, "missed")
    /\ queue' = Tail(queue) /\ readers' = readers \union {t}
    /\ UNCHANGED <<writers, cache, key, got, chain, given>>

\* The key is missing: the read guard is dropped again.
ReadMiss(t) ==
    /\ pc[t] = "read" /\ CanRead(t)
    /\ cache[key[t]] = Vacant
    /\ Move(t, "missed")
    /\ queue' = Tail(queue) /\ UNCHANGED <<readers, writers>>
    /\ UNCHANGED <<cache, key, got, chain, given>>

\* Only now does the task ask for the write lock; others may come between.
WaitWrite(t) ==
    /\ pc[t] = "missed"
    /\ Move(t, "write")
    /\ Enqueue(t)
    /\ UNCHANGED <<cache, key, got, chain, given>>

EntryOccupied(t) ==
    /\ pc[t] = "write" /\ CanWrite(t)
    /\ CachedNonce(t)
    /\ queue' = Tail(queue) /\ writers' = {t}
    /\ UNCHANGED readers

\* Mutant: what another writer stored in the meantime is not looked at.
EntryUnchecked(t) ==
    /\ pc[t] = "write" /\ CanWrite(t)
    /\ Move(t, "access_key")
    /\ got' = [got EXCEPT ![t] = chain[key[t]]]
    /\ queue' = Tail(queue) /\ writers' = {t}
    /\ UNCHANGED <<readers, cache, key, chain, given>>

EntryVacant(t) ==
    /\ pc[t] = "write" /\ CanWrite(t)
    /\ cache[key[t]] = Vacant
    /\ Move(t, "access_key")
    /\ got' = [got EXCEPT ![t] = chain[key[t]]]
    /\ queue' = Tail(queue) /\ writers' = {t}
    /\ UNCHANGED <<readers, cache, key, chain, given>>

\* client.view_block() answered: the reserved nonce is returned.
ViewBlockOk(t) ==
    /\ pc[t] = "view_block"
    /\ Move(t, "ok")
    /\ given' = [given EXCEPT ![key[t]] = @ \union {got[t]}]
    /\ Release(t)
    /\ UNCHANGED <<cache, key, got, chain>>

\* client.access_key() is optimistic: the node reads the nonce at some moment
\* between the request and the answer, and may itself be behind the head.
AccessKeyNonce(t) == {n \in 0 .. chain[key[t]] : got[t] <= n + MaxLag}

\* Mutant: `cached` is stored and `returned` handed out for the chain's n.
AccessKeyStores(t, cached(_), returned(_)) ==
    /\ pc[t] = "access_key"
    /\ \E n \in AccessKeyNonce(t) :
          /\ cache' = [cache EXCEPT ![key[t]] = cached(n)]
          /\ got' = [got EXCEPT ![t] = returned(n)]
          /\ given' = [given EXCEPT ![key[t]] = @ \union {returned(n)}]
    /\ Move(t, "ok")
    /\ Release(t)
    /\ UNCHANGED <<key, chain>>
AccessKeyReturnsUsed(t) ==
    AccessKeyStores(t, LAMBDA n : n, LAMBDA n : n)
AccessKeyReturnsEntry(t) ==
    AccessKeyStores(t, LAMBDA n : n + 1, LAMBDA n : cache[key[t]])

AccessKeyOk(t) ==
    /\ pc[t] = "access_key"
    /\ \E n \in AccessKeyNonce(t) :
          /\ cache' = [cache EXCEPT ![key[t]] = n + 1]
          /\ got' = [got EXCEPT ![t] = n + 1]
          /\ given' = [given EXCEPT ![key[t]] = @ \union {n + 1}]
    /\ Move(t, "ok")
    /\ Release(t)
    /\ UNCHANGED <<key, chain>>

\* Mutant: the error path leaves the lock held.
RpcErrKeepsGuard(t) ==
    /\ pc[t] \in Calling
    /\ Move(t, "err")
    /\ got' = [got EXCEPT ![t] = 0]
    /\ UNCHANGED <<cache, readers, writers, queue, key, chain, given>>

\* Mutant: the nonce reserved for a failed call goes back to the entry.
RpcErrTakesBack(t) ==
    /\ pc[t] \in Calling
    /\ Move(t, "err")
    /\ cache' = IF pc[t] = "view_block"
                   THEN [cache EXCEPT ![key[t]] = @ - 1] ELSE cache
    /\ got' = [got EXCEPT ![t] = 0]
    /\ Release(t)
    /\ UNCHANGED <<key, chain, given>>

\* Either RPC failed: `?` returns the error and drops the guard.  After
\* fetch_add the reserved nonce is burnt; after access_key nothing is stored.
RpcErr(t) ==
    /\ pc[t] \in Calling
    /\ Move(t, "err")
    /\ got' = [got EXCEPT ![t] = 0]
    /\ Release(t)
    /\ UNCHANGED <<cache, key, chain, given>>

-----------------------------------------------------------------------------
(* invalidate_cache *)

Invalidate(t, k) ==
    /\ pc[t] \in Returned
    /\ Move(t, "remove")
    /\ key' = [key EXCEPT ![t] = k]
    /\ got' = [got EXCEPT ![t] = 0]
    /\ Enqueue(t)
    /\ UNCHANGED <<cache, chain, given>>

RemoveEntry(t) ==
    /\ pc[t] = "remove" /\ CanWrite(t)
    /\ cache' = [cache EXCEPT ![key[t]] = Vacant]
    /\ given' = [given EXCEPT ![key[t]] = {}]
    /\ Move(t, "idle")
    /\ queue' = Tail(queue)
    /\ UNCHANGED <<readers, writers, key, got, chain>>

-----------------------------------------------------------------------------
(* The caller drops the future at an await point: a waiting request leaves *)
(* the queue, a guard is released; a reserved nonce is burnt.              *)
DropFuture(t) ==
    /\ \/ /\ pc[t] \in Waiting
          /\ \E i \in 1 .. Len(queue) :
                queue[i] = t /\ queue' = RemoveAt(queue, i)
          /\ UNCHANGED <<readers, writers>>
       \/ pc[t] \in Calling /\ Release(t)
    /\ Move(t, "idle")
    /\ got' = [got EXCEPT ![t] = 0]
    /\ UNCHANGED <<cache, key, chain, given>>

\* A transaction of the access key is executed: its nonce rises.
ChainTo(k, n) ==
    /\ n > chain[k]
    /\ chain' = [chain EXCEPT ![k] = n]

ChainAdvance(k) ==
    /\ \E n \in 1 .. MaxChain : ChainTo(k, n)
    /\ UNCHANGED <<cache, readers, writers, queue, pc, key, got, given>>

-----------------------------------------------------------------------------
\* The steps a call in progress takes by itself.
Progress(t) ==
    \/ ReadHit(t) \/ ReadMiss(t) \/ WaitWrite(t)
    \/ EntryOccupied(t) \/ EntryVacant(t)
    \/ ViewBlockOk(t) \/ AccessKeyOk(t) \/ RpcErr(t)
    \/ RemoveEntry(t)

\* The bound on nonces: callers stop fetching until the entry is removed.
Room(k) == cache[k] \in {Vacant} \union 0 .. MaxNonce - 1

Call(t) ==
    \E k \in Key : (Room(k) /\ FetchNonce(t, k)) \/ Invalidate(t, k)

Next ==
    \/ \E t \in Task : Call(t) \/ Progress(t)
    \/ \E t \in Droppable : DropFuture(t)
    \/ \E k \in Key : ChainAdvance(k)

Spec == Init /\ [][Next]_vars

(* The cache without the bounds on nonces: how any client may use it, and  *)
(* what the proofs are about.                                              *)
ChainMoves(k) ==
    /\ chain'[k] \in Nat /\ ChainTo(k, chain'[k])
    /\ UNCHANGED <<cache, readers, writers, queue, pc, key, got, given>>

UnboundedNext ==
    \/ \E t \in Task : Progress(t)
    \/ \E t \in Task, k \in Key : FetchNonce(t, k) \/ Invalidate(t, k)
    \/ \E t \in Droppable : DropFuture(t)
    \/ \E k \in Key : ChainMoves(k)

UnboundedSpec == Init /\ [][UnboundedNext]_vars

(* A runtime polls every woken future, the lock is fair, and an RPC call   *)
(* ends with an answer or an error; callers owe nothing.                   *)
FairSpec == Spec /\ \A t \in Task : WF_vars(Progress(t))

-----------------------------------------------------------------------------
\* The lock: a task in an RPC holds it, and never a writer with another task.
Guarded ==
    /\ writers # {} => readers = {}
    /\ \A t \in Task :
          /\ pc[t] = "access_key" => writers = {t}
          /\ pc[t] = "view_block" => t \in readers \/ writers = {t}

\* Nonces of a key that were returned or are reserved lie below its entry.
Reserved ==
    /\ \A k \in Key : \A n \in given[k] : cache[k] \in Nat /\ n <= cache[k]
    /\ \A t \in Task :
          /\ pc[t] = "access_key" => cache[key[t]] = Vacant
          /\ pc[t] = "view_block" =>
                /\ cache[key[t]] \in Nat
                /\ got[t] <= cache[key[t]]
                /\ got[t] \notin given[key[t]]
    /\ \A t, u \in Task :
          /\ t # u /\ key[t] = key[u]
          /\ pc[t] = "view_block" /\ pc[u] = "view_block"
          => got[t] # got[u]

(* The invariant that makes nonces fresh: whoever waits for an RPC holds    *)
(* the lock, so the entry a nonce was reserved from is still there when the *)
(* answer comes, and no two reservations or earlier answers coincide.       *)
IndInv == TypeOK /\ Guarded /\ Reserved

-----------------------------------------------------------------------------
\* A task leaves an RPC of fetch_nonce with a nonce for its key.
Returns(t) == pc[t] \in Calling /\ pc'[t] = "ok"

(* No nonce is returned twice for a key between two invalidations, whoever *)
(* asked and however the waits for the lock and for the RPCs interleave:   *)
(* the guard of fetch_nonce must outlive the await in cached_nonce.        *)
FreshStep == \A t \in Task : Returns(t) => got'[t] \notin given[key[t]]
FreshNonce == [][FreshStep]_vars

(* A cached nonce is never overwritten with a smaller one: it grows until  *)
(* an invalidation removes it (the comment on Entry::Occupied).            *)
NeverBackwards ==
    [][\A k \in Key : cache[k] # Vacant =>
          cache'[k] = Vacant \/ cache'[k] >= cache[k]]_vars

(* "prevent querying for the same access key multiple times": an           *)
(* access_key query is in flight only for a key with no entry and from one *)
(* task at a time, so a burst of first callers makes a single query.       *)
OneAccessKeyQuery ==
    \A t \in Task : pc[t] = "access_key" =>
        /\ cache[key[t]] = Vacant
        /\ \A u \in Task : pc[u] = "access_key" => u = t

(* The cache implements the dispenser: seen by its callers, each call of   *)
(* fetch_nonce takes effect in the one step in which it returns.           *)
CallStatus(stage) ==
    IF stage \in {"idle", "remove"} THEN "none"
    ELSE IF stage \in {"ok", "err"} THEN stage ELSE "pending"

Dispenser == INSTANCE NonceDispenser WITH
    call   <- [t \in Task |-> CallStatus(pc[t])],
    want   <- key,
    answer <- [t \in Task |-> IF pc[t] = "ok" THEN got[t] ELSE 0]

ImplementsDispenser == Dispenser!Spec

(* Every call of fetch_nonce and of invalidate_cache returns, also when    *)
(* other callers drop their futures while they wait or hold the lock.      *)
CallReturns == \A t \in Task : pc[t] = "read" ~> pc[t] \in Returned
RemovalReturns == \A t \in Task : pc[t] = "remove" ~> pc[t] \in Returned
=============================================================================
