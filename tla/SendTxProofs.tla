----------------------------- MODULE SendTxProofs -----------------------------
(***************************************************************************)
(* Proofs about SendTx for any tasks, keys, signers, faults, retries and   *)
(* kinds of calls: type correctness, that the calls use the nonce cache as *)
(* its specification allows, so that the theorems about NonceCache hold    *)
(* inside the client, and that transactions are signed by their own key.   *)
(***************************************************************************)
EXTENDS SendTx, NonceCacheProofs

-----------------------------------------------------------------------------
\* The signer in use is one of the client's keys.
LEMMA CurrentSignerType ==
    ASSUME SignerTypeOK
    PROVE  CurrentSigner \in Key
<1>1. Len(Signers) \in Nat \ {0}
  BY SignersAssumption, EmptySeq, LenProperties
<1>2. counter \in Nat
  BY CounterAssumption DEF SignerTypeOK
<1>3. (counter % Len(Signers)) + 1 \in 1 .. Len(Signers)
  BY <1>1, <1>2
<1>. QED
  BY <1>3, SignersAssumption, ElementOfSeq DEF CurrentSigner

\* Whatever the client does is a step of its nonce cache, or none.
LEMMA ClientStepOfCache ==
    ASSUME SendTypeOK, [SendNext]_sendVars
    PROVE  [UnboundedNext]_vars
<1> USE DEF SendTypeOK
<1>1. ASSUME NEW t \in Task, SignTx(t)
      PROVE  UnboundedNext
  BY <1>1, CurrentSignerType DEF SignTx, UnboundedNext
<1>2. ASSUME NEW t \in Task, CacheStep(t)
      PROVE  UnboundedNext
  BY <1>2 DEF CacheStep, UnboundedNext, Progress
<1>3. ASSUME NEW t \in Task, CheckAndInvalidateCache(t)
      PROVE  UnboundedNext
  BY <1>3 DEF CheckAndInvalidateCache, UnboundedNext
<1>4. ASSUME NEW x \in network, Execute(x)
      PROVE  UnboundedNext
  <2>1. x.pk \in Key /\ x.nonce \in Nat
    BY DEF Tx
  <2>2. chain'[x.pk] = x.nonce
    BY <1>4, <2>1 DEF Execute, ChainTo, TypeOK
  <2>. QED
    BY <1>4, <2>1, <2>2 DEF Execute, ChainMoves, UnboundedNext
<1>5. ASSUME NEW k \in Key, Bump(k)
      PROVE  UnboundedNext
  <2>1. chain'[k] = chain[k] + 1 /\ chain[k] + 1 \in Nat
    BY <1>5 DEF Bump, ChainTo, TypeOK
  <2>2. ChainTo(k, chain'[k])
    BY <1>5, <2>1 DEF Bump
  <2>. QED
    BY <1>5, <2>1, <2>2 DEF Bump, ChainMoves, UnboundedNext
<1>6. ASSUME NEW t \in Droppable, DropCall(t)
      PROVE  [UnboundedNext]_vars
  BY <1>6 DEF DropCall, UnboundedNext
<1>7. ASSUME NEW t \in Task, CacheKey(t) \/ NonceErr(t) \/ Sign(t) \/ Conclude(t)
      PROVE  UNCHANGED vars
  BY <1>7 DEF CacheKey, NonceErr, Sign, Conclude
<1>8. ASSUME NEW t \in Task, Answer(t)
      PROVE  UNCHANGED vars
  BY <1>8 DEF Answer, Outcome, Accepted, TimeoutError, TransportError
<1>9. ASSUME NEW x \in network, Refuse(x)
      PROVE  UNCHANGED vars
  BY <1>9 DEF Refuse
<1>10. CASE UNCHANGED sendVars
  BY <1>10 DEF sendVars
<1>. QED
  BY <1>1, <1>2, <1>3, <1>4, <1>5, <1>6, <1>7, <1>8, <1>9, <1>10
     DEF SendNext, Attempt, Serve, Finished

-----------------------------------------------------------------------------
\* How an attempt ends keeps the variables of the calls in their types.
LEMMA EndedType ==
    ASSUME SendTypeOK, NEW t \in Task, NEW reply \in Reply, NEW errs \in Nat,
           Ended(t, reply, errs)
    PROVE  /\ at' \in [Task -> Place] /\ at'[t] = "check"
           /\ \A u \in Task \ {t} : at'[u] = at[u]
           /\ mode' \in [Task -> Mode] /\ ckey' \in [Task -> Key]
           /\ replies' \in [Task -> Seq(Reply)]
           /\ removals' \in [Task -> Nat]
<1> USE DEF SendTypeOK, Ended, Goto, Place
<1>1. Append(replies[t], reply) \in Seq(Reply)
  BY AppendProperties
<1>. QED
  BY <1>1

\* A refused call learns the reason from an error or from an outcome, and has
\* to check the cache at most twice.
LEMMA ToldEnds ==
    ASSUME NEW t \in Task, NEW reason \in {"invalid_tx", "invalid_nonce"},
           Told(t, reason)
    PROVE  \E reply \in {reason} \union Rejections, errs \in {0, 1, 2} :
              /\ Ended(t, reply, errs)
              /\ reply \in StaleNonce <=> reason = "invalid_nonce"
              /\ reply \in Rejections => mode[t] # "async"
<1>1. CASE HandlerErr(t, reason)
  BY <1>1 DEF HandlerErr, StaleNonce, Rejections
<1>2. CASE FailedOutcome(t, reason)
  BY <1>2 DEF FailedOutcome, StaleNonce, Rejections
<1>. QED
  BY <1>1, <1>2 DEF Told

\* Every step of the client keeps every variable in its type.
LEMMA SendTypeOKStep == SendTypeOK /\ [SendNext]_sendVars => SendTypeOK'
<1> SUFFICES ASSUME SendTypeOK, [SendNext]_sendVars PROVE SendTypeOK'
  OBVIOUS
<1>0. TypeOK'
  BY ClientStepOfCache, TypeOKStep DEF SendTypeOK
<1> USE <1>0 DEF SendTypeOK, Goto, Place, Reply
<1>1. ASSUME NEW t \in Task, CacheKey(t)
      PROVE  SendTypeOK'
  BY <1>1, CurrentSignerType DEF CacheKey, netVars, SignerTypeOK
<1>2. ASSUME NEW t \in Task, SignTx(t)
      PROVE  SendTypeOK'
  BY <1>2 DEF SignTx, netVars, SignerTypeOK
<1>3. ASSUME NEW t \in Task, CacheStep(t)
      PROVE  SendTypeOK'
  BY <1>3 DEF CacheStep, callVars, netVars, SignerTypeOK
<1>4. ASSUME NEW t \in Task, NonceErr(t)
      PROVE  SendTypeOK'
  BY <1>4, EndedType DEF NonceErr, netVars, SignerTypeOK
<1>5. ASSUME NEW t \in Task, Sign(t)
      PROVE  SendTypeOK'
  <2>1. PICK x : /\ x = [task |-> t, try |-> Len(replies[t]) + 1, pk |-> key[t],
                         nonce |-> got[t], by |-> CurrentSigner]
                 /\ tx' = [tx EXCEPT ![t] = x]
    BY <1>5 DEF Sign
  <2>2. x \in Tx
    BY <2>1, CurrentSignerType, LenProperties DEF Tx, TypeOK
  <2>3. counter' \in 0 .. CounterMod - 1
    BY <1>5, CounterAssumption DEF Sign, FetchAndRotateSigner, SignerTypeOK
  <2>4. network' = network \union {x}
    BY <1>5, <2>1 DEF Sign
  <2>. QED
    BY <1>5, <2>1, <2>2, <2>3, <2>4 DEF Sign, SignerTypeOK
<1>6. ASSUME NEW t \in Task, CheckAndInvalidateCache(t)
      PROVE  SendTypeOK'
  <2>1. removals' \in [Task -> Nat]
    BY <1>6 DEF CheckAndInvalidateCache
  <2>. QED
    BY <1>6, <2>1 DEF CheckAndInvalidateCache, netVars, SignerTypeOK
<1>7. ASSUME NEW t \in Task, Conclude(t)
      PROVE  SendTypeOK'
  BY <1>7 DEF Conclude, netVars, SignerTypeOK
<1>8. ASSUME NEW t \in Task, Outcome(t) \/ Accepted(t)
      PROVE  SendTypeOK'
  <2>1. CASE Outcome(t)
    <3>1. PICK reply \in Outcomes, errs \in {0, 1, 2} : Ended(t, reply, errs)
      BY <2>1 DEF Outcome, Outcomes
    <3>. QED
      BY <2>1, <3>1, EndedType DEF Outcome, netVars, SignerTypeOK
  <2>2. CASE Accepted(t)
    BY <2>2, EndedType DEF Accepted, netVars, SignerTypeOK
  <2>. QED
    BY <1>8, <2>1, <2>2
<1>9. ASSUME NEW t \in Task, TimeoutError(t) \/ TransportError(t)
      PROVE  SendTypeOK'
  BY <1>9, EndedType DEF TimeoutError, TransportError, HandlerErr, netVars,
     SignerTypeOK
<1>10. ASSUME NEW x \in network, Execute(x)
       PROVE  SendTypeOK'
  BY <1>10 DEF Execute, callVars, SignerTypeOK
<1>11. ASSUME NEW x \in network, Refuse(x)
       PROVE  SendTypeOK'
  <2>1. x.task \in Task
    BY DEF Tx
  <2>2. PICK reason \in {"invalid_tx", "invalid_nonce"} :
          IF at[x.task] = "sent" /\ tx[x.task] = x
            THEN Told(x.task, reason)
            ELSE UNCHANGED <<at, mode, ckey, replies, removals>>
    BY <1>11 DEF Refuse, Reasons
  <2>3. CASE at[x.task] = "sent" /\ tx[x.task] = x
    <3>1. PICK reply \in {reason} \union Rejections, errs \in {0, 1, 2} :
             Ended(x.task, reply, errs)
      BY <2>1, <2>2, <2>3, ToldEnds
    <3>2. reply \in Reply
      OBVIOUS
    <3>. QED
      BY <1>11, <2>1, <3>1, <3>2, EndedType DEF Refuse, SignerTypeOK
  <2>4. CASE ~(at[x.task] = "sent" /\ tx[x.task] = x)
    BY <1>11, <2>2, <2>4 DEF Refuse, SignerTypeOK
  <2>. QED
    BY <2>3, <2>4
<1>12. ASSUME NEW k \in Key, Bump(k)
       PROVE  SendTypeOK'
  BY <1>12, RetriesAssumption DEF Bump, callVars, SignerTypeOK
<1>13. ASSUME NEW t \in Droppable, DropCall(t)
       PROVE  SendTypeOK'
  <2>1. t \in Task /\ Append(replies[t], "dropped") \in Seq(Reply)
    BY DroppableAssumption, AppendProperties
  <2>. QED
    BY <1>13, <2>1 DEF DropCall, netVars, SignerTypeOK
<1>14. CASE UNCHANGED sendVars
  BY <1>14 DEF sendVars, callVars, netVars, SignerTypeOK
<1>. QED
  BY <1>1, <1>2, <1>3, <1>4, <1>5, <1>6, <1>7, <1>8, <1>9, <1>10, <1>11,
     <1>12, <1>13, <1>14 DEF SendNext, Attempt, Answer, Serve, Finished

\* Every variable of the client always has its type.
THEOREM SendTypeCorrect == SendSpec => []SendTypeOK
<1>1. SendInit => SendTypeOK
  <2> SUFFICES ASSUME SendInit PROVE SendTypeOK
    OBVIOUS
  <2>1. TypeOK
    BY DEF SendInit, Init, TypeOK, Stage, Returned
  <2>2. SignerTypeOK
    BY CounterAssumption DEF SendInit, SignerInit, SignerTypeOK
  <2>3. replies \in [Task -> Seq(Reply)]
    BY EmptySeq DEF SendInit
  <2>. QED
    BY <2>1, <2>2, <2>3, RetriesAssumption
       DEF SendInit, SendTypeOK, Place, TypeOK
<1>. QED
  BY <1>1, SendTypeOKStep, PTL DEF SendSpec

\* The calls use the cache as its own specification allows.
THEOREM ClientUsesCache == SendSpec => UsesCache
<1>1. SendInit => Init
  BY DEF SendInit
<1>2. SendTypeOK /\ [SendNext]_sendVars => [UnboundedNext]_vars
  BY ClientStepOfCache
<1>. QED
  BY <1>1, <1>2, SendTypeCorrect, PTL DEF SendSpec, UsesCache, UnboundedSpec

\* Inside the client too, whoever waits for an RPC of fetch_nonce holds the
\* lock and what was reserved or returned lies at or below its entry.
THEOREM InvariantInClient == SendSpec => []IndInv
  BY ClientUsesCache, InvariantHolds DEF UsesCache

\* No two calls get the same nonce under one entry, however sending,
\* retrying, checking the cache and dropping calls interleave.
THEOREM FreshInClient == SendSpec => FreshNonce
  BY ClientUsesCache, NoncesAreFresh DEF UsesCache

-----------------------------------------------------------------------------
(* The signing key.  public_key() and sign() are two calls, and the counter *)
(* moves only in sign(): as long as all calls would sign with the same key, *)
(* or there is one call at a time, the key whose nonce was fetched, the key *)
(* the cache is checked for and the key that signs are one and the same.    *)
OneKeyOrOneCaller == Len(Signers) = 1 \/ \A t, u \in Task : t = u

\* From the choice of the key to the answer an attempt is about one key.
KeyInStep ==
    \A t \in Task :
        /\ at[t] \in {"cache_key", "nonce"} => ckey[t] = CurrentSigner
        /\ at[t] = "nonce" => key[t] = ckey[t]
        /\ at[t] = "sent" => ckey[t] = tx[t].pk

KeyInv == KeyInStep /\ SignedByOwnKey

\* With one key, rotating changes nothing.
LEMMA OneKeyStays ==
    ASSUME Len(Signers) = 1, SignerTypeOK, SignerTypeOK'
    PROVE  CurrentSigner' = CurrentSigner
<1>1. counter \in Nat /\ counter' \in Nat
  BY CounterAssumption DEF SignerTypeOK
<1>2. \A n \in Nat : n % 1 = 0
  OBVIOUS
<1>. QED
  BY <1>1, <1>2 DEF CurrentSigner

\* Every step keeps the key of an attempt in step with the signer.
LEMMA KeyInvStep ==
    ASSUME OneKeyOrOneCaller, SendTypeOK, SendTypeOK', KeyInv, [SendNext]_sendVars
    PROVE  KeyInv'
<1> USE DEF SendTypeOK, TypeOK, KeyInv, KeyInStep, SignedByOwnKey, Goto, Move
\* A step that leaves the signer and the transactions alone, and moves t to
\* a place where no key is held.
<1>1. ASSUME NEW t \in Task, Goto(t, at'[t]),
             at'[t] \notin {"cache_key", "nonce", "sent"},
             \A u \in Task \ {t} : key'[u] = key[u],
             network' \subseteq network,
             UNCHANGED <<counter, ckey, tx, executed>>
      PROVE  KeyInv'
  BY <1>1 DEF CurrentSigner
<1>2. ASSUME NEW t \in Task, CacheKey(t)
      PROVE  KeyInv'
  BY <1>2 DEF CacheKey, vars, netVars, CurrentSigner
<1>3. ASSUME NEW t \in Task, SignTx(t)
      PROVE  KeyInv'
  BY <1>3 DEF SignTx, FetchNonce, netVars, CurrentSigner
<1>4. ASSUME NEW t \in Task, CacheStep(t)
      PROVE  KeyInv'
  <2>1. UNCHANGED key
    BY <1>4 DEF CacheStep, ReadHit, ReadMiss, WaitWrite, EntryOccupied,
       EntryVacant, ViewBlockOk, AccessKeyOk, RemoveEntry, RpcErr, CachedNonce
  <2>. QED
    BY <1>4, <2>1 DEF CacheStep, callVars, netVars, CurrentSigner
<1>5. ASSUME NEW t \in Task, NonceErr(t) \/ Outcome(t) \/ Accepted(t)
      PROVE  KeyInv'
  BY <1>5, <1>1 DEF NonceErr, Outcome, Accepted, Ended, vars, netVars
<1>6. ASSUME NEW t \in Task, TimeoutError(t) \/ TransportError(t)
      PROVE  KeyInv'
  BY <1>6, <1>1 DEF TimeoutError, TransportError, HandlerErr, Ended, vars, netVars
<1>7. ASSUME NEW t \in Task, Sign(t)
      PROVE  KeyInv'
  <2>1. /\ tx'[t].pk = ckey[t] /\ tx'[t].by = ckey[t]
        /\ network' = network \union {tx'[t]}
    BY <1>7 DEF Sign
  <2>2. ASSUME NEW u \in Task, at'[u] \in {"cache_key", "nonce"}
        PROVE  u # t /\ CurrentSigner' = CurrentSigner
    <3>1. u # t
      BY <1>7, <2>2 DEF Sign
    <3>. QED
      BY <3>1, OneKeyStays DEF OneKeyOrOneCaller
  <2>. QED
    BY <1>7, <2>1, <2>2 DEF Sign, vars
<1>8. ASSUME NEW t \in Task, CheckAndInvalidateCache(t)
      PROVE  KeyInv'
  BY <1>8 DEF CheckAndInvalidateCache, Invalidate, netVars, CurrentSigner
<1>9. ASSUME NEW t \in Task, Conclude(t)
      PROVE  KeyInv'
  BY <1>9, <1>1 DEF Conclude, vars, netVars
<1>10. ASSUME NEW x \in network, Execute(x)
       PROVE  KeyInv'
  BY <1>10 DEF Execute, callVars, CurrentSigner
<1>11. ASSUME NEW x \in network, Refuse(x)
       PROVE  KeyInv'
  <2>1. x.task \in Task
    BY DEF Tx
  <2>2. CASE UNCHANGED <<at, mode, ckey, replies, removals>>
    BY <1>11, <2>2 DEF Refuse, vars, CurrentSigner
  <2>3. ASSUME NEW reply, NEW errs, Ended(x.task, reply, errs)
        PROVE  KeyInv'
    BY <1>11, <1>1, <2>1, <2>3 DEF Refuse, Ended, vars
  <2>4. ASSUME NEW reason \in Reasons(x), Told(x.task, reason)
        PROVE  KeyInv'
    BY <2>1, <2>3, <2>4, ToldEnds DEF Reasons
  <2>. QED
    BY <1>11, <2>2, <2>4 DEF Refuse
<1>12. ASSUME NEW k \in Key, Bump(k)
       PROVE  KeyInv'
  BY <1>12 DEF Bump, callVars, CurrentSigner
<1>13. ASSUME NEW t \in Droppable, DropCall(t)
       PROVE  KeyInv'
  BY <1>13, <1>1, DroppableAssumption DEF DropCall, DropFuture, vars, netVars
<1>14. CASE UNCHANGED sendVars
  BY <1>14 DEF sendVars, vars, callVars, netVars, CurrentSigner
<1>. QED
  BY <1>2, <1>3, <1>4, <1>5, <1>6, <1>7, <1>8, <1>9, <1>10, <1>11, <1>12,
     <1>13, <1>14 DEF SendNext, Attempt, Answer, Serve, Finished

\* The key of an attempt stays in step with the signer, with an
\* InMemorySigner for any callers, or with any signer for one caller.
LEMMA KeyInvHolds == ASSUME OneKeyOrOneCaller PROVE SendSpec => []KeyInv
<1>1. SendInit => KeyInv
  BY DEF SendInit, KeyInv, KeyInStep, SignedByOwnKey
<1>2. SendTypeOK /\ SendTypeOK' /\ KeyInv /\ [SendNext]_sendVars => KeyInv'
  BY KeyInvStep
<1>. QED
  BY <1>1, <1>2, SendTypeCorrect, PTL DEF SendSpec

\* A transaction is signed by the key it names, with an InMemorySigner for
\* any number of callers, or with a KeyRotatingSigner for one caller.
THEOREM OwnKeySigns ==
    ASSUME OneKeyOrOneCaller PROVE SendSpec => []SignedByOwnKey
<1>1. KeyInv => SignedByOwnKey
  BY DEF KeyInv
<1>. QED
  BY <1>1, KeyInvHolds, PTL
===============================================================================
