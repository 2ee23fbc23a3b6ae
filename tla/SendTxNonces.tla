----------------------------- MODULE SendTxNonces -----------------------------
(***************************************************************************)
(* Proofs about the nonces of the transactions that SendTx sends: when two *)
(* transactions may share one, that a refused nonce does not stay in the   *)
(* cache, how often a call is refused, and how many retries are enough.    *)
(***************************************************************************)
EXTENDS SendTxRefinement, SendTxLog, FiniteSetTheorems

-----------------------------------------------------------------------------
(* Removals.  A call removes the entry of its own attempt's key, in its    *)
(* cache check, and only after an answer that asks for it.                 *)

\* The answer of the attempt whose check t is in.
LastCauses(t) == MayRemove(t, Last(replies[t]))

RemovalInv ==
    \A t \in Task :
        /\ pc[t] = "remove" => at[t] = "check" /\ key[t] = ckey[t]
        /\ at[t] = "check" /\ (removals[t] > 0 \/ pc[t] = "remove") =>
              LastCauses(t)

\* A step is made without a reply, or with one that is remembered.
LEMMA RepliesStep ==
    ASSUME SendTypeOK, [SendNext]_sendVars
    PROVE  /\ UNCHANGED mode
           /\ \/ UNCHANGED replies
              \/ \E t \in Task, reply \in Reply :
                    replies' = [replies EXCEPT ![t] = Append(@, reply)]
<1>1. ASSUME NEW t \in Task, Attempt(t)
      PROVE  /\ UNCHANGED mode
             /\ \/ UNCHANGED replies
                \/ replies' = [replies EXCEPT ![t] = Append(@, "rpc")]
  BY <1>1 DEF Attempt, CacheKey, SignTx, CacheStep, NonceErr, Sign, Ended,
     CheckAndInvalidateCache, Conclude, callVars
<1>2. ASSUME NEW t \in Task, Answer(t)
      PROVE  /\ UNCHANGED mode
             /\ \E reply \in Reply :
                   replies' = [replies EXCEPT ![t] = Append(@, reply)]
  BY <1>2 DEF Answer, Outcome, Accepted, TimeoutError, TransportError,
     HandlerErr, Ended, Reply, Outcomes
<1>3. ASSUME NEW t \in Droppable, DropCall(t)
      PROVE  /\ UNCHANGED mode
             /\ replies' = [replies EXCEPT ![t] = Append(@, "dropped")]
  BY <1>3 DEF DropCall
<1>4. ASSUME NEW x \in network, Serve(x)
      PROVE  /\ UNCHANGED mode
             /\ \/ UNCHANGED replies
                \/ \E reply \in Reply :
                      replies' = [replies EXCEPT ![x.task] = Append(@, reply)]
  BY <1>4 DEF Serve, Execute, Refuse, Told, HandlerErr, FailedOutcome, Ended,
     Reasons, Reply, Rejections, callVars
<1>5. \A x \in network : x.task \in Task
  BY DEF SendTypeOK, Tx
<1>6. (\E k \in Key : Bump(k)) \/ UNCHANGED sendVars => UNCHANGED <<mode, replies>>
  BY DEF Bump, callVars, sendVars
<1>. QED
  BY <1>1, <1>2, <1>3, <1>4, <1>5, <1>6, DroppableAssumption
     DEF SendNext, Finished, Reply

\* The end of an attempt leaves removals only with their cause.
LEMMA EndedCauses ==
    ASSUME SendTypeOK, RemovalInv, NEW t \in Task,
           at[t] \in {"nonce", "sent"}, NEW reply \in Reply, NEW errs \in Nat,
           Ended(t, reply, errs), errs > 0 => MayRemove(t, reply), UNCHANGED vars
    PROVE  RemovalInv'
<1>1. pc[t] # "remove" /\ pc' = pc /\ key' = key
  BY DEF RemovalInv, vars
<1>2. /\ removals'[t] = errs /\ ckey' = ckey /\ mode' = mode
      /\ \A u \in Task \ {t} : removals'[u] = removals[u] /\ at'[u] = at[u]
  BY DEF Ended, Goto, SendTypeOK
<1>3. /\ Last(replies'[t]) = reply
      /\ \A u \in Task \ {t} : replies'[u] = replies[u]
  BY LastReply DEF Ended
<1>4. errs > 0 => LastCauses(t)'
  BY <1>2, <1>3 DEF LastCauses, MayRemove
<1>5. \A u \in Task \ {t} : LastCauses(u) => LastCauses(u)'
  BY <1>2, <1>3 DEF LastCauses, MayRemove
<1>. QED
  BY <1>1, <1>2, <1>4, <1>5 DEF RemovalInv

\* Every step removes entries only in its call's check and for a cause.
LEMMA RemovalInvStep ==
    ASSUME SendTypeOK, RemovalInv, [SendNext]_sendVars
    PROVE  RemovalInv'
<1> USE DEF Goto, Move
<1>0. ASSUME NEW u \in Task, LastCauses(u), UNCHANGED <<mode, replies[u]>>
      PROVE  LastCauses(u)'
  BY <1>0 DEF LastCauses, MayRemove
\* A step that asks for no removal, of a call that is not in its check.
<1>1. ASSUME NEW t \in Task, at'[t] # "check", pc'[t] # "remove",
             \A u \in Task \ {t} :
                UNCHANGED <<at[u], ckey[u], pc[u], key[u], replies[u]>>,
             UNCHANGED <<mode, removals>>
      PROVE  RemovalInv'
  BY <1>0, <1>1 DEF RemovalInv
<1>2. ASSUME NEW t \in Task, CacheKey(t) \/ SignTx(t) \/ Sign(t)
      PROVE  RemovalInv'
  <2>1. /\ UNCHANGED <<mode, replies, removals>> /\ pc[t] # "remove"
        /\ at'[t] # "check"
    BY <1>2 DEF CacheKey, SignTx, Sign, RemovalInv, SendTypeOK
  <2>2. CASE SignTx(t)
    <3>1. /\ \A u \in Task \ {t} : UNCHANGED <<at[u], ckey[u], pc[u], key[u]>>
          /\ pc'[t] # "remove"
      BY <2>2 DEF SignTx, FetchNonce, SendTypeOK, TypeOK
    <3>. QED
      BY <1>1, <2>1, <3>1
  <2>3. CASE CacheKey(t) \/ Sign(t)
    <3>1. UNCHANGED <<pc, key>>
      BY <2>3 DEF CacheKey, Sign, vars
    <3>2. \A u \in Task \ {t} : UNCHANGED <<at[u], ckey[u]>>
      BY <2>3 DEF CacheKey, Sign, SendTypeOK
    <3>. QED
      BY <1>1, <2>1, <3>1, <3>2
  <2>. QED
    BY <1>2, <2>2, <2>3
<1>3. ASSUME NEW t \in Task, CacheStep(t)
      PROVE  RemovalInv'
  <2>1. \A u \in Task : pc'[u] = "remove" => pc[u] = "remove"
    BY <1>3 DEF CacheStep, ReadHit, ReadMiss, WaitWrite, EntryOccupied,
       EntryVacant, ViewBlockOk, AccessKeyOk, RemoveEntry, RpcErr, CachedNonce,
       SendTypeOK, TypeOK
  <2>2. UNCHANGED <<key, at, ckey, removals, mode, replies>>
    BY <1>3 DEF CacheStep, ReadHit, ReadMiss, WaitWrite, EntryOccupied,
       EntryVacant, ViewBlockOk, AccessKeyOk, RemoveEntry, RpcErr, CachedNonce,
       callVars
  <2>. QED
    BY <1>0, <2>1, <2>2 DEF RemovalInv
<1>4. ASSUME NEW t \in Task, NonceErr(t) \/ Accepted(t)
      PROVE  RemovalInv'
  BY <1>4, EndedCauses DEF NonceErr, Accepted, Reply
<1>5. ASSUME NEW t \in Task, Outcome(t)
      PROVE  RemovalInv'
  <2>1. PICK errs \in {0, 1, 2} :
          Ended(t, IF errs > 0 THEN "delegate_nonce" ELSE "outcome", errs)
    BY <1>5 DEF Outcome
  <2>2. CASE errs = 0
    BY <1>5, <2>1, <2>2, EndedCauses DEF Outcome, Reply, Outcomes
  <2>3. CASE errs \in {1, 2}
    <3>1. MayRemove(t, "delegate_nonce") /\ "delegate_nonce" \in Reply
      BY DEF MayRemove, Reply, Outcomes
    <3>. QED
      BY <1>5, <2>1, <2>3, <3>1, EndedCauses DEF Outcome
  <2>. QED
    BY <2>2, <2>3
<1>6. ASSUME NEW t \in Task, TransportError(t)
      PROVE  RemovalInv'
  BY <1>6, EndedCauses DEF TransportError, Reply
<1>7. ASSUME NEW t \in Task, at[t] = "sent", UNCHANGED vars,
             NEW reply \in {"timeout", "invalid_tx", "invalid_nonce"},
             HandlerErr(t, reply)
      PROVE  RemovalInv'
  <2>1. PICK errs \in {0, 1} :
          /\ Ended(t, reply, errs)
          /\ errs = 1 => mode[t] = "async" \/ reply = "invalid_nonce"
    BY <1>7 DEF HandlerErr
  <2>2. errs \in Nat /\ (errs > 0 => errs = 1)
    OBVIOUS
  <2>3. errs = 1 => MayRemove(t, reply)
    BY <2>1, Zenon DEF MayRemove, StaleNonce
  <2>4. reply \in Reply
    BY DEF Reply
  <2>. QED
    BY <1>7, <2>1, <2>2, <2>3, <2>4, EndedCauses
<1>8. ASSUME NEW t \in Task, CheckAndInvalidateCache(t)
      PROVE  RemovalInv'
  <2>1. /\ at[t] = "check" /\ removals[t] > 0 /\ UNCHANGED <<at, ckey, mode, replies>>
        /\ key'[t] = ckey[t] /\ \A u \in Task \ {t} :
              UNCHANGED <<removals[u], pc[u], key[u]>>
    BY <1>8 DEF CheckAndInvalidateCache, Invalidate, SendTypeOK, TypeOK
  <2>. QED
    BY <1>0, <2>1 DEF RemovalInv
<1>9. ASSUME NEW t \in Task, Conclude(t)
      PROVE  RemovalInv'
  <2>1. /\ pc'[t] # "remove" /\ UNCHANGED <<ckey, removals, pc, key, mode, replies>>
        /\ at'[t] # "check" /\ \A u \in Task \ {t} : at'[u] = at[u]
    BY <1>9 DEF Conclude, vars, SendTypeOK, Returned
  <2>. QED
    BY <1>1, <2>1
<1>10. ASSUME NEW x \in network, Refuse(x)
       PROVE  RemovalInv'
  <2>1. x.task \in Task /\ UNCHANGED vars
    BY <1>10 DEF Refuse, SendTypeOK, Tx
  <2>2. CASE UNCHANGED <<at, mode, ckey, replies, removals>>
    BY <1>0, <2>1, <2>2 DEF vars, RemovalInv
  <2>3. ASSUME at[x.task] = "sent", NEW reason \in Reasons(x),
               HandlerErr(x.task, reason)
        PROVE  RemovalInv'
    <3>1. reason \in {"timeout", "invalid_tx", "invalid_nonce"}
      BY DEF Reasons
    <3>. QED
      BY <1>7, <2>1, <2>3, <3>1
  <2>4. ASSUME at[x.task] = "sent", NEW reason, FailedOutcome(x.task, reason)
        PROVE  RemovalInv'
    <3>1. PICK reply \in Rejections, errs \in {0, 1, 2} :
             Ended(x.task, reply, errs) /\ (errs > 0 => reply = "failed_nonce")
      BY <2>4 DEF FailedOutcome, Rejections
    <3>2. errs > 0 => MayRemove(x.task, reply)
      BY <3>1 DEF MayRemove, StaleNonce
    <3>3. reply \in Reply
      BY DEF Reply
    <3>. QED
      BY <2>1, <2>4, <3>1, <3>2, <3>3, EndedCauses
  <2>. QED
    BY <1>10, <2>2, <2>3, <2>4 DEF Refuse, Told
<1>11. ASSUME UNCHANGED <<pc, key, at, ckey, removals, mode, replies>>
       PROVE  RemovalInv'
  BY <1>0, <1>11 DEF RemovalInv
<1>12. ASSUME NEW t \in Droppable, DropCall(t)
       PROVE  RemovalInv'
  <2>1. /\ t \in Task /\ UNCHANGED <<ckey, removals, mode>> /\ at'[t] # "check"
        /\ \A u \in Task \ {t} : UNCHANGED <<at[u], pc[u], key[u], replies[u]>>
    BY <1>12, DroppableAssumption
       DEF DropCall, DropFuture, SendTypeOK, TypeOK, vars
  <2>2. pc'[t] # "remove"
    BY <1>12, <2>1 DEF DropCall, DropFuture, SendTypeOK, TypeOK, vars, RemovalInv
  <2>. QED
    BY <1>1, <2>1, <2>2
<1>. QED
  BY <1>2, <1>3, <1>4, <1>5, <1>6, <1>7, <1>8, <1>9, <1>10, <1>11, <1>12
     DEF SendNext, Attempt, Answer, Serve, Finished, TimeoutError, Execute,
     Bump, callVars, sendVars, vars

\* Entries are only removed for a cause, from the first step on.
LEMMA RemovalsCaused == SendSpec => []RemovalInv
<1>1. SendInit => RemovalInv
  BY DEF SendInit, Init, RemovalInv
<1>2. SendTypeOK /\ RemovalInv /\ [SendNext]_sendVars => RemovalInv'
  BY RemovalInvStep
<1>. QED
  BY <1>1, <1>2, SendTypeCorrect, PTL DEF SendSpec

-----------------------------------------------------------------------------
(* Nonces.  An epoch of a key ends with a removal of its entry, which has   *)
(* its cause.  Within an epoch every nonce given out for the key is another *)
(* one (FreshInClient), so transactions with the same nonce are of          *)
(* different epochs, with a removal in between.                             *)

Sent == network \union executed

\* fetch_nonce has returned and the transaction is not signed yet.
Holds(t) == at[t] = "nonce" /\ pc[t] = "ok"

LogTypeOK ==
    /\ epoch \in [Key -> Nat] /\ born \in [Task -> Nat]
    /\ signed \in SUBSET [tx : Tx, epoch : Nat]
    /\ purges \in SUBSET [key : Key, epoch : Nat, task : Task, try : Nat]

\* The log has a removal for each end of an epoch, and its cause.
EpochsEnded ==
    \A k \in Key : \A e \in 1 .. epoch[k] :
        \E p \in purges : p.key = k /\ p.epoch = e
Caused(t, i) == i \in DOMAIN replies[t] /\ MayRemove(t, replies[t][i])
PurgesCaused == \A p \in purges : Caused(p.task, p.try)

\* Nonces of the current epoch are among those given out, and in each epoch
\* a nonce was signed with, or is held, once.
SignedApart ==
    /\ \A a \in signed :
          /\ a.epoch <= epoch[a.tx.pk]
          /\ a.epoch = epoch[a.tx.pk] => a.tx.nonce \in given[a.tx.pk]
    /\ \A a, b \in signed :
          a.tx.pk = b.tx.pk /\ a.tx.nonce = b.tx.nonce /\ a.epoch = b.epoch => a = b
HeldApart ==
    /\ \A t \in Task : Holds(t) =>
          /\ born[t] <= epoch[key[t]]
          /\ born[t] = epoch[key[t]] => got[t] \in given[key[t]]
          /\ \A a \in signed :
                a.tx.pk = key[t] /\ a.tx.nonce = got[t] => a.epoch # born[t]
    /\ \A t, u \in Task :
          /\ Holds(t) /\ Holds(u)
          /\ key[t] = key[u] /\ got[t] = got[u] /\ born[t] = born[u]
          => t = u

LogInv == LogTypeOK /\ EpochsEnded /\ PurgesCaused /\ SignedApart /\ HeldApart

\* What is logged of a step that neither removes an entry, nor returns a
\* nonce, nor signs; and of one that does.
Quiet == \A t \in Task : ~Removes(t) /\ ~Returns(t) /\ ~Signs(t)

OnlyRemoves(t) ==
    \A u \in Task : (Removes(u) <=> u = t) /\ ~Returns(u) /\ ~Signs(u)
OnlyReturns(t) ==
    \A u \in Task : (Returns(u) <=> u = t) /\ ~Removes(u) /\ ~Signs(u)
OnlySigns(t) ==
    \A u \in Task : (Signs(u) <=> u = t) /\ ~Removes(u) /\ ~Returns(u)

LEMMA LogOfQuiet ==
    ASSUME LogTypeOK, Log, Quiet
    PROVE  UNCHANGED logVars
<1>1. epoch' = epoch
  <2>1. \A k \in Key : ~\E t \in Task : Removes(t) /\ key[t] = k
    BY DEF Quiet
  <2>2. epoch' = [k \in Key |-> epoch[k] + 0]
    BY <2>1 DEF Log
  <2>. QED
    BY <2>2 DEF LogTypeOK
<1>2. born' = born
  BY DEF Log, Quiet, LogTypeOK
<1>3. {u \in Task : Signs(u)} = {} /\ {u \in Task : Removes(u)} = {}
  BY DEF Quiet
<1>. QED
  BY <1>1, <1>2, <1>3 DEF Log, logVars

Purge(t) == [key |-> key[t], epoch |-> epoch[key[t]] + 1,
             task |-> t, try |-> Len(replies[t])]

LEMMA LogOfRemoval ==
    ASSUME LogTypeOK, Log, NEW t \in Task, key[t] \in Key, OnlyRemoves(t)
    PROVE  /\ epoch' = [epoch EXCEPT ![key[t]] = @ + 1]
           /\ purges' = purges \union {Purge(t)}
           /\ UNCHANGED <<born, signed>>
<1>1. epoch' = [epoch EXCEPT ![key[t]] = @ + 1]
  <2>1. \A k \in Key : (\E u \in Task : Removes(u) /\ key[u] = k) <=> k = key[t]
    BY DEF OnlyRemoves
  <2>2. \A k \in Key : epoch'[k] = epoch[k] + IF k = key[t] THEN 1 ELSE 0
    BY <2>1 DEF Log
  <2>3. /\ epoch' = [k \in Key |-> epoch'[k]]
        /\ \A k \in Key : epoch[k] \in Nat
    BY DEF Log, LogTypeOK
  <2>4. \A k \in Key : epoch'[k] = [epoch EXCEPT ![key[t]] = @ + 1][k]
    BY <2>2, <2>3 DEF LogTypeOK
  <2>. QED
    BY <2>3, <2>4 DEF LogTypeOK
<1>2. {u \in Task : Removes(u)} = {t} /\ {u \in Task : Signs(u)} = {}
  BY DEF OnlyRemoves
<1>3. purges' = purges \union {Purge(t)} /\ signed' = signed
  BY <1>2 DEF Log, Purge
<1>4. born' = born
  BY DEF Log, LogTypeOK, OnlyRemoves
<1>. QED
  BY <1>1, <1>3, <1>4

LEMMA LogOfReturn ==
    ASSUME LogTypeOK, Log, NEW t \in Task,
           OnlyReturns(t)
    PROVE  /\ born' = [born EXCEPT ![t] = epoch[key[t]]]
           /\ UNCHANGED <<epoch, signed, purges>>
<1>1. epoch' = epoch
  <2>1. \A k \in Key : ~\E u \in Task : Removes(u) /\ key[u] = k
    BY DEF OnlyReturns
  <2>2. epoch' = [k \in Key |-> epoch[k] + 0]
    BY <2>1 DEF Log
  <2>. QED
    BY <2>2 DEF LogTypeOK
<1>2. {u \in Task : Signs(u)} = {} /\ {u \in Task : Removes(u)} = {}
  BY DEF OnlyReturns
<1>3. born' = [born EXCEPT ![t] = epoch[key[t]]]
  BY DEF Log, LogTypeOK, OnlyReturns
<1>4. signed' = signed /\ purges' = purges
  BY <1>2 DEF Log
<1>. QED
  BY <1>1, <1>3, <1>4

LEMMA LogOfSign ==
    ASSUME LogTypeOK, Log, NEW t \in Task,
           OnlySigns(t)
    PROVE  /\ signed' = signed \union {[tx |-> tx'[t], epoch |-> born[t]]}
           /\ UNCHANGED <<epoch, born, purges>>
<1>1. epoch' = epoch
  <2>1. \A k \in Key : ~\E u \in Task : Removes(u) /\ key[u] = k
    BY DEF OnlySigns
  <2>2. epoch' = [k \in Key |-> epoch[k] + 0]
    BY <2>1 DEF Log
  <2>. QED
    BY <2>2 DEF LogTypeOK
<1>2. {u \in Task : Signs(u)} = {t} /\ {u \in Task : Removes(u)} = {}
  BY DEF OnlySigns
<1>3. born' = born
  BY DEF Log, LogTypeOK, OnlySigns
<1>4. /\ signed' = signed \union {[tx |-> tx'[t], epoch |-> born[t]]}
      /\ purges' = purges
  BY <1>2 DEF Log
<1>. QED
  BY <1>1, <1>3, <1>4

\* The cause of a removal is remembered.
LEMMA CausedStays ==
    ASSUME SendTypeOK, [SendNext]_sendVars, NEW t \in Task, NEW i, Caused(t, i)
    PROVE  Caused(t, i)'
<1>1. mode' = mode
  BY RepliesStep
<1>2. CASE replies'[t] = replies[t]
  BY <1>1, <1>2 DEF Caused, MayRemove
<1>3. CASE \E reply \in Reply : replies' = [replies EXCEPT ![t] = Append(@, reply)]
  BY <1>1, <1>3, EarlierReplies DEF Caused, MayRemove
<1>4. CASE \E u \in Task \ {t}, reply \in Reply :
              replies' = [replies EXCEPT ![u] = Append(@, reply)]
  <2>1. replies'[t] = replies[t]
    BY <1>4 DEF SendTypeOK
  <2>. QED
    BY <1>2, <2>1
<1>. QED
  BY <1>2, <1>3, <1>4, RepliesStep

LEMMA PurgesStay ==
    ASSUME SendTypeOK, [SendNext]_sendVars, LogTypeOK, PurgesCaused
    PROVE  \A p \in purges : Caused(p.task, p.try)'
<1> SUFFICES ASSUME NEW p \in purges PROVE Caused(p.task, p.try)'
  OBVIOUS
<1>1. p.task \in Task /\ Caused(p.task, p.try)
  BY DEF LogTypeOK, PurgesCaused
<1>. QED
  BY <1>1, CausedStays

\* A quiet step that takes no nonce back.
LEMMA QuietKeeps ==
    ASSUME SendTypeOK, [SendNext]_sendVars, LogInv, Log, Quiet, given' = given,
           \A t \in Task : Holds(t)' =>
               Holds(t) /\ key'[t] = key[t] /\ got'[t] = got[t]
    PROVE  LogInv'
<1>1. UNCHANGED <<epoch, born, signed, purges>>
  BY LogOfQuiet DEF LogInv, logVars
<1>2. PurgesCaused'
  BY <1>1, PurgesStay DEF LogInv, PurgesCaused
<1>3. LogTypeOK' /\ EpochsEnded' /\ SignedApart'
  BY <1>1 DEF LogInv, LogTypeOK, EpochsEnded, SignedApart
<1>4. HeldApart'
  BY <1>1 DEF LogInv, HeldApart
<1>. QED
  BY <1>2, <1>3, <1>4 DEF LogInv

\* An entry is removed: an epoch ends, nothing is left of it in the entry.
LEMMA RemovalKeeps ==
    ASSUME SendTypeOK, [SendNext]_sendVars, TryInv, RemovalInv, LogInv, Log,
           NEW t \in Task, RemoveEntry(t), UNCHANGED callVars
    PROVE  LogInv'
<1>1. /\ pc[t] = "remove" /\ pc'[t] = "idle" /\ at[t] = "check"
      /\ \A u \in Task \ {t} : pc'[u] = pc[u]
      /\ UNCHANGED <<at, key, got, replies, mode>>
      /\ key[t] \in Key /\ \A u \in Task : key[u] \in Key
      /\ given' = [given EXCEPT ![key[t]] = {}]
  BY DEF RemoveEntry, Move, RemovalInv, callVars, SendTypeOK, TypeOK
<1>2. OnlyRemoves(t)
  BY <1>1 DEF OnlyRemoves, Removes, Returns, Signs, Calling
<1>3. /\ epoch' = [epoch EXCEPT ![key[t]] = @ + 1]
      /\ purges' = purges \union {Purge(t)}
      /\ UNCHANGED <<born, signed>>
  BY <1>1, <1>2, LogOfRemoval DEF LogInv
<1>4. /\ Len(replies[t]) \in Nat /\ DOMAIN replies[t] = 1 .. Len(replies[t])
      /\ Len(replies[t]) \in DOMAIN replies[t]
  <2>1. replies[t] \in Seq(Reply) /\ replies[t] # <<>>
    BY <1>1 DEF SendTypeOK, TryInv, AttemptsCounted, Counted, Open
  <2>. QED
    BY <2>1, LenProperties, EmptySeq
<1>5. \A k \in Key : epoch[k] \in Nat
  BY DEF LogInv, LogTypeOK
<1>6. LogTypeOK'
  <2>1. Purge(t) \in [key : Key, epoch : Nat, task : Task, try : Nat]
    BY <1>1, <1>4, <1>5 DEF Purge
  <2>2. epoch' \in [Key -> Nat]
    BY <1>1, <1>3, <1>5 DEF LogInv, LogTypeOK
  <2>. QED
    BY <1>3, <2>1, <2>2 DEF LogInv, LogTypeOK
<1>7. EpochsEnded'
  <2> SUFFICES ASSUME NEW k \in Key, NEW e \in 1 .. epoch'[k]
               PROVE  \E p \in purges' : p.key = k /\ p.epoch = e
    BY DEF EpochsEnded
  <2>1. CASE e \in 1 .. epoch[k]
    BY <1>3, <2>1 DEF LogInv, EpochsEnded
  <2>2. CASE k = key[t] /\ e = epoch[k] + 1
    <3>1. Purge(t).key = k /\ Purge(t).epoch = e /\ Purge(t) \in purges'
      BY <1>3, <2>2 DEF Purge
    <3>. QED
      BY <3>1
  <2>3. CASE k # key[t]
    <3>1. epoch'[k] = epoch[k]
      BY <1>3, <2>3 DEF LogInv, LogTypeOK
    <3>. QED
      BY <2>1, <3>1
  <2>4. epoch'[key[t]] = epoch[key[t]] + 1
    BY <1>1, <1>3 DEF LogInv, LogTypeOK
  <2>. QED
    BY <1>5, <2>1, <2>2, <2>3, <2>4
<1>8. PurgesCaused'
  <2>1. Caused(t, Len(replies[t]))
    BY <1>1, <1>4 DEF Caused, RemovalInv, LastCauses, Last
  <2>2. Caused(t, Len(replies[t]))'
    BY <1>1, <2>1 DEF Caused, MayRemove
  <2>3. \A p \in purges : Caused(p.task, p.try)'
    BY PurgesStay DEF LogInv
  <2>4. Purge(t).task = t /\ Purge(t).try = Len(replies[t])
    BY DEF Purge
  <2>5. Len(replies[t])' = Len(replies[t])
    BY <1>1
  <2>6. ASSUME NEW p \in purges'
        PROVE  Caused(p.task, p.try)'
    <3>1. CASE p \in purges
      BY <2>3, <3>1
    <3>2. CASE p = Purge(t)
      BY <1>1, <2>2, <2>4, <2>5, <3>2 DEF Caused, MayRemove
    <3>. QED
      BY <1>3, <3>1, <3>2
  <2>. QED
    BY <2>6 DEF PurgesCaused
<1>9. /\ epoch'[key[t]] = epoch[key[t]] + 1
      /\ \A k \in Key \ {key[t]} : epoch'[k] = epoch[k] /\ given'[k] = given[k]
  BY <1>1, <1>3 DEF LogInv, LogTypeOK, SendTypeOK, TypeOK
<1>10. ASSUME NEW a \in signed
       PROVE  /\ a.epoch <= epoch'[a.tx.pk]
              /\ a.epoch = epoch'[a.tx.pk] => a.tx.nonce \in given'[a.tx.pk]
  <2>1. /\ a.tx.pk \in Key /\ a.epoch \in Nat /\ a.epoch <= epoch[a.tx.pk]
        /\ a.epoch = epoch[a.tx.pk] => a.tx.nonce \in given[a.tx.pk]
    BY DEF LogInv, LogTypeOK, Tx, SignedApart
  <2>2. CASE a.tx.pk = key[t]
    BY <1>5, <1>9, <2>1, <2>2
  <2>3. CASE a.tx.pk # key[t]
    BY <1>9, <2>1, <2>3
  <2>. QED
    BY <2>2, <2>3
<1>11. SignedApart'
  BY <1>3, <1>10 DEF LogInv, SignedApart
<1>12. \A u \in Task : Holds(u)' => Holds(u)
  BY <1>1 DEF Holds
<1>13. ASSUME NEW u \in Task, Holds(u)
       PROVE  /\ born[u] <= epoch'[key[u]]
              /\ born[u] = epoch'[key[u]] => got[u] \in given'[key[u]]
  <2>1. /\ key[u] \in Key /\ born[u] \in Nat /\ born[u] <= epoch[key[u]]
        /\ born[u] = epoch[key[u]] => got[u] \in given[key[u]]
    BY <1>1, <1>13 DEF LogInv, LogTypeOK, HeldApart
  <2>2. CASE key[u] = key[t]
    BY <1>5, <1>9, <2>1, <2>2
  <2>3. CASE key[u] # key[t]
    BY <1>9, <2>1, <2>3
  <2>. QED
    BY <2>2, <2>3
<1>14. HeldApart'
  BY <1>1, <1>3, <1>12, <1>13 DEF LogInv, HeldApart
<1>. QED
  BY <1>6, <1>7, <1>8, <1>11, <1>14 DEF LogInv

\* A nonce that fetch_nonce returns is apart from all those of its epoch.
LEMMA ReturnKeeps ==
    ASSUME SendTypeOK, [SendNext]_sendVars, LogInv, Log,
           NEW t \in Task, pc[t] \in Calling, pc'[t] = "ok",
           got'[t] \notin given[key[t]],
           given' = [given EXCEPT ![key[t]] = @ \union {got'[t]}],
           \A u \in Task \ {t} : pc'[u] = pc[u] /\ got'[u] = got[u],
           UNCHANGED <<key, at>>
    PROVE  LogInv'
<1>1. OnlyReturns(t)
  BY DEF OnlyReturns, Removes, Returns, Signs, Calling
<1>2. /\ born' = [born EXCEPT ![t] = epoch[key[t]]]
      /\ UNCHANGED <<epoch, signed, purges>>
  BY <1>1, LogOfReturn DEF LogInv
<1>3. /\ \A u \in Task : key[u] \in Key
      /\ \A k \in Key : epoch[k] \in Nat
      /\ given \in [Key -> SUBSET Nat]
  BY DEF LogInv, LogTypeOK, SendTypeOK, TypeOK
<1>4. LogTypeOK'
  BY <1>2, <1>3 DEF LogInv, LogTypeOK
<1>5. EpochsEnded' /\ PurgesCaused'
  BY <1>2, PurgesStay DEF LogInv, EpochsEnded, PurgesCaused
<1> DEFINE n == got'[t]
<1>6. /\ n \notin given[key[t]] /\ given'[key[t]] = given[key[t]] \union {n}
      /\ \A k \in Key : given[k] \subseteq given'[k]
  BY <1>3
<1>7. /\ born'[t] = epoch[key[t]]
      /\ \A u \in Task \ {t} : born'[u] = born[u]
      /\ \A u \in Task \ {t} : Holds(u)' <=> Holds(u)
  BY <1>2 DEF LogInv, LogTypeOK, Holds
<1>8. got'[t] = n /\ key' = key /\ \A u \in Task \ {t} : got'[u] = got[u]
  OBVIOUS
<1> HIDE DEF n
<1>9. \A a \in signed : a.tx.pk \in Key
  BY DEF LogInv, LogTypeOK, Tx
<1>10. SignedApart'
  BY <1>2, <1>6, <1>9 DEF LogInv, SignedApart
<1>11. \A a \in signed :
          a.tx.pk = key[t] /\ a.tx.nonce = n => a.epoch # epoch[key[t]]
  BY <1>6 DEF LogInv, SignedApart
<1>12. \A u \in Task \ {t} :
          Holds(u) /\ key[u] = key[t] /\ got[u] = n => born[u] # epoch[key[t]]
  BY <1>6 DEF LogInv, HeldApart
<1>13. ASSUME NEW u \in Task, Holds(u)'
       PROVE  /\ born'[u] <= epoch'[key'[u]]
              /\ born'[u] = epoch'[key'[u]] => got'[u] \in given'[key'[u]]
              /\ \A a \in signed' :
                    a.tx.pk = key'[u] /\ a.tx.nonce = got'[u] => a.epoch # born'[u]
  <2>1. CASE u = t
    BY <1>2, <1>3, <1>6, <1>7, <1>8, <1>11, <2>1
  <2>2. CASE u # t
    <3>1. /\ Holds(u) /\ born'[u] = born[u] /\ got'[u] = got[u]
          /\ key[u] \in Key
      BY <1>3, <1>7, <1>8, <1>13, <2>2
    <3>. QED
      BY <1>2, <1>6, <1>8, <3>1 DEF LogInv, HeldApart
  <2>. QED
    BY <2>1, <2>2
<1>14. ASSUME NEW u \in Task, NEW v \in Task, Holds(u)', Holds(v)',
              key'[u] = key'[v], got'[u] = got'[v], born'[u] = born'[v]
       PROVE  u = v
  <2>1. CASE u # t /\ v # t
    BY <1>7, <1>8, <1>14, <2>1 DEF LogInv, HeldApart
  <2>2. CASE u = t \/ v = t
    BY <1>7, <1>8, <1>12, <1>14, <2>2
  <2>. QED
    BY <2>1, <2>2
<1>15. HeldApart'
  BY <1>13, <1>14 DEF HeldApart
<1>. QED
  BY <1>4, <1>5, <1>10, <1>15 DEF LogInv

\* The transaction of a nonce takes its place.
LEMMA SignKeeps ==
    ASSUME SendTypeOK, SendTypeOK', [SendNext]_sendVars, LogInv, Log,
           NEW t \in Task, Sign(t)
    PROVE  LogInv'
<1> DEFINE a == [tx |-> tx'[t], epoch |-> born[t]]
<1>1. /\ at[t] = "nonce" /\ at'[t] = "sent" /\ pc[t] = "ok"
      /\ UNCHANGED <<pc, given, key, got>>
      /\ \A u \in Task \ {t} : at'[u] = at[u]
      /\ tx'[t].pk = key[t] /\ tx'[t].nonce = got[t] /\ tx'[t] \in Tx
  BY DEF Sign, vars, Goto, SendTypeOK
<1>2. OnlySigns(t)
  BY <1>1 DEF OnlySigns, Signs, Removes, Returns, Calling
<1>3. signed' = signed \union {a} /\ UNCHANGED <<epoch, born, purges>>
  <2>1. /\ signed' = signed \union {[tx |-> tx'[t], epoch |-> born[t]]}
        /\ UNCHANGED <<epoch, born, purges>>
    BY <1>2, LogOfSign DEF LogInv
  <2>. QED
    BY <2>1
<1>4. /\ a.tx.pk = key[t] /\ a.tx.nonce = got[t] /\ a.epoch = born[t]
      /\ a \in [tx : Tx, epoch : Nat]
  BY <1>1 DEF LogInv, LogTypeOK
<1> HIDE DEF a
<1>5. LogTypeOK'
  BY <1>3, <1>4 DEF LogInv, LogTypeOK
<1>6. EpochsEnded' /\ PurgesCaused'
  BY <1>3, PurgesStay DEF LogInv, EpochsEnded, PurgesCaused
<1>7. Holds(t) /\ \A u \in Task : Holds(u)' => u # t /\ Holds(u)
  BY <1>1 DEF Holds
<1>8. /\ born[t] <= epoch[key[t]]
      /\ born[t] = epoch[key[t]] => got[t] \in given[key[t]]
      /\ \A b \in signed :
            b.tx.pk = key[t] /\ b.tx.nonce = got[t] => b.epoch # born[t]
  BY <1>7 DEF LogInv, HeldApart
<1>9. SignedApart'
  BY <1>1, <1>3, <1>4, <1>8 DEF LogInv, SignedApart
<1>10. \A u \in Task \ {t} :
          Holds(u) /\ key[u] = key[t] /\ got[u] = got[t] => born[u] # born[t]
  BY <1>7 DEF LogInv, HeldApart
<1>11. HeldApart'
  BY <1>1, <1>3, <1>4, <1>7, <1>10 DEF LogInv, HeldApart
<1>. QED
  BY <1>5, <1>6, <1>9, <1>11 DEF LogInv

\* Every step keeps the log in step with the cache.
LEMMA LogInvStep ==
    ASSUME SendTypeOK, SendTypeOK', IndInv, TryInv, RemovalInv, LogInv,
           [SendNext /\ Log]_loggedVars
    PROVE  LogInv'
<1>0. CASE UNCHANGED loggedVars
  BY <1>0 DEF loggedVars, sendVars, vars, callVars, netVars, logVars, LogInv,
     LogTypeOK, EpochsEnded, PurgesCaused, Caused, MayRemove, SignedApart,
     HeldApart, Holds
<1> SUFFICES ASSUME SendNext, Log PROVE LogInv'
  BY <1>0
<1>1. ASSUME NEW t \in Task, CacheStep(t)
      PROVE  LogInv'
  <2>1. UNCHANGED <<at, callVars>> /\ key[t] \in Key
    BY <1>1 DEF CacheStep, callVars, SendTypeOK, TypeOK
  <2>2. CASE ViewBlockOk(t) \/ AccessKeyOk(t)
    <3>1. /\ pc[t] \in Calling /\ pc'[t] = "ok" /\ UNCHANGED key
          /\ given' = [given EXCEPT ![key[t]] = @ \union {got'[t]}]
          /\ \A u \in Task \ {t} : pc'[u] = pc[u] /\ got'[u] = got[u]
      BY <2>2 DEF ViewBlockOk, AccessKeyOk, Calling, Move, SendTypeOK, TypeOK
    <3>2. got'[t] \notin given[key[t]]
      BY <3>1, ClientStepOfCache, FreshReturn DEF FreshStep, Returns, Calling, vars
    <3>. QED
      BY <2>1, <3>1, <3>2, ReturnKeeps
  <2>3. CASE RemoveEntry(t)
    BY <2>1, <2>3, RemovalKeeps
  <2>4. CASE ~(ViewBlockOk(t) \/ AccessKeyOk(t) \/ RemoveEntry(t))
    <3>1. /\ given' = given /\ key' = key /\ pc'[t] # "ok" /\ pc[t] # "remove"
          /\ \A u \in Task \ {t} : pc'[u] = pc[u] /\ got'[u] = got[u]
      BY <1>1, <2>4 DEF CacheStep, ReadHit, ReadMiss, WaitWrite,
         EntryOccupied, EntryVacant, RpcErr, CachedNonce, Calling, Move,
         SendTypeOK, TypeOK
    <3>2. Quiet
      BY <2>1, <3>1 DEF Quiet, Removes, Returns, Signs, Calling
    <3>. QED
      BY <2>1, <3>1, <3>2, QuietKeeps DEF Holds
  <2>. QED
    BY <2>2, <2>3, <2>4
<1>2. ASSUME NEW t \in Task, Sign(t)
      PROVE  LogInv'
  BY <1>2, SignKeeps
\* Every other step moves one call, and neither gives nor removes a nonce.
<1>3. ASSUME NEW t \in Task, given' = given,
             \A u \in Task \ {t} : UNCHANGED <<at[u], pc[u], key[u], got[u]>>,
             \/ UNCHANGED <<pc[t], key[t], got[t]>>
             \/ pc'[t] # "ok" /\ (pc[t] # "remove" \/ at'[t] # "check"),
             at'[t] \notin {"nonce", "sent"} \/ pc'[t] # "ok" \/ at'[t] = at[t],
             at'[t] # "sent" \/ at'[t] = at[t]
      PROVE  LogInv'
  <2>1. Quiet
    BY <1>3 DEF Quiet, Removes, Returns, Signs, Calling
  <2>2. \A u \in Task : Holds(u)' =>
          Holds(u) /\ key'[u] = key[u] /\ got'[u] = got[u]
    BY <1>3 DEF Holds
  <2>. QED
    BY <1>3, <2>1, <2>2, QuietKeeps
<1>4. ASSUME NEW t \in Task, CacheKey(t) \/ Conclude(t) \/ NonceErr(t) \/ Answer(t)
      PROVE  LogInv'
  <2>1. /\ at'[t] \notin {"nonce", "sent"} /\ UNCHANGED vars
        /\ \A u \in Task \ {t} : at'[u] = at[u]
    BY <1>4 DEF CacheKey, Conclude, NonceErr, Answer, Outcome, Accepted,
       TimeoutError, TransportError, HandlerErr, Ended, Goto, SendTypeOK
  <2>. QED
    BY <1>3, <2>1 DEF vars
<1>5. ASSUME NEW t \in Task, SignTx(t) \/ CheckAndInvalidateCache(t)
      PROVE  LogInv'
  <2>1. /\ pc'[t] # "ok" /\ pc[t] # "remove" /\ given' = given
        /\ \A u \in Task \ {t} : UNCHANGED <<pc[u], key[u], got[u]>>
    BY <1>5 DEF SignTx, CheckAndInvalidateCache, FetchNonce, Invalidate, Move,
       Returned, SendTypeOK, TypeOK
  <2>2. at'[t] # "sent" /\ \A u \in Task \ {t} : at'[u] = at[u]
    BY <1>5 DEF SignTx, CheckAndInvalidateCache, Goto, SendTypeOK
  <2>. QED
    BY <1>3, <2>1, <2>2
<1>6. ASSUME NEW t \in Droppable, DropCall(t)
      PROVE  LogInv'
  <2>1. /\ t \in Task /\ given' = given /\ at'[t] = "done"
        /\ \A u \in Task \ {t} : at'[u] = at[u]
    BY <1>6, DroppableAssumption
       DEF DropCall, DropFuture, Goto, SendTypeOK, vars
  <2>2. /\ \A u \in Task \ {t} : UNCHANGED <<pc[u], key[u], got[u]>>
        /\ UNCHANGED <<pc[t], key[t], got[t]>> \/ pc'[t] # "ok"
    BY <1>6, <2>1 DEF DropCall, DropFuture, Move, SendTypeOK, TypeOK, vars
  <2>. QED
    BY <1>3, <2>1, <2>2
<1>7. ASSUME NEW x \in network, Serve(x)
      PROVE  LogInv'
  <2>1. x.task \in Task /\ UNCHANGED <<given, pc, key, got>>
    BY <1>7 DEF Serve, Execute, Refuse, vars, SendTypeOK, Tx
  <2>2. \/ UNCHANGED at
        \/ /\ at'[x.task] = "check"
           /\ \A u \in Task \ {x.task} : at'[u] = at[u]
    BY <1>7, <2>1 DEF Serve, Execute, Refuse, Told, HandlerErr, FailedOutcome,
       Ended, Goto, callVars, SendTypeOK
  <2>. QED
    BY <1>3, <2>1, <2>2
<1>8. ASSUME (\E k \in Key : Bump(k)) \/ Finished
      PROVE  LogInv'
  <2>1. UNCHANGED <<given, pc, key, got, at>>
    BY <1>8 DEF Bump, Finished, callVars, sendVars, vars
  <2>2. Quiet
    BY <2>1 DEF Quiet, Removes, Returns, Signs, Calling
  <2>. QED
    BY <2>1, <2>2, QuietKeeps DEF Holds
<1>. QED
  BY <1>1, <1>2, <1>4, <1>5, <1>6, <1>7, <1>8 DEF SendNext, Attempt

\* The log only watches the client.
LEMMA LogWatches == LoggedSpec => SendSpec
<1>1. [SendNext /\ Log]_loggedVars => [SendNext]_sendVars
  BY DEF loggedVars
<1>. QED
  BY <1>1, PTL DEF LoggedSpec, SendSpec

\* Two transactions of a key have one nonce only when the entry of that key
\* was removed after the one nonce was given out and before the other, by a
\* call whose answer asks for it: whatever signers, faults and callers.
THEOREM NoncesSharedAfterRemovals == LoggedSpec => []NonceSharedAfterRemoval
<1>1. SendInit /\ LogInit => LogInv
  BY DEF SendInit, LogInit, LogInv, LogTypeOK, EpochsEnded, PurgesCaused,
     SignedApart, HeldApart, Holds
<1>2. /\ SendTypeOK /\ SendTypeOK' /\ IndInv /\ TryInv /\ RemovalInv /\ LogInv
      /\ [SendNext /\ Log]_loggedVars
      => LogInv'
  BY LogInvStep
<1>3. LogInv => NonceSharedAfterRemoval
  <2> SUFFICES ASSUME LogInv, NEW a \in signed, NEW b \in signed, a # b,
                      a.tx.pk = b.tx.pk, a.tx.nonce = b.tx.nonce
               PROVE  \E p \in purges :
                         /\ p.key = a.tx.pk
                         /\ \/ a.epoch < p.epoch /\ p.epoch <= b.epoch
                            \/ b.epoch < p.epoch /\ p.epoch <= a.epoch
                         /\ MayRemove(p.task, replies[p.task][p.try])
    BY DEF NonceSharedAfterRemoval
  <2>1. /\ a.tx.pk \in Key /\ a.epoch \in Nat /\ b.epoch \in Nat
        /\ epoch[a.tx.pk] \in Nat
    BY DEF LogInv, LogTypeOK, Tx
  <2>2. /\ a.epoch # b.epoch
        /\ a.epoch <= epoch[a.tx.pk] /\ b.epoch <= epoch[a.tx.pk]
    BY DEF LogInv, SignedApart
  <2>3. \A e \in 1 .. epoch[a.tx.pk] : \E p \in purges :
           /\ p.key = a.tx.pk /\ p.epoch = e
           /\ MayRemove(p.task, replies[p.task][p.try])
    BY <2>1 DEF LogInv, EpochsEnded, PurgesCaused, Caused
  <2>4. CASE a.epoch < b.epoch
    BY <2>1, <2>2, <2>3, <2>4
  <2>5. CASE b.epoch < a.epoch
    BY <2>1, <2>2, <2>3, <2>5
  <2>. QED
    BY <2>1, <2>2, <2>4, <2>5
<1>4. LoggedSpec => []LogInv
  BY <1>1, <1>2, LogWatches, SendTypeCorrect, InvariantInClient, TriesHold,
     RemovalsCaused, PTL DEF LoggedSpec
<1>. QED
  BY <1>3, <1>4, PTL

-----------------------------------------------------------------------------
(* What a step is to one call: one of its own, or one that leaves alone    *)
(* where the call is, what it knows and what it holds.                     *)

ElsewhereOf(t) ==
    UNCHANGED <<at[t], ckey[t], tx[t], replies[t], removals[t],
                pc[t], key[t], got[t]>>

\* The chain refuses the transaction that t waits for.
RefusedOf(t) ==
    /\ at[t] = "sent" /\ tx[t] \in network /\ Refuse(tx[t])
    /\ \E reason \in Reasons(tx[t]) : Told(t, reason)

StepOf(t) ==
    \/ CacheKey(t) \/ SignTx(t) \/ CacheStep(t) \/ NonceErr(t) \/ Sign(t)
    \/ CheckAndInvalidateCache(t) \/ Conclude(t)
    \/ Outcome(t) \/ Accepted(t) \/ TimeoutError(t) \/ TransportError(t)
    \/ RefusedOf(t)
    \/ t \in Droppable /\ DropCall(t)

\* A step of the client is one of the call's own, or elsewhere.
LEMMA StepSplits ==
    ASSUME SendTypeOK, [SendNext]_sendVars, NEW t \in Task
    PROVE  StepOf(t) \/ ElsewhereOf(t)
<1>1. ASSUME NEW u \in Task \ {t},
             CacheKey(u) \/ NonceErr(u) \/ Sign(u) \/ Conclude(u) \/ Answer(u)
      PROVE  ElsewhereOf(t)
  BY <1>1 DEF CacheKey, NonceErr, Sign, Conclude, Answer, Outcome, Accepted,
     TimeoutError, TransportError, HandlerErr, Ended, Goto, ElsewhereOf, vars,
     SendTypeOK
<1>2. ASSUME NEW u \in Task \ {t}, SignTx(u) \/ CheckAndInvalidateCache(u)
      PROVE  ElsewhereOf(t)
  <2>1. UNCHANGED <<pc[t], key[t], got[t]>>
    BY <1>2 DEF SignTx, CheckAndInvalidateCache, FetchNonce, Invalidate, Move,
       SendTypeOK, TypeOK
  <2>2. UNCHANGED <<at[t], ckey[t], tx[t], replies[t], removals[t]>>
    BY <1>2 DEF SignTx, CheckAndInvalidateCache, Goto, SendTypeOK
  <2>. QED
    BY <2>1, <2>2 DEF ElsewhereOf
<1>3. ASSUME NEW u \in Task \ {t}, CacheStep(u)
      PROVE  ElsewhereOf(t)
  <2>1. UNCHANGED <<pc[t], key[t], got[t]>>
    BY <1>3 DEF CacheStep, ReadHit, ReadMiss, WaitWrite, EntryOccupied,
       EntryVacant, ViewBlockOk, AccessKeyOk, RemoveEntry, RpcErr, CachedNonce,
       Move, SendTypeOK, TypeOK
  <2>. QED
    BY <1>3, <2>1 DEF CacheStep, callVars, ElsewhereOf
<1>4. ASSUME NEW u \in Droppable, u # t, DropCall(u)
      PROVE  ElsewhereOf(t)
  <2>1. UNCHANGED <<pc[t], key[t], got[t]>>
    BY <1>4, DroppableAssumption
       DEF DropCall, DropFuture, Move, vars, SendTypeOK, TypeOK
  <2>2. UNCHANGED <<at[t], ckey[t], tx[t], replies[t], removals[t]>>
    BY <1>4, DroppableAssumption DEF DropCall, Goto, SendTypeOK
  <2>. QED
    BY <2>1, <2>2 DEF ElsewhereOf
<1>5. ASSUME NEW x \in network, Refuse(x)
      PROVE  RefusedOf(t) \/ ElsewhereOf(t)
  <2>1. x.task \in Task /\ UNCHANGED vars /\ UNCHANGED tx
    BY <1>5 DEF Refuse, SendTypeOK, Tx
  <2>2. CASE UNCHANGED <<at, mode, ckey, replies, removals>>
    BY <2>1, <2>2 DEF ElsewhereOf, vars
  <2>3. ASSUME at[x.task] = "sent", tx[x.task] = x, NEW reason \in Reasons(x),
               Told(x.task, reason)
        PROVE  RefusedOf(t) \/ ElsewhereOf(t)
    <3>1. CASE x.task = t
      BY <1>5, <2>3, <3>1 DEF RefusedOf
    <3>2. CASE x.task # t
      <4>1. PICK reply \in {reason} \union Rejections, errs \in {0, 1, 2} :
              Ended(x.task, reply, errs)
        BY <2>1, <2>3, ToldEnds DEF Reasons
      <4>. QED
        BY <2>1, <3>2, <4>1 DEF Ended, Goto, ElsewhereOf, vars, SendTypeOK
    <3>. QED
      BY <3>1, <3>2
  <2>. QED
    BY <1>5, <2>2, <2>3 DEF Refuse
<1>6. ASSUME NEW x \in network, Execute(x)
      PROVE  ElsewhereOf(t)
  BY <1>6 DEF Execute, callVars, ElsewhereOf
<1>7. ASSUME NEW k \in Key, Bump(k)
      PROVE  ElsewhereOf(t)
  BY <1>7 DEF Bump, callVars, ElsewhereOf
<1>8. CASE UNCHANGED sendVars
  BY <1>8 DEF sendVars, callVars, vars, ElsewhereOf
<1>9. Attempt(t) \/ Answer(t) \/ (t \in Droppable /\ DropCall(t)) => StepOf(t)
  BY DEF Attempt, Answer, StepOf
<1>. QED
  BY <1>1, <1>2, <1>3, <1>4, <1>5, <1>6, <1>7, <1>8, <1>9
     DEF SendNext, Attempt, Serve, Finished, StepOf

-----------------------------------------------------------------------------
(* Stale entries.  Once a key is clean of a nonce the chain has reached,   *)
(* it stays clean: every nonce of it that was given out, is reserved, is   *)
(* cached or is being asked for lies above.  A removal makes a key clean.  *)

Clean(k, n) ==
    /\ n <= chain[k]
    /\ \A m \in given[k] : m > n
    /\ cache[k] # Vacant => cache[k] >= n
    /\ \A t \in Task : key[t] = k =>
          /\ pc[t] = "view_block" => got[t] > n
          /\ pc[t] = "access_key" => got[t] >= n

\* An access_key query of a node that is not behind answers what the chain
\* had when it was asked, or something newer.
LEMMA AnswerNotBehind ==
    ASSUME MaxLag = 0, TypeOK, NEW t \in Task, NEW n \in AccessKeyNonce(t)
    PROVE  n \in Nat /\ got[t] <= n
  BY DEF AccessKeyNonce, TypeOK

\* A clean key stays clean.
LEMMA CleanStays ==
    ASSUME MaxLag = 0, TypeOK, [UnboundedNext]_vars,
           NEW k \in Key, NEW n \in Nat, Clean(k, n)
    PROVE  Clean(k, n)'
<1> USE DEF TypeOK, Move
<1>1. ASSUME NEW t \in Task, NEW j \in Key, FetchNonce(t, j) \/ Invalidate(t, j)
      PROVE  Clean(k, n)'
  BY <1>1 DEF FetchNonce, Invalidate, Clean
<1>2. ASSUME NEW t \in Task, CachedNonce(t)
      PROVE  Clean(k, n)'
  BY <1>2, VacantAssumption DEF CachedNonce, Clean
<1>3. ASSUME NEW t \in Task, ReadHit(t) \/ EntryOccupied(t)
      PROVE  Clean(k, n)'
  BY <1>2, <1>3 DEF ReadHit, EntryOccupied
<1>4. ASSUME NEW t \in Task, ReadMiss(t) \/ WaitWrite(t) \/ RpcErr(t)
      PROVE  Clean(k, n)'
  BY <1>4 DEF ReadMiss, WaitWrite, RpcErr, Clean
<1>5. ASSUME NEW t \in Task, EntryVacant(t)
      PROVE  Clean(k, n)'
  BY <1>5 DEF EntryVacant, Clean
<1>6. ASSUME NEW t \in Task, ViewBlockOk(t)
      PROVE  Clean(k, n)'
  BY <1>6 DEF ViewBlockOk, Clean
<1>7. ASSUME NEW t \in Task, AccessKeyOk(t)
      PROVE  Clean(k, n)'
  <2>1. PICK m \in AccessKeyNonce(t) :
          /\ cache' = [cache EXCEPT ![key[t]] = m + 1]
          /\ got' = [got EXCEPT ![t] = m + 1]
          /\ given' = [given EXCEPT ![key[t]] = @ \union {m + 1}]
    BY <1>7 DEF AccessKeyOk
  <2>2. m \in Nat /\ got[t] <= m
    BY AnswerNotBehind
  <2>3. key[t] = k => m >= n
    BY <1>7, <2>2 DEF AccessKeyOk, Clean
  <2>4. UNCHANGED <<key, chain>> /\ pc' = [pc EXCEPT ![t] = "ok"]
    BY <1>7 DEF AccessKeyOk
  <2>. QED
    BY <2>1, <2>2, <2>3, <2>4 DEF Clean
<1>8. ASSUME NEW t \in Task, RemoveEntry(t)
      PROVE  Clean(k, n)'
  BY <1>8 DEF RemoveEntry, Clean
<1>9. ASSUME NEW t \in Droppable, DropFuture(t)
      PROVE  Clean(k, n)'
  BY <1>9, DroppableAssumption DEF DropFuture, Clean
<1>10. ASSUME NEW j \in Key, ChainMoves(j)
       PROVE  Clean(k, n)'
  <2> DEFINE m == chain'[j]
  <2>1. m \in Nat /\ m > chain[j] /\ chain' = [chain EXCEPT ![j] = m]
    BY <1>10 DEF ChainMoves, ChainTo
  <2> HIDE DEF m
  <2>2. n <= chain'[k]
    BY <2>1 DEF Clean
  <2>. QED
    BY <1>10, <2>2 DEF ChainMoves, Clean
<1>11. CASE UNCHANGED vars
  BY <1>11 DEF vars, Clean
<1>. QED
  BY <1>1, <1>3, <1>4, <1>5, <1>6, <1>7, <1>8, <1>9, <1>10, <1>11
     DEF UnboundedNext, Progress

\* A removal makes its key clean of all the chain has reached, because
\* nobody waits for an RPC while it holds the lock.
LEMMA RemovedClean ==
    ASSUME TypeOK, Guarded, NEW t \in Task, RemoveEntry(t),
           NEW n \in Nat, n <= chain[key[t]]
    PROVE  Clean(key[t], n)'
<1>1. \A u \in Task : pc[u] \notin Calling
  BY DEF RemoveEntry, CanWrite, Guarded, Calling
<1>2. /\ \A u \in Task : pc'[u] \notin Calling
      /\ cache'[key[t]] = Vacant /\ given'[key[t]] = {} /\ chain' = chain
  BY <1>1 DEF RemoveEntry, Move, TypeOK, Calling
<1>3. \A u \in Task : pc'[u] # "view_block" /\ pc'[u] # "access_key"
  BY <1>2 DEF Calling
<1>4. UNCHANGED key
  BY DEF RemoveEntry
<1>. QED
  BY <1>2, <1>3, <1>4 DEF Clean
\* The nonce of an access key never falls on the chain.
LEMMA ChainGrows ==
    ASSUME TypeOK, [UnboundedNext]_vars, NEW k \in Key
    PROVE  chain[k] <= chain'[k]
<1>1. ASSUME NEW j \in Key, ChainMoves(j)
      PROVE  chain[k] <= chain'[k]
  <2> DEFINE m == chain'[j]
  <2>1. m \in Nat /\ m > chain[j] /\ chain' = [chain EXCEPT ![j] = m]
    BY <1>1 DEF ChainMoves, ChainTo
  <2> HIDE DEF m
  <2>. QED
    BY <2>1 DEF TypeOK
<1>2. ASSUME UNCHANGED chain
      PROVE  chain[k] <= chain'[k]
  BY <1>2 DEF TypeOK
<1>3. ASSUME NEW t \in Task, Progress(t)
      PROVE  UNCHANGED chain
  BY <1>3 DEF Progress, ReadHit, ReadMiss, WaitWrite, EntryOccupied,
     EntryVacant, ViewBlockOk, AccessKeyOk, RemoveEntry, RpcErr, CachedNonce
<1>4. ASSUME NEW t \in Task, NEW j \in Key, FetchNonce(t, j) \/ Invalidate(t, j)
      PROVE  UNCHANGED chain
  BY <1>4 DEF FetchNonce, Invalidate
<1>5. ASSUME NEW t \in Droppable, DropFuture(t)
      PROVE  UNCHANGED chain
  BY <1>5 DEF DropFuture
<1>. QED
  BY <1>1, <1>2, <1>3, <1>4, <1>5 DEF UnboundedNext, vars

(* After a refusal the key of the refused nonce is clean of it, or the      *)
(* removal that makes it so is still to be made by the same call.           *)
CleanAfter(t) ==
    Refused(t) /\ at[t] \in {"check", "start", "done"} =>
        /\ tx[t] \in Tx
        /\ at[t] = "check" =>
              ckey[t] = tx[t].pk /\ tx[t].nonce <= chain[tx[t].pk]
        /\ \/ at[t] = "check" /\ (removals[t] > 0 \/ pc[t] = "remove")
           \/ Clean(tx[t].pk, tx[t].nonce)

\* A refusal that is known stays known until the next attempt.
LEMMA CleanAfterKept ==
    ASSUME MaxLag = 0, SendTypeOK, [SendNext]_sendVars, NEW t \in Task,
           CleanAfter(t), UNCHANGED <<tx[t], replies[t], ckey[t]>>,
           at[t] \in {"check", "start", "done"}, at'[t] = "check" => at[t] = "check",
           tx[t] \in Tx /\ at[t] = "check" /\ (removals[t] > 0 \/ pc[t] = "remove") =>
               \/ at'[t] = "check" /\ (removals'[t] > 0 \/ pc'[t] = "remove")
               \/ /\ tx[t].nonce <= chain[tx[t].pk] /\ ckey[t] = tx[t].pk
                  => Clean(tx[t].pk, tx[t].nonce)'
    PROVE  CleanAfter(t)'
<1> DEFINE x == tx[t]
<1>1. SUFFICES ASSUME Refused(t)
               PROVE  CleanAfter(t)'
  BY DEF CleanAfter, Refused
<1>2. /\ x \in Tx
      /\ at[t] = "check" => ckey[t] = x.pk /\ x.nonce <= chain[x.pk]
      /\ \/ at[t] = "check" /\ (removals[t] > 0 \/ pc[t] = "remove")
         \/ Clean(x.pk, x.nonce)
  BY <1>1 DEF CleanAfter
<1>3. x.pk \in Key /\ x.nonce \in Nat /\ TypeOK
  BY <1>2 DEF Tx, SendTypeOK
<1>4. Clean(x.pk, x.nonce) => Clean(x.pk, x.nonce)'
  BY <1>3, CleanStays, ClientStepOfCache
<1>5. chain[x.pk] <= chain'[x.pk] /\ chain[x.pk] \in Nat /\ chain'[x.pk] \in Nat
  <2>1. TypeOK'
    BY <1>3, ClientStepOfCache, TypeOKStep
  <2>. QED
    BY <1>3, <2>1, ChainGrows, ClientStepOfCache DEF TypeOK
<1>6. at'[t] = "check" => ckey'[t] = x.pk /\ x.nonce <= chain'[x.pk]
  BY <1>2, <1>3, <1>5
<1>7. tx'[t] = x
  OBVIOUS
<1>8. \/ at'[t] = "check" /\ (removals'[t] > 0 \/ pc'[t] = "remove")
      \/ Clean(x.pk, x.nonce)'
  BY <1>2, <1>4
<1>. QED
  BY <1>2, <1>6, <1>7, <1>8 DEF CleanAfter
\* What a call is told: only the chain tells it that a nonce was stale.
LEMMA ToldOther ==
    ASSUME SendTypeOK, NEW t \in Task,
           \/ NonceErr(t) \/ Outcome(t) \/ Accepted(t) \/ TimeoutError(t)
           \/ TransportError(t) \/ DropCall(t)
    PROVE  ~Refused(t)'
<1>1. ASSUME NEW reply \in Reply \ StaleNonce,
             replies' = [replies EXCEPT ![t] = Append(@, reply)]
      PROVE  ~Refused(t)'
  BY <1>1, LastReply DEF Refused
<1>2. CASE NonceErr(t) \/ Accepted(t)
  BY <1>1, <1>2 DEF NonceErr, Accepted, Ended, Reply, StaleNonce
<1>3. CASE TimeoutError(t) \/ TransportError(t)
  BY <1>1, <1>3 DEF TimeoutError, TransportError, HandlerErr, Ended, Reply, StaleNonce
<1>4. CASE DropCall(t)
  BY <1>1, <1>4 DEF DropCall, Reply, StaleNonce
<1>5. CASE Outcome(t)
  <2>1. PICK reply \in Outcomes : replies' = [replies EXCEPT ![t] = Append(@, reply)]
    BY <1>5 DEF Outcome, Ended, Outcomes
  <2>2. reply \in Reply \ StaleNonce
    BY DEF Outcomes, Reply, StaleNonce
  <2>. QED
    BY <1>1, <2>1, <2>2
<1>. QED
  BY <1>2, <1>3, <1>4, <1>5

\* A refusal leaves the removal of the entry it was about to its call.
LEMMA RefusalAsksRemoval ==
    ASSUME SendTypeOK, NEW t \in Task, Told(t, "invalid_nonce")
    PROVE  removals'[t] > 0
  BY DEF Told, HandlerErr, FailedOutcome, Ended, SendTypeOK

\* What a call is told of its refused transaction.
LEMMA RefusedReply ==
    ASSUME SendTypeOK, NEW t \in Task, RefusedOf(t)
    PROVE  \E reason \in Reasons(tx[t]), reply \in Reply :
              /\ Told(t, reason) /\ reason \in {"invalid_tx", "invalid_nonce"}
              /\ replies' = [replies EXCEPT ![t] = Append(@, reply)]
              /\ at'[t] = "check" /\ UNCHANGED ckey
              /\ reply \in StaleNonce <=> reason = "invalid_nonce"
<1>1. PICK reason \in Reasons(tx[t]) : Told(t, reason)
  BY DEF RefusedOf
<1>2. reason \in {"invalid_tx", "invalid_nonce"}
  BY DEF Reasons
<1>3. PICK reply \in {reason} \union Rejections, errs \in {0, 1, 2} :
        Ended(t, reply, errs) /\ (reply \in StaleNonce <=> reason = "invalid_nonce")
  BY <1>1, <1>2, ToldEnds
<1>4. reply \in Reply
  BY <1>2 DEF Reply, Rejections
<1>. QED
  BY <1>1, <1>2, <1>3, <1>4 DEF Ended, Goto, SendTypeOK

\* Every step keeps what was asked to be removed on its way out or gone.
LEMMA CleanAfterStep ==
    ASSUME MaxLag = 0, SendTypeOK, SendTypeOK', IndInv, RemovalInv, KeyInv,
           [SendNext]_sendVars, NEW t \in Task, CleanAfter(t)
    PROVE  CleanAfter(t)'
<1>1. ASSUME at'[t] \notin {"check", "start", "done"}
      PROVE  CleanAfter(t)'
  BY <1>1 DEF CleanAfter
<1>2. CASE ElsewhereOf(t)
  BY <1>1, <1>2, CleanAfterKept DEF ElsewhereOf
<1>3. CASE CacheKey(t) \/ SignTx(t) \/ Sign(t)
  BY <1>1, <1>3 DEF CacheKey, SignTx, Sign, Goto, SendTypeOK
<1>4. CASE CacheStep(t)
  <2>1. UNCHANGED <<at, ckey, tx, replies, removals>>
    BY <1>4 DEF CacheStep, callVars
  <2>2. CASE RemoveEntry(t)
    <3>1. key[t] = ckey[t] /\ TypeOK /\ Guarded /\ UNCHANGED key
      BY <2>2 DEF RemoveEntry, RemovalInv, IndInv
    <3>2. ASSUME tx[t] \in Tx, tx[t].nonce <= chain[tx[t].pk], ckey[t] = tx[t].pk
          PROVE  Clean(tx[t].pk, tx[t].nonce)'
      <4>1. tx[t].nonce \in Nat /\ key[t] = tx[t].pk /\ UNCHANGED <<key, tx>>
        BY <2>1, <3>1, <3>2 DEF Tx
      <4>2. Clean(key[t], tx[t].nonce)'
        BY <2>2, <3>1, <3>2, <4>1, RemovedClean
      <4>. QED
        BY <3>1, <4>1, <4>2
    <3>. QED
      BY <1>1, <2>1, <3>2, CleanAfterKept
  <2>3. CASE ~RemoveEntry(t)
    <3>1. pc[t] # "remove"
      BY <1>4, <2>3 DEF CacheStep, ReadHit, ReadMiss, WaitWrite, EntryOccupied,
         EntryVacant, ViewBlockOk, AccessKeyOk, RpcErr, Calling
    <3>. QED
      BY <1>1, <2>1, <3>1, CleanAfterKept
  <2>. QED
    BY <2>2, <2>3
<1>5. CASE \/ NonceErr(t) \/ Outcome(t) \/ Accepted(t) \/ TimeoutError(t)
           \/ TransportError(t) \/ DropCall(t)
  BY <1>5, ToldOther DEF CleanAfter
<1>6. CASE RefusedOf(t)
  <2>1. PICK reason \in Reasons(tx[t]), reply \in Reply :
          /\ Told(t, reason) /\ reason \in {"invalid_tx", "invalid_nonce"}
          /\ replies' = [replies EXCEPT ![t] = Append(@, reply)]
          /\ at'[t] = "check" /\ UNCHANGED ckey
          /\ reply \in StaleNonce <=> reason = "invalid_nonce"
    BY <1>6, RefusedReply
  <2>2. /\ reason \in {"invalid_tx", "invalid_nonce"}
        /\ at'[t] = "check" /\ UNCHANGED ckey
        /\ Last(replies'[t]) = reply
    BY <2>1, LastReply
  <2>3. CASE reason = "invalid_tx"
    BY <2>1, <2>2, <2>3 DEF CleanAfter, Refused
  <2>4. CASE reason = "invalid_nonce"
    <3>1. /\ tx[t] \in Tx /\ ckey[t] = tx[t].pk
          /\ UNCHANGED <<tx, chain>>
      BY <1>6 DEF RefusedOf, SendTypeOK, KeyInv, KeyInStep, Refuse, vars
    <3>2. tx[t].nonce <= chain[tx[t].pk]
      BY <2>4 DEF Reasons
    <3>3. removals'[t] > 0
      BY <2>1, <2>4, RefusalAsksRemoval
    <3>. QED
      BY <2>2, <3>1, <3>2, <3>3 DEF CleanAfter
  <2>. QED
    BY <2>2, <2>3, <2>4
<1>7. CASE CheckAndInvalidateCache(t)
  <2>1. /\ at[t] = "check" /\ pc'[t] = "remove"
        /\ UNCHANGED <<at, ckey, tx, replies>>
    BY <1>7 DEF CheckAndInvalidateCache, Invalidate, Move, SendTypeOK, TypeOK
  <2>. QED
    BY <2>1, CleanAfterKept
<1>8. CASE Conclude(t)
  <2>1. /\ at[t] = "check" /\ removals[t] = 0 /\ pc[t] # "remove"
        /\ at'[t] \in {"start", "done"}
        /\ UNCHANGED <<ckey, tx, replies>>
    BY <1>8 DEF Conclude, Goto, Returned, SendTypeOK
  <2>. QED
    BY <2>1, CleanAfterKept
<1>. QED
  BY StepSplits, <1>2, <1>3, <1>4, <1>5, <1>6, <1>7, <1>8 DEF StepOf

\* Where keys do not mix and nodes are not behind, a nonce the chain refused
\* is out of the cache once the attempt is over, whatever other calls did.
THEOREM StaleEntriesGo ==
    ASSUME OneKeyOrOneCaller, MaxLag = 0
    PROVE  SendSpec => []StaleEntryGone
<1> DEFINE Inv == \A t \in Task : CleanAfter(t)
<1>1. SendInit => Inv
  BY EmptySeq DEF SendInit, CleanAfter, Refused
<1>2. /\ SendTypeOK /\ SendTypeOK' /\ IndInv /\ RemovalInv /\ KeyInv /\ Inv
      /\ [SendNext]_sendVars
      => Inv'
  BY CleanAfterStep
<1>3. SendTypeOK /\ Inv => StaleEntryGone
  <2> SUFFICES ASSUME SendTypeOK, Inv, NEW t \in Task,
                      Refused(t), at[t] \in {"start", "done"}
               PROVE  tx[t].nonce \notin given[tx[t].pk]
    BY DEF StaleEntryGone
  <2>1. Clean(tx[t].pk, tx[t].nonce) /\ tx[t] \in Tx
    BY DEF CleanAfter
  <2>. QED
    BY <2>1 DEF Clean, Tx
<1> HIDE DEF Inv
<1>4. SendSpec => []Inv
  BY <1>1, <1>2, SendTypeCorrect, InvariantInClient, RemovalsCaused,
     KeyInvHolds, PTL DEF SendSpec
<1>. QED
  BY <1>3, <1>4, SendTypeCorrect, PTL
-----------------------------------------------------------------------------
(* Retries.  A transaction is signed anew only when the one before is gone: *)
(* neither on its way nor executed.                                         *)

\* A step signs a transaction, executes one, or at most takes one away.
LEMMA SentStep ==
    ASSUME SendTypeOK, [SendNext]_sendVars
    PROVE  \/ \E t \in Task : Sign(t)
           \/ \E x \in network :
                 /\ UNCHANGED <<tx, bumps>>
                 /\ network' = network \ {x} /\ executed' = executed \union {x}
           \/ network' \subseteq network /\ UNCHANGED <<tx, executed>>
<1>1. ASSUME NEW t \in Task, Attempt(t)
      PROVE  Sign(t) \/ UNCHANGED <<network, tx, executed>>
  BY <1>1 DEF Attempt, CacheKey, SignTx, CacheStep, NonceErr,
     CheckAndInvalidateCache, Conclude, callVars, netVars
<1>2. ASSUME NEW t \in Task, Answer(t)
      PROVE  network' \subseteq network /\ UNCHANGED <<tx, executed>>
  BY <1>2 DEF Answer, Outcome, Accepted, TimeoutError, TransportError, netVars
<1>3. ASSUME NEW t \in Task, DropCall(t)
      PROVE  UNCHANGED <<network, tx, executed>>
  BY <1>3 DEF DropCall, netVars
<1>4. ASSUME NEW x \in network, Execute(x)
      PROVE  /\ UNCHANGED <<tx, bumps>>
             /\ network' = network \ {x} /\ executed' = executed \union {x}
  BY <1>4 DEF Execute, callVars
<1>5. ASSUME NEW x \in network, Refuse(x)
      PROVE  network' \subseteq network /\ UNCHANGED <<tx, executed>>
  BY <1>5 DEF Refuse
<1>6. (\E k \in Key : Bump(k)) \/ UNCHANGED sendVars
        => UNCHANGED <<network, tx, executed>>
  BY DEF Bump, callVars, netVars, sendVars
<1>. QED
  BY <1>1, <1>2, <1>3, <1>4, <1>5, <1>6, DroppableAssumption
     DEF SendNext, Serve, Finished

\* A transaction that is signed is a new one of its call.
LEMMA NewTransaction ==
    ASSUME SendTypeOK, SendTypeOK', TryInv, NEW t \in Task, Sign(t)
    PROVE  /\ tx'[t] \in Tx /\ tx'[t].task = t /\ tx'[t] \notin Sent
           /\ network' = network \union {tx'[t]} /\ executed' = executed
           /\ \A u \in Task \ {t} : tx'[u] = tx[u] /\ at'[u] = at[u]
           /\ at[t] = "nonce" /\ at'[t] = "sent"
<1>1. /\ tx'[t].task = t /\ tx'[t].try = Len(replies[t]) + 1
      /\ network' = network \union {tx'[t]} /\ executed' = executed
      /\ \A u \in Task \ {t} : tx'[u] = tx[u] /\ at'[u] = at[u]
      /\ at[t] = "nonce" /\ at'[t] = "sent"
  BY DEF Sign, Goto, SendTypeOK
<1>2. tx'[t] \in Tx
  BY <1>1 DEF SendTypeOK
<1>3. tx'[t] \notin Sent
  <2>1. SUFFICES ASSUME tx'[t] \in Sent PROVE FALSE
    OBVIOUS
  <2>2. tx'[t].try <= Len(replies[t])
    BY <1>1, <2>1 DEF TryInv, TriesNumbered, Attempts, Sent
  <2>. QED
    BY <1>1, <2>2, LenProperties DEF SendTypeOK
<1>. QED
  BY <1>1, <1>2, <1>3

\* A call's last transaction is its own, and none is executed and still sent.
TxInv ==
    /\ network \intersect executed = {}
    /\ \A t \in Task : tx[t] \in Tx => tx[t].task = t

\* From the first step on a transaction is its call's, and sent only once.
LEMMA TxInvHolds == SendSpec => []TxInv
<1>1. SendInit => TxInv
  BY NoTxAssumption DEF SendInit, TxInv
<1>2. SendTypeOK /\ SendTypeOK' /\ TryInv /\ TxInv /\ [SendNext]_sendVars => TxInv'
  <2> SUFFICES ASSUME SendTypeOK, SendTypeOK', TryInv, TxInv, [SendNext]_sendVars
               PROVE  TxInv'
    OBVIOUS
  <2>1. ASSUME NEW t \in Task, Sign(t)
        PROVE  TxInv'
    <3>1. /\ tx'[t] \in Tx /\ tx'[t].task = t /\ tx'[t] \notin executed
          /\ network' = network \union {tx'[t]} /\ executed' = executed
          /\ \A u \in Task \ {t} : tx'[u] = tx[u]
      BY <2>1, NewTransaction DEF Sent
    <3>2. network' \intersect executed' = {}
      BY <3>1 DEF TxInv
    <3>. QED
      BY <3>1, <3>2 DEF TxInv
  <2>2. ASSUME ~\E t \in Task : Sign(t)
        PROVE  TxInv'
    BY <2>2, SentStep DEF TxInv
  <2>. QED
    BY <2>1, <2>2
<1>. QED
  BY <1>1, <1>2, SendTypeCorrect, TriesHold, PTL DEF SendSpec

-----------------------------------------------------------------------------
\* Calls wait for outcomes (or are send_tx_async), and outcomes come.
OutcomesCome ==
    /\ "included" \notin Mode
    /\ "timeout" \notin Faults /\ "lost" \notin Faults

\* The last transaction of a call is not on its way and not executed.
Gone(t) == tx[t] \notin Sent

Settled(t) ==
    /\ at[t] \in {"start", "cache_key", "nonce"} => Gone(t)
    /\ at[t] \in {"check", "done"} /\ mode[t] # "async"
          /\ Last(replies[t]) \notin Outcomes \union {"dropped"} => Gone(t)

GoneInv ==
    /\ \A x \in Sent : x = tx[x.task]
    /\ \A t \in Task : Settled(t)

\* A new transaction finds the one before it gone.
LEMMA GoneSign ==
    ASSUME SendTypeOK, SendTypeOK', TryInv, TxInv, GoneInv, UNCHANGED mode,
           NEW t \in Task, Sign(t)
    PROVE  GoneInv'
<1> DEFINE x == tx'[t]
<1>1. /\ x \in Tx /\ x.task = t /\ x \notin Sent
      /\ Sent' = Sent \union {x}
      /\ \A u \in Task \ {t} : tx'[u] = tx[u] /\ at'[u] = at[u]
      /\ at[t] = "nonce" /\ at'[t] = "sent"
  BY NewTransaction DEF Sent
<1>2. tx'[t] = x /\ UNCHANGED <<replies, mode>>
  BY DEF Sign
<1> HIDE DEF x
<1>3. \A y \in Sent : y.task \in Task /\ y = tx[y.task]
  BY DEF GoneInv, Sent, SendTypeOK, Tx
<1>4. \A y \in Sent : y.task # t
  <2>1. tx[t] \notin Sent
    BY <1>1 DEF GoneInv, Settled, Gone
  <2>. QED
    BY <1>3, <2>1
<1>5. \A y \in Sent' : y = tx'[y.task]
  BY <1>1, <1>2, <1>3, <1>4
<1>6. ASSUME NEW u \in Task \ {t}
      PROVE  Settled(u)'
  <2>1. Gone(u) => Gone(u)'
    <3>1. tx[u] # x
      BY <1>1 DEF TxInv
    <3>. QED
      BY <1>1, <3>1 DEF Gone
  <2>2. Settled(u) /\ UNCHANGED <<at[u], mode[u], replies[u]>>
    BY <1>1, <1>2 DEF GoneInv
  <2>. QED
    BY <2>1, <2>2 DEF Settled
<1>7. Settled(t)'
  BY <1>1 DEF Settled
<1>. QED
  BY <1>5, <1>6, <1>7 DEF GoneInv

\* A failed attempt leaves its transaction gone.
LEMMA SettledStep ==
    ASSUME OutcomesCome, SendTypeOK, TryInv, TxInv, [SendNext]_sendVars,
           NEW t \in Task, Settled(t), ~Sign(t), Gone(t) => Gone(t)',
           UNCHANGED <<tx, mode>>
    PROVE  Settled(t)'
<1>1. ASSUME Gone(t) PROVE Settled(t)'
  BY <1>1 DEF Settled
<1>2. CASE ElsewhereOf(t)
  BY <1>2 DEF ElsewhereOf, Settled
<1>3. CASE CacheKey(t) \/ SignTx(t) \/ NonceErr(t)
  BY <1>1, <1>3 DEF CacheKey, SignTx, NonceErr, Settled
<1>4. CASE CacheStep(t) \/ CheckAndInvalidateCache(t)
  BY <1>4 DEF CacheStep, CheckAndInvalidateCache, callVars, Settled
<1>5. CASE Conclude(t)
  <2>1. /\ at[t] = "check" /\ replies' = replies /\ Last(replies[t]) # "dropped"
        /\ at'[t] = "done" \/ (at'[t] = "start" /\ mode[t] # "async" /\ ~Succeeded(t))
    BY <1>5 DEF Conclude, Goto, SendTypeOK, TryInv, AttemptsCounted, Counted
  <2>. QED
    BY <2>1 DEF Settled, Succeeded
<1>6. CASE Outcome(t)
  <2>1. PICK reply \in Outcomes :
          at'[t] = "check" /\ replies' = [replies EXCEPT ![t] = Append(@, reply)]
    BY <1>6 DEF Outcome, Ended, Goto, SendTypeOK, Outcomes
  <2>2. Last(replies'[t]) = reply
    BY <2>1, LastReply DEF Reply
  <2>. QED
    BY <2>1, <2>2 DEF Settled
<1>7. CASE Accepted(t)
  <2>1. mode'[t] = "async" /\ at'[t] = "check"
    BY <1>7, ModeAssumption
       DEF Accepted, Ended, Goto, SendTypeOK, OutcomesCome, Modes
  <2>. QED
    BY <2>1 DEF Settled
<1>8. CASE TimeoutError(t) \/ TransportError(t)
  BY <1>8 DEF TimeoutError, TransportError, OutcomesCome
<1>9. CASE RefusedOf(t)
  <2>1. Gone(t)'
    BY <1>9 DEF RefusedOf, Refuse, Gone, Sent, TxInv
  <2>. QED
    BY <2>1 DEF Settled
<1>10. CASE t \in Droppable /\ DropCall(t)
  <2>1. at'[t] = "done" /\ Last(replies'[t]) = "dropped"
    BY <1>10, LastReply DEF DropCall, Goto, SendTypeOK, Reply
  <2>. QED
    BY <2>1 DEF Settled
<1>. QED
  BY StepSplits, <1>2, <1>3, <1>4, <1>5, <1>6, <1>7, <1>8, <1>9, <1>10 DEF StepOf

\* Where outcomes come, what a call sent before is gone when it sends again.
LEMMA GoneInvHolds == ASSUME OutcomesCome PROVE SendSpec => []GoneInv
<1>1. SendInit => GoneInv
  BY DEF SendInit, GoneInv, Settled, Gone, Sent
<1>2. /\ SendTypeOK /\ SendTypeOK' /\ TryInv /\ TxInv /\ GoneInv
      /\ [SendNext]_sendVars
      => GoneInv'
  <2> SUFFICES ASSUME SendTypeOK, SendTypeOK', TryInv, TxInv, GoneInv,
                      [SendNext]_sendVars
               PROVE  GoneInv'
    OBVIOUS
  <2>1. UNCHANGED mode
    BY RepliesStep
  <2>2. CASE \E t \in Task : Sign(t)
    BY <2>1, <2>2, GoneSign
  <2>3. CASE ~\E t \in Task : Sign(t)
    <3>1. UNCHANGED tx /\ Sent' \subseteq Sent
      BY <2>3, SentStep DEF Sent
    <3>2. \A t \in Task : Gone(t) => Gone(t)'
      BY <3>1 DEF Gone
    <3>3. \A t \in Task : Settled(t)'
      BY <2>1, <2>3, <3>1, <3>2, SettledStep DEF GoneInv
    <3>4. \A x \in Sent' : x = tx'[x.task]
      BY <3>1 DEF GoneInv
    <3>. QED
      BY <3>3, <3>4 DEF GoneInv
  <2>. QED
    BY <2>2, <2>3
<1>. QED
  BY <1>1, <1>2, SendTypeCorrect, TriesHold, TxInvHolds, PTL DEF SendSpec
-----------------------------------------------------------------------------
(* Refusals.  A call can be refused only if some nonce that it holds, or    *)
(* that it would be given for a key, is not above the chain's.  Only a      *)
(* transaction that the chain executes makes a key stale for the call, and  *)
(* a refusal, with the removal that it asks for, makes it fresh again.      *)

\* The entry of a key, or a query that will store one, is behind the chain.
StaleEntry(k) ==
    \/ cache[k] # Vacant /\ cache[k] < chain[k]
    \/ \E u \in Task : key[u] = k /\ pc[u] = "access_key" /\ got[u] < chain[k]

\* A call's reserved or returned nonce, or its transaction, is stale.
StaleHeld(t, k) ==
    /\ key[t] = k /\ got[t] <= chain[k]
    /\ pc[t] = "view_block" \/ Holds(t)
StaleSent(t, k) ==
    /\ at[t] = "sent" /\ tx[t] \in network
    /\ tx[t].pk = k /\ tx[t].nonce <= chain[k]

Stale(t, k) == StaleEntry(k) \/ StaleHeld(t, k) \/ StaleSent(t, k)

\* The call has still to remove the entry of its key.
Pending(t, k) ==
    at[t] = "check" /\ ckey[t] = k /\ (removals[t] > 0 \/ pc[t] = "remove")

StaleKeys(t) == {k \in Key : Stale(t, k) /\ ~Pending(t, k)}

\* Entries fall behind the chain only when the chain moves.
LEMMA StaleEntryStep ==
    ASSUME MaxLag = 0, TypeOK, [UnboundedNext]_vars,
           NEW k \in Key, chain'[k] = chain[k], StaleEntry(k)'
    PROVE  StaleEntry(k)
<1> USE DEF TypeOK, Move
<1>1. ASSUME NEW t \in Task, NEW j \in Key, FetchNonce(t, j) \/ Invalidate(t, j)
      PROVE  StaleEntry(k)
  BY <1>1 DEF FetchNonce, Invalidate, StaleEntry
<1>2. ASSUME NEW t \in Task, CachedNonce(t)
      PROVE  StaleEntry(k)
  BY <1>2, VacantAssumption DEF CachedNonce, StaleEntry
<1>3. ASSUME NEW t \in Task, ReadHit(t) \/ EntryOccupied(t)
      PROVE  StaleEntry(k)
  BY <1>2, <1>3 DEF ReadHit, EntryOccupied
<1>4. ASSUME NEW t \in Task, ReadMiss(t) \/ WaitWrite(t) \/ RpcErr(t) \/ ViewBlockOk(t)
      PROVE  StaleEntry(k)
  BY <1>4 DEF ReadMiss, WaitWrite, RpcErr, ViewBlockOk, StaleEntry
<1>5. ASSUME NEW t \in Task, EntryVacant(t)
      PROVE  StaleEntry(k)
  BY <1>5 DEF EntryVacant, StaleEntry
<1>6. ASSUME NEW t \in Task, AccessKeyOk(t)
      PROVE  StaleEntry(k)
  <2>1. PICK m \in AccessKeyNonce(t) :
          /\ cache' = [cache EXCEPT ![key[t]] = m + 1]
          /\ got' = [got EXCEPT ![t] = m + 1]
    BY <1>6 DEF AccessKeyOk
  <2>2. m \in Nat /\ got[t] <= m
    BY AnswerNotBehind
  <2>3. /\ pc[t] = "access_key" /\ UNCHANGED key
        /\ pc' = [pc EXCEPT ![t] = "ok"]
    BY <1>6 DEF AccessKeyOk
  <2>. QED
    BY <2>1, <2>2, <2>3 DEF StaleEntry
<1>7. ASSUME NEW t \in Task, RemoveEntry(t)
      PROVE  StaleEntry(k)
  BY <1>7 DEF RemoveEntry, StaleEntry
<1>8. ASSUME NEW t \in Droppable, DropFuture(t)
      PROVE  StaleEntry(k)
  BY <1>8, DroppableAssumption DEF DropFuture, StaleEntry
<1>9. ASSUME NEW j \in Key, ChainMoves(j)
      PROVE  StaleEntry(k)
  BY <1>9 DEF ChainMoves, StaleEntry
<1>10. CASE UNCHANGED vars
  BY <1>10 DEF vars, StaleEntry
<1>. QED
  BY <1>1, <1>3, <1>4, <1>5, <1>6, <1>7, <1>8, <1>9, <1>10
     DEF UnboundedNext, Progress

\* A call's nonce is stale only if it was before, or was given by an entry
\* behind the chain.
LEMMA StaleHeldStep ==
    ASSUME MaxLag = 0, SendTypeOK, [SendNext]_sendVars, NEW t \in Task,
           NEW k \in Key, chain'[k] = chain[k], StaleHeld(t, k)'
    PROVE  StaleEntry(k) \/ StaleHeld(t, k)
<1>1. CASE ElsewhereOf(t)
  BY <1>1 DEF ElsewhereOf, StaleHeld, Holds
<1>2. ASSUME UNCHANGED vars, at'[t] # "nonce"
      PROVE  StaleHeld(t, k)
  BY <1>2 DEF StaleHeld, Holds, vars
<1>3. CASE CacheKey(t) \/ NonceErr(t) \/ Sign(t) \/ Conclude(t)
  BY <1>2, <1>3 DEF CacheKey, NonceErr, Sign, Conclude, Ended, Goto, SendTypeOK
<1>4. CASE Outcome(t) \/ Accepted(t) \/ TimeoutError(t) \/ TransportError(t)
  BY <1>2, <1>4 DEF Outcome, Accepted, TimeoutError, TransportError, HandlerErr,
     Ended, Goto, SendTypeOK
<1>5. CASE RefusedOf(t)
  BY <1>2, <1>5, RefusedReply DEF RefusedOf, Refuse
<1>6. CASE SignTx(t) \/ CheckAndInvalidateCache(t)
  <2>1. pc'[t] # "view_block" /\ pc'[t] # "ok"
    BY <1>6 DEF SignTx, CheckAndInvalidateCache, FetchNonce, Invalidate, Move,
       SendTypeOK, TypeOK
  <2>. QED
    BY <2>1 DEF StaleHeld, Holds
<1>7. CASE DropCall(t)
  <2>1. at'[t] # "nonce" /\ (pc'[t] = "idle" \/ UNCHANGED vars)
    BY <1>7 DEF DropCall, DropFuture, Move, Goto, SendTypeOK, TypeOK
  <2>. QED
    BY <1>2, <2>1 DEF StaleHeld, Holds
<1>8. CASE CacheStep(t)
  <2>1. UNCHANGED <<at, key>> /\ key[t] = k /\ TypeOK
    BY <1>8 DEF CacheStep, ReadHit, ReadMiss, WaitWrite, EntryOccupied,
       EntryVacant, ViewBlockOk, AccessKeyOk, RemoveEntry, RpcErr, CachedNonce,
       callVars, StaleHeld, SendTypeOK
  <2>2. CASE ReadHit(t) \/ EntryOccupied(t)
    <3>1. cache[k] # Vacant /\ got'[t] = cache[k] + 1
      BY <2>1, <2>2 DEF ReadHit, EntryOccupied, CachedNonce, TypeOK
    <3>2. cache[k] + 1 <= chain[k] /\ cache[k] \in Nat /\ chain[k] \in Nat
      BY <2>1, <3>1 DEF StaleHeld, TypeOK
    <3>. QED
      BY <3>1, <3>2 DEF StaleEntry
  <2>3. CASE AccessKeyOk(t)
    <3>1. PICK m \in AccessKeyNonce(t) : got' = [got EXCEPT ![t] = m + 1]
      BY <2>3 DEF AccessKeyOk
    <3>2. m \in Nat /\ got[t] <= m /\ got'[t] = m + 1 /\ got[t] \in Nat
      BY <2>1, <3>1, AnswerNotBehind DEF TypeOK
    <3>3. m + 1 <= chain[k] /\ chain[k] \in Nat
      BY <2>1, <3>2 DEF StaleHeld, TypeOK
    <3>4. got[t] < chain[k]
      BY <3>2, <3>3
    <3>. QED
      BY <2>1, <2>3, <3>4 DEF StaleEntry, AccessKeyOk
  <2>4. CASE ViewBlockOk(t)
    BY <2>1, <2>4 DEF ViewBlockOk, StaleHeld
  <2>5. ASSUME pc'[t] # "view_block", pc'[t] # "ok"
        PROVE  FALSE
    BY <2>5 DEF StaleHeld, Holds
  <2>6. CASE ReadMiss(t) \/ WaitWrite(t) \/ EntryVacant(t) \/ RemoveEntry(t) \/ RpcErr(t)
    BY <2>1, <2>5, <2>6 DEF ReadMiss, WaitWrite, EntryVacant, RemoveEntry,
       RpcErr, Move, TypeOK
  <2>. QED
    BY <1>8, <2>2, <2>3, <2>4, <2>6 DEF CacheStep
<1>. QED
  BY StepSplits, <1>1, <1>3, <1>4, <1>5, <1>6, <1>7, <1>8 DEF StepOf

\* A transaction that is sent is stale only if it was, or its nonce was.
LEMMA StaleSentStep ==
    ASSUME SendTypeOK, SendTypeOK', TryInv, TxInv, [SendNext]_sendVars,
           NEW t \in Task, NEW k \in Key, chain'[k] = chain[k], StaleSent(t, k)'
    PROVE  StaleHeld(t, k) \/ StaleSent(t, k)
<1>1. CASE Sign(t)
  BY <1>1 DEF Sign, SendTypeOK, StaleSent, StaleHeld, Holds
<1>2. CASE ElsewhereOf(t)
  <2>1. at[t] = "sent" /\ tx'[t] = tx[t] /\ tx[t] \in Tx
    BY <1>2 DEF ElsewhereOf, StaleSent, SendTypeOK
  <2>2. tx[t] \in network
    <3>1. ASSUME NEW u \in Task, Sign(u)
          PROVE  tx[t] \in network
      <4>1. at[u] = "nonce" /\ tx'[u].task = u /\ network' = network \union {tx'[u]}
        BY <3>1, NewTransaction
      <4>2. tx[t].task = t /\ u # t
        BY <2>1, <4>1 DEF TxInv
      <4>. QED
        BY <2>1, <4>1, <4>2 DEF StaleSent
    <3>. QED
      BY <2>1, <3>1, SentStep DEF StaleSent
  <2>. QED
    BY <2>1, <2>2 DEF StaleSent
<1>3. CASE at'[t] # "sent"
  BY <1>3 DEF StaleSent
<1>4. CASE \/ CacheKey(t) \/ SignTx(t) \/ NonceErr(t) \/ Conclude(t) \/ Outcome(t)
           \/ Accepted(t) \/ TimeoutError(t) \/ TransportError(t) \/ DropCall(t)
  BY <1>3, <1>4 DEF CacheKey, SignTx, NonceErr, Conclude, Outcome, Accepted,
     TimeoutError, TransportError, HandlerErr, DropCall, Ended, Goto, SendTypeOK
<1>5. CASE CacheStep(t) \/ CheckAndInvalidateCache(t)
  BY <1>5 DEF CacheStep, CheckAndInvalidateCache, callVars, netVars, StaleSent
<1>6. CASE RefusedOf(t)
  BY <1>3, <1>6, RefusedReply
<1>. QED
  BY StepSplits, <1>1, <1>2, <1>4, <1>5, <1>6 DEF StepOf
\* A removal ends with a key that is fresh for the call that made it.
LEMMA PendingStep ==
    ASSUME SendTypeOK, IndInv, RemovalInv, [SendNext]_sendVars, NEW t \in Task,
           NEW k \in Key, at'[t] # "done", Pending(t, k)
    PROVE  Pending(t, k)' \/ ~Stale(t, k)'
<1> USE DEF Pending
<1>1. CASE ElsewhereOf(t)
  BY <1>1 DEF ElsewhereOf
<1>2. CASE CheckAndInvalidateCache(t)
  BY <1>2 DEF CheckAndInvalidateCache, Invalidate, Move, SendTypeOK, TypeOK
<1>3. CASE CacheStep(t) /\ ~RemoveEntry(t)
  <2>1. pc[t] # "remove" /\ UNCHANGED <<at, ckey, removals>>
    BY <1>3 DEF CacheStep, ReadHit, ReadMiss, WaitWrite, EntryOccupied,
       EntryVacant, ViewBlockOk, AccessKeyOk, RpcErr, Calling, callVars
  <2>. QED
    BY <2>1
<1>4. CASE CacheStep(t) /\ RemoveEntry(t)
  <2>1. /\ key[t] = k /\ UNCHANGED <<at, key, chain>> /\ at[t] = "check"
        /\ TypeOK /\ Guarded
    BY <1>4 DEF CacheStep, RemoveEntry, RemovalInv, callVars, IndInv
  <2>2. /\ ~(cache'[k] # Vacant)
        /\ \A u \in Task : key'[u] = k =>
              pc'[u] # "view_block" /\ pc'[u] # "access_key"
    BY <1>4, <2>1 DEF RemoveEntry, CanWrite, Guarded, Move, TypeOK
  <2>3. ~Holds(t)' /\ at'[t] # "sent"
    BY <2>1 DEF Holds
  <2>. QED
    BY <2>2, <2>3 DEF Stale, StaleEntry, StaleHeld, StaleSent
<1>5. CASE CacheKey(t) \/ SignTx(t) \/ Sign(t) \/ NonceErr(t)
  BY <1>5 DEF CacheKey, SignTx, Sign, NonceErr
<1>6. CASE \/ Outcome(t) \/ Accepted(t) \/ TimeoutError(t) \/ TransportError(t)
           \/ RefusedOf(t)
  BY <1>6 DEF Outcome, Accepted, TimeoutError, TransportError, RefusedOf
<1>7. CASE DropCall(t)
  BY <1>7 DEF DropCall, Goto, SendTypeOK
<1>8. CASE Conclude(t)
  BY <1>8 DEF Conclude, Returned
<1>. QED
  BY StepSplits, <1>1, <1>2, <1>3, <1>4, <1>5, <1>6, <1>7, <1>8 DEF StepOf

\* No key becomes stale for a call that goes on, but those whose chain moved.
LEMMA StaleKeysStep ==
    ASSUME MaxLag = 0, SendTypeOK, SendTypeOK', IndInv, RemovalInv, TryInv, TxInv,
           [SendNext]_sendVars, NEW t \in Task, at'[t] # "done",
           NEW k \in Key, chain'[k] = chain[k], k \in StaleKeys(t)'
    PROVE  k \in StaleKeys(t)
<1>1. Stale(t, k)' /\ ~Pending(t, k)'
  BY DEF StaleKeys
<1>2. Stale(t, k)
  <2>1. StaleEntry(k)' => StaleEntry(k)
    BY StaleEntryStep, ClientStepOfCache DEF SendTypeOK
  <2>2. StaleHeld(t, k)' => StaleEntry(k) \/ StaleHeld(t, k)
    BY StaleHeldStep
  <2>3. StaleSent(t, k)' => StaleHeld(t, k) \/ StaleSent(t, k)
    BY StaleSentStep
  <2>. QED
    BY <1>1, <2>1, <2>2, <2>3 DEF Stale
<1>3. ~Pending(t, k)
  BY <1>1, PendingStep
<1>. QED
  BY <1>2, <1>3 DEF StaleKeys

-----------------------------------------------------------------------------
\* Refusals can be counted, and a reply adds one or none.
LEMMA RefusalsStep ==
    ASSUME SendTypeOK, NEW t \in Task
    PROVE  /\ Refusals(t) \in Nat
           /\ \A reply \in Reply :
                 replies' = [replies EXCEPT ![t] = Append(@, reply)] =>
                    Refusals(t)' = IF reply \in StaleNonce
                                   THEN Refusals(t) + 1 ELSE Refusals(t)
<1> DEFINE n == Len(replies[t])
           S == {i \in DOMAIN replies[t] : replies[t][i] \in StaleNonce}
<1>1. replies[t] \in Seq(Reply) /\ n \in Nat /\ DOMAIN replies[t] = 1 .. n
  BY LenProperties DEF SendTypeOK
<1>2. IsFiniteSet(S) /\ Cardinality(S) \in Nat /\ n + 1 \notin S
  <2>1. S \in SUBSET (1 .. n)
    BY <1>1
  <2> HIDE DEF S, n
  <2>2. IsFiniteSet(S)
    <3>1. 1 \in Int /\ n \in Int
      BY <1>1
    <3>2. IsFiniteSet(1 .. n)
      BY <3>1, FS_Interval
    <3>. QED
      BY <2>1, <3>2, FS_Subset
  <2>3. n + 1 \notin 1 .. n
    BY <1>1
  <2>. QED
    BY <2>1, <2>2, <2>3, FS_CardinalityType
<1>3. ASSUME NEW reply \in Reply,
             replies' = [replies EXCEPT ![t] = Append(@, reply)]
      PROVE  Refusals(t)' = IF reply \in StaleNonce
                            THEN Cardinality(S) + 1 ELSE Cardinality(S)
  <2> DEFINE T == {i \in DOMAIN replies'[t] : replies'[t][i] \in StaleNonce}
  <2>1. /\ DOMAIN replies'[t] = 1 .. n + 1 /\ replies'[t][n + 1] = reply
        /\ \A i \in 1 .. n : replies'[t][i] = replies[t][i]
    <3>1. replies'[t] = Append(replies[t], reply)
      BY <1>3 DEF SendTypeOK
    <3>. QED
      BY <1>1, <3>1, AppendProperties, LenProperties
  <2>2. 1 .. n + 1 = (1 .. n) \union {n + 1}
    BY <1>1
  <2>3. T = IF reply \in StaleNonce THEN S \union {n + 1} ELSE S
    BY <1>1, <2>1, <2>2
  <2>4. Refusals(t)' = Cardinality(T)
    BY DEF Refusals
  <2>5. Cardinality(S \union {n + 1}) = Cardinality(S) + 1
    BY <1>2, FS_AddElement
  <2> HIDE DEF S, T, n
  <2>. QED
    BY <2>3, <2>4, <2>5
<1> DEFINE m == Cardinality(S)
<1>4. Refusals(t) = m /\ m \in Nat
  BY <1>2 DEF Refusals
<1>5. ASSUME NEW reply \in Reply,
             replies' = [replies EXCEPT ![t] = Append(@, reply)]
      PROVE  Refusals(t)' = IF reply \in StaleNonce THEN m + 1 ELSE m
  BY <1>3, <1>5
<1> HIDE DEF m
<1>. QED
  BY <1>4, <1>5
\* Only a refusal of the call's own transaction counts, and it leaves the
\* key fresh: the removal it asks for is pending.
LEMMA RefusalsGrow ==
    ASSUME SendTypeOK, KeyInv, [SendNext]_sendVars, NEW t \in Task
    PROVE  \/ Refusals(t)' = Refusals(t)
           \/ /\ Refusals(t)' = Refusals(t) + 1
              /\ at[t] = "sent" /\ at'[t] = "check"
              /\ tx[t] \in network /\ UNCHANGED <<tx, chain>>
              /\ \E k \in Key : k \in StaleKeys(t) /\ k \notin StaleKeys(t)'
<1>1. ASSUME UNCHANGED replies[t]
      PROVE  Refusals(t)' = Refusals(t)
  BY <1>1 DEF Refusals
<1>2. ASSUME NEW reply \in Reply \ StaleNonce,
             replies' = [replies EXCEPT ![t] = Append(@, reply)]
      PROVE  Refusals(t)' = Refusals(t)
  BY <1>2, RefusalsStep
<1>3. CASE ElsewhereOf(t)
  BY <1>1, <1>3 DEF ElsewhereOf
<1>4. CASE \/ CacheKey(t) \/ SignTx(t) \/ CacheStep(t) \/ Sign(t) \/ Conclude(t)
           \/ CheckAndInvalidateCache(t)
  BY <1>1, <1>4 DEF CacheKey, SignTx, CacheStep, Sign, Conclude,
     CheckAndInvalidateCache, callVars
<1>5. CASE NonceErr(t) \/ Accepted(t)
  BY <1>2, <1>5 DEF NonceErr, Accepted, Ended, Reply, StaleNonce
<1>6. CASE TimeoutError(t) \/ TransportError(t) \/ DropCall(t)
  BY <1>2, <1>6 DEF TimeoutError, TransportError, DropCall, HandlerErr, Ended,
     Reply, StaleNonce
<1>8. CASE Outcome(t)
  <2>1. PICK reply \in Outcomes : replies' = [replies EXCEPT ![t] = Append(@, reply)]
    BY <1>8 DEF Outcome, Ended, Outcomes
  <2>2. reply \in Reply \ StaleNonce
    BY DEF Outcomes, Reply, StaleNonce
  <2>. QED
    BY <1>2, <2>1, <2>2
<1>7. CASE RefusedOf(t)
  <2>1. /\ at[t] = "sent" /\ tx[t] \in network /\ UNCHANGED <<tx, vars>>
        /\ tx[t] \in Tx /\ ckey[t] = tx[t].pk
    BY <1>7 DEF RefusedOf, Refuse, SendTypeOK, KeyInv, KeyInStep
  <2>2. PICK reason \in Reasons(tx[t]), reply \in Reply :
          /\ Told(t, reason) /\ reason \in {"invalid_tx", "invalid_nonce"}
          /\ replies' = [replies EXCEPT ![t] = Append(@, reply)]
          /\ at'[t] = "check" /\ UNCHANGED ckey
          /\ reply \in StaleNonce <=> reason = "invalid_nonce"
    BY <1>7, RefusedReply
  <2>3. at'[t] = "check" /\ UNCHANGED ckey
    BY <2>2
  <2>4. CASE reason = "invalid_tx"
    BY <1>2, <2>2, <2>4
  <2>5. CASE reason = "invalid_nonce"
    <3>1. Refusals(t)' = Refusals(t) + 1
      BY <2>2, <2>5, RefusalsStep
    <3> DEFINE k == ckey[t]
    <3>2. k \in Key /\ k = tx[t].pk
      BY <2>1 DEF SendTypeOK
    <3>3. k \in StaleKeys(t)
      <4>1. tx[t].nonce <= chain[tx[t].pk]
        BY <2>5 DEF Reasons
      <4>. QED
        BY <2>1, <3>2, <4>1 DEF StaleKeys, Stale, StaleSent, Pending
    <3>4. removals'[t] > 0
      BY <2>2, <2>5, RefusalAsksRemoval
    <3>5. ckey'[t] = k
      BY <2>3
    <3> HIDE DEF k
    <3>6. k \notin StaleKeys(t)'
      BY <2>3, <3>4, <3>5 DEF StaleKeys, Pending
    <3>. QED
      BY <2>1, <2>3, <3>1, <3>2, <3>3, <3>6 DEF vars
  <2>. QED
    BY <2>2, <2>4, <2>5
<1>. QED
  BY StepSplits, <1>3, <1>4, <1>5, <1>6, <1>7, <1>8 DEF StepOf

\* The chain moves one key at a time, for a transaction that is executed.
LEMMA MovesStep ==
    ASSUME SendTypeOK, [SendNext]_sendVars
    PROVE  \/ UNCHANGED <<chain, executed, bumps>>
           \/ /\ UNCHANGED callVars
              /\ \E k \in Key : \A j \in Key \ {k} : chain'[j] = chain[j]
              /\ \/ /\ \E x \in network : executed' = executed \union {x}
                    /\ bumps' = bumps
                 \/ executed' = executed /\ bumps' = bumps + 1
<1>1. ASSUME NEW t \in Task, CacheStep(t)
      PROVE  UNCHANGED <<chain, executed, bumps>>
  BY <1>1 DEF CacheStep, ReadHit, ReadMiss, WaitWrite, EntryOccupied,
     EntryVacant, ViewBlockOk, AccessKeyOk, RemoveEntry, RpcErr, CachedNonce,
     netVars
<1>2. ASSUME NEW t \in Task, SignTx(t) \/ CheckAndInvalidateCache(t)
      PROVE  UNCHANGED <<chain, executed, bumps>>
  BY <1>2 DEF SignTx, CheckAndInvalidateCache, FetchNonce, Invalidate, netVars
<1>3. ASSUME NEW t \in Task, CacheKey(t) \/ NonceErr(t) \/ Sign(t) \/ Conclude(t) \/ Answer(t)
      PROVE  UNCHANGED <<chain, executed, bumps>>
  BY <1>3 DEF CacheKey, NonceErr, Sign, Conclude, Answer, Outcome, Accepted,
     TimeoutError, TransportError, netVars, vars
<1>4. ASSUME NEW t \in Task, DropCall(t)
      PROVE  UNCHANGED <<chain, executed, bumps>>
  BY <1>4 DEF DropCall, DropFuture, netVars, vars
<1>5. ASSUME NEW x \in network, Refuse(x)
      PROVE  UNCHANGED <<chain, executed, bumps>>
  BY <1>5 DEF Refuse, vars
<1>6. ASSUME NEW x \in network, Execute(x)
      PROVE  /\ UNCHANGED <<callVars, bumps>> /\ executed' = executed \union {x}
             /\ x.pk \in Key /\ \A j \in Key \ {x.pk} : chain'[j] = chain[j]
  BY <1>6 DEF Execute, ChainTo, SendTypeOK, TypeOK, Tx
<1>7. ASSUME NEW k \in Key, Bump(k)
      PROVE  /\ UNCHANGED <<callVars, executed>> /\ bumps' = bumps + 1
             /\ \A j \in Key \ {k} : chain'[j] = chain[j]
  BY <1>7 DEF Bump, ChainTo, SendTypeOK, TypeOK
<1>8. UNCHANGED sendVars => UNCHANGED <<chain, executed, bumps>>
  BY DEF sendVars, vars, netVars
<1>. QED
  BY <1>1, <1>2, <1>3, <1>4, <1>5, <1>6, <1>7, <1>8, DroppableAssumption
     DEF SendNext, Attempt, Serve, Finished

\* A call that is done stays so.
LEMMA DoneStays ==
    ASSUME SendTypeOK, [SendNext]_sendVars, NEW t \in Task, at[t] = "done"
    PROVE  at'[t] = "done"
<1>1. CASE StepOf(t) /\ ~CacheStep(t)
  BY <1>1 DEF StepOf, CacheKey, SignTx, NonceErr, Sign, CheckAndInvalidateCache,
     Conclude, Outcome, Accepted, TimeoutError, TransportError, RefusedOf, DropCall
<1>. QED
  BY <1>1, StepSplits DEF CacheStep, callVars, ElsewhereOf

-----------------------------------------------------------------------------
(* The account of a call: what it was refused, and the keys stale for it,  *)
(* were paid for by transactions that the chain executed, of which the     *)
(* call's own last one is one more than is needed.                         *)
Total == Cardinality(executed) + bumps

Paid(t) ==
    /\ at[t] # "done" =>
          /\ IsFiniteSet(StaleKeys(t))
          /\ Refusals(t) + Cardinality(StaleKeys(t)) <= Total
    /\ Refusals(t) <= Total
    /\ tx[t] \in executed => Refusals(t) + 1 <= Total

PaidInv == IsFiniteSet(executed) /\ \A t \in Task : Paid(t)

\* The account balances while the chain rests.
LEMMA PaidAtRest ==
    ASSUME MaxLag = 0, SendTypeOK, SendTypeOK', IndInv, RemovalInv, KeyInv, TryInv,
           TxInv, [SendNext]_sendVars, UNCHANGED <<chain, executed, bumps>>,
           IsFiniteSet(executed), NEW t \in Task, Paid(t)
    PROVE  Paid(t)'
<1>1. Total \in Nat /\ Total' = Total /\ Refusals(t) \in Nat
  BY FS_CardinalityType, RefusalsStep, RetriesAssumption DEF Total, SendTypeOK
<1>2. at'[t] # "done" => at[t] # "done" /\ StaleKeys(t)' \subseteq StaleKeys(t)
  BY DoneStays, StaleKeysStep DEF StaleKeys
<1> DEFINE S == StaleKeys(t)
           T == StaleKeys(t)'
<1>3. CASE Refusals(t)' = Refusals(t)
  <2>1. ASSUME at'[t] # "done"
        PROVE  /\ IsFiniteSet(T)
               /\ Refusals(t) + Cardinality(T) <= Total
    <3>1. /\ IsFiniteSet(S) /\ Refusals(t) + Cardinality(S) <= Total
          /\ T \in SUBSET S
      BY <1>2, <2>1 DEF Paid
    <3> HIDE DEF S, T
    <3>2. IsFiniteSet(T) /\ Cardinality(T) <= Cardinality(S)
      BY <3>1, FS_Subset
    <3>3. Cardinality(T) \in Nat /\ Cardinality(S) \in Nat
      BY <3>1, <3>2, FS_CardinalityType
    <3>. QED
      BY <1>1, <3>1, <3>2, <3>3
  <2>2. tx'[t] \in executed' => tx[t] \in executed
    <3>1. ASSUME NEW u \in Task, Sign(u), tx'[t] \in executed'
          PROVE  tx[t] \in executed
      BY <3>1, NewTransaction DEF Sent
    <3>. QED
      BY <3>1, SentStep
  <2>3. IsFiniteSet(T) = IsFiniteSet(StaleKeys(t))' /\ Cardinality(T) = Cardinality(StaleKeys(t))'
    OBVIOUS
  <2>. QED
    BY <1>1, <1>3, <2>1, <2>2, <2>3 DEF Paid
<1>4. CASE Refusals(t)' # Refusals(t)
  <2>1. /\ Refusals(t)' = Refusals(t) + 1
        /\ at[t] = "sent" /\ tx[t] \in network /\ UNCHANGED tx
    BY <1>4, RefusalsGrow
  <2>2. PICK k \in Key : k \in S /\ k \notin T
    BY <1>4, RefusalsGrow
  <2>3. at'[t] # "done"
    BY <1>4, RefusalsGrow
  <2>4. /\ IsFiniteSet(S) /\ Refusals(t) + Cardinality(S) <= Total
        /\ T \in SUBSET (S \ {k})
    BY <1>2, <2>1, <2>2, <2>3 DEF Paid
  <2> HIDE DEF S, T
  <2>5. IsFiniteSet(S \ {k}) /\ Cardinality(S \ {k}) = Cardinality(S) - 1
    BY <2>2, <2>4, FS_RemoveElement
  <2>6. IsFiniteSet(T) /\ Cardinality(T) <= Cardinality(S) - 1
    BY <2>4, <2>5, FS_Subset
  <2>7. Cardinality(T) \in Nat /\ Cardinality(S) \in Nat
    BY <2>4, <2>6, FS_CardinalityType
  <2>8. /\ Refusals(t) + 1 + Cardinality(T) <= Total
        /\ Refusals(t) + 1 <= Total
    BY <1>1, <2>4, <2>6, <2>7
  <2>9. tx'[t] \notin executed'
    BY <2>1 DEF TxInv
  <2>10. IsFiniteSet(T) = IsFiniteSet(StaleKeys(t))' /\ Cardinality(T) = Cardinality(StaleKeys(t))'
    BY DEF T
  <2>. QED
    BY <1>1, <2>1, <2>6, <2>8, <2>9, <2>10 DEF Paid
<1>. QED
  BY <1>3, <1>4
\* When the chain moves, one transaction more pays for one key more.
LEMMA PaidWhenMoved ==
    ASSUME MaxLag = 0, SendTypeOK, SendTypeOK', IndInv, RemovalInv, TryInv, TxInv,
           [SendNext]_sendVars, UNCHANGED callVars, NEW k \in Key,
           \A j \in Key \ {k} : chain'[j] = chain[j],
           IsFiniteSet(executed), Total' = Total + 1, Total \in Nat,
           NEW t \in Task, Paid(t)
    PROVE  Paid(t)'
<1> DEFINE S == StaleKeys(t)
           T == StaleKeys(t)'
<1>1. Refusals(t) \in Nat /\ Refusals(t)' = Refusals(t) /\ at'[t] = at[t]
  BY RefusalsStep DEF callVars, Refusals
<1>2. Refusals(t) <= Total
  BY DEF Paid
<1>3. ASSUME at[t] # "done"
      PROVE  IsFiniteSet(T) /\ Refusals(t) + Cardinality(T) <= Total + 1
  <2>1. IsFiniteSet(S) /\ Refusals(t) + Cardinality(S) <= Total
    BY <1>3 DEF Paid
  <2>2. T \in SUBSET (S \union {k})
    BY <1>1, <1>3, StaleKeysStep DEF StaleKeys
  <2> HIDE DEF S, T
  <2> DEFINE U == S \union {k}
  <2>3. /\ IsFiniteSet(U) /\ Cardinality(S) \in Nat
        /\ Cardinality(U) \in {Cardinality(S), Cardinality(S) + 1}
    BY <2>1, FS_AddElement, FS_CardinalityType
  <2>4. IsFiniteSet(T) /\ Cardinality(T) <= Cardinality(U)
    BY <2>2, <2>3, FS_Subset
  <2>5. Cardinality(T) \in Nat
    BY <2>4, FS_CardinalityType
  <2>. QED
    BY <1>1, <2>1, <2>3, <2>4, <2>5
<1>4. IsFiniteSet(T) = IsFiniteSet(StaleKeys(t))' /\ Cardinality(T) = Cardinality(StaleKeys(t))'
  OBVIOUS
<1>5. Refusals(t) <= Total + 1 /\ Refusals(t) + 1 <= Total + 1
  BY <1>1, <1>2
<1> HIDE DEF T
<1>. QED
  BY <1>1, <1>3, <1>4, <1>5 DEF Paid

\* The account balances from the first step on.
LEMMA PaidInvHolds ==
    ASSUME OneKeyOrOneCaller, MaxLag = 0 PROVE SendSpec => []PaidInv
<1>1. SendInit /\ SendTypeOK => PaidInv
  <2> SUFFICES ASSUME SendInit, SendTypeOK, NEW t \in Task PROVE Paid(t)
    BY FS_EmptySet DEF SendInit, PaidInv
  <2>1. executed = {} /\ bumps = 0 /\ replies[t] = <<>> /\ at[t] = "start"
    BY DEF SendInit
  <2>2. Total = 0
    BY <2>1, FS_EmptySet DEF Total
  <2>3. Refusals(t) = 0
    <3>1. {i \in DOMAIN replies[t] : replies[t][i] \in StaleNonce} = {}
      BY <2>1
    <3>. QED
      BY <3>1, FS_EmptySet DEF Refusals
  <2>4. StaleKeys(t) = {}
    BY <2>1 DEF SendInit, Init, StaleKeys, Stale, StaleEntry, StaleHeld,
       StaleSent, Holds
  <2>. QED
    BY <2>1, <2>2, <2>3, <2>4, FS_EmptySet DEF Paid
<1>2. /\ SendTypeOK /\ SendTypeOK' /\ IndInv /\ RemovalInv /\ KeyInv /\ TryInv
      /\ TxInv /\ PaidInv /\ [SendNext]_sendVars
      => PaidInv'
  <2> SUFFICES ASSUME SendTypeOK, SendTypeOK', IndInv, RemovalInv, KeyInv, TryInv,
                      TxInv, PaidInv, [SendNext]_sendVars
               PROVE  PaidInv'
    OBVIOUS
  <2>1. IsFiniteSet(executed) /\ \A t \in Task : Paid(t)
    BY DEF PaidInv
  <2>2. Cardinality(executed) \in Nat /\ bumps \in Nat /\ Total \in Nat
    BY <2>1, FS_CardinalityType, RetriesAssumption DEF SendTypeOK, Total
  <2>3. CASE UNCHANGED <<chain, executed, bumps>>
    BY <2>1, <2>3, PaidAtRest DEF PaidInv
  <2>4. CASE ~UNCHANGED <<chain, executed, bumps>>
    <3>1. PICK k \in Key : \A j \in Key \ {k} : chain'[j] = chain[j]
      BY <2>4, MovesStep
    <3>2. UNCHANGED callVars
      BY <2>4, MovesStep
    <3>3. IsFiniteSet(executed') /\ Total' = Total + 1
      <4>1. CASE executed' = executed /\ bumps' = bumps + 1
        BY <2>1, <2>2, <4>1 DEF Total
      <4>2. ASSUME NEW x \in network, executed' = executed \union {x}, bumps' = bumps
            PROVE  IsFiniteSet(executed') /\ Total' = Total + 1
        <5>1. x \notin executed
          BY DEF TxInv
        <5>2. /\ IsFiniteSet(executed \union {x})
              /\ Cardinality(executed \union {x}) = Cardinality(executed) + 1
          BY <2>1, <5>1, FS_AddElement
        <5>. QED
          BY <2>2, <4>2, <5>2 DEF Total
      <4>. QED
        BY <2>4, <4>1, <4>2, MovesStep
    <3>. QED
      BY <2>1, <2>2, <3>1, <3>2, <3>3, PaidWhenMoved DEF PaidInv
  <2>. QED
    BY <2>3, <2>4
<1>. QED
  BY <1>1, <1>2, SendTypeCorrect, InvariantInClient, RemovalsCaused, KeyInvHolds,
     TriesHold, TxInvHolds, PTL DEF SendSpec

\* Where keys do not mix and nodes are not behind, a call is not refused for
\* a stale nonce more often than other transactions were executed.
THEOREM RefusalsArePaidFor ==
    ASSUME OneKeyOrOneCaller, MaxLag = 0 PROVE SendSpec => []RefusalsPaidFor
<1>1. SendTypeOK /\ PaidInv => RefusalsPaidFor
  <2> SUFFICES ASSUME SendTypeOK, PaidInv, NEW t \in Task
               PROVE  Refusals(t) <= Cardinality(executed \ {tx[t]}) + bumps
    BY DEF RefusalsPaidFor
  <2>1. /\ Cardinality(executed) \in Nat /\ bumps \in Nat /\ Refusals(t) \in Nat
        /\ Refusals(t) <= Cardinality(executed) + bumps
        /\ tx[t] \in executed => Refusals(t) + 1 <= Cardinality(executed) + bumps
    BY FS_CardinalityType, RefusalsStep, RetriesAssumption
       DEF SendTypeOK, PaidInv, Paid, Total
  <2>2. Cardinality(executed \ {tx[t]}) =
          IF tx[t] \in executed THEN Cardinality(executed) - 1 ELSE Cardinality(executed)
    BY FS_RemoveElement DEF PaidInv
  <2>. QED
    BY <2>1, <2>2
<1>. QED
  BY <1>1, SendTypeCorrect, PaidInvHolds, PTL
-----------------------------------------------------------------------------
(* Enough retries.  Calls wait for outcomes, the network only delays and    *)
(* reorders, and nobody drops a call: then an attempt fails for a stale     *)
(* nonce or not at all, and the account above bounds how often.             *)
OnlyDelays ==
    Mode = {"executed"} /\ Faults \subseteq {"delegate"} /\ Droppable = {}

EnoughRetries ==
    IsFiniteSet(Task) /\ Cardinality(Task) + MaxBumps <= Retries + 1

OnlyRefused(t) == \A i \in DOMAIN replies[t] : replies[t][i] = "invalid_nonce"

Persistent(t) ==
    /\ pc[t] # "err"
    /\ OnlyRefused(t) \/ (at[t] \in {"check", "done"} /\ Last(replies[t]) \in Outcomes)
    /\ at[t] = "done" => Last(replies[t]) \in Outcomes \/ Len(replies[t]) > Retries

\* A reply after refusals only is the last one, and one more of them if it is.
LEMMA OnlyRefusedStep ==
    ASSUME SendTypeOK, NEW t \in Task, OnlyRefused(t),
           replies' = [replies EXCEPT ![t] = Append(@, "invalid_nonce")]
    PROVE  OnlyRefused(t)'
<1>1. replies[t] \in Seq(Reply) /\ replies'[t] = Append(replies[t], "invalid_nonce")
  BY DEF SendTypeOK
<1>2. /\ DOMAIN replies[t] = 1 .. Len(replies[t]) /\ Len(replies[t]) \in Nat
      /\ DOMAIN replies'[t] = 1 .. Len(replies[t]) + 1
      /\ replies'[t][Len(replies[t]) + 1] = "invalid_nonce"
      /\ \A i \in 1 .. Len(replies[t]) : replies'[t][i] = replies[t][i]
  BY <1>1, AppendProperties, LenProperties DEF Reply
<1>. QED
  BY <1>2 DEF OnlyRefused

\* Every step of a call that is only delayed keeps it persistent.
LEMMA PersistentStep ==
    ASSUME OnlyDelays, SendTypeOK, KeyInv, TryInv, [SendNext]_sendVars,
           NEW t \in Task, Persistent(t)
    PROVE  Persistent(t)'
<1>1. mode[t] = "executed"
  BY DEF SendTypeOK, OnlyDelays
<1>2. /\ "rpc" \notin Faults /\ "timeout" \notin Faults /\ "lost" \notin Faults
      /\ "expired" \notin Faults /\ "block" \notin Faults /\ Droppable = {}
  BY DEF OnlyDelays
<1>3. ASSUME UNCHANGED replies[t], pc'[t] # "err",
             at[t] \in {"check", "done"} => at'[t] = at[t], at'[t] # "done" \/ at[t] = "done"
      PROVE  Persistent(t)'
  BY <1>3 DEF Persistent, OnlyRefused
<1>4. CASE ElsewhereOf(t)
  BY <1>3, <1>4 DEF ElsewhereOf, Persistent
<1>5. CASE CacheKey(t) \/ Sign(t)
  BY <1>3, <1>5 DEF CacheKey, Sign, vars, Goto, SendTypeOK, Persistent
<1>6. CASE SignTx(t) \/ CheckAndInvalidateCache(t)
  <2>1. pc'[t] # "err" /\ UNCHANGED replies
    BY <1>6 DEF SignTx, CheckAndInvalidateCache, FetchNonce, Invalidate, Move,
       SendTypeOK, TypeOK
  <2>2. (at[t] = "cache_key" /\ at'[t] = "nonce") \/ UNCHANGED at
    BY <1>6 DEF SignTx, CheckAndInvalidateCache, Goto, SendTypeOK
  <2>. QED
    BY <1>3, <2>1, <2>2
<1>7. CASE CacheStep(t)
  <2>1. pc'[t] # "err"
    BY <1>2, <1>7 DEF CacheStep, ReadHit, ReadMiss, WaitWrite, EntryOccupied,
       EntryVacant, ViewBlockOk, AccessKeyOk, RemoveEntry, CachedNonce, Move,
       SendTypeOK, TypeOK
  <2>. QED
    BY <1>3, <1>7, <2>1 DEF CacheStep, callVars
<1>8. CASE Outcome(t)
  <2>1. PICK reply \in Outcomes :
          /\ replies' = [replies EXCEPT ![t] = Append(@, reply)]
          /\ at'[t] = "check" /\ pc' = pc
    BY <1>8 DEF Outcome, Ended, Goto, SendTypeOK, Outcomes, vars
  <2>2. Last(replies'[t]) \in Outcomes
    BY <2>1, LastReply DEF Reply
  <2>. QED
    BY <2>1, <2>2 DEF Persistent
<1>9. CASE RefusedOf(t)
  <2>1. PICK reason \in Reasons(tx[t]) : Told(t, reason)
    BY <1>9 DEF RefusedOf
  <2>2. tx[t].by = tx[t].pk
    BY <1>9 DEF RefusedOf, KeyInv, SignedByOwnKey
  <2>3. reason = "invalid_nonce"
    BY <1>2, <2>2 DEF Reasons
  <2>4. /\ replies' = [replies EXCEPT ![t] = Append(@, "invalid_nonce")]
        /\ at'[t] = "check" /\ pc' = pc /\ at[t] = "sent"
    BY <1>2, <1>9, <2>1, <2>3 DEF Told, HandlerErr, FailedOutcome, Ended, Goto,
       SendTypeOK, RefusedOf, Refuse, vars
  <2>. QED
    BY <2>4, OnlyRefusedStep DEF Persistent
<1>10. CASE Conclude(t)
  <2>1. /\ UNCHANGED <<replies, pc>> /\ at[t] = "check"
        /\ \/ at'[t] = "start" /\ Last(replies[t]) \notin Outcomes
           \/ at'[t] = "done" /\ (Succeeded(t) \/ Len(replies[t]) > Retries)
    BY <1>1, <1>10 DEF Conclude, Succeeded, Goto, SendTypeOK, vars
  <2>2. Last(replies[t]) \notin Rejections
    <3>1. replies[t] \in Seq(Reply) /\ replies[t] # <<>>
      BY <2>1 DEF SendTypeOK, TryInv, AttemptsCounted, Counted, Open
    <3>2. Len(replies[t]) \in DOMAIN replies[t]
      BY <3>1, LenProperties, EmptySeq
    <3>. QED
      BY <2>1, <3>2 DEF Persistent, OnlyRefused, Last, Outcomes, Rejections
  <2>3. Succeeded(t) => Last(replies[t]) \in Outcomes
    BY <1>1, <2>2 DEF Succeeded
  <2>. QED
    BY <2>1, <2>3 DEF Persistent, OnlyRefused
<1>11. ~(NonceErr(t) \/ Accepted(t) \/ TimeoutError(t) \/ TransportError(t))
  BY <1>1, <1>2 DEF NonceErr, Accepted, TimeoutError, TransportError, Persistent
<1>. QED
  BY StepSplits, <1>2, <1>4, <1>5, <1>6, <1>7, <1>8, <1>9, <1>10, <1>11 DEF StepOf

\* A call that only delays gives up on nothing but stale nonces.
LEMMA PersistentHolds ==
    ASSUME OnlyDelays, OneKeyOrOneCaller
    PROVE  SendSpec => [](\A t \in Task : Persistent(t))
<1> DEFINE Inv == \A t \in Task : Persistent(t)
<1>1. SendInit => Inv
  BY DEF SendInit, Init, Persistent, OnlyRefused
<1>2. SendTypeOK /\ KeyInv /\ TryInv /\ Inv /\ [SendNext]_sendVars => Inv'
  BY PersistentStep
<1> HIDE DEF Inv
<1>3. SendSpec => []Inv
  BY <1>1, <1>2, SendTypeCorrect, KeyInvHolds, TriesHold, PTL DEF SendSpec
<1>. QED
  BY <1>3 DEF Inv

\* At most one transaction of each other call was executed.
LEMMA OneExecutedEach ==
    ASSUME SendTypeOK, GoneInv, IsFiniteSet(Task), NEW t \in Task, Gone(t)
    PROVE  /\ IsFiniteSet(executed)
           /\ Cardinality(executed) \in Nat /\ Cardinality(Task) \in Nat
           /\ Cardinality(executed) <= Cardinality(Task) - 1
<1> DEFINE f == [x \in executed |-> x.task]
           Others == Task \ {t}
<1>1. \A x \in executed : x.task \in Task /\ x = tx[x.task] /\ x.task # t
  BY DEF SendTypeOK, Tx, GoneInv, Gone, Sent
<1>2. f \in Injection(executed, Others)
  <2>1. f \in [executed -> Others]
    BY <1>1
  <2>2. \A x, y \in executed : f[x] = f[y] => x = y
    BY <1>1
  <2>. QED
    BY <2>1, <2>2 DEF Injection, IsInjective
<1>3. /\ IsFiniteSet(Others) /\ Cardinality(Others) = Cardinality(Task) - 1
      /\ Cardinality(Task) \in Nat
  BY FS_RemoveElement, FS_CardinalityType
<1> HIDE DEF f, Others
<1>4. IsFiniteSet(executed) /\ Cardinality(executed) <= Cardinality(Others)
  BY <1>2, <1>3, FS_Injection
<1>. QED
  BY <1>3, <1>4, FS_CardinalityType

\* With one retry for each other transaction of its keys, every call that
\* ends has the outcome of its transaction, in any interleaving.
THEOREM RetriesAreEnough ==
    ASSUME OnlyDelays, EnoughRetries, OneKeyOrOneCaller, MaxLag = 0
    PROVE  SendSpec => []RetriesSuffice
<1>1. /\ SendTypeOK /\ GoneInv /\ PaidInv /\ (\A t \in Task : Persistent(t))
      /\ TryInv
      => RetriesSuffice
  <2> SUFFICES ASSUME SendTypeOK, GoneInv, PaidInv, TryInv,
                      \A t \in Task : Persistent(t),
                      NEW t \in Task, at[t] = "done", Last(replies[t]) \notin Outcomes
               PROVE  FALSE
    BY DEF RetriesSuffice
  <2> DEFINE n == Len(replies[t])
  <2>1. /\ OnlyRefused(t) /\ n > Retries
        /\ n \in Nat /\ DOMAIN replies[t] = 1 .. n /\ Retries \in Nat
    BY LenProperties, RetriesAssumption DEF Persistent, SendTypeOK
  <2>2. Last(replies[t]) = "invalid_nonce"
    BY <2>1 DEF OnlyRefused, Last
  <2>3. Gone(t)
    BY <2>2 DEF GoneInv, Settled, SendTypeOK, OnlyDelays, Outcomes
  <2>4. Refusals(t) = n
    <3>1. {i \in DOMAIN replies[t] : replies[t][i] \in StaleNonce} = 1 .. n
      BY <2>1 DEF OnlyRefused, StaleNonce
    <3>2. Refusals(t) = Cardinality(1 .. n)
      BY <3>1 DEF Refusals
    <3> HIDE DEF n
    <3>3. Cardinality(1 .. n) = n
      <4>1. 1 \in Int /\ n \in Int /\ (1 > n => n = 0)
        BY <2>1
      <4>2. Cardinality(1 .. n) = IF 1 > n THEN 0 ELSE n - 1 + 1
        BY <4>1, FS_Interval
      <4>. QED
        BY <2>1, <4>1, <4>2
    <3>. QED
      BY <3>2, <3>3
  <2>5. Refusals(t) <= Cardinality(executed) + bumps
    BY DEF PaidInv, Paid, Total
  <2>6. /\ Cardinality(executed) <= Cardinality(Task) - 1
        /\ Cardinality(executed) \in Nat /\ Cardinality(Task) \in Nat
    BY <2>3, OneExecutedEach DEF EnoughRetries
  <2>7. bumps \in Nat /\ bumps <= MaxBumps /\ MaxBumps \in Nat
    BY RetriesAssumption DEF SendTypeOK
  <2> HIDE DEF n
  <2>. QED
    BY <2>1, <2>4, <2>5, <2>6, <2>7 DEF EnoughRetries
<1>2. OutcomesCome
  BY DEF OutcomesCome, OnlyDelays
<1>. QED
  BY <1>1, <1>2, SendTypeCorrect, TriesHold, GoneInvHolds, PaidInvHolds,
     PersistentHolds, PTL
===============================================================================
