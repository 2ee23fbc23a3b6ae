--------------------------- MODULE NonceCacheProofs ---------------------------
(***************************************************************************)
(* Proofs about NonceCache for any sets of tasks and keys and without      *)
(* bounds on nonces: type correctness, the inductive invariant IndInv, and *)
(* from it that fetch_nonce never returns a nonce twice under one entry.   *)
(***************************************************************************)
EXTENDS NonceCache, SequenceTheorems, TLAPS

-----------------------------------------------------------------------------
\* Dropping one waiter leaves a queue of tasks.
LEMMA RemoveAtType ==
    ASSUME NEW S, NEW q \in Seq(S), NEW i \in 1 .. Len(q)
    PROVE  RemoveAt(q, i) \in Seq(S)
<1>1. SubSeq(q, 1, i - 1) \in Seq(S)
  BY LenProperties, ElementOfSeq, SubSeqProperties
<1>2. SubSeq(q, i + 1, Len(q)) \in Seq(S)
  BY LenProperties, ElementOfSeq, SubSeqProperties
<1>. QED
  BY <1>1, <1>2, ConcatProperties DEF RemoveAt

\* What each step does to the queue keeps it a sequence of tasks.
LEMMA QueueType ==
    ASSUME queue \in Seq(Task), NEW t \in Task
    PROVE  /\ Append(queue, t) \in Seq(Task)
           /\ IsNext(t) => Tail(queue) \in Seq(Task)
  BY HeadTailProperties DEF IsNext

\* Every step of the module keeps every variable in its type.
LEMMA TypeOKStep == TypeOK /\ [UnboundedNext]_vars => TypeOK'
<1> SUFFICES ASSUME TypeOK, [UnboundedNext]_vars PROVE TypeOK'
  OBVIOUS
<1> USE DEF TypeOK, Stage, Returned, Waiting, Calling, Move
<1>1. ASSUME NEW t \in Task, NEW k \in Key, FetchNonce(t, k)
      PROVE  TypeOK'
  BY <1>1, QueueType DEF FetchNonce, Enqueue
<1>2. ASSUME NEW t \in Task, NEW k \in Key, Invalidate(t, k)
      PROVE  TypeOK'
  BY <1>2, QueueType DEF Invalidate, Enqueue
<1>3. ASSUME NEW t \in Task, CachedNonce(t)
      PROVE  cache' \in [Key -> Nat \union {Vacant}] /\ got' \in [Task -> Nat]
             /\ pc' \in [Task -> Stage] /\ UNCHANGED <<key, chain, given>>
  BY <1>3 DEF CachedNonce
<1>4. ASSUME NEW t \in Task, ReadHit(t)
      PROVE  TypeOK'
  BY <1>4, <1>3, QueueType DEF ReadHit, CanRead
<1>5. ASSUME NEW t \in Task, ReadMiss(t)
      PROVE  TypeOK'
  BY <1>5, QueueType DEF ReadMiss, CanRead
<1>6. ASSUME NEW t \in Task, WaitWrite(t)
      PROVE  TypeOK'
  BY <1>6, QueueType DEF WaitWrite, Enqueue
<1>7. ASSUME NEW t \in Task, EntryOccupied(t)
      PROVE  TypeOK'
  BY <1>7, <1>3, QueueType DEF EntryOccupied, CanWrite, IsNext
<1>8. ASSUME NEW t \in Task, EntryVacant(t)
      PROVE  TypeOK'
  BY <1>8, QueueType DEF EntryVacant, CanWrite, IsNext
<1>9. ASSUME NEW t \in Task, ViewBlockOk(t)
      PROVE  TypeOK'
  BY <1>9 DEF ViewBlockOk, Release
<1>10. ASSUME NEW t \in Task, AccessKeyOk(t)
       PROVE  TypeOK'
  <2>1. PICK n \in AccessKeyNonce(t) :
          /\ cache' = [cache EXCEPT ![key[t]] = n + 1]
          /\ got' = [got EXCEPT ![t] = n + 1]
          /\ given' = [given EXCEPT ![key[t]] = @ \union {n + 1}]
    BY <1>10 DEF AccessKeyOk
  <2>2. n \in Nat
    BY DEF AccessKeyNonce
  <2>. QED
    BY <1>10, <2>1, <2>2 DEF AccessKeyOk, Release
<1>11. ASSUME NEW t \in Task, RpcErr(t)
       PROVE  TypeOK'
  BY <1>11 DEF RpcErr, Release
<1>12. ASSUME NEW t \in Task, RemoveEntry(t)
       PROVE  TypeOK'
  BY <1>12, QueueType DEF RemoveEntry, CanWrite, IsNext
<1>13. ASSUME NEW t \in Droppable, DropFuture(t)
       PROVE  TypeOK'
  <2>1. queue' \in Seq(Task)
    BY <1>13, RemoveAtType DEF DropFuture, Release
  <2>. QED
    BY <1>13, <2>1, DroppableAssumption DEF DropFuture, Release
<1>14. ASSUME NEW k \in Key, ChainMoves(k)
       PROVE  TypeOK'
  BY <1>14 DEF ChainMoves, ChainTo
<1>15. CASE UNCHANGED vars
  BY <1>15 DEF vars
<1>. QED
  BY <1>1, <1>2, <1>4, <1>5, <1>6, <1>7, <1>8, <1>9, <1>10, <1>11, <1>12,
     <1>13, <1>14, <1>15 DEF UnboundedNext, Progress

\* Every variable always has its type.
THEOREM TypeCorrect == UnboundedSpec => []TypeOK
<1>1. Init => TypeOK
  BY DEF Init, TypeOK, Stage, Returned
<1>. QED
  BY <1>1, TypeOKStep, PTL DEF UnboundedSpec

\* The bounds only leave steps out: what is proved here without them holds
\* of the specification that is model-checked.
THEOREM BoundsOnlyRestrict == Spec => UnboundedSpec
<1>1. Init => TypeOK
  BY DEF Init, TypeOK, Stage, Returned
<1>2. TypeOK /\ [Next]_vars => [UnboundedNext]_vars
  <2> SUFFICES ASSUME TypeOK, [Next]_vars PROVE [UnboundedNext]_vars
    OBVIOUS
  <2>1. ASSUME NEW k \in Key, ChainAdvance(k)
        PROVE  ChainMoves(k)
    <3>1. PICK n \in 1 .. MaxChain : ChainTo(k, n)
      BY <2>1 DEF ChainAdvance
    <3>2. chain'[k] = n /\ n \in Nat
      BY <3>1, BoundAssumption DEF ChainTo, TypeOK
    <3>. QED
      BY <2>1, <3>1, <3>2 DEF ChainAdvance, ChainMoves
  <2>. QED
    BY <2>1 DEF Next, Call, UnboundedNext
<1>3. TypeOK /\ [UnboundedNext]_vars => TypeOK'
  BY TypeOKStep
<1>. QED
  BY <1>1, <1>2, <1>3, PTL DEF Spec, UnboundedSpec

-----------------------------------------------------------------------------
\* A task that is in an RPC keeps the lock until its own call ends.
LEMMA GuardedStep == TypeOK /\ Guarded /\ [UnboundedNext]_vars => Guarded'
<1> SUFFICES ASSUME TypeOK, Guarded, [UnboundedNext]_vars PROVE Guarded'
  OBVIOUS
<1> USE DEF TypeOK, Guarded, Move
\* A call of t starts or waits: nothing held changes, t is in no RPC.
<1>1. ASSUME NEW t \in Task, NEW s \in Stage \ Calling, Move(t, s),
             UNCHANGED <<readers, writers>>
      PROVE  Guarded'
  BY <1>1 DEF Calling
\* The call of t ends: only t gives up what it holds.
<1>2. ASSUME NEW t \in Task, NEW s \in Returned, Move(t, s), Release(t)
      PROVE  Guarded'
  BY <1>2 DEF Release, Returned
<1>3. ASSUME NEW t \in Task, ReadHit(t)
      PROVE  Guarded'
  BY <1>3 DEF ReadHit, CachedNonce, CanRead
<1>4. ASSUME NEW t \in Task, EntryOccupied(t) \/ EntryVacant(t)
      PROVE  Guarded'
  BY <1>4 DEF EntryOccupied, EntryVacant, CachedNonce, CanWrite
<1>5. ASSUME NEW t \in Task, NEW k \in Key, FetchNonce(t, k) \/ Invalidate(t, k)
      PROVE  Guarded'
  BY <1>5, <1>1 DEF FetchNonce, Invalidate, Enqueue, Stage, Waiting, Calling
<1>6. ASSUME NEW t \in Task, ReadMiss(t) \/ WaitWrite(t) \/ RemoveEntry(t)
      PROVE  Guarded'
  BY <1>6, <1>1 DEF ReadMiss, WaitWrite, RemoveEntry, Enqueue, Stage, Waiting,
     Calling, Returned
<1>7. ASSUME NEW t \in Task, ViewBlockOk(t) \/ AccessKeyOk(t) \/ RpcErr(t)
      PROVE  Guarded'
  BY <1>7, <1>2 DEF ViewBlockOk, AccessKeyOk, RpcErr, Returned
<1>8. ASSUME NEW t \in Droppable, DropFuture(t)
      PROVE  Guarded'
  BY <1>8, <1>1, <1>2, DroppableAssumption
     DEF DropFuture, Stage, Calling, Returned
<1>9. ASSUME NEW k \in Key, ChainMoves(k)
      PROVE  Guarded'
  BY <1>9 DEF ChainMoves
<1>10. CASE UNCHANGED vars
  BY <1>10 DEF vars
<1>. QED
  BY <1>3, <1>4, <1>5, <1>6, <1>7, <1>8, <1>9, <1>10
     DEF UnboundedNext, Progress

\* fetch_add reserves a nonce above every nonce returned or reserved before.
LEMMA CachedNonceReserved ==
    ASSUME TypeOK, Guarded, Reserved, NEW t \in Task, CachedNonce(t),
           pc[t] \notin Calling,
           \A u \in Task : pc[u] # "access_key"
    PROVE  Reserved'
<1> USE DEF TypeOK, CachedNonce, Move, Calling
<1> DEFINE k == key[t]
<1>1. cache[k] \in Nat /\ cache' = [cache EXCEPT ![k] = cache[k] + 1]
      /\ got'[t] = cache[k] + 1
  OBVIOUS
<1>2. \A j \in Key : \A n \in given'[j] : cache'[j] \in Nat /\ n <= cache'[j]
  BY <1>1 DEF Reserved
<1>3. ASSUME NEW u \in Task, pc'[u] = "view_block"
      PROVE  /\ cache'[key'[u]] \in Nat
             /\ got'[u] <= cache'[key'[u]]
             /\ got'[u] \notin given'[key'[u]]
  <2>1. CASE u = t
    BY <2>1, <1>1 DEF Reserved
  <2>2. CASE u # t
    BY <2>2, <1>1, <1>3 DEF Reserved
  <2>. QED
    BY <2>1, <2>2
<1>4. ASSUME NEW u \in Task, NEW v \in Task, u # v, key'[u] = key'[v],
             pc'[u] = "view_block", pc'[v] = "view_block"
      PROVE  got'[u] # got'[v]
  BY <1>1, <1>4 DEF Reserved
<1>5. \A u \in Task : pc'[u] # "access_key"
  OBVIOUS
<1>. QED
  BY <1>2, <1>3, <1>4, <1>5 DEF Reserved

\* Every step keeps reservations and answers of a key below its entry.
LEMMA ReservedStep == IndInv /\ [UnboundedNext]_vars => Reserved'
<1> SUFFICES ASSUME TypeOK, Guarded, Reserved, [UnboundedNext]_vars PROVE Reserved'
  BY DEF IndInv
<1> USE DEF TypeOK, Move
\* A step that leaves the entries alone and takes t into no RPC.
<1>1. ASSUME NEW t \in Task, NEW s \in Stage \ Calling, Move(t, s),
             \A u \in Task \ {t} : key'[u] = key[u] /\ got'[u] = got[u],
             UNCHANGED <<cache, given>>
      PROVE  Reserved'
  <2>1. \A u \in Task : pc'[u] \in Calling => u # t /\ pc[u] = pc'[u]
    BY <1>1
  <2>. QED
    BY <1>1, <2>1 DEF Reserved, Calling
<1>2. ASSUME NEW t \in Task, NEW k \in Key, FetchNonce(t, k) \/ Invalidate(t, k)
      PROVE  Reserved'
  <2>1. \A u \in Task \ {t} : key'[u] = key[u] /\ got'[u] = got[u]
    BY <1>2 DEF FetchNonce, Invalidate
  <2>. QED
    BY <1>2, <1>1, <2>1 DEF FetchNonce, Invalidate, Stage, Waiting, Calling
<1>3. ASSUME NEW t \in Task, ReadMiss(t) \/ WaitWrite(t)
      PROVE  Reserved'
  BY <1>3, <1>1 DEF ReadMiss, WaitWrite, Stage, Waiting, Calling
<1>4. ASSUME NEW t \in Task, RpcErr(t)
      PROVE  Reserved'
  <2>1. \A u \in Task \ {t} : key'[u] = key[u] /\ got'[u] = got[u]
    BY <1>4 DEF RpcErr
  <2>. QED
    BY <1>4, <1>1, <2>1 DEF RpcErr, Stage, Returned, Calling
<1>5. ASSUME NEW t \in Droppable, DropFuture(t)
      PROVE  Reserved'
  <2>1. t \in Task /\ \A u \in Task \ {t} : key'[u] = key[u] /\ got'[u] = got[u]
    BY <1>5, DroppableAssumption DEF DropFuture
  <2>. QED
    BY <1>5, <1>1, <2>1 DEF DropFuture, Stage, Returned, Calling
<1>6. ASSUME NEW t \in Task, ReadHit(t) \/ EntryOccupied(t)
      PROVE  Reserved'
  <2>1. \A u \in Task : pc[u] # "access_key"
    BY <1>6 DEF ReadHit, EntryOccupied, CanRead, CanWrite, Guarded
  <2>. QED
    BY <1>6, <2>1, CachedNonceReserved DEF ReadHit, EntryOccupied, Calling
<1>7. ASSUME NEW t \in Task, EntryVacant(t)
      PROVE  Reserved'
  BY <1>7 DEF EntryVacant, Reserved
<1>8. ASSUME NEW t \in Task, ViewBlockOk(t)
      PROVE  Reserved'
  BY <1>8 DEF ViewBlockOk, Reserved
<1>9. ASSUME NEW t \in Task, AccessKeyOk(t)
      PROVE  Reserved'
  <2>1. PICK n \in AccessKeyNonce(t) :
          /\ cache' = [cache EXCEPT ![key[t]] = n + 1]
          /\ got' = [got EXCEPT ![t] = n + 1]
          /\ given' = [given EXCEPT ![key[t]] = @ \union {n + 1}]
    BY <1>9 DEF AccessKeyOk
  <2>2. n \in Nat /\ cache[key[t]] = Vacant /\ given[key[t]] = {}
    BY <1>9, VacantAssumption DEF AccessKeyOk, AccessKeyNonce, Reserved
  <2>3. writers = {t} /\ readers = {}
    <3>1. writers = {t}
      BY <1>9 DEF AccessKeyOk, Guarded
    <3>2. writers # {}
      BY <3>1
    <3>. QED
      BY <3>1, <3>2 DEF Guarded
  <2>4. ASSUME NEW u \in Task, u # t
        PROVE  pc[u] \notin Calling
    <3>1. writers # {u}
      BY <2>3, <2>4
    <3>. QED
      BY <2>3, <3>1 DEF Guarded, Calling
  <2>5. \A u \in Task : pc'[u] \notin Calling
    BY <1>9, <2>4 DEF AccessKeyOk, Calling
  <2>. QED
    BY <1>9, <2>1, <2>2, <2>5 DEF AccessKeyOk, Reserved, Calling
<1>10. ASSUME NEW t \in Task, RemoveEntry(t)
       PROVE  Reserved'
  <2>1. \A u \in Task : pc'[u] \notin Calling
    BY <1>10 DEF RemoveEntry, CanWrite, Guarded, Calling
  <2>. QED
    BY <1>10, <2>1 DEF RemoveEntry, Reserved, Calling
<1>11. ASSUME NEW k \in Key, ChainMoves(k)
       PROVE  Reserved'
  BY <1>11 DEF ChainMoves, Reserved
<1>12. CASE UNCHANGED vars
  BY <1>12 DEF vars, Reserved
<1>. QED
  BY <1>2, <1>3, <1>4, <1>5, <1>6, <1>7, <1>8, <1>9, <1>10, <1>11, <1>12
     DEF UnboundedNext, Progress

\* The inductive invariant holds in every reachable state.
THEOREM InvariantHolds == UnboundedSpec => []IndInv
<1>1. Init => IndInv
  BY DEF Init, IndInv, TypeOK, Guarded, Reserved, Stage, Returned
<1>2. IndInv /\ [UnboundedNext]_vars => IndInv'
  BY TypeOKStep, GuardedStep, ReservedStep DEF IndInv
<1>. QED
  BY <1>1, <1>2, PTL DEF UnboundedSpec

-----------------------------------------------------------------------------
\* A step that returns a nonce returns one not given before.
LEMMA FreshReturn == IndInv /\ [UnboundedNext]_vars => [FreshStep]_vars
<1> SUFFICES ASSUME IndInv, [UnboundedNext]_vars, NEW t \in Task, Returns(t)
             PROVE  got'[t] \notin given[key[t]]
  BY DEF FreshStep
<1> USE DEF IndInv, TypeOK, Move, Calling, Returns
<1>1. ASSUME NEW u \in Task, ViewBlockOk(u)
      PROVE  got'[t] \notin given[key[t]]
  BY <1>1 DEF ViewBlockOk, Reserved
<1>2. ASSUME NEW u \in Task, AccessKeyOk(u)
      PROVE  got'[t] \notin given[key[t]]
  <2>1. u = t
    BY <1>2 DEF AccessKeyOk
  <2>2. given[key[t]] = {}
    BY <1>2, <2>1, VacantAssumption DEF AccessKeyOk, Reserved
  <2>. QED
    BY <2>2
<1>3. ASSUME NEW u \in Task, pc' = [pc EXCEPT ![u] = pc'[u]], pc'[u] # "ok"
      PROVE  FALSE
  BY <1>3
<1>4. \E u \in Task : ViewBlockOk(u) \/ AccessKeyOk(u)
  BY <1>3, DroppableAssumption DEF UnboundedNext, Progress, FetchNonce,
     Invalidate, ReadHit, ReadMiss, WaitWrite, EntryOccupied, EntryVacant,
     RpcErr, RemoveEntry, DropFuture, ChainMoves, CachedNonce, vars
<1>. QED
  BY <1>1, <1>2, <1>4

\* fetch_nonce returns no nonce twice under one cache entry.
THEOREM NoncesAreFresh == UnboundedSpec => FreshNonce
  BY FreshReturn, InvariantHolds, PTL DEF UnboundedSpec, FreshNonce

\* An entry only grows until it is removed: a task that got the write lock
\* and an answer finds the key still missing.
LEMMA GrowStep ==
    ASSUME IndInv, [UnboundedNext]_vars, NEW k \in Key, cache[k] # Vacant
    PROVE  cache'[k] = Vacant \/ cache'[k] >= cache[k]
<1> USE DEF IndInv, TypeOK
<1>1. cache[k] \in Nat
  OBVIOUS
<1>2. ASSUME NEW t \in Task, CachedNonce(t)
      PROVE  cache'[k] >= cache[k]
  BY <1>1, <1>2 DEF CachedNonce
<1>3. ASSUME NEW t \in Task, AccessKeyOk(t)
      PROVE  cache'[k] >= cache[k]
  <2>1. key[t] # k
    BY <1>3 DEF AccessKeyOk, Reserved
  <2>. QED
    BY <1>1, <1>3, <2>1 DEF AccessKeyOk
<1>4. ASSUME NEW t \in Task, RemoveEntry(t)
      PROVE  cache'[k] = Vacant \/ cache'[k] >= cache[k]
  BY <1>1, <1>4 DEF RemoveEntry
<1>5. ASSUME UNCHANGED cache
      PROVE  cache'[k] >= cache[k]
  BY <1>1, <1>5
<1>. QED
  BY <1>2, <1>3, <1>4, <1>5 DEF UnboundedNext, vars, Progress, FetchNonce, ReadHit,
     ReadMiss, WaitWrite, EntryOccupied, EntryVacant, ViewBlockOk, RpcErr,
     Invalidate, DropFuture, ChainMoves

\* A cached nonce is never overwritten with a smaller one, in any history.
THEOREM EntriesOnlyGrow == UnboundedSpec => NeverBackwards
<1>1. IndInv /\ [UnboundedNext]_vars =>
        [\A k \in Key : cache[k] # Vacant =>
            cache'[k] = Vacant \/ cache'[k] >= cache[k]]_vars
  BY GrowStep
<1>. QED
  BY <1>1, InvariantHolds, PTL DEF UnboundedSpec, NeverBackwards

\* At most one task queries an access key, and only for a missing entry.
THEOREM SingleQuery == UnboundedSpec => []OneAccessKeyQuery
<1>1. IndInv => OneAccessKeyQuery
  BY DEF IndInv, Guarded, Reserved, OneAccessKeyQuery
<1>. QED
  BY <1>1, InvariantHolds, PTL

-----------------------------------------------------------------------------
\* What the callers see of a task is its status and, once "ok", its nonce.
LEMMA SeenByCaller ==
    ASSUME TypeOK, NEW t \in Task, NEW s \in Stage, Move(t, s),
           \A u \in Task \ {t} : got'[u] = got[u]
    PROVE  /\ [u \in Task |-> CallStatus(pc'[u])] =
                [[u \in Task |-> CallStatus(pc[u])] EXCEPT ![t] = CallStatus(s)]
           /\ [u \in Task |-> IF pc'[u] = "ok" THEN got'[u] ELSE 0] =
                [[u \in Task |-> IF pc[u] = "ok" THEN got[u] ELSE 0]
                   EXCEPT ![t] = IF s = "ok" THEN got'[t] ELSE 0]
  BY DEF TypeOK, Move

\* Every step of the cache is a step of the dispenser, or none.
LEMMA DispenserStep ==
    IndInv /\ IndInv' /\ FreshStep /\ [UnboundedNext]_vars
    => [Dispenser!Next]_(Dispenser!vars)
<1> SUFFICES ASSUME IndInv, IndInv', FreshStep, [UnboundedNext]_vars
             PROVE  [Dispenser!Next]_(Dispenser!vars)
  OBVIOUS
<1> USE DEF IndInv, Stage, Returned, Waiting, Calling
<1> DEFINE call == [u \in Task |-> CallStatus(pc[u])]
           answer == [u \in Task |-> IF pc[u] = "ok" THEN got[u] ELSE 0]
<1>0. ASSUME NEW t \in Task, NEW s \in Stage, Move(t, s),
             \A u \in Task \ {t} : got'[u] = got[u]
      PROVE  /\ call' = [call EXCEPT ![t] = CallStatus(s)]
             /\ answer' = [answer EXCEPT ![t] = IF s = "ok" THEN got'[t] ELSE 0]
  BY <1>0, SeenByCaller
<1> HIDE DEF call, answer
<1>1. ASSUME NEW t \in Task, NEW k \in Key, FetchNonce(t, k)
      PROVE  Dispenser!Ask(t, k)
  <2>1. Move(t, "read") /\ \A u \in Task \ {t} : got'[u] = got[u]
    BY <1>1 DEF FetchNonce, TypeOK
  <2>2. /\ call' = [call EXCEPT ![t] = CallStatus("read")]
        /\ answer' = [answer EXCEPT ![t] = 0]
    <3>1. "read" \in Stage /\ "read" # "ok"
      OBVIOUS
    <3>. QED
      BY <1>0, <2>1, <3>1
  <2>3. CallStatus("read") = "pending" /\ call[t] # "pending"
    BY <1>1 DEF FetchNonce, CallStatus, TypeOK, call
  <2>4. key' = [key EXCEPT ![t] = k] /\ UNCHANGED given
    BY <1>1 DEF FetchNonce
  <2>. QED
    BY <2>2, <2>3, <2>4 DEF Dispenser!Ask, Dispenser!Restart, call, answer
<1>2. ASSUME NEW t \in Task, NEW k \in Key, Invalidate(t, k)
      PROVE  Dispenser!Leave(t, k)
  <2>1. \A u \in Task \ {t} : got'[u] = got[u]
    BY <1>2 DEF Invalidate, TypeOK
  <2>. QED
    BY <1>2, <2>1, SeenByCaller DEF Invalidate, CallStatus, TypeOK,
       Dispenser!Leave, Dispenser!Restart
<1>3. ASSUME NEW t \in Task, NEW s \in {"view_block", "access_key", "missed", "write"},
             Move(t, s), pc[t] \in {"read", "missed", "write"},
             \A u \in Task \ {t} : got'[u] = got[u], UNCHANGED <<key, given>>
      PROVE  UNCHANGED Dispenser!vars
  <2>1. /\ call' = [call EXCEPT ![t] = CallStatus(s)]
        /\ answer' = [answer EXCEPT ![t] = 0]
    BY <1>0, <1>3
  <2>2. CallStatus(s) = call[t] /\ answer[t] = 0
    BY <1>3 DEF CallStatus, call, answer
  <2>3. call' = call /\ answer' = answer
    <3>1. [call EXCEPT ![t] = call[t]] = call /\ [answer EXCEPT ![t] = answer[t]] = answer
      BY DEF call, answer
    <3>. QED
      BY <2>1, <2>2, <3>1
  <2>. QED
    BY <1>3, <2>3 DEF Dispenser!vars, call, answer
<1>4. ASSUME NEW t \in Task,
             \/ ReadHit(t) \/ ReadMiss(t) \/ WaitWrite(t)
             \/ EntryOccupied(t) \/ EntryVacant(t)
      PROVE  UNCHANGED Dispenser!vars
  <2>1. /\ \A u \in Task \ {t} : got'[u] = got[u]
        /\ UNCHANGED <<key, given>>
    BY <1>4 DEF ReadHit, ReadMiss, WaitWrite, EntryOccupied, EntryVacant,
       CachedNonce, TypeOK
  <2>2. /\ pc[t] \in {"read", "missed", "write"}
        /\ \E s \in {"view_block", "access_key", "missed", "write"} : Move(t, s)
    BY <1>4 DEF ReadHit, ReadMiss, WaitWrite, EntryOccupied, EntryVacant,
       CachedNonce
  <2>. QED
    BY <1>3, <2>1, <2>2
<1>5. ASSUME NEW t \in Task, ViewBlockOk(t) \/ AccessKeyOk(t)
      PROVE  Dispenser!Give(t)
  <2>1. /\ pc[t] \in Calling /\ Move(t, "ok") /\ UNCHANGED key
        /\ \A u \in Task \ {t} : got'[u] = got[u]
        /\ given' = [given EXCEPT ![key[t]] = @ \union {got'[t]}]
    BY <1>5 DEF ViewBlockOk, AccessKeyOk, TypeOK
  <2>2. got'[t] \in Nat \ given[key[t]]
    BY <2>1 DEF FreshStep, Returns, Move, TypeOK
  <2>3. /\ call' = [call EXCEPT ![t] = CallStatus("ok")]
        /\ answer' = [answer EXCEPT ![t] = got'[t]]
    BY <1>0, <2>1
  <2>4. CallStatus("ok") = "ok" /\ call[t] = "pending"
    BY <2>1 DEF CallStatus, call
  <2>5. answer'[t] = got'[t]
    BY <2>3 DEF answer
  <2>. QED
    BY <2>1, <2>2, <2>3, <2>4, <2>5 DEF Dispenser!Give, call, answer
<1>6. ASSUME NEW t \in Task, RpcErr(t)
      PROVE  Dispenser!Refuse(t)
  <2>1. \A u \in Task \ {t} : got'[u] = got[u]
    BY <1>6 DEF RpcErr, TypeOK
  <2>. QED
    BY <1>6, <2>1, SeenByCaller DEF RpcErr, CallStatus, TypeOK,
       Dispenser!Refuse, Dispenser!Restart
<1>7. ASSUME NEW t \in Task, RemoveEntry(t)
      PROVE  Dispenser!Forget(key[t])
  <2>1. /\ Move(t, "idle") /\ pc[t] = "remove" /\ UNCHANGED <<key, got>>
        /\ given' = [given EXCEPT ![key[t]] = {}]
    BY <1>7 DEF RemoveEntry
  <2>2. /\ call' = [call EXCEPT ![t] = CallStatus("idle")]
        /\ answer' = [answer EXCEPT ![t] = 0]
    BY <1>0, <2>1
  <2>3. CallStatus("idle") = call[t] /\ answer[t] = 0
    BY <2>1 DEF CallStatus, call, answer
  <2>4. call' = call /\ answer' = answer
    <3>1. [call EXCEPT ![t] = call[t]] = call /\ [answer EXCEPT ![t] = answer[t]] = answer
      BY DEF call, answer
    <3>. QED
      BY <2>2, <2>3, <3>1
  <2>. QED
    BY <2>1, <2>4 DEF Dispenser!Forget, call, answer
<1>8. ASSUME NEW t \in Droppable, DropFuture(t)
      PROVE  Dispenser!Leave(t, key[t])
  <2>1. t \in Task /\ \A u \in Task \ {t} : got'[u] = got[u]
    BY <1>8, DroppableAssumption DEF DropFuture, TypeOK
  <2>. QED
    BY <1>8, <2>1, SeenByCaller DEF DropFuture, CallStatus, TypeOK,
       Dispenser!Leave, Dispenser!Restart
<1>9. ASSUME NEW k \in Key, ChainMoves(k)
      PROVE  UNCHANGED Dispenser!vars
  BY <1>9 DEF ChainMoves, Dispenser!vars
<1>10. CASE UNCHANGED vars
  BY <1>10 DEF vars, Dispenser!vars
<1>11. \A t \in Task : key[t] \in Key
  BY DEF TypeOK
<1>. QED
  BY <1>1, <1>2, <1>4, <1>5, <1>6, <1>7, <1>8, <1>9, <1>10, <1>11,
     DroppableAssumption DEF UnboundedNext, Progress, Dispenser!Next

\* The cache, its lock and its two RPCs implement the atomic dispenser.
THEOREM CacheImplementsDispenser == UnboundedSpec => ImplementsDispenser
<1>1. Init => Dispenser!Init
  BY DEF Init, Dispenser!Init, CallStatus
<1>2. IndInv /\ [UnboundedNext]_vars => [FreshStep]_vars
  BY FreshReturn
<1>3. IndInv /\ IndInv' /\ [UnboundedNext]_vars => [Dispenser!Next]_(Dispenser!vars)
  <2>1. CASE UNCHANGED vars
    BY <2>1 DEF vars, Dispenser!vars
  <2>2. CASE FreshStep
    BY <2>2, DispenserStep
  <2>. QED
    BY <1>2, <2>1, <2>2
<1>. QED
  BY <1>1, <1>3, InvariantHolds, PTL DEF UnboundedSpec, ImplementsDispenser, Dispenser!Spec
===============================================================================
