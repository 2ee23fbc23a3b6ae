--------------------------- MODULE SendTxRefinement ---------------------------
(***************************************************************************)
(* SendTx implements TxDelivery, for any tasks, keys, signers, faults,     *)
(* retries and kinds of calls: the invariant that numbers the transactions *)
(* of a call by its attempts, what the reply of an attempt says is left of *)
(* it, and one abstract step, or none, for each step of the client, the    *)
(* network and the chain.                                                  *)
(***************************************************************************)
EXTENDS SendTxProofs

\* An attempt is being made, and its transaction is not answered for yet.
Open == {"start", "cache_key", "nonce", "sent"}

Limit(t) == IF mode[t] = "async" THEN 1 ELSE Retries + 1

\* A call keeps to its retries, and ends on a reply.
Counted(t) ==
    /\ at[t] \in Open => Len(replies[t]) < Limit(t)
    /\ at[t] \notin Open => replies[t] # <<>>
    /\ at[t] = "check" =>
          Len(replies[t]) <= Limit(t) /\ Last(replies[t]) # "dropped"

\* An outcome is that of the last attempt's transaction, which was executed.
OutcomeShown(t) ==
    at[t] = "check" /\ Last(replies[t]) \in Outcomes =>
        \E x \in executed : x.task = t /\ x.try = Len(replies[t])

\* The attempts for which a transaction may have been sent.
Attempts(t) ==
    IF at[t] = "sent" THEN Len(replies[t]) + 1 ELSE Len(replies[t])

\* A call's transactions are numbered by the attempts that sent them.
TriesNumbered ==
    /\ \A t \in Task : at[t] = "sent" =>
          tx[t].task = t /\ tx[t].try = Attempts(t)
    /\ \A x \in network \union executed : x.try <= Attempts(x.task)
    /\ \A x, y \in network \union executed :
          x.task = y.task /\ x.try = y.try => x = y

AttemptsCounted == \A t \in Task : Counted(t) /\ OutcomeShown(t)

TryInv == AttemptsCounted /\ TriesNumbered

-----------------------------------------------------------------------------
\* A reply is the last one once it is appended.
LEMMA LastReply ==
    ASSUME SendTypeOK, NEW t \in Task, NEW reply \in Reply,
           replies' = [replies EXCEPT ![t] = Append(@, reply)]
    PROVE  /\ Len(replies'[t]) = Len(replies[t]) + 1
           /\ Last(replies'[t]) = reply /\ replies'[t] # <<>>
           /\ \A u \in Task \ {t} : replies'[u] = replies[u]
<1>1. replies'[t] = Append(replies[t], reply) /\ replies[t] \in Seq(Reply)
  BY DEF SendTypeOK
<1>2. /\ Len(Append(replies[t], reply)) = Len(replies[t]) + 1
      /\ Append(replies[t], reply)[Len(replies[t]) + 1] = reply
  BY <1>1, AppendProperties
<1>3. Len(replies[t]) \in Nat
  BY <1>1, LenProperties
<1>4. replies'[t] # <<>>
  BY <1>1, <1>2, <1>3, EmptySeq
<1>. QED
  BY <1>1, <1>2, <1>3, <1>4 DEF SendTypeOK, Last

\* Nothing of a call changes with what other calls do.
LEMMA OthersKept ==
    ASSUME NEW u \in Task, UNCHANGED <<at[u], replies[u], mode[u]>>,
           executed \subseteq executed'
    PROVE  /\ Counted(u) => Counted(u)'
           /\ OutcomeShown(u) => OutcomeShown(u)'
           /\ Attempts(u)' = Attempts(u)
  BY DEF Counted, OutcomeShown, Attempts, Limit

\* Transactions stay numbered when none is new and no call takes one back.
LEMMA NumberedKept ==
    ASSUME SendTypeOK, TriesNumbered,
           network' \union executed' \subseteq network \union executed,
           \A u \in Task :
               /\ Attempts(u)' \in Nat /\ Attempts(u) \in Nat
               /\ Attempts(u) <= Attempts(u)'
               /\ at'[u] = "sent" =>
                    UNCHANGED <<at[u], tx[u]>> /\ Attempts(u)' = Attempts(u)
    PROVE  TriesNumbered'
<1>1. ASSUME NEW x \in network' \union executed'
      PROVE  x.try <= Attempts(x.task)'
  <2>1. x \in network \union executed /\ x \in Tx
    BY DEF SendTypeOK
  <2>2. x.task \in Task /\ x.try \in Nat
    BY <2>1 DEF Tx
  <2>3. x.try <= Attempts(x.task)
    BY <2>1 DEF TriesNumbered
  <2>. QED
    BY <2>2, <2>3
<1>2. \A u \in Task : at'[u] = "sent" =>
        tx'[u].task = u /\ tx'[u].try = Attempts(u)'
  BY DEF TriesNumbered
<1>3. \A x, y \in network' \union executed' :
        x.task = y.task /\ x.try = y.try => x = y
  BY DEF TriesNumbered
<1>. QED
  BY <1>1, <1>2, <1>3 DEF TriesNumbered

\* The end of an attempt keeps the numbering.
LEMMA EndedNumbers ==
    ASSUME SendTypeOK, TryInv, NEW t \in Task, at[t] \in {"nonce", "sent"},
           NEW reply \in Reply \ {"dropped"}, NEW errs, Ended(t, reply, errs),
           reply \in Outcomes => at[t] = "sent" /\ tx[t] \in executed,
           network' \subseteq network, executed' = executed, tx' = tx
    PROVE  TryInv'
<1>1. /\ Len(replies'[t]) = Len(replies[t]) + 1
      /\ Last(replies'[t]) = reply /\ replies'[t] # <<>>
      /\ \A u \in Task \ {t} : replies'[u] = replies[u]
  BY LastReply DEF Ended
<1>2. /\ at'[t] = "check" /\ mode' = mode
      /\ \A u \in Task \ {t} : at'[u] = at[u]
  BY DEF Ended, Goto, SendTypeOK
<1>3. \A u \in Task : Len(replies[u]) \in Nat
  BY LenProperties DEF SendTypeOK
<1>4. Counted(t)' /\ OutcomeShown(t)'
  <2>1. Len(replies[t]) < Limit(t) /\ Limit(t)' = Limit(t) /\ Limit(t) \in Nat
    BY <1>2, RetriesAssumption DEF TryInv, AttemptsCounted, Counted, Open, Limit
  <2>2. reply \in Outcomes => tx[t].task = t /\ tx[t].try = Len(replies[t]) + 1
    BY DEF TryInv, TriesNumbered, Attempts
  <2>. QED
    BY <1>1, <1>2, <1>3, <2>1, <2>2 DEF Counted, OutcomeShown, Open
<1>5. AttemptsCounted'
  BY <1>1, <1>2, <1>4, OthersKept DEF TryInv, AttemptsCounted
<1>6. /\ Attempts(t)' = Len(replies[t]) + 1
      /\ Attempts(t) \in {Len(replies[t]), Len(replies[t]) + 1}
  BY <1>1, <1>2 DEF Attempts
<1>7. \A u \in Task \ {t} : Attempts(u)' = Attempts(u) /\ Attempts(u) \in Nat
  BY <1>1, <1>2, <1>3 DEF Attempts
<1>8. TriesNumbered'
  <2>1. \A u \in Task :
          /\ Attempts(u)' \in Nat /\ Attempts(u) \in Nat
          /\ Attempts(u) <= Attempts(u)'
          /\ at'[u] = "sent" =>
               UNCHANGED <<at[u], tx[u]>> /\ Attempts(u)' = Attempts(u)
    BY <1>2, <1>3, <1>6, <1>7
  <2>. QED
    BY <2>1, NumberedKept DEF TryInv
<1>. QED
  BY <1>5, <1>8 DEF TryInv

\* A step that moves t without a reply and sends nothing keeps them, too.
LEMMA MovedNumbers ==
    ASSUME SendTypeOK, TryInv, NEW t \in Task, Goto(t, at'[t]),
           at[t] # "sent", at'[t] \notin {"sent", "check"},
           Counted(t)',
           network' \union executed' \subseteq network \union executed,
           UNCHANGED <<mode, replies, tx, executed>>
    PROVE  TryInv'
<1>1. \A u \in Task \ {t} : at'[u] = at[u]
  BY DEF Goto, SendTypeOK
<1>2. \A u \in Task : Attempts(u)' = Attempts(u) /\ Attempts(u) \in Nat
  BY <1>1, LenProperties DEF Attempts, SendTypeOK
<1>3. AttemptsCounted'
  BY <1>1, OthersKept DEF TryInv, AttemptsCounted, OutcomeShown
<1>4. TriesNumbered'
  BY <1>1, <1>2, NumberedKept DEF TryInv
<1>. QED
  BY <1>3, <1>4 DEF TryInv

\* A transaction that is sent gets the number of its attempt.
LEMMA SignNumbers ==
    ASSUME SendTypeOK, SendTypeOK', TryInv, NEW t \in Task, Sign(t)
    PROVE  TryInv'
<1>1. /\ at[t] = "nonce" /\ at'[t] = "sent" /\ UNCHANGED <<mode, replies>>
      /\ \A u \in Task \ {t} : at'[u] = at[u] /\ tx'[u] = tx[u]
      /\ tx'[t].task = t /\ tx'[t].try = Len(replies[t]) + 1
      /\ network' = network \union {tx'[t]} /\ executed' = executed
  BY DEF Sign, Goto, SendTypeOK
<1>2. \A u \in Task : Len(replies[u]) \in Nat
  BY LenProperties DEF SendTypeOK
<1>3. /\ Attempts(t) = Len(replies[t]) /\ Attempts(t)' = Len(replies[t]) + 1
      /\ \A u \in Task \ {t} : Attempts(u)' = Attempts(u)
  BY <1>1 DEF Attempts
<1>4. AttemptsCounted'
  <2>1. Counted(t)' /\ OutcomeShown(t)'
    BY <1>1 DEF TryInv, AttemptsCounted, Counted, OutcomeShown, Open, Limit
  <2>. QED
    BY <1>1, <2>1, OthersKept DEF TryInv, AttemptsCounted
\* The new number is above all those of t so far.
<1>5. ASSUME NEW x \in network \union executed
      PROVE  /\ x.try <= Attempts(x.task) /\ x.task \in Task /\ x.try \in Nat
             /\ x.task = t => x.try # tx'[t].try
  <2>1. x.task \in Task /\ x.try \in Nat
    BY DEF SendTypeOK, Tx
  <2>2. x.try <= Attempts(x.task)
    BY DEF TryInv, TriesNumbered
  <2>. QED
    BY <1>1, <1>2, <1>3, <2>1, <2>2
<1>6. \A u \in Task : at'[u] = "sent" =>
        tx'[u].task = u /\ tx'[u].try = Attempts(u)'
  BY <1>1, <1>3 DEF TryInv, TriesNumbered
<1>7. ASSUME NEW x \in network' \union executed'
      PROVE  x.try <= Attempts(x.task)'
  <2>1. CASE x = tx'[t]
    BY <1>1, <1>2, <1>3, <2>1
  <2>2. CASE x \in network \union executed
    BY <1>2, <1>3, <1>5, <2>2
  <2>. QED
    BY <1>1, <2>1, <2>2
<1>8. ASSUME NEW x \in network' \union executed',
             NEW y \in network' \union executed',
             x.task = y.task, x.try = y.try
      PROVE  x = y
  BY <1>1, <1>5, <1>8 DEF TryInv, TriesNumbered
<1>. QED
  BY <1>4, <1>6, <1>7, <1>8 DEF TryInv, TriesNumbered

\* Every step keeps the attempts counted and the transactions numbered.
LEMMA TryInvStep ==
    ASSUME SendTypeOK, SendTypeOK', TryInv, [SendNext]_sendVars
    PROVE  TryInv'
<1>1. ASSUME UNCHANGED <<at, mode, replies, tx>>,
             network' \union executed' \subseteq network \union executed,
             executed \subseteq executed'
      PROVE  TryInv'
  <2>1. \A u \in Task : Attempts(u)' = Attempts(u) /\ Attempts(u) \in Nat
    BY <1>1, LenProperties DEF Attempts, SendTypeOK
  <2>2. TriesNumbered'
    BY <1>1, <2>1, NumberedKept DEF TryInv
  <2>. QED
    BY <1>1, <2>2, OthersKept DEF TryInv, AttemptsCounted
<1>2. ASSUME NEW t \in Task, CacheKey(t) \/ SignTx(t)
      PROVE  TryInv'
  <2>1. /\ Goto(t, at'[t]) /\ at[t] \in Open \ {"sent"}
        /\ at'[t] \in {"cache_key", "nonce"}
        /\ UNCHANGED <<mode, replies, tx, network, executed>>
    BY <1>2 DEF CacheKey, SignTx, Goto, SendTypeOK, netVars, Open
  <2>2. Counted(t)'
    BY <2>1 DEF TryInv, AttemptsCounted, Counted, Open, Limit
  <2>. QED
    BY <2>1, <2>2, MovedNumbers
<1>3. ASSUME NEW t \in Task, CacheStep(t) \/ CheckAndInvalidateCache(t)
      PROVE  TryInv'
  BY <1>3, <1>1 DEF CacheStep, CheckAndInvalidateCache, callVars, netVars
<1>4. ASSUME NEW t \in Task, NonceErr(t) \/ Outcome(t) \/ Accepted(t)
      PROVE  TryInv'
  <2>1. CASE Outcome(t)
    <3>1. PICK reply \in Outcomes, errs \in {0, 1, 2} : Ended(t, reply, errs)
      BY <2>1 DEF Outcome, Outcomes
    <3>2. reply \in Reply \ {"dropped"}
      BY DEF Reply, Outcomes
    <3>. QED
      BY <2>1, <3>1, <3>2, EndedNumbers DEF Outcome, netVars
  <2>2. CASE NonceErr(t) \/ Accepted(t)
    BY <2>2, EndedNumbers DEF NonceErr, Accepted, netVars, Reply, Outcomes
  <2>. QED
    BY <1>4, <2>1, <2>2
<1>5. ASSUME NEW t \in Task, TimeoutError(t) \/ TransportError(t)
      PROVE  TryInv'
  BY <1>5, EndedNumbers DEF TimeoutError, TransportError, HandlerErr, netVars,
     Reply, Outcomes
<1>6. ASSUME NEW t \in Task, Sign(t)
      PROVE  TryInv'
  BY <1>6, SignNumbers
<1>7. ASSUME NEW t \in Task, Conclude(t)
      PROVE  TryInv'
  <2>1. /\ Goto(t, at'[t]) /\ at[t] = "check"
        /\ at'[t] \in {"done", "start"}
        /\ at'[t] = "start" => mode[t] # "async" /\ ~(Len(replies[t]) > Retries)
        /\ UNCHANGED <<mode, replies, tx, network, executed>>
    BY <1>7 DEF Conclude, Goto, SendTypeOK, netVars
  <2>2. Counted(t)'
    <3>1. Len(replies[t]) \in Nat
      BY LenProperties DEF SendTypeOK
    <3>. QED
      BY <2>1, <3>1, RetriesAssumption
         DEF TryInv, AttemptsCounted, Counted, Open, Limit
  <2>. QED
    BY <2>1, <2>2, MovedNumbers
<1>8. ASSUME NEW x \in network, Execute(x)
      PROVE  TryInv'
  BY <1>8, <1>1 DEF Execute, callVars
<1>9. ASSUME NEW x \in network, Refuse(x)
      PROVE  TryInv'
  <2>1. x.task \in Task /\ network' \subseteq network /\ UNCHANGED <<tx, executed>>
    BY <1>9 DEF Refuse, SendTypeOK, Tx
  <2>2. CASE UNCHANGED <<at, mode, ckey, replies, removals>>
    BY <1>1, <2>1, <2>2
  <2>3. ASSUME NEW reason \in {"invalid_tx", "invalid_nonce"},
               at[x.task] = "sent", Told(x.task, reason)
        PROVE  TryInv'
    <3>1. PICK reply \in {reason} \union Rejections, errs \in {0, 1, 2} :
             Ended(x.task, reply, errs)
      BY <2>1, <2>3, ToldEnds
    <3>2. reply \in Reply \ {"dropped"} /\ reply \notin Outcomes
      BY <2>3 DEF Reply, Rejections, Outcomes
    <3>. QED
      BY <2>1, <2>3, <3>1, <3>2, EndedNumbers
  <2>. QED
    BY <1>9, <2>2, <2>3 DEF Refuse, Reasons
<1>10. ASSUME NEW k \in Key, Bump(k)
       PROVE  TryInv'
  BY <1>10, <1>1 DEF Bump, callVars
<1>11. ASSUME NEW t \in Droppable, DropCall(t)
       PROVE  TryInv'
  <2>1. /\ t \in Task /\ at'[t] = "done" /\ UNCHANGED <<mode, tx, network, executed>>
        /\ \A u \in Task \ {t} : at'[u] = at[u]
    BY <1>11, DroppableAssumption DEF DropCall, Goto, SendTypeOK, netVars
  <2>2. /\ Len(replies'[t]) = Len(replies[t]) + 1 /\ replies'[t] # <<>>
        /\ \A u \in Task \ {t} : replies'[u] = replies[u]
    BY <1>11, <2>1, LastReply DEF DropCall, Reply
  <2>3. \A u \in Task : Len(replies[u]) \in Nat
    BY LenProperties DEF SendTypeOK
  <2>4. \A u \in Task :
          /\ Attempts(u)' \in Nat /\ Attempts(u) \in Nat
          /\ Attempts(u) <= Attempts(u)'
          /\ at'[u] = "sent" =>
               UNCHANGED <<at[u], tx[u]>> /\ Attempts(u)' = Attempts(u)
    BY <2>1, <2>2, <2>3 DEF Attempts
  <2>5. TriesNumbered'
    BY <2>1, <2>4, NumberedKept DEF TryInv
  <2>6. Counted(t)' /\ OutcomeShown(t)'
    BY <2>1, <2>2 DEF Counted, OutcomeShown, Open
  <2>. QED
    BY <2>1, <2>2, <2>5, <2>6, OthersKept DEF TryInv, AttemptsCounted
<1>12. CASE UNCHANGED sendVars
  BY <1>12, <1>1 DEF sendVars, callVars, netVars
<1>. QED
  BY <1>2, <1>3, <1>4, <1>5, <1>6, <1>7, <1>8, <1>9, <1>10, <1>11, <1>12
     DEF SendNext, Attempt, Answer, Serve, Finished

\* Attempts are counted and transactions numbered in every reachable state.
THEOREM TriesHold == SendSpec => []TryInv
<1>1. SendInit /\ SendTypeOK => TryInv
  <2> SUFFICES ASSUME SendInit, SendTypeOK PROVE TryInv
    OBVIOUS
  <2>1. \A t \in Task : /\ at[t] = "start" /\ replies[t] = <<>>
                         /\ Len(replies[t]) = 0
    BY LenProperties, EmptySeq DEF SendInit
  <2>2. network = {} /\ executed = {}
    BY DEF SendInit
  <2>3. AttemptsCounted
    BY <2>1, RetriesAssumption
       DEF AttemptsCounted, Counted, OutcomeShown, Open, Limit
  <2>. QED
    BY <2>1, <2>2, <2>3 DEF TryInv, TriesNumbered
<1>2. SendTypeOK /\ SendTypeOK' /\ TryInv /\ [SendNext]_sendVars => TryInv'
  BY TryInvStep
<1>. QED
  BY <1>1, <1>2, SendTypeCorrect, PTL DEF SendSpec

-----------------------------------------------------------------------------
(* What is left of an attempt that ended.  Its reply tells whether its      *)
(* transaction can still be executed, and whether another attempt follows.  *)

\* Replies after which a call makes no further attempt, and those after
\* which the attempt has no transaction that could be executed.
Final == Outcomes \union Rejections \union {"dropped"}
Void == Rejections \union {"invalid_nonce", "invalid_tx", "rpc"}

\* A call that goes on has no final reply yet, or is about to end with it.
FinalIsLast(t) ==
    at[t] # "done" =>
        \A i \in DOMAIN replies[t] : replies[t][i] \in Final =>
            /\ at[t] = "check" /\ i = Len(replies[t])
            /\ replies[t][i] \in Rejections => mode[t] # "async"

\* No transaction was sent after a final reply, and none is left for a
\* reply that says so.
NoneAfterFinal ==
    \A x \in network \union executed : \A i \in DOMAIN replies[x.task] :
        i < x.try => replies[x.task][i] \notin Final
NoneLeft ==
    \A x \in network \union executed :
        x.try \in DOMAIN replies[x.task] => replies[x.task][x.try] \notin Void

\* A transaction that was executed is not on its way any more.
ExecutedOnce ==
    /\ network \intersect executed = {}
    /\ \A x \in network \union executed : x.try > 0

DoubtInv ==
    /\ \A t \in Task : FinalIsLast(t)
    /\ NoneAfterFinal /\ NoneLeft /\ ExecutedOnce

\* A reply that is appended leaves the earlier ones as they are.
LEMMA EarlierReplies ==
    ASSUME SendTypeOK, NEW t \in Task, NEW reply \in Reply,
           replies' = [replies EXCEPT ![t] = Append(@, reply)]
    PROVE  /\ DOMAIN replies[t] = 1 .. Len(replies[t])
           /\ DOMAIN replies'[t] = 1 .. Len(replies[t]) + 1
           /\ \A i \in 1 .. Len(replies[t]) : replies'[t][i] = replies[t][i]
           /\ replies'[t][Len(replies[t]) + 1] = reply
           /\ Len(replies[t]) \in Nat /\ Len(replies'[t]) = Len(replies[t]) + 1
<1>1. replies'[t] = Append(replies[t], reply) /\ replies[t] \in Seq(Reply)
  BY DEF SendTypeOK
<1>2. /\ Append(replies[t], reply) \in Seq(Reply)
      /\ Len(Append(replies[t], reply)) = Len(replies[t]) + 1
      /\ \A i \in 1 .. Len(replies[t]) :
            Append(replies[t], reply)[i] = replies[t][i]
      /\ Append(replies[t], reply)[Len(replies[t]) + 1] = reply
  BY <1>1, AppendProperties
<1>. QED
  BY <1>1, <1>2, LenProperties

\* A transaction has the number of an attempt made, or being made.
LEMMA TryBound ==
    ASSUME SendTypeOK, TryInv, NEW x \in network \union executed
    PROVE  /\ x.task \in Task /\ x.try \in Nat
           /\ x.try <= Len(replies[x.task]) + 1
           /\ at[x.task] # "sent" => x.try <= Len(replies[x.task])
<1>1. x.task \in Task /\ x.try \in Nat
  BY DEF SendTypeOK, Tx
<1>2. x.try <= Attempts(x.task)
  BY DEF TryInv, TriesNumbered
<1>3. Len(replies[x.task]) \in Nat
  BY <1>1, LenProperties DEF SendTypeOK
<1>. QED
  BY <1>1, <1>2, <1>3 DEF Attempts

\* A step that sends nothing and appends no reply.
LEMMA DoubtKept ==
    ASSUME DoubtInv, \A u \in Task : FinalIsLast(u)',
           network' \union executed' \subseteq network \union executed,
           network' \intersect executed' = {}, UNCHANGED replies
    PROVE  DoubtInv'
  BY DEF DoubtInv, NoneAfterFinal, NoneLeft, ExecutedOnce

\* The end of an attempt, and of a call that is dropped.
LEMMA DoubtEnded ==
    ASSUME SendTypeOK, TryInv, DoubtInv, NEW t \in Task, NEW reply \in Reply,
           replies' = [replies EXCEPT ![t] = Append(@, reply)],
           \A u \in Task \ {t} : at'[u] = at[u],
           \/ at'[t] = "done"
           \/ at'[t] = "check" /\ at[t] \in Open,
           reply \in Rejections => mode[t] # "async",
           reply \in Void => \A x \in network' \union executed :
                                x.task = t => x.try # Len(replies[t]) + 1,
           network' \subseteq network, UNCHANGED <<mode, executed>>
    PROVE  DoubtInv'
<1>1. /\ DOMAIN replies[t] = 1 .. Len(replies[t])
      /\ DOMAIN replies'[t] = 1 .. Len(replies[t]) + 1
      /\ \A i \in 1 .. Len(replies[t]) : replies'[t][i] = replies[t][i]
      /\ replies'[t][Len(replies[t]) + 1] = reply
      /\ Len(replies[t]) \in Nat /\ Len(replies'[t]) = Len(replies[t]) + 1
  BY EarlierReplies
<1>2. \A u \in Task \ {t} : replies'[u] = replies[u]
  BY DEF SendTypeOK
<1>3. ASSUME NEW u \in Task
      PROVE  FinalIsLast(u)'
  <2>1. CASE u # t
    BY <1>2, <2>1 DEF DoubtInv, FinalIsLast
  <2>2. CASE u = t /\ at'[t] = "check" /\ at[t] \in Open
    <3>1. \A i \in 1 .. Len(replies[t]) : replies'[t][i] \notin Final
      BY <1>1, <2>2 DEF DoubtInv, FinalIsLast, Open
    <3>. QED
      BY <1>1, <2>2, <3>1 DEF FinalIsLast
  <2>3. CASE u = t /\ at'[t] = "done"
    BY <2>3 DEF FinalIsLast
  <2>. QED
    BY <2>1, <2>2, <2>3
<1>4. ASSUME NEW x \in network' \union executed'
      PROVE  /\ \A i \in DOMAIN replies'[x.task] :
                   i < x.try => replies'[x.task][i] \notin Final
             /\ x.try \in DOMAIN replies'[x.task] =>
                   replies'[x.task][x.try] \notin Void
  <2>1. x \in network \union executed
    OBVIOUS
  <2>2. x.task \in Task /\ x.try \in Nat /\ x.try <= Len(replies[x.task]) + 1
    BY <2>1, TryBound
  <2>3. /\ \A i \in DOMAIN replies[x.task] :
              i < x.try => replies[x.task][i] \notin Final
        /\ x.try \in DOMAIN replies[x.task] =>
              replies[x.task][x.try] \notin Void
    BY <2>1 DEF DoubtInv, NoneAfterFinal, NoneLeft
  <2>4. CASE x.task # t
    BY <1>2, <2>2, <2>3, <2>4
  <2>5. CASE x.task = t
    <3>1. ASSUME NEW i \in 1 .. Len(replies[t]) + 1, i < x.try
          PROVE  i \in 1 .. Len(replies[t])
      BY <1>1, <2>2, <2>5, <3>1
    <3>2. reply \in Void => x.try # Len(replies[t]) + 1
      BY <2>5
    <3>3. ASSUME x.try \in 1 .. Len(replies[t]) + 1
          PROVE  replies'[t][x.try] \notin Void
      <4>1. CASE x.try = Len(replies[t]) + 1
        BY <1>1, <3>2, <4>1
      <4>2. CASE x.try \in 1 .. Len(replies[t])
        BY <1>1, <2>3, <2>5, <4>2
      <4>. QED
        BY <1>1, <3>3, <4>1, <4>2
    <3>. QED
      BY <1>1, <2>3, <2>5, <3>1, <3>3
  <2>. QED
    BY <2>4, <2>5
<1>5. ExecutedOnce'
  BY DEF DoubtInv, ExecutedOnce
<1>. QED
  BY <1>3, <1>4, <1>5 DEF DoubtInv, NoneAfterFinal, NoneLeft

\* A transaction is signed by a call that has no final reply.
LEMMA DoubtSigned ==
    ASSUME SendTypeOK, TryInv, DoubtInv, NEW t \in Task, Sign(t)
    PROVE  DoubtInv'
<1>1. /\ at[t] = "nonce" /\ at'[t] = "sent" /\ UNCHANGED <<mode, replies>>
      /\ \A u \in Task \ {t} : at'[u] = at[u]
      /\ tx'[t].task = t /\ tx'[t].try = Len(replies[t]) + 1
      /\ network' = network \union {tx'[t]} /\ executed' = executed
  BY DEF Sign, Goto, SendTypeOK
<1>2. Len(replies[t]) \in Nat /\ DOMAIN replies[t] = 1 .. Len(replies[t])
  BY LenProperties DEF SendTypeOK
<1>3. \A i \in DOMAIN replies[t] : replies[t][i] \notin Final
  BY <1>1 DEF DoubtInv, FinalIsLast
<1>4. \A u \in Task : FinalIsLast(u)'
  BY <1>1, <1>3 DEF DoubtInv, FinalIsLast
<1>5. tx'[t] \notin executed
  <2>1. ASSUME NEW x \in executed, x = tx'[t]
        PROVE  FALSE
    BY <1>1, <1>2, <2>1, TryBound
  <2>. QED
    BY <2>1
<1>6. ASSUME NEW x \in network' \union executed'
      PROVE  /\ \A i \in DOMAIN replies[x.task] :
                   i < x.try => replies[x.task][i] \notin Final
             /\ x.try \in DOMAIN replies[x.task] =>
                   replies[x.task][x.try] \notin Void
             /\ x.try > 0
  <2>1. CASE x = tx'[t]
    BY <1>1, <1>2, <1>3, <2>1
  <2>2. CASE x \in network \union executed
    BY <2>2 DEF DoubtInv, NoneAfterFinal, NoneLeft, ExecutedOnce
  <2>. QED
    BY <1>1, <2>1, <2>2
<1>. QED
  BY <1>1, <1>4, <1>5, <1>6 DEF DoubtInv, NoneAfterFinal, NoneLeft, ExecutedOnce

\* Every step keeps what the replies say of the attempts.
LEMMA DoubtInvStep ==
    ASSUME SendTypeOK, TryInv, DoubtInv, [SendNext]_sendVars
    PROVE  DoubtInv'
\* A step of the network or of the cache.
<1>1. ASSUME UNCHANGED <<at, mode, replies>>,
             network' \union executed' \subseteq network \union executed,
             network' \intersect executed' = {}
      PROVE  DoubtInv'
  BY <1>1, DoubtKept DEF DoubtInv, FinalIsLast
\* The end of an attempt whose transaction may be left.
<1>2. ASSUME NEW t \in Task, at[t] \in {"nonce", "sent"},
             NEW reply \in Reply \ Rejections, NEW errs, Ended(t, reply, errs),
             reply \in Void => at[t] = "nonce",
             network' \subseteq network, executed' = executed
      PROVE  DoubtInv'
  <2>1. reply \in Void => \A x \in network' \union executed :
           x.task = t => x.try # Len(replies[t]) + 1
    <3>1. Len(replies[t]) \in Nat
      BY LenProperties DEF SendTypeOK
    <3>. QED
      BY <1>2, <3>1, TryBound
  <2>2. /\ at'[t] = "check" /\ at[t] \in Open /\ UNCHANGED <<mode, executed>>
        /\ \A u \in Task \ {t} : at'[u] = at[u]
        /\ replies' = [replies EXCEPT ![t] = Append(@, reply)]
    BY <1>2 DEF Ended, Goto, SendTypeOK, Open
  <2>. QED
    BY <1>2, <2>1, <2>2, DoubtEnded
<1>3. ASSUME NEW t \in Task, CacheKey(t) \/ SignTx(t)
      PROVE  DoubtInv'
  <2>1. /\ at[t] \in Open \ {"sent"} /\ at'[t] # "check"
        /\ \A u \in Task \ {t} : at'[u] = at[u]
        /\ UNCHANGED <<mode, replies, network, executed>>
    BY <1>3 DEF CacheKey, SignTx, Goto, SendTypeOK, netVars, Open
  <2>2. \A u \in Task : FinalIsLast(u)'
    BY <2>1 DEF DoubtInv, FinalIsLast, Open
  <2>. QED
    BY <2>1, <2>2, DoubtKept DEF DoubtInv, ExecutedOnce
<1>4. ASSUME NEW t \in Task, CacheStep(t) \/ CheckAndInvalidateCache(t)
      PROVE  DoubtInv'
  BY <1>4, <1>1 DEF CacheStep, CheckAndInvalidateCache, callVars, netVars,
     DoubtInv, ExecutedOnce
<1>5. ASSUME NEW t \in Task, NonceErr(t) \/ Accepted(t) \/ TimeoutError(t)
      PROVE  DoubtInv'
  BY <1>5, <1>2 DEF NonceErr, Accepted, TimeoutError, HandlerErr, netVars,
     Reply, Void, Rejections
<1>6. ASSUME NEW t \in Task, TransportError(t)
      PROVE  DoubtInv'
  BY <1>6, <1>2 DEF TransportError, Reply, Void, Rejections
<1>7. ASSUME NEW t \in Task, Outcome(t)
      PROVE  DoubtInv'
  <2>1. PICK reply \in Outcomes, errs \in {0, 1, 2} : Ended(t, reply, errs)
    BY <1>7 DEF Outcome, Outcomes
  <2>2. reply \in Reply \ Rejections /\ reply \notin Void
    BY DEF Reply, Outcomes, Rejections, Void
  <2>. QED
    BY <1>7, <1>2, <2>1, <2>2 DEF Outcome, netVars
<1>8. ASSUME NEW t \in Task, Sign(t)
      PROVE  DoubtInv'
  BY <1>8, DoubtSigned
<1>9. ASSUME NEW t \in Task, Conclude(t)
      PROVE  DoubtInv'
  <2>1. /\ at[t] = "check" /\ at'[t] \in {"done", "start"}
        /\ at'[t] = "start" => mode[t] # "async" /\ ~Succeeded(t)
        /\ \A u \in Task \ {t} : at'[u] = at[u]
        /\ UNCHANGED <<mode, replies, network, executed>>
    BY <1>9 DEF Conclude, Goto, SendTypeOK, netVars
  <2>2. Last(replies[t]) # "dropped"
    BY <2>1 DEF TryInv, AttemptsCounted, Counted
  <2>3. at'[t] = "start" => replies[t][Len(replies[t])] \notin Final
    BY <2>1, <2>2 DEF Succeeded, Final, Last
  <2>4. \A u \in Task : FinalIsLast(u)'
    BY <2>1, <2>3 DEF DoubtInv, FinalIsLast
  <2>. QED
    BY <2>1, <2>4, DoubtKept DEF DoubtInv, ExecutedOnce
<1>10. ASSUME NEW x \in network, Execute(x)
       PROVE  DoubtInv'
  BY <1>10, <1>1 DEF Execute, callVars, DoubtInv, ExecutedOnce
<1>11. ASSUME NEW x \in network, Refuse(x)
       PROVE  DoubtInv'
  <2>1. /\ x.task \in Task /\ network' = network \ {x}
        /\ UNCHANGED <<tx, executed>>
    BY <1>11 DEF Refuse, SendTypeOK, Tx
  <2>2. CASE UNCHANGED <<at, mode, ckey, replies, removals>>
    BY <1>1, <2>1, <2>2 DEF DoubtInv, ExecutedOnce
  <2>3. ASSUME NEW reason \in {"invalid_tx", "invalid_nonce"},
               at[x.task] = "sent", tx[x.task] = x, Told(x.task, reason)
        PROVE  DoubtInv'
    <3>1. PICK reply \in {reason} \union Rejections, errs \in {0, 1, 2} :
             /\ Ended(x.task, reply, errs)
             /\ reply \in Rejections => mode[x.task] # "async"
      BY <2>1, <2>3, ToldEnds
    <3>2. reply \in Reply
      BY <2>3 DEF Reply, Rejections
    <3>3. x.try = Len(replies[x.task]) + 1
      BY <2>1, <2>3 DEF TryInv, TriesNumbered, Attempts
    <3>4. \A y \in network' \union executed :
             y.task = x.task => y.try # Len(replies[x.task]) + 1
      BY <2>1, <3>3 DEF TryInv, TriesNumbered, DoubtInv, ExecutedOnce
    <3>5. /\ at'[x.task] = "check" /\ at[x.task] \in Open /\ mode' = mode
          /\ \A u \in Task \ {x.task} : at'[u] = at[u]
          /\ replies' = [replies EXCEPT ![x.task] = Append(@, reply)]
      BY <2>1, <2>3, <3>1 DEF Ended, Goto, SendTypeOK, Open
    <3>. QED
      BY <2>1, <3>1, <3>2, <3>4, <3>5, DoubtEnded
  <2>. QED
    BY <1>11, <2>2, <2>3 DEF Refuse, Reasons
<1>12. ASSUME NEW k \in Key, Bump(k)
       PROVE  DoubtInv'
  BY <1>12, <1>1 DEF Bump, callVars, DoubtInv, ExecutedOnce
<1>13. ASSUME NEW t \in Droppable, DropCall(t)
       PROVE  DoubtInv'
  <2>1. /\ t \in Task /\ at'[t] = "done" /\ UNCHANGED <<mode, network, executed>>
        /\ \A u \in Task \ {t} : at'[u] = at[u]
        /\ replies' = [replies EXCEPT ![t] = Append(@, "dropped")]
    BY <1>13, DroppableAssumption DEF DropCall, Goto, SendTypeOK, netVars
  <2>2. "dropped" \in Reply /\ "dropped" \notin Rejections \union Void
    BY DEF Reply, Rejections, Void
  <2>. QED
    BY <2>1, <2>2, DoubtEnded
<1>14. CASE UNCHANGED sendVars
  BY <1>14, <1>1 DEF sendVars, callVars, netVars, DoubtInv, ExecutedOnce
<1>. QED
  BY <1>3, <1>4, <1>5, <1>6, <1>7, <1>8, <1>9, <1>10, <1>11, <1>12, <1>13,
     <1>14 DEF SendNext, Attempt, Answer, Serve, Finished

\* The replies say what is left of the attempts in every reachable state.
LEMMA DoubtHolds == SendSpec => []DoubtInv
<1>1. SendInit /\ SendTypeOK => DoubtInv
  <2> SUFFICES ASSUME SendInit, SendTypeOK PROVE DoubtInv
    OBVIOUS
  <2>1. \A t \in Task : DOMAIN replies[t] = {}
    BY DEF SendInit
  <2>2. network = {} /\ executed = {}
    BY DEF SendInit
  <2>. QED
    BY <2>1, <2>2
       DEF DoubtInv, FinalIsLast, NoneAfterFinal, NoneLeft, ExecutedOnce
<1>2. SendTypeOK /\ TryInv /\ DoubtInv /\ [SendNext]_sendVars => DoubtInv'
  BY DoubtInvStep
<1>. QED
  BY <1>1, <1>2, SendTypeCorrect, TriesHold, PTL DEF SendSpec

\* What was sent twice is executed twice only if the first attempt timed out,
\* lost its answer or was answered without an outcome: whatever the faults,
\* the other calls and the number of retries.
THEOREM OnlyDoubtSendsTwice == SendSpec => []SentTwiceOnlyInDoubt
<1>1. SendTypeOK /\ TryInv /\ DoubtInv => SentTwiceOnlyInDoubt
  <2> SUFFICES ASSUME SendTypeOK, TryInv, DoubtInv,
                      NEW x \in executed, NEW y \in network \union executed,
                      x.task = y.task, x.try < y.try
               PROVE  replies[x.task][x.try] \in {"accepted", "timeout", "lost"}
    BY DEF SentTwiceOnlyInDoubt
  <2>1. /\ x.task \in Task /\ x.try \in Nat /\ y.try \in Nat
        /\ y.try <= Len(replies[x.task]) + 1
    BY TryBound
  <2>2. /\ replies[x.task] \in Seq(Reply) /\ Len(replies[x.task]) \in Nat
        /\ DOMAIN replies[x.task] = 1 .. Len(replies[x.task])
    BY <2>1, LenProperties DEF SendTypeOK
  <2>3. x.try \in DOMAIN replies[x.task]
    BY <2>1, <2>2 DEF DoubtInv, ExecutedOnce
  <2>4. replies[x.task][x.try] \in Reply
    BY <2>2, <2>3
  <2>5. replies[x.task][x.try] \notin Final
    BY <2>3 DEF DoubtInv, NoneAfterFinal
  <2>6. replies[x.task][x.try] \notin Void
    BY <2>3 DEF DoubtInv, NoneLeft
  <2>. QED
    BY <2>4, <2>5, <2>6 DEF Reply, Final, Void
<1>. QED
  BY <1>1, SendTypeCorrect, TriesHold, DoubtHolds, PTL

-----------------------------------------------------------------------------
(* The refinement.  What TxDelivery sees of a call is its Status, the      *)
(* attempts Made, and its Tries on the network and on the chain.           *)

\* An open call has an open status, and all its replies are attempts made.
LEMMA OpenStatus ==
    ASSUME NEW t \in Task, at[t] # "done"
    PROVE  Status(t) = "open" /\ Made(t) = Len(replies[t])
  BY DEF Status, Made

\* A call is seen to change only with its own place and replies.
LEMMA SeenElsewhere ==
    ASSUME NEW u \in Task, UNCHANGED <<at[u], replies[u], mode[u]>>
    PROVE  Status(u)' = Status(u) /\ Made(u)' = Made(u)
  BY DEF Status, Made, Succeeded

\* The attempts whose transactions are in a set.
LEMMA TriesMember ==
    ASSUME NEW set, NEW t \in Task, NEW i
    PROVE  i \in Tries(set)[t] <=> \E x \in set : x.task = t /\ x.try = i
  BY DEF Tries

\* Taking one transaction from a set takes one number from its call.
LEMMA TriesWithout ==
    ASSUME SendTypeOK, TriesNumbered, NEW x \in network
    PROVE  Tries(network \ {x}) =
             [Tries(network) EXCEPT ![x.task] = @ \ {x.try}]
<1>1. \A y \in network : y.task = x.task /\ y.try = x.try => y = x
  BY DEF TriesNumbered
<1>2. ASSUME NEW u \in Task
      PROVE  Tries(network \ {x})[u] =
               [Tries(network) EXCEPT ![x.task] = @ \ {x.try}][u]
  BY <1>1 DEF Tries
<1>. QED
  BY <1>2 DEF Tries

\* Adding one transaction adds one number.
LEMMA TriesWith ==
    ASSUME NEW set, NEW x, x.task \in Task
    PROVE  Tries(set \union {x}) =
             [Tries(set) EXCEPT ![x.task] = @ \union {x.try}]
<1>1. ASSUME NEW u \in Task
      PROVE  Tries(set \union {x})[u] =
               [Tries(set) EXCEPT ![x.task] = @ \union {x.try}][u]
  BY DEF Tries
<1>. QED
  BY <1>1 DEF Tries

\* What TxDelivery sees is unchanged.
LEMMA SeenUnchanged ==
    ASSUME \A u \in Task : Status(u)' = Status(u) /\ Made(u)' = Made(u),
           UNCHANGED <<mode, network, executed>>
    PROVE  UNCHANGED Delivery!vars
<1>1. [u \in Task |-> Status(u)'] = [u \in Task |-> Status(u)]
  OBVIOUS
<1>2. [u \in Task |-> Made(u)'] = [u \in Task |-> Made(u)]
  OBVIOUS
<1>. QED
  BY <1>1, <1>2 DEF Delivery!vars, Tries

\* The end of an attempt of t, answered or not, is EndAttempt(t).
LEMMA EndAttemptSeen ==
    ASSUME SendTypeOK, TryInv, NEW t \in Task, at[t] \in {"nonce", "sent"},
           NEW reply \in Reply, NEW errs, Ended(t, reply, errs),
           executed' = executed,
           \/ network' = network
           \/ at[t] = "sent" /\ network' = network \ {tx[t]}
    PROVE  Delivery!EndAttempt(t)
<1>1. /\ Len(replies'[t]) = Len(replies[t]) + 1
      /\ \A u \in Task \ {t} : replies'[u] = replies[u]
  BY LastReply DEF Ended
<1>2. /\ at'[t] = "check" /\ mode' = mode
      /\ \A u \in Task \ {t} : at'[u] = at[u]
  BY DEF Ended, Goto, SendTypeOK
<1>3. /\ Status(t) = "open" /\ Status(t)' = "open"
      /\ Made(t) = Len(replies[t]) /\ Made(t)' = Made(t) + 1
  BY <1>1, <1>2, OpenStatus DEF Status, Made
<1>4. \A u \in Task \ {t} : Status(u)' = Status(u) /\ Made(u)' = Made(u)
  BY <1>1, <1>2, SeenElsewhere
<1>5. [u \in Task |-> Status(u)'] = [u \in Task |-> Status(u)]
  BY <1>3, <1>4
<1>6. [u \in Task |-> Made(u)'] =
        [[u \in Task |-> Made(u)] EXCEPT ![t] = @ + 1]
  BY <1>3, <1>4
<1>7. Delivery!Attempting(t)
  <2>1. Made(t) < Limit(t)
    BY <1>3 DEF TryInv, AttemptsCounted, Counted, Open
  <2>. QED
    BY <1>3, <2>1 DEF Delivery!Attempting, Delivery!Limit, Limit
<1>8. \/ Tries(network') = Tries(network)
      \/ Tries(network') = [Tries(network) EXCEPT ![t] = @ \ {Made(t) + 1}]
  <2>1. CASE network' = network
    BY <2>1
  <2>2. CASE at[t] = "sent" /\ network' = network \ {tx[t]} /\ tx[t] \in network
    <3>1. tx[t].task = t /\ tx[t].try = Made(t) + 1
      BY <1>3, <2>2 DEF TryInv, TriesNumbered, Attempts
    <3>. QED
      BY <2>2, <3>1, TriesWithout DEF TryInv
  <2>3. CASE network' = network \ {tx[t]} /\ tx[t] \notin network
    <3>1. network' = network
      BY <2>3
    <3>. QED
      BY <3>1
  <2>. QED
    BY <2>1, <2>2, <2>3
<1>9. [u \in Task |-> Made(u)'][t] = Made(t) + 1
  BY <1>3
<1>10. Tries(network)' = Tries(network') /\ Tries(executed)' = Tries(executed)
  BY DEF Tries
<1>. QED
  BY <1>2, <1>5, <1>6, <1>7, <1>8, <1>9, <1>10 DEF Delivery!EndAttempt

\* A call that is done is closed, the way its last reply says.
LEMMA CloseSeen ==
    ASSUME NEW t \in Task, NEW how, Status(t) = "open", Status(t)' = how,
           Made(t)' = Made(t),
           \A u \in Task \ {t} : UNCHANGED <<at[u], replies[u]>>,
           UNCHANGED <<mode, network, executed>>
    PROVE  Delivery!Close(t, how)
<1>1. \A u \in Task \ {t} : Status(u)' = Status(u) /\ Made(u)' = Made(u)
  BY SeenElsewhere
<1>2. [u \in Task |-> Status(u)'] =
        [[u \in Task |-> Status(u)] EXCEPT ![t] = how]
  BY <1>1
<1>3. [u \in Task |-> Made(u)'] = [u \in Task |-> Made(u)]
  BY <1>1
<1>4. Tries(network)' = Tries(network) /\ Tries(executed)' = Tries(executed)
  BY DEF Tries
<1>. QED
  BY <1>2, <1>3, <1>4 DEF Delivery!Close

\* A signed transaction is sent by its call, for the attempt being made.
LEMMA SendSeen ==
    ASSUME SendTypeOK, TryInv, NEW t \in Task, Sign(t)
    PROVE  Delivery!Send(t)
<1>1. /\ at[t] = "nonce" /\ at'[t] = "sent" /\ UNCHANGED <<mode, replies, executed>>
      /\ \A u \in Task \ {t} : at'[u] = at[u]
      /\ tx'[t].task = t /\ tx'[t].try = Len(replies[t]) + 1
      /\ network' = network \union {tx'[t]}
  BY DEF Sign, Goto, SendTypeOK
<1>2. /\ Status(t) = "open" /\ Status(t)' = "open"
      /\ Made(t) = Len(replies[t]) /\ Made(t)' = Made(t)
  BY <1>1, OpenStatus DEF Status, Made
<1>3. \A u \in Task : Status(u)' = Status(u) /\ Made(u)' = Made(u)
  BY <1>1, <1>2, SeenElsewhere
<1>4. [u \in Task |-> Status(u)'] = [u \in Task |-> Status(u)]
  BY <1>3
<1>5. [u \in Task |-> Made(u)'] = [u \in Task |-> Made(u)]
  BY <1>3
<1>6. Delivery!Attempting(t)
  <2>1. Made(t) < Limit(t)
    BY <1>1, <1>2 DEF TryInv, AttemptsCounted, Counted, Open
  <2>. QED
    BY <1>2, <2>1 DEF Delivery!Attempting, Delivery!Limit, Limit
<1>7. Made(t) + 1 \notin Tries(network)[t] \union Tries(executed)[t]
  <2>1. ASSUME NEW x \in network \union executed, x.task = t
        PROVE  x.try # Made(t) + 1
    <3>1. x.try \in Nat
      BY DEF SendTypeOK, Tx
    <3>2. Len(replies[t]) \in Nat
      BY LenProperties DEF SendTypeOK
    <3>3. x.try <= Len(replies[t])
      BY <1>1, <2>1 DEF TryInv, TriesNumbered, Attempts
    <3>. QED
      BY <1>2, <3>1, <3>2, <3>3
  <2>. QED
    BY <2>1, TriesMember
<1>8. Tries(network') = [Tries(network) EXCEPT ![t] = @ \union {Made(t) + 1}]
  <2> DEFINE x == tx'[t]
  <2>1. x.task = t /\ x.try = Made(t) + 1 /\ network' = network \union {x}
    BY <1>1, <1>2
  <2> HIDE DEF x
  <2>2. Tries(network \union {x}) =
          [Tries(network) EXCEPT ![x.task] = @ \union {x.try}]
    BY <2>1, TriesWith
  <2>. QED
    BY <2>1, <2>2
<1>9. Tries(network)' = Tries(network') /\ Tries(executed)' = Tries(executed)
  BY <1>1 DEF Tries
<1>. QED
  BY <1>1, <1>4, <1>5, <1>6, <1>7, <1>8, <1>9 DEF Delivery!Send

\* An execution and a late refusal are what they are to the caller.
LEMMA TakenSeen ==
    ASSUME SendTypeOK, TryInv, NEW x \in network, network' = network \ {x},
           UNCHANGED <<at, mode, replies>>
    PROVE  /\ x.task \in Task /\ x.try \in Tries(network)[x.task]
           /\ executed' = executed => Delivery!Lose(x.task, x.try)
           /\ executed' = executed \union {x} => Delivery!Execute(x.task, x.try)
<1>1. x.task \in Task /\ x.try \in Tries(network)[x.task]
  BY DEF SendTypeOK, Tx, Tries
<1>2. \A u \in Task : Status(u)' = Status(u) /\ Made(u)' = Made(u)
  BY SeenElsewhere
<1>3. [u \in Task |-> Status(u)'] = [u \in Task |-> Status(u)]
  BY <1>2
<1>4. [u \in Task |-> Made(u)'] = [u \in Task |-> Made(u)]
  BY <1>2
<1>5. Tries(network') = [Tries(network) EXCEPT ![x.task] = @ \ {x.try}]
  BY TriesWithout DEF TryInv
<1>6. Tries(network)' = Tries(network') /\ Tries(executed)' = Tries(executed')
  BY DEF Tries
<1>7. ASSUME executed' = executed
      PROVE  Delivery!Lose(x.task, x.try)
  BY <1>1, <1>3, <1>4, <1>5, <1>6, <1>7 DEF Delivery!Lose
<1>8. ASSUME executed' = executed \union {x}
      PROVE  Delivery!Execute(x.task, x.try)
  <2>1. Tries(executed') = [Tries(executed) EXCEPT ![x.task] = @ \union {x.try}]
    BY <1>1, <1>8, TriesWith
  <2>. QED
    BY <1>1, <1>3, <1>4, <1>5, <1>6, <2>1 DEF Delivery!Execute
<1>. QED
  BY <1>1, <1>7, <1>8

\* The end of a call is a success only on an executed transaction, a refusal
\* only when it is gone, and a failure only of the last attempt.
LEMMA ConcludeSeen ==
    ASSUME SendTypeOK, TryInv, DoubtInv, NEW t \in Task, Conclude(t)
    PROVE  \/ Delivery!Succeed(t) \/ Delivery!Reject(t) \/ Delivery!GiveUp(t)
           \/ UNCHANGED Delivery!vars
<1>1. /\ at[t] = "check" /\ at'[t] \in {"done", "start"}
      /\ at'[t] = "done" =>
            Succeeded(t) \/ mode[t] = "async" \/ Len(replies[t]) > Retries
      /\ UNCHANGED <<mode, replies, network, executed>>
      /\ \A u \in Task \ {t} : at'[u] = at[u]
  BY DEF Conclude, Goto, SendTypeOK, netVars
<1>2. /\ Status(t) = "open" /\ Made(t) = Len(replies[t])
      /\ Len(replies[t]) \in Nat /\ Len(replies[t]) > 0
      /\ Len(replies[t]) <= Limit(t) /\ Last(replies[t]) # "dropped"
  <2>1. /\ replies[t] # <<>> /\ Len(replies[t]) <= Limit(t)
        /\ Last(replies[t]) # "dropped"
    BY <1>1 DEF TryInv, AttemptsCounted, Counted, Open
  <2>2. replies[t] \in Seq(Reply)
    BY DEF SendTypeOK
  <2>3. Len(replies[t]) \in Nat /\ Len(replies[t]) # 0
    BY <2>1, <2>2, LenProperties, EmptySeq
  <2>. QED
    BY <1>1, <2>1, <2>3, OpenStatus
<1>3. CASE at'[t] = "start"
  <2>1. Status(t)' = "open" /\ Made(t)' = Made(t)
    BY <1>1, <1>2, <1>3 DEF Status, Made
  <2>. QED
    BY <1>1, <1>2, <2>1, SeenElsewhere, SeenUnchanged
<1>4. CASE at'[t] = "done"
  <2>1. /\ Status(t)' = IF Last(replies[t]) \in Rejections THEN "refused"
                         ELSE IF Succeeded(t) THEN "ok" ELSE "failed"
        /\ Made(t)' = Made(t)
    BY <1>1, <1>2, <1>4 DEF Status, Made, Succeeded
  <2>2. CASE Succeeded(t) /\ Last(replies[t]) \notin Rejections
    <3>1. Delivery!Close(t, "ok")
      BY <1>1, <1>2, <2>1, <2>2, CloseSeen
    <3>2. mode[t] # "async" => Made(t) \in Tries(executed)[t]
      BY <1>1, <1>2, <2>2
         DEF Succeeded, TryInv, AttemptsCounted, OutcomeShown, Tries
    <3>. QED
      BY <1>2, <3>1, <3>2 DEF Delivery!Succeed
  <2>3. CASE ~Succeeded(t) /\ Last(replies[t]) \notin Rejections
    <3>1. Delivery!Close(t, "failed")
      BY <1>1, <1>2, <2>1, <2>3, CloseSeen
    <3>2. Made(t) = Limit(t)
      BY <1>1, <1>2, <1>4, <2>3, RetriesAssumption DEF Limit
    <3>. QED
      BY <3>1, <3>2 DEF Delivery!GiveUp, Delivery!Limit, Limit
  <2>4. CASE Last(replies[t]) \in Rejections
    <3>1. Delivery!Close(t, "refused")
      BY <1>1, <1>2, <2>1, <2>4, CloseSeen
    <3>2. /\ Made(t) \in DOMAIN replies[t]
          /\ replies[t][Made(t)] \in Rejections
      BY <1>2, <2>4, LenProperties DEF Last, SendTypeOK
    <3>3. mode[t] # "async"
      BY <1>1, <3>2 DEF DoubtInv, FinalIsLast, Final
    <3>4. Made(t) \notin Tries(network)[t] \union Tries(executed)[t]
      BY <3>2, TriesMember DEF DoubtInv, NoneLeft, Void
    <3>. QED
      BY <1>2, <3>1, <3>3, <3>4 DEF Delivery!Reject
  <2>. QED
    BY <2>2, <2>3, <2>4
<1>. QED
  BY <1>1, <1>3, <1>4

\* Every step of the client, the network and the chain is a step of the
\* abstract delivery, or none.
LEMMA DeliveryStep ==
    ASSUME SendTypeOK, TryInv, DoubtInv, [SendNext]_sendVars
    PROVE  [Delivery!Next]_(Delivery!vars)
<1>1. ASSUME UNCHANGED <<at, mode, replies, network, executed>>
      PROVE  UNCHANGED Delivery!vars
  BY <1>1, SeenElsewhere, SeenUnchanged
<1>2. ASSUME NEW t \in Task, CacheKey(t) \/ SignTx(t)
      PROVE  UNCHANGED Delivery!vars
  <2>1. /\ at[t] # "done" /\ at'[t] # "done"
        /\ \A u \in Task \ {t} : at'[u] = at[u]
        /\ UNCHANGED <<mode, replies, network, executed>>
    BY <1>2 DEF CacheKey, SignTx, Goto, SendTypeOK, netVars
  <2>2. Status(t)' = Status(t) /\ Made(t)' = Made(t)
    BY <2>1 DEF Status, Made
  <2>. QED
    BY <2>1, <2>2, SeenElsewhere, SeenUnchanged
<1>3. ASSUME NEW t \in Task, CacheStep(t) \/ CheckAndInvalidateCache(t)
      PROVE  UNCHANGED Delivery!vars
  BY <1>3, <1>1 DEF CacheStep, CheckAndInvalidateCache, callVars, netVars
<1>4. ASSUME NEW t \in Task, NonceErr(t) \/ Outcome(t) \/ Accepted(t)
      PROVE  Delivery!EndAttempt(t)
  <2>1. CASE Outcome(t)
    <3>1. PICK reply \in Outcomes, errs \in {0, 1, 2} : Ended(t, reply, errs)
      BY <2>1 DEF Outcome, Outcomes
    <3>2. reply \in Reply
      BY DEF Reply
    <3>. QED
      BY <2>1, <3>1, <3>2, EndAttemptSeen DEF Outcome, netVars
  <2>2. CASE NonceErr(t) \/ Accepted(t)
    BY <2>2, EndAttemptSeen DEF NonceErr, Accepted, netVars, Reply
  <2>. QED
    BY <1>4, <2>1, <2>2
<1>5. ASSUME NEW t \in Task, TimeoutError(t) \/ TransportError(t)
      PROVE  Delivery!EndAttempt(t)
  BY <1>5, EndAttemptSeen DEF TimeoutError, TransportError, HandlerErr, netVars,
     Reply
<1>6. ASSUME NEW t \in Task, Sign(t)
      PROVE  Delivery!Send(t)
  BY <1>6, SendSeen
<1>7. ASSUME NEW t \in Task, Conclude(t)
      PROVE  [Delivery!Next]_(Delivery!vars)
  BY <1>7, ConcludeSeen DEF Delivery!Next
<1>8. ASSUME NEW x \in network, Execute(x)
      PROVE  Delivery!Next
  BY <1>8, TakenSeen DEF Execute, callVars, Delivery!Next
<1>9. ASSUME NEW x \in network, Refuse(x)
      PROVE  Delivery!Next
  <2>1. x.task \in Task /\ network' = network \ {x} /\ UNCHANGED executed
    BY <1>9 DEF Refuse, SendTypeOK, Tx
  <2>2. CASE UNCHANGED <<at, mode, ckey, replies, removals>>
    BY <2>1, <2>2, TakenSeen DEF Delivery!Next
  <2>3. ASSUME NEW reason \in {"invalid_tx", "invalid_nonce"},
               at[x.task] = "sent", tx[x.task] = x, Told(x.task, reason)
        PROVE  Delivery!Next
    <3>1. Delivery!EndAttempt(x.task)
      <4>1. PICK reply \in {reason} \union Rejections, errs \in {0, 1, 2} :
               Ended(x.task, reply, errs)
        BY <2>1, <2>3, ToldEnds
      <4>2. reply \in Reply
        BY <2>3 DEF Reply, Rejections
      <4>. QED
        BY <2>1, <2>3, <4>1, <4>2, EndAttemptSeen
    <3>. QED
      BY <2>1, <3>1 DEF Delivery!Next
  <2>. QED
    BY <1>9, <2>2, <2>3 DEF Refuse, Reasons
<1>10. ASSUME NEW k \in Key, Bump(k)
       PROVE  UNCHANGED Delivery!vars
  BY <1>10, <1>1 DEF Bump, callVars
<1>11. ASSUME NEW t \in Droppable, DropCall(t)
       PROVE  Delivery!Next
  <2>1. /\ t \in Task /\ at[t] # "done" /\ at'[t] = "done"
        /\ UNCHANGED <<mode, network, executed>>
        /\ \A u \in Task \ {t} : at'[u] = at[u]
    BY <1>11, DroppableAssumption DEF DropCall, Goto, SendTypeOK, netVars
  <2>2. /\ Len(replies'[t]) = Len(replies[t]) + 1
        /\ Last(replies'[t]) = "dropped"
        /\ \A u \in Task \ {t} : replies'[u] = replies[u]
    BY <1>11, <2>1, LastReply DEF DropCall, Reply
  <2>3. Len(replies[t]) \in Nat
    BY <2>1, LenProperties DEF SendTypeOK
  <2>4. /\ Status(t) = "open" /\ Status(t)' = "dropped"
        /\ Made(t)' = Made(t)
    BY <2>1, <2>2, <2>3, OpenStatus DEF Status, Made
  <2>5. Delivery!Close(t, "dropped")
    BY <2>1, <2>2, <2>4, CloseSeen
  <2>. QED
    BY <2>1, <2>5 DEF Delivery!Drop, Delivery!Next
<1>12. CASE UNCHANGED sendVars
  BY <1>12, <1>1 DEF sendVars, callVars, netVars
<1>. QED
  BY <1>2, <1>3, <1>4, <1>5, <1>6, <1>7, <1>8, <1>9, <1>10, <1>11, <1>12
     DEF SendNext, Attempt, Answer, Serve, Finished, Delivery!Next

\* Retries, cache checks and dropped calls keep to the abstract delivery:
\* one transaction per attempt, one attempt after the other, an outcome only
\* of a transaction that was executed or never will be, failure only after
\* the last attempt.
THEOREM ClientImplementsDelivery == SendSpec => ImplementsDelivery
<1>1. SendInit /\ SendTypeOK => Delivery!Init
  <2> SUFFICES ASSUME SendInit, SendTypeOK PROVE Delivery!Init
    OBVIOUS
  <2>1. \A t \in Task : /\ at[t] = "start" /\ Len(replies[t]) = 0
    BY LenProperties, EmptySeq DEF SendInit
  <2>2. \A t \in Task : Status(t) = "open" /\ Made(t) = 0
    BY <2>1, OpenStatus
  <2>3. network = {} /\ executed = {}
    BY DEF SendInit
  <2>4. Tries({}) = [t \in Task |-> {}]
    BY DEF Tries
  <2>. QED
    BY <2>2, <2>3, <2>4 DEF Delivery!Init
<1>2. SendTypeOK /\ TryInv /\ DoubtInv /\ [SendNext]_sendVars
         => [Delivery!Next]_(Delivery!vars)
  BY DeliveryStep
<1>. QED
  BY <1>1, <1>2, SendTypeCorrect, TriesHold, DoubtHolds, PTL
     DEF SendSpec, ImplementsDelivery, Delivery!Spec
===============================================================================
