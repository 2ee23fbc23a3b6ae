----------------------------- MODULE TxStatusProofs -----------------------------
(***************************************************************************)
(* What the handle of an asynchronous transaction promises, for any number *)
(* of clones of it, any accounts and any combination of faults.            *)
(***************************************************************************)
EXTENDS TxStatus, TLAPS

(* A block moves a transaction on to a status, never to "Unsent".          *)
LEMMA LaterIsStatus == \A status \in Status : Later[status] \subseteq Status
BY DEF Later, Status, Completed

(* The node only answers with a status, for each that is waited for.       *)
LEMMA ReachedIsStatus == \A status \in Status : Reached[status] \subseteq Status
BY DEF Reached, Status, Completed

(* Only wait() sleeps between its polls; a clone that is in status() or    *)
(* wait_until(), or in no call at all, is never left asleep.               *)
OnlyWaitSleeps == \A t \in asleep : op[t] = "wait"

(* A call, of whichever clone.                                             *)
LEMMA RequestKeeps ==
    ASSUME TypeOK, OnlyWaitSleeps, NEW t \in Task, NEW wanted \in Status,
           NEW call \in {"status", "wait", "wait_until"}, Request(t, call, wanted)
    PROVE  TypeOK' /\ OnlyWaitSleeps'
<1>1. t \notin asleep
  BY DEF Request, OnlyWaitSleeps
<1>2. \A u \in asleep : u \in Task /\ op'[u] = op[u]
  BY <1>1 DEF Request, TypeOK
<1>3. OnlyWaitSleeps'
  BY <1>2 DEF Request, OnlyWaitSleeps
<1>4. TypeOK'
  BY DEF Request, TypeOK, Result, accounts
<1> QED
  BY <1>3, <1>4

(* The end of a call, or of a poll within wait().                          *)
LEMMA EndKeeps ==
    ASSUME TypeOK, OnlyWaitSleeps, NEW t \in Task, NEW res \in Result,
           Calling(t), Return(t, res) \/ Pending(t),
           UNCHANGED <<accounts, stage, target>>, saw' \in [Task -> Status \union {"unanswered"}]
    PROVE  TypeOK' /\ OnlyWaitSleeps'
<1>1. ASSUME NEW r \in Result, Return(t, r)
      PROVE  TypeOK' /\ OnlyWaitSleeps'
  <2>1. \A u \in asleep : u \in Task /\ op'[u] = op[u]
    BY <1>1 DEF Return, Calling, TypeOK
  <2>2. OnlyWaitSleeps'
    BY <1>1, <2>1 DEF Return, OnlyWaitSleeps
  <2>3. TypeOK'
    BY <1>1 DEF Return, TypeOK, accounts
  <2> QED
    BY <2>2, <2>3
<1>2. CASE Pending(t) /\ op[t] = "wait"
  <2>1. asleep' = asleep \union {t} /\ UNCHANGED <<op, result>>
    BY <1>2 DEF Pending
  <2>2. OnlyWaitSleeps'
    BY <1>2, <2>1 DEF OnlyWaitSleeps
  <2>3. TypeOK'
    BY <2>1 DEF TypeOK, accounts
  <2> QED
    BY <2>2, <2>3
<1>3. CASE Pending(t) /\ op[t] # "wait"
  <2>1. Return(t, "pending") /\ "pending" \in Result
    BY <1>3 DEF Pending, Result
  <2> QED
    BY <1>1, <2>1
<1> QED
  BY <1>1, <1>2, <1>3

(* Both hold in every state.                                               *)
LEMMA StatusInvHolds == Spec => [](TypeOK /\ OnlyWaitSleeps)
<1>1. Init => TypeOK /\ OnlyWaitSleeps
  BY DEF Init, TypeOK, OnlyWaitSleeps, Stage, Status, Result
<1>2. TypeOK /\ OnlyWaitSleeps /\ [Next]_vars => TypeOK' /\ OnlyWaitSleeps'
  <2> SUFFICES ASSUME TypeOK, OnlyWaitSleeps, [Next]_vars
               PROVE  TypeOK' /\ OnlyWaitSleeps'
    OBVIOUS
  <2>1. CASE TransactAsync
    BY <2>1 DEF TransactAsync, TypeOK, OnlyWaitSleeps, Stage, Status
  <2>2. CASE Advance
    <3>1. stage' \in Status
      BY <2>2, LaterIsStatus DEF Advance
    <3> QED
      BY <2>2, <3>1 DEF Advance, TypeOK, OnlyWaitSleeps, Stage, accounts
  <2>3. CASE Setback
    BY <2>3 DEF Setback, TypeOK, OnlyWaitSleeps, Stage, Status, accounts
  <2>4. ASSUME NEW t \in Task, StatusCall(t) \/ WaitCall(t) \/ WaitUntilCall(t)
        PROVE  TypeOK' /\ OnlyWaitSleeps'
    <3>1. PICK call \in {"status", "wait", "wait_until"}, wanted \in Status :
             Request(t, call, wanted)
      BY <2>4 DEF StatusCall, WaitCall, WaitUntilCall, Status
    <3> QED
      BY <3>1, RequestKeeps
  <2>5. ASSUME NEW t \in Task, Answered(t)
        PROVE  TypeOK' /\ OnlyWaitSleeps'
    <3>1. stage \in Status
      BY <2>5, ReachedIsStatus DEF Answered, TypeOK
    <3>2. saw' \in [Task -> Status \union {"unanswered"}]
      BY <2>5, <3>1 DEF Answered, TypeOK
    <3>3. PICK res \in Result : Return(t, res) \/ Pending(t)
      BY <2>5 DEF Answered, Result
    <3> QED
      BY <2>5, <3>2, <3>3, EndKeeps DEF Answered
  <2>6. ASSUME NEW t \in Task, NotFound(t) \/ RpcError(t)
        PROVE  TypeOK' /\ OnlyWaitSleeps'
    <3>1. Calling(t) /\ UNCHANGED <<accounts, stage, target, saw>>
      BY <2>6 DEF NotFound, RpcError
    <3>2. PICK res \in Result : Return(t, res) \/ Pending(t)
      BY <2>6 DEF NotFound, RpcError, Result
    <3>3. saw' \in [Task -> Status \union {"unanswered"}]
      BY <3>1 DEF TypeOK
    <3> QED
      BY <3>1, <3>2, <3>3, EndKeeps
  <2>7. ASSUME NEW t \in Task, Wake(t)
        PROVE  TypeOK' /\ OnlyWaitSleeps'
    BY <2>7 DEF Wake, TypeOK, OnlyWaitSleeps, accounts
  <2>8. CASE UNCHANGED vars
    BY <2>8 DEF vars, accounts, TypeOK, OnlyWaitSleeps
  <2> QED
    BY <2>1, <2>2, <2>3, <2>4, <2>5, <2>6, <2>7, <2>8 DEF Next, Poll
<1> QED
  BY <1>1, <1>2, PTL DEF Spec

(* THEOREM: the variables of the handle's clones keep their types.         *)
THEOREM StatusTypeCorrect == Spec => []TypeOK
BY StatusInvHolds, PTL

(* THEOREM: a clone that sleeps is in wait(), so the only call that can    *)
(* hang between two polls is the one that polls again.                     *)
THEOREM SleepersWait == Spec => []OnlyWaitSleeps
BY StatusInvHolds, PTL

(* Only a task's own poll ends its call.                                   *)
LEMMA EndedByPoll ==
    ASSUME TypeOK, OnlyWaitSleeps, [Next]_vars, NEW t \in Task, NEW call, call # "none",
           Returns(t, call)
    PROVE  Answered(t) \/ NotFound(t) \/ RpcError(t)
<1>1. op[t] # "none" /\ op'[t] = "none" /\ op[t] # op'[t]
  BY DEF Returns
<1>2. op' # op
  BY <1>1
<1>3. ~UNCHANGED vars /\ ~TransactAsync /\ ~Advance /\ ~Setback
  BY <1>2 DEF vars, TransactAsync, Advance, Setback
<1>4. PICK u \in Task : StatusCall(u) \/ WaitCall(u) \/ WaitUntilCall(u) \/ Poll(u)
  BY <1>3 DEF Next
<1>5. ASSUME NEW other \in {"status", "wait", "wait_until"}, NEW wanted,
             Request(u, other, wanted)
      PROVE  FALSE
  BY <1>1, <1>5 DEF Request, TypeOK
<1>6. Answered(u) \/ NotFound(u) \/ RpcError(u)
  BY <1>2, <1>4, <1>5 DEF StatusCall, WaitCall, WaitUntilCall, Poll, Wake
<1>7. u = t
  <2> SUFFICES ASSUME u # t PROVE FALSE
    OBVIOUS
  <2>1. op' = op \/ op' = [op EXCEPT ![u] = "none"]
    BY <1>6 DEF Answered, NotFound, RpcError, Pending, Return
  <2>2. op'[t] = op[t]
    BY <2>1 DEF TypeOK
  <2> QED
    BY <1>1, <2>2
<1> QED
  BY <1>6, <1>7

(* THEOREM: status() and wait() never end with an error that only says     *)
(* that there is no outcome yet, whatever goes wrong on the way.           *)
THEOREM PendingIsHandled == Spec => PendingIsNoError
<1>1. TypeOK /\ OnlyWaitSleeps /\ [Next]_vars =>
        \A t \in Task : Returns(t, "status") \/ Returns(t, "wait")
           => result'[t] # "unready"
  <2> SUFFICES ASSUME TypeOK, OnlyWaitSleeps, [Next]_vars, NEW t \in Task,
                      Returns(t, "status") \/ Returns(t, "wait")
               PROVE  result'[t] # "unready"
    OBVIOUS
  <2>1. Answered(t) \/ NotFound(t) \/ RpcError(t)
    BY EndedByPoll
  <2>2. op[t] \in {"status", "wait"} /\ op' # op
    BY DEF Returns
  <2>3. ASSUME NEW res, Return(t, res) PROVE result'[t] = res
    BY <2>3 DEF Return, TypeOK
  <2>4. Pending(t) => result'[t] = "pending"
    BY <2>2, <2>3 DEF Pending
  <2> QED
    BY <2>1, <2>2, <2>3, <2>4 DEF Answered, NotFound, RpcError
<1> QED
  BY <1>1, StatusInvHolds, PTL DEF Spec, PendingIsNoError
-----------------------------------------------------------------------------
(* What is left of WaitsForCompletion                                      *)

\* The result that wait() hands out may be of a transaction that is not
\* executed, but then it is in a final block.
WaitsForInclusion ==
    [][\A t \in Task : Returns(t, "wait") /\ result'[t] = "ready"
          => saw'[t] \in Completed \union {"IncludedFinal"}]_vars

(* THEOREM: the result that wait() hands out is of a transaction that is   *)
(* executed, or in a final block, whatever the other clones do and         *)
(* whichever blocks lose to forks.                                         *)
THEOREM InclusionAwaited == Spec => WaitsForInclusion
<1>1. TypeOK /\ OnlyWaitSleeps /\ [Next]_vars =>
        \A t \in Task : Returns(t, "wait") /\ result'[t] = "ready"
           => saw'[t] \in Completed \union {"IncludedFinal"}
  <2> SUFFICES ASSUME TypeOK, OnlyWaitSleeps, [Next]_vars, NEW t \in Task,
                      Returns(t, "wait"), result'[t] = "ready"
               PROVE  saw'[t] \in Completed \union {"IncludedFinal"}
    OBVIOUS
  <2>1. Answered(t) \/ NotFound(t) \/ RpcError(t)
    BY EndedByPoll
  <2>2. op[t] = "wait" /\ op' # op
    BY DEF Returns
  <2>3. ASSUME NEW res, Return(t, res) PROVE result'[t] = res
    BY <2>3 DEF Return, TypeOK
  <2>4. ~Pending(t)
    BY <2>2 DEF Pending
  <2>5. ~NotFound(t) /\ ~RpcError(t)
    BY <2>2, <2>3, <2>4 DEF NotFound, RpcError
  <2>6. Answered(t) /\ stage \notin {"None", "Included"}
    BY <2>1, <2>2, <2>4, <2>5 DEF Answered
  <2>7. stage \in Status /\ saw'[t] = stage
    BY <2>6, ReachedIsStatus DEF Answered, TypeOK
  <2> QED
    BY <2>6, <2>7 DEF Status, Completed
<1> QED
  BY <1>1, StatusInvHolds, PTL DEF Spec, WaitsForInclusion

-----------------------------------------------------------------------------
(* wait_until()                                                            *)

\* The first answer that names a status ends wait_until().
UntilAnswered == \A t \in Task : op[t] = "wait_until" => saw[t] = "unanswered"

\* "Waits until a sepcific transaction status is reached", but for the two
\* statuses that status_tx_async turns into an error whoever asks for them.
WaitsUntilExecuted ==
    [][\A t \in Task : /\ Returns(t, "wait_until") /\ saw'[t] \in Status
                       /\ target[t] \notin {"None", "Included"}
          => result'[t] = "ready"]_vars

(* No task goes on waiting in wait_until() after such an answer.           *)
LEMMA UntilAnsweredHolds == Spec => []UntilAnswered
<1>1. Init => UntilAnswered
  BY DEF Init, UntilAnswered
<1>2. TypeOK /\ UntilAnswered /\ [Next]_vars => UntilAnswered'
  <2> SUFFICES ASSUME TypeOK, UntilAnswered, [Next]_vars, NEW t \in Task,
                      op'[t] = "wait_until"
               PROVE  saw'[t] = "unanswered"
    BY DEF UntilAnswered
  <2>1. CASE UNCHANGED <<op, saw>>
    BY <2>1 DEF UntilAnswered
  <2>2. ASSUME NEW u \in Task, NEW call, NEW wanted, Request(u, call, wanted)
        PROVE  saw'[t] = "unanswered"
    BY <2>2 DEF Request, TypeOK, UntilAnswered
  <2>3. ASSUME NEW u \in Task, Answered(u)
        PROVE  saw'[t] = "unanswered"
    <3>1. u # t
      <4> SUFFICES ASSUME u = t PROVE FALSE
        OBVIOUS
      <4>1. op[t] # "wait_until" => op'[t] # "wait_until"
        BY <2>3 DEF Answered, Pending, Return, TypeOK
      <4>2. op[t] = "wait_until" => op'[t] = "none"
        BY <2>3 DEF Answered, Pending, Return, TypeOK
      <4> QED
        BY <4>1, <4>2
    <3>2. saw'[t] = saw[t]
      BY <2>3, <3>1 DEF Answered, TypeOK
    <3>3. op'[t] = op[t]
      BY <2>3, <3>1 DEF Answered, Pending, Return, TypeOK
    <3> QED
      BY <3>2, <3>3 DEF UntilAnswered
  <2>4. ASSUME NEW u \in Task, NotFound(u) \/ RpcError(u) \/ Wake(u)
        PROVE  saw'[t] = "unanswered"
    <3>1. saw' = saw
      BY <2>4 DEF NotFound, RpcError, Wake
    <3>2. op' = op \/ op' = [op EXCEPT ![u] = "none"]
      BY <2>4 DEF NotFound, RpcError, Wake, Pending, Return
    <3>3. op[t] = "wait_until"
      BY <3>2 DEF TypeOK
    <3> QED
      BY <3>1, <3>3 DEF UntilAnswered
  <2>5. CASE TransactAsync \/ Advance \/ Setback \/ UNCHANGED vars
    BY <2>1, <2>5 DEF TransactAsync, Advance, Setback, vars
  <2> QED
    BY <2>2, <2>3, <2>4, <2>5 DEF Next, Poll, StatusCall, WaitCall, WaitUntilCall
<1> QED
  BY <1>1, <1>2, StatusTypeCorrect, PTL DEF Spec

(* THEOREM: asked for anything beyond Included, wait_until() does what its *)
(* documentation says: an answer that names a status is its result.        *)
THEOREM ExecutionAwaited == Spec => WaitsUntilExecuted
<1>1. TypeOK /\ OnlyWaitSleeps /\ UntilAnswered /\ [Next]_vars =>
        \A t \in Task : /\ Returns(t, "wait_until") /\ saw'[t] \in Status
                        /\ target[t] \notin {"None", "Included"}
           => result'[t] = "ready"
  <2> SUFFICES ASSUME TypeOK, OnlyWaitSleeps, UntilAnswered, [Next]_vars, NEW t \in Task,
                      Returns(t, "wait_until"), saw'[t] \in Status,
                      target[t] \notin {"None", "Included"}
               PROVE  result'[t] = "ready"
    OBVIOUS
  <2>1. Answered(t) \/ NotFound(t) \/ RpcError(t)
    BY EndedByPoll
  <2>2. saw[t] = "unanswered"
    BY DEF Returns, UntilAnswered
  <2>3. Answered(t)
    BY <2>1, <2>2 DEF NotFound, RpcError, Status
  <2>4. stage \notin {"None", "Included"}
    BY <2>3 DEF Answered, Reached, Status, Completed, TypeOK
  <2> QED
    BY <2>3, <2>4 DEF Answered, Return, TypeOK
<1> QED
  BY <1>1, StatusInvHolds, UntilAnsweredHolds, PTL DEF Spec, WaitsUntilExecuted
================================================================================
