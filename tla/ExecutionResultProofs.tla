------------------------- MODULE ExecutionResultProofs -------------------------
(***************************************************************************)
(* What a result says of final blocks stays, for executions of any length, *)
(* any errors and any forks; the client's two ways through an answer find  *)
(* the same errors; and total_gas_burnt(), a fold, is what was burnt.      *)
(***************************************************************************)
EXTENDS ExecutionResult, SequenceTheorems, WellFoundedInduction, TLAPS

\* An outcome that has the value of the transaction hands over to no receipt.
Sound(exec) ==
    /\ exec \in Execution /\ exec.head \in DOMAIN exec.outcomes
    /\ exec.outcomes[exec.head].status # "SuccessReceiptId"

\* A later state of an execution: what was executed stays as it was, and so
\* does what has the value of the transaction.
Grown(old, new) ==
    /\ Len(old.outcomes) <= Len(new.outcomes)
    /\ \A i \in DOMAIN old.outcomes :
          old.outcomes[i].status # "Unknown" => new.outcomes[i] = old.outcomes[i]
    /\ old.outcomes[old.head].status # "Unknown" => new.head = old.head

\* What a result says of an outcome that was executed, a later state of the
\* execution has too.
Backed(result, exec) ==
    /\ result.status \notin {"NotStarted", "Started"}
          => exec.outcomes[exec.head].status = result.status
    /\ result.transaction_outcome.status # "Unknown"
          => exec.outcomes[1] = result.transaction_outcome
    /\ \A i \in DOMAIN result.receipts_outcome :
          /\ i + 1 \in DOMAIN exec.outcomes
          /\ result.receipts_outcome[i].status # "Unknown"
                => exec.outcomes[i + 1] = result.receipts_outcome[i]

ResultInv ==
    /\ Sound(latest) /\ Sound(settled) /\ Grown(settled, latest)
    /\ held = Nothing \/ held \in Result
    /\ firm \in BOOLEAN
    /\ Held /\ firm => Backed(held, settled)

-----------------------------------------------------------------------------
(* The outcomes of an execution, by their places.                          *)
LEMMA Outcomes ==
    ASSUME NEW exec, Sound(exec)
    PROVE  /\ exec.outcomes \in Seq(OutcomeView) /\ exec.outcomes # <<>>
           /\ Len(exec.outcomes) \in Nat \ {0}
           /\ DOMAIN exec.outcomes = 1 .. Len(exec.outcomes)
           /\ exec.head \in 1 .. Len(exec.outcomes) /\ exec.burnt \in Nat
           /\ \A i \in 1 .. Len(exec.outcomes) : exec.outcomes[i] \in OutcomeView
           /\ exec.outcomes[exec.head].status \in Status \ {"SuccessReceiptId"}
<1> DEFINE s == exec.outcomes
           n == Len(s)
           h == exec.head
<1>1. s \in Seq(OutcomeView) /\ h \in DOMAIN s /\ exec.burnt \in Nat
  BY DEF Sound, Execution
<1>2. s[h].status # "SuccessReceiptId"
  BY DEF Sound
<1> HIDE DEF s, h
<1>3. n \in Nat /\ DOMAIN s = 1 .. n
  BY <1>1, LenProperties
<1>4. s # <<>>
  BY <1>1
<1>5. n # 0
  BY <1>1, <1>3
<1>6. \A i \in 1 .. n : s[i] \in OutcomeView
  BY <1>1, ElementOfSeq
<1>7. s[h].status \in Status \ {"SuccessReceiptId"}
  BY <1>1, <1>2, <1>3, <1>6 DEF OutcomeView
<1> QED
  BY <1>1, <1>3, <1>4, <1>5, <1>6, <1>7 DEF s, h

(* What the node reports of an execution.                                  *)
LEMMA ViewIs ==
    ASSUME NEW exec, Sound(exec)
    PROVE  /\ View(exec) \in Result
           /\ View(exec).transaction_outcome = exec.outcomes[1]
           /\ Len(View(exec).receipts_outcome) = Len(exec.outcomes) - 1
           /\ DOMAIN View(exec).receipts_outcome = 1 .. Len(exec.outcomes) - 1
           /\ \A i \in DOMAIN View(exec).receipts_outcome :
                 View(exec).receipts_outcome[i] = exec.outcomes[i + 1]
           /\ View(exec).status \notin {"NotStarted", "Started"} =>
                 View(exec).status = exec.outcomes[exec.head].status
           /\ exec.outcomes[exec.head].status # "Unknown" =>
                 View(exec).status = exec.outcomes[exec.head].status
<1> DEFINE s == exec.outcomes
           n == Len(s)
           h == exec.head
<1>1. /\ s \in Seq(OutcomeView) /\ s # <<>> /\ n \in Nat \ {0}
      /\ DOMAIN s = 1 .. n /\ h \in 1 .. n
      /\ \A i \in 1 .. n : s[i] \in OutcomeView
      /\ s[h].status \in Status \ {"SuccessReceiptId"}
  BY Outcomes
<1>2. /\ View(exec).status = ViewStatus(exec)
      /\ View(exec).transaction_outcome = Head(s)
      /\ View(exec).receipts_outcome = Tail(s)
      /\ View(exec) = [status |-> ViewStatus(exec), transaction_outcome |-> Head(s),
                       receipts_outcome |-> Tail(s)]
  BY DEF View
<1>3. /\ s[h].status # "Unknown" => ViewStatus(exec) = s[h].status
      /\ ViewStatus(exec) \notin {"NotStarted", "Started"} => ViewStatus(exec) = s[h].status
      /\ ViewStatus(exec) \in FinalStatus
  BY <1>1 DEF ViewStatus, FinalStatus, Status
<1> HIDE DEF s, n, h
<1>4. Head(s) = s[1] /\ Head(s) \in OutcomeView
  BY <1>1, HeadTailProperties
<1>5. /\ Tail(s) \in Seq(OutcomeView) /\ Len(Tail(s)) = n - 1
      /\ \A i \in 1 .. Len(Tail(s)) : Tail(s)[i] = s[i + 1]
  BY <1>1, HeadTailProperties DEF n
<1>6. DOMAIN Tail(s) = 1 .. n - 1
  BY <1>5, LenProperties
<1>7. View(exec) \in Result
  BY <1>2, <1>3, <1>4, <1>5 DEF Result
<1> QED
  BY <1>2, <1>3, <1>4, <1>5, <1>6, <1>7 DEF s, n, h

(* One is told of a later state what one was told of an earlier one.       *)
LEMMA BackedLater ==
    ASSUME NEW result \in Result, NEW old, NEW new, Sound(old), Sound(new),
           Backed(result, old), Grown(old, new)
    PROVE  Backed(result, new)
<1>1. /\ Len(old.outcomes) \in Nat \ {0} /\ Len(new.outcomes) \in Nat
      /\ DOMAIN old.outcomes = 1 .. Len(old.outcomes)
      /\ DOMAIN new.outcomes = 1 .. Len(new.outcomes)
      /\ old.head \in 1 .. Len(old.outcomes)
  BY Outcomes
<1>2. Len(old.outcomes) <= Len(new.outcomes)
  BY DEF Grown
<1>3. DOMAIN old.outcomes \subseteq DOMAIN new.outcomes /\ 1 \in DOMAIN old.outcomes
  <2> DEFINE m == Len(old.outcomes)
             n == Len(new.outcomes)
  <2>1. m \in Nat \ {0} /\ n \in Nat /\ m <= n
    BY <1>1, <1>2
  <2> HIDE DEF m, n
  <2>2. 1 .. m \subseteq 1 .. n /\ 1 \in 1 .. m
    BY <2>1
  <2> QED
    BY <1>1, <2>2 DEF m, n
<1>4. ASSUME result.status \notin {"NotStarted", "Started"}
      PROVE  new.outcomes[new.head].status = result.status
  <2>1. old.outcomes[old.head].status = result.status
    BY <1>4 DEF Backed
  <2>2. result.status # "Unknown"
    BY ResultAssumption DEF Result, FinalStatus
  <2>3. new.head = old.head /\ new.outcomes[old.head] = old.outcomes[old.head]
    BY <1>1, <2>1, <2>2 DEF Grown
  <2> QED
    BY <2>1, <2>3
<1>5. ASSUME result.transaction_outcome.status # "Unknown"
      PROVE  new.outcomes[1] = result.transaction_outcome
  BY <1>3, <1>5 DEF Backed, Grown
<1>6. ASSUME NEW i \in DOMAIN result.receipts_outcome
      PROVE  /\ i + 1 \in DOMAIN new.outcomes
             /\ result.receipts_outcome[i].status # "Unknown"
                   => new.outcomes[i + 1] = result.receipts_outcome[i]
  BY <1>3 DEF Backed, Grown
<1> QED
  BY <1>4, <1>5, <1>6 DEF Backed

(* A result is backed by the state of the execution it was made of.        *)
LEMMA ViewIsBacked ==
    ASSUME NEW exec, Sound(exec)
    PROVE  Backed(View(exec), exec)
<1> DEFINE n == Len(exec.outcomes)
<1>1. n \in Nat \ {0} /\ DOMAIN exec.outcomes = 1 .. n
  BY Outcomes
<1>2. /\ View(exec).transaction_outcome = exec.outcomes[1]
      /\ DOMAIN View(exec).receipts_outcome = 1 .. n - 1
      /\ \A i \in DOMAIN View(exec).receipts_outcome :
            View(exec).receipts_outcome[i] = exec.outcomes[i + 1]
      /\ View(exec).status \notin {"NotStarted", "Started"} =>
            View(exec).status = exec.outcomes[exec.head].status
  BY ViewIs
<1> HIDE DEF n
<1>3. \A i \in 1 .. n - 1 : i + 1 \in 1 .. n
  BY <1>1
<1> QED
  BY <1>1, <1>2, <1>3 DEF Backed

(* An execution is a later state of itself.                                *)
LEMMA GrownReflexive == \A exec : exec.outcomes \in Seq(OutcomeView) => Grown(exec, exec)
<1> SUFFICES ASSUME NEW exec, exec.outcomes \in Seq(OutcomeView) PROVE Grown(exec, exec)
  OBVIOUS
<1>1. Len(exec.outcomes) \in Nat
  BY LenProperties
<1> QED
  BY <1>1 DEF Grown
(* A later state of a later state is a later state.                        *)
LEMMA GrownTransitive ==
    ASSUME NEW old, NEW mid, NEW new, Sound(old), Sound(mid), Sound(new),
           Grown(old, mid), Grown(mid, new)
    PROVE  Grown(old, new)
<1>1. /\ Len(old.outcomes) \in Nat /\ Len(mid.outcomes) \in Nat /\ Len(new.outcomes) \in Nat
      /\ DOMAIN old.outcomes = 1 .. Len(old.outcomes)
      /\ DOMAIN mid.outcomes = 1 .. Len(mid.outcomes)
      /\ old.head \in DOMAIN old.outcomes
  BY Outcomes
<1>2. Len(old.outcomes) <= Len(mid.outcomes) /\ Len(mid.outcomes) <= Len(new.outcomes)
  BY DEF Grown
<1>3. Len(old.outcomes) <= Len(new.outcomes)
  BY <1>1, <1>2
<1>4. \A i \in DOMAIN old.outcomes : i \in DOMAIN mid.outcomes
  BY <1>1, <1>2
<1>5. ASSUME NEW i \in DOMAIN old.outcomes, old.outcomes[i].status # "Unknown"
      PROVE  new.outcomes[i] = old.outcomes[i]
  BY <1>4, <1>5 DEF Grown
<1>6. ASSUME old.outcomes[old.head].status # "Unknown"
      PROVE  new.head = old.head
  <2>1. mid.head = old.head /\ mid.outcomes[old.head] = old.outcomes[old.head]
    BY <1>1, <1>6 DEF Grown
  <2> QED
    BY <1>6, <2>1 DEF Grown
<1> QED
  BY <1>3, <1>5, <1>6 DEF Grown

(* An execution step fills in one outcome, and puts the receipts it leads  *)
(* to after all others.                                                    *)
LEMMA ExecuteAppends ==
    ASSUME Sound(latest), NEW i \in DOMAIN latest.outcomes, NEW gas \in GasBurnt,
           NEW status \in Status \ {"Unknown"}, Execute(i, status, gas)
    PROVE  LET old == latest.outcomes
               n == Len(old)
           IN  /\ old[i].status = "Unknown" /\ gas \in Nat
               /\ latest'.burnt = latest.burnt + gas
               /\ latest'.head = IF i = latest.head /\ status = "SuccessReceiptId"
                                   THEN n + 1 ELSE latest.head
               /\ latest' = [outcomes |-> latest'.outcomes, head |-> latest'.head,
                             burnt |-> latest'.burnt]
               /\ latest'.outcomes \in Seq(OutcomeView)
               /\ \E new \in Nat :
                     /\ Len(latest'.outcomes) = n + new
                     /\ status = "SuccessReceiptId" => new > 0
                     /\ \A j \in 1 .. n : latest'.outcomes[j] =
                           IF j = i THEN [status |-> status, gas |-> gas] ELSE old[j]
                     /\ \A j \in 1 .. n + new :
                           ~(j <= n) => latest'.outcomes[j] = NotExecuted
<1> DEFINE s == latest.outcomes
           n == Len(s)
           view == [status |-> status, gas |-> gas]
           done == [s EXCEPT ![i] = view]
           head == IF i = latest.head /\ status = "SuccessReceiptId"
                     THEN n + 1 ELSE latest.head
<1>1. PICK new \in 0 .. MaxOutcomes - n :
         /\ status = "SuccessReceiptId" => new > 0
         /\ latest' = [outcomes |-> done \o [j \in 1 .. new |-> NotExecuted],
                       head |-> head, burnt |-> latest.burnt + gas]
  BY DEF Execute, ReplaceAt
<1>2. s[i].status = "Unknown"
  BY DEF Execute
<1> DEFINE more == [j \in 1 .. new |-> NotExecuted]
           both == done \o more
<1>3. /\ s \in Seq(OutcomeView) /\ n \in Nat \ {0} /\ DOMAIN s = 1 .. n
      /\ latest.head \in 1 .. n /\ latest.burnt \in Nat
      /\ s[latest.head].status # "SuccessReceiptId"
  BY Outcomes
<1>4. new \in Nat /\ gas \in Nat
  BY <1>3, ResultAssumption
<1>5. view \in OutcomeView /\ NotExecuted \in OutcomeView /\ view.status = status
  BY <1>4 DEF OutcomeView, NotExecuted, Status
<1>6. /\ latest'.outcomes = both /\ latest'.head = head
      /\ latest'.burnt = latest.burnt + gas
      /\ latest' = [outcomes |-> both, head |-> head, burnt |-> latest.burnt + gas]
  BY <1>1
<1>7. head = IF i = latest.head /\ status = "SuccessReceiptId"
               THEN n + 1 ELSE latest.head
  OBVIOUS
<1> HIDE DEF s, view
<1>8. /\ done \in Seq(OutcomeView) /\ Len(done) = n
      /\ \A j \in 1 .. n : done[j] = IF j = i THEN view ELSE s[j]
  <2>1. i \in 1 .. Len(s)
    BY <1>3 DEF s
  <2> QED
    BY <1>3, <1>5, <2>1, ExceptSeq
<1>9. /\ more \in Seq(OutcomeView) /\ Len(more) = new
      /\ \A j \in 1 .. new : more[j] = NotExecuted
  <2>1. more \in [1 .. new -> OutcomeView]
    BY <1>5
  <2>2. more \in Seq(OutcomeView)
    BY <1>4, <2>1, SeqDef
  <2>3. Len(more) = new
    BY <1>4, <2>1, <2>2, LenProperties
  <2> QED
    BY <2>2, <2>3
<1> HIDE DEF n, done, more, head
<1>10. /\ both \in Seq(OutcomeView) /\ Len(both) = n + new
       /\ \A j \in 1 .. n + new : both[j] = IF j <= n THEN done[j] ELSE more[j - n]
  <2>1. done \in Seq(OutcomeView) /\ more \in Seq(OutcomeView)
    BY <1>8, <1>9
  <2>2. /\ both \in Seq(OutcomeView) /\ Len(both) = Len(done) + Len(more)
        /\ \A j \in 1 .. Len(done) + Len(more) :
              both[j] = IF j <= Len(done) THEN done[j] ELSE more[j - Len(done)]
    BY <2>1, ConcatProperties
  <2>3. Len(done) = n /\ Len(more) = new
    BY <1>8, <1>9
  <2> HIDE DEF both
  <2> QED
    BY <2>2, <2>3
<1> HIDE DEF both
<1>12. \A j \in 1 .. n : j \in 1 .. n + new /\ j <= n
  BY <1>3, <1>4
<1>13. \A j \in 1 .. n : both[j] = IF j = i THEN view ELSE s[j]
  BY <1>8, <1>10, <1>12
<1>14. \A j \in 1 .. n + new : ~(j <= n) => j - n \in 1 .. new
  BY <1>3, <1>4
<1>15. \A j \in 1 .. n + new : ~(j <= n) => both[j] = NotExecuted
  BY <1>9, <1>10, <1>14
<1>16. status = "SuccessReceiptId" => new > 0
  BY <1>1
<1> QED
  BY <1>2, <1>4, <1>6, <1>7, <1>10, <1>13, <1>15, <1>16 DEF s, n, view

(* One more outcome that is executed makes a later state: the receipts it  *)
(* leads to come after all others, and it passes on the value only before  *)
(* it has one.                                                             *)
LEMMA ExecuteGrows ==
    ASSUME Sound(latest), NEW i \in DOMAIN latest.outcomes, NEW gas \in GasBurnt,
           NEW status \in Status \ {"Unknown"}, Execute(i, status, gas)
    PROVE  Sound(latest') /\ Grown(latest, latest')
<1> DEFINE s == latest.outcomes
           n == Len(s)
<1>1. /\ n \in Nat \ {0} /\ DOMAIN s = 1 .. n
      /\ latest.head \in 1 .. n /\ latest.burnt \in Nat
      /\ s[latest.head].status # "SuccessReceiptId"
  BY Outcomes
<1>2. PICK both, head, burnt :
         /\ latest' = [outcomes |-> both, head |-> head, burnt |-> burnt]
         /\ s[i].status = "Unknown" /\ gas \in Nat
         /\ burnt = latest.burnt + gas
         /\ head = IF i = latest.head /\ status = "SuccessReceiptId"
                     THEN n + 1 ELSE latest.head
         /\ both \in Seq(OutcomeView)
         /\ \E new \in Nat :
               /\ Len(both) = n + new
               /\ status = "SuccessReceiptId" => new > 0
               /\ \A j \in 1 .. n : both[j] =
                     IF j = i THEN [status |-> status, gas |-> gas] ELSE s[j]
               /\ \A j \in 1 .. n + new : ~(j <= n) => both[j] = NotExecuted
  BY ExecuteAppends
<1>3. PICK new \in Nat :
         /\ Len(both) = n + new
         /\ status = "SuccessReceiptId" => new > 0
         /\ \A j \in 1 .. n : both[j] =
               IF j = i THEN [status |-> status, gas |-> gas] ELSE s[j]
         /\ \A j \in 1 .. n + new : ~(j <= n) => both[j] = NotExecuted
  BY <1>2
<1>4. latest'.outcomes = both /\ latest'.head = head /\ latest'.burnt = burnt
  BY <1>2
<1> HIDE DEF s, n
<1>5. DOMAIN both = 1 .. n + new
  BY <1>2, <1>3, LenProperties
<1>6. \A j \in 1 .. n : j \in 1 .. n + new
  BY <1>1, <1>3
<1>7. head \in DOMAIN both /\ both[head].status # "SuccessReceiptId"
  <2>1. CASE i = latest.head /\ status = "SuccessReceiptId"
    <3>1. n + 1 \in 1 .. n + new /\ ~(n + 1 <= n)
      BY <1>1, <1>3, <2>1
    <3> QED
      BY <1>2, <1>3, <1>5, <2>1, <3>1 DEF NotExecuted
  <2>2. CASE i = latest.head /\ status # "SuccessReceiptId"
    BY <1>1, <1>2, <1>3, <1>5, <1>6, <2>2
  <2>3. CASE i # latest.head
    BY <1>1, <1>2, <1>3, <1>5, <1>6, <2>3
  <2> QED
    BY <2>1, <2>2, <2>3
<1>8. head \in Nat /\ burnt \in Nat
  BY <1>1, <1>2
<1>9. Sound(latest')
  BY <1>2, <1>4, <1>7, <1>8 DEF Sound, Execution
<1>10. n <= n + new
  BY <1>1, <1>3
<1>11. \A j \in 1 .. n : s[j].status # "Unknown" => both[j] = s[j]
  BY <1>2, <1>3
<1>12. s[latest.head].status # "Unknown" => head = latest.head
  BY <1>2
<1>13. Grown(latest, latest')
  BY <1>1, <1>3, <1>4, <1>10, <1>11, <1>12 DEF Grown, s, n
<1> QED
  BY <1>9, <1>13

(* The invariant holds in every state.                                     *)
LEMMA ResultInvHolds == Spec => []ResultInv
<1>1. Init => ResultInv
  <2> SUFFICES ASSUME Init PROVE ResultInv
    OBVIOUS
  <2>1. NotExecuted \in OutcomeView /\ NotExecuted.status = "Unknown"
    BY DEF NotExecuted, OutcomeView, Status
  <2> DEFINE s == <<NotExecuted>>
  <2>2. s \in Seq(OutcomeView) /\ DOMAIN s = {1} /\ s[1] = NotExecuted
    BY <2>1
  <2> HIDE DEF s
  <2>3. /\ latest = [outcomes |-> s, head |-> 1, burnt |-> 0] /\ settled = latest
        /\ held = Nothing /\ firm = FALSE
    BY DEF Init, s
  <2>4. Sound(latest)
    BY <2>1, <2>2, <2>3 DEF Sound, Execution
  <2>5. Grown(latest, latest)
    BY <2>2, <2>3, GrownReflexive
  <2> QED
    BY <2>3, <2>4, <2>5 DEF ResultInv, Held
<1>2. ResultInv /\ [Next]_vars => ResultInv'
  <2> SUFFICES ASSUME ResultInv, [Next]_vars PROVE ResultInv'
    OBVIOUS
  <2>1. /\ Sound(latest) /\ Sound(settled) /\ Grown(settled, latest)
        /\ held = Nothing \/ held \in Result
        /\ Held /\ firm => Backed(held, settled)
    BY DEF ResultInv
  <2>2. /\ latest.outcomes \in Seq(OutcomeView) /\ settled.outcomes \in Seq(OutcomeView)
        /\ Grown(latest, latest) /\ Grown(settled, settled)
    BY <2>1, Outcomes, GrownReflexive
  <2>3. ASSUME NEW final \in BOOLEAN, FromView(final)
        PROVE  ResultInv'
    <3>1. /\ held' = View(Polled(final)) /\ firm' = final
          /\ UNCHANGED <<latest, settled>>
      BY <2>3 DEF FromView, chainVars
    <3>2. held' \in Result
      BY <2>1, <3>1, ViewIs DEF Polled
    <3>3. firm' => Backed(held', settled')
      BY <2>1, <3>1, ViewIsBacked DEF Polled
    <3> QED
      BY <2>1, <3>1, <3>2, <3>3 DEF ResultInv
  <2>4. CASE Settle
    <3>1. settled' = latest /\ UNCHANGED <<latest, held, firm>>
      BY <2>4 DEF Settle
    <3>2. Held /\ firm => Backed(held, latest)
      BY <2>1, BackedLater DEF Held
    <3> QED
      BY <2>1, <2>2, <3>1, <3>2 DEF ResultInv, Held
  <2>5. CASE Undo
    BY <2>1, <2>2, <2>5 DEF Undo, ResultInv, Held
  <2>6. ASSUME NEW i \in DOMAIN latest.outcomes, NEW gas \in GasBurnt,
               NEW status \in Status \ {"Unknown"}, Execute(i, status, gas)
        PROVE  ResultInv'
    <3>1. Sound(latest') /\ Grown(latest, latest')
      BY <2>1, <2>6, ExecuteGrows
    <3>2. UNCHANGED <<settled, held, firm>>
      BY <2>6 DEF Execute
    <3>3. Grown(settled, latest')
      BY <2>1, <3>1, GrownTransitive
    <3> QED
      BY <2>1, <3>1, <3>2, <3>3 DEF ResultInv, Held
  <2>7. CASE UNCHANGED vars
    BY <2>7 DEF vars, chainVars, ResultInv, Held
  <2> QED
    BY <2>3, <2>4, <2>5, <2>6, <2>7 DEF Next
<1> QED
  BY <1>1, <1>2, PTL DEF Spec

(* THEOREM: the executions and the result made of them keep their types.   *)
THEOREM ResultTypeCorrect == Spec => []TypeOK
<1>1. ResultInv => TypeOK
  BY DEF ResultInv, Sound, TypeOK
<1> QED
  BY <1>1, ResultInvHolds, PTL

(* What a later poll says, of a result of final blocks: nothing else.      *)
LEMMA PolledAgain ==
    ASSUME ResultInv, [Next]_vars, Held, firm
    PROVE  \/ UNCHANGED held
           \/ \E exec : Sound(exec) /\ Backed(held, exec) /\ held' = View(exec)
<1>1. /\ Sound(latest) /\ Sound(settled) /\ Grown(settled, latest)
      /\ held \in Result /\ Backed(held, settled)
  BY DEF ResultInv, Held
<1>2. Backed(held, latest)
  BY <1>1, BackedLater
<1>3. ASSUME NEW final \in BOOLEAN, FromView(final)
      PROVE  \E exec : Sound(exec) /\ Backed(held, exec) /\ held' = View(exec)
  BY <1>1, <1>2, <1>3 DEF FromView, Polled
<1> QED
  BY <1>3 DEF Next, Settle, Undo, Execute, vars, chainVars

(* THEOREM: once into_result() of a poll of final blocks is Ok or an       *)
(* execution error, it is that for every later poll, whatever follows and  *)
(* whichever blocks lose to forks.                                         *)
THEOREM VerdictsAreFinal == Spec => VerdictIsFinal
<1>1. ResultInv /\ [Next]_vars =>
        (Held /\ firm /\ IntoResult(held) # "TxStatus" => IntoResult(held') = IntoResult(held))
  <2> SUFFICES ASSUME ResultInv, [Next]_vars, Held, firm, IntoResult(held) # "TxStatus"
               PROVE  IntoResult(held') = IntoResult(held)
    OBVIOUS
  <2>1. ASSUME NEW exec, Sound(exec), Backed(held, exec), held' = View(exec)
        PROVE  IntoResult(held') = IntoResult(held)
    <3>1. held.status \notin {"NotStarted", "Started", "Unknown"}
      BY ResultAssumption DEF IntoResult, IsSuccess, IsFailure
    <3>2. exec.outcomes[exec.head].status = held.status
      BY <2>1, <3>1 DEF Backed
    <3>3. held'.status = held.status
      BY <2>1, <3>1, <3>2, ViewIs
    <3> QED
      BY <3>3 DEF IntoResult, IsSuccess, IsFailure
  <2> QED
    BY <2>1, PolledAgain
<1> QED
  BY <1>1, ResultInvHolds, PTL DEF Spec, VerdictIsFinal

\* The outcomes of a result, as they were executed, in a later one.
OutcomesIn(old, new) ==
    /\ old.transaction_outcome.status # "Unknown"
          => new.transaction_outcome = old.transaction_outcome
    /\ \A i \in DOMAIN old.receipts_outcome :
          /\ i \in DOMAIN new.receipts_outcome
          /\ old.receipts_outcome[i].status # "Unknown"
                => new.receipts_outcome[i] = old.receipts_outcome[i]

OutcomesStay == [][Held /\ firm => OutcomesIn(held, held')]_vars

\* Each outcome that a poll of final blocks shows as executed is what every
\* later poll shows there: the chain of the model keeps executed outcomes in
\* their places, and from_view copies them.
LEMMA OutcomesAreFinal == Spec => OutcomesStay
<1>1. ResultInv /\ [Next]_vars => (Held /\ firm => OutcomesIn(held, held'))
  <2> SUFFICES ASSUME ResultInv, [Next]_vars, Held, firm PROVE OutcomesIn(held, held')
    OBVIOUS
  <2>1. ASSUME NEW exec, Sound(exec), Backed(held, exec), held' = View(exec)
        PROVE  OutcomesIn(held, held')
    <3> DEFINE n == Len(exec.outcomes)
    <3>1. n \in Nat \ {0} /\ DOMAIN exec.outcomes = 1 .. n
      BY <2>1, Outcomes
    <3>2. /\ held'.transaction_outcome = exec.outcomes[1]
          /\ DOMAIN held'.receipts_outcome = 1 .. n - 1
          /\ \A i \in 1 .. n - 1 : held'.receipts_outcome[i] = exec.outcomes[i + 1]
      BY <2>1, ViewIs
    <3>3. held.receipts_outcome \in Seq(OutcomeView)
      BY DEF ResultInv, Held, Result
    <3>4. \A i \in DOMAIN held.receipts_outcome : i \in Nat \ {0}
      BY <3>3, LenProperties
    <3> HIDE DEF n
    <3>5. \A i \in Nat \ {0} : i + 1 \in 1 .. n => i \in 1 .. n - 1
      BY <3>1
    <3>6. \A i \in DOMAIN held.receipts_outcome : i \in 1 .. n - 1
      BY <2>1, <3>1, <3>4, <3>5 DEF Backed
    <3> QED
      BY <2>1, <3>2, <3>6 DEF Backed, OutcomesIn
  <2>2. ASSUME UNCHANGED held PROVE OutcomesIn(held, held')
    BY <2>2 DEF OutcomesIn
  <2> QED
    BY <2>1, <2>2, PolledAgain
<1> QED
  BY <1>1, ResultInvHolds, PTL DEF Spec, OutcomesStay
(* THEOREM: so is each of the failures among them: what failures() of a    *)
(* poll of final blocks lists, it lists in every later poll.               *)
THEOREM FailuresAreFinal == Spec => FailuresStay
<1>1. ResultInv /\ (Held /\ firm => OutcomesIn(held, held')) =>
        (Held /\ firm =>
           /\ Failures(held) \subseteq Failures(held')
           /\ \A place \in Failures(held) :
                 Outcome(held', place) = Outcome(held, place))
  <2> SUFFICES ASSUME ResultInv, Held, OutcomesIn(held, held'),
                      NEW place \in Failures(held)
               PROVE  /\ place \in Failures(held')
                      /\ Outcome(held', place) = Outcome(held, place)
    OBVIOUS
  <2>1. "Unknown" \notin Errors
    BY ResultAssumption
  <2>2. CASE place = 0 /\ Failed(held.transaction_outcome)
    BY <2>1, <2>2 DEF OutcomesIn, Failures, Failed, Outcome
  <2>3. CASE place \in ReceiptFailures(held)
    <3>1. place # 0
      <4>1. held.receipts_outcome \in Seq(OutcomeView)
        BY DEF ResultInv, Held, Result
      <4> QED
        BY <2>3, <4>1, LenProperties DEF ReceiptFailures
    <3>2. /\ place \in DOMAIN held'.receipts_outcome
          /\ held'.receipts_outcome[place] = held.receipts_outcome[place]
          /\ Failed(held.receipts_outcome[place])
      BY <2>1, <2>3 DEF OutcomesIn, ReceiptFailures, Failed
    <3> QED
      BY <3>1, <3>2 DEF Failures, ReceiptFailures, Outcome
  <2> QED
    BY <2>2, <2>3 DEF Failures
<1> QED
  BY <1>1, ResultInvHolds, OutcomesAreFinal, PTL DEF Spec, OutcomesStay, FailuresStay

-----------------------------------------------------------------------------
(* Stale nonces                                                            *)

\* A failed result has an outcome that failed with the same error.
FailureShown ==
    Held /\ IsFailure(held) =>
        \E place \in Failures(held) : Outcome(held, place).status = held.status

(* The status of an answer is that of the outcome that has the value.      *)
LEMMA FailureShownHolds == Spec => []FailureShown
<1>1. Init => FailureShown
  BY DEF Init, FailureShown, Held
<1>2. ResultInv /\ FailureShown /\ [Next]_vars => FailureShown'
  <2> SUFFICES ASSUME ResultInv, FailureShown, [Next]_vars PROVE FailureShown'
    OBVIOUS
  <2>1. CASE UNCHANGED held
    BY <2>1 DEF FailureShown, Held, IsFailure, Failures, ReceiptFailures, Failed, Outcome
  <2>2. ASSUME NEW exec, Sound(exec), held' = View(exec), IsFailure(held')
        PROVE  \E place \in Failures(held') : Outcome(held', place).status = held'.status
    <3> DEFINE n == Len(exec.outcomes)
               h == exec.head
    <3>1. h \in 1 .. n /\ n \in Nat \ {0}
      BY <2>2, Outcomes
    <3>2. /\ held'.transaction_outcome = exec.outcomes[1]
          /\ DOMAIN held'.receipts_outcome = 1 .. n - 1
          /\ \A i \in 1 .. n - 1 : held'.receipts_outcome[i] = exec.outcomes[i + 1]
          /\ held'.status \notin {"NotStarted", "Started"}
                => held'.status = exec.outcomes[h].status
      BY <2>2, ViewIs
    <3>3. held'.status = exec.outcomes[h].status /\ held'.status \in Errors
      BY <2>2, <3>2, ResultAssumption DEF IsFailure
    <3> HIDE DEF n, h
    <3>4. CASE h = 1
      <4>1. 0 \in Failures(held') /\ Outcome(held', 0).status = held'.status
        BY <3>2, <3>3, <3>4 DEF Failures, Failed, Outcome
      <4> QED
        BY <4>1
    <3>5. CASE h # 1
      <4>1. h - 1 \in 1 .. n - 1 /\ (h - 1) + 1 = h /\ h - 1 # 0
        BY <3>1, <3>5
      <4>2. held'.receipts_outcome[h - 1] = exec.outcomes[h]
        BY <3>2, <4>1
      <4>3. h - 1 \in Failures(held')
        BY <3>2, <3>3, <4>1, <4>2 DEF Failures, ReceiptFailures, Failed
      <4>4. Outcome(held', h - 1).status = held'.status
        BY <3>3, <4>1, <4>2 DEF Outcome
      <4> QED
        BY <4>3, <4>4
    <3> QED
      BY <3>4, <3>5
  <2>3. ASSUME NEW final \in BOOLEAN, FromView(final)
        PROVE  FailureShown'
    <3>1. Sound(Polled(final)) /\ held' = View(Polled(final))
      BY <2>3 DEF FromView, Polled, ResultInv
    <3> QED
      BY <2>2, <3>1 DEF FailureShown
  <2> QED
    BY <2>1, <2>3 DEF Next, Settle, Undo, Execute, vars
<1> QED
  BY <1>1, <1>2, ResultInvHolds, PTL DEF Spec

(* THEOREM: fetch_tx_errs finds a stale nonce in exactly those answers     *)
(* whose failures() have one, and a failed result always has a failure.    *)
THEOREM StaleNoncesFound == Spec => []StaleNoncesSeen
<1>1. ResultInv /\ FailureShown => StaleNoncesSeen
  <2> SUFFICES ASSUME ResultInv, FailureShown, Held
               PROVE  LET seen == {Outcome(held, place).status : place \in Failures(held)}
                      IN  /\ Removes(held) <=> seen \intersect NonceErrors # {}
                          /\ IsFailure(held) => held.status \in seen
    BY DEF StaleNoncesSeen
  <2> DEFINE seen == {Outcome(held, place).status : place \in Failures(held)}
  <2>1. IsFailure(held) => held.status \in seen
    BY DEF FailureShown
  <2>2. NonceErrors \subseteq Errors
    BY DEF Errors
  <2>3. \A i \in DOMAIN held.receipts_outcome : i # 0
    <3>1. held.receipts_outcome \in Seq(OutcomeView)
      BY DEF ResultInv, Held, Result
    <3> QED
      BY <3>1, LenProperties
  <2>4. \A place \in Failures(held) : Outcome(held, place).status \in FetchTxErrs(held)
    BY <2>3 DEF Failures, ReceiptFailures, Failed, Outcome, FetchTxErrs
  <2>5. \A err \in FetchTxErrs(held) : err \in seen
    <3> SUFFICES ASSUME NEW err \in FetchTxErrs(held) PROVE err \in seen
      OBVIOUS
    <3>1. CASE err = held.status
      BY <2>1, <3>1 DEF FetchTxErrs, IsFailure
    <3>2. CASE err = held.transaction_outcome.status
      <4>1. 0 \in Failures(held) /\ Outcome(held, 0).status = err
        BY <3>2 DEF FetchTxErrs, Failures, Failed, Outcome
      <4> QED
        BY <4>1
    <3>3. ASSUME NEW i \in DOMAIN held.receipts_outcome,
                 err = held.receipts_outcome[i].status
          PROVE  err \in seen
      <4>1. i \in Failures(held) /\ Outcome(held, i).status = err
        BY <2>3, <3>3 DEF FetchTxErrs, Failures, ReceiptFailures, Failed, Outcome
      <4> QED
        BY <4>1
    <3> QED
      BY <3>1, <3>2, <3>3 DEF FetchTxErrs
  <2>6. Removes(held) <=> seen \intersect NonceErrors # {}
    <3>1. Removes(held) => seen \intersect NonceErrors # {}
      BY <2>5 DEF Removes
    <3>2. ASSUME seen \intersect NonceErrors # {} PROVE Removes(held)
      <4>1. PICK place \in Failures(held) : Outcome(held, place).status \in NonceErrors
        BY <3>2
      <4> QED
        BY <2>4, <4>1 DEF Removes
    <3> QED
      BY <3>1, <3>2
  <2> QED
    BY <2>1, <2>6
<1> QED
  BY <1>1, ResultInvHolds, FailureShownHolds, PTL

-----------------------------------------------------------------------------
(* Gas                                                                     *)

(* A set of naturals that is not empty has a least element, which stands   *)
(* in for induction below.                                                 *)
LEMMA Least ==
    ASSUME NEW S \in SUBSET Nat, S # {}
    PROVE  \E n \in S : \A i \in S : n <= i
<1> DEFINE Below == {pair \in Nat \X Nat : pair[1] < pair[2]}
<1>1. IsWellFoundedOn(Below, Nat)
  BY NatLessThanWellFounded DEF OpToRel
<1> HIDE DEF Below
<1>2. PICK n \in S : \A i \in S : <<i, n>> \notin Below
  BY <1>1, WFMin
<1>3. ASSUME NEW i \in S PROVE n <= i
  <2>1. n \in Nat /\ i \in Nat
    OBVIOUS
  <2>2. ~(i < n)
    BY <1>2, <2>1 DEF Below
  <2> QED
    BY <2>1, <2>2
<1> QED
  BY <1>3

\* The fold of total_gas_burnt() over the receipts in a set of places.
FoldOver(list, base, fold, places) ==
    /\ fold = [s \in SUBSET places |-> fold[s]]
    /\ \A s \in SUBSET places :
          /\ s # {} => Max(s) \in s /\ Max(s) \in Nat
          /\ fold[s] = IF s = {} THEN base
                       ELSE fold[s \ {Max(s)}] + list[Max(s)].gas

(* The greatest element of a set of naturals is its Max.                   *)
LEMMA GreatestIsMax ==
    ASSUME NEW s, NEW n \in s, \A y \in s : n >= y /\ y \in Nat
    PROVE  Max(s) = n
<1> DEFINE Greatest(x) == x \in s /\ \A y \in s : x >= y
<1>1. Max(s) = CHOOSE x : Greatest(x)
  BY DEF Max
<1>2. Greatest(n)
  OBVIOUS
<1>3. Greatest(CHOOSE x : Greatest(x))
  <2> HIDE DEF Greatest
  <2> QED
    BY <1>2
<1>4. Max(s) \in s /\ Max(s) >= n /\ n >= Max(s) /\ Max(s) \in Nat /\ n \in Nat
  BY <1>1, <1>3
<1> QED
  BY <1>4

(* A fold over the first places of a list can be continued by one.         *)
LEMMA FoldNext ==
    ASSUME NEW list, NEW base, NEW n \in Nat \ {0}, NEW g,
           FoldOver(list, base, g, 1 .. n - 1)
    PROVE  \E h : FoldOver(list, base, h, 1 .. n)
<1> DEFINE h == [s \in SUBSET (1 .. n) |->
                   IF n \in s THEN g[s \ {n}] + list[n].gas ELSE g[s]]
<1>1. ASSUME NEW s \in SUBSET (1 .. n)
      PROVE  /\ s # {} => Max(s) \in s /\ Max(s) \in Nat
             /\ h[s] = IF s = {} THEN base
                       ELSE h[s \ {Max(s)}] + list[Max(s)].gas
  <2>1. s \ {n} \in SUBSET (1 .. n - 1) /\ s \ {n} \in SUBSET (1 .. n)
    OBVIOUS
  <2>2. CASE n \in s
    <3>1. Max(s) = n
      <4>1. \A y \in s : n >= y /\ y \in Nat
        OBVIOUS
      <4> QED
        BY <2>2, <4>1, GreatestIsMax
    <3>2. h[s] = g[s \ {n}] + list[n].gas /\ h[s \ {n}] = g[s \ {n}]
      BY <2>1, <2>2
    <3> QED
      BY <2>2, <3>1, <3>2
  <2>3. CASE n \notin s
    <3>1. s \in SUBSET (1 .. n - 1) /\ s \ {Max(s)} \in SUBSET (1 .. n)
      BY <2>1, <2>3
    <3>2. h[s] = g[s] /\ h[s \ {Max(s)}] = g[s \ {Max(s)}]
      BY <2>3, <3>1
    <3> QED
      BY <3>1, <3>2 DEF FoldOver
  <2> QED
    BY <2>2, <2>3
<1> HIDE DEF h
<1>2. h = [s \in SUBSET (1 .. n) |-> h[s]]
  BY DEF h
<1>3. FoldOver(list, base, h, 1 .. n)
  BY <1>1, <1>2 DEF FoldOver
<1> QED
  BY <1>3

(* The fold exists for a list of any length.                               *)
LEMMA FoldExists ==
    ASSUME NEW list, NEW base, NEW m \in Nat
    PROVE  \E g : FoldOver(list, base, g, 1 .. m)
<1> DEFINE S == {n \in Nat : ~ \E g : FoldOver(list, base, g, 1 .. n)}
<1>1. SUFFICES S = {}
  OBVIOUS
<1>2. SUFFICES ASSUME S # {} PROVE FALSE
  OBVIOUS
<1>3. PICK n \in S : \A i \in S : n <= i
  <2>1. S \in SUBSET Nat
    OBVIOUS
  <2> HIDE DEF S
  <2> QED
    BY <1>2, <2>1, Least
<1>4. CASE n = 0
  <2> DEFINE g == [s \in {{}} |-> base]
  <2>1. /\ SUBSET (1 .. 0) = {{}} /\ g[{}] = base
        /\ g = [s \in SUBSET (1 .. 0) |-> g[s]]
    OBVIOUS
  <2> HIDE DEF g
  <2>2. FoldOver(list, base, g, 1 .. 0)
    BY <2>1 DEF FoldOver
  <2> QED
    BY <1>4, <2>2
<1>5. CASE n # 0
  <2>1. n \in Nat \ {0} /\ n - 1 \in Nat /\ ~(n <= n - 1)
    BY <1>5
  <2>2. n - 1 \notin S
    BY <1>3, <2>1
  <2>3. PICK g : FoldOver(list, base, g, 1 .. n - 1)
    BY <2>1, <2>2
  <2>4. \E h : FoldOver(list, base, h, 1 .. n)
    BY <2>1, <2>3, FoldNext
  <2> QED
    BY <2>4
<1> QED
  BY <1>4, <1>5

(* total_gas_burnt() is such a fold.                                       *)
LEMMA TotalIsFold ==
    ASSUME NEW result, NEW m \in Nat, DOMAIN result.receipts_outcome = 1 .. m
    PROVE  \E fold : /\ FoldOver(result.receipts_outcome,
                                 result.transaction_outcome.gas, fold, 1 .. m)
                     /\ TotalGasBurnt(result) = fold[1 .. m]
<1> DEFINE list == result.receipts_outcome
           base == result.transaction_outcome.gas
           D == 1 .. m
           Step(g) == [s \in SUBSET D |->
                         IF s = {} THEN base
                         ELSE g[s \ {Max(s)}] + list[Max(s)].gas]
           fold == CHOOSE g : g = Step(g)
<1>1. TotalGasBurnt(result) = fold[D]
  BY DEF TotalGasBurnt, FoldLeft, MapThenFoldSet
<1>2. PICK g : FoldOver(list, base, g, D)
  BY FoldExists
<1>3. \A s \in SUBSET D : s # {} => Max(s) \in s /\ Max(s) \in Nat
  BY <1>2 DEF FoldOver
<1>4. g = Step(g)
  <2>1. g = [s \in SUBSET D |-> g[s]]
    BY <1>2 DEF FoldOver
  <2>2. \A s \in SUBSET D :
           g[s] = IF s = {} THEN base ELSE g[s \ {Max(s)}] + list[Max(s)].gas
    BY <1>2 DEF FoldOver
  <2>3. [s \in SUBSET D |-> g[s]] = Step(g)
    BY <2>2
  <2> QED
    BY <2>1, <2>3
<1>5. fold = Step(fold)
  <2> HIDE DEF Step
  <2> QED
    BY <1>4
<1>6. FoldOver(list, base, fold, D)
  <2> HIDE DEF fold
  <2>1. \A s \in SUBSET D :
           fold[s] = IF s = {} THEN base ELSE fold[s \ {Max(s)}] + list[Max(s)].gas
    BY <1>5
  <2>2. fold = [s \in SUBSET D |-> fold[s]]
    BY <1>5
  <2> QED
    BY <1>3, <2>1, <2>2 DEF FoldOver
<1> HIDE DEF fold
<1> QED
  BY <1>1, <1>6

\* What the first outcomes of an execution burnt, up to each place.
Spent(list, p) ==
    /\ p \in [1 .. Len(list) -> Nat] /\ p[1] = list[1].gas
    /\ \A i \in 2 .. Len(list) : p[i] = p[i - 1] + list[i].gas

\* p[i] is what the base and everything before i burnt.
AddsUp(list, base, m, p) ==
    p[1] = base /\ \A i \in 1 .. m : p[i + 1] = p[i] + list[i].gas

(* A fold over the first places adds up what was spent up to there.        *)
LEMMA FoldAddsUp ==
    ASSUME NEW list, NEW base, NEW m \in Nat, NEW fold, NEW p,
           FoldOver(list, base, fold, 1 .. m), AddsUp(list, base, m, p)
    PROVE  fold[1 .. m] = p[m + 1]
<1> DEFINE S == {n \in 0 .. m : fold[1 .. n] # p[n + 1]}
<1>1. SUFFICES ASSUME S # {} PROVE FALSE
  OBVIOUS
<1>2. PICK n \in S : \A i \in S : n <= i
  <2>1. S \in SUBSET Nat
    OBVIOUS
  <2> HIDE DEF S
  <2> QED
    BY <1>1, <2>1, Least
<1>3. n \in 0 .. m /\ 1 .. n \in SUBSET (1 .. m) /\ fold[1 .. n] # p[n + 1]
  OBVIOUS
<1>4. \A i \in 0 .. m : i < n => fold[1 .. i] = p[i + 1]
  BY <1>2
<1> HIDE DEF S
<1>5. CASE n = 0
  <2>1. 1 .. n = {} /\ n + 1 = 1
    BY <1>5
  <2>2. {} \in SUBSET (1 .. m)
    OBVIOUS
  <2>3. fold[{}] = base
    BY <2>2 DEF FoldOver
  <2> QED
    BY <1>3, <2>1, <2>3 DEF AddsUp
<1>6. CASE n # 0
  <2>1. /\ n \in 1 .. m /\ n - 1 \in 0 .. m /\ n - 1 < n
        /\ (n - 1) + 1 = n /\ n \in 1 .. n
    BY <1>3, <1>6
  <2>2. fold[1 .. n - 1] = p[n]
    BY <1>4, <2>1
  <2>3. \A y \in 1 .. n : n >= y /\ y \in Nat
    BY <2>1
  <2>4. Max(1 .. n) = n
    BY <2>1, <2>3, GreatestIsMax
  <2>5. (1 .. n) \ {n} = 1 .. n - 1
    BY <2>1
  <2>6. fold[1 .. n] = fold[(1 .. n) \ {n}] + list[n].gas
    BY <1>3, <2>1, <2>4 DEF FoldOver
  <2> QED
    BY <1>3, <2>1, <2>2, <2>5, <2>6 DEF AddsUp
<1> QED
  BY <1>5, <1>6

\* What a list of outcomes burnt.
Accounted(list, total) == \E p : Spent(list, p) /\ p[Len(list)] = total

\* What an execution has burnt is what its outcomes did, and what was not
\* executed burnt nothing.
Balanced(exec) ==
    /\ \A i \in DOMAIN exec.outcomes :
          exec.outcomes[i].status = "Unknown" => exec.outcomes[i].gas = 0
    /\ Accounted(exec.outcomes, exec.burnt)

(* The total of a view is what the execution has burnt.                    *)
LEMMA TotalOfView ==
    ASSUME NEW exec, Sound(exec), Balanced(exec)
    PROVE  TotalGasBurnt(View(exec)) = exec.burnt
<1> DEFINE n == Len(exec.outcomes)
           view == View(exec)
<1>1. n \in Nat \ {0}
  BY Outcomes
<1>2. /\ view.transaction_outcome = exec.outcomes[1]
      /\ DOMAIN view.receipts_outcome = 1 .. n - 1
      /\ \A i \in DOMAIN view.receipts_outcome :
            view.receipts_outcome[i] = exec.outcomes[i + 1]
  BY ViewIs
<1>3. PICK p : /\ p[1] = exec.outcomes[1].gas /\ p[n] = exec.burnt
               /\ \A i \in 2 .. n : p[i] = p[i - 1] + exec.outcomes[i].gas
  BY DEF Balanced, Accounted, Spent
<1> DEFINE list == view.receipts_outcome
           base == view.transaction_outcome.gas
           m == n - 1
<1>4. m \in Nat /\ m + 1 = n
  BY <1>1
<1>5. \A i \in 1 .. m : i + 1 \in 2 .. n /\ (i + 1) - 1 = i
  BY <1>4
<1>6. AddsUp(list, base, m, p)
  BY <1>2, <1>3, <1>5 DEF AddsUp
<1>7. PICK fold : /\ FoldOver(list, base, fold, 1 .. m)
                  /\ TotalGasBurnt(view) = fold[1 .. m]
  BY <1>2, <1>4, TotalIsFold
<1> HIDE DEF list, base, m, n
<1>8. fold[1 .. m] = p[m + 1]
  BY <1>4, <1>6, <1>7, FoldAddsUp
<1> QED
  BY <1>3, <1>4, <1>7, <1>8 DEF view

\* An outcome that burnt nothing is filled in, and others that burn nothing
\* are put after all.
FilledIn(old, both, i, gas) ==
    \E n \in Nat \ {0}, new \in Nat :
       /\ Len(old) = n /\ Len(both) = n + new
       /\ i \in 1 .. n /\ gas \in Nat
       /\ old[i].gas = 0 /\ both[i].gas = gas
       /\ \A j \in 1 .. n : old[j].gas \in Nat /\ (j # i => both[j] = old[j])
       /\ \A j \in 1 .. n + new : ~(j <= n) => both[j].gas = 0

(* The gas of the one is then added from there on.                         *)
LEMMA AccountedAfter ==
    ASSUME NEW old, NEW both, NEW i, NEW gas, NEW total,
           FilledIn(old, both, i, gas), Accounted(old, total)
    PROVE  Accounted(both, total + gas)
<1>1. PICK n \in Nat \ {0}, new \in Nat :
       /\ Len(old) = n /\ Len(both) = n + new
       /\ i \in 1 .. n /\ gas \in Nat
       /\ old[i].gas = 0 /\ both[i].gas = gas
       /\ \A j \in 1 .. n : old[j].gas \in Nat /\ (j # i => both[j] = old[j])
       /\ \A j \in 1 .. n + new : ~(j <= n) => both[j].gas = 0
  BY DEF FilledIn
<1>2. i \in 1 .. n /\ gas \in Nat
  BY <1>1
<1>3. PICK p : Spent(old, p) /\ p[n] = total
  BY <1>1 DEF Accounted
<1> DEFINE q == [j \in 1 .. n + new |->
                   IF j < i THEN p[j]
                   ELSE IF j <= n THEN p[j] + gas ELSE p[n] + gas]
<1>4. /\ Len(old) = n /\ Len(both) = n + new
      /\ old[i].gas = 0 /\ both[i].gas = gas
      /\ \A j \in 1 .. n : old[j].gas \in Nat /\ (j # i => both[j] = old[j])
      /\ \A j \in 1 .. n + new : ~(j <= n) => both[j].gas = 0
  BY <1>1
<1>5. /\ p \in [1 .. n -> Nat] /\ p[1] = old[1].gas
      /\ \A j \in 2 .. n : p[j] = p[j - 1] + old[j].gas
  BY <1>2, <1>4, <1>3 DEF Spent
<1>6. q \in [1 .. n + new -> Nat]
  <2>1. ASSUME NEW j \in 1 .. n + new PROVE q[j] \in Nat
    <3>1. j < i \/ j <= n => j \in 1 .. n
      BY <1>2
    <3>2. n \in 1 .. n
      BY <1>2
    <3>3. p[n] \in Nat /\ (j \in 1 .. n => p[j] \in Nat)
      BY <1>5, <3>2
    <3> QED
      BY <1>2, <3>1, <3>3
  <2> HIDE DEF q
  <2>2. q = [j \in 1 .. n + new |-> q[j]]
    BY DEF q
  <2> QED
    BY <2>1, <2>2
<1>7. /\ 1 \in 1 .. n + new /\ n + new \in 1 .. n + new /\ 1 \in 1 .. n
  BY <1>2
<1>8. q[1] = both[1].gas
  <2>1. CASE i = 1
    BY <1>2, <1>4, <1>5, <1>7, <2>1
  <2>2. CASE i # 1
    <3>1. 1 < i
      BY <1>2, <2>2
    <3> QED
      BY <1>4, <1>5, <1>7, <2>2, <3>1
  <2> QED
    BY <2>1, <2>2
<1>9. ASSUME NEW j \in 2 .. n + new
      PROVE  q[j] = q[j - 1] + both[j].gas
  <2>1. /\ j \in 1 .. n + new /\ j - 1 \in 1 .. n + new
    BY <1>2
  <2>2. CASE j <= n
    <3>1. /\ j \in 1 .. n /\ j \in 2 .. n /\ j - 1 \in 1 .. n /\ j - 1 <= n
      BY <2>2
    <3>2. p[j] = p[j - 1] + old[j].gas /\ p[j] \in Nat /\ p[j - 1] \in Nat
      BY <1>5, <3>1
    <3>3. CASE j < i
      <4>1. j - 1 < i /\ both[j] = old[j]
        BY <1>2, <1>4, <3>1, <3>3
      <4> QED
        BY <2>1, <3>2, <3>3, <4>1
    <3>4. CASE j = i
      <4>1. j - 1 < i /\ ~(j < i)
        BY <3>4
      <4>2. q[j - 1] = p[j - 1] /\ q[j] = p[j] + gas
        BY <2>1, <2>2, <4>1
      <4> QED
        BY <1>4, <3>2, <3>4, <4>2
    <3>5. CASE j > i
      <4>1. ~(j - 1 < i) /\ ~(j < i) /\ both[j] = old[j]
        BY <1>2, <1>4, <3>1, <3>5
      <4>2. q[j - 1] = p[j - 1] + gas /\ q[j] = p[j] + gas
        BY <2>1, <2>2, <3>1, <4>1
      <4>3. old[j].gas \in Nat
        BY <1>4, <3>1
      <4> HIDE DEF q
      <4> QED
        BY <1>2, <3>2, <4>1, <4>2, <4>3
    <3> QED
      BY <1>2, <3>1, <3>3, <3>4, <3>5
  <2>3. CASE ~(j <= n)
    <3>1. ~(j < i) /\ ~(j - 1 < i) /\ both[j].gas = 0
      BY <1>2, <1>4, <2>1, <2>3
    <3>2. j - 1 <= n => j - 1 = n
      BY <2>3
    <3>3. n \in 1 .. n /\ p[n] \in Nat
      BY <1>5
    <3>4. q[j] = p[n] + gas
      BY <2>1, <2>3, <3>1
    <3>5. q[j - 1] = p[n] + gas
      <4>1. CASE j - 1 <= n
        BY <2>1, <3>1, <3>2, <4>1
      <4>2. CASE ~(j - 1 <= n)
        BY <2>1, <3>1, <4>2
      <4> QED
        BY <4>1, <4>2
    <3> HIDE DEF q
    <3> QED
      BY <1>2, <3>1, <3>3, <3>4, <3>5
  <2> QED
    BY <2>2, <2>3
<1>10. q[n + new] = p[n] + gas
  <2>1. ~(n + new < i) /\ (n + new <= n => n + new = n)
    BY <1>2
  <2> QED
    BY <1>7, <2>1
<1> HIDE DEF q
<1>11. Spent(both, q)
  BY <1>2, <1>4, <1>6, <1>8, <1>9 DEF Spent
<1> QED
  BY <1>4, <1>10, <1>11, <1>3 DEF Accounted

(* One more executed outcome keeps an execution balanced.                  *)
LEMMA ExecuteBalances ==
    ASSUME Sound(latest), Balanced(latest),
           NEW i \in DOMAIN latest.outcomes, NEW gas \in GasBurnt,
           NEW status \in Status \ {"Unknown"}, Execute(i, status, gas)
    PROVE  Balanced(latest') /\ latest.burnt <= latest'.burnt /\ latest'.burnt \in Nat
<1> DEFINE old == latest.outcomes
           n == Len(old)
<1>1. /\ n \in Nat \ {0} /\ DOMAIN old = 1 .. n /\ latest.burnt \in Nat
      /\ \A j \in 1 .. n : old[j] \in OutcomeView
  BY Outcomes
<1>2. PICK both, head, burnt :
         /\ latest' = [outcomes |-> both, head |-> head, burnt |-> burnt]
         /\ old[i].status = "Unknown" /\ gas \in Nat
         /\ burnt = latest.burnt + gas
         /\ head = IF i = latest.head /\ status = "SuccessReceiptId"
                     THEN n + 1 ELSE latest.head
         /\ both \in Seq(OutcomeView)
         /\ \E new \in Nat :
               /\ Len(both) = n + new
               /\ status = "SuccessReceiptId" => new > 0
               /\ \A j \in 1 .. n : both[j] =
                     IF j = i THEN [status |-> status, gas |-> gas] ELSE old[j]
               /\ \A j \in 1 .. n + new : ~(j <= n) => both[j] = NotExecuted
  BY ExecuteAppends
<1>3. PICK new \in Nat :
         /\ Len(both) = n + new
         /\ \A j \in 1 .. n : both[j] =
               IF j = i THEN [status |-> status, gas |-> gas] ELSE old[j]
         /\ \A j \in 1 .. n + new : ~(j <= n) => both[j] = NotExecuted
  BY <1>2
<1>4. /\ latest'.outcomes = both /\ latest'.burnt = burnt
      /\ gas \in Nat /\ burnt = latest.burnt + gas
  BY <1>2
<1>5. Accounted(old, latest.burnt)
  BY DEF Balanced
<1>6. /\ old[i].gas = 0
      /\ \A j \in 1 .. n : old[j].status = "Unknown" => old[j].gas = 0
  BY <1>1, <1>2 DEF Balanced
<1>7. \A j \in 1 .. n : old[j].gas \in Nat
  BY <1>1 DEF OutcomeView
<1> HIDE DEF n
<1>8. /\ i \in 1 .. n /\ both[i].gas = gas /\ both[i].status # "Unknown"
      /\ \A j \in 1 .. n : j # i => both[j] = old[j]
      /\ \A j \in 1 .. n + new : ~(j <= n) => both[j].gas = 0
  BY <1>1, <1>3 DEF NotExecuted
<1>9. Len(old) = n /\ Len(both) = n + new
  BY <1>3 DEF n
<1> HIDE DEF old
<1>10. FilledIn(old, both, i, gas)
  BY <1>1, <1>4, <1>6, <1>7, <1>8, <1>9 DEF FilledIn
<1>11. Accounted(both, burnt)
  BY <1>4, <1>5, <1>10, AccountedAfter
<1>12. DOMAIN both = 1 .. n + new
  BY <1>2, <1>9, LenProperties
<1>13. ASSUME NEW j \in DOMAIN both, both[j].status = "Unknown"
       PROVE  both[j].gas = 0
  <2>1. CASE j <= n
    <3>1. j \in 1 .. n
      BY <1>12, <2>1
    <3> QED
      BY <1>6, <1>8, <1>13, <3>1
  <2>2. CASE ~(j <= n)
    BY <1>8, <1>12, <2>2
  <2> QED
    BY <2>1, <2>2
<1>14. Balanced(latest')
  BY <1>4, <1>11, <1>13 DEF Balanced
<1> QED
  BY <1>1, <1>4, <1>14

\* The books of the chain are balanced, and a result of final blocks does
\* not say more than they do.
GasInv ==
    /\ Balanced(latest) /\ Balanced(settled)
    /\ settled.burnt <= latest.burnt
    /\ Held /\ firm => TotalGasBurnt(held) \in Nat /\ TotalGasBurnt(held) <= settled.burnt

(* The invariant holds in every state.                                     *)
LEMMA GasInvHolds == Spec => []GasInv
<1>1. Init => GasInv
  <2> SUFFICES ASSUME Init PROVE GasInv
    OBVIOUS
  <2> DEFINE s == <<NotExecuted>>
             p == [j \in {1} |-> 0]
  <2>1. /\ DOMAIN s = {1} /\ Len(s) = 1 /\ s[1] = NotExecuted
        /\ 1 .. 1 = {1} /\ 2 .. 1 = {}
    OBVIOUS
  <2>2. p \in [{1} -> Nat] /\ p[1] = 0
    OBVIOUS
  <2>3. /\ latest.outcomes = s /\ latest.burnt = 0 /\ settled = latest
        /\ held = Nothing
    BY DEF Init
  <2> HIDE DEF s, p
  <2>4. NotExecuted.gas = 0
    BY DEF NotExecuted
  <2>5. Spent(s, p) /\ p[Len(s)] = 0
    BY <2>1, <2>2, <2>4 DEF Spent
  <2>6. Balanced(latest)
    BY <2>1, <2>3, <2>4, <2>5 DEF Balanced, Accounted
  <2> QED
    BY <2>3, <2>6 DEF GasInv, Held
<1>2. ResultInv /\ GasInv /\ [Next]_vars => GasInv'
  <2> SUFFICES ASSUME ResultInv, GasInv, [Next]_vars PROVE GasInv'
    OBVIOUS
  <2>1. /\ Sound(latest) /\ Sound(settled)
        /\ latest.burnt \in Nat /\ settled.burnt \in Nat
    BY Outcomes DEF ResultInv
  <2>2. ASSUME NEW final \in BOOLEAN, FromView(final)
        PROVE  GasInv'
    <3>1. /\ UNCHANGED <<latest, settled>> /\ firm' = final
          /\ held' = View(Polled(final))
      BY <2>2 DEF FromView, chainVars
    <3>2. final => TotalGasBurnt(held') = settled.burnt
      BY <2>1, <3>1, TotalOfView DEF Polled, GasInv
    <3> QED
      BY <2>1, <3>1, <3>2 DEF GasInv, Balanced, Held
  <2>3. CASE Settle
    BY <2>1, <2>3 DEF Settle, GasInv, Balanced, Held
  <2>4. CASE Undo
    BY <2>1, <2>4 DEF Undo, GasInv, Balanced, Held
  <2>5. ASSUME NEW i \in DOMAIN latest.outcomes, NEW gas \in GasBurnt,
               NEW status \in Status \ {"Unknown"}, Execute(i, status, gas)
        PROVE  GasInv'
    <3>1. Balanced(latest') /\ latest.burnt <= latest'.burnt /\ latest'.burnt \in Nat
      BY <2>1, <2>5, ExecuteBalances DEF GasInv
    <3>2. UNCHANGED <<settled, held, firm>>
      BY <2>5 DEF Execute
    <3> QED
      BY <2>1, <3>1, <3>2 DEF GasInv, Balanced, Held
  <2>6. CASE UNCHANGED vars
    BY <2>6 DEF vars, chainVars, GasInv, Balanced, Held
  <2> QED
    BY <2>2, <2>3, <2>4, <2>5, <2>6 DEF Next
<1> QED
  BY <1>1, <1>2, ResultInvHolds, PTL DEF Spec

(* THEOREM: total_gas_burnt() is all the gas burnt up to the block that    *)
(* was asked, for executions of any length and receipts of any gas, and of *)
(* final blocks it is never more than later ones have burnt.               *)
THEOREM AllGasCounted == Spec => []GasIsAllBurnt
<1>1. ResultInv /\ GasInv => GasIsAllBurnt
  <2> SUFFICES ASSUME ResultInv, GasInv PROVE GasIsAllBurnt
    OBVIOUS
  <2>1. ASSUME NEW final \in BOOLEAN, held = View(Polled(final))
        PROVE  TotalGasBurnt(held) = Polled(final).burnt
    BY <2>1, TotalOfView DEF Polled, ResultInv, GasInv
  <2> QED
    BY <2>1 DEF GasIsAllBurnt, GasInv
<1> QED
  BY <1>1, ResultInvHolds, GasInvHolds, PTL
================================================================================
