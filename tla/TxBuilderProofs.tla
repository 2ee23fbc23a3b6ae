----------------------------- MODULE TxBuilderProofs -----------------------------
(***************************************************************************)
(* What the builders promise, for chains of methods of any length and for  *)
(* any arguments, errors, actions and settings.                            *)
(***************************************************************************)
EXTENDS TxBuilder, SequenceTheorems, TLAPS

(* A sequence with one more element.                                       *)
LEMMA Appended ==
    ASSUME NEW S, NEW list \in Seq(S), NEW elt \in S
    PROVE  LET longer == Append(list, elt) IN
           /\ longer \in Seq(S) /\ longer # <<>>
           /\ Len(list) \in Nat /\ Len(longer) = Len(list) + 1
           /\ DOMAIN list = 1 .. Len(list)
           /\ DOMAIN longer = 1 .. Len(list) + 1
           /\ \A i \in 1 .. Len(list) : longer[i] = list[i]
           /\ longer[Len(list) + 1] = elt
<1> DEFINE longer == Append(list, elt)
<1>1. /\ longer \in Seq(S) /\ longer # <<>>
      /\ Len(longer) = Len(list) + 1
      /\ \A i \in 1 .. Len(list) : longer[i] = list[i]
      /\ longer[Len(list) + 1] = elt
  BY AppendProperties
<1>2. Len(list) \in Nat /\ DOMAIN list = 1 .. Len(list)
  BY LenProperties
<1> HIDE DEF longer
<1>3. DOMAIN longer = 1 .. Len(longer)
  BY <1>1, LenProperties
<1>4. QED
  BY <1>1, <1>2, <1>3 DEF longer

-----------------------------------------------------------------------------
(* Types                                                                   *)

\* The single call's function is never handed over.
CallHasFunction == kind = "call" => function # Nothing

(* A Function with other arguments, or another amount, is one.             *)
LEMMA FunctionChanged ==
    ASSUME NEW f \in FunctionCall
    PROVE  /\ \A args \in Bytes \union Error :
                 [f EXCEPT !.args = args] \in FunctionCall
           /\ \A amount \in Amount :
                 /\ [f EXCEPT !["deposit"] = amount] \in FunctionCall
                 /\ [f EXCEPT !["gas"] = amount] \in FunctionCall
BY DEF FunctionCall

(* Function::new().                                                        *)
LEMMA NewIsFunction ==
    FunctionNew \in FunctionCall /\ FunctionNew # Nothing /\ FunctionNew.args \notin Error
<1>1. FunctionNew \in FunctionCall
  BY BuilderAssumption DEF FunctionNew, FunctionCall
<1>2. FunctionNew # Nothing
  BY <1>1, ValuesAssumption
<1>3. FunctionNew.args \notin Error
  BY BuilderAssumption DEF FunctionNew
<1> QED
  BY <1>1, <1>2, <1>3

(* What is ready to be handed over is a batch without errors, or an error. *)
LEMMA ReadyType ==
    ASSUME TypeOK, CallHasFunction
    PROVE  Ready \in Seq(Action) \union Error
<1>1. CASE kind = "call"
  <2>1. function \in FunctionCall
    BY <1>1 DEF TypeOK, CallHasFunction
  <2>2. ASSUME function.args \notin Error PROVE <<function>> \in Seq(Action)
    <3>1. function \in Action
      BY <2>1, <2>2 DEF FunctionCall, Action
    <3> QED
      BY <3>1
  <2> QED
    BY <1>1, <2>2 DEF Ready
<1>2. CASE kind # "call"
  BY <1>2 DEF Ready, TypeOK
<1> QED
  BY <1>1, <1>2

(* The step of every builder method keeps the types.                       *)
LEMMA BuilderTypes == Spec => [](TypeOK /\ CallHasFunction)
<1>1. Init => TypeOK /\ CallHasFunction
  <2> SUFFICES ASSUME Init PROVE TypeOK /\ CallHasFunction
    OBVIOUS
  <2>1. FunctionNew \in FunctionCall /\ FunctionNew # Nothing
    BY NewIsFunction
  <2>2. PICK a \in Plain : asked = IF kind = "send" THEN <<a>> ELSE <<>>
    BY DEF Init
  <2>3. a \in Plain \union FunctionCall /\ a \in Action
    BY DEF Action
  <2>4. asked \in Seq(Plain \union FunctionCall) /\ asked \in Seq(Action)
    <3>1. CASE asked = <<a>>
      <4>1. <<a>> \in Seq(Plain \union FunctionCall)
        BY <2>3
      <4>2. <<a>> \in Seq(Action)
        BY <2>3
      <4> QED
        BY <3>1, <4>1, <4>2
    <3>2. CASE asked = <<>>
      BY <3>2
    <3> QED
      BY <2>2, <3>1, <3>2
  <2>5. function \in FunctionCall \union {Nothing} /\ CallHasFunction
    BY <2>1 DEF Init, CallHasFunction
  <2>6. wrote \in Seq(Written)
    BY DEF Init
  <2> QED
    BY <2>4, <2>5, <2>6, BuilderAssumption DEF Init, TypeOK
<1>2. TypeOK /\ CallHasFunction /\ [Next]_vars => TypeOK' /\ CallHasFunction'
  <2> SUFFICES ASSUME TypeOK, CallHasFunction, [Next]_vars
               PROVE  TypeOK' /\ CallHasFunction'
    OBVIOUS
  <2>1. CASE NewFunction
    <3>1. FunctionNew \in FunctionCall
      BY NewIsFunction
    <3>2. wrote' \in Seq(Written)
      BY <2>1 DEF NewFunction
    <3> QED
      BY <2>1, <3>1, <3>2 DEF NewFunction, TypeOK, CallHasFunction, settings
  <2>2. ASSUME NEW raw \in BOOLEAN, NEW arg \in Bytes \union Error,
               NEW args \in Bytes \union Error, Write(raw, arg, args)
        PROVE  TypeOK' /\ CallHasFunction'
    <3>1. function \in FunctionCall /\ function # Nothing
      BY <2>2 DEF Write, InFunction, TypeOK
    <3>2. function' \in FunctionCall
      BY <2>2, <3>1, FunctionChanged DEF Write
    <3>3. [raw |-> raw, arg |-> arg] \in Written
      BY DEF Written
    <3>4. wrote' \in Seq(Written)
      BY <2>2, <3>3, AppendProperties DEF Write, TypeOK
    <3>5. function' # Nothing
      BY <3>2, ValuesAssumption
    <3> QED
      BY <2>2, <3>2, <3>4, <3>5 DEF Write, TypeOK, CallHasFunction, settings
  <2>3. ASSUME NEW amount \in Amount, Deposit(amount) \/ Gas(amount)
        PROVE  TypeOK' /\ CallHasFunction'
    <3>1. function \in FunctionCall
      BY <2>3 DEF Deposit, Gas, SetAmount, InFunction, TypeOK
    <3>2. function' \in FunctionCall /\ function' # Nothing
      BY <2>3, <3>1, FunctionChanged, ValuesAssumption DEF Deposit, Gas, SetAmount
    <3> QED
      BY <2>3, <3>2 DEF Deposit, Gas, SetAmount, TypeOK, CallHasFunction, settings
  <2>4. ASSUME NEW action \in Plain, Push(action)
        PROVE  TypeOK' /\ CallHasFunction'
    <3>1. action \in Plain \union FunctionCall /\ action \in Action
      BY DEF Action
    <3>2. asked' \in Seq(Plain \union FunctionCall)
      BY <2>4, <3>1, AppendProperties DEF Push, TypeOK
    <3>3. actions' \in Seq(Action) \union Error
      BY <2>4, <3>1, AppendProperties DEF Push, Pushed, TypeOK
    <3> QED
      BY <2>4, <3>2, <3>3 DEF Push, TypeOK, CallHasFunction, settings
  <2>5. CASE Call
    <3>1. function \in FunctionCall /\ function \in Plain \union FunctionCall
      BY <2>5 DEF Call, TypeOK
    <3>2. asked' \in Seq(Plain \union FunctionCall)
      BY <2>5, <3>1, AppendProperties DEF Call, TypeOK
    <3>3. actions' \in Seq(Action) \union Error
      <4>1. CASE function.args \in Error
        BY <2>5, <4>1 DEF Call
      <4>2. CASE function.args \notin Error
        <5>1. function \in Action
          BY <3>1, <4>2 DEF FunctionCall, Action
        <5> QED
          BY <2>5, <4>2, <5>1, AppendProperties DEF Call, Pushed, TypeOK
      <4> QED
        BY <4>1, <4>2
    <3>4. wrote' \in Seq(Written)
      BY <2>5 DEF Call
    <3> QED
      BY <2>5, <3>2, <3>3, <3>4 DEF Call, TypeOK, CallHasFunction, settings
  <2>6. ASSUME NEW delays \in Strategy, Retry(delays)
        PROVE  TypeOK' /\ CallHasFunction'
    BY <2>6 DEF Retry, TypeOK, CallHasFunction
  <2>7. ASSUME NEW status \in Wait, WaitUntil(status)
        PROVE  TypeOK' /\ CallHasFunction'
    BY <2>7 DEF WaitUntil, TypeOK, CallHasFunction
  <2>8. ASSUME NEW delays \in Strategy \union {NoStrategy}, NEW status \in Wait,
               NEW async \in BOOLEAN, Submit(delays, status, async)
        PROVE  TypeOK' /\ CallHasFunction'
    <3>1. request' \in Request \union Error
      BY <2>8, ReadyType DEF Submit, Request
    <3> QED
      BY <2>8, <3>1 DEF Submit, TypeOK, CallHasFunction, settings
  <2>9. CASE UNCHANGED vars
    BY <2>9 DEF vars, settings, TypeOK, CallHasFunction
  <2>10. ASSUME NEW bytes \in Bytes, Args(bytes)
         PROVE  TypeOK' /\ CallHasFunction'
    BY <2>2, <2>10 DEF Args
  <2>11. ASSUME NEW result \in Bytes \union Error, ArgsSerialize(result)
         PROVE  TypeOK' /\ CallHasFunction'
    BY <2>2, <2>11 DEF ArgsSerialize
  <2>12. CASE Transact \/ TransactAsync
    BY <2>8, <2>12, BuilderAssumption DEF Transact, TransactAsync, TypeOK
  <2> QED
    BY <2>1, <2>3, <2>4, <2>5, <2>6, <2>7, <2>9, <2>10, <2>11, <2>12
       DEF Next, Submitted
<1> QED
  BY <1>1, <1>2, PTL DEF Spec

(* THEOREM: the builders' variables keep their types; in particular what   *)
(* is handed over holds no arguments that could not be serialised.         *)
THEOREM BuilderTypeCorrect == Spec => []TypeOK
BY BuilderTypes, PTL
-----------------------------------------------------------------------------
(* Arguments                                                               *)

\* What args() is given needs no serialising, so it is never an error.
RawIsGood == \A i \in DOMAIN wrote : wrote[i].raw => wrote[i].arg \in Bytes

(* A Function's arguments are an error exactly as long as one that could   *)
(* not be serialised has not been replaced.                                *)
LEMMA ErrorIsKept ==
    ASSUME TypeOK, RawIsGood, ArgsAsWritten, function # Nothing
    PROVE  function.args \in Error <=> \E i \in DOMAIN wrote : NotReplaced(i)
<1>1. CASE \E i \in DOMAIN wrote : NotReplaced(i)
  BY <1>1 DEF ArgsAsWritten, NotReplaced
<1>2. CASE ~\E i \in DOMAIN wrote : NotReplaced(i)
  <2>1. function.args = IF wrote = <<>> THEN NoArgs ELSE wrote[Len(wrote)].arg
    BY <1>2 DEF ArgsAsWritten
  <2>2. NoArgs \notin Error
    BY BuilderAssumption
  <2>3. CASE wrote = <<>>
    BY <1>2, <2>1, <2>2, <2>3
  <2>4. CASE wrote # <<>>
    <3> DEFINE n == Len(wrote)
    <3>1. n \in Nat /\ DOMAIN wrote = 1 .. n /\ wrote \in Seq(Written)
      BY LenProperties DEF TypeOK
    <3>2. n # 0
      BY <2>4, <3>1, EmptySeq
    <3> HIDE DEF n
    <3>3. n \in DOMAIN wrote /\ \A j \in DOMAIN wrote : ~(j > n)
      BY <3>1, <3>2
    <3>4. ~NotReplaced(n)
      BY <1>2, <3>3
    <3>5. wrote[n] \in Written
      BY <3>1, <3>3, ElementOfSeq
    <3>6. ~wrote[n].raw => wrote[n].arg \notin Error
      BY <3>3, <3>4 DEF NotReplaced
    <3>7. wrote[n].raw => wrote[n].arg \notin Error
      BY <3>3, BuilderAssumption DEF RawIsGood
    <3>8. function.args = wrote[n].arg
      BY <2>1, <2>4 DEF n
    <3> QED
      BY <1>2, <3>6, <3>7, <3>8
  <2> QED
    BY <2>3, <2>4
<1> QED
  BY <1>1, <1>2

(* Each argument call leaves the arguments that it should.                 *)
LEMMA WriteKeeps ==
    ASSUME TypeOK, RawIsGood, ArgsAsWritten, NEW raw \in BOOLEAN,
           NEW arg \in Bytes \union Error, NEW args \in Bytes \union Error,
           Write(raw, arg, args), raw => arg \in Bytes,
           args = IF raw /\ function.args \in Error THEN function.args ELSE arg
    PROVE  RawIsGood' /\ ArgsAsWritten'
<1> DEFINE n == Len(wrote)
           new == [raw |-> raw, arg |-> arg]
           longer == Append(wrote, new)
<1>1. new \in Written /\ new.raw = raw /\ new.arg = arg
  BY DEF Written
<1>2. /\ function # Nothing /\ function \in FunctionCall
      /\ wrote' = longer /\ function' = [function EXCEPT !.args = args]
  BY DEF Write, InFunction, TypeOK
<1>3. function'.args = args
  BY <1>2 DEF FunctionCall
<1>4. /\ n \in Nat /\ longer # <<>> /\ Len(longer) = n + 1
      /\ DOMAIN wrote = 1 .. n /\ DOMAIN longer = 1 .. n + 1
      /\ \A i \in 1 .. n : longer[i] = wrote[i]
      /\ longer[n + 1] = new
  <2> HIDE DEF new
  <2> QED
    BY <1>1, Appended DEF TypeOK
<1> HIDE DEF new, longer, n
<1>5. \A i \in 1 .. n + 1 : i \in 1 .. n \/ i = n + 1
  BY <1>4
<1>6. n + 1 \in 1 .. n + 1 /\ \A i \in 1 .. n : i \in 1 .. n + 1 /\ n + 1 > i
  BY <1>4
<1>7. \A j \in 1 .. n + 1 : ~(j > n + 1)
  BY <1>4
<1>8. RawIsGood'
  BY <1>1, <1>2, <1>4, <1>5 DEF RawIsGood
<1>9. CASE raw /\ function.args \in Error
  <2>1. PICK i \in 1 .. n : NotReplaced(i) /\ function.args = wrote[i].arg
    BY <1>2, <1>4, <1>9, ErrorIsKept DEF ArgsAsWritten
  <2>2. /\ ~longer[i].raw /\ longer[i].arg \in Error
        /\ \A j \in 1 .. n + 1 : j > i => longer[j].raw
    BY <1>1, <1>4, <1>5, <1>9, <2>1 DEF NotReplaced
  <2>3. NotReplaced(i)'
    BY <1>2, <1>4, <2>2 DEF NotReplaced
  <2>4. function'.args = wrote'[i].arg
    BY <1>2, <1>3, <1>4, <1>9, <2>1
  <2> QED
    BY <1>2, <1>4, <1>6, <1>8, <2>1, <2>3, <2>4 DEF ArgsAsWritten
<1>10. CASE ~raw /\ arg \in Error
  <2>1. PICK i \in 1 .. n + 1 : i = n + 1
    BY <1>6
  <2>2. NotReplaced(i)'
    BY <1>1, <1>2, <1>4, <1>7, <1>10, <2>1 DEF NotReplaced
  <2>3. function'.args = wrote'[i].arg
    BY <1>1, <1>2, <1>3, <1>4, <1>10, <2>1
  <2> QED
    BY <1>2, <1>4, <1>8, <2>1, <2>2, <2>3 DEF ArgsAsWritten
<1>11. CASE /\ ~(raw /\ function.args \in Error)
            /\ ~(~raw /\ arg \in Error)
  <2>1. function'.args = wrote'[Len(wrote')].arg /\ wrote' # <<>>
    BY <1>1, <1>2, <1>3, <1>4, <1>11
  <2>2. ASSUME NEW i \in 1 .. n + 1, NotReplaced(i)'
        PROVE  FALSE
    <3>1. /\ ~longer[i].raw /\ longer[i].arg \in Error
          /\ \A j \in 1 .. n + 1 : j > i => longer[j].raw
      BY <1>2, <1>4, <2>2 DEF NotReplaced
    <3>2. i # n + 1
      BY <1>1, <1>4, <1>11, <3>1
    <3>3. i \in 1 .. n
      BY <1>5, <3>2
    <3>4. raw
      BY <1>1, <1>4, <1>6, <3>1, <3>3
    <3>5. \A j \in 1 .. n : j > i => wrote[j].raw
      BY <1>4, <1>6, <3>1
    <3>6. NotReplaced(i)
      BY <1>4, <3>1, <3>3, <3>5 DEF NotReplaced
    <3>7. function.args \in Error
      BY <1>2, <1>4, <3>3, <3>6, ErrorIsKept
    <3> QED
      BY <1>11, <3>4, <3>7
  <2> QED
    BY <1>2, <1>4, <1>8, <2>1, <2>2 DEF ArgsAsWritten
<1> QED
  BY <1>9, <1>10, <1>11

(* Arguments stay as written.                                              *)
LEMMA ArgsInvHolds == Spec => [](RawIsGood /\ ArgsAsWritten)
<1>1. Init => RawIsGood /\ ArgsAsWritten
  <2> SUFFICES ASSUME Init PROVE RawIsGood /\ ArgsAsWritten
    OBVIOUS
  <2>1. wrote = <<>> /\ DOMAIN wrote = {}
    BY DEF Init
  <2>2. function # Nothing => function.args = NoArgs
    BY DEF Init, FunctionNew
  <2> QED
    BY <2>1, <2>2 DEF RawIsGood, ArgsAsWritten
<1>2. TypeOK /\ RawIsGood /\ ArgsAsWritten /\ [Next]_vars => RawIsGood' /\ ArgsAsWritten'
  <2> SUFFICES ASSUME TypeOK, RawIsGood, ArgsAsWritten, [Next]_vars
               PROVE  RawIsGood' /\ ArgsAsWritten'
    OBVIOUS
  <2>1. ASSUME wrote' = <<>>, function' # Nothing => function'.args = NoArgs
        PROVE  RawIsGood' /\ ArgsAsWritten'
    <3>1. DOMAIN wrote' = {}
      BY <2>1
    <3> QED
      BY <2>1, <3>1 DEF RawIsGood, ArgsAsWritten
  <2>2. CASE NewFunction \/ Call
    BY <2>1, <2>2 DEF NewFunction, Call, FunctionNew
  <2>3. ASSUME UNCHANGED wrote,
               \/ UNCHANGED function
               \/ /\ function # Nothing /\ function' # Nothing
                  /\ function'.args = function.args
        PROVE  RawIsGood' /\ ArgsAsWritten'
    BY <2>3 DEF RawIsGood, ArgsAsWritten, NotReplaced
  <2>4. ASSUME NEW amount \in Amount, Deposit(amount) \/ Gas(amount)
        PROVE  RawIsGood' /\ ArgsAsWritten'
    <3>1. function \in FunctionCall /\ function # Nothing /\ UNCHANGED wrote
      BY <2>4 DEF Deposit, Gas, SetAmount, InFunction, TypeOK
    <3>2. function' \in FunctionCall /\ function' # Nothing
      BY <2>4, <3>1, FunctionChanged, ValuesAssumption DEF Deposit, Gas, SetAmount
    <3>3. function'.args = function.args
      BY <2>4, <3>1 DEF Deposit, Gas, SetAmount, FunctionCall
    <3> QED
      BY <2>3, <3>1, <3>2, <3>3
  <2>5. ASSUME NEW bytes \in Bytes, Args(bytes)
        PROVE  RawIsGood' /\ ArgsAsWritten'
    BY <2>5, WriteKeeps DEF Args
  <2>6. ASSUME NEW result \in Bytes \union Error, ArgsSerialize(result)
        PROVE  RawIsGood' /\ ArgsAsWritten'
    BY <2>6, WriteKeeps DEF ArgsSerialize
  <2>7. ASSUME NEW action, NEW delays, NEW status, NEW async,
               \/ Push(action) \/ Retry(delays) \/ WaitUntil(status)
               \/ Submit(delays, status, async) \/ UNCHANGED vars
        PROVE  RawIsGood' /\ ArgsAsWritten'
    BY <2>3, <2>7 DEF Push, Retry, WaitUntil, Submit, vars
  <2> QED
    BY <2>2, <2>4, <2>5, <2>6, <2>7 DEF Next, Submitted, Transact, TransactAsync
<1> QED
  BY <1>1, <1>2, BuilderTypeCorrect, PTL DEF Spec

(* THEOREM: whatever is chained on a Function, its arguments are what was  *)
(* written last, or the error of a value that nothing has replaced since.  *)
THEOREM ArgumentsAreKept == Spec => []ArgsAsWritten
BY ArgsInvHolds, PTL
-----------------------------------------------------------------------------
(* Batches                                                                 *)

\* What becomes of a list of actions: the last error in it, or the list.
KeptOf(list, result) ==
    IF \E i \in DOMAIN list : Unusable(list[i])
      THEN \E i \in DOMAIN list : LastUnusable(list, i) /\ result = list[i].args
      ELSE result = list

\* The batch so far, while the single call has its function only.
BatchKept == kind # "call" => KeptOf(asked, actions)

(* What is kept is an error exactly if the list has an unusable action.    *)
LEMMA KeptIsError ==
    ASSUME NEW list \in Seq(Plain \union FunctionCall), NEW result, KeptOf(list, result)
    PROVE  result \in Error <=> \E i \in DOMAIN list : Unusable(list[i])
BY ValuesAssumption DEF KeptOf, LastUnusable, Unusable

(* Another action drops out after an error and follows otherwise; one that *)
(* is unusable itself replaces everything.                                 *)
LEMMA KeptOfLonger ==
    ASSUME NEW list \in Seq(Plain \union FunctionCall), NEW result,
           KeptOf(list, result), NEW action \in Plain \union FunctionCall
    PROVE  /\ Unusable(action) => KeptOf(Append(list, action), action.args)
           /\ ~Unusable(action) =>
                 KeptOf(Append(list, action),
                        IF result \in Error THEN result ELSE Append(result, action))
<1> DEFINE n == Len(list)
           longer == Append(list, action)
<1>1. /\ n \in Nat
      /\ DOMAIN list = 1 .. n /\ DOMAIN longer = 1 .. n + 1
      /\ \A i \in 1 .. n : longer[i] = list[i]
      /\ longer[n + 1] = action
  BY Appended
<1> HIDE DEF n, longer
<1>2. n + 1 \in 1 .. n + 1 /\ \A i \in 1 .. n : i \in 1 .. n + 1
  BY <1>1
<1>3. \A i \in 1 .. n + 1 : i \in 1 .. n \/ i = n + 1
  BY <1>1
<1>4. \A j \in 1 .. n + 1 : ~(j > n + 1)
  BY <1>1
<1>5. ASSUME Unusable(action)
      PROVE  KeptOf(longer, action.args)
  <2>1. LastUnusable(longer, n + 1)
    BY <1>1, <1>4, <1>5 DEF LastUnusable
  <2>2. Unusable(longer[n + 1])
    BY <1>1, <1>5
  <2> QED
    BY <1>1, <1>2, <2>1, <2>2 DEF KeptOf
<1>6. ASSUME ~Unusable(action), result \in Error
      PROVE  KeptOf(longer, result)
  <2>1. PICK i \in 1 .. n : LastUnusable(list, i) /\ result = list[i].args
    BY <1>1, <1>6, KeptIsError DEF KeptOf
  <2>2. Unusable(longer[i])
    BY <1>1, <2>1 DEF LastUnusable
  <2>3. LastUnusable(longer, i)
    BY <1>1, <1>3, <1>6, <2>1, <2>2 DEF LastUnusable
  <2> QED
    BY <1>1, <1>2, <2>1, <2>2, <2>3 DEF KeptOf
<1>7. ASSUME ~Unusable(action), result \notin Error
      PROVE  KeptOf(longer, Append(result, action))
  <2>1. ~\E i \in DOMAIN list : Unusable(list[i])
    BY <1>7, KeptIsError
  <2>2. result = list
    BY <2>1 DEF KeptOf
  <2>3. ~\E i \in DOMAIN longer : Unusable(longer[i])
    BY <1>1, <1>3, <1>7, <2>1
  <2> QED
    BY <2>2, <2>3 DEF KeptOf, longer
<1> QED
  BY <1>5, <1>6, <1>7 DEF longer

(* A single call is a list of one.                                         *)
LEMMA KeptOfCall ==
    ASSUME NEW f \in FunctionCall
    PROVE  KeptOf(<<f>>, IF f.args \in Error THEN f.args ELSE <<f>>)
<1>1. f \notin Plain
  BY ValuesAssumption
<1>2. Unusable(f) <=> f.args \in Error
  BY <1>1 DEF Unusable
<1>3. DOMAIN <<f>> = {1} /\ <<f>>[1] = f
  OBVIOUS
<1>4. \A j \in {1} : ~(j > 1)
  OBVIOUS
<1> QED
  BY <1>2, <1>3, <1>4 DEF KeptOf, LastUnusable

(* What is ready to be handed over is what is kept of what was asked for.  *)
LEMMA ReadyIsKept ==
    ASSUME TypeOK, CallHasFunction, BatchKept
    PROVE  KeptOf(Asked, Ready) /\ Asked \in Seq(Plain \union FunctionCall)
<1>1. CASE kind = "call"
  <2>1. function \in FunctionCall
    BY <1>1 DEF TypeOK, CallHasFunction
  <2>2. <<function>> \in Seq(Plain \union FunctionCall)
    BY <2>1
  <2> QED
    BY <1>1, <2>1, <2>2, KeptOfCall DEF Asked, Ready
<1>2. CASE kind # "call"
  BY <1>2 DEF Asked, Ready, BatchKept, TypeOK
<1> QED
  BY <1>1, <1>2

(* Handing it over does as asked.                                          *)
LEMMA SubmitAsAsked ==
    ASSUME TypeOK, CallHasFunction, BatchKept,
           NEW delays \in Strategy \union {NoStrategy}, NEW status \in Wait,
           NEW async \in BOOLEAN, Submit(delays, status, async)
    PROVE  RequestAsAsked'
<1>1. /\ UNCHANGED <<kind, function, asked>>
      /\ request' = IF Ready \in Error THEN Ready
                    ELSE [actions |-> Ready, strategy |-> delays,
                          wait_until |-> status, async |-> async]
  BY DEF Submit
<1>2. Asked' = Asked
  BY <1>1 DEF Asked
<1>3. KeptOf(Asked, Ready) /\ Asked \in Seq(Plain \union FunctionCall)
  BY ReadyIsKept
<1>4. Ready \in Error <=> \E i \in DOMAIN Asked : Unusable(Asked[i])
  BY <1>3, KeptIsError
<1>5. Ready \in Seq(Action) \union Error
  BY ReadyType
<1> DEFINE list == Asked
           ready == Ready
<1>6. CASE ready \in Error
  <2>1. request' = ready
    BY <1>1, <1>6
  <2>2. PICK i \in DOMAIN list : LastUnusable(list, i) /\ ready = list[i].args
    BY <1>3, <1>4, <1>6 DEF KeptOf
  <2> QED
    BY <1>2, <1>4, <1>6, <2>1, <2>2 DEF RequestAsAsked, LastUnusable, Unusable
<1>7. CASE ready \notin Error
  <2>1. request' = [actions |-> ready, strategy |-> delays,
                    wait_until |-> status, async |-> async]
    BY <1>1, <1>7
  <2>2. request' \in Request /\ request'.actions = ready
    BY <1>5, <1>7, <2>1 DEF Request
  <2>3. ready = list
    BY <1>3, <1>4, <1>7 DEF KeptOf
  <2> QED
    BY <1>2, <1>4, <1>7, <2>2, <2>3 DEF RequestAsAsked, LastUnusable, Unusable
<1> QED
  BY <1>6, <1>7

(* The batch keeps what it should, and what is sent is what it keeps.      *)
LEMMA BatchInvHolds == Spec => [](BatchKept /\ RequestAsAsked)
<1>1. Init => BatchKept /\ RequestAsAsked
  <2> SUFFICES ASSUME Init PROVE BatchKept /\ RequestAsAsked
    OBVIOUS
  <2>1. PICK a \in Plain : asked = IF kind = "send" THEN <<a>> ELSE <<>>
    BY DEF Init
  <2>2. ~\E i \in DOMAIN asked : Unusable(asked[i])
    <3>1. CASE asked = <<a>>
      <4>1. DOMAIN <<a>> = {1} /\ <<a>>[1] = a
        OBVIOUS
      <4> QED
        BY <3>1, <4>1 DEF Unusable
    <3>2. CASE asked = <<>>
      BY <3>2
    <3> QED
      BY <2>1, <3>1, <3>2
  <2> QED
    BY <2>2 DEF Init, BatchKept, KeptOf, RequestAsAsked
<1>2. TypeOK /\ CallHasFunction /\ BatchKept /\ RequestAsAsked /\ [Next]_vars
        => BatchKept' /\ RequestAsAsked'
  <2> SUFFICES ASSUME TypeOK, CallHasFunction, BatchKept, RequestAsAsked, [Next]_vars
               PROVE  BatchKept' /\ RequestAsAsked'
    OBVIOUS
  <2>1. ASSUME request = Nothing, UNCHANGED request PROVE RequestAsAsked'
    BY <2>1 DEF RequestAsAsked
  <2>2. ASSUME UNCHANGED <<kind, actions, asked>> PROVE BatchKept'
    BY <2>2 DEF BatchKept, KeptOf, LastUnusable, Unusable
  <2>3. ASSUME NEW action \in Plain, Push(action)
        PROVE  BatchKept' /\ RequestAsAsked'
    <3>1. /\ request = Nothing /\ kind = "batch" /\ UNCHANGED <<kind, request>>
          /\ actions' = IF actions \in Error THEN actions ELSE Append(actions, action)
          /\ asked' = Append(asked, action)
      BY <2>3 DEF Push, Building, Pushed
    <3>2. ~Unusable(action)
      BY DEF Unusable
    <3>3. KeptOf(asked', actions')
      BY <3>1, <3>2, KeptOfLonger DEF BatchKept, TypeOK
    <3> QED
      BY <2>1, <3>1, <3>3 DEF BatchKept, KeptOf, LastUnusable, Unusable
  <2>4. CASE Call
    <3>1. /\ request = Nothing /\ kind = "batch" /\ UNCHANGED <<kind, request>>
          /\ actions' = IF function.args \in Error THEN function.args
                        ELSE IF actions \in Error THEN actions
                        ELSE Append(actions, function)
          /\ asked' = Append(asked, function)
      BY <2>4 DEF Call, Building, Pushed
    <3>2. function \in FunctionCall
      BY <2>4 DEF Call, TypeOK
    <3>3. Unusable(function) <=> function.args \in Error
      BY <3>2, ValuesAssumption DEF Unusable
    <3>4. KeptOf(asked', actions')
      BY <3>1, <3>2, <3>3, KeptOfLonger DEF BatchKept, TypeOK
    <3> QED
      BY <2>1, <3>1, <3>4 DEF BatchKept, KeptOf, LastUnusable, Unusable
  <2>5. ASSUME NEW delays \in Strategy \union {NoStrategy}, NEW status \in Wait,
               NEW async \in BOOLEAN, Submit(delays, status, async)
        PROVE  BatchKept' /\ RequestAsAsked'
    <3>1. UNCHANGED <<kind, actions, asked>>
      BY <2>5 DEF Submit
    <3> QED
      BY <2>2, <2>5, <3>1, SubmitAsAsked
  <2>6. CASE Transact \/ TransactAsync
    BY <2>5, <2>6, BuilderAssumption DEF Transact, TransactAsync, TypeOK
  <2>7. ASSUME NEW raw, NEW arg, NEW args, NEW field, NEW amount, NEW delays, NEW status,
               \/ NewFunction \/ Write(raw, arg, args) \/ SetAmount(field, amount)
               \/ Retry(delays) \/ WaitUntil(status)
        PROVE  BatchKept' /\ RequestAsAsked'
    <3>1. /\ request = Nothing
          /\ UNCHANGED <<kind, actions, asked, request>>
      BY <2>7 DEF NewFunction, Write, SetAmount, Retry, WaitUntil, InFunction, Building
    <3> QED
      BY <2>1, <2>2, <3>1
  <2>8. CASE UNCHANGED vars
    <3>1. UNCHANGED <<kind, actions, asked, function, request>>
      BY <2>8 DEF vars
    <3>2. RequestAsAsked'
      BY <3>1 DEF RequestAsAsked, Asked, LastUnusable, Unusable
    <3> QED
      BY <2>2, <3>1, <3>2
  <2> QED
    BY <2>3, <2>4, <2>6, <2>7, <2>8
       DEF Next, Submitted, Args, ArgsSerialize, Deposit, Gas
<1> QED
  BY <1>1, <1>2, BuilderTypes, PTL DEF Spec

(* THEOREM: whatever is chained in whichever order, a batch or a single    *)
(* call with unusable arguments is not sent and ends with the last such    *)
(* error; all others are sent as they were asked for.                      *)
THEOREM SentAsAsked == Spec => []RequestAsAsked
BY BatchInvHolds, PTL
================================================================================
