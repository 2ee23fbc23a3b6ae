------------------------------ MODULE TxBuilder ------------------------------
(***************************************************************************)
(* The builders of near-fetch/src/ops.rs: Function, the single call        *)
(* FunctionCallTransaction, the batch Transaction, and the                 *)
(* RetryableTransaction that send_tx returns.  Errors in arguments are     *)
(* kept in the builder and surface only in transact or transact_async.     *)
(* Sequential: one caller chains methods and submits once.                 *)
(***************************************************************************)
EXTENDS Naturals, Sequences

CONSTANTS
    Bytes,      \* argument values that can be serialised, in their encoding
    Error,      \* errors of serialisation
    NoArgs,     \* the empty argument of a new Function; one of Bytes
    Amount,     \* values of gas and deposit
    Default,    \* DEFAULT_CALL_FN_GAS and DEFAULT_CALL_DEPOSIT; in Amount
    Plain,      \* actions other than function calls
    Strategy,   \* retry strategies
    NoStrategy, \* none was set
    Wait,       \* TxExecutionStatus values to wait for, with its default
    WaitDefault,
    WaitNone,   \* TxExecutionStatus::None
    Nothing,    \* no Function under construction, or no request yet
    MaxArgs,    \* bound: argument calls on one Function
    MaxActions  \* bound: actions of one batch

ASSUME BuilderAssumption ==
    /\ NoArgs \in Bytes /\ Default \in Amount /\ {WaitDefault, WaitNone} \subseteq Wait
    /\ NoStrategy \notin Strategy /\ Nothing \notin Bytes \union Error
    /\ Bytes \intersect Error = {}
    /\ MaxArgs \in Nat /\ MaxActions \in Nat

VARIABLES
    kind,       \* "call", "batch" or "send": which builder
    function,   \* the Function under construction
    actions,    \* Result<Vec<Action>>: a sequence, or an error
    strategy,   \* retry strategy set so far
    wait_until, \* status to wait for set so far
    request,    \* what was handed to the sending code
    wrote,      \* history: argument calls on the function, in order
    asked       \* history: actions put into the batch, in order

vars == <<kind, function, actions, strategy, wait_until, request, wrote, asked>>
settings == <<strategy, wait_until>>

FunctionCall == [args : Bytes \union Error, gas : Amount, deposit : Amount]
Action == Plain \union [args : Bytes, gas : Amount, deposit : Amount]
Written == [raw : BOOLEAN, arg : Bytes \union Error]
Request == [actions : Seq(Action), strategy : Strategy \union {NoStrategy},
            wait_until : Wait, async : BOOLEAN]

\* No batch is taken for an error, nothing else for a function call.
ASSUME ValuesAssumption ==
    /\ \A error \in Error : error \notin Seq(Plain \union FunctionCall)
    /\ \A value \in Plain \union {Nothing} : value \notin FunctionCall

TypeOK ==
    /\ kind \in {"call", "batch", "send"}
    /\ function \in FunctionCall \union {Nothing}
    /\ actions \in Seq(Action) \union Error
    /\ strategy \in Strategy \union {NoStrategy}
    /\ wait_until \in Wait
    /\ request \in Request \union Error \union {Nothing}
    /\ wrote \in Seq(Written)
    /\ asked \in Seq(Plain \union FunctionCall)

FunctionNew == [args |-> NoArgs, gas |-> Default, deposit |-> Default]

Init ==
    /\ kind \in {"call", "batch", "send"}
    /\ function = IF kind = "call" THEN FunctionNew ELSE Nothing
    /\ \E a \in Plain : asked = IF kind = "send" THEN <<a>> ELSE <<>>
    /\ actions = asked
    /\ strategy = NoStrategy /\ wait_until = WaitDefault
    /\ request = Nothing /\ wrote = <<>>

Building == request = Nothing
InFunction == Building /\ function # Nothing

-----------------------------------------------------------------------------
(* Function, and FunctionCallTransaction through it                        *)

\* A batch takes Functions that are built on their own.
NewFunction ==
    /\ Building /\ kind = "batch" /\ function = Nothing
    /\ Len(asked) < MaxActions
    /\ function' = FunctionNew /\ wrote' = <<>>
    /\ UNCHANGED <<kind, actions, settings, request, asked>>

Write(raw, arg, args) ==
    /\ InFunction /\ Len(wrote) < MaxArgs
    /\ function' = [function EXCEPT !.args = args]
    /\ wrote' = Append(wrote, [raw |-> raw, arg |-> arg])
    /\ UNCHANGED <<kind, actions, settings, request, asked>>

\* Mutant: the bytes replace an earlier error.
ArgsReplace(bytes) == Write(TRUE, bytes, bytes)

\* args(): an earlier error stays.
Args(bytes) ==
    Write(TRUE, bytes, IF function.args \in Error THEN function.args ELSE bytes)

\* args_json() and args_borsh(): the value or its error replaces everything.
ArgsSerialize(result) == Write(FALSE, result, result)

SetAmount(field, amount) ==
    /\ InFunction
    /\ function' = [function EXCEPT ![field] = amount]
    /\ UNCHANGED <<kind, actions, settings, request, wrote, asked>>
Deposit(amount) == SetAmount("deposit", amount)
Gas(amount) == SetAmount("gas", amount)

-----------------------------------------------------------------------------
(* Transaction                                                             *)

\* Every action but call(): dropped when an error is already kept.
Pushed(action) == IF actions \in Error THEN actions ELSE Append(actions, action)

\* add_key, create_account, delete_account, delete_key, deploy, stake,
\* transfer.
Push(action) ==
    /\ Building /\ kind = "batch" /\ Len(asked) < MaxActions
    /\ actions' = Pushed(action)
    /\ asked' = Append(asked, action)
    /\ UNCHANGED <<kind, function, settings, request, wrote>>

\* Mutants: the arguments are not looked at; a good call starts the batch
\* afresh after an error.
CallUnchecked ==
    /\ Building /\ kind = "batch" /\ function # Nothing
    /\ actions' = Pushed(function)
    /\ asked' = Append(asked, function)
    /\ function' = Nothing /\ wrote' = <<>>
    /\ UNCHANGED <<kind, settings, request>>
CallRestarts ==
    /\ Building /\ kind = "batch" /\ function # Nothing
    /\ actions' = IF function.args \in Error THEN function.args
                  ELSE IF actions \in Error THEN <<function>>
                  ELSE Append(actions, function)
    /\ asked' = Append(asked, function)
    /\ function' = Nothing /\ wrote' = <<>>
    /\ UNCHANGED <<kind, settings, request>>

\* call(): an error in its arguments replaces the batch, a later one too.
Call ==
    /\ Building /\ kind = "batch" /\ function # Nothing
    /\ actions' = IF function.args \in Error THEN function.args ELSE Pushed(function)
    /\ asked' = Append(asked, function)
    /\ function' = Nothing /\ wrote' = <<>>
    /\ UNCHANGED <<kind, settings, request>>

-----------------------------------------------------------------------------
(* Settings and submission, the same on all three builders                 *)

Retry(delays) ==
    /\ Building /\ strategy' = delays
    /\ UNCHANGED <<kind, function, actions, wait_until, request, wrote, asked>>

WaitUntil(status) ==
    /\ Building /\ wait_until' = status
    /\ UNCHANGED <<kind, function, actions, strategy, request, wrote, asked>>

\* into_action() of the one function, or the batch as it is.
Ready == IF kind = "call"
           THEN IF function.args \in Error THEN function.args ELSE <<function>>
           ELSE actions

\* The first step of the future: an error ends it before anything is sent.
Submit(delays, status, async) ==
    /\ Building /\ (kind = "batch" => function = Nothing)
    /\ request' = IF Ready \in Error THEN Ready
                  ELSE [actions |-> Ready, strategy |-> delays,
                        wait_until |-> status, async |-> async]
    /\ UNCHANGED <<kind, function, actions, settings, wrote, asked>>

Transact == Submit(strategy, wait_until, FALSE)

\* transact_async drops both settings; what send_tx returns has no such form.
TransactAsync == kind # "send" /\ Submit(NoStrategy, WaitNone, TRUE)

Submitted == ~Building /\ UNCHANGED vars

Next ==
    \/ NewFunction \/ Call \/ Transact \/ TransactAsync \/ Submitted
    \/ \E bytes \in Bytes : Args(bytes)
    \/ \E result \in Bytes \union Error : ArgsSerialize(result)
    \/ \E amount \in Amount : Deposit(amount) \/ Gas(amount)
    \/ \E action \in Plain : Push(action)
    \/ \E delays \in Strategy : Retry(delays)
    \/ \E status \in Wait : WaitUntil(status)

Spec == Init /\ [][Next]_vars

-----------------------------------------------------------------------------
\* An argument that could not be serialised, and none after it was to be.
NotReplaced(i) ==
    /\ ~wrote[i].raw /\ wrote[i].arg \in Error
    /\ \A j \in DOMAIN wrote : j > i => wrote[j].raw

(* The arguments of a Function are what its last argument call said,       *)
(* unless the last value that had to be serialised could not be: raw bytes *)
(* given afterwards do not hide that error, a later good value does.       *)
ArgsAsWritten ==
    function # Nothing =>
        IF \E i \in DOMAIN wrote : NotReplaced(i)
          THEN \E i \in DOMAIN wrote : NotReplaced(i) /\ function.args = wrote[i].arg
          ELSE function.args = IF wrote = <<>> THEN NoArgs ELSE wrote[Len(wrote)].arg

Unusable(action) == action \notin Plain /\ action.args \in Error
LastUnusable(list, i) ==
    Unusable(list[i]) /\ \A j \in DOMAIN list : j > i => ~Unusable(list[j])

Asked == IF kind = "call" THEN <<function>> ELSE asked

(* "Result used to defer errors in argument parsing to later when calling  *)
(* into transact": whatever is chained after a call with bad arguments,    *)
(* nothing is sent and the caller gets the last such error; otherwise all  *)
(* the actions asked for are sent, in that order.                          *)
RequestAsAsked ==
    request # Nothing =>
        IF \E i \in DOMAIN Asked : Unusable(Asked[i])
          THEN \E i \in DOMAIN Asked :
                  LastUnusable(Asked, i) /\ request = Asked[i].args
          ELSE request \in Request /\ request.actions = Asked
===============================================================================
