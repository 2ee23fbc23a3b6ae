SPECIFICATION Spec
CONSTANTS
    empty = empty
    b1 = b1
    e1 = e1
    e2 = e2
    a0 = a0
    a1 = a1
    transfer = transfer
    backoff = backoff
    optimistic = optimistic
    none = none
    Bytes = {empty, b1}
    Error = {e1, e2}
    NoArgs = empty
    Amount = {a0, a1}
    Default = a0
    Plain = {transfer}
    Strategy = {backoff}
    NoStrategy = NoStrategy
    Wait = {optimistic, none}
    WaitDefault = optimistic
    WaitNone = none
    Nothing = Nothing
    MaxArgs = 3
    MaxActions = 2
INVARIANTS
    TypeOK
    ArgsAsWritten
    RequestAsAsked
