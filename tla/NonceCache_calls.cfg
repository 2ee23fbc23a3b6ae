SPECIFICATION FairSpec
CONSTANTS
    t1 = t1
    t2 = t2
    t3 = t3
    k1 = k1
    Key = {k1}
    Vacant = Vacant
    Task = {t1, t2, t3}
    Droppable = {t1, t2, t3}
    MaxNonce = 3
    MaxChain = 2
    MaxLag = 1
INVARIANTS
    TypeOK
    IndInv
    OneAccessKeyQuery
PROPERTIES
    ImplementsDispenser
    FreshNonce
    NeverBackwards
    CallReturns
    RemovalReturns
