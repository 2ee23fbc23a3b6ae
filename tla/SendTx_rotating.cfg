SPECIFICATION SendSpec
CONSTANTS
    t1 = t1
    k1 = k1
    k2 = k2
    Vacant = Vacant
    Task = {t1}
    Droppable = {t1}
    Key = {k1, k2}
    Signers <- TwoKeys
    CounterMod = 2
    Mode = {"executed", "included", "async"}
    Retries = 2
    Faults = {"rpc", "timeout", "lost", "expired", "block", "delegate"}
    MaxBumps = 2
    MaxNonce = 20
    MaxChain = 20
    MaxLag = 0
INVARIANTS
    SignedByOwnKey
    StaleEntryGone
    RefusalsPaidFor
    SentTwiceOnlyInDoubt
PROPERTIES
    UsesCache
    ImplementsDelivery
