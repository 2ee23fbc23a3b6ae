SPECIFICATION FairLoggedSpec
CONSTANTS
    t1 = t1
    t2 = t2
    k1 = k1
    Vacant = Vacant
    Task = {t1, t2}
    Droppable = {t2}
    Key = {k1}
    Signers <- OneKey
    CounterMod = 1
    Mode = {"executed", "async"}
    Retries = 1
    Faults = {"rpc", "timeout", "block", "delegate"}
    MaxBumps = 0
    MaxNonce = 20
    MaxChain = 20
    MaxLag = 0
INVARIANTS
    SendTypeOK
    StaleEntryGone
    RefusalsPaidFor
    NonceSharedAfterRemoval
PROPERTIES
    UsesCache
    AllCallsReturn
