SPECIFICATION SendSpec
CONSTANTS
    t1 = t1
    t2 = t2
    t3 = t3
    k1 = k1
    k2 = k2
    Vacant = Vacant
    Task = {t1, t2, t3}
    Droppable = {}
    Key = {k1}
    Signers <- OneKey
    CounterMod = 1
    Mode = {"executed"}
    Retries = 3
    Faults = {"delegate"}
    MaxBumps = 1
    MaxNonce = 20
    MaxChain = 20
    MaxLag = 0
SYMMETRY TaskSymmetry
INVARIANTS
    RetriesSuffice
    StaleEntryGone
    RefusalsPaidFor
