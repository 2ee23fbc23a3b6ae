SPECIFICATION SendSpec
CONSTANTS
    t1 = t1
    t2 = t2
    k1 = k1
    k2 = k2
    Vacant = Vacant
    Task = {t1, t2}
    Droppable = {}
    Key = {k1, k2}
    Signers <- TwoKeys
    CounterMod = 4
    Mode = {"executed"}
    Retries = 0
    Faults = {}
    MaxBumps = 0
    MaxNonce = 20
    MaxChain = 20
    MaxLag = 0
INVARIANTS
    SignedByOwnKey
