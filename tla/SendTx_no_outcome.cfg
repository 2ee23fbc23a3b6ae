SPECIFICATION SendSpec
CONSTANTS
    t1 = t1
    k1 = k1
    k2 = k2
    Vacant = Vacant
    Task = {t1}
    Droppable = {}
    Key = {k1}
    Signers <- OneKey
    CounterMod = 1
    Mode = {"included"}
    Retries = 1
    Faults = {}
    MaxBumps = 0
    MaxNonce = 20
    MaxChain = 20
    MaxLag = 0
PROPERTIES
    RetriedOnlyIfFailed
