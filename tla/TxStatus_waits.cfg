SPECIFICATION FairSpec
CONSTANTS
    t1 = t1
    t2 = t2
    alice = alice
    bob = bob
    Task = {t1, t2}
    Account = {alice, bob}
    Faults = {"timeout", "rpc", "fork", "discard"}
INVARIANTS
    TypeOK
PROPERTIES
    PendingIsNoError
    WaitReturns
