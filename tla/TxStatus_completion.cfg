SPECIFICATION Spec
CONSTANTS
    t1 = t1
    alice = alice
    bob = bob
    Task = {t1}
    Account = {alice, bob}
    Faults = {}
PROPERTIES
    WaitsForCompletion
