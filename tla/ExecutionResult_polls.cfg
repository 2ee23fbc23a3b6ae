SPECIFICATION Spec
CONSTANTS
    InvalidNonce = InvalidNonce
    ActionFailed = ActionFailed
    Nothing = Nothing
    NonceErrors = {InvalidNonce}
    OtherErrors = {ActionFailed}
    MaxOutcomes = 5
    GasBurnt = {1}
INVARIANTS
    TypeOK
    StaleNoncesSeen
    GasIsAllBurnt
PROPERTIES
    VerdictIsFinal
    FailuresStay
