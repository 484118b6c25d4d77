SPECIFICATION Spec
CONSTANTS
    c1 = c1
    good = good
    other = other
    idA = idA
    idB = idB
    None = None
    Clients = {c1}
    Builds = {good, other}
    Idents = {idA, idB}
    Images <- MCImages
    Setups <- MCSetups
    Registries <- MCRegistries
    SessionTTL = 0
    TokenTTL = 0
    MaxNow = 1
    MaxBoot = 2
    MaxKid <- MCMaxKid
    MaxCalls = 2
CHECK_DEADLOCK FALSE
INVARIANTS
    TypeOK
    OpenedByAttestedBoot
    VerdictIsFresh
    FrontIsNoticed
    AnswerUnderPinnedIdentity
PROPERTIES
    KeepsPromise
    CallsEnd
