SPECIFICATION FairSpec
CONSTANTS
    root = root
    opA = opA
    opB = opB
    r1 = r1
    r2 = r2
    urlA = urlA
    urlB = urlB
    a1 = a1
    a2 = a2
    shared = shared
    own = own
    m1 = m1
    m2 = m2
    f1 = f1
    s1 = s1
    None = None
    RawKey = RawKey
    PoolKey = PoolKey
    AnyModel = AnyModel
    Relays = {r1}
    CpKeys = {root, opA, opB}
    Adapters = {urlA, urlB}
    RootPub = root
    Docs <- DocsServing
    MaxNow = 2
    Accounts = {a1, a2}
    Pools = {shared, own}
    Members <- MembersTwo
    Budget <- BudgetTwo
    Fps = {f1}
    Score <- ScoreTwo
    Needs = {1, 2}
    q1 = q1
    q2 = q2
    Reqs = {q1, q2}
    Inputs <- InputsServing
    Tokens <- TokensServing
    Models = {m1, m2}
    Sessions = {s1}
    BakedCp = root
    BakedAdapter = None
    AdapterCp <- AdapterCps
    RuntimeKeyed = {}
    Gated = {a2}
    SessionTTL = 1
    MaxBoot = 2
CHECK_DEADLOCK FALSE
INVARIANTS
    EveryPlacementCharged
PROPERTIES
    EveryRequestAnswered
