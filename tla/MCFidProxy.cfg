SPECIFICATION Spec
CONSTANTS
    root = root
    opA = opA
    opB = opB
    r1 = r1
    r2 = r2
    urlA = urlA
    urlB = urlB
    a1 = a1
    a2 = a2
    shared = shared
    own = own
    m1 = m1
    m2 = m2
    f1 = f1
    s1 = s1
    None = None
    RawKey = RawKey
    PoolKey = PoolKey
    AnyModel = AnyModel
    Relays = {r1, r2}
    CpKeys = {root, opA, opB}
    Adapters = {urlA, urlB}
    RootPub = root
    Docs <- DocsOperators
    MaxNow = 2
    Accounts = {a1}
    Pools = {shared, own}
    Members <- MembersOne
    Budget <- BudgetOne
    Fps = {f1}
    Score <- ScoreOne
    Needs = {1}
    q1 = q1
    q2 = q2
    Reqs = {q1, q2}
    Inputs <- InputsOperators
    Tokens <- TokensOperators
    Models = {m1, m2}
    Sessions = {}
    BakedCp = root
    BakedAdapter = None
    AdapterCp <- AdapterCps
    RuntimeKeyed = {a1}
    Gated = {}
    SessionTTL = 1
    MaxBoot = 2
SYMMETRY Symmetry
CHECK_DEADLOCK FALSE
INVARIANTS
    TypeOK
    KeyIsolation
    GatewayKeyOnlyToNamedAdapter
    RelayServedByItsOperator
    NoMixedAuthority
    KeysOfThisBoot
    MeteredIffServed
PROPERTIES
    ProvisionedKeyIsFound
    KeepsVault
