SPECIFICATION AdapterSpec
CONSTANTS
    q1 = q1
    k1 = k1
    k2 = k2
    lane = lane
    plain = plain
    None = None
    Reqs = {q1}
    Keys = {k1, k2}
    Groups = {lane, plain}
    Accounts <- MCAccounts
    Configs <- MCConfigs
    TTL = 3
    MinTTL = 2
    MaxNow = 3
CHECK_DEADLOCK FALSE
INVARIANTS
    TypeOK
    LaneIsGated
    GrantWithinQuota
    TokenEndsSoonAfterKey
PROPERTIES
    KeepsPromise
