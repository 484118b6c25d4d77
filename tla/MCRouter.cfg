SPECIFICATION Spec
CONSTANTS
    a1 = a1
    a2 = a2
    a3 = a3
    shared = shared
    dedicated = dedicated
    unknown = unknown
    f1 = f1
    f2 = f2
    Accounts = {a1, a2, a3}
    Pools = {shared, dedicated, unknown}
    Fps = {f1, f2}
    Needs = {0, 2}
    MaxUsed = 6
    Members <- MCMembers
    Budget <- MCBudget
    Score <- MCScore
INVARIANTS
    TypeOK
    OverloadIsSpread
    MissMeansSaturation
PROPERTIES
    OverBudgetOnlyWhenPoolFull
    PrefixNeverMovesBack
