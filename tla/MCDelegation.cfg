SPECIFICATION Spec
CONSTANTS
    root = root
    opA = opA
    opB = opB
    r1 = r1
    r2 = r2
    urlA = urlA
    urlB = urlB
    None = None
    Relays = {r1, r2}
    CpKeys = {root, opA, opB}
    Adapters = {urlA, urlB}
    RootPub = root
    Docs <- MCDocs
    MaxNow = 4
INVARIANTS
    TypeOK
    UsableDelegation
PROPERTIES
    ServesAgainOnlyByPush
