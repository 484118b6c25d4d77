SPECIFICATION Spec
CONSTANTS
    old = old
    new = new
    None = None
    Scripts <- MCScripts
    Digests = {old, new}
    MaxRuns = 3
CHECK_DEADLOCK FALSE
INVARIANTS
    TypeOK
PROPERTIES
    RecordTellsThisLaunch
    RunEnds
