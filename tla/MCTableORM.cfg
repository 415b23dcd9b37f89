SPECIFICATION Spec
CONSTANTS
    Thread = {h1, h2}
    Id = {i1, i2}
    Field = {f1, f2}
    Value = {v1, v2}
    NoRec = NoRec
    Idle = Idle
    Expiring = Expiring
    Doubtful = Doubtful
    MaxFaults = 2
SYMMETRY Symmetry
INVARIANTS TypeOK NoDuplicateIds SettledRecordsAreKept
