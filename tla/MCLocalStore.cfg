SPECIFICATION Spec
CONSTANTS
    Client = {c1, c2}
    UserKey = {k1}
    SeqKey = {t1}
    Value = {v1, v2}
    Ttl = {0, 1}
    MaxTime = 2
    MaxId = 2
    Nil = Nil
    NoTtl = NoTtl
    NoRow = NoRow
    Idle = Idle
    Yes = Yes
    No = No
    NoArg = NoArg
    Raised = Raised
INVARIANTS TypeOK AckedIsDurable IdsDistinct
PROPERTY ImplementsMap
SYMMETRY Interchangeable
VIEW AllButAnswer
