SPECIFICATION Spec
CONSTANTS
    c1 = c1
    c2 = c2
    t1 = t1
    t2 = t2
    Conn = {c1, c2}
    Table = {t1, t2}
    Alike <- MCAlike
    MaxId = 2
    MaxText = 2
    Schemas <- MCSchemas
    Given <- MCGiven
    Clauses <- MCClauses
    Settings <- MCSettings
    MaxStatements = 4
    MaxLiberties = 2
    NoRow = NoRow
    NoSchema = NoSchema
    Idle = Idle
INVARIANTS TypeOK UniqueHeld NumbersAreFresh RefusedForCause TurnsKeepTheTables
SYMMETRY Symmetry
CHECK_DEADLOCK FALSE
