SPECIFICATION Spec
CONSTANTS
    c1 = c1
    c2 = c2
    t1 = t1
    t2 = t2
    Conn = {c1, c2}
    Table = {t1, t2}
    Alike <- MCAlike
    MaxId = 2
    MaxText = 2
    Schemas <- MCSchemas
    Given <- MCGiven
    Clauses <- DocumentedClauses
    Settings <- MCSettings
    MaxStatements = 4
    MaxLiberties = 2
    NoRow = NoRow
    NoSchema = NoSchema
    Idle = Idle
INVARIANT SupportedStatementsWork

CHECK_DEADLOCK FALSE
