SPECIFICATION Spec
CONSTANTS
    Node = {a, b, d}
    MaxConn = 3
    None = None
SYMMETRY Interchangeable
INVARIANTS TypeOK RegisteredIsServing ActiveCounts ServedIsRegistered ToldBeforeHeard PresenceSettles
CHECK_DEADLOCK FALSE
