SPECIFICATION Spec
CONSTANTS
    a = a
    b = b
    t1 = t1
    t2 = t2
    t3 = t3
    t4 = t4
    v1 = v1
    v2 = v2
    Node = {a, b}
    Thread = {t1, t3}
    At <- MCAt
    Key = {k1}
    Value = {v1}
    Place <- MCPlace
    Replication = 2
    MaxCalls = 2
    Nil = Nil
    Yes = Yes
    No = No
    Idle = Idle
PROPERTIES CallsReturn
CHECK_DEADLOCK FALSE
