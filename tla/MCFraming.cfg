SPECIFICATION Spec
CONSTANTS
    a = a
    b = b
    t1 = t1
    t2 = t2
    t3 = t3
    m1 = m1
    m2 = m2
    m3 = m3
    m4 = m4
    Node = {a, b}
    Thread = {t1, t2, t3}
    Message = {m1, m2, m3, m4}
    Host <- MCHost
    From <- MCFrom
    Total <- MCTotal
    Sealed = {m3, m4}
    Capacity = 2
    Timeout = 1
    Idle = Idle
    Garbled = Garbled
SYMMETRY MCSymmetry
INVARIANT TypeOK
INVARIANT NoPacketTwice
INVARIANT MixedForCause
INVARIANT HeardIsHanded
CHECK_DEADLOCK FALSE
