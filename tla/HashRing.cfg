SPECIFICATION Spec
CONSTANTS
    Node = {n1, n2, n3}
    Self = n1
    Pos = {0, 1, 2, 3, 4, 5, 6}
    VirtualNodes = 2
INVARIANTS TypeOK RingIsOfKnown OwnerIsFirstReplica ReplicasAreDistinct
PROPERTIES OnlyTheirKeysMove ReplicasMoveLittle
