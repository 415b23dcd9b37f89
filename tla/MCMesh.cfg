SPECIFICATION Spec
CONSTANTS
    rx = rx
    listen = listen
    Node = {1, 2, 3}
    Listener = {rx, listen}
    Seedings <- Starts
    Cycle = 6
    Quiet = {3}
    MaxSilences = 2
    MaxBusy = 1
    Idle = Idle
INVARIANTS TypeOK RingIsHeard PruneDiesForCause
PROPERTY LonersHearNobody
SYMMETRY Listeners
