SPECIFICATION FairSpec
CONSTANTS
    rx = rx
    listen = listen
    Node = {1, 2, 3}
    Listener = {rx}
    Seedings <- Unseeded
    Cycle = 6
    Quiet = {}
    MaxSilences = 0
    MaxBusy = 3
    Idle = Idle
PROPERTY NodesSelfOrganise
