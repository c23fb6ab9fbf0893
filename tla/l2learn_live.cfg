\* One or two lcores; two hosts of which one moves.
SPECIFICATION FairSpec
CONSTANTS
    Lcores = {c1, c2}
    Macs = {a, b}
    None = None
    HashEntries = 2
    Burst = 1
    RxDesc = 1
    MaxMoves = 1
PROPERTIES
    MovedHostsFound
    SignalEnds
\* The program ends, by a signal or when a port cannot be brought up.
CHECK_DEADLOCK FALSE
