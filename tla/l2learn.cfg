\* One or two lcores and two hosts that share one table entry.
SPECIFICATION Spec
CONSTANTS
    Lcores = {c1, c2}
    Macs = {a, b}
    None = None
    HashEntries = 1
    Burst = 2
    RxDesc = 2
    MaxMoves = 1
SYMMETRY Symmetry
INVARIANTS
    ReachesWhoStayed
\* The program ends, by a signal or when a port cannot be brought up.
CHECK_DEADLOCK FALSE
