\* The code's own timeouts, one tick a second; one flow more than the table holds.
SPECIFICATION Spec
CONSTANTS
    Keys = {k1, k2, k3}
    Entries = {e1, e2, e3}
    None = None
    HashEntries = 2
    Timeout = 5
    Idle = 10
    MaxBurst = 2
    MaxIter = 3
SYMMETRY Symmetry
INVARIANTS
    TimersInLiveEntries
    ClearFindsNothing
    TableSound
    FlowForgottenInTime
PROPERTIES
    FlowKeptWhileActive
