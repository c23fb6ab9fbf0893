\* Ports wrap after 4 and a table holds 2 keys: both happen within few calls.
SPECIFICATION Spec
CONSTANTS
    Flows = {f1, f2, f3}
    Entries = {e1, e2, e3}
    None = None
    PortSpace = 4
    FirstPort = 2
    Padding = {0, 1}
    HashEntries = 2
    Timeout = 2
SYMMETRY Symmetry
INVARIANTS
    TablesSound
    TimersInLiveEntries
    RoundTrip
PROPERTIES
    FlowKeptWhileActive
    OrphansRunDown
