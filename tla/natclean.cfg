\* Ports wrap after 3, the table holds 2 keys, the padding is 0 or garbage.
SPECIFICATION Spec
CONSTANTS
    Flows = {f1, f2}
    Entries = {e1, e2, e3}
    None = None
    PortSpace = 3
    FirstPort = 1
    Padding = {0, 1}
    HashEntries = 2
    Timeout = 1
SYMMETRY Symmetry
INVARIANTS
    TableSound
    OnlyFailedAddsLeak
    RoundTrip
PROPERTIES
    FlowKeptWhileActive
