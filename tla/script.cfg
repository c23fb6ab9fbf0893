\* All scripts of three packets and a sleep; keys with garbage padding.
SPECIFICATION FairSpec
CONSTANTS
    Started = {"script"}
    None = None
    MaxWorkers = 3
    MaxRounds = 3
    Secondaries = {s1, s2}
    MaxStarts = 2
    Hz = 6
    MaxLag = 5
    Burst = 2
    DataRoom = 2048
    Lengths <- McLengths
    Mbufs = {m1, m2, m3}
    Limit = 10
    MaxLcores = 300
    MaxPorts = 64
    MaxDevs = 2
    p1 = p1
    p2 = p2
    q = q
    r = r
    h1 = h1
    h2 = h2
    Packets = {p1, p2, q, r}
    Initially <- MCInitially
    Hosts = {h1, h2}
    Entries = {e1, e2, e3}
    FirstPort = 1
    Padding = {0, 1}
    Timeout = 5
    Idle = 10
    Late = 1
    Scripts <- AllScripts
INVARIANTS
    TimersInLiveEntries
    OneEntryPerKeyAndPort
PROPERTIES
    Drained
