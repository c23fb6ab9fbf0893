\* Three counting workers at most, one more than there are loops; two secondary
\* processes, each process started twice; ticks of a sixth of a second, with up
\* to five of them lost at every call; packets of all types and lengths; bursts
\* smaller than what has come, and the code's limit of prints; any number of
\* lcores past the wrap-around of nb_workers, with event_sw0 present, absent,
\* alone or after another device.
SPECIFICATION FairSpec
CONSTANTS
    Started = {"stats", "ipc", "timers", "parsing", "graph", "start"}
    None = None
    MaxWorkers = 3
    MaxRounds = 3
    Secondaries = {s1, s2}
    MaxStarts = 2
    Hz = 6
    MaxLag = 5
    Burst = 2
    DataRoom = 2048
    Lengths <- McLengths
    Mbufs = {m1, m2, m3}
    Limit = 10
    MaxLcores = 300
    MaxPorts = 64
    MaxDevs = 2
    p1 = p1
    p2 = p2
    q = q
    r = r
    h1 = h1
    h2 = h2
    Packets = {p1, p2, q, r}
    Initially <- MCInitially
    Hosts = {h1, h2}
    Entries = {e1, e2, e3}
    FirstPort = 1
    Padding = {0, 1}
    Timeout = 5
    Idle = 10
    Late = 1
    Scripts <- JustMain
INVARIANTS
    NoCountLost
    ShownDuringCommand
    FiresInTurn
    ReadsInsidePacket
    PortsOfTransport
    Custody
    PrintedByVersion
    LoopsNeverRun
    OnlySw0Configured
PROPERTIES
    EveryoneTold
    StopsAtLimit
\* exit waits for loops that do not end, processes stay down, timers all fire.
CHECK_DEADLOCK FALSE
