\* main's own script, with clean keys and no time lost.
SPECIFICATION Spec
CONSTANTS
    p1 = p1
    p2 = p2
    q = q
    r = r
    h1 = h1
    h2 = h2
    Packets = {p1, p2, q, r}
    Initially <- MCInitially
    Hosts = {h1, h2}
    Entries = {e1, e2, e3}
    None = None
    FirstPort = 1
    Padding = {0}
    Timeout = 5
    Idle = 10
    Late = 0
    Scripts <- JustMain
PROPERTIES
    Refreshes
