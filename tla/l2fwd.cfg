\* One or two lcores on the same queues.
SPECIFICATION Spec
CONSTANTS
    Lcores = {c1, c2}
    Mbufs = {m1, m2}
    Burst = 2
    RxDesc = 2
    TxDesc = 1
SYMMETRY Symmetry
INVARIANTS
    CustodyUnlessRaced
PROPERTIES
    Forwards
\* The program ends when a port cannot be brought up.
CHECK_DEADLOCK FALSE
