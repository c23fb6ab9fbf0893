\* Bursts of three and rings of two, so partial enqueues happen; with any of the
\* handlers, and enough buffers to fill the queues in front of a missing one.
SPECIFICATION FairSpec
CONSTANTS
    Mbufs = {b1, b2, b3, b4}
    Burst = 3
    RingCap = 2
    RxDesc = 3
    TxDesc = 1
INVARIANTS
    NothingOverwritten
    Custody
PROPERTIES
    FifoSpec
    DropOnlyWhenFull
    EveryBufferReturns
    ReceptionNeverStalls
\* With no handler launched and the NIC's queue full nothing happens any more.
CHECK_DEADLOCK FALSE
