------------------------------- MODULE L2Fwd -------------------------------
(***************************************************************************)
(* src/l2fwd/main.c: what comes in at one port goes out at the other.      *)
(* Every lcore runs the same loop over both ports and uses queue 0 of      *)
(* each, which the drivers do not protect against two callers: a burst     *)
(* call is two steps here, its entry and its end, and a call that overlaps *)
(* another on the same queue may repeat or lose what the other does.       *)
(***************************************************************************)
EXTENDS Naturals, Sequences, FiniteSets

CONSTANTS Lcores,       \* lcores there may be; the EAL is started with some
          Mbufs,        \* the buffers of MBUF_POOL
          Burst,        \* BURST_SIZE
          RxDesc,       \* RX_RING_SIZE
          TxDesc        \* TX_RING_SIZE

ASSUME SizeAssumption == {Burst, RxDesc, TxDesc} \subseteq Nat \ {0} /\ IsFiniteSet(Lcores)

Ports == {0, 1}

VARIABLES main,         \* "init", "run", or "failed" after rte_exit
          up,           \* ports port_init has brought up
          pool,         \* buffers in the mempool
          rxq, txq,     \* queue 0 of each port, oldest first
          pc,           \* where each lcore is
          port,         \* ... its loop variable
          bufs,         \* ... its burst, without what was sent or freed
          raced         \* history: two lcores were in a call on one queue

vars == <<main, up, pool, rxq, txq, pc, port, bufs, raced>>

Labels == {"off", "poll", "rx", "put", "tx", "free"}
Lesser(a, b) == IF a <= b THEN a ELSE b
Prefix(s, n) == SubSeq(s, 1, n)
Rest(s, n) == SubSeq(s, n + 1, Len(s))

\* Mutant: packets go back out of the port they came in at.
DstPortEcho(p) == p
DstPort(p) == IF p = 0 THEN 1 ELSE 0

Init ==
    /\ main = "init"
    /\ up = {}
    /\ pool = Mbufs
    /\ rxq = [p \in Ports |-> <<>>]
    /\ txq = [p \in Ports |-> <<>>]
    /\ pc = [l \in Lcores |-> "off"]
    /\ port = [l \in Lcores |-> 0]
    /\ bufs = [l \in Lcores |-> <<>>]
    /\ raced = FALSE

-----------------------------------------------------------------------------
(* main                                                                     *)

PortInit(p) ==                          \* port_init; any of its calls may fail
    /\ main = "init"
    /\ p \notin up /\ \A q \in Ports : q < p => q \in up
    /\ \/ up' = up \cup {p} /\ UNCHANGED main
       \/ main' = "failed" /\ UNCHANGED up
    /\ UNCHANGED <<pool, rxq, txq, pc, port, bufs, raced>>

Launch ==                               \* rte_eal_mp_remote_launch, CALL_MAIN
    /\ main = "init" /\ up = Ports
    /\ main' = "run"
    /\ \E used \in SUBSET Lcores \ {{}} :
         pc' = [l \in Lcores |-> IF l \in used THEN "poll" ELSE "off"]
    /\ UNCHANGED <<up, pool, rxq, txq, port, bufs, raced>>

NicReceive(p, m) ==                     \* a packet arrives at a started port
    /\ p \in up /\ main # "failed"
    /\ m \in pool /\ Len(rxq[p]) < RxDesc
    /\ pool' = pool \ {m}
    /\ rxq' = [rxq EXCEPT ![p] = Append(@, m)]
    /\ UNCHANGED <<main, up, txq, pc, port, bufs, raced>>

-----------------------------------------------------------------------------
(* l2fwd_main_loop on lcore l.  force_quit is never set, so the loop over   *)
(* the ports starts again after the last.                                   *)

Goto(l, label) == pc' = [pc EXCEPT ![l] = label]
NextPort(l) == port' = [port EXCEPT ![l] = (@ + 1) % Cardinality(Ports)]

\* The other lcores inside a call on the queue l uses at the same label.
Others(l, label) == {k \in Lcores \ {l} : pc[k] = label /\ port[k] = port[l]}
Enter(l, label) ==
    /\ Goto(l, label)
    /\ raced' = (raced \/ Others(l, label) # {})

\* What a call does to a queue; overlapped, the other call may undo it.
CallSets(l, q, p, new) ==
    \/ q' = [q EXCEPT ![p] = new]
    \/ Others(l, pc[l]) # {} /\ UNCHANGED q

RxNone(l) ==                            \* rte_eth_rx_burst returns 0: continue
    /\ pc[l] = "poll" /\ rxq[port[l]] = <<>>
    /\ NextPort(l)
    /\ UNCHANGED <<main, up, pool, rxq, txq, pc, bufs, raced>>

RxEnter(l) ==
    /\ pc[l] = "poll" /\ rxq[port[l]] # <<>>
    /\ Enter(l, "rx")
    /\ UNCHANGED <<main, up, pool, rxq, txq, port, bufs>>

RxEnd(l) ==
    /\ pc[l] = "rx"
    /\ LET q == rxq[port[l]]
       IN  \E n \in Lesser(1, Len(q))..Lesser(Burst, Len(q)) :
             /\ bufs' = [bufs EXCEPT ![l] = Prefix(q, n)]
             /\ CallSets(l, rxq, port[l], Rest(q, n))
             /\ IF n = 0 THEN Goto(l, "poll") /\ NextPort(l)
                         ELSE Goto(l, "put") /\ UNCHANGED port
    /\ UNCHANGED <<main, up, pool, txq, raced>>

TxEnter(l) ==                           \* rte_eth_tx_burst on dst_port
    /\ pc[l] = "put"
    /\ Enter(l, "tx")
    /\ UNCHANGED <<main, up, pool, rxq, txq, port, bufs>>

Reclaim(l) ==                           \* ... first frees what has been sent
    /\ pc[l] = "tx"
    /\ LET d == DstPort(port[l])
       IN  /\ txq[d] # <<>>
           /\ pool' = pool \cup {Head(txq[d])}
           /\ CallSets(l, txq, d, Tail(txq[d]))
    /\ UNCHANGED <<main, up, rxq, pc, port, bufs, raced>>

\* Mutant: nothing is freed after a short burst.
TxEndLeak(l) ==
    /\ pc[l] = "tx"
    /\ LET d == DstPort(port[l])
       IN  \E n \in 0..Lesser(Len(bufs[l]), TxDesc - Len(txq[d])) :
             /\ CallSets(l, txq, d, txq[d] \o Prefix(bufs[l], n))
             /\ bufs' = [bufs EXCEPT ![l] = <<>>]
             /\ Goto(l, "poll") /\ NextPort(l)
    /\ UNCHANGED <<main, up, pool, rxq, raced>>

TxEnd(l) ==                             \* ... and takes as many as it likes
    /\ pc[l] = "tx"
    /\ LET d == DstPort(port[l])
       IN  \E n \in 0..Lesser(Len(bufs[l]), TxDesc - Len(txq[d])) :
             /\ CallSets(l, txq, d, txq[d] \o Prefix(bufs[l], n))
             /\ bufs' = [bufs EXCEPT ![l] = Rest(@, n)]
             /\ IF n < Len(bufs[l]) THEN Goto(l, "free") /\ UNCHANGED port
                                    ELSE Goto(l, "poll") /\ NextPort(l)
    /\ UNCHANGED <<main, up, pool, rxq, raced>>

Free(l) ==                              \* one rte_pktmbuf_free of the loop
    /\ pc[l] = "free"
    /\ pool' = pool \cup {Head(bufs[l])}
    /\ bufs' = [bufs EXCEPT ![l] = Tail(@)]
    /\ IF Len(bufs[l]) > 1 THEN UNCHANGED <<pc, port>>
                           ELSE Goto(l, "poll") /\ NextPort(l)
    /\ UNCHANGED <<main, up, rxq, txq, raced>>

Loop(l) == RxNone(l) \/ RxEnter(l) \/ RxEnd(l) \/ TxEnter(l) \/ Reclaim(l) \/ TxEnd(l) \/ Free(l)

Next ==
    \/ \E p \in Ports : PortInit(p) \/ \E m \in Mbufs : NicReceive(p, m)
    \/ Launch
    \/ \E l \in Lcores : Loop(l)

Spec == Init /\ [][Next]_vars

-----------------------------------------------------------------------------
\* The types of the variables.
Bounded(s, n) == s \in Seq(Mbufs) /\ Len(s) <= n
TypeOK ==
    /\ main \in {"init", "run", "failed"}
    /\ up \subseteq Ports
    /\ pool \subseteq Mbufs
    /\ \A p \in Ports : Bounded(rxq[p], RxDesc) /\ Bounded(txq[p], TxDesc)
    /\ \A l \in Lcores : pc[l] \in Labels /\ port[l] \in Ports /\ Bounded(bufs[l], Burst)
    /\ raced \in BOOLEAN

\* The places in queues and bursts where a buffer is.
At(place, s, m) == {<<place, i>> : i \in {j \in DOMAIN s : s[j] = m}}
Places(m) ==
    UNION ({At(<<"rx", p>>, rxq[p], m) : p \in Ports}
             \cup {At(<<"tx", p>>, txq[p], m) : p \in Ports}
             \cup {At(<<"bufs", l>>, bufs[l], m) : l \in Lcores})

Custody == \A m \in Mbufs : Cardinality(Places(m)) = IF m \in pool THEN 0 ELSE 1

\* Each buffer is in the pool, or else at exactly one place of one queue or
\* one lcore's burst: nothing is leaked or freed twice on any path of
\* main.c:84-98, with any number of lcores, as long as no two of them have been
\* inside a call on the same queue at once.
CustodyUnlessRaced == TypeOK /\ (~raced => Custody)

\* What came in at port p and has neither left nor been freed: the burst of
\* the lcore that holds one from p (read with one lcore only), then the queue.
Line(p) ==
    LET holding == {l \in Lcores : port[l] = p /\ bufs[l] # <<>>}
    IN  (IF holding = {} THEN <<>> ELSE bufs[CHOOSE l \in holding : TRUE]) \o rxq[p]
Elsewhere(p) == {m \in Mbufs : \A i \in DOMAIN (txq[1 - p] \o Line(p)) :
                                 (txq[1 - p] \o Line(p))[i] # m}

From0 == INSTANCE LossyFifo WITH line <- Line(0), wire <- txq[1], free <- Elsewhere(0)
From1 == INSTANCE LossyFifo WITH line <- Line(1), wire <- txq[0], free <- Elsewhere(1)
OneLcore == Cardinality({l \in Lcores : pc[l] # "off"}) <= 1

\* With one lcore, what the number of queues is made for, each direction is a
\* FIFO that loses packets: what comes in at one port leaves by the other, in
\* order and once, or is freed (main.c:79-98).
Forwards ==
    [][OneLcore' => /\ From0!Next \/ UNCHANGED From0!vars
                    /\ From1!Next \/ UNCHANGED From1!vars]_vars
=============================================================================
