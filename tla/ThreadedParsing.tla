-------------------------- MODULE ThreadedParsing --------------------------
(***************************************************************************)
(* src/ThreadedParsing: a three stage packet pipeline.  The rx lcore polls *)
(* the NIC and feeds rx_ring, the parser lcore moves packets from rx_ring  *)
(* to tx_ring, the tx lcore moves them from tx_ring to the NIC.  Each      *)
(* stage holds a burst of buffers in a local array buff[] and frees what   *)
(* the next stage would not take.                                          *)
(*                                                                         *)
(* A packet is its mbuf.  An operation on a ring, on a NIC queue or on the *)
(* pool is atomic; everything between two of them interleaves.             *)
(***************************************************************************)
EXTENDS Naturals, Sequences, Functions

CONSTANTS Mbufs,        \* the buffers of MBUF_POOL (NUM_BUF of them)
          Burst,        \* BURST_SIZE
          RingCap,      \* usable slots of a ring created with count 1024
          RxDesc,       \* descriptors of the NIC's receive queue
          TxDesc        \* descriptors of the NIC's transmit queue

ASSUME SizeAssumption == {Burst, RingCap, RxDesc, TxDesc} \subseteq Nat \ {0}

\* The handler main() launches on an lcore: 1, 2 and 3 only.
Handler == <<"rx", "parser", "tx">>
Handlers == {"rx", "parser", "tx"}

VARIABLES pool,         \* buffers in the mempool
          nicRx,        \* packets received by the NIC, waiting for rx_burst
          rxBuff,       \* buff[] of rx_handler
          rx_ring,
          parserBuff,   \* buff[] of parser
          tx_ring,
          txBuff,       \* buff[] of tx_handler
          nicTx,        \* packets accepted by tx_burst, not yet completed
          pc,           \* where each handler is
          lcore_id      \* the launch loop's variable in main

queues == <<nicRx, rxBuff, rx_ring, parserBuff, tx_ring, txBuff, nicTx>>
vars == <<pool, queues, pc, lcore_id>>

Labels == {"off",       \* not launched
           "poll",      \* at the top of while(1)
           "put",       \* holding a burst, about to pass it on
           "free"}      \* freeing what was not taken

Lesser(a, b) == IF a <= b THEN a ELSE b

Prefix(s, n) == SubSeq(s, 1, n)
Rest(s, n) == SubSeq(s, n + 1, Len(s))

\* Mutant of Taken: rte_ring_enqueue_bulk, all or nothing.
TakenBulk(s, room) == IF Len(s) <= room THEN Len(s) ELSE 0

\* What a burst enqueue of s takes when room slots are left: as many as fit.
Taken(s, room) == Lesser(Len(s), room)

\* Mutants of AfterPut: the leftovers are not freed; they are tried again.
AfterPutLeak(h, s, n) == pc' = [pc EXCEPT ![h] = "poll"]
AfterPutRetry(h, s, n) == pc' = [pc EXCEPT ![h] = IF n < Len(s) THEN "put" ELSE "poll"]

\* After passing on n of the buffers it holds, a handler either frees the
\* others or goes back to polling.
AfterPut(h, s, n) == pc' = [pc EXCEPT ![h] = IF n < Len(s) THEN "free" ELSE "poll"]
AfterFree(h, s) == pc' = [pc EXCEPT ![h] = IF Len(s) = 1 THEN "poll" ELSE "free"]

Init ==
    /\ pool = Mbufs
    /\ nicRx = <<>> /\ rxBuff = <<>> /\ rx_ring = <<>> /\ parserBuff = <<>>
    /\ tx_ring = <<>> /\ txBuff = <<>> /\ nicTx = <<>>
    /\ pc = [h \in Handlers |-> "off"]
    /\ lcore_id = 1

-----------------------------------------------------------------------------
(* main: RTE_LCORE_FOREACH_WORKER visits in increasing order the workers    *)
(* the EAL was started with: any of 1, 2 and 3 may be missing.              *)

Launch ==
    /\ lcore_id \in DOMAIN Handler
    /\ pc' \in {pc, [pc EXCEPT ![Handler[lcore_id]] = "poll"]}
    /\ lcore_id' = lcore_id + 1
    /\ UNCHANGED <<pool, queues>>

-----------------------------------------------------------------------------
(* The NIC (external): takes a pool buffer for every packet it receives,    *)
(* and gives the buffers it was handed back when they have been sent.       *)

NicReceive(m) ==
    /\ m \in pool
    /\ Len(nicRx) < RxDesc
    /\ pool' = pool \ {m}
    /\ nicRx' = Append(nicRx, m)
    /\ UNCHANGED <<rxBuff, rx_ring, parserBuff, tx_ring, txBuff, nicTx, pc, lcore_id>>

NicTxDone ==
    /\ nicTx # <<>>
    /\ pool' = pool \cup {Head(nicTx)}
    /\ nicTx' = Tail(nicTx)
    /\ UNCHANGED <<nicRx, rxBuff, rx_ring, parserBuff, tx_ring, txBuff, pc, lcore_id>>

-----------------------------------------------------------------------------
(* rx_handler, on lcore 1                                                   *)

RxPoll ==                               \* rte_eth_rx_burst; continue on 0
    /\ pc["rx"] = "poll"
    /\ \E n \in 1..Lesser(Burst, Len(nicRx)) :
         /\ rxBuff' = Prefix(nicRx, n)
         /\ nicRx' = Rest(nicRx, n)
    /\ pc' = [pc EXCEPT !["rx"] = "put"]
    /\ UNCHANGED <<pool, rx_ring, parserBuff, tx_ring, txBuff, nicTx, lcore_id>>

\* Mutant: the loop that frees starts at 0 and ends at nb_rx - enq.
RxEnqueueFreesFirst ==
    /\ pc["rx"] = "put"
    /\ LET enq == Taken(rxBuff, RingCap - Len(rx_ring))
       IN  /\ rx_ring' = rx_ring \o Prefix(rxBuff, enq)
           /\ rxBuff' = Prefix(rxBuff, Len(rxBuff) - enq)
           /\ AfterPut("rx", rxBuff, enq)
    /\ UNCHANGED <<pool, nicRx, parserBuff, tx_ring, txBuff, nicTx, lcore_id>>

RxEnqueue ==                            \* rte_ring_enqueue_burst(rx_ring)
    /\ pc["rx"] = "put"
    /\ LET enq == Taken(rxBuff, RingCap - Len(rx_ring))
       IN  /\ rx_ring' = rx_ring \o Prefix(rxBuff, enq)
           /\ rxBuff' = Rest(rxBuff, enq)
           /\ AfterPut("rx", rxBuff, enq)
    /\ UNCHANGED <<pool, nicRx, parserBuff, tx_ring, txBuff, nicTx, lcore_id>>

RxFree ==                               \* one rte_pktmbuf_free of the loop
    /\ pc["rx"] = "free"
    /\ pool' = pool \cup {Head(rxBuff)}
    /\ rxBuff' = Tail(rxBuff)
    /\ AfterFree("rx", rxBuff)
    /\ UNCHANGED <<nicRx, rx_ring, parserBuff, tx_ring, txBuff, nicTx, lcore_id>>

-----------------------------------------------------------------------------
(* parser, on lcore 2; __parser only prints and forwards every packet       *)

ParserDequeue ==                        \* rte_ring_dequeue_burst(rx_ring)
    /\ pc["parser"] = "poll"
    /\ rx_ring # <<>>
    /\ LET dq == Lesser(Burst, Len(rx_ring))
       IN  /\ parserBuff' = Prefix(rx_ring, dq)
           /\ rx_ring' = Rest(rx_ring, dq)
    /\ pc' = [pc EXCEPT !["parser"] = "put"]
    /\ UNCHANGED <<pool, nicRx, rxBuff, tx_ring, txBuff, nicTx, lcore_id>>

ParserEnqueue ==                        \* rte_ring_enqueue_burst(tx_ring)
    /\ pc["parser"] = "put"
    /\ LET enq == Taken(parserBuff, RingCap - Len(tx_ring))
       IN  /\ tx_ring' = tx_ring \o Prefix(parserBuff, enq)
           /\ parserBuff' = Rest(parserBuff, enq)
           /\ AfterPut("parser", parserBuff, enq)
    /\ UNCHANGED <<pool, nicRx, rxBuff, rx_ring, txBuff, nicTx, lcore_id>>

ParserFree ==                           \* one rte_pktmbuf_free of the loop
    /\ pc["parser"] = "free"
    /\ pool' = pool \cup {Head(parserBuff)}
    /\ parserBuff' = Tail(parserBuff)
    /\ AfterFree("parser", parserBuff)
    /\ UNCHANGED <<nicRx, rxBuff, rx_ring, tx_ring, txBuff, nicTx, lcore_id>>

-----------------------------------------------------------------------------
(* tx_handler, on lcore 3                                                   *)

TxDequeue ==                            \* rte_ring_dequeue_burst(tx_ring)
    /\ pc["tx"] = "poll"
    /\ tx_ring # <<>>
    /\ LET num == Lesser(Burst, Len(tx_ring))
       IN  /\ txBuff' = Prefix(tx_ring, num)
           /\ tx_ring' = Rest(tx_ring, num)
    /\ pc' = [pc EXCEPT !["tx"] = "put"]
    /\ UNCHANGED <<pool, nicRx, rxBuff, rx_ring, parserBuff, nicTx, lcore_id>>

\* Mutant: the loop that frees starts at 0, so it frees what the NIC owns.
TxBurstFreesSent ==
    /\ pc["tx"] = "put"
    /\ \E sent \in 0..Taken(txBuff, TxDesc - Len(nicTx)) :
         /\ nicTx' = nicTx \o Prefix(txBuff, sent)
         /\ txBuff' = IF sent < Len(txBuff) THEN txBuff ELSE <<>>
         /\ AfterPut("tx", txBuff, sent)
    /\ UNCHANGED <<pool, nicRx, rxBuff, rx_ring, parserBuff, tx_ring, lcore_id>>

TxBurst ==                              \* rte_eth_tx_burst: the NIC may take fewer
    /\ pc["tx"] = "put"
    /\ \E sent \in 0..Taken(txBuff, TxDesc - Len(nicTx)) :
         /\ nicTx' = nicTx \o Prefix(txBuff, sent)
         /\ txBuff' = Rest(txBuff, sent)
         /\ AfterPut("tx", txBuff, sent)
    /\ UNCHANGED <<pool, nicRx, rxBuff, rx_ring, parserBuff, tx_ring, lcore_id>>

TxFree ==                               \* one rte_pktmbuf_free of the loop
    /\ pc["tx"] = "free"
    /\ pool' = pool \cup {Head(txBuff)}
    /\ txBuff' = Tail(txBuff)
    /\ AfterFree("tx", txBuff)
    /\ UNCHANGED <<nicRx, rxBuff, rx_ring, parserBuff, tx_ring, nicTx, lcore_id>>

-----------------------------------------------------------------------------
Rx == RxPoll \/ RxEnqueue \/ RxFree
Parser == ParserDequeue \/ ParserEnqueue \/ ParserFree
Tx == TxDequeue \/ TxBurst \/ TxFree

Next ==
    \/ Launch
    \/ \E m \in Mbufs : NicReceive(m)
    \/ NicTxDone
    \/ Rx
    \/ Parser
    \/ Tx

Spec == Init /\ [][Next]_vars

\* Every lcore has its own CPU and spins without blocking, main's loop is
\* finite, and the NIC completes what it accepted.  Nothing makes packets come.
FairSpec == Spec /\ WF_vars(Launch) /\ WF_vars(NicTxDone)
                 /\ WF_vars(Rx) /\ WF_vars(Parser) /\ WF_vars(Tx)

-----------------------------------------------------------------------------
(* Every buffer outside the pool, from the wire back to the NIC's receive   *)
(* queue: the order in which the packets arrived.                           *)
Line == txBuff \o (tx_ring \o (parserBuff \o (rx_ring \o (rxBuff \o nicRx))))
Holding == nicTx \o Line

\* The types of the variables, and the sizes of the arrays and rings.
Bounded(s, n) == s \in Seq(Mbufs) /\ Len(s) <= n

TypeOK ==
    /\ pool \subseteq Mbufs
    /\ Bounded(nicRx, RxDesc)
    /\ Bounded(rxBuff, Burst)
    /\ Bounded(rx_ring, RingCap)
    /\ Bounded(parserBuff, Burst)
    /\ Bounded(tx_ring, RingCap)
    /\ Bounded(txBuff, Burst)
    /\ Bounded(nicTx, TxDesc)
    /\ pc \in [Handlers -> Labels]
    /\ lcore_id \in 1..Len(Handler) + 1

\* A handler holds buffers exactly while it is past its dequeue: nothing is
\* left in buff[] to be overwritten by the next burst (rx.c:16, parser.c:172,
\* tx.c:14 all write buff[] from its start).
HoldsBurst(h, s) == pc[h] \in {"put", "free"} <=> s # <<>>
NothingOverwritten ==
    /\ HoldsBurst("rx", rxBuff)
    /\ HoldsBurst("parser", parserBuff)
    /\ HoldsBurst("tx", txBuff)

\* Each buffer has exactly one owner: it is in the pool, or at one place of
\* one queue, ring or array.  A leak, a double free, a use of a buffer that
\* the NIC still owns would each break it ("sent mbufs were accepted by the
\* nic which will be later be freed bu the NIC in TX complpetion, so the rest
\* is tpo be freed by us", tx.c:22-23).
Custody ==
    /\ IsInjective(Holding)
    /\ pool \cap Range(Holding) = {}
    /\ pool \cup Range(Holding) = Mbufs

\* The pipeline is a FIFO that loses packets: no reordering and no duplicate
\* across three lcores and two rings, and a lost packet's buffer is freed.
Fifo == INSTANCE LossyFifo WITH free <- pool, line <- Line, wire <- nicTx
FifoSpec == Fifo!Spec

\* rx and parser drop only what a full ring would not take: a burst enqueue
\* never gives up slots it could use (rx.c:26, parser.c:188).
DropOnlyWhenFull ==
    [][/\ pc'["rx"] = "free" => Len(rx_ring') = RingCap \/ pc["rx"] = "free"
       /\ pc'["parser"] = "free" => Len(tx_ring') = RingCap \/ pc["parser"] = "free"]_vars

Running(hs) == \A h \in hs : pc[h] # "off"

\* No buffer is lost for good: with the three handlers running, whatever left
\* the pool comes back to it.
EveryBufferReturns ==
    \A m \in Mbufs : (m \notin pool /\ Running(Handlers)) ~> (m \in pool)

\* With the rx lcore running, packets never wait in the NIC for ever, even if
\* another handler was not launched (main.c:60-67 goes by the lcore ids there
\* are): a full ring means loss, not a stall.
InRxQueue(m) == \E i \in 1..Len(nicRx) : nicRx[i] = m
ReceptionNeverStalls ==
    \A m \in Mbufs : (InRxQueue(m) /\ Running({"rx"})) ~> ~InRxQueue(m)
=============================================================================
