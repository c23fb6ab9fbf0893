----------------------- MODULE ThreadedParsingProofs -----------------------
(* The pipeline keeps its buffers and implements the lossy FIFO, for every  *)
(* number of buffers and every size of burst, ring and descriptor queue.    *)
EXTENDS ThreadedParsing, SequenceTheorems, TLAPS

FifoFacts == INSTANCE LossyFifoProofs WITH free <- pool, line <- Line, wire <- nicTx

\* Polling relies on buff[] being empty, freeing on its being non-empty.
\* Launching relies on the handler not running yet.
NotYetLaunched == \A l \in DOMAIN Handler : l >= lcore_id => pc[Handler[l]] = "off"
IndInv == TypeOK /\ NothingOverwritten /\ NotYetLaunched

-----------------------------------------------------------------------------
(* Bursts: a prefix moves on and the rest stays.                            *)

LEMMA Sizes == Burst \in Nat \ {0} /\ RingCap \in Nat \ {0}
               /\ RxDesc \in Nat \ {0} /\ TxDesc \in Nat \ {0}
BY SizeAssumption

LEMMA Empty ==
    ASSUME NEW s \in Seq(Mbufs)
    PROVE  Len(s) \in Nat /\ (s = <<>> <=> Len(s) = 0)
BY EmptySeq, LenProperties

LEMMA Cut ==
    ASSUME NEW s \in Seq(Mbufs), NEW n \in 0..Len(s)
    PROVE  /\ Prefix(s, n) \in Seq(Mbufs) /\ Len(Prefix(s, n)) = n
           /\ Rest(s, n) \in Seq(Mbufs) /\ Len(Rest(s, n)) = Len(s) - n
           /\ Prefix(s, n) \o Rest(s, n) = s
BY FifoFacts!CutProperties DEF Prefix, Rest

LEMMA Join ==
    ASSUME NEW s \in Seq(Mbufs), NEW t \in Seq(Mbufs)
    PROVE  s \o t \in Seq(Mbufs) /\ Len(s \o t) = Len(s) + Len(t)
BY ConcatProperties

LEMMA Regroup ==
    ASSUME NEW a \in Seq(Mbufs), NEW b \in Seq(Mbufs), NEW c \in Seq(Mbufs)
    PROVE  (a \o b) \o c = a \o (b \o c)
BY ConcatAssociative

\* Receiving or dequeuing a burst leaves the array holding something.
LEMMA DequeueBurst ==
    ASSUME NEW s \in Seq(Mbufs), NEW n \in 1..Lesser(Burst, Len(s))
    PROVE  /\ n \in 0..Len(s)
           /\ Bounded(Prefix(s, n), Burst) /\ Prefix(s, n) # <<>>
           /\ Rest(s, n) \in Seq(Mbufs) /\ Len(Rest(s, n)) <= Len(s)
<1>1. Len(s) \in Nat
  BY Empty
<1>2. n \in 0..Len(s) /\ n # 0 /\ n <= Burst
  BY <1>1, Sizes DEF Lesser
<1>3. /\ Prefix(s, n) \in Seq(Mbufs) /\ Len(Prefix(s, n)) = n
      /\ Rest(s, n) \in Seq(Mbufs) /\ Len(Rest(s, n)) = Len(s) - n
  BY <1>2, Cut
<1>4. Prefix(s, n) # <<>>
  BY <1>2, <1>3, Empty
<1>. QED  BY <1>1, <1>2, <1>3, <1>4 DEF Bounded

LEMMA LesserBurst ==
    ASSUME NEW s \in Seq(Mbufs), s # <<>>
    PROVE  Lesser(Burst, Len(s)) \in 1..Lesser(Burst, Len(s))
<1>1. Len(s) \in Nat /\ Len(s) # 0
  BY Empty
<1>. QED  BY <1>1, Sizes DEF Lesser

\* Passing a burst on fills the target at most to its capacity; what remains
\* is to be freed.
LEMMA EnqueueBurst ==
    ASSUME NEW s, Bounded(s, Burst),
           NEW cap \in Nat, NEW t, Bounded(t, cap),
           NEW n \in 0..Taken(s, cap - Len(t))
    PROVE  /\ n \in 0..Len(s)
           /\ Bounded(t \o Prefix(s, n), cap)
           /\ Bounded(Rest(s, n), Burst)
           /\ Rest(s, n) # <<>> <=> n < Len(s)
<1>1. /\ s \in Seq(Mbufs) /\ Len(s) \in Nat /\ Len(s) <= Burst
      /\ t \in Seq(Mbufs) /\ Len(t) \in Nat /\ Len(t) <= cap
  BY Empty DEF Bounded
<1>2. n \in 0..Len(s) /\ Len(t) + n <= cap
  BY <1>1 DEF Taken, Lesser
<1>3. /\ Prefix(s, n) \in Seq(Mbufs) /\ Len(Prefix(s, n)) = n
      /\ Rest(s, n) \in Seq(Mbufs) /\ Len(Rest(s, n)) = Len(s) - n
  BY <1>1, <1>2, Cut
<1>4. t \o Prefix(s, n) \in Seq(Mbufs) /\ Len(t \o Prefix(s, n)) = Len(t) + n
  BY <1>1, <1>3, Join
<1>5. Rest(s, n) # <<>> <=> Len(s) - n # 0
  BY <1>3, Empty
<1>. QED  BY <1>1, <1>2, <1>3, <1>4, <1>5, Sizes DEF Bounded

\* A burst enqueue takes what fits, and falls short only by filling the room.
LEMMA TakenAll ==
    ASSUME NEW s \in Seq(Mbufs), NEW room \in Nat
    PROVE  /\ Taken(s, room) \in 0..Taken(s, room)
           /\ Taken(s, room) \in 0..Len(s)
           /\ Taken(s, room) < Len(s) => Taken(s, room) = room
<1>1. Len(s) \in Nat
  BY Empty
<1>. QED  BY <1>1 DEF Taken, Lesser

\* Freeing one buffer of a burst.
LEMMA FreeOne ==
    ASSUME NEW s, NEW cap \in Nat, Bounded(s, cap), s # <<>>
    PROVE  /\ Head(s) \in Mbufs
           /\ Bounded(Tail(s), cap)
           /\ Tail(s) = <<>> <=> Len(s) = 1
<1>1. s \in Seq(Mbufs) /\ Len(s) \in Nat /\ Len(s) <= cap
  BY Empty DEF Bounded
<1>2. Head(s) \in Mbufs /\ Tail(s) \in Seq(Mbufs) /\ Len(Tail(s)) = Len(s) - 1
  BY <1>1, HeadTailProperties
<1>3. Tail(s) = <<>> <=> Len(s) - 1 = 0
  BY <1>2, Empty
<1>. QED  BY <1>1, <1>2, <1>3 DEF Bounded

-----------------------------------------------------------------------------
(* The inductive invariant.                                                 *)

LEMMA Names == Handlers = {"rx", "parser", "tx"} /\ Labels = {"off", "poll", "put", "free"}
               /\ DOMAIN Handler = {1, 2, 3} /\ Len(Handler) = 3
               /\ Handler[1] = "rx" /\ Handler[2] = "parser" /\ Handler[3] = "tx"
BY DEF Handlers, Labels, Handler

LEMMA IndInvInit == Init => IndInv
<1>. SUFFICES ASSUME Init PROVE IndInv
  OBVIOUS
<1>1. <<>> \in Seq(Mbufs) /\ Len(<<>>) = 0
  BY EmptySeq
<1>2. \A n \in Nat : Bounded(<<>>, n)
  BY <1>1 DEF Bounded
<1>3. TypeOK
  <2>1. pc \in [Handlers -> Labels] /\ lcore_id \in 1..Len(Handler) + 1
    BY Names DEF Init
  <2>. QED  BY <1>2, <2>1, Sizes DEF Init, TypeOK
<1>4. NothingOverwritten
  BY Names DEF Init, NothingOverwritten, HoldsBurst
<1>5. NotYetLaunched
  BY Names DEF Init, NotYetLaunched
<1>. QED  BY <1>3, <1>4, <1>5 DEF IndInv

\* A step of a launched handler h that goes to label l, seen by the others.
LEMMA HandlerStep ==
    ASSUME IndInv, NEW h \in Handlers, NEW l \in Labels, pc[h] # "off",
           pc' = [pc EXCEPT ![h] = l], lcore_id' = lcore_id
    PROVE  /\ pc' \in [Handlers -> Labels] /\ lcore_id' \in 1..Len(Handler) + 1
           /\ pc'[h] = l
           /\ \A g \in Handlers \ {h} : pc'[g] = pc[g]
           /\ NotYetLaunched'
<1>1. /\ pc' \in [Handlers -> Labels] /\ pc'[h] = l
      /\ \A g \in Handlers \ {h} : pc'[g] = pc[g]
  BY DEF IndInv, TypeOK
<1>2. \A k \in DOMAIN Handler : k >= lcore_id => Handler[k] # h /\ Handler[k] \in Handlers
  BY Names DEF IndInv, NotYetLaunched
<1>3. NotYetLaunched'
  BY <1>1, <1>2 DEF IndInv, NotYetLaunched
<1>. QED  BY <1>1, <1>3 DEF IndInv, TypeOK

LEMMA IndInvNext == IndInv /\ [Next]_vars => IndInv'
<1>. SUFFICES ASSUME IndInv, [Next]_vars PROVE IndInv'
  OBVIOUS
<1>. USE Sizes, Names
<1>0. TypeOK /\ NothingOverwritten /\ NotYetLaunched
  BY DEF IndInv
<1>1. CASE Launch
  <2>1. pc' \in [Handlers -> Labels] /\ lcore_id' \in 1..Len(Handler) + 1
    BY <1>0, <1>1 DEF Launch, TypeOK
  <2>2. TypeOK'
    BY <1>0, <1>1, <2>1 DEF Launch, queues, TypeOK, Bounded
  <2>3. pc[Handler[lcore_id]] = "off"
    BY <1>0, <1>1 DEF Launch, NotYetLaunched
  <2>4. NothingOverwritten'
    BY <1>0, <1>1, <2>3 DEF Launch, queues, TypeOK, NothingOverwritten, HoldsBurst
  <2>5. NotYetLaunched'
    BY <1>0, <1>1 DEF Launch, TypeOK, NotYetLaunched
  <2>. QED  BY <2>2, <2>4, <2>5 DEF IndInv
<1>2. ASSUME NEW m \in Mbufs, NicReceive(m) PROVE IndInv'
  <2>1. Bounded(nicRx', RxDesc)
    BY <1>0, <1>2, AppendProperties, Empty DEF NicReceive, TypeOK, Bounded
  <2>2. TypeOK'
    BY <1>0, <1>2, <2>1 DEF NicReceive, TypeOK, Bounded
  <2>. QED  BY <1>0, <1>2, <2>2 DEF NicReceive, IndInv, NothingOverwritten, HoldsBurst, NotYetLaunched
<1>3. CASE NicTxDone
  <2>1. Bounded(nicTx', TxDesc) /\ Head(nicTx) \in Mbufs
    BY <1>0, <1>3, FreeOne DEF NicTxDone, TypeOK
  <2>2. TypeOK'
    BY <1>0, <1>3, <2>1 DEF NicTxDone, TypeOK, Bounded
  <2>. QED  BY <1>0, <1>3, <2>2 DEF NicTxDone, IndInv, NothingOverwritten, HoldsBurst, NotYetLaunched
<1>4. CASE RxPoll
  <2>1. PICK n \in 1..Lesser(Burst, Len(nicRx)) :
           rxBuff' = Prefix(nicRx, n) /\ nicRx' = Rest(nicRx, n)
    BY <1>4 DEF RxPoll
  <2>2. /\ Bounded(rxBuff', Burst) /\ rxBuff' # <<>>
        /\ Bounded(nicRx', RxDesc)
    <3>1. nicRx \in Seq(Mbufs) /\ Len(nicRx) \in Nat /\ Len(nicRx) <= RxDesc
      BY <1>0, Empty DEF TypeOK, Bounded
    <3>2. Rest(nicRx, n) \in Seq(Mbufs) /\ Len(Rest(nicRx, n)) <= Len(nicRx)
          /\ Bounded(Prefix(nicRx, n), Burst) /\ Prefix(nicRx, n) # <<>>
      BY <3>1, DequeueBurst
    <3>3. Len(Rest(nicRx, n)) \in Nat
      BY <3>2, Empty
    <3>. QED  BY <2>1, <3>1, <3>2, <3>3 DEF Bounded
  <2>3. /\ pc' \in [Handlers -> Labels] /\ lcore_id' \in 1..Len(Handler) + 1
        /\ pc'["rx"] = "put"
        /\ \A g \in Handlers \ {"rx"} : pc'[g] = pc[g]
        /\ NotYetLaunched'
    BY <1>4, HandlerStep DEF RxPoll
  <2>4. TypeOK'
    BY <1>0, <1>4, <2>2, <2>3 DEF RxPoll, TypeOK, Bounded
  <2>5. NothingOverwritten'
    BY <1>0, <1>4, <2>2, <2>3 DEF RxPoll, NothingOverwritten, HoldsBurst
  <2>. QED  BY <2>3, <2>4, <2>5 DEF IndInv
<1>5. CASE RxEnqueue
  <2>1. PICK n \in 0..Taken(rxBuff, RingCap - Len(rx_ring)) :
          rx_ring' = rx_ring \o Prefix(rxBuff, n) /\ rxBuff' = Rest(rxBuff, n)
          /\ AfterPut("rx", rxBuff, n)
    <3>1. rxBuff \in Seq(Mbufs) /\ RingCap - Len(rx_ring) \in Nat
      BY <1>0, Empty DEF TypeOK, Bounded
    <3>2. Taken(rxBuff, RingCap - Len(rx_ring)) \in 0..Taken(rxBuff, RingCap - Len(rx_ring))
      BY <3>1, TakenAll
    <3>. QED  BY <1>5, <3>2 DEF RxEnqueue
  <2>2. /\ Bounded(rx_ring', RingCap) /\ Bounded(rxBuff', Burst)
        /\ rxBuff' # <<>> <=> n < Len(rxBuff)
    BY <1>0, <2>1, EnqueueBurst DEF TypeOK
  <2>3. /\ pc' \in [Handlers -> Labels] /\ lcore_id' \in 1..Len(Handler) + 1
        /\ pc'["rx"] = IF n < Len(rxBuff) THEN "free" ELSE "poll"
        /\ \A g \in Handlers \ {"rx"} : pc'[g] = pc[g]
        /\ NotYetLaunched'
    BY <1>5, <2>1, HandlerStep DEF RxEnqueue, AfterPut
  <2>4. TypeOK'
    BY <1>0, <1>5, <2>2, <2>3 DEF RxEnqueue, TypeOK, Bounded
  <2>5. NothingOverwritten'
    BY <1>0, <1>5, <2>2, <2>3 DEF RxEnqueue, NothingOverwritten, HoldsBurst
  <2>. QED  BY <2>3, <2>4, <2>5 DEF IndInv
<1>6. CASE RxFree
  <2>1. Bounded(rxBuff, Burst) /\ rxBuff # <<>>
    BY <1>0, <1>6 DEF RxFree, TypeOK, NothingOverwritten, HoldsBurst
  <2>2. /\ Bounded(rxBuff', Burst) /\ Head(rxBuff) \in Mbufs
        /\ rxBuff' = <<>> <=> Len(rxBuff) = 1
    BY <1>6, <2>1, FreeOne DEF RxFree
  <2>3. /\ pc' \in [Handlers -> Labels] /\ lcore_id' \in 1..Len(Handler) + 1
        /\ pc'["rx"] = IF Len(rxBuff) = 1 THEN "poll" ELSE "free"
        /\ \A g \in Handlers \ {"rx"} : pc'[g] = pc[g]
        /\ NotYetLaunched'
    BY <1>6, HandlerStep DEF RxFree, AfterFree
  <2>4. TypeOK'
    BY <1>0, <1>6, <2>2, <2>3 DEF RxFree, TypeOK, Bounded
  <2>5. NothingOverwritten'
    BY <1>0, <1>6, <2>2, <2>3 DEF RxFree, NothingOverwritten, HoldsBurst
  <2>. QED  BY <2>3, <2>4, <2>5 DEF IndInv
<1>7. CASE ParserDequeue
  <2>1. PICK n \in 1..Lesser(Burst, Len(rx_ring)) :
           parserBuff' = Prefix(rx_ring, n) /\ rx_ring' = Rest(rx_ring, n)
    BY <1>0, <1>7, LesserBurst DEF ParserDequeue, TypeOK, Bounded
  <2>2. /\ Bounded(parserBuff', Burst) /\ parserBuff' # <<>>
        /\ Bounded(rx_ring', RingCap)
    <3>1. rx_ring \in Seq(Mbufs) /\ Len(rx_ring) \in Nat /\ Len(rx_ring) <= RingCap
      BY <1>0, Empty DEF TypeOK, Bounded
    <3>2. Rest(rx_ring, n) \in Seq(Mbufs) /\ Len(Rest(rx_ring, n)) <= Len(rx_ring)
          /\ Bounded(Prefix(rx_ring, n), Burst) /\ Prefix(rx_ring, n) # <<>>
      BY <3>1, DequeueBurst
    <3>3. Len(Rest(rx_ring, n)) \in Nat
      BY <3>2, Empty
    <3>. QED  BY <2>1, <3>1, <3>2, <3>3 DEF Bounded
  <2>3. /\ pc' \in [Handlers -> Labels] /\ lcore_id' \in 1..Len(Handler) + 1
        /\ pc'["parser"] = "put"
        /\ \A g \in Handlers \ {"parser"} : pc'[g] = pc[g]
        /\ NotYetLaunched'
    BY <1>7, HandlerStep DEF ParserDequeue
  <2>4. TypeOK'
    BY <1>0, <1>7, <2>2, <2>3 DEF ParserDequeue, TypeOK, Bounded
  <2>5. NothingOverwritten'
    BY <1>0, <1>7, <2>2, <2>3 DEF ParserDequeue, NothingOverwritten, HoldsBurst
  <2>. QED  BY <2>3, <2>4, <2>5 DEF IndInv
<1>8. CASE ParserEnqueue
  <2>1. PICK n \in 0..Taken(parserBuff, RingCap - Len(tx_ring)) :
          tx_ring' = tx_ring \o Prefix(parserBuff, n) /\ parserBuff' = Rest(parserBuff, n)
          /\ AfterPut("parser", parserBuff, n)
    <3>1. parserBuff \in Seq(Mbufs) /\ RingCap - Len(tx_ring) \in Nat
      BY <1>0, Empty DEF TypeOK, Bounded
    <3>2. Taken(parserBuff, RingCap - Len(tx_ring)) \in 0..Taken(parserBuff, RingCap - Len(tx_ring))
      BY <3>1, TakenAll
    <3>. QED  BY <1>8, <3>2 DEF ParserEnqueue
  <2>2. /\ Bounded(tx_ring', RingCap) /\ Bounded(parserBuff', Burst)
        /\ parserBuff' # <<>> <=> n < Len(parserBuff)
    BY <1>0, <2>1, EnqueueBurst DEF TypeOK
  <2>3. /\ pc' \in [Handlers -> Labels] /\ lcore_id' \in 1..Len(Handler) + 1
        /\ pc'["parser"] = IF n < Len(parserBuff) THEN "free" ELSE "poll"
        /\ \A g \in Handlers \ {"parser"} : pc'[g] = pc[g]
        /\ NotYetLaunched'
    BY <1>8, <2>1, HandlerStep DEF ParserEnqueue, AfterPut
  <2>4. TypeOK'
    BY <1>0, <1>8, <2>2, <2>3 DEF ParserEnqueue, TypeOK, Bounded
  <2>5. NothingOverwritten'
    BY <1>0, <1>8, <2>2, <2>3 DEF ParserEnqueue, NothingOverwritten, HoldsBurst
  <2>. QED  BY <2>3, <2>4, <2>5 DEF IndInv
<1>9. CASE ParserFree
  <2>1. Bounded(parserBuff, Burst) /\ parserBuff # <<>>
    BY <1>0, <1>9 DEF ParserFree, TypeOK, NothingOverwritten, HoldsBurst
  <2>2. /\ Bounded(parserBuff', Burst) /\ Head(parserBuff) \in Mbufs
        /\ parserBuff' = <<>> <=> Len(parserBuff) = 1
    BY <1>9, <2>1, FreeOne DEF ParserFree
  <2>3. /\ pc' \in [Handlers -> Labels] /\ lcore_id' \in 1..Len(Handler) + 1
        /\ pc'["parser"] = IF Len(parserBuff) = 1 THEN "poll" ELSE "free"
        /\ \A g \in Handlers \ {"parser"} : pc'[g] = pc[g]
        /\ NotYetLaunched'
    BY <1>9, HandlerStep DEF ParserFree, AfterFree
  <2>4. TypeOK'
    BY <1>0, <1>9, <2>2, <2>3 DEF ParserFree, TypeOK, Bounded
  <2>5. NothingOverwritten'
    BY <1>0, <1>9, <2>2, <2>3 DEF ParserFree, NothingOverwritten, HoldsBurst
  <2>. QED  BY <2>3, <2>4, <2>5 DEF IndInv
<1>10. CASE TxDequeue
  <2>1. PICK n \in 1..Lesser(Burst, Len(tx_ring)) :
           txBuff' = Prefix(tx_ring, n) /\ tx_ring' = Rest(tx_ring, n)
    BY <1>0, <1>10, LesserBurst DEF TxDequeue, TypeOK, Bounded
  <2>2. /\ Bounded(txBuff', Burst) /\ txBuff' # <<>>
        /\ Bounded(tx_ring', RingCap)
    <3>1. tx_ring \in Seq(Mbufs) /\ Len(tx_ring) \in Nat /\ Len(tx_ring) <= RingCap
      BY <1>0, Empty DEF TypeOK, Bounded
    <3>2. Rest(tx_ring, n) \in Seq(Mbufs) /\ Len(Rest(tx_ring, n)) <= Len(tx_ring)
          /\ Bounded(Prefix(tx_ring, n), Burst) /\ Prefix(tx_ring, n) # <<>>
      BY <3>1, DequeueBurst
    <3>3. Len(Rest(tx_ring, n)) \in Nat
      BY <3>2, Empty
    <3>. QED  BY <2>1, <3>1, <3>2, <3>3 DEF Bounded
  <2>3. /\ pc' \in [Handlers -> Labels] /\ lcore_id' \in 1..Len(Handler) + 1
        /\ pc'["tx"] = "put"
        /\ \A g \in Handlers \ {"tx"} : pc'[g] = pc[g]
        /\ NotYetLaunched'
    BY <1>10, HandlerStep DEF TxDequeue
  <2>4. TypeOK'
    BY <1>0, <1>10, <2>2, <2>3 DEF TxDequeue, TypeOK, Bounded
  <2>5. NothingOverwritten'
    BY <1>0, <1>10, <2>2, <2>3 DEF TxDequeue, NothingOverwritten, HoldsBurst
  <2>. QED  BY <2>3, <2>4, <2>5 DEF IndInv
<1>11. CASE TxBurst
  <2>1. PICK n \in 0..Taken(txBuff, TxDesc - Len(nicTx)) :
          nicTx' = nicTx \o Prefix(txBuff, n) /\ txBuff' = Rest(txBuff, n)
          /\ AfterPut("tx", txBuff, n)
    BY <1>11 DEF TxBurst
  <2>2. /\ Bounded(nicTx', TxDesc) /\ Bounded(txBuff', Burst)
        /\ txBuff' # <<>> <=> n < Len(txBuff)
    BY <1>0, <2>1, EnqueueBurst DEF TypeOK
  <2>3. /\ pc' \in [Handlers -> Labels] /\ lcore_id' \in 1..Len(Handler) + 1
        /\ pc'["tx"] = IF n < Len(txBuff) THEN "free" ELSE "poll"
        /\ \A g \in Handlers \ {"tx"} : pc'[g] = pc[g]
        /\ NotYetLaunched'
    BY <1>11, <2>1, HandlerStep DEF TxBurst, AfterPut
  <2>4. TypeOK'
    BY <1>0, <1>11, <2>2, <2>3 DEF TxBurst, TypeOK, Bounded
  <2>5. NothingOverwritten'
    BY <1>0, <1>11, <2>2, <2>3 DEF TxBurst, NothingOverwritten, HoldsBurst
  <2>. QED  BY <2>3, <2>4, <2>5 DEF IndInv
<1>12. CASE TxFree
  <2>1. Bounded(txBuff, Burst) /\ txBuff # <<>>
    BY <1>0, <1>12 DEF TxFree, TypeOK, NothingOverwritten, HoldsBurst
  <2>2. /\ Bounded(txBuff', Burst) /\ Head(txBuff) \in Mbufs
        /\ txBuff' = <<>> <=> Len(txBuff) = 1
    BY <1>12, <2>1, FreeOne DEF TxFree
  <2>3. /\ pc' \in [Handlers -> Labels] /\ lcore_id' \in 1..Len(Handler) + 1
        /\ pc'["tx"] = IF Len(txBuff) = 1 THEN "poll" ELSE "free"
        /\ \A g \in Handlers \ {"tx"} : pc'[g] = pc[g]
        /\ NotYetLaunched'
    BY <1>12, HandlerStep DEF TxFree, AfterFree
  <2>4. TypeOK'
    BY <1>0, <1>12, <2>2, <2>3 DEF TxFree, TypeOK, Bounded
  <2>5. NothingOverwritten'
    BY <1>0, <1>12, <2>2, <2>3 DEF TxFree, NothingOverwritten, HoldsBurst
  <2>. QED  BY <2>3, <2>4, <2>5 DEF IndInv
<1>13. CASE UNCHANGED vars
  BY <1>0, <1>13 DEF vars, queues, IndInv, TypeOK, Bounded, NothingOverwritten, HoldsBurst, NotYetLaunched
<1>. QED
  BY <1>1, <1>2, <1>3, <1>4, <1>5, <1>6, <1>7, <1>8, <1>9, <1>10, <1>11, <1>12, <1>13
     DEF Next, Rx, Parser, Tx

LEMMA IndInvAlways == Spec => []IndInv
BY IndInvInit, IndInvNext, PTL DEF Spec

\* Bursts, rings and descriptor queues keep their sizes: no buff[BURST_SIZE]
\* is ever written past its end.
THEOREM TypeCorrect == Spec => []TypeOK
BY IndInvAlways, PTL DEF IndInv

\* No handler polls while it still holds buffers of its last burst.
THEOREM BurstsNotOverwritten == Spec => []NothingOverwritten
BY IndInvAlways, PTL DEF IndInv

-----------------------------------------------------------------------------
(* The line of packets, cut behind each of its segments.                    *)

FromRxBuff == rxBuff \o nicRx
FromRxRing == rx_ring \o FromRxBuff
FromParser == parserBuff \o FromRxRing
FromTxRing == tx_ring \o FromParser

LEMMA Segments ==
    ASSUME TypeOK
    PROVE  /\ Line = txBuff \o FromTxRing
           /\ nicRx \in Seq(Mbufs) /\ rxBuff \in Seq(Mbufs) /\ rx_ring \in Seq(Mbufs)
           /\ parserBuff \in Seq(Mbufs) /\ tx_ring \in Seq(Mbufs)
           /\ txBuff \in Seq(Mbufs) /\ nicTx \in Seq(Mbufs)
           /\ FromRxBuff \in Seq(Mbufs) /\ FromRxRing \in Seq(Mbufs)
           /\ FromParser \in Seq(Mbufs) /\ FromTxRing \in Seq(Mbufs)
<1>1. Line = txBuff \o FromTxRing
  BY DEF Line, FromTxRing, FromParser, FromRxRing, FromRxBuff
<1>2. /\ nicRx \in Seq(Mbufs) /\ rxBuff \in Seq(Mbufs) /\ rx_ring \in Seq(Mbufs)
      /\ parserBuff \in Seq(Mbufs) /\ tx_ring \in Seq(Mbufs)
      /\ txBuff \in Seq(Mbufs) /\ nicTx \in Seq(Mbufs)
  BY DEF TypeOK, Bounded
<1>3. FromRxBuff \in Seq(Mbufs)
  BY <1>2, Join DEF FromRxBuff
<1>4. FromRxRing \in Seq(Mbufs)
  BY <1>2, <1>3, Join DEF FromRxRing
<1>5. FromParser \in Seq(Mbufs)
  BY <1>2, <1>4, Join DEF FromParser
<1>6. FromTxRing \in Seq(Mbufs)
  BY <1>2, <1>5, Join DEF FromTxRing
<1>. QED  BY <1>1, <1>2, <1>3, <1>4, <1>5, <1>6

\* Moving a burst from the front of one segment to the end of the segment
\* before it leaves the line unchanged.
LEMMA MoveBurst ==
    ASSUME NEW t \in Seq(Mbufs), NEW s \in Seq(Mbufs), NEW u \in Seq(Mbufs),
           NEW n \in 0..Len(s)
    PROVE  (t \o Prefix(s, n)) \o (Rest(s, n) \o u) = t \o (s \o u)
<1> DEFINE p == Prefix(s, n)
           q == Rest(s, n)
<1>1. p \in Seq(Mbufs) /\ q \in Seq(Mbufs) /\ p \o q = s
  BY Cut
<1>2. q \o u \in Seq(Mbufs)
  BY <1>1, Join
<1>3. (t \o p) \o (q \o u) = t \o (p \o (q \o u))
  BY <1>1, <1>2, Regroup
<1>4. (p \o q) \o u = p \o (q \o u)
  BY <1>1, Regroup
<1>. QED  BY <1>1, <1>3, <1>4

\* Taking a burst into an empty array does, too.
LEMMA TakeBurst ==
    ASSUME NEW s \in Seq(Mbufs), NEW u \in Seq(Mbufs), NEW n \in 0..Len(s)
    PROVE  Prefix(s, n) \o (Rest(s, n) \o u) = <<>> \o (s \o u)
<1>1. <<>> \in Seq(Mbufs)
  OBVIOUS
<1>2. (<<>> \o Prefix(s, n)) \o (Rest(s, n) \o u) = <<>> \o (s \o u)
  BY <1>1, MoveBurst
<1>3. <<>> \o Prefix(s, n) = Prefix(s, n)
  BY Cut, ConcatEmptySeq
<1>. QED  BY <1>2, <1>3

\* Arrivals join at the end, behind any segment.
LEMMA AppendBehind ==
    ASSUME NEW s \in Seq(Mbufs), NEW t \in Seq(Mbufs), NEW m \in Mbufs
    PROVE  s \o Append(t, m) = Append(s \o t, m)
<1>1. <<m>> \in Seq(Mbufs)
  OBVIOUS
<1>2. \A a \in Seq(Mbufs) : Append(a, m) = a \o <<m>>
  BY AppendIsConcat
<1>3. s \o t \in Seq(Mbufs)
  BY Join
<1>4. (s \o t) \o <<m>> = s \o (t \o <<m>>)
  BY <1>1, Regroup
<1>. QED  BY <1>2, <1>3, <1>4

\* The front of the line is the front of its first segment.
LEMMA FrontOfLine ==
    ASSUME NEW s \in Seq(Mbufs), NEW u \in Seq(Mbufs), NEW n \in 0..Len(s)
    PROVE  /\ Prefix(s \o u, n) = Prefix(s, n)
           /\ Rest(s \o u, n) = Rest(s, n) \o u
BY FifoFacts!CutFront DEF Prefix, Rest

-----------------------------------------------------------------------------
(* What the rings refuse.                                                   *)

\* A burst enqueue that leaves something has filled the ring.
LEMMA RefusedIsFull ==
    ASSUME NEW s \in Seq(Mbufs), NEW ring \in Seq(Mbufs), Len(ring) <= RingCap,
           NEW n, n = Taken(s, RingCap - Len(ring)), n < Len(s)
    PROVE  Len(ring \o Prefix(s, n)) = RingCap
<1>1. RingCap \in Nat /\ Len(s) \in Nat /\ Len(ring) \in Nat
  BY Sizes, Empty
<1>2. n = RingCap - Len(ring) /\ n \in 0..Len(s)
  BY <1>1 DEF Taken, Lesser
<1>3. Prefix(s, n) \in Seq(Mbufs) /\ Len(Prefix(s, n)) = n
  BY <1>2, Cut
<1>4. Len(ring \o Prefix(s, n)) = Len(ring) + n
  BY <1>3, Join
<1>. QED  BY <1>1, <1>2, <1>4

\* The rx and parser lcores drop a packet only when the ring they feed is
\* full, whatever the sizes.
THEOREM DropsOnlyWhenFull == Spec => DropOnlyWhenFull
<1>1. ASSUME IndInv, [Next]_vars
      PROVE  /\ pc'["rx"] = "free" => Len(rx_ring') = RingCap \/ pc["rx"] = "free"
             /\ pc'["parser"] = "free" => Len(tx_ring') = RingCap \/ pc["parser"] = "free"
  <2>1. pc \in [Handlers -> Labels] /\ Handlers = {"rx", "parser", "tx"}
    BY <1>1 DEF IndInv, TypeOK, Handlers
  <2>2. /\ rxBuff \in Seq(Mbufs) /\ parserBuff \in Seq(Mbufs)
        /\ rx_ring \in Seq(Mbufs) /\ Len(rx_ring) <= RingCap
        /\ tx_ring \in Seq(Mbufs) /\ Len(tx_ring) <= RingCap
    BY <1>1 DEF IndInv, TypeOK, Bounded
  <2>3. CASE Launch
    <3>1. PICK h \in Handlers : pc' \in {pc, [pc EXCEPT ![h] = "poll"]}
      BY <2>3 DEF Launch, Handler, Handlers
    <3>. QED  BY <2>1, <3>1
  <2>4. CASE RxEnqueue
    <3>. DEFINE n == Taken(rxBuff, RingCap - Len(rx_ring))
    <3>1. /\ rx_ring' = rx_ring \o Prefix(rxBuff, n)
          /\ pc' = [pc EXCEPT !["rx"] = IF n < Len(rxBuff) THEN "free" ELSE "poll"]
      BY <2>4 DEF RxEnqueue, AfterPut
    <3>2. n < Len(rxBuff) => Len(rx_ring \o Prefix(rxBuff, n)) = RingCap
      BY <2>2, RefusedIsFull
    <3>. HIDE DEF n
    <3>. QED  BY <2>1, <3>1, <3>2
  <2>5. CASE ParserEnqueue
    <3>. DEFINE n == Taken(parserBuff, RingCap - Len(tx_ring))
    <3>1. /\ tx_ring' = tx_ring \o Prefix(parserBuff, n)
          /\ pc' = [pc EXCEPT !["parser"] = IF n < Len(parserBuff) THEN "free" ELSE "poll"]
      BY <2>5 DEF ParserEnqueue, AfterPut
    <3>2. n < Len(parserBuff) => Len(tx_ring \o Prefix(parserBuff, n)) = RingCap
      BY <2>2, RefusedIsFull
    <3>. HIDE DEF n
    <3>. QED  BY <2>1, <3>1, <3>2
  <2>6. CASE RxPoll \/ ParserDequeue \/ Tx \/ RxFree \/ ParserFree
    <3>1. CASE RxPoll
      BY <2>1, <3>1 DEF RxPoll
    <3>2. CASE ParserDequeue
      BY <2>1, <3>2 DEF ParserDequeue
    <3>3. CASE RxFree
      BY <2>1, <3>3 DEF RxFree, AfterFree
    <3>4. CASE ParserFree
      BY <2>1, <3>4 DEF ParserFree, AfterFree
    <3>5. CASE Tx
      <4>1. PICK l : pc' = [pc EXCEPT !["tx"] = l]
        BY <3>5 DEF Tx, TxDequeue, TxBurst, TxFree, AfterPut, AfterFree
      <4>. QED  BY <2>1, <4>1
    <3>. QED  BY <2>6, <3>1, <3>2, <3>3, <3>4, <3>5
  <2>7. CASE (\E m \in Mbufs : NicReceive(m)) \/ NicTxDone \/ UNCHANGED vars
    BY <2>7 DEF NicReceive, NicTxDone, vars
  <2>. QED  BY <1>1, <2>3, <2>4, <2>5, <2>6, <2>7 DEF Next, Rx, Parser
<1>. QED  BY <1>1, IndInvAlways, PTL DEF Spec, DropOnlyWhenFull

-----------------------------------------------------------------------------
(* Every step of the pipeline is a step of the lossy FIFO, or none.         *)

\* A step that leaves the line, the pool and the wire alone is a stutter.
LEMMA Stutter ==
    ASSUME pool' = pool, nicTx' = nicTx, FromTxRing' = FromTxRing, txBuff' = txBuff,
           TypeOK, TypeOK'
    PROVE  UNCHANGED Fifo!vars
<1>1. Line = txBuff \o FromTxRing
  BY Segments
<1>2. Line' = txBuff' \o FromTxRing'
  BY DEF Line, FromTxRing, FromParser, FromRxRing, FromRxBuff
<1>. QED  BY <1>1, <1>2 DEF Fifo!vars

\* t is s without one occurrence of m.
Loses(s, m, t) == \E i \in 1..Len(s) : s[i] = m /\ t = FifoFacts!RemoveAt(s, i)

\* Freeing the head of a segment loses it from what starts there, and from
\* what starts further ahead.
LEMMA LoseHead ==
    ASSUME NEW s \in Seq(Mbufs), NEW u \in Seq(Mbufs), s # <<>>
    PROVE  Loses(s \o u, Head(s), Tail(s) \o u)
BY FifoFacts!RemoveHead DEF Loses

LEMMA LoseBehind ==
    ASSUME NEW l \in Seq(Mbufs), NEW s \in Seq(Mbufs), NEW m, NEW t, Loses(s, m, t)
    PROVE  Loses(l \o s, m, l \o t)
<1>1. PICK i \in 1..Len(s) : s[i] = m /\ t = FifoFacts!RemoveAt(s, i)
  BY DEF Loses
<1>2. /\ Len(l) + i \in 1..Len(l \o s)
      /\ (l \o s)[Len(l) + i] = s[i]
      /\ FifoFacts!RemoveAt(l \o s, Len(l) + i) = l \o FifoFacts!RemoveAt(s, i)
  BY FifoFacts!RemoveAtBehind
<1>. QED  BY <1>1, <1>2 DEF Loses

\* A step that frees a buffer lost from the line is the FIFO's Drop.
LEMMA DropStep ==
    ASSUME NEW m, Loses(Line, m, Line'), pool' = pool \cup {m}, nicTx' = nicTx
    PROVE  Fifo!Next
<1>1. PICK i \in 1..Len(Line) : Line[i] = m /\ Line' = FifoFacts!RemoveAt(Line, i)
  BY DEF Loses
<1>2. Fifo!Drop(i)
  BY <1>1 DEF Fifo!Drop, Fifo!RemoveAt, FifoFacts!RemoveAt
<1>. QED  BY <1>2 DEF Fifo!Next

LEMMA FifoNext == IndInv /\ IndInv' /\ [Next]_vars => [Fifo!Next]_(Fifo!vars)
<1>. SUFFICES ASSUME IndInv, IndInv', [Next]_vars PROVE [Fifo!Next]_(Fifo!vars)
  OBVIOUS
<1>0. TypeOK /\ TypeOK' /\ NothingOverwritten
  BY DEF IndInv
<1>a. /\ Line = txBuff \o FromTxRing
      /\ nicRx \in Seq(Mbufs) /\ rxBuff \in Seq(Mbufs) /\ rx_ring \in Seq(Mbufs)
      /\ parserBuff \in Seq(Mbufs) /\ tx_ring \in Seq(Mbufs)
      /\ txBuff \in Seq(Mbufs) /\ nicTx \in Seq(Mbufs)
      /\ FromRxBuff \in Seq(Mbufs) /\ FromRxRing \in Seq(Mbufs)
      /\ FromParser \in Seq(Mbufs) /\ FromTxRing \in Seq(Mbufs)
  BY <1>0, Segments
<1>b. Line' = txBuff' \o FromTxRing'
  BY DEF Line, FromTxRing, FromParser, FromRxRing, FromRxBuff
<1>1. CASE Launch
  BY <1>0, <1>1, Stutter DEF Launch, queues, FromTxRing, FromParser, FromRxRing, FromRxBuff
<1>2. ASSUME NEW m \in Mbufs, NicReceive(m) PROVE [Fifo!Next]_(Fifo!vars)
  <2>1. FromRxBuff' = Append(FromRxBuff, m)
    BY <1>2, <1>a, AppendBehind DEF NicReceive, FromRxBuff
  <2>2. FromRxRing' = Append(FromRxRing, m)
    BY <1>2, <1>a, <2>1, AppendBehind DEF NicReceive, FromRxRing
  <2>3. FromParser' = Append(FromParser, m)
    BY <1>2, <1>a, <2>2, AppendBehind DEF NicReceive, FromParser
  <2>4. FromTxRing' = Append(FromTxRing, m)
    BY <1>2, <1>a, <2>3, AppendBehind DEF NicReceive, FromTxRing
  <2>5. Line' = Append(Line, m)
    BY <1>2, <1>a, <1>b, <2>4, AppendBehind DEF NicReceive
  <2>6. Fifo!Accept(m)
    BY <1>2, <2>5 DEF NicReceive, Fifo!Accept
  <2>. QED  BY <2>6 DEF Fifo!Next
<1>3. CASE NicTxDone
  <2>1. Line' = Line
    BY <1>3 DEF NicTxDone, Line
  <2>2. Fifo!Complete
    BY <1>3, <2>1 DEF NicTxDone, Fifo!Complete
  <2>. QED  BY <2>2 DEF Fifo!Next
<1>4. CASE RxPoll
  <2>1. PICK n \in 1..Lesser(Burst, Len(nicRx)) :
          rxBuff' = Prefix(nicRx, n) /\ nicRx' = Rest(nicRx, n)
    BY <1>4 DEF RxPoll
  <2>2. n \in 0..Len(nicRx)
    BY <1>a, <2>1, DequeueBurst
  <2>3. rxBuff = <<>>
    BY <1>0, <1>4 DEF RxPoll, NothingOverwritten, HoldsBurst
  <2>4. FromRxBuff' = FromRxBuff
    <3>1. Prefix(nicRx, n) \o Rest(nicRx, n) = nicRx /\ <<>> \o nicRx = nicRx
      BY <1>a, <2>2, Cut, ConcatEmptySeq
    <3>. QED  BY <2>1, <2>3, <3>1 DEF FromRxBuff
  <2>. QED  BY <1>0, <1>4, <2>4, Stutter DEF RxPoll, FromTxRing, FromParser, FromRxRing
<1>5. CASE RxEnqueue
  <2>1. PICK n \in 0..Len(rxBuff) :
          rx_ring' = rx_ring \o Prefix(rxBuff, n) /\ rxBuff' = Rest(rxBuff, n)
    <3>1. RingCap - Len(rx_ring) \in Nat
      BY <1>0, Sizes, Empty DEF TypeOK, Bounded
    <3>2. Taken(rxBuff, RingCap - Len(rx_ring)) \in 0..Len(rxBuff)
      BY <1>a, <3>1, TakenAll
    <3>. QED  BY <1>5, <3>2 DEF RxEnqueue
  <2>2. FromRxRing' = (rx_ring \o Prefix(rxBuff, n)) \o (Rest(rxBuff, n) \o nicRx)
    BY <1>5, <2>1 DEF RxEnqueue, FromRxRing, FromRxBuff
  <2>3. FromRxRing = rx_ring \o (rxBuff \o nicRx)
    BY DEF FromRxRing, FromRxBuff
  <2>4. FromRxRing' = FromRxRing
    <3>1. (rx_ring \o Prefix(rxBuff, n)) \o (Rest(rxBuff, n) \o nicRx) = rx_ring \o (rxBuff \o nicRx)
      <4>1. rx_ring \in Seq(Mbufs) /\ rxBuff \in Seq(Mbufs) /\ nicRx \in Seq(Mbufs)
            /\ n \in 0..Len(rxBuff)
        BY <1>a
      <4>. QED  BY <4>1, MoveBurst, SMTT(60)
    <3>. QED  BY <2>2, <2>3, <3>1
  <2>. QED  BY <1>0, <1>5, <2>4, Stutter DEF RxEnqueue, FromTxRing, FromParser
<1>6. CASE RxFree
  <2>1. rxBuff # <<>>
    BY <1>0, <1>6 DEF RxFree, NothingOverwritten, HoldsBurst
  <2>2. /\ FromRxBuff' = Tail(rxBuff) \o nicRx
        /\ FromRxRing' = rx_ring \o FromRxBuff'
        /\ FromParser' = parserBuff \o FromRxRing'
        /\ FromTxRing' = tx_ring \o FromParser'
        /\ Line' = txBuff \o FromTxRing'
    BY <1>6, <1>b DEF RxFree, FromTxRing, FromParser, FromRxRing, FromRxBuff
  <2>3. Loses(FromRxBuff, Head(rxBuff), FromRxBuff')
    BY <1>a, <2>1, <2>2, LoseHead DEF FromRxBuff
  <2>4. Loses(FromRxRing, Head(rxBuff), FromRxRing')
    BY <1>a, <2>2, <2>3, LoseBehind DEF FromRxRing
  <2>5. Loses(FromParser, Head(rxBuff), FromParser')
    BY <1>a, <2>2, <2>4, LoseBehind DEF FromParser
  <2>6. Loses(FromTxRing, Head(rxBuff), FromTxRing')
    BY <1>a, <2>2, <2>5, LoseBehind DEF FromTxRing
  <2>7. Loses(Line, Head(rxBuff), Line')
    BY <1>a, <2>2, <2>6, LoseBehind
  <2>. QED  BY <1>6, <2>7, DropStep DEF RxFree
<1>7. CASE ParserDequeue
  <2>1. PICK n \in 1..Lesser(Burst, Len(rx_ring)) :
          parserBuff' = Prefix(rx_ring, n) /\ rx_ring' = Rest(rx_ring, n)
    BY <1>7, <1>a, LesserBurst DEF ParserDequeue
  <2>2. n \in 0..Len(rx_ring)
    BY <1>a, <2>1, DequeueBurst
  <2>3. parserBuff = <<>>
    BY <1>0, <1>7 DEF ParserDequeue, NothingOverwritten, HoldsBurst
  <2>4. FromParser' = Prefix(rx_ring, n) \o (Rest(rx_ring, n) \o FromRxBuff)
    BY <1>7, <2>1 DEF ParserDequeue, FromParser, FromRxRing, FromRxBuff
  <2>5. FromParser = <<>> \o (rx_ring \o FromRxBuff)
    BY <2>3 DEF FromParser, FromRxRing
  <2>6. FromParser' = FromParser
    BY <1>a, <2>2, <2>4, <2>5, TakeBurst
  <2>. QED  BY <1>0, <1>7, <2>6, Stutter DEF ParserDequeue, FromTxRing
<1>8. CASE ParserEnqueue
  <2>1. PICK n \in 0..Len(parserBuff) :
          tx_ring' = tx_ring \o Prefix(parserBuff, n) /\ parserBuff' = Rest(parserBuff, n)
    <3>1. RingCap - Len(tx_ring) \in Nat
      BY <1>0, Sizes, Empty DEF TypeOK, Bounded
    <3>2. Taken(parserBuff, RingCap - Len(tx_ring)) \in 0..Len(parserBuff)
      BY <1>a, <3>1, TakenAll
    <3>. QED  BY <1>8, <3>2 DEF ParserEnqueue
  <2>2. FromTxRing' = (tx_ring \o Prefix(parserBuff, n)) \o (Rest(parserBuff, n) \o FromRxRing)
    BY <1>8, <2>1 DEF ParserEnqueue, FromTxRing, FromParser, FromRxRing, FromRxBuff
  <2>3. FromTxRing = tx_ring \o (parserBuff \o FromRxRing)
    BY DEF FromTxRing, FromParser
  <2>4. FromTxRing' = FromTxRing
    <3>1. (tx_ring \o Prefix(parserBuff, n)) \o (Rest(parserBuff, n) \o FromRxRing) = tx_ring \o (parserBuff \o FromRxRing)
      <4>1. tx_ring \in Seq(Mbufs) /\ parserBuff \in Seq(Mbufs) /\ FromRxRing \in Seq(Mbufs)
            /\ n \in 0..Len(parserBuff)
        BY <1>a
      <4>. QED  BY <4>1, MoveBurst, SMTT(60)
    <3>. QED  BY <2>2, <2>3, <3>1
  <2>. QED  BY <1>0, <1>8, <2>4, Stutter DEF ParserEnqueue
<1>9. CASE ParserFree
  <2>1. parserBuff # <<>>
    BY <1>0, <1>9 DEF ParserFree, NothingOverwritten, HoldsBurst
  <2>2. /\ FromParser' = Tail(parserBuff) \o FromRxRing
        /\ FromTxRing' = tx_ring \o FromParser'
        /\ Line' = txBuff \o FromTxRing'
    BY <1>9, <1>b DEF ParserFree, FromTxRing, FromParser, FromRxRing, FromRxBuff
  <2>3. Loses(FromParser, Head(parserBuff), FromParser')
    BY <1>a, <2>1, <2>2, LoseHead DEF FromParser
  <2>4. Loses(FromTxRing, Head(parserBuff), FromTxRing')
    BY <1>a, <2>2, <2>3, LoseBehind DEF FromTxRing
  <2>5. Loses(Line, Head(parserBuff), Line')
    BY <1>a, <2>2, <2>4, LoseBehind
  <2>. QED  BY <1>9, <2>5, DropStep DEF ParserFree
<1>10. CASE TxDequeue
  <2>1. PICK n \in 1..Lesser(Burst, Len(tx_ring)) :
          txBuff' = Prefix(tx_ring, n) /\ tx_ring' = Rest(tx_ring, n)
    BY <1>10, <1>a, LesserBurst DEF TxDequeue
  <2>2. n \in 0..Len(tx_ring)
    BY <1>a, <2>1, DequeueBurst
  <2>3. txBuff = <<>>
    BY <1>0, <1>10 DEF TxDequeue, NothingOverwritten, HoldsBurst
  <2>4. Line' = Prefix(tx_ring, n) \o (Rest(tx_ring, n) \o FromParser)
    BY <1>10, <1>b, <2>1 DEF TxDequeue, FromTxRing, FromParser, FromRxRing, FromRxBuff
  <2>5. Line' = Line
    BY <1>a, <2>2, <2>3, <2>4, TakeBurst DEF FromTxRing
  <2>. QED  BY <1>10, <2>5 DEF TxDequeue, Fifo!vars
<1>11. CASE TxBurst
  <2>1. PICK n \in 0..Len(txBuff) :
          nicTx' = nicTx \o Prefix(txBuff, n) /\ txBuff' = Rest(txBuff, n)
    <3>1. TxDesc - Len(nicTx) \in Nat
      BY <1>0, Sizes, Empty DEF TypeOK, Bounded
    <3>2. \A n \in 0..Taken(txBuff, TxDesc - Len(nicTx)) : n \in 0..Len(txBuff)
      BY <1>a, <3>1, Empty DEF Taken, Lesser
    <3>. QED  BY <1>11, <3>2 DEF TxBurst
  <2>2. FromTxRing' = FromTxRing
    BY <1>11 DEF TxBurst, FromTxRing, FromParser, FromRxRing, FromRxBuff
  <2>3. Prefix(Line, n) = Prefix(txBuff, n) /\ Rest(Line, n) = Line'
    <3>1. /\ Prefix(txBuff \o FromTxRing, n) = Prefix(txBuff, n)
          /\ Rest(txBuff \o FromTxRing, n) = Rest(txBuff, n) \o FromTxRing
      BY <1>a, <2>1, FrontOfLine
    <3>. QED  BY <1>a, <1>b, <2>1, <2>2, <3>1
  <2>4. CASE n = 0
    <3>1. /\ Prefix(txBuff, 0) \in Seq(Mbufs) /\ Len(Prefix(txBuff, 0)) = 0
          /\ Prefix(txBuff, 0) \o Rest(txBuff, 0) = txBuff /\ Rest(txBuff, 0) \in Seq(Mbufs)
      BY <1>a, <2>4, Cut
    <3>2. Prefix(txBuff, 0) = <<>>
      BY <3>1, Empty
    <3>3. Rest(txBuff, 0) = txBuff /\ nicTx \o <<>> = nicTx
      BY <1>a, <3>1, <3>2, ConcatEmptySeq
    <3>. QED  BY <1>11, <1>a, <1>b, <2>1, <2>2, <2>4, <3>2, <3>3 DEF TxBurst, Fifo!vars
  <2>5. CASE n # 0
    <3>1. n \in 1..Len(Line)
      <4>1. Line \in Seq(Mbufs) /\ Len(Line) = Len(txBuff) + Len(FromTxRing)
        BY <1>a, Join
      <4>. QED  BY <1>a, <2>1, <2>5, <4>1, Empty
    <3>2. Fifo!Transmit(n)
      BY <1>11, <2>1, <2>3 DEF TxBurst, Fifo!Transmit, Prefix, Rest
    <3>. QED  BY <3>1, <3>2 DEF Fifo!Next
  <2>. QED  BY <2>4, <2>5
<1>12. CASE TxFree
  <2>1. txBuff # <<>>
    BY <1>0, <1>12 DEF TxFree, NothingOverwritten, HoldsBurst
  <2>2. Line' = Tail(txBuff) \o FromTxRing
    BY <1>12, <1>b DEF TxFree, FromTxRing, FromParser, FromRxRing, FromRxBuff
  <2>3. Loses(Line, Head(txBuff), Line')
    BY <1>a, <2>1, <2>2, LoseHead
  <2>. QED  BY <1>12, <2>3, DropStep DEF TxFree
<1>13. CASE UNCHANGED vars
  BY <1>13 DEF vars, queues, Line, Fifo!vars
<1>. QED
  BY <1>1, <1>2, <1>3, <1>4, <1>5, <1>6, <1>7, <1>8, <1>9, <1>10, <1>11, <1>12, <1>13
     DEF Next, Rx, Parser, Tx

LEMMA FifoInit == Init => Fifo!Init
<1>1. <<>> \o <<>> = <<>>
  BY EmptySeq, ConcatEmptySeq
<1>. QED  BY <1>1 DEF Init, Fifo!Init, Line

\* The pipeline implements the lossy FIFO: for any sizes, packets leave in the
\* order they came, none twice, and a dropped packet's buffer is freed.
THEOREM PipelineIsFifo == Spec => FifoSpec
<1>1. IndInv /\ IndInv' /\ [Next]_vars => [Fifo!Next]_(Fifo!vars)
  BY FifoNext
<1>. QED  BY <1>1, FifoInit, IndInvAlways, PTL DEF Spec, FifoSpec, Fifo!Spec

\* What was proved of the abstract FIFO holds of the pipeline.

\* No buffer is leaked, freed twice or held in two places, for any number of
\* buffers, in any interleaving of the three lcores and the NIC.
THEOREM CustodyAlways == Spec => []Custody
<1>1. FifoFacts!Custody => Custody
  BY DEF FifoFacts!Custody, Custody, Holding, FifoFacts!IsInjective, IsInjective,
         FifoFacts!Range, Range
<1>2. Fifo!Init => FifoFacts!Init
  BY DEF Fifo!Init, FifoFacts!Init
<1>3. [Fifo!Next]_(Fifo!vars) => [FifoFacts!Next]_(FifoFacts!vars)
  BY DEF Fifo!Next, FifoFacts!Next, Fifo!vars, FifoFacts!vars,
         Fifo!Accept, FifoFacts!Accept, Fifo!Drop, FifoFacts!Drop,
         Fifo!Transmit, FifoFacts!Transmit, Fifo!Complete, FifoFacts!Complete,
         Fifo!RemoveAt, FifoFacts!RemoveAt
<1>4. FifoFacts!Spec => []FifoFacts!Custody
  BY FifoFacts!FifoCustody
<1>. QED  BY PipelineIsFifo, <1>1, <1>2, <1>3, <1>4, PTL DEF FifoSpec, Fifo!Spec, FifoFacts!Spec
=============================================================================
