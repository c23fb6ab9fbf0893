---------------------------- MODULE L2FwdProofs ----------------------------
(* Custody and forwarding of L2Fwd, for any number of lcores and buffers    *)
(* and every size of burst and ring.                                        *)
EXTENDS L2Fwd, SequenceTheorems, FiniteSetTheorems, TLAPS

Facts == INSTANCE LossyFifoProofs WITH line <- Line(0), wire <- txq[1], free <- Elsewhere(0)

-----------------------------------------------------------------------------
(* The shelves of the program: the queues of the ports, the bursts of the   *)
(* lcores.                                                                  *)

Place == ({"rx", "tx"} \X Ports) \cup ({"bufs"} \X Lcores)
ShelfOf(r, t, b) ==
    [a \in Place |-> CASE a[1] = "rx" -> r[a[2]] [] a[1] = "tx" -> t[a[2]] [] OTHER -> b[a[2]]]
Held(r, t, b, P) == Facts!Kept(Place, Mbufs, ShelfOf(r, t, b), P)

Queues == [Ports -> Seq(Mbufs)]
Bursts == [Lcores -> Seq(Mbufs)]

\* H shows what r, t and b hold.
Shows(H, r, t, b) ==
    /\ H \in [Place -> Seq(Mbufs)]
    /\ \A p \in Ports : H[<<"rx", p>>] = r[p] /\ H[<<"tx", p>>] = t[p]
    /\ \A l \in Lcores : H[<<"bufs", l>>] = b[l]

LEMMA PlaceMembers ==
    /\ \A p \in Ports : <<"rx", p>> \in Place /\ <<"tx", p>> \in Place
    /\ \A l \in Lcores : <<"bufs", l>> \in Place
BY DEF Place

\* Where there is a place, there is a queue or a burst.
LEMMA PlaceCases ==
    ASSUME NEW a \in Place
    PROVE  \/ \E p \in Ports : a = <<"rx", p>> \/ a = <<"tx", p>>
           \/ \E l \in Lcores : a = <<"bufs", l>>
BY DEF Place

LEMMA ShelfValues ==
    ASSUME NEW r \in Queues, NEW t \in Queues, NEW b \in Bursts
    PROVE  Shows(ShelfOf(r, t, b), r, t, b)
<1>1. ASSUME NEW a \in Place
      PROVE  (CASE a[1] = "rx" -> r[a[2]] [] a[1] = "tx" -> t[a[2]] [] OTHER -> b[a[2]]) \in Seq(Mbufs)
  <2>1. CASE a \in {"rx", "tx"} \X Ports
    <3>1. a[1] \in {"rx", "tx"} /\ a[2] \in Ports
      BY <2>1
    <3> QED  BY <3>1 DEF Queues
  <2>2. CASE a \in {"bufs"} \X Lcores
    <3>1. a[1] = "bufs" /\ a[2] \in Lcores
      BY <2>2
    <3> QED  BY <3>1 DEF Bursts
  <2> QED  BY <2>1, <2>2 DEF Place
<1> QED
  BY <1>1, PlaceMembers DEF ShelfOf, Shows

\* A shelf whose queue or burst is the same is the same.
LEMMA SameShelf ==
    ASSUME NEW r, NEW t, NEW b, NEW r1, NEW t1, NEW b1, NEW H, NEW G,
           Shows(H, r, t, b), Shows(G, r1, t1, b1), NEW a \in Place,
           \A p \in Ports : (a = <<"rx", p>> => r1[p] = r[p]) /\ (a = <<"tx", p>> => t1[p] = t[p]),
           \A l \in Lcores : a = <<"bufs", l>> => b1[l] = b[l]
    PROVE  G[a] = H[a]
<1>1. ASSUME NEW p \in Ports, a = <<"rx", p>> PROVE G[a] = H[a]
  <2>1. G[<<"rx", p>>] = r1[p] /\ H[<<"rx", p>>] = r[p] /\ r1[p] = r[p]
    BY <1>1 DEF Shows
  <2> QED  BY <1>1, <2>1
<1>2. ASSUME NEW p \in Ports, a = <<"tx", p>> PROVE G[a] = H[a]
  <2>1. G[<<"tx", p>>] = t1[p] /\ H[<<"tx", p>>] = t[p] /\ t1[p] = t[p]
    BY <1>2 DEF Shows
  <2> QED  BY <1>2, <2>1
<1>3. ASSUME NEW l \in Lcores, a = <<"bufs", l>> PROVE G[a] = H[a]
  <2>1. G[<<"bufs", l>>] = b1[l] /\ H[<<"bufs", l>>] = b[l] /\ b1[l] = b[l]
    BY <1>3 DEF Shows
  <2> QED  BY <1>3, <2>1
<1> QED
  BY <1>1, <1>2, <1>3, PlaceCases

\* A packet arrives.
LEMMA ArriveHeld ==
    ASSUME NEW r \in Queues, NEW t \in Queues, NEW b \in Bursts, NEW P \in SUBSET Mbufs,
           NEW p \in Ports, NEW m \in P, Held(r, t, b, P)
    PROVE  LET r1 == [r EXCEPT ![p] = Append(@, m)]
           IN  r1 \in Queues /\ Held(r1, t, b, P \ {m})
<1>. DEFINE r1 == [r EXCEPT ![p] = Append(@, m)]
            H == ShelfOf(r, t, b)
            G == ShelfOf(r1, t, b)
            c == <<"rx", p>>
<1>1. Append(r[p], m) \in Seq(Mbufs)
  BY AppendProperties DEF Queues
<1>2. r1 \in Queues /\ r1[p] = Append(r[p], m) /\ \A q \in Ports : q # p => r1[q] = r[q]
  BY <1>1 DEF Queues
<1>. HIDE DEF r1
<1>3. /\ H \in [Place -> Seq(Mbufs)] /\ G \in [Place -> Seq(Mbufs)] /\ c \in Place
      /\ H[c] = r[p] /\ G[c] = r1[p]
  <2>1. Shows(H, r, t, b) /\ Shows(G, r1, t, b)
    BY <1>2, ShelfValues
  <2>. HIDE DEF H, G
  <2> QED  BY <2>1, PlaceMembers DEF Shows
<1>4. ASSUME NEW a \in Place \ {c} PROVE G[a] = H[a]
  <2>1. Shows(H, r, t, b) /\ Shows(G, r1, t, b)
    BY <1>2, ShelfValues
  <2>2. /\ \A q \in Ports : (a = <<"rx", q>> => r1[q] = r[q]) /\ (a = <<"tx", q>> => t[q] = t[q])
        /\ \A k \in Lcores : a = <<"bufs", k>> => b[k] = b[k]
    BY <1>2
  <2>. HIDE DEF H, G
  <2> QED  BY <2>1, <2>2, SameShelf
<1>. HIDE DEF H, G, c
<1>5. Facts!Kept(Place, Mbufs, G, P \ {m})
  <2>1. Facts!Kept(Place, Mbufs, H, P) /\ G[c] = Append(H[c], m)
    BY <1>2, <1>3 DEF Held, H
  <2> QED  BY <1>3, <1>4, <2>1, Facts!KeptAppend
<1> QED
  BY <1>2, <1>5 DEF Held, G, r1

\* A burst is taken from a receive queue.
LEMMA TakeHeld ==
    ASSUME NEW r \in Queues, NEW t \in Queues, NEW b \in Bursts, NEW P \in SUBSET Mbufs,
           NEW p \in Ports, NEW l \in Lcores, b[l] = <<>>, NEW n \in 0..Len(r[p]), Held(r, t, b, P)
    PROVE  LET r1 == [r EXCEPT ![p] = Rest(r[p], n)]
               b1 == [b EXCEPT ![l] = Prefix(r[p], n)]
           IN  r1 \in Queues /\ b1 \in Bursts /\ Held(r1, t, b1, P)
<1>. DEFINE r1 == [r EXCEPT ![p] = Rest(r[p], n)]
            b1 == [b EXCEPT ![l] = Prefix(r[p], n)]
            H == ShelfOf(r, t, b)
            G == ShelfOf(r1, t, b1)
            c == <<"rx", p>>
            d == <<"bufs", l>>
<1>1. r[p] \in Seq(Mbufs) /\ Prefix(r[p], n) \in Seq(Mbufs) /\ Rest(r[p], n) \in Seq(Mbufs)
  BY Facts!CutProperties DEF Queues, Prefix, Rest
<1>2. /\ r1 \in Queues /\ r1[p] = Rest(r[p], n) /\ \A q \in Ports : q # p => r1[q] = r[q]
      /\ b1 \in Bursts /\ b1[l] = Prefix(r[p], n) /\ \A k \in Lcores : k # l => b1[k] = b[k]
  BY <1>1 DEF Queues, Bursts
<1>. HIDE DEF r1, b1
<1>3. /\ H \in [Place -> Seq(Mbufs)] /\ G \in [Place -> Seq(Mbufs)] /\ c \in Place /\ d \in Place
      /\ H[c] = r[p] /\ G[c] = r1[p] /\ H[d] = <<>> /\ G[d] = b1[l]
  <2>1. Shows(H, r, t, b) /\ Shows(G, r1, t, b1)
    BY <1>2, ShelfValues
  <2>. HIDE DEF H, G
  <2> QED  BY <2>1, PlaceMembers DEF Shows
<1>4. ASSUME NEW a \in Place \ {c, d} PROVE G[a] = H[a]
  <2>1. Shows(H, r, t, b) /\ Shows(G, r1, t, b1)
    BY <1>2, ShelfValues
  <2>2. /\ \A q \in Ports : (a = <<"rx", q>> => r1[q] = r[q]) /\ (a = <<"tx", q>> => t[q] = t[q])
        /\ \A k \in Lcores : a = <<"bufs", k>> => b1[k] = b[k]
    BY <1>2
  <2>. HIDE DEF H, G
  <2> QED  BY <2>1, <2>2, SameShelf
<1>5. c # d
  OBVIOUS
<1>6. G[d] = H[d] \o SubSeq(H[c], 1, n) /\ G[c] = SubSeq(H[c], n + 1, Len(H[c]))
  BY <1>1, <1>2, <1>3, ConcatEmptySeq DEF Prefix, Rest
<1>. HIDE DEF H, G, c, d
<1>7. Facts!Kept(Place, Mbufs, G, P)
  <2>1. Facts!Kept(Place, Mbufs, H, P) /\ n \in 0..Len(H[c])
    BY <1>3 DEF Held, H
  <2>2. Facts!Moved(Place, H, G, c, d, n)
    BY <1>4, <1>5, <1>6, <2>1 DEF Facts!Moved
  <2> QED  BY <1>3, <2>1, <2>2, Facts!KeptMove
<1> QED
  BY <1>2, <1>7 DEF Held, G, r1, b1

\* The first packets of a burst go to a transmit queue.
LEMMA SendHeld ==
    ASSUME NEW r \in Queues, NEW t \in Queues, NEW b \in Bursts, NEW P \in SUBSET Mbufs,
           NEW p \in Ports, NEW l \in Lcores, NEW n \in 0..Len(b[l]), Held(r, t, b, P)
    PROVE  LET t1 == [t EXCEPT ![p] = t[p] \o Prefix(b[l], n)]
               b1 == [b EXCEPT ![l] = Rest(@, n)]
           IN  t1 \in Queues /\ b1 \in Bursts /\ Held(r, t1, b1, P)
<1>. DEFINE t1 == [t EXCEPT ![p] = t[p] \o Prefix(b[l], n)]
            b1 == [b EXCEPT ![l] = Rest(@, n)]
            H == ShelfOf(r, t, b)
            G == ShelfOf(r, t1, b1)
            c == <<"bufs", l>>
            d == <<"tx", p>>
<1>1. b[l] \in Seq(Mbufs) /\ Prefix(b[l], n) \in Seq(Mbufs) /\ Rest(b[l], n) \in Seq(Mbufs)
  BY Facts!CutProperties DEF Bursts, Prefix, Rest
<1>2. t[p] \o Prefix(b[l], n) \in Seq(Mbufs)
  BY <1>1, ConcatProperties DEF Queues
<1>3. /\ t1 \in Queues /\ t1[p] = t[p] \o Prefix(b[l], n) /\ \A q \in Ports : q # p => t1[q] = t[q]
      /\ b1 \in Bursts /\ b1[l] = Rest(b[l], n) /\ \A k \in Lcores : k # l => b1[k] = b[k]
  BY <1>1, <1>2 DEF Queues, Bursts
<1>. HIDE DEF t1, b1
<1>4. /\ H \in [Place -> Seq(Mbufs)] /\ G \in [Place -> Seq(Mbufs)] /\ c \in Place /\ d \in Place
      /\ H[c] = b[l] /\ G[c] = b1[l] /\ H[d] = t[p] /\ G[d] = t1[p]
  <2>1. Shows(H, r, t, b) /\ Shows(G, r, t1, b1)
    BY <1>3, ShelfValues
  <2>. HIDE DEF H, G
  <2> QED  BY <2>1, PlaceMembers DEF Shows
<1>5. ASSUME NEW a \in Place \ {c, d} PROVE G[a] = H[a]
  <2>1. Shows(H, r, t, b) /\ Shows(G, r, t1, b1)
    BY <1>3, ShelfValues
  <2>2. /\ \A q \in Ports : (a = <<"rx", q>> => r[q] = r[q]) /\ (a = <<"tx", q>> => t1[q] = t[q])
        /\ \A k \in Lcores : a = <<"bufs", k>> => b1[k] = b[k]
    BY <1>3
  <2>. HIDE DEF H, G
  <2> QED  BY <2>1, <2>2, SameShelf
<1>6. c # d
  OBVIOUS
<1>7. G[d] = H[d] \o SubSeq(H[c], 1, n) /\ G[c] = SubSeq(H[c], n + 1, Len(H[c]))
  BY <1>3, <1>4 DEF Prefix, Rest
<1>. HIDE DEF H, G, c, d
<1>8. Facts!Kept(Place, Mbufs, G, P)
  <2>1. Facts!Kept(Place, Mbufs, H, P) /\ n \in 0..Len(H[c])
    BY <1>4 DEF Held, H
  <2>2. Facts!Moved(Place, H, G, c, d, n)
    BY <1>5, <1>6, <1>7, <2>1 DEF Facts!Moved
  <2> QED  BY <1>4, <2>1, <2>2, Facts!KeptMove
<1> QED
  BY <1>3, <1>8 DEF Held, G, t1, b1

\* A packet that has been sent goes back to the pool.
LEMMA ReclaimHeld ==
    ASSUME NEW r \in Queues, NEW t \in Queues, NEW b \in Bursts, NEW P \in SUBSET Mbufs,
           NEW p \in Ports, t[p] # <<>>, Held(r, t, b, P)
    PROVE  LET t1 == [t EXCEPT ![p] = Tail(t[p])]
           IN  Head(t[p]) \in Mbufs /\ t1 \in Queues /\ Held(r, t1, b, P \cup {Head(t[p])})
<1>. DEFINE t1 == [t EXCEPT ![p] = Tail(t[p])]
            H == ShelfOf(r, t, b)
            G == ShelfOf(r, t1, b)
            c == <<"tx", p>>
<1>1. Head(t[p]) \in Mbufs /\ Tail(t[p]) \in Seq(Mbufs)
  BY HeadTailProperties DEF Queues
<1>2. t1 \in Queues /\ t1[p] = Tail(t[p]) /\ \A q \in Ports : q # p => t1[q] = t[q]
  BY <1>1 DEF Queues
<1>. HIDE DEF t1
<1>3. /\ H \in [Place -> Seq(Mbufs)] /\ G \in [Place -> Seq(Mbufs)] /\ c \in Place
      /\ H[c] = t[p] /\ G[c] = t1[p]
  <2>1. Shows(H, r, t, b) /\ Shows(G, r, t1, b)
    BY <1>2, ShelfValues
  <2>. HIDE DEF H, G
  <2> QED  BY <2>1, PlaceMembers DEF Shows
<1>4. ASSUME NEW a \in Place \ {c} PROVE G[a] = H[a]
  <2>1. Shows(H, r, t, b) /\ Shows(G, r, t1, b)
    BY <1>2, ShelfValues
  <2>2. /\ \A q \in Ports : (a = <<"rx", q>> => r[q] = r[q]) /\ (a = <<"tx", q>> => t1[q] = t[q])
        /\ \A k \in Lcores : a = <<"bufs", k>> => b[k] = b[k]
    BY <1>2
  <2>. HIDE DEF H, G
  <2> QED  BY <2>1, <2>2, SameShelf
<1>. HIDE DEF H, G, c
<1>5. Facts!Kept(Place, Mbufs, G, P \cup {Head(H[c])})
  <2>1. Facts!Kept(Place, Mbufs, H, P) /\ G[c] = Tail(H[c]) /\ H[c] # <<>>
    BY <1>2, <1>3 DEF Held, H
  <2> QED  BY <1>3, <1>4, <2>1, Facts!KeptHead
<1> QED
  BY <1>1, <1>2, <1>3, <1>5 DEF Held, G, t1

\* An lcore frees the first packet of its burst.
LEMMA FreeHeld ==
    ASSUME NEW r \in Queues, NEW t \in Queues, NEW b \in Bursts, NEW P \in SUBSET Mbufs,
           NEW l \in Lcores, b[l] # <<>>, Held(r, t, b, P)
    PROVE  LET b1 == [b EXCEPT ![l] = Tail(@)]
           IN  Head(b[l]) \in Mbufs /\ b1 \in Bursts /\ Held(r, t, b1, P \cup {Head(b[l])})
<1>. DEFINE b1 == [b EXCEPT ![l] = Tail(@)]
            H == ShelfOf(r, t, b)
            G == ShelfOf(r, t, b1)
            c == <<"bufs", l>>
<1>1. Head(b[l]) \in Mbufs /\ Tail(b[l]) \in Seq(Mbufs)
  BY HeadTailProperties DEF Bursts
<1>2. b1 \in Bursts /\ b1[l] = Tail(b[l]) /\ \A k \in Lcores : k # l => b1[k] = b[k]
  BY <1>1 DEF Bursts
<1>. HIDE DEF b1
<1>3. /\ H \in [Place -> Seq(Mbufs)] /\ G \in [Place -> Seq(Mbufs)] /\ c \in Place
      /\ H[c] = b[l] /\ G[c] = b1[l]
  <2>1. Shows(H, r, t, b) /\ Shows(G, r, t, b1)
    BY <1>2, ShelfValues
  <2>. HIDE DEF H, G
  <2> QED  BY <2>1, PlaceMembers DEF Shows
<1>4. ASSUME NEW a \in Place \ {c} PROVE G[a] = H[a]
  <2>1. Shows(H, r, t, b) /\ Shows(G, r, t, b1)
    BY <1>2, ShelfValues
  <2>2. /\ \A q \in Ports : (a = <<"rx", q>> => r[q] = r[q]) /\ (a = <<"tx", q>> => t[q] = t[q])
        /\ \A k \in Lcores : a = <<"bufs", k>> => b1[k] = b[k]
    BY <1>2
  <2>. HIDE DEF H, G
  <2> QED  BY <2>1, <2>2, SameShelf
<1>. HIDE DEF H, G, c
<1>5. Facts!Kept(Place, Mbufs, G, P \cup {Head(H[c])})
  <2>1. Facts!Kept(Place, Mbufs, H, P) /\ G[c] = Tail(H[c]) /\ H[c] # <<>>
    BY <1>2, <1>3 DEF Held, H
  <2> QED  BY <1>3, <1>4, <2>1, Facts!KeptHead
<1> QED
  BY <1>1, <1>2, <1>3, <1>5 DEF Held, G, b1

\* With every buffer on one shelf, the model's count of places is right.
LEMMA HeldCustody ==
    ASSUME rxq \in Queues, txq \in Queues, bufs \in Bursts, Held(rxq, txq, bufs, pool)
    PROVE  Custody
<1>. DEFINE H == ShelfOf(rxq, txq, bufs)
<1>0. Facts!Kept(Place, Mbufs, H, pool)
  BY DEF Held
<1>1. /\ \A p \in Ports : /\ <<"rx", p>> \in Place /\ H[<<"rx", p>>] = rxq[p] /\ rxq[p] \in Seq(Mbufs)
                         /\ <<"tx", p>> \in Place /\ H[<<"tx", p>>] = txq[p] /\ txq[p] \in Seq(Mbufs)
      /\ \A l \in Lcores : <<"bufs", l>> \in Place /\ H[<<"bufs", l>>] = bufs[l] /\ bufs[l] \in Seq(Mbufs)
  <2>1. Shows(H, rxq, txq, bufs)
    BY ShelfValues
  <2>. HIDE DEF H
  <2> QED  BY <2>1, PlaceMembers DEF Shows, Queues, Bursts
<1>. HIDE DEF H
<1>2. ASSUME NEW m \in Mbufs, NEW x
      PROVE  x \in Places(m) <=> \E a \in Place : \E i \in 1..Len(H[a]) : x = <<a, i>> /\ H[a][i] = m
  <2>1. x \in Places(m) <=> \E a \in Place : x \in At(a, H[a], m)
    <3>1. ASSUME x \in Places(m) PROVE \E a \in Place : x \in At(a, H[a], m)
      BY <1>1, <3>1 DEF Places
    <3>2. ASSUME NEW a \in Place, x \in At(a, H[a], m) PROVE x \in Places(m)
      <4>1. CASE \E p \in Ports : a = <<"rx", p>> \/ a = <<"tx", p>>
        BY <1>1, <3>2, <4>1 DEF Places
      <4>2. CASE \E l \in Lcores : a = <<"bufs", l>>
        BY <1>1, <3>2, <4>2, Zenon DEF Places
      <4> QED  BY <4>1, <4>2, PlaceCases
    <3> QED  BY <3>1, <3>2
  <2>2. ASSUME NEW a \in Place
        PROVE  x \in At(a, H[a], m) <=> \E i \in 1..Len(H[a]) : x = <<a, i>> /\ H[a][i] = m
    <3>1. H[a] \in Seq(Mbufs)
      BY <1>1, PlaceCases
    <3>. DEFINE z == H[a]
    <3>2. z \in Seq(Mbufs)
      BY <3>1
    <3>. HIDE DEF z
    <3>3. x \in At(a, z, m) <=> \E i \in 1..Len(z) : x = <<a, i>> /\ z[i] = m
      BY <3>2, LenProperties DEF At
    <3> QED  BY <3>3 DEF z
  <2> QED  BY <2>1, <2>2
<1>4. ASSUME NEW m \in Mbufs PROVE Cardinality(Places(m)) = IF m \in pool THEN 0 ELSE 1
  <2>1. CASE m \in pool
    <3>1. Places(m) = {}
      BY <1>0, <1>2, <2>1 DEF Facts!Kept
    <3> QED  BY <2>1, <3>1, FS_EmptySet
  <2>2. CASE m \notin pool
    <3>1. PICK a \in Place : \E i \in 1..Len(H[a]) : H[a][i] = m
      BY <1>0, <2>2 DEF Facts!Kept
    <3>2. PICK i \in 1..Len(H[a]) : H[a][i] = m
      BY <3>1
    <3>3. <<a, i>> \in Places(m)
      BY <1>2, <3>2
    <3>4. ASSUME NEW x \in Places(m) PROVE x = <<a, i>>
      <4>1. PICK e \in Place : \E j \in 1..Len(H[e]) : x = <<e, j>> /\ H[e][j] = m
        BY <1>2
      <4>2. PICK j \in 1..Len(H[e]) : x = <<e, j>> /\ H[e][j] = m
        BY <4>1
      <4> QED  BY <1>0, <3>2, <4>2 DEF Facts!Kept
    <3>5. Places(m) = {<<a, i>>}
      BY <3>3, <3>4
    <3> QED  BY <2>2, <3>5, FS_Singleton
  <2> QED  BY <2>1, <2>2
<1> QED
  BY <1>4 DEF Custody

-----------------------------------------------------------------------------
(* The inductive invariant.  A burst is empty but between receiving and     *)
(* the end of sending; without a race, no two lcores are in a call on one   *)
(* queue, so that what a call does to its queue is all that is done to it.  *)

Types ==
    /\ main \in {"init", "run", "failed"} /\ up \subseteq Ports /\ pool \subseteq Mbufs /\ raced \in BOOLEAN
    /\ rxq \in Queues /\ txq \in Queues /\ bufs \in Bursts
    /\ pc \in [Lcores -> Labels] /\ port \in [Lcores -> Ports]
    /\ \A p \in Ports : Len(rxq[p]) <= RxDesc /\ Len(txq[p]) <= TxDesc
    /\ \A l \in Lcores : Len(bufs[l]) <= Burst
Carrying == \A l \in Lcores : bufs[l] # <<>> <=> pc[l] \in {"put", "tx", "free"}
Idle == main # "run" => \A l \in Lcores : pc[l] = "off"
Apart ==
    ~raced => \A k, l \in Lcores :
                k # l /\ pc[k] = pc[l] /\ pc[l] \in {"rx", "tx"} => port[k] # port[l]
Placed == ~raced => Held(rxq, txq, bufs, pool)
Control == Carrying /\ Idle /\ Apart
IndInv == Types /\ Control /\ Placed

LEMMA Empty ==
    ASSUME NEW s \in Seq(Mbufs)
    PROVE  Len(s) \in Nat /\ (s = <<>> <=> Len(s) = 0)
BY EmptySeq, LenProperties

LEMMA Cut ==
    ASSUME NEW s \in Seq(Mbufs), NEW n \in 0..Len(s)
    PROVE  /\ Prefix(s, n) \in Seq(Mbufs) /\ Len(Prefix(s, n)) = n /\ (Prefix(s, n) = <<>> <=> n = 0)
           /\ Rest(s, n) \in Seq(Mbufs) /\ Len(Rest(s, n)) = Len(s) - n /\ (Rest(s, n) = <<>> <=> n = Len(s))
<1>1. /\ Prefix(s, n) \in Seq(Mbufs) /\ Len(Prefix(s, n)) = n
      /\ Rest(s, n) \in Seq(Mbufs) /\ Len(Rest(s, n)) = Len(s) - n
  BY Facts!CutProperties DEF Prefix, Rest
<1> QED
  BY <1>1, Empty

LEMMA TwoPorts == Cardinality(Ports) = 2 /\ \A p \in Ports : (p + 1) % 2 \in Ports /\ (p + 1) % 2 = DstPort(p)
<1>1. IsFiniteSet({0}) /\ Cardinality({0}) = 1 /\ Ports = {0} \cup {1}
  BY FS_Singleton DEF Ports
<1>2. Cardinality(Ports) = 2
  BY <1>1, FS_AddElement
<1> QED
  BY <1>2 DEF Ports, DstPort

LEMMA NextPortValue ==
    ASSUME Types, NEW l \in Lcores, NextPort(l)
    PROVE  port' \in [Lcores -> Ports] /\ port'[l] = DstPort(port[l])
           /\ \A k \in Lcores : k # l => port'[k] = port[k]
<1>1. port[l] \in Ports /\ port' = [port EXCEPT ![l] = (port[l] + 1) % 2]
  BY TwoPorts DEF Types, NextPort
<1>2. (port[l] + 1) % 2 \in Ports /\ (port[l] + 1) % 2 = DstPort(port[l])
  BY <1>1, TwoPorts
<1> QED
  BY <1>1, <1>2 DEF Types

\* Without a race, a call does to its queue what it does alone.
LEMMA CallAlone ==
    ASSUME Types, Apart, NEW l \in Lcores, pc[l] \in {"rx", "tx"}, ~raced
    PROVE  Others(l, pc[l]) = {}
BY DEF Types, Apart, Others

\* What an lcore does to itself keeps Control, if it enters no call and if its
\* burst and its label agree.
LEMMA ControlLocal ==
    ASSUME Types, Control, NEW l \in Lcores,
           pc' \in [Lcores -> Labels], pc[l] # "off",
           \A k \in Lcores \ {l} : pc'[k] = pc[k] /\ port'[k] = port[k] /\ bufs'[k] = bufs[k],
           pc'[l] \notin {"rx", "tx"} \/ (pc'[l] = pc[l] /\ port'[l] = port[l]),
           bufs'[l] # <<>> <=> pc'[l] \in {"put", "tx", "free"},
           UNCHANGED <<main, raced>>
    PROVE  Control'
<1>1. Carrying'
  BY DEF Control, Carrying
<1>2. Idle'
  BY DEF Control, Idle
<1>3. Apart'
  BY DEF Control, Apart
<1> QED
  BY <1>1, <1>2, <1>3 DEF Control

LEMMA InitInv == Init => IndInv
<1>. SUFFICES ASSUME Init PROVE IndInv
  OBVIOUS
<1>1. Types
  <2>1. <<>> \in Seq(Mbufs) /\ Len(<<>>) = 0
    BY EmptySeq
  <2>2. rxq \in Queues /\ txq \in Queues /\ bufs \in Bursts
    BY <2>1 DEF Init, Queues, Bursts
  <2>3. pc \in [Lcores -> Labels] /\ port \in [Lcores -> Ports]
    BY DEF Init, Labels, Ports
  <2>4. /\ \A p \in Ports : Len(rxq[p]) = 0 /\ Len(txq[p]) = 0
        /\ \A l \in Lcores : Len(bufs[l]) = 0
    BY <2>1 DEF Init
  <2>5. RxDesc \in Nat /\ TxDesc \in Nat /\ Burst \in Nat
    BY SizeAssumption
  <2>6. /\ main \in {"init", "run", "failed"} /\ up \subseteq Ports
        /\ pool \subseteq Mbufs /\ raced \in BOOLEAN
    BY DEF Init
  <2> QED  BY <2>2, <2>3, <2>4, <2>5, <2>6 DEF Types
<1>2. Control
  BY DEF Init, Control, Carrying, Idle, Apart
<1>3. Held(rxq, txq, bufs, pool)
  <2>. DEFINE H == ShelfOf(rxq, txq, bufs)
  <2>1. Shows(H, rxq, txq, bufs)
    BY <1>1, ShelfValues DEF Types
  <2>. HIDE DEF H
  <2>2. ASSUME NEW a \in Place PROVE H[a] = <<>>
    <3>1. ASSUME NEW p \in Ports PROVE H[<<"rx", p>>] = <<>> /\ H[<<"tx", p>>] = <<>>
      BY <2>1 DEF Shows, Init
    <3>2. ASSUME NEW l \in Lcores PROVE H[<<"bufs", l>>] = <<>>
      BY <2>1 DEF Shows, Init
    <3> QED  BY <3>1, <3>2, PlaceCases
  <2>3. ASSUME NEW a \in Place PROVE 1..Len(H[a]) = {}
    BY <2>2, EmptySeq
  <2>4. Facts!Kept(Place, Mbufs, H, pool)
    BY <2>3 DEF Facts!Kept, Init
  <2> QED  BY <2>4 DEF Held, H
<1> QED
  BY <1>1, <1>2, <1>3 DEF IndInv, Placed

-----------------------------------------------------------------------------
(* The steps of main and of the NIC.                                        *)

LEMMA StepMain ==
    ASSUME IndInv, (\E p \in Ports : PortInit(p)) \/ Launch
    PROVE  IndInv'
<1>1. ASSUME NEW p \in Ports, PortInit(p) PROVE IndInv'
  <2>1. /\ main' \in {"init", "failed"} /\ up' \subseteq Ports /\ main = "init"
        /\ UNCHANGED <<pool, rxq, txq, pc, port, bufs, raced>>
    BY <1>1 DEF PortInit, IndInv, Types
  <2> QED
    BY <2>1 DEF IndInv, Types, Control, Carrying, Idle, Apart, Placed
<1>2. ASSUME Launch PROVE IndInv'
  <2>1. /\ main = "init" /\ main' = "run" /\ pc' \in [Lcores -> {"poll", "off"}]
        /\ UNCHANGED <<up, pool, rxq, txq, port, bufs, raced>>
    BY <1>2 DEF Launch
  <2>2. Types'
    BY <2>1 DEF IndInv, Types, Labels
  <2>3. Control'
    BY <2>1 DEF IndInv, Control, Carrying, Idle, Apart
  <2> QED
    BY <2>1, <2>2, <2>3 DEF IndInv, Placed
<1> QED
  BY <1>1, <1>2

LEMMA StepNic ==
    ASSUME IndInv, NEW p \in Ports, NEW m \in Mbufs, NicReceive(p, m)
    PROVE  IndInv'
<1>1. /\ m \in pool /\ Len(rxq[p]) < RxDesc /\ pool' = pool \ {m} /\ rxq' = [rxq EXCEPT ![p] = Append(@, m)]
      /\ UNCHANGED <<main, up, txq, pc, port, bufs, raced>>
  BY DEF NicReceive
<1>2. Append(rxq[p], m) \in Seq(Mbufs) /\ Len(Append(rxq[p], m)) = Len(rxq[p]) + 1 /\ Len(rxq[p]) \in Nat
  BY AppendProperties, LenProperties DEF IndInv, Types, Queues
<1>3. /\ rxq' \in Queues /\ rxq'[p] = Append(rxq[p], m) /\ \A q \in Ports : q # p => rxq'[q] = rxq[q]
  BY <1>1, <1>2 DEF IndInv, Types, Queues
<1>4. Types'
  BY <1>1, <1>2, <1>3, SizeAssumption DEF IndInv, Types
<1>5. Control'
  BY <1>1 DEF IndInv, Control, Carrying, Idle, Apart
<1>6. ASSUME ~raced PROVE Held(rxq', txq', bufs', pool')
  BY <1>1, <1>6, ArriveHeld DEF IndInv, Types, Placed
<1> QED
  BY <1>1, <1>4, <1>5, <1>6 DEF IndInv, Placed

-----------------------------------------------------------------------------
(* The steps of an lcore.                                                   *)

LEMMA StepRxNone ==
    ASSUME IndInv, NEW l \in Lcores, RxNone(l)
    PROVE  IndInv'
<1>1. pc[l] = "poll" /\ NextPort(l) /\ UNCHANGED <<main, up, pool, rxq, txq, pc, bufs, raced>>
  BY DEF RxNone
<1>2. Types'
  BY <1>1, NextPortValue DEF IndInv, Types
<1>3. Control'
  <2>1. \A k \in Lcores \ {l} : port'[k] = port[k]
    BY <1>1, NextPortValue DEF IndInv
  <2> QED
    BY <1>1, <2>1 DEF IndInv, Types, Control, Carrying, Idle, Apart
<1> QED
  BY <1>1, <1>2, <1>3 DEF IndInv, Placed

LEMMA StepEnter ==
    ASSUME IndInv, NEW l \in Lcores, RxEnter(l) \/ TxEnter(l)
    PROVE  IndInv'
<1>. DEFINE to == IF pc[l] = "poll" THEN "rx" ELSE "tx"
<1>1. /\ Enter(l, to) /\ pc[l] \in {"poll", "put"}
      /\ UNCHANGED <<main, up, pool, rxq, txq, port, bufs>>
  BY DEF RxEnter, TxEnter
<1>2. pc' = [pc EXCEPT ![l] = to] /\ raced' = (raced \/ Others(l, to) # {}) /\ to \in {"rx", "tx"}
  BY <1>1 DEF Enter, Goto
<1>3. /\ pc' \in [Lcores -> Labels] /\ pc'[l] = to /\ \A k \in Lcores : k # l => pc'[k] = pc[k]
      /\ raced' \in BOOLEAN
  BY <1>2 DEF IndInv, Types, Labels
<1>4. Types'
  BY <1>1, <1>3 DEF IndInv, Types
<1>5. Carrying' /\ Idle'
  BY <1>1, <1>3 DEF IndInv, Control, Carrying, Idle
<1>6. Apart'
  <2>. SUFFICES ASSUME ~raced', NEW j \in Lcores, NEW k \in Lcores,
                       j # k, pc'[j] = pc'[k], pc'[k] \in {"rx", "tx"}
                PROVE  port'[j] # port'[k]
    BY DEF Apart
  <2>1. ~raced /\ Others(l, to) = {}
    BY <1>2
  <2>2. CASE l \notin {j, k}
    BY <1>1, <1>3, <2>1, <2>2 DEF IndInv, Control, Apart
  <2>3. \A i \in Lcores : i # l /\ pc[i] = to => port[i] # port[l]
    BY <2>1 DEF Others
  <2>4. CASE l \in {j, k}
    BY <1>1, <1>3, <2>3, <2>4
  <2> QED  BY <2>2, <2>4
<1>7. raced' \/ ~raced
  BY <1>2 DEF IndInv, Types
<1> QED
  BY <1>1, <1>4, <1>5, <1>6, <1>7 DEF IndInv, Control, Placed

LEMMA StepRxEnd ==
    ASSUME IndInv, NEW l \in Lcores, RxEnd(l)
    PROVE  IndInv'
<1>. DEFINE p == port[l]
            q == rxq[p]
<1>0. /\ Types /\ Control /\ Placed /\ p \in Ports /\ q \in Seq(Mbufs) /\ Len(q) \in Nat
      /\ Burst \in Nat \ {0} /\ pc[l] = "rx"
  BY SizeAssumption, LenProperties DEF IndInv, Types, Queues, RxEnd
<1>1. PICK n \in Lesser(1, Len(q))..Lesser(Burst, Len(q)) :
        /\ bufs' = [bufs EXCEPT ![l] = Prefix(q, n)]
        /\ CallSets(l, rxq, p, Rest(q, n))
        /\ IF n = 0 THEN Goto(l, "poll") /\ NextPort(l) ELSE Goto(l, "put") /\ UNCHANGED port
  BY DEF RxEnd
<1>2. n \in 0..Len(q) /\ n <= Burst
  BY <1>0 DEF Lesser
<1>3. UNCHANGED <<main, up, pool, txq, raced>>
  BY DEF RxEnd
<1>4. /\ Prefix(q, n) \in Seq(Mbufs) /\ Len(Prefix(q, n)) = n /\ (Prefix(q, n) = <<>> <=> n = 0)
      /\ Rest(q, n) \in Seq(Mbufs) /\ Len(Rest(q, n)) <= Len(q)
  <2>. HIDE DEF q
  <2>1. /\ Prefix(q, n) \in Seq(Mbufs) /\ Len(Prefix(q, n)) = n /\ (Prefix(q, n) = <<>> <=> n = 0)
        /\ Rest(q, n) \in Seq(Mbufs) /\ Len(Rest(q, n)) = Len(q) - n
    BY <1>0, <1>2, Cut
  <2> QED  BY <1>0, <1>2, <2>1
<1>. HIDE DEF q
<1>5. /\ bufs' \in Bursts /\ bufs'[l] = Prefix(q, n) /\ \A k \in Lcores : k # l => bufs'[k] = bufs[k]
  BY <1>0, <1>1, <1>4 DEF Types, Bursts
<1>6. /\ rxq' \in Queues /\ Len(rxq'[p]) <= RxDesc /\ \A o \in Ports : o # p => rxq'[o] = rxq[o]
  <2>1. CASE rxq' = [rxq EXCEPT ![p] = Rest(q, n)]
    <3>1. rxq' \in Queues /\ rxq'[p] = Rest(q, n) /\ \A o \in Ports : o # p => rxq'[o] = rxq[o]
      BY <1>0, <1>4, <2>1 DEF Types, Queues
    <3>2. Len(q) <= RxDesc /\ RxDesc \in Nat /\ Len(Rest(q, n)) \in Nat
      BY <1>0, <1>4, SizeAssumption, LenProperties DEF Types, q
    <3> QED  BY <1>0, <1>4, <3>1, <3>2
  <2>2. CASE UNCHANGED rxq
    BY <1>0, <2>2 DEF Types
  <2> QED  BY <1>1, <2>1, <2>2 DEF CallSets
<1>7. /\ pc' = [pc EXCEPT ![l] = IF n = 0 THEN "poll" ELSE "put"]
      /\ port' \in [Lcores -> Ports] /\ \A k \in Lcores : k # l => port'[k] = port[k]
  BY <1>0, <1>1, NextPortValue DEF Goto, Types
<1>8. /\ pc' \in [Lcores -> Labels] /\ pc'[l] = (IF n = 0 THEN "poll" ELSE "put")
      /\ \A k \in Lcores : k # l => pc'[k] = pc[k]
  BY <1>0, <1>7 DEF Types, Labels
<1>9. Types'
  BY <1>0, <1>2, <1>3, <1>4, <1>5, <1>6, <1>7, <1>8 DEF Types
<1>10. Control'
  BY <1>0, <1>3, <1>4, <1>5, <1>7, <1>8, ControlLocal
<1>11. ASSUME ~raced' PROVE Held(rxq', txq', bufs', pool')
  <2>1. Others(l, pc[l]) = {}
    BY <1>0, <1>3, <1>11, CallAlone DEF Control
  <2>2. rxq' = [rxq EXCEPT ![p] = Rest(rxq[p], n)] /\ bufs' = [bufs EXCEPT ![l] = Prefix(rxq[p], n)]
    BY <1>1, <2>1 DEF CallSets, q
  <2>3. bufs[l] = <<>> /\ n \in 0..Len(rxq[p]) /\ Held(rxq, txq, bufs, pool)
    BY <1>0, <1>2, <1>3, <1>11 DEF Control, Carrying, Placed, q
  <2>4. rxq \in Queues /\ txq \in Queues /\ bufs \in Bursts /\ pool \in SUBSET Mbufs
    BY <1>0 DEF Types
  <2>. HIDE DEF p
  <2>5. Held([rxq EXCEPT ![p] = Rest(rxq[p], n)], txq, [bufs EXCEPT ![l] = Prefix(rxq[p], n)], pool)
    BY <1>0, <2>3, <2>4, TakeHeld
  <2> QED  BY <1>3, <2>2, <2>5
<1> QED
  BY <1>9, <1>10, <1>11 DEF IndInv, Placed

LEMMA StepReclaim ==
    ASSUME IndInv, NEW l \in Lcores, Reclaim(l)
    PROVE  IndInv'
<1>. DEFINE d == DstPort(port[l])
<1>0. /\ Types /\ Control /\ Placed /\ d \in Ports /\ pc[l] = "tx" /\ txq[d] # <<>> /\ txq[d] \in Seq(Mbufs)
      /\ pool' = pool \cup {Head(txq[d])} /\ CallSets(l, txq, d, Tail(txq[d]))
      /\ UNCHANGED <<main, up, rxq, pc, port, bufs, raced>>
  BY DEF IndInv, Types, Queues, Reclaim, DstPort, Ports
<1>. HIDE DEF d
<1>1. Head(txq[d]) \in Mbufs /\ Tail(txq[d]) \in Seq(Mbufs) /\ Len(Tail(txq[d])) = Len(txq[d]) - 1
      /\ Len(txq[d]) \in Nat
  BY <1>0, HeadTailProperties, LenProperties
<1>2. txq' \in Queues /\ \A o \in Ports : Len(txq'[o]) <= TxDesc
  <2>1. CASE txq' = [txq EXCEPT ![d] = Tail(txq[d])]
    <3>1. txq' \in Queues /\ txq'[d] = Tail(txq[d]) /\ \A o \in Ports : o # d => txq'[o] = txq[o]
      BY <1>0, <1>1, <2>1 DEF Types, Queues
    <3>2. Len(txq[d]) <= TxDesc /\ TxDesc \in Nat
      BY <1>0, SizeAssumption DEF Types
    <3>3. Len(txq'[d]) <= TxDesc
      BY <1>1, <3>1, <3>2
    <3> QED  BY <1>0, <3>1, <3>3 DEF Types
  <2>2. CASE UNCHANGED txq
    BY <1>0, <2>2 DEF Types
  <2> QED  BY <1>0, <2>1, <2>2 DEF CallSets
<1>3. Types'
  BY <1>0, <1>1, <1>2 DEF Types
<1>4. Control'
  BY <1>0 DEF Control, Carrying, Idle, Apart
<1>5. ASSUME ~raced' PROVE Held(rxq', txq', bufs', pool')
  <2>1. Others(l, pc[l]) = {}
    BY <1>0, <1>5, CallAlone DEF Control
  <2>2. txq' = [txq EXCEPT ![d] = Tail(txq[d])]
    BY <1>0, <2>1 DEF CallSets
  <2>3. /\ rxq \in Queues /\ txq \in Queues /\ bufs \in Bursts /\ pool \in SUBSET Mbufs
        /\ Held(rxq, txq, bufs, pool)
    BY <1>0, <1>5 DEF Types, Placed
  <2>4. Held(rxq, [txq EXCEPT ![d] = Tail(txq[d])], bufs, pool \cup {Head(txq[d])})
    BY <1>0, <2>3, ReclaimHeld
  <2> QED  BY <1>0, <2>2, <2>4
<1> QED
  BY <1>3, <1>4, <1>5 DEF IndInv, Placed

LEMMA StepTxEnd ==
    ASSUME IndInv, NEW l \in Lcores, TxEnd(l)
    PROVE  IndInv'
<1>. DEFINE d == DstPort(port[l])
            b == bufs[l]
            q == txq[d]
<1>0. /\ Types /\ Control /\ Placed /\ d \in Ports /\ pc[l] = "tx" /\ q \in Seq(Mbufs) /\ b \in Seq(Mbufs)
      /\ UNCHANGED <<main, up, pool, rxq, raced>>
  BY DEF IndInv, Types, Queues, Bursts, TxEnd, DstPort, Ports
<1>1. /\ Len(q) \in Nat /\ Len(b) \in Nat /\ TxDesc \in Nat /\ Burst \in Nat
      /\ Len(q) <= TxDesc /\ Len(b) <= Burst
  BY <1>0, SizeAssumption, LenProperties DEF Types
<1>2. PICK n \in 0..Lesser(Len(b), TxDesc - Len(q)) :
        /\ CallSets(l, txq, d, q \o Prefix(b, n))
        /\ bufs' = [bufs EXCEPT ![l] = Rest(@, n)]
        /\ IF n < Len(b) THEN Goto(l, "free") /\ UNCHANGED port
                         ELSE Goto(l, "poll") /\ NextPort(l)
  BY DEF TxEnd
<1>. HIDE DEF b, q
<1>3. n \in 0..Len(b) /\ n + Len(q) <= TxDesc
  <2>1. CASE Len(b) <= TxDesc - Len(q)
    BY <1>1, <2>1 DEF Lesser
  <2>2. CASE ~(Len(b) <= TxDesc - Len(q))
    BY <1>1, <2>2 DEF Lesser
  <2> QED  BY <2>1, <2>2
<1>4. /\ Prefix(b, n) \in Seq(Mbufs) /\ Len(Prefix(b, n)) = n
      /\ Rest(b, n) \in Seq(Mbufs) /\ Len(Rest(b, n)) = Len(b) - n /\ (Rest(b, n) = <<>> <=> n = Len(b))
  BY <1>0, <1>3, Cut
<1>5. q \o Prefix(b, n) \in Seq(Mbufs) /\ Len(q \o Prefix(b, n)) = Len(q) + n
  <2>. DEFINE f == Prefix(b, n)
  <2>1. f \in Seq(Mbufs) /\ Len(f) = n
    BY <1>4
  <2>. HIDE DEF f
  <2>2. q \o f \in Seq(Mbufs) /\ Len(q \o f) = Len(q) + Len(f)
    BY <1>0, <2>1, ConcatProperties
  <2> QED  BY <2>1, <2>2 DEF f
<1>6. /\ bufs' \in Bursts /\ bufs'[l] = Rest(b, n) /\ \A k \in Lcores : k # l => bufs'[k] = bufs[k]
      /\ Len(Rest(b, n)) <= Burst
  <2>1. bufs' = [bufs EXCEPT ![l] = Rest(b, n)]
    BY <1>2 DEF b
  <2>2. Len(Rest(b, n)) <= Burst
    BY <1>1, <1>3, <1>4
  <2> QED  BY <1>0, <1>4, <2>1, <2>2 DEF Types, Bursts
<1>7. txq' \in Queues /\ \A o \in Ports : Len(txq'[o]) <= TxDesc
  <2>1. CASE txq' = [txq EXCEPT ![d] = q \o Prefix(b, n)]
    <3>1. txq' \in Queues /\ txq'[d] = q \o Prefix(b, n) /\ \A o \in Ports : o # d => txq'[o] = txq[o]
      BY <1>0, <1>5, <2>1 DEF Types, Queues
    <3>2. Len(txq'[d]) <= TxDesc
      BY <1>1, <1>3, <1>5, <3>1
    <3> QED  BY <1>0, <3>1, <3>2 DEF Types
  <2>2. CASE UNCHANGED txq
    BY <1>0, <2>2 DEF Types
  <2> QED  BY <1>2, <2>1, <2>2 DEF CallSets
<1>8. /\ pc' = [pc EXCEPT ![l] = IF n < Len(b) THEN "free" ELSE "poll"]
      /\ port' \in [Lcores -> Ports] /\ \A k \in Lcores : k # l => port'[k] = port[k]
  BY <1>0, <1>2, NextPortValue DEF Goto, Types
<1>9. /\ pc' \in [Lcores -> Labels] /\ pc'[l] = (IF n < Len(b) THEN "free" ELSE "poll")
      /\ \A k \in Lcores : k # l => pc'[k] = pc[k]
  BY <1>0, <1>8 DEF Types, Labels
<1>10. Types'
  BY <1>0, <1>6, <1>7, <1>8, <1>9 DEF Types
<1>11. Control'
  <2>1. n < Len(b) <=> n # Len(b)
    BY <1>1, <1>3
  <2>2. bufs'[l] # <<>> <=> pc'[l] \in {"put", "tx", "free"}
    BY <1>4, <1>6, <1>9, <2>1
  <2> QED  BY <1>0, <1>6, <1>8, <1>9, <2>2, ControlLocal
<1>12. ASSUME ~raced' PROVE Held(rxq', txq', bufs', pool')
  <2>1. Others(l, pc[l]) = {}
    BY <1>0, <1>12, CallAlone DEF Control
  <2>2. txq' = [txq EXCEPT ![d] = txq[d] \o Prefix(bufs[l], n)] /\ n \in 0..Len(bufs[l])
    BY <1>2, <1>3, <2>1 DEF CallSets, b, q
  <2>3. /\ rxq \in Queues /\ txq \in Queues /\ bufs \in Bursts /\ pool \in SUBSET Mbufs
        /\ Held(rxq, txq, bufs, pool)
    BY <1>0, <1>12 DEF Types, Placed
  <2>. HIDE DEF d
  <2>4. Held(rxq, [txq EXCEPT ![d] = txq[d] \o Prefix(bufs[l], n)], [bufs EXCEPT ![l] = Rest(@, n)], pool)
    BY <1>0, <2>2, <2>3, SendHeld
  <2> QED  BY <1>0, <1>2, <2>2, <2>4
<1> QED
  BY <1>10, <1>11, <1>12 DEF IndInv, Placed

LEMMA StepFree ==
    ASSUME IndInv, NEW l \in Lcores, Free(l)
    PROVE  IndInv'
<1>. DEFINE b == bufs[l]
<1>0. /\ Types /\ Control /\ Placed /\ pc[l] = "free" /\ b \in Seq(Mbufs)
      /\ UNCHANGED <<main, up, rxq, txq, raced>>
      /\ pool' = pool \cup {Head(b)} /\ bufs' = [bufs EXCEPT ![l] = Tail(@)]
  BY DEF IndInv, Types, Bursts, Free
<1>1. b # <<>>
  BY <1>0 DEF Control, Carrying
<1>2. Head(b) \in Mbufs /\ Tail(b) \in Seq(Mbufs) /\ Len(Tail(b)) = Len(b) - 1 /\ Len(b) \in Nat \ {0}
  BY <1>0, <1>1, HeadTailProperties, EmptySeq
<1>3. Tail(b) # <<>> <=> Len(b) > 1
  <2>. DEFINE z == Tail(b)
  <2>1. z \in Seq(Mbufs) /\ Len(z) = Len(b) - 1
    BY <1>2
  <2>. HIDE DEF z
  <2>2. z = <<>> <=> Len(z) = 0
    BY <2>1, Empty
  <2>3. z # <<>> <=> Len(b) > 1
    BY <1>2, <2>1, <2>2
  <2> QED  BY <2>3 DEF z
<1>4. /\ pc' \in [Lcores -> Labels] /\ pc'[l] = (IF Len(b) > 1 THEN "free" ELSE "poll")
      /\ \A k \in Lcores : k # l => pc'[k] = pc[k]
      /\ port' \in [Lcores -> Ports] /\ \A k \in Lcores : k # l => port'[k] = port[k]
  <2>1. CASE Len(b) > 1
    BY <1>0, <2>1 DEF Free, Types
  <2>2. CASE ~(Len(b) > 1)
    <3>1. pc' = [pc EXCEPT ![l] = "poll"] /\ NextPort(l)
      BY <2>2 DEF Free, Goto
    <3>2. port' \in [Lcores -> Ports] /\ \A k \in Lcores : k # l => port'[k] = port[k]
      BY <1>0, <3>1, NextPortValue
    <3> QED  BY <1>0, <2>2, <3>1, <3>2 DEF Types, Labels
  <2> QED  BY <2>1, <2>2
<1>5. /\ bufs' \in Bursts /\ bufs'[l] = Tail(b) /\ \A k \in Lcores : k # l => bufs'[k] = bufs[k]
      /\ Len(Tail(b)) <= Burst
  <2>1. Len(b) <= Burst /\ Burst \in Nat
    BY <1>0, SizeAssumption DEF Types
  <2>2. Len(Tail(b)) <= Burst
    BY <1>2, <2>1
  <2> QED  BY <1>0, <1>2, <2>2 DEF Types, Bursts
<1>6. Types'
  BY <1>0, <1>2, <1>4, <1>5 DEF Types
<1>7. Control'
  <2>1. bufs'[l] # <<>> <=> pc'[l] \in {"put", "tx", "free"}
    BY <1>3, <1>4, <1>5
  <2>. HIDE DEF b
  <2> QED  BY <1>0, <1>4, <1>5, <2>1, ControlLocal
<1>8. ASSUME ~raced' PROVE Held(rxq', txq', bufs', pool')
  <2>1. /\ rxq \in Queues /\ txq \in Queues /\ bufs \in Bursts /\ pool \in SUBSET Mbufs
        /\ Held(rxq, txq, bufs, pool)
    BY <1>0, <1>8 DEF Types, Placed
  <2>2. Held(rxq, txq, [bufs EXCEPT ![l] = Tail(@)], pool \cup {Head(bufs[l])})
    BY <1>1, <2>1, FreeHeld
  <2> QED  BY <1>0, <2>2
<1> QED
  BY <1>6, <1>7, <1>8 DEF IndInv, Placed

LEMMA StepInv == IndInv /\ [Next]_vars => IndInv'
<1>. SUFFICES ASSUME IndInv, [Next]_vars PROVE IndInv'
  OBVIOUS
<1>1. ASSUME NEW l \in Lcores, Loop(l) PROVE IndInv'
  BY <1>1, StepRxNone, StepEnter, StepRxEnd, StepReclaim, StepTxEnd, StepFree DEF Loop
<1>2. CASE UNCHANGED vars
  BY <1>2 DEF vars, IndInv, Types, Control, Carrying, Idle, Apart, Placed
<1> QED
  BY <1>1, <1>2, StepMain, StepNic DEF Next

LEMMA InvImplies == IndInv => TypeOK /\ (~raced => Custody)
<1>. SUFFICES ASSUME IndInv PROVE TypeOK /\ (~raced => Custody)
  OBVIOUS
<1>1. TypeOK
  BY DEF IndInv, Types, Queues, Bursts, TypeOK, Bounded
<1>2. ASSUME ~raced PROVE Custody
  BY <1>2, HeldCustody DEF IndInv, Types, Placed
<1> QED
  BY <1>1, <1>2

\* As long as no two lcores have been inside a call on the same queue at once,
\* each buffer is in the pool or at one place of one queue or burst
\* (main.c:78-98), with any number of lcores and of buffers.
THEOREM BuffersKept == Spec => []CustodyUnlessRaced
<1>1. IndInv => CustodyUnlessRaced
  BY InvImplies DEF CustodyUnlessRaced
<1> QED
  BY <1>1, InitInv, StepInv, PTL DEF Spec

-----------------------------------------------------------------------------
(* Forwarding with one lcore.  Two lcores have been needed for a race.      *)

Alone == raced => \E j, k \in Lcores : j # k /\ pc[j] # "off" /\ pc[k] # "off"

LEMMA AloneInit == Init => Alone
BY DEF Init, Alone

LEMMA AloneStep == IndInv /\ Alone /\ [Next]_vars => Alone'
<1>. SUFFICES ASSUME IndInv, Alone, [Next]_vars, raced' PROVE Alone'
  BY DEF Alone
<1>1. CASE UNCHANGED <<pc, raced>>
  BY <1>1 DEF Alone
<1>2. CASE Launch
  <2>1. ~raced
    BY <1>2 DEF Launch, IndInv, Control, Idle, Alone
  <2> QED  BY <1>2, <2>1 DEF Launch
<1>3. ASSUME NEW l \in Lcores, Loop(l), ~UNCHANGED <<pc, raced>> PROVE Alone'
  <2>1. /\ pc[l] # "off" /\ pc'[l] # "off" /\ \A k \in Lcores : k # l => pc'[k] = pc[k]
        /\ raced \/ \E k \in Lcores : k # l /\ pc[k] \in {"rx", "tx"}
    BY <1>3 DEF IndInv, Types, Loop, RxNone, RxEnter, RxEnd, TxEnter, Reclaim, TxEnd, Free, Enter, Goto, Others
  <2> QED  BY <2>1 DEF Alone
<1> QED
  BY <1>1, <1>2, <1>3 DEF Next, PortInit, NicReceive, vars

-----------------------------------------------------------------------------
(* The line of a direction: what an lcore holds, then the queue.            *)

HoldingOf(b, po, p) == {l \in Lcores : po[l] = p /\ b[l] # <<>>}
HandOf(b, po, p) ==
    IF HoldingOf(b, po, p) = {} THEN <<>> ELSE b[CHOOSE l \in HoldingOf(b, po, p) : TRUE]

LEMMA LineIs ==
    ASSUME NEW p \in Ports
    PROVE  /\ Line(p) = HandOf(bufs, port, p) \o rxq[p]
           /\ Line(p)' = HandOf(bufs', port', p) \o rxq'[p]
BY DEF Line, HandOf, HoldingOf

\* A hand is empty, or some lcore's burst.
LEMMA HandType ==
    ASSUME NEW b \in Bursts, NEW po, NEW p
    PROVE  /\ HandOf(b, po, p) = <<>> \/ \E l \in Lcores : HandOf(b, po, p) = b[l]
           /\ HandOf(b, po, p) \in Seq(Mbufs)
<1>1. HandOf(b, po, p) = <<>> \/ \E l \in Lcores : HandOf(b, po, p) = b[l]
  BY DEF HandOf, HoldingOf
<1>2. <<>> \in Seq(Mbufs)
  BY EmptySeq
<1> QED
  BY <1>1, <1>2 DEF Bursts

\* If only lcore l can hold something, the hand is its burst.
LEMMA HandOfOne ==
    ASSUME NEW b \in Bursts, NEW po, NEW p, NEW l \in Lcores, \A k \in Lcores \ {l} : b[k] = <<>>
    PROVE  HandOf(b, po, p) = IF po[l] = p THEN b[l] ELSE <<>>
<1>1. CASE po[l] = p /\ b[l] # <<>>
  <2>1. HoldingOf(b, po, p) = {l}
    BY <1>1 DEF HoldingOf
  <2>2. (CHOOSE x \in {l} : TRUE) = l
    OBVIOUS
  <2> QED  BY <1>1, <2>1, <2>2 DEF HandOf
<1>2. CASE ~(po[l] = p /\ b[l] # <<>>)
  <2>1. HoldingOf(b, po, p) = {}
    BY <1>2 DEF HoldingOf
  <2> QED  BY <1>2, <2>1 DEF HandOf
<1> QED
  BY <1>1, <1>2

NoRepeat(s) == \A i, j \in 1..Len(s) : s[i] = s[j] => i = j
Gone(w) == {m \in Mbufs : \A i \in DOMAIN w : w[i] # m}

LEMMA ElsewhereIs ==
    ASSUME NEW p \in Ports
    PROVE  /\ Elsewhere(p) = Gone(txq[1 - p] \o Line(p))
           /\ Elsewhere(p)' = Gone((txq[1 - p])' \o Line(p)')
BY DEF Elsewhere, Gone

LEMMA GoneRemove ==
    ASSUME NEW w \in Seq(Mbufs), NoRepeat(w), NEW i \in 1..Len(w)
    PROVE  Gone(Facts!RemoveAt(w, i)) = Gone(w) \cup {w[i]}
<1>1. Facts!IsInjective(w)
  BY Facts!InjectiveSeq DEF NoRepeat
<1>2. Facts!Range(Facts!RemoveAt(w, i)) = Facts!Range(w) \ {w[i]}
  BY <1>1, Facts!RemoveAtInjective
<1>3. \A s : Gone(s) = Mbufs \ Facts!Range(s)
  BY DEF Gone, Facts!Range
<1>4. w[i] \in Mbufs
  BY ElementOfSeq
<1> QED
  BY <1>2, <1>3, <1>4

LEMMA GoneAppend ==
    ASSUME NEW w \in Seq(Mbufs), NEW m \in Mbufs
    PROVE  Gone(Append(w, m)) = Gone(w) \ {m}
<1>1. /\ Len(w) \in Nat /\ DOMAIN w = 1..Len(w)
      /\ Append(w, m) \in Seq(Mbufs) /\ Len(Append(w, m)) = Len(w) + 1
      /\ \A i \in 1..Len(w) : Append(w, m)[i] = w[i]
      /\ Append(w, m)[Len(w) + 1] = m
  BY AppendProperties, LenProperties
<1>2. DOMAIN Append(w, m) = 1..Len(w) + 1
  BY <1>1, LenProperties
<1>3. 1..Len(w) + 1 = 1..Len(w) \cup {Len(w) + 1}
  BY <1>1
<1> QED
  BY <1>1, <1>2, <1>3 DEF Gone

LEMMA ConcatNoRepeat ==
    ASSUME NEW s \in Seq(Mbufs), NEW u \in Seq(Mbufs), NoRepeat(s), NoRepeat(u),
           \A i \in 1..Len(s), j \in 1..Len(u) : s[i] # u[j]
    PROVE  NoRepeat(s \o u)
<1>. DEFINE w == s \o u
<1>1. /\ Len(s) \in Nat /\ Len(u) \in Nat /\ Len(w) = Len(s) + Len(u)
      /\ \A i \in 1..Len(s) + Len(u) : w[i] = IF i <= Len(s) THEN s[i] ELSE u[i - Len(s)]
  BY ConcatProperties, LenProperties
<1>. HIDE DEF w
<1>2. ASSUME NEW i \in 1..Len(w), NEW j \in 1..Len(w), w[i] = w[j] PROVE i = j
  <2>1. CASE i <= Len(s) /\ j <= Len(s)
    BY <1>1, <1>2, <2>1 DEF NoRepeat
  <2>2. CASE ~(i <= Len(s)) /\ ~(j <= Len(s))
    <3>1. i - Len(s) \in 1..Len(u) /\ j - Len(s) \in 1..Len(u)
      BY <1>1, <2>2
    <3>2. u[i - Len(s)] = u[j - Len(s)]
      BY <1>1, <1>2, <2>2
    <3>3. i - Len(s) = j - Len(s)
      BY <3>1, <3>2 DEF NoRepeat
    <3> QED  BY <1>1, <3>3
  <2>3. CASE i <= Len(s) /\ ~(j <= Len(s))
    <3>1. i \in 1..Len(s) /\ j - Len(s) \in 1..Len(u)
      BY <1>1, <2>3
    <3> QED  BY <1>1, <1>2, <2>3, <3>1
  <2>4. CASE ~(i <= Len(s)) /\ j <= Len(s)
    <3>1. j \in 1..Len(s) /\ i - Len(s) \in 1..Len(u)
      BY <1>1, <2>4
    <3> QED  BY <1>1, <1>2, <2>4, <3>1
  <2> QED  BY <2>1, <2>2, <2>3, <2>4
<1> QED
  BY <1>2 DEF NoRepeat, w

\* Appending to the last part is appending to the whole.
LEMMA AppendConcat ==
    ASSUME NEW s \in Seq(Mbufs), NEW u \in Seq(Mbufs), NEW m \in Mbufs
    PROVE  s \o Append(u, m) = Append(s \o u, m)
<1>1. <<m>> \in Seq(Mbufs) /\ s \o u \in Seq(Mbufs)
  BY ConcatProperties
<1>2. Append(u, m) = u \o <<m>> /\ Append(s \o u, m) = (s \o u) \o <<m>>
  BY <1>1, AppendIsConcat
<1>3. (s \o u) \o <<m>> = s \o (u \o <<m>>)
  BY <1>1, ConcatAssociative
<1> QED
  BY <1>2, <1>3

\* What moves from the head of the one part to the end of the other.
Regrouped(t, x, y, r, b) == (t \o x) \o (y \o r) = t \o (b \o r)
LEMMA Regroup ==
    ASSUME NEW t \in Seq(Mbufs), NEW x \in Seq(Mbufs), NEW y \in Seq(Mbufs), NEW r \in Seq(Mbufs)
    PROVE  Regrouped(t, x, y, r, x \o y)
<1>. DEFINE z == y \o r
<1>1. z \in Seq(Mbufs) /\ (x \o y) \o r = x \o z
  <2>1. z \in Seq(Mbufs)
    BY ConcatProperties
  <2>2. (x \o y) \o r = x \o (y \o r)
    BY ConcatAssociative, SMTT(30)
  <2> QED  BY <2>1, <2>2
<1>2. ASSUME NEW s \in Seq(Mbufs) PROVE (t \o x) \o s = t \o (x \o s)
  BY ConcatAssociative, SMTT(30)
<1>. HIDE DEF z
<1>3. (t \o x) \o z = t \o (x \o z)
  BY <1>1, <1>2
<1>4. (t \o x) \o z = t \o ((x \o y) \o r)
  BY <1>1, <1>3, Zenon
<1> QED
  BY <1>4 DEF Regrouped, z

\* A buffer of a concatenation is in one of its parts.
LEMMA ConcatFrom ==
    ASSUME NEW s \in Seq(Mbufs), NEW u \in Seq(Mbufs), NEW i \in 1..Len(s \o u)
    PROVE  (\E j \in 1..Len(s) : (s \o u)[i] = s[j]) \/ (\E j \in 1..Len(u) : (s \o u)[i] = u[j])
<1>1. /\ Len(s) \in Nat /\ Len(u) \in Nat /\ Len(s \o u) = Len(s) + Len(u)
      /\ (s \o u)[i] = IF i <= Len(s) THEN s[i] ELSE u[i - Len(s)]
  BY ConcatProperties, LenProperties
<1>2. CASE i <= Len(s)
  BY <1>1, <1>2
<1>3. CASE ~(i <= Len(s))
  <2>1. i - Len(s) \in 1..Len(u)
    BY <1>1, <1>3
  <2> QED  BY <1>1, <1>3, <2>1
<1> QED
  BY <1>2, <1>3

\* Nothing stands twice in a direction, and nothing of it is in the pool.
LEMMA DirectionHeld ==
    ASSUME NEW r \in Queues, NEW t \in Queues, NEW b \in Bursts, NEW P, Held(r, t, b, P),
           NEW p \in Ports, NEW q \in Ports, NEW po
    PROVE  /\ NoRepeat(t[q] \o (HandOf(b, po, p) \o r[p]))
           /\ P \cap Mbufs \subseteq Gone(t[q] \o (HandOf(b, po, p) \o r[p]))
<1>. DEFINE h == HandOf(b, po, p)
            H == ShelfOf(r, t, b)
            x == t[q]
            z == r[p]
<1>1. h \in Seq(Mbufs) /\ x \in Seq(Mbufs) /\ z \in Seq(Mbufs) /\ (h = <<>> \/ \E l \in Lcores : h = b[l])
  BY HandType DEF Queues
<1>2. Shows(H, r, t, b) /\ Facts!Kept(Place, Mbufs, H, P)
  BY ShelfValues DEF Held
<1>. HIDE DEF h, H
<1>3. H[<<"tx", q>>] = x /\ H[<<"rx", p>>] = z /\ <<"tx", q>> \in Place /\ <<"rx", p>> \in Place
  BY <1>2, PlaceMembers DEF Shows
<1>. HIDE DEF x, z
<1>4. /\ NoRepeat(x) /\ NoRepeat(z) /\ \A i \in 1..Len(x), j \in 1..Len(z) : x[i] # z[j]
      /\ \A i \in 1..Len(x) : x[i] \notin P
      /\ \A i \in 1..Len(z) : z[i] \notin P
  <2>1. <<"tx", q>> # <<"rx", p>>
    OBVIOUS
  <2> QED  BY <1>2, <1>3, <2>1 DEF Facts!Kept, NoRepeat
<1>5. /\ NoRepeat(h)
      /\ \A i \in 1..Len(h) : h[i] \notin P
      /\ \A i \in 1..Len(x), j \in 1..Len(h) : x[i] # h[j]
      /\ \A i \in 1..Len(h), j \in 1..Len(z) : h[i] # z[j]
  <2>1. CASE h = <<>>
    <3>1. 1..Len(h) = {}
      BY <2>1, EmptySeq
    <3> QED  BY <3>1 DEF NoRepeat
  <2>2. ASSUME NEW l \in Lcores, h = b[l] PROVE <1>5!:
    <3>1. H[<<"bufs", l>>] = h /\ <<"bufs", l>> \in Place
      BY <1>2, <2>2, PlaceMembers DEF Shows
    <3>2. <<"bufs", l>> # <<"rx", p>> /\ <<"bufs", l>> # <<"tx", q>>
      OBVIOUS
    <3> QED  BY <1>2, <1>3, <3>1, <3>2 DEF Facts!Kept, NoRepeat
  <2> QED  BY <1>1, <2>1, <2>2
<1>. DEFINE y == h \o z
<1>6. y \in Seq(Mbufs) /\ NoRepeat(y) /\ Len(y) \in Nat
      /\ \A i \in 1..Len(y) : (\E j \in 1..Len(h) : y[i] = h[j]) \/ (\E j \in 1..Len(z) : y[i] = z[j])
  BY <1>1, <1>4, <1>5, ConcatNoRepeat, ConcatFrom, ConcatProperties, LenProperties
<1>. HIDE DEF y
<1>7. \A i \in 1..Len(x), j \in 1..Len(y) : x[i] # y[j]
  BY <1>4, <1>5, <1>6
<1>8. \A i \in 1..Len(y) : y[i] \notin P
  BY <1>4, <1>5, <1>6
<1>9. NoRepeat(x \o y)
  BY <1>1, <1>4, <1>6, <1>7, ConcatNoRepeat
<1>10. P \cap Mbufs \subseteq Gone(x \o y)
  <2>1. x \o y \in Seq(Mbufs)
    BY <1>1, <1>6, ConcatProperties
  <2>2. DOMAIN (x \o y) = 1..Len(x \o y)
    BY <2>1, LenProperties
  <2>3. ASSUME NEW i \in 1..Len(x \o y) PROVE (x \o y)[i] \notin P
    BY <1>1, <1>4, <1>6, <1>8, ConcatFrom
  <2> QED  BY <2>2, <2>3 DEF Gone
<1> QED
  BY <1>9, <1>10 DEF h, x, y, z

-----------------------------------------------------------------------------
(* The steps of the abstract FIFO, for the direction from port p.           *)

Accepts(p) == \E m \in Mbufs : /\ m \in Elsewhere(p) /\ Elsewhere(p)' = Elsewhere(p) \ {m}
                               /\ Line(p)' = Append(Line(p), m) /\ UNCHANGED txq[1 - p]
Drops(p) == \E i \in 1..Len(Line(p)) : /\ Elsewhere(p)' = Elsewhere(p) \cup {Line(p)[i]}
                                       /\ Line(p)' = Facts!RemoveAt(Line(p), i) /\ UNCHANGED txq[1 - p]
Transmits(p) == \E n \in 1..Len(Line(p)) : /\ (txq[1 - p])' = txq[1 - p] \o SubSeq(Line(p), 1, n)
                                           /\ Line(p)' = SubSeq(Line(p), n + 1, Len(Line(p)))
                                           /\ UNCHANGED Elsewhere(p)
Completes(p) == /\ txq[1 - p] # <<>> /\ Elsewhere(p)' = Elsewhere(p) \cup {Head(txq[1 - p])}
                /\ (txq[1 - p])' = Tail(txq[1 - p]) /\ UNCHANGED Line(p)
Stays(p) == UNCHANGED <<Elsewhere(p), Line(p), txq[1 - p]>>
Moves(p) == Accepts(p) \/ Drops(p) \/ Transmits(p) \/ Completes(p) \/ Stays(p)

LEMMA MovesAre ==
    /\ Moves(0) => From0!Next \/ UNCHANGED From0!vars
    /\ Moves(1) => From1!Next \/ UNCHANGED From1!vars
<1>1. 1 - 0 = 1 /\ 1 - 1 = 0
  OBVIOUS
<1> QED
  BY <1>1 DEF Moves, Accepts, Drops, Transmits, Completes, Stays,
              From0!Next, From0!vars, From0!Accept, From0!Drop, From0!Transmit, From0!Complete,
              From1!Next, From1!vars, From1!Accept, From1!Drop, From1!Transmit, From1!Complete,
              Facts!RemoveAt, From0!RemoveAt, From1!RemoveAt

LEMMA StaysIf ==
    ASSUME NEW p \in Ports, UNCHANGED <<Line(p), txq[1 - p]>>
    PROVE  Moves(p)
BY ElsewhereIs DEF Moves, Stays

\* What an lcore needs to know of a direction: no other lcore has a burst,
\* nothing stands twice.
LEMMA SoleHands ==
    ASSUME IndInv, NEW l \in Lcores, \A k \in Lcores \ {l} : pc[k] = "off", NEW p \in Ports
    PROVE  /\ \A k \in Lcores \ {l} : bufs[k] = <<>>
           /\ Line(p) = (IF port[l] = p THEN bufs[l] ELSE <<>>) \o rxq[p]
<1>1. \A k \in Lcores \ {l} : bufs[k] = <<>>
  BY DEF IndInv, Control, Carrying
<1>2. bufs \in Bursts
  BY DEF IndInv, Types
<1>3. HandOf(bufs, port, p) = IF port[l] = p THEN bufs[l] ELSE <<>>
  BY <1>1, <1>2, HandOfOne
<1> QED
  BY <1>1, <1>3, LineIs

LEMMA SoleHandsNext ==
    ASSUME bufs' \in Bursts, NEW l \in Lcores, \A k \in Lcores \ {l} : bufs'[k] = <<>>, NEW p \in Ports
    PROVE  Line(p)' = (IF port'[l] = p THEN bufs'[l] ELSE <<>>) \o rxq'[p]
<1>. DEFINE b == bufs'  po == port'
<1>1. HandOf(b, po, p) = IF po[l] = p THEN b[l] ELSE <<>>
  <2>. HIDE DEF po
  <2>1. b \in Bursts /\ \A k \in Lcores \ {l} : b[k] = <<>>
    OBVIOUS
  <2>. HIDE DEF b
  <2> QED  BY <2>1, HandOfOne
<1> QED
  BY <1>1, LineIs

LEMMA OtherPort == \A p \in Ports : /\ DstPort(p) = 1 - p /\ 1 - p \in Ports /\ 1 - p # p
                                    /\ \A q \in Ports : q = p \/ q = 1 - p
BY DEF Ports, DstPort

LEMMA MovesArrive ==
    ASSUME IndInv, ~raced, NEW q \in Ports, NEW m \in Mbufs, NicReceive(q, m), NEW p \in Ports
    PROVE  Moves(p)
<1>. DEFINE h == HandOf(bufs, port, p)
            w == txq[1 - p] \o Line(p)
<1>1. /\ m \in pool /\ rxq' = [rxq EXCEPT ![q] = Append(@, m)] /\ UNCHANGED <<txq, port, bufs>>
      /\ rxq \in Queues /\ txq \in Queues /\ bufs \in Bursts /\ 1 - p \in Ports
  BY OtherPort DEF NicReceive, IndInv, Types
<1>2. Line(p) = h \o rxq[p] /\ Line(p)' = h \o rxq'[p]
  BY <1>1, LineIs
<1>3. CASE p # q
  <2>1. rxq'[p] = rxq[p]
    BY <1>1, <1>3 DEF Queues
  <2> QED  BY <1>1, <1>2, <2>1, StaysIf
<1>4. CASE p = q
  <2>1. rxq'[p] = Append(rxq[p], m)
    BY <1>1, <1>4 DEF Queues
  <2>2. h \in Seq(Mbufs) /\ rxq[p] \in Seq(Mbufs) /\ txq[1 - p] \in Seq(Mbufs) /\ Line(p) \in Seq(Mbufs)
    <3>1. h \in Seq(Mbufs) /\ rxq[p] \in Seq(Mbufs) /\ txq[1 - p] \in Seq(Mbufs)
      BY <1>1, HandType DEF Queues
    <3>. HIDE DEF h
    <3> QED  BY <1>2, <3>1, ConcatProperties
  <2>. HIDE DEF h
  <2>3. Line(p)' = Append(Line(p), m)
    BY <1>2, <2>1, <2>2, AppendConcat
  <2>4. w \in Seq(Mbufs) /\ (txq[1 - p])' \o Line(p)' = Append(w, m)
    <3>1. txq[1 - p] \o Append(Line(p), m) = Append(txq[1 - p] \o Line(p), m)
      BY <2>2, AppendConcat
    <3>2. txq[1 - p] \o Line(p) \in Seq(Mbufs)
      BY <2>2, ConcatProperties
    <3> QED  BY <1>1, <2>3, <3>1, <3>2
  <2>5. m \in Gone(w)
    <3>1. pool \cap Mbufs \subseteq Gone(txq[1 - p] \o (HandOf(bufs, port, p) \o rxq[p]))
      BY <1>1, DirectionHeld DEF IndInv, Placed
    <3> QED  BY <1>1, <1>2, <3>1 DEF h
  <2>6. Accepts(p)
    <3>. HIDE DEF w
    <3>1. Elsewhere(p) = Gone(w) /\ Elsewhere(p)' = Gone(Append(w, m))
      BY <2>4, ElsewhereIs DEF w
    <3>2. Elsewhere(p)' = Elsewhere(p) \ {m}
      BY <2>4, <3>1, GoneAppend
    <3> QED  BY <1>1, <2>3, <2>5, <3>1, <3>2 DEF Accepts
  <2> QED  BY <2>6 DEF Moves
<1> QED
  BY <1>3, <1>4

\* What the steps of the only lcore l find: the direction of its port is what it
\* holds and the queue, the other direction is its queue.
Sole(l) == \A k \in Lcores \ {l} : pc[k] = "off" /\ pc'[k] = "off"
Given(l, p) ==
    /\ IndInv /\ IndInv' /\ ~raced /\ l \in Lcores /\ p \in Ports /\ Sole(l)

LEMMA SoleFacts ==
    ASSUME NEW l, NEW p, Given(l, p)
    PROVE  /\ Line(p) = (IF port[l] = p THEN bufs[l] ELSE <<>>) \o rxq[p]
           /\ Line(p)' = (IF port'[l] = p THEN bufs'[l] ELSE <<>>) \o rxq'[p]
           /\ pc[l] \in {"rx", "tx"} => Others(l, pc[l]) = {}
           /\ bufs[l] \in Seq(Mbufs) /\ rxq[p] \in Seq(Mbufs) /\ txq[1 - p] \in Seq(Mbufs)
           /\ port[l] \in Ports /\ 1 - p \in Ports /\ Line(p) \in Seq(Mbufs)
           /\ NoRepeat(txq[1 - p] \o Line(p))
<1>. USE DEF Given
<1>1. Line(p) = (IF port[l] = p THEN bufs[l] ELSE <<>>) \o rxq[p]
  BY SoleHands DEF Sole
<1>2. Line(p)' = (IF port'[l] = p THEN bufs'[l] ELSE <<>>) \o rxq'[p]
  <2>1. bufs' \in Bursts
    BY DEF IndInv, Types
  <2>2. \A k \in Lcores \ {l} : bufs'[k] = <<>>
    BY DEF IndInv, Control, Carrying, Sole
  <2> QED  BY <2>1, <2>2, SoleHandsNext
<1>3. pc[l] \in {"rx", "tx"} => Others(l, pc[l]) = {}
  BY DEF Sole, Others
<1>4. /\ bufs[l] \in Seq(Mbufs) /\ rxq[p] \in Seq(Mbufs) /\ txq[1 - p] \in Seq(Mbufs)
      /\ port[l] \in Ports /\ 1 - p \in Ports
  BY OtherPort DEF IndInv, Types, Queues, Bursts
<1>5. Line(p) \in Seq(Mbufs)
  <2>1. <<>> \in Seq(Mbufs)
    BY EmptySeq
  <2>2. CASE port[l] = p
    BY <1>1, <1>4, <2>2, ConcatProperties
  <2>3. CASE port[l] # p
    BY <1>1, <1>4, <2>1, <2>3, ConcatProperties
  <2> QED  BY <2>2, <2>3
<1>6. NoRepeat(txq[1 - p] \o Line(p))
  <2>1. Held(rxq, txq, bufs, pool) /\ rxq \in Queues /\ txq \in Queues /\ bufs \in Bursts
    BY DEF IndInv, Placed, Types
  <2>2. NoRepeat(txq[1 - p] \o (HandOf(bufs, port, p) \o rxq[p]))
    BY <1>4, <2>1, DirectionHeld
  <2> QED  BY <2>2, LineIs
<1> QED
  BY <1>1, <1>2, <1>3, <1>4, <1>5, <1>6

LEMMA MovesNot ==
    ASSUME NEW l, NEW p, Given(l, p), RxNone(l) \/ RxEnter(l) \/ TxEnter(l)
    PROVE  Moves(p)
<1>1. CASE RxEnter(l) \/ TxEnter(l)
  <2>1. UNCHANGED <<bufs, port, rxq, txq>>
    BY <1>1 DEF RxEnter, TxEnter
  <2>2. UNCHANGED <<Line(p), txq[1 - p]>>
    BY <2>1 DEF Line
  <2> QED  BY <2>2, StaysIf DEF Given
<1>2. CASE RxNone(l)
  <2>1. bufs[l] = <<>> /\ UNCHANGED <<rxq, txq, bufs>>
    BY <1>2 DEF RxNone, Given, IndInv, Control, Carrying
  <2>2. Line(p) = <<>> \o rxq[p] /\ Line(p)' = <<>> \o rxq[p]
    BY <2>1, SoleFacts
  <2> QED  BY <2>1, <2>2, StaysIf DEF Given
<1> QED
  BY <1>1, <1>2

LEMMA MovesRxEnd ==
    ASSUME NEW l, NEW p, Given(l, p), RxEnd(l)
    PROVE  Moves(p)
<1>. DEFINE q == rxq[port[l]]
<1>1. PICK n \in Lesser(1, Len(q))..Lesser(Burst, Len(q)) :
        /\ bufs' = [bufs EXCEPT ![l] = Prefix(q, n)]
        /\ CallSets(l, rxq, port[l], Rest(q, n))
        /\ n # 0 => UNCHANGED port
  BY DEF RxEnd
<1>2. /\ pc[l] = "rx" /\ bufs[l] = <<>> /\ UNCHANGED txq /\ port[l] \in Ports /\ q \in Seq(Mbufs)
      /\ rxq \in Queues /\ bufs \in Bursts /\ l \in Lcores /\ p \in Ports
  BY DEF RxEnd, Given, IndInv, Types, Queues, Control, Carrying
<1>3. n \in 0..Len(q)
  BY <1>2, SizeAssumption, LenProperties DEF Lesser
<1>4. /\ Prefix(q, n) \in Seq(Mbufs) /\ Rest(q, n) \in Seq(Mbufs) /\ (Prefix(q, n) = <<>> <=> n = 0)
      /\ Prefix(q, n) \o Rest(q, n) = q
  <2>. HIDE DEF q
  <2> QED  BY <1>2, <1>3, Cut, Facts!CutProperties DEF Prefix, Rest
<1>5. rxq' = [rxq EXCEPT ![port[l]] = Rest(q, n)]
  BY <1>1, <1>2, SoleFacts DEF CallSets
<1>6. bufs'[l] = Prefix(q, n)
  BY <1>1, <1>2 DEF Bursts
<1>7. CASE port[l] = p
  <2>1. rxq'[p] = Rest(q, n)
    BY <1>2, <1>5, <1>7 DEF Queues
  <2>2. Line(p) = q
    <3>1. Line(p) = <<>> \o q
      BY <1>2, <1>7, SoleFacts
    <3>. HIDE DEF q
    <3>2. <<>> \o q = q
      BY <1>2, ConcatEmptySeq
    <3> QED  BY <3>1, <3>2
  <2>3. (IF port'[l] = p THEN bufs'[l] ELSE <<>>) = Prefix(q, n)
    BY <1>1, <1>4, <1>6, <1>7
  <2>4. Line(p)' = Line(p)
    <3>1. Line(p)' = (IF port'[l] = p THEN bufs'[l] ELSE <<>>) \o rxq'[p]
      BY SoleFacts
    <3> QED  BY <1>4, <2>1, <2>2, <2>3, <3>1
  <2> QED  BY <1>2, <2>4, StaysIf
<1>8. CASE port[l] # p
  <2>1. rxq'[p] = rxq[p]
    BY <1>2, <1>5, <1>8 DEF Queues
  <2>2. (IF port'[l] = p THEN bufs'[l] ELSE <<>>) = <<>>
    BY <1>1, <1>4, <1>6, <1>8
  <2>3. Line(p)' = Line(p)
    BY <1>8, <2>1, <2>2, SoleFacts, Zenon
  <2> QED  BY <1>2, <2>3, StaysIf
<1> QED
  BY <1>7, <1>8

LEMMA MovesReclaim ==
    ASSUME NEW l, NEW p, Given(l, p), Reclaim(l)
    PROVE  Moves(p)
<1>. DEFINE t == txq[1 - p]
<1>1. /\ UNCHANGED <<rxq, port, bufs>> /\ p \in Ports /\ port[l] \in Ports /\ pc[l] = "tx"
      /\ DstPort(port[l]) = 1 - port[l] /\ 1 - port[l] \in Ports /\ 1 - p \in Ports /\ txq \in Queues
      /\ txq[1 - port[l]] # <<>> /\ CallSets(l, txq, 1 - port[l], Tail(txq[1 - port[l]]))
  BY OtherPort DEF Reclaim, Given, IndInv, Types
<1>2. txq' = [txq EXCEPT ![1 - port[l]] = Tail(txq[1 - port[l]])]
  BY <1>1, SoleFacts DEF CallSets
<1>3. UNCHANGED Line(p)
  BY <1>1 DEF Line
<1>4. CASE port[l] = p
  <2>1. /\ (txq[1 - p])' = Tail(t) /\ t # <<>> /\ t \in Seq(Mbufs) /\ Line(p) \in Seq(Mbufs)
        /\ NoRepeat(t \o Line(p))
    BY <1>1, <1>2, <1>4, SoleFacts DEF Queues
  <2>. HIDE DEF t
  <2>2. /\ 1 \in 1..Len(t \o Line(p)) /\ (t \o Line(p))[1] = Head(t)
        /\ Facts!RemoveAt(t \o Line(p), 1) = Tail(t) \o Line(p)
    BY <2>1, Facts!RemoveHead
  <2>3. t \o Line(p) \in Seq(Mbufs)
    BY <2>1, ConcatProperties
  <2>. DEFINE w == t \o Line(p)
  <2>4. Gone(Facts!RemoveAt(w, 1)) = Gone(w) \cup {w[1]}
    <3>1. w \in Seq(Mbufs) /\ NoRepeat(w) /\ 1 \in 1..Len(w)
      BY <2>1, <2>2, <2>3
    <3>. HIDE DEF w
    <3> QED  BY <3>1, GoneRemove
  <2>5. Elsewhere(p) = Gone(w) /\ Elsewhere(p)' = Gone(Tail(t) \o Line(p))
    BY <1>1, <1>3, <2>1, ElsewhereIs DEF t
  <2>6. Elsewhere(p)' = Elsewhere(p) \cup {Head(t)}
    BY <2>2, <2>4, <2>5
  <2> QED  BY <1>3, <2>1, <2>6 DEF t, Moves, Completes
<1>5. CASE port[l] # p
  <2>1. 1 - p # 1 - port[l]
    BY <1>1, <1>5 DEF Ports
  <2>2. UNCHANGED txq[1 - p]
    BY <1>1, <1>2, <2>1 DEF Queues
  <2> QED  BY <1>1, <1>3, <2>2, StaysIf
<1> QED
  BY <1>4, <1>5

LEMMA MovesTxEnd ==
    ASSUME NEW l, NEW p, Given(l, p), TxEnd(l)
    PROVE  Moves(p)
<1>. DEFINE b == bufs[l]
            d == 1 - port[l]
            r == rxq[p]
            t == txq[1 - p]
<1>1. /\ pc[l] = "tx" /\ UNCHANGED rxq /\ DstPort(port[l]) = d /\ d \in Ports /\ port[l] \in Ports /\ p \in Ports
      /\ l \in Lcores /\ Types /\ b \in Seq(Mbufs) /\ r \in Seq(Mbufs) /\ t \in Seq(Mbufs) /\ 1 - p \in Ports
      /\ Len(b) \in Nat
  BY SoleFacts, OtherPort, LenProperties DEF TxEnd, Given, IndInv, Types
<1>2. PICK n \in 0..Lesser(Len(b), TxDesc - Len(txq[d])) :
        /\ CallSets(l, txq, d, txq[d] \o Prefix(b, n))
        /\ bufs' = [bufs EXCEPT ![l] = Rest(@, n)]
        /\ IF n < Len(b) THEN UNCHANGED port ELSE NextPort(l)
  BY <1>1 DEF TxEnd
<1>3. n \in 0..Len(b)
  <2>1. Len(txq[d]) \in Nat /\ TxDesc \in Nat
    BY <1>1, SizeAssumption, LenProperties DEF Types, Queues
  <2>. HIDE DEF b, d
  <2>2. CASE Len(b) <= TxDesc - Len(txq[d])
    BY <1>1, <2>1, <2>2 DEF Lesser
  <2>3. CASE ~(Len(b) <= TxDesc - Len(txq[d]))
    BY <1>1, <2>1, <2>3 DEF Lesser
  <2> QED  BY <2>2, <2>3
<1>4. txq' = [txq EXCEPT ![d] = txq[d] \o Prefix(b, n)]
  BY <1>1, <1>2, SoleFacts DEF CallSets
<1>5. bufs'[l] = Rest(b, n)
  BY <1>1, <1>2 DEF Types, Bursts
<1>6. n = Len(b) => port'[l] = d
  BY <1>1, <1>2, NextPortValue
<1>. HIDE DEF b
<1>7. /\ Prefix(b, n) \in Seq(Mbufs) /\ Rest(b, n) \in Seq(Mbufs) /\ (Rest(b, n) = <<>> <=> n = Len(b))
      /\ Prefix(b, n) \o Rest(b, n) = b /\ (Prefix(b, n) = <<>> <=> n = 0)
  BY <1>1, <1>3, Cut, Facts!CutProperties DEF Prefix, Rest
<1>8. CASE port[l] = p
  <2>1. (txq[1 - p])' = t \o Prefix(b, n)
    BY <1>1, <1>4, <1>8 DEF Types, Queues
  <2>. HIDE DEF d
  <2>2. (IF port'[l] = p THEN bufs'[l] ELSE <<>>) = Rest(b, n)
    <3>1. d # p
      BY <1>1, <1>8, OtherPort DEF d
    <3>2. CASE n < Len(b)
      BY <1>2, <1>5, <1>8, <3>2
    <3>3. CASE n = Len(b)
      BY <1>6, <1>7, <3>1, <3>3
    <3> QED  BY <1>1, <1>3, <3>2, <3>3
  <2>3. Line(p) = b \o r /\ Line(p)' = Rest(b, n) \o r
    <3>1. Line(p)' = (IF port'[l] = p THEN bufs'[l] ELSE <<>>) \o rxq'[p]
      BY SoleFacts
    <3>2. Line(p) = b \o r
      BY <1>8, SoleFacts DEF b
    <3> QED  BY <1>1, <2>2, <3>1, <3>2
  <2>. HIDE DEF r, t
  <2>4. CASE n = 0
    <3>1. Prefix(b, n) = <<>> /\ <<>> \o Rest(b, n) = b
      BY <1>7, <2>4
    <3>2. <<>> \o Rest(b, n) = Rest(b, n)
      <4>. DEFINE z == Rest(b, n)
      <4>1. z \in Seq(Mbufs)
        BY <1>7
      <4>. HIDE DEF z
      <4>2. <<>> \o z = z
        BY <4>1, ConcatEmptySeq
      <4> QED  BY <4>2 DEF z
    <3>3. t \o <<>> = t
      BY <1>1, ConcatEmptySeq
    <3>4. UNCHANGED <<Line(p), txq[1 - p]>>
      BY <2>1, <2>3, <3>1, <3>2, <3>3 DEF t
    <3> QED  BY <1>1, <3>4, StaysIf
  <2>5. CASE n # 0
    <3>1. SubSeq(b \o r, 1, n) = Prefix(b, n) /\ SubSeq(b \o r, n + 1, Len(b \o r)) = Rest(b, n) \o r
      BY <1>1, <1>3, Facts!CutFront DEF Prefix, Rest
    <3>2. n \in 1..Len(Line(p))
      <4>1. Len(r) \in Nat /\ Len(b \o r) = Len(b) + Len(r)
        BY <1>1, ConcatProperties, LenProperties
      <4> QED  BY <1>1, <1>3, <2>3, <2>5, <4>1
    <3>3. (t \o Prefix(b, n)) \o (Rest(b, n) \o r) = t \o (b \o r)
      <4>. DEFINE x == Prefix(b, n)  y == Rest(b, n)
      <4>1. x \in Seq(Mbufs) /\ y \in Seq(Mbufs) /\ t \in Seq(Mbufs) /\ r \in Seq(Mbufs)
        BY <1>1, <1>7
      <4>2. x \o y = b
        BY <1>7
      <4>. HIDE DEF x, y
      <4>3. Regrouped(t, x, y, r, x \o y)
        BY <4>1, Regroup
      <4>4. Regrouped(t, x, y, r, b)
        BY <4>2, <4>3, Zenon
      <4> QED  BY <4>4, Zenon DEF x, y, Regrouped
    <3>4. UNCHANGED Elsewhere(p)
      <4>1. Elsewhere(p) = Gone(t \o (b \o r))
        BY <1>1, <2>3, ElsewhereIs DEF t
      <4>2. Elsewhere(p)' = Gone((t \o Prefix(b, n)) \o (Rest(b, n) \o r))
        BY <1>1, <2>1, <2>3, ElsewhereIs
      <4> QED  BY <3>3, <4>1, <4>2
    <3>5. /\ (txq[1 - p])' = txq[1 - p] \o SubSeq(Line(p), 1, n)
          /\ Line(p)' = SubSeq(Line(p), n + 1, Len(Line(p)))
      BY <2>1, <2>3, <3>1 DEF t
    <3> QED  BY <3>2, <3>4, <3>5 DEF Moves, Transmits
  <2> QED  BY <2>4, <2>5
<1>9. CASE port[l] # p
  <2>1. d = p
    BY <1>1, <1>9, OtherPort
  <2>2. UNCHANGED txq[1 - p]
    BY <1>1, <1>4, <2>1, OtherPort DEF Types, Queues
  <2>. HIDE DEF d
  <2>3. (IF port'[l] = p THEN bufs'[l] ELSE <<>>) = <<>>
    <3>1. CASE n < Len(b)
      BY <1>2, <1>9, <3>1
    <3>2. CASE n = Len(b)
      BY <1>5, <1>7, <3>2
    <3> QED  BY <1>1, <1>3, <3>1, <3>2
  <2>4. UNCHANGED Line(p)
    <3>1. Line(p)' = (IF port'[l] = p THEN bufs'[l] ELSE <<>>) \o rxq'[p]
      BY SoleFacts
    <3>2. Line(p) = <<>> \o rxq[p]
      BY <1>9, SoleFacts
    <3> QED  BY <1>1, <2>3, <3>1, <3>2
  <2> QED  BY <1>1, <2>2, <2>4, StaysIf
<1> QED
  BY <1>8, <1>9

LEMMA MovesFree ==
    ASSUME NEW l, NEW p, Given(l, p), Free(l)
    PROVE  Moves(p)
<1>. DEFINE b == bufs[l]
            r == rxq[p]
            t == txq[1 - p]
<1>1. /\ pc[l] = "free" /\ UNCHANGED <<rxq, txq>> /\ port[l] \in Ports /\ p \in Ports /\ l \in Lcores /\ Types
      /\ b \in Seq(Mbufs) /\ r \in Seq(Mbufs) /\ t \in Seq(Mbufs) /\ Len(b) \in Nat /\ b # <<>>
      /\ NoRepeat(t \o Line(p)) /\ Line(p) \in Seq(Mbufs)
  BY SoleFacts, LenProperties DEF Free, Given, IndInv, Types, Control, Carrying
<1>2. /\ bufs'[l] = Tail(b)
      /\ IF Len(b) > 1 THEN UNCHANGED port ELSE NextPort(l)
  BY <1>1 DEF Free, Types, Bursts
<1>3. ~(Len(b) > 1) => port'[l] = 1 - port[l]
  BY <1>1, <1>2, NextPortValue, OtherPort
<1>. HIDE DEF b
<1>4. Tail(b) \in Seq(Mbufs) /\ Len(Tail(b)) = Len(b) - 1 /\ (~(Len(b) > 1) => Tail(b) = <<>>)
  <2>1. Tail(b) \in Seq(Mbufs) /\ Len(Tail(b)) = Len(b) - 1
    BY <1>1, HeadTailProperties
  <2>2. Len(b) # 0
    BY <1>1, Empty
  <2>. DEFINE z == Tail(b)
  <2>3. z \in Seq(Mbufs) /\ Len(z) = Len(b) - 1
    BY <2>1
  <2>. HIDE DEF z
  <2>4. ~(Len(b) > 1) => z = <<>>
    BY <1>1, <2>2, <2>3, Empty
  <2> QED  BY <2>1, <2>4 DEF z
<1>5. Line(p)' = (IF port'[l] = p THEN bufs'[l] ELSE <<>>) \o r
  <2>1. Line(p)' = (IF port'[l] = p THEN bufs'[l] ELSE <<>>) \o rxq'[p]
    BY SoleFacts
  <2> QED  BY <1>1, <2>1
<1>6. CASE port[l] = p
  <2>1. Line(p) = b \o r
    BY <1>6, SoleFacts DEF b
  <2>2. (IF port'[l] = p THEN bufs'[l] ELSE <<>>) = Tail(b)
    <3>1. CASE Len(b) > 1
      BY <1>2, <1>6, <3>1
    <3>2. CASE ~(Len(b) > 1)
      BY <1>1, <1>3, <1>4, <1>6, <3>2, OtherPort
    <3> QED  BY <3>1, <3>2
  <2>3. Line(p)' = Tail(b) \o r
    BY <1>5, <2>2
  <2>. HIDE DEF r, t
  <2>4. 1 \in 1..Len(b \o r) /\ (b \o r)[1] = Head(b) /\ Facts!RemoveAt(b \o r, 1) = Tail(b) \o r
    BY <1>1, Facts!RemoveHead
  <2>5. b \o r \in Seq(Mbufs)
    BY <1>1, ConcatProperties
  <2>. DEFINE u == b \o r
              w == t \o u
              i == Len(t) + 1
  <2>6. u \in Seq(Mbufs) /\ 1 \in 1..Len(u) /\ u = Line(p) /\ Facts!RemoveAt(u, 1) = Line(p)'
    BY <2>1, <2>3, <2>4, <2>5
  <2>. HIDE DEF u
  <2>7. i \in 1..Len(w) /\ w[i] = u[1] /\ Facts!RemoveAt(w, i) = t \o Facts!RemoveAt(u, 1)
    <3>1. t \in Seq(Mbufs) /\ u \in Seq(Mbufs) /\ 1 \in 1..Len(u)
      BY <1>1, <2>6
    <3> QED  BY <3>1, Facts!RemoveAtBehind
  <2>8. w \in Seq(Mbufs) /\ NoRepeat(w)
    BY <1>1, <2>6, ConcatProperties
  <2>9. Elsewhere(p) = Gone(w) /\ Elsewhere(p)' = Gone(Facts!RemoveAt(w, i))
    BY <1>1, <2>6, <2>7, ElsewhereIs DEF t
  <2>. HIDE DEF w, i
  <2>10. Gone(Facts!RemoveAt(w, i)) = Gone(w) \cup {w[i]}
    BY <2>7, <2>8, GoneRemove
  <2>11. Elsewhere(p)' = Elsewhere(p) \cup {Line(p)[1]}
    BY <2>6, <2>7, <2>9, <2>10
  <2>12. 1 \in 1..Len(Line(p)) /\ Line(p)' = Facts!RemoveAt(Line(p), 1) /\ UNCHANGED txq[1 - p]
    BY <1>1, <2>6
  <2> QED  BY <2>11, <2>12 DEF Moves, Drops
<1>7. CASE port[l] # p
  <2>1. (IF port'[l] = p THEN bufs'[l] ELSE <<>>) = <<>>
    <3>1. CASE Len(b) > 1
      BY <1>2, <1>7, <3>1
    <3>2. CASE ~(Len(b) > 1)
      BY <1>2, <1>4, <3>2
    <3> QED  BY <3>1, <3>2
  <2>2. UNCHANGED Line(p)
    BY <1>5, <1>7, <2>1, SoleFacts
  <2> QED  BY <1>1, <2>2, StaysIf
<1> QED
  BY <1>6, <1>7

-----------------------------------------------------------------------------
\* If only one lcore runs after a step, the one that took it runs alone.
LEMMA SoleOne ==
    ASSUME NEW f, NEW l \in Lcores, f[l] # "off", Cardinality({k \in Lcores : f[k] # "off"}) <= 1
    PROVE  \A k \in Lcores \ {l} : f[k] = "off"
<1>. DEFINE S == {k \in Lcores : f[k] # "off"}
<1>1. IsFiniteSet(S) /\ Cardinality(S) <= 1 /\ l \in S
  BY SizeAssumption, FS_Subset
<1>2. ASSUME NEW k \in Lcores \ {l}, f[k] # "off" PROVE FALSE
  <2>1. k \in S
    BY <1>2
  <2>. HIDE DEF S
  <2>2. IsFiniteSet({k}) /\ Cardinality({k}) = 1 /\ l \notin {k}
    BY <1>2, FS_Singleton
  <2>3. Cardinality({k} \cup {l}) = 1 + 1
    BY <2>2, FS_AddElement
  <2>4. Cardinality({k} \cup {l}) <= Cardinality(S) /\ Cardinality(S) \in Nat
    BY <1>1, <2>1, FS_Subset, FS_CardinalityType
  <2> QED  BY <1>1, <2>3, <2>4
<1> QED
  BY <1>2

LEMMA SoleAfter ==
    ASSUME OneLcore', NEW l \in Lcores, pc'[l] # "off"
    PROVE  \A k \in Lcores \ {l} : pc'[k] = "off"
<1>. DEFINE f == pc'
<1>1. f[l] # "off" /\ Cardinality({k \in Lcores : f[k] # "off"}) <= 1
  BY DEF OneLcore
<1>. HIDE DEF f
<1>2. \A k \in Lcores \ {l} : f[k] = "off"
  BY <1>1, SoleOne
<1> QED
  BY <1>2 DEF f

LEMMA NotRacedAlone ==
    ASSUME OneLcore', Alone'
    PROVE  ~raced'
<1>1. SUFFICES ASSUME raced' PROVE FALSE
  OBVIOUS
<1>2. PICK j \in Lcores, k \in Lcores : j # k /\ pc'[j] # "off" /\ pc'[k] # "off"
  BY <1>1 DEF Alone
<1> QED
  BY <1>2, SoleAfter

LEMMA MovesStep ==
    ASSUME IndInv, Alone, [Next]_vars, OneLcore', NEW p \in Ports
    PROVE  Moves(p)
<1>1. IndInv' /\ Alone'
  BY StepInv, AloneStep
<1>2. ~raced' /\ ~raced
  <2>1. ~raced'
    BY <1>1, NotRacedAlone
  <2>2. raced => raced'
    BY DEF Next, Loop, vars, PortInit, Launch, NicReceive, RxNone, RxEnter, RxEnd, TxEnter, Reclaim, TxEnd,
           Free, Enter
  <2> QED  BY <2>1, <2>2
<1>3. CASE UNCHANGED <<rxq, txq, port, bufs>>
  <2>1. UNCHANGED <<Line(p), txq[1 - p]>>
    BY <1>3 DEF Line
  <2> QED  BY <2>1, StaysIf
<1>4. ASSUME NEW q \in Ports, NEW m \in Mbufs, NicReceive(q, m) PROVE Moves(p)
  BY <1>2, <1>4, MovesArrive
<1>5. ASSUME NEW l \in Lcores, Loop(l) PROVE Moves(p)
  <2>1. /\ pc'[l] # "off" /\ \A k \in Lcores \ {l} : pc'[k] = pc[k]
    BY <1>5 DEF IndInv, Types, Loop, RxNone, RxEnter, RxEnd, TxEnter, Reclaim, TxEnd, Free, Enter, Goto
  <2>2. Sole(l)
    BY <2>1, SoleAfter DEF Sole
  <2>3. Given(l, p)
    BY <1>1, <1>2, <2>2 DEF Given
  <2> QED
    BY <1>5, <2>3, MovesNot, MovesRxEnd, MovesReclaim, MovesTxEnd, MovesFree DEF Loop
<1> QED
  BY <1>3, <1>4, <1>5 DEF Next, PortInit, Launch, vars

\* With one lcore, the packets of each direction pass through a queue that
\* loses some: what comes in at one port leaves by the other, in its order and
\* once, or is freed (main.c:79-98), for every length of burst and of queue.
THEOREM ForwardsInOrder == Spec => Forwards
<1>1. IndInv /\ Alone /\ [Next]_vars
        => (OneLcore' => /\ From0!Next \/ UNCHANGED From0!vars
                         /\ From1!Next \/ UNCHANGED From1!vars)
  <2>1. 0 \in Ports /\ 1 \in Ports
    BY DEF Ports
  <2> QED  BY <2>1, MovesStep, MovesAre
<1> QED
  BY <1>1, InitInv, StepInv, AloneInit, AloneStep, PTL DEF Spec, Forwards
=============================================================================
