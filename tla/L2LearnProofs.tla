---------------------------- MODULE L2LearnProofs ----------------------------
(* Frames of L2Learn reach hosts that stayed, for every number of lcores,   *)
(* hosts, table entries and moves.                                          *)
EXTENDS L2Learn, FiniteSetTheorems, SequenceTheorems, TLAPS

\* Only a host that has moved is believed to be, or heard, behind a port that
\* it is not behind.
Belongs(f, p) == ~Moved(f.src) => at[f.src] = p
QueuesKnown == \A p \in Ports : \A i \in 1..Len(rxq[p]) : Belongs(rxq[p][i], p)
BurstsKnown == \A l \in Lcores : \A i \in 1..Len(buff[l]) : Belongs(buff[l][i], port[l])
TableKnown == \A m \in Macs : ~Moved(m) => l2_hash[m] \in {None, at[m]}

\* An lcore has a burst exactly while it is busy with it, and only while main
\* waits for it.
Busy(l) == pc[l] \in {"learn", "add", "lookup"}
HoldsBurst == \A l \in Lcores : Busy(l) <=> buff[l] # <<>>
OnlyWhileRunning == main # "run" => \A l \in Lcores : pc[l] \in {"off", "done"}

IndInv ==
    /\ TypeOK /\ IsFiniteSet(Learned)
    /\ HoldsBurst /\ OnlyWhileRunning
    /\ QueuesKnown /\ BurstsKnown /\ TableKnown

LEMMA Sizes == /\ HashEntries \in Nat \ {0} /\ Burst \in Nat \ {0}
               /\ RxDesc \in Nat \ {0} /\ MaxMoves \in Nat
BY SizeAssumption

LEMMA FrameParts == \A f \in Frames : f.src \in Macs /\ f.dst \in Macs
BY DEF Frames

LEMMA TailParts ==
    ASSUME NEW S, NEW s \in Seq(S), s # <<>>
    PROVE  /\ Head(s) \in S /\ Head(s) = s[1] /\ Tail(s) \in Seq(S) /\ Len(Tail(s)) = Len(s) - 1
           /\ Len(s) \in Nat \ {0} /\ (Tail(s) = <<>> <=> Len(s) = 1)
           /\ \A i \in 1..Len(Tail(s)) : Tail(s)[i] = s[i + 1]
<1>1. /\ Head(s) \in S /\ Head(s) = s[1] /\ Tail(s) \in Seq(S) /\ Len(Tail(s)) = Len(s) - 1
      /\ Len(s) \in Nat \ {0}
      /\ \A i \in 1..Len(Tail(s)) : Tail(s)[i] = s[i + 1]
  OBVIOUS
<1>2. Tail(s) = <<>> <=> Len(Tail(s)) = 0
  BY <1>1, EmptySeq
<1>. QED  BY <1>1, <1>2

LEMMA CutParts ==
    ASSUME NEW S, NEW s \in Seq(S), NEW n \in 1..Len(s)
    PROVE  /\ SubSeq(s, 1, n) \in Seq(S) /\ Len(SubSeq(s, 1, n)) = n
           /\ \A i \in 1..n : SubSeq(s, 1, n)[i] = s[i]
           /\ SubSeq(s, n + 1, Len(s)) \in Seq(S) /\ Len(SubSeq(s, n + 1, Len(s))) = Len(s) - n
           /\ \A i \in 1..(Len(s) - n) : SubSeq(s, n + 1, Len(s))[i] = s[n + i]
OBVIOUS

LEMMA IndInvInit == Init => IndInv
<1>. SUFFICES ASSUME Init PROVE IndInv
  OBVIOUS
<1>. USE Sizes DEF Init
<1>1. Learned = {}
  BY DEF Learned
<1>2. IsFiniteSet(Learned) /\ Cardinality(Learned) = 0
  BY <1>1, FS_EmptySet, Zenon
<1>3. TypeOK
  <2>1. <<>> \in Seq(Frames) /\ <<>> \in Seq(Macs) /\ Len(<<>>) = 0
    OBVIOUS
  <2>2. /\ rxq \in [Ports -> Seq(Frames)] /\ \A p \in Ports : Len(rxq[p]) <= RxDesc
        /\ buff \in [Lcores -> Seq(Frames)] /\ \A l \in Lcores : Len(buff[l]) <= Burst
    BY <2>1
  <2>3. /\ l2_hash \in [Macs -> Ports \cup {None}] /\ Cardinality(Learned) <= HashEntries
        /\ pc \in [Lcores -> Labels] /\ port \in [Lcores -> Ports]
    BY <1>2 DEF Ports, Labels
  <2>4. /\ moved \in Seq(Macs) /\ Len(moved) <= MaxMoves
    BY <2>1
  <2>5. /\ main \in {"init", "run", "ended", "failed"} /\ up \subseteq Ports
        /\ force_quit \in BOOLEAN /\ at \in [Macs -> Ports]
    BY Zenon
  <2>. QED  BY <2>2, <2>3, <2>4, <2>5, Zenon DEF TypeOK
<1>. QED  BY <1>2, <1>3 DEF IndInv, HoldsBurst, Busy, OnlyWhileRunning, QueuesKnown, BurstsKnown, TableKnown

\* What the steps of main, of the signal handler and of the hosts preserve.
LEMMA MainInv == IndInv /\ (Main \/ Signal) => IndInv'
<1>. SUFFICES ASSUME IndInv, Main \/ Signal PROVE IndInv'
  OBVIOUS
<1>. USE DEF IndInv
<1>1. UNCHANGED <<l2_hash, rxq, port, buff, at, moved>>
  BY DEF Main, Signal, PortInit, Launch, FreeTable, lvars, hosts
<1>2. \/ pc' = pc /\ main' \in {main, "ended", "failed"} /\ (main' # "run" => \A l \in Lcores : pc[l] \in {"off", "done"})
      \/ /\ main = "init" /\ main' = "run"
         /\ pc' \in [Lcores -> {"off", "top"}]
  BY DEF Main, Signal, PortInit, Launch, FreeTable, lvars, OnlyWhileRunning
<1>3. up' \subseteq Ports /\ force_quit' \in BOOLEAN
  BY DEF Main, Signal, PortInit, Launch, FreeTable, TypeOK
<1>4. TypeOK' /\ IsFiniteSet(Learned)'
  BY <1>1, <1>2, <1>3 DEF TypeOK, Learned, Labels
<1>5. HoldsBurst' /\ OnlyWhileRunning'
  BY <1>1, <1>2 DEF HoldsBurst, Busy, OnlyWhileRunning
<1>. QED  BY <1>1, <1>4, <1>5 DEF QueuesKnown, BurstsKnown, TableKnown, Belongs, Moved

LEMMA HostSendsInv ==
    ASSUME IndInv, NEW m \in Macs, NEW d \in Macs, HostSends(m, d) PROVE IndInv'
<1>. USE Sizes DEF IndInv
<1>. DEFINE f == [src |-> m, dst |-> d]
            p == at[m]
<1>1. f \in Frames /\ f.src = m /\ p \in Ports /\ rxq[p] \in Seq(Frames)
  BY DEF HostSends, Frames, TypeOK
<1>2. /\ rxq' = [rxq EXCEPT ![p] = Append(@, f)] /\ Len(rxq[p]) < RxDesc
      /\ UNCHANGED <<main, up, force_quit, l2_hash, pc, port, buff, at, moved>>
  BY DEF HostSends, lvars, hosts
<1>. HIDE DEF f, p
<1>3. /\ rxq'[p] \in Seq(Frames) /\ Len(rxq'[p]) = Len(rxq[p]) + 1
      /\ \A i \in 1..Len(rxq[p]) : rxq'[p][i] = rxq[p][i]
      /\ rxq'[p][Len(rxq[p]) + 1] = f
      /\ \A q \in Ports : q # p => rxq'[q] = rxq[q]
      /\ rxq' \in [Ports -> Seq(Frames)]
  BY <1>1, <1>2 DEF TypeOK
<1>4. TypeOK' /\ IsFiniteSet(Learned)'
  <2>1. \A q \in Ports : Len(rxq'[q]) <= RxDesc
    BY <1>1, <1>2, <1>3 DEF TypeOK
  <2>. QED  BY <1>2, <1>3, <2>1 DEF TypeOK, Learned
<1>5. QueuesKnown'
  <2>1. SUFFICES ASSUME NEW q \in Ports, NEW i \in 1..Len(rxq'[q]) PROVE Belongs(rxq'[q][i], q)
    BY <1>2 DEF QueuesKnown, Belongs, Moved
  <2>2. CASE q # p
    BY <1>3, <2>1, <2>2 DEF QueuesKnown
  <2>3. CASE q = p /\ i \in 1..Len(rxq[p])
    BY <1>3, <2>3 DEF QueuesKnown
  <2>4. CASE q = p /\ i = Len(rxq[p]) + 1
    BY <1>1, <1>3, <2>4 DEF Belongs, p
  <2>. QED  BY <1>1, <1>3, <2>1, <2>2, <2>3, <2>4
<1>. QED  BY <1>2, <1>4, <1>5 DEF HoldsBurst, Busy, OnlyWhileRunning, BurstsKnown, TableKnown, Belongs, Moved

LEMMA HostMovesInv == ASSUME IndInv, NEW m \in Macs, HostMoves(m) PROVE IndInv'
<1>. USE Sizes DEF IndInv
<1>1. /\ at' = [at EXCEPT ![m] = Other(@)] /\ moved' = Append(moved, m) /\ Len(moved) < MaxMoves
      /\ UNCHANGED <<main, up, force_quit, l2_hash, rxq, pc, port, buff>>
  BY DEF HostMoves, lvars
<1>2. at' \in [Macs -> Ports] /\ \A h \in Macs : h # m => at'[h] = at[h]
  <2>1. at \in [Macs -> Ports]
    BY DEF TypeOK
  <2>2. Other(at[m]) \in Ports
    BY <2>1 DEF Other, Ports
  <2>. QED  BY <1>1, <2>1, <2>2
<1>3. /\ moved' \in Seq(Macs) /\ Len(moved') = Len(moved) + 1
      /\ \A i \in 1..Len(moved) : moved'[i] = moved[i]
      /\ moved'[Len(moved) + 1] = m
  BY <1>1 DEF TypeOK
<1>4. TypeOK' /\ IsFiniteSet(Learned)'
  BY <1>1, <1>2, <1>3 DEF TypeOK, Learned
<1>5. \A h \in Macs : ~Moved(h)' => ~Moved(h) /\ at'[h] = at[h]
  <2>1. SUFFICES ASSUME NEW h \in Macs, ~Moved(h)' PROVE ~Moved(h) /\ h # m
    BY <1>2
  <2>2. moved \in Seq(Macs) /\ Len(moved) \in Nat
    BY DEF TypeOK
  <2>. QED  BY <1>3, <2>1, <2>2 DEF Moved
<1>6. \A f \in Frames, p \in Ports : Belongs(f, p) => Belongs(f, p)'
  BY <1>5, FrameParts DEF Belongs
<1>7. QueuesKnown'
  BY <1>1, <1>6 DEF QueuesKnown, TypeOK
<1>8. BurstsKnown'
  BY <1>1, <1>6 DEF BurstsKnown, TypeOK
<1>9. TableKnown'
  BY <1>1, <1>5 DEF TableKnown
<1>. QED  BY <1>1, <1>4, <1>7, <1>8, <1>9 DEF HoldsBurst, Busy, OnlyWhileRunning

-----------------------------------------------------------------------------
(* The steps of lcore l, which main waits for.                              *)

LEMMA Running == ASSUME IndInv, NEW l \in Lcores, Loop(l) PROVE main = "run"
<1>1. pc[l] \notin {"off", "done"}
  BY DEF Loop, Top, RxNone, Rx, LearnBegin, LearnEnd, Forward
<1>. QED  BY <1>1 DEF IndInv, OnlyWhileRunning

\* Where a step that neither touches the table nor receives leaves l.
LEMMA TurnInv ==
    ASSUME IndInv, NEW l \in Lcores, Loop(l),
           NEW label \in Labels, Goto(l, label),
           NEW p \in Ports, port' = [port EXCEPT ![l] = p],
           NEW b \in Seq(Frames), buff' = [buff EXCEPT ![l] = b], Len(b) <= Burst,
           label \in {"learn", "add", "lookup"} <=> b # <<>>,
           \A i \in 1..Len(b) : Belongs(b[i], p),
           UNCHANGED <<main, up, force_quit, l2_hash, rxq, hosts>>
    PROVE  IndInv'
<1>. USE DEF IndInv
<1>1. /\ pc' \in [Lcores -> Labels] /\ pc'[l] = label
      /\ port' \in [Lcores -> Ports] /\ port'[l] = p
      /\ buff' \in [Lcores -> Seq(Frames)] /\ buff'[l] = b
      /\ \A k \in Lcores : k # l => pc'[k] = pc[k] /\ port'[k] = port[k] /\ buff'[k] = buff[k]
  BY DEF Goto, TypeOK
<1>2. main' = "run"
  BY Running
<1>3. TypeOK' /\ IsFiniteSet(Learned)'
  BY <1>1 DEF TypeOK, Learned, hosts
<1>4. HoldsBurst' /\ OnlyWhileRunning'
  BY <1>1, <1>2 DEF HoldsBurst, Busy, OnlyWhileRunning
<1>5. BurstsKnown'
  BY <1>1 DEF BurstsKnown, Belongs, Moved, hosts
<1>. QED  BY <1>3, <1>4, <1>5 DEF QueuesKnown, TableKnown, Belongs, Moved, hosts

LEMMA PortParts == ASSUME IndInv, NEW l \in Lcores
                   PROVE  port[l] \in Ports /\ Other(port[l]) \in Ports
BY DEF IndInv, TypeOK, Other, Ports

\* A step that changes neither l's burst nor its port.
LEMMA GotoInv ==
    ASSUME IndInv, NEW l \in Lcores, Loop(l), NEW label \in Labels, Goto(l, label),
           label \in {"learn", "add", "lookup"} <=> Busy(l),
           UNCHANGED <<main, up, force_quit, l2_hash, rxq, port, buff, hosts>>
    PROVE  IndInv'
<1>1. port' = [port EXCEPT ![l] = port[l]] /\ buff' = [buff EXCEPT ![l] = buff[l]]
  BY DEF IndInv, TypeOK
<1>2. buff[l] \in Seq(Frames) /\ Len(buff[l]) <= Burst /\ (Busy(l) <=> buff[l] # <<>>)
  BY DEF IndInv, TypeOK, HoldsBurst
<1>3. \A i \in 1..Len(buff[l]) : Belongs(buff[l][i], port[l])
  BY DEF IndInv, BurstsKnown
<1>. QED  BY <1>1, <1>2, <1>3, PortParts, TurnInv

LEMMA RxNoneInv == ASSUME IndInv, NEW l \in Lcores, RxNone(l) PROVE IndInv'
<1>1. Loop(l) /\ buff[l] = <<>>
  BY DEF Loop, RxNone, IndInv, HoldsBurst, Busy
<1>2. /\ port' = [port EXCEPT ![l] = Other(port[l])]
      /\ \E label \in {"poll", "top"} : Goto(l, label)
      /\ UNCHANGED <<main, up, force_quit, l2_hash, rxq, hosts>>
      /\ buff' = [buff EXCEPT ![l] = <<>>]
  BY <1>1 DEF RxNone, NextPort, IndInv, TypeOK
<1>3. <<>> \in Seq(Frames) /\ Len(<<>>) <= Burst /\ 1..Len(<<>>) = {}
  BY Sizes
<1>4. PICK label \in {"poll", "top"} : Goto(l, label)
  BY <1>2
<1>5. label \in Labels /\ label \notin {"learn", "add", "lookup"}
  BY DEF Labels
<1>. QED  BY <1>1, <1>2, <1>3, <1>4, <1>5, PortParts, TurnInv

LEMMA ForwardInv == ASSUME IndInv, NEW l \in Lcores, Forward(l) PROVE IndInv'
<1>. DEFINE s == buff[l]
<1>1. Loop(l) /\ s \in Seq(Frames) /\ s # <<>> /\ Len(s) <= Burst
  BY DEF Loop, Forward, IndInv, HoldsBurst, Busy, TypeOK
<1>2. /\ Tail(s) \in Seq(Frames) /\ Len(Tail(s)) = Len(s) - 1 /\ Len(s) \in Nat \ {0}
      /\ \A i \in 1..Len(Tail(s)) : Tail(s)[i] = s[i + 1]
      /\ Tail(s) = <<>> <=> Len(s) = 1
  BY <1>1, TailParts
<1>3. /\ buff' = [buff EXCEPT ![l] = Tail(s)]
      /\ UNCHANGED <<main, up, force_quit, l2_hash, rxq, hosts>>
  BY DEF Forward
<1>4. Len(Tail(s)) <= Burst
  BY <1>1, <1>2, Sizes
<1>5. CASE Len(s) > 1
  <2>1. Goto(l, "learn") /\ port' = [port EXCEPT ![l] = port[l]] /\ Tail(s) # <<>>
    <3>1. Goto(l, "learn") /\ port' = port
      BY <1>5 DEF Forward
    <3>2. port = [port EXCEPT ![l] = port[l]]
      BY DEF IndInv, TypeOK
    <3>3. Len(s) # 1
      <4>1. Len(s) \in Nat
        BY <1>2
      <4>2. \A n \in Nat : n > 1 => n # 1
        OBVIOUS
      <4>. QED  BY <1>5, <4>1, <4>2, Zenon
    <3>4. Tail(s) # <<>>
      BY <1>2, <3>3, Zenon
    <3>. QED  BY <3>1, <3>2, <3>4
  <2>2. \A i \in 1..Len(Tail(s)) : Belongs(Tail(s)[i], port[l])
    BY <1>2 DEF IndInv, BurstsKnown
  <2>. QED  BY <1>1, <1>2, <1>3, <1>4, <2>1, <2>2, PortParts, TurnInv DEF Labels
<1>6. CASE ~(Len(s) > 1)
  <2>1. /\ port' = [port EXCEPT ![l] = Other(port[l])]
        /\ \E label \in {"poll", "top"} : Goto(l, label)
    BY <1>6 DEF Forward, NextPort
  <2>2. Len(Tail(s)) = 0 /\ Tail(s) = <<>>
    BY <1>2, <1>6
  <2>3. \A i \in 1..Len(Tail(s)) : Belongs(Tail(s)[i], Other(port[l]))
    BY <2>2
  <2>4. PICK label \in {"poll", "top"} : Goto(l, label)
    BY <2>1
  <2>5. label \in Labels /\ label \notin {"learn", "add", "lookup"}
    BY DEF Labels
  <2>. QED  BY <1>1, <1>2, <1>3, <1>4, <2>1, <2>2, <2>3, <2>4, <2>5, PortParts, TurnInv
<1>. QED  BY <1>5, <1>6

LEMMA RxInv == ASSUME IndInv, NEW l \in Lcores, Rx(l) PROVE IndInv'
<1>. USE Sizes DEF IndInv
<1>. DEFINE p == port[l]
            q == rxq[p]
<1>1. /\ Loop(l) /\ p \in Ports /\ q \in Seq(Frames) /\ Len(q) <= RxDesc
      /\ UNCHANGED <<main, up, force_quit, l2_hash, port, hosts>>
      /\ Goto(l, "learn")
  BY DEF Loop, Rx, TypeOK
<1>2. PICK n \in 1..Lesser(Burst, Len(q)) :
         /\ buff' = [buff EXCEPT ![l] = SubSeq(q, 1, n)]
         /\ rxq' = [rxq EXCEPT ![p] = SubSeq(q, n + 1, Len(q))]
  BY DEF Rx
<1>3. n \in 1..Len(q) /\ n <= Burst /\ Len(q) \in Nat
  <2>1. Len(q) \in Nat
    BY <1>1
  <2>. QED  BY <1>2, <2>1 DEF Lesser
<1>. HIDE DEF q, p
<1>4. /\ buff' \in [Lcores -> Seq(Frames)] /\ Len(buff'[l]) = n
      /\ \A i \in 1..n : buff'[l][i] = q[i]
      /\ \A k \in Lcores : k # l => buff'[k] = buff[k]
  BY <1>1, <1>2, <1>3, CutParts DEF TypeOK
<1>5. /\ rxq' \in [Ports -> Seq(Frames)] /\ Len(rxq'[p]) = Len(q) - n
      /\ \A i \in 1..(Len(q) - n) : rxq'[p][i] = q[n + i]
      /\ \A r \in Ports : r # p => rxq'[r] = rxq[r]
  BY <1>1, <1>2, <1>3, CutParts DEF TypeOK
<1>6. /\ pc' \in [Lcores -> Labels] /\ pc'[l] = "learn"
      /\ \A k \in Lcores : k # l => pc'[k] = pc[k]
  BY <1>1 DEF Goto, TypeOK, Labels
<1>7. main' = "run"
  BY <1>1, Running
<1>8. TypeOK' /\ IsFiniteSet(Learned)'
  <2>1. \A r \in Ports : Len(rxq'[r]) <= RxDesc
    <3>1. Len(rxq'[p]) <= RxDesc
      BY <1>1, <1>3, <1>5
    <3>. QED  BY <1>5, <3>1 DEF TypeOK
  <2>2. \A k \in Lcores : Len(buff'[k]) <= Burst
    BY <1>3, <1>4 DEF TypeOK
  <2>. QED  BY <1>1, <1>4, <1>5, <1>6, <2>1, <2>2 DEF TypeOK, Learned, hosts
<1>9. HoldsBurst' /\ OnlyWhileRunning'
  <2>1. buff'[l] # <<>>
    BY <1>3, <1>4
  <2>. QED  BY <1>4, <1>6, <1>7, <2>1 DEF HoldsBurst, Busy, OnlyWhileRunning
<1>10. \A i \in 1..Len(q) : Belongs(q[i], p)
  BY <1>1 DEF QueuesKnown, q
<1>11. QueuesKnown'
  <2>1. SUFFICES ASSUME NEW r \in Ports, NEW i \in 1..Len(rxq'[r]) PROVE Belongs(rxq'[r][i], r)
    BY <1>1 DEF QueuesKnown, Belongs, Moved, hosts
  <2>2. CASE r = p
    <3>1. n + i \in 1..Len(q) /\ i \in 1..(Len(q) - n)
      BY <1>3, <1>5, <2>1, <2>2
    <3>. QED  BY <1>5, <1>10, <2>2, <3>1
  <2>3. CASE r # p
    BY <1>5, <2>1, <2>3 DEF QueuesKnown
  <2>. QED  BY <2>2, <2>3
<1>12. BurstsKnown'
  <2>1. SUFFICES ASSUME NEW k \in Lcores, NEW i \in 1..Len(buff'[k]) PROVE Belongs(buff'[k][i], port[k])
    BY <1>1 DEF BurstsKnown, Belongs, Moved, hosts
  <2>2. CASE k = l
    <3>1. i \in 1..Len(q) /\ i \in 1..n
      BY <1>3, <1>4, <2>1, <2>2
    <3>. QED  BY <1>4, <1>10, <2>2, <3>1 DEF p
  <2>3. CASE k # l
    BY <1>4, <2>1, <2>3 DEF BurstsKnown
  <2>. QED  BY <2>2, <2>3
<1>. QED  BY <1>1, <1>8, <1>9, <1>11, <1>12 DEF TableKnown, Moved, hosts

\* What l learns of the source of its frame is right, unless the host moved.
LEMMA LearnEndInv == ASSUME IndInv, NEW l \in Lcores, LearnEnd(l) PROVE IndInv'
<1>. USE Sizes DEF IndInv
<1>. DEFINE m == Head(buff[l]).src
            p == port[l]
<1>1. /\ Loop(l) /\ Busy(l) /\ Goto(l, "lookup")
      /\ UNCHANGED <<main, up, force_quit, rxq, port, buff, hosts>>
  BY DEF Loop, LearnEnd, Busy
<1>2. CASE l2_hash' = l2_hash
  BY <1>1, <1>2, GotoInv DEF Labels
<1>3. CASE l2_hash' = AddKeyData(m, p) /\ l2_hash' # l2_hash
  <2>1. buff[l] \in Seq(Frames) /\ buff[l] # <<>>
    BY <1>1 DEF TypeOK, HoldsBurst
  <2>2. Head(buff[l]) \in Frames /\ Head(buff[l]) = buff[l][1] /\ 1 \in 1..Len(buff[l])
    BY <2>1, TailParts
  <2>3. m \in Macs /\ p \in Ports
    BY <2>2, FrameParts, PortParts
  <2>4. ~Moved(m) => at[m] = p
    BY <2>2 DEF BurstsKnown, Belongs
  <2>. HIDE DEF m, p
  <2>5. /\ HasRoom(m) /\ l2_hash' = [l2_hash EXCEPT ![m] = p]
        /\ l2_hash' \in [Macs -> Ports \cup {None}] /\ l2_hash'[m] = p
        /\ \A h \in Macs : h # m => l2_hash'[h] = l2_hash[h]
    BY <1>3, <2>3 DEF AddKeyData, TypeOK
  <2>6. IsFiniteSet(Learned') /\ Cardinality(Learned') <= HashEntries
    <3>1. IsFiniteSet(Learned) /\ Cardinality(Learned) \in Nat /\ Cardinality(Learned) <= HashEntries
      BY FS_CardinalityType DEF TypeOK
    <3>2. CASE p = None
      <4>1. Learned' = Learned \ {m}
        BY <2>3, <2>5, <3>2 DEF Learned
      <4>2. IsFiniteSet(Learned') /\ Cardinality(Learned') <= Cardinality(Learned)
               /\ Cardinality(Learned') \in Nat
        BY <3>1, <4>1, FS_Subset, FS_CardinalityType
      <4>. QED  BY <3>1, <4>2
    <3>3. CASE p # None /\ m \in Learned
      <4>1. Learned' = Learned
        BY <2>5, <3>3 DEF Learned
      <4>. QED  BY <3>1, <4>1
    <3>4. CASE p # None /\ m \notin Learned
      <4>1. Learned' = Learned \cup {m}
        BY <2>3, <2>5, <3>4 DEF Learned
      <4>2. Cardinality(Learned) < HashEntries
        BY <2>5, <3>4 DEF HasRoom
      <4>3. IsFiniteSet(Learned') /\ Cardinality(Learned') = Cardinality(Learned) + 1
        BY <3>1, <3>4, <4>1, FS_AddElement
      <4>. QED  BY <3>1, <4>2, <4>3
    <3>. QED  BY <3>2, <3>3, <3>4
  <2>7. /\ pc' \in [Lcores -> Labels] /\ pc'[l] = "lookup"
        /\ \A k \in Lcores : k # l => pc'[k] = pc[k]
    BY <1>1 DEF Goto, TypeOK, Labels
  <2>8. TypeOK'
    BY <1>1, <2>5, <2>6, <2>7 DEF TypeOK, hosts
  <2>9. HoldsBurst' /\ OnlyWhileRunning'
    <3>1. main' = "run"
      BY <1>1, Running
    <3>. QED  BY <1>1, <2>7, <3>1 DEF HoldsBurst, Busy, OnlyWhileRunning
  <2>10. TableKnown'
    BY <1>1, <2>4, <2>5 DEF TableKnown, Moved, hosts
  <2>. QED  BY <1>1, <2>6, <2>8, <2>9, <2>10 DEF QueuesKnown, BurstsKnown, Belongs, Moved, hosts
<1>. QED  BY <1>2, <1>3 DEF LearnEnd

LEMMA IndInvNext == IndInv /\ [Next]_vars => IndInv'
<1>. SUFFICES ASSUME IndInv, [Next]_vars PROVE IndInv'
  OBVIOUS
<1>1. CASE UNCHANGED vars
  <2>. USE <1>1 DEF vars, lvars, hosts, IndInv
  <2>1. TypeOK' /\ IsFiniteSet(Learned)'
    BY DEF TypeOK, Learned
  <2>2. HoldsBurst' /\ OnlyWhileRunning'
    BY DEF HoldsBurst, Busy, OnlyWhileRunning
  <2>3. QueuesKnown' /\ BurstsKnown' /\ TableKnown'
    BY DEF QueuesKnown, BurstsKnown, TableKnown, Belongs, Moved
  <2>. QED  BY <2>1, <2>2, <2>3
<1>2. ASSUME NEW l \in Lcores, Loop(l) PROVE IndInv'
  <2>1. CASE Top(l)
    BY <1>2, <2>1, GotoInv DEF Top, Busy, Labels
  <2>2. CASE LearnBegin(l)
    BY <1>2, <2>2, GotoInv DEF LearnBegin, Busy, Labels
  <2>. QED  BY <1>2, <2>1, <2>2, RxNoneInv, RxInv, LearnEndInv, ForwardInv DEF Loop
<1>. QED  BY <1>1, <1>2, MainInv, HostSendsInv, HostMovesInv DEF Next

LEMMA Invariant == Spec => []IndInv
<1>. QED  BY IndInvInit, IndInvNext, PTL DEF Spec

\* With any number of lcores that write the table at once, entries they lose
\* and a table of any size, no frame for a host that stayed is sent astray.
THEOREM StayersAreReached == Spec => []ReachesWhoStayed
<1>1. IndInv => ReachesWhoStayed
  <2>1. SUFFICES ASSUME IndInv, NEW l \in Lcores, pc[l] = "lookup",
                        ~Moved(Head(buff[l]).dst), at[Head(buff[l]).dst] # port[l]
                 PROVE  OutPorts(l) = {at[Head(buff[l]).dst]}
    BY DEF ReachesWhoStayed, IndInv
  <2>. DEFINE d == Head(buff[l]).dst
  <2>2. buff[l] \in Seq(Frames) /\ buff[l] # <<>>
    BY <2>1 DEF IndInv, TypeOK, HoldsBurst, Busy
  <2>3. d \in Macs
    BY <2>2, TailParts, FrameParts
  <2>4. at[d] \in Ports /\ port[l] \in Ports /\ Other(port[l]) = at[d]
    BY <2>1, <2>3 DEF IndInv, TypeOK, Other, Ports
  <2>5. l2_hash[d] \in {None, at[d]}
    BY <2>1, <2>3 DEF IndInv, TableKnown
  <2>6. Lookups(d, l) \subseteq {None, at[d]} /\ Lookups(d, l) # {}
    BY <2>5 DEF Lookups
  <2>. QED  BY <2>4, <2>6 DEF OutPorts
<1>. QED  BY <1>1, Invariant, PTL
=============================================================================
