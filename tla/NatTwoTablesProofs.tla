------------------------- MODULE NatTwoTablesProofs -------------------------
(* The two tables of NatTwoTables stay sound, and replies find their flow,  *)
(* for every number of flows, entries, ports and paddings.                  *)
EXTENDS NatTwoTables, TLAPS

\* A flow used within the timeout has an entry in memory, though not always the
\* one fwd_table leads to, whose timer was restarted by its last packet.
Restarted(f, b) == b \in heap /\ fwd[b] = f /\ timer[b] + silent[f] >= Timeout
Aging == \A f \in Flows : silent[f] < Timeout => \E b \in Entries : Restarted(f, b)

IndInv == TypeOK /\ TimersInLiveEntries /\ TablesSound /\ RoundTrip /\ Aging

LEMMA Constants ==
    /\ None \notin Entries /\ 0 \in Padding
    /\ PortSpace \in Nat \ {0} /\ HashEntries \in Nat \ {0} /\ Timeout \in Nat \ {0}
    /\ FirstPort \in Ports /\ Off = Timeout + 1
BY ConstantsAssumption DEF Off, Ports

LEMMA RevKey == \A p \in Ports, c \in Padding : /\ <<p, c>> \in RevKeys
                                               /\ <<p, c>>[1] = p /\ <<p, c>>[2] = c
BY DEF RevKeys

LEMMA RevKeyParts == \A r \in RevKeys : /\ r[1] \in Ports /\ r[2] \in Padding
                                        /\ r = <<r[1], r[2]>>
BY DEF RevKeys

LEMMA IndInvInit == Init => IndInv
<1>. SUFFICES ASSUME Init PROVE IndInv
  OBVIOUS
<1>. USE Constants DEF Init
<1>1. heap = {} /\ Armed = {} /\ MappedFlows = {} /\ MappedRevKeys = {}
  BY DEF Armed, MappedFlows, MappedRevKeys
<1>2. TypeOK
  <2>1. <<FirstPort, 0>> \in RevKeys
    BY RevKey
  <2>2. timer \in [Entries -> 0..Off] /\ silent \in [Flows -> 0..Timeout]
    <3>1. Off \in 0..Off /\ Timeout \in 0..Timeout
      OBVIOUS
    <3>. QED  BY <3>1
  <2>. QED  BY <2>1, <2>2 DEF TypeOK
<1>3. Aging
  BY DEF Aging
<1>. QED  BY <1>1, <1>2, <1>3 DEF IndInv, TimersInLiveEntries, TablesSound, RoundTrip

LEMMA TickInv == IndInv /\ Tick => IndInv'
<1>. SUFFICES ASSUME IndInv, Tick PROVE IndInv'
  OBVIOUS
<1>. USE Constants DEF IndInv
<1>1. \A a \in Entries : timer'[a] = IF timer[a] \in {0, Off} THEN timer[a] ELSE timer[a] - 1
  BY DEF Tick
<1>2. \A f \in Flows : silent'[f] = IF silent[f] = Timeout THEN Timeout ELSE silent[f] + 1
  BY DEF Tick
<1>3. TypeOK'
  <2>1. timer' \in [Entries -> 0..Off]
    BY DEF Tick, TypeOK
  <2>2. silent' \in [Flows -> 0..Timeout]
    BY DEF Tick, TypeOK
  <2>3. clean' \in BOOLEAN
    BY Zenon DEF Tick, TypeOK
  <2>. QED  BY <2>1, <2>2, <2>3 DEF Tick, tables, TypeOK
<1>4. Armed' = Armed
  BY <1>1 DEF Armed, TypeOK
<1>5. TimersInLiveEntries' /\ TablesSound' /\ RoundTrip'
  BY <1>4 DEF Tick, tables, TimersInLiveEntries, TablesSound, RoundTrip, MappedFlows, MappedRevKeys
<1>6. Aging'
  <2>1. SUFFICES ASSUME NEW f \in Flows, silent'[f] < Timeout
                 PROVE  \E b \in Entries : Restarted(f, b)'
    BY DEF Aging
  <2>2. silent[f] \in 0..Timeout /\ silent'[f] = silent[f] + 1 /\ silent[f] < Timeout
    BY <1>2, <2>1 DEF TypeOK
  <2>3. PICK b \in Entries : Restarted(f, b)
    BY <2>2 DEF Aging
  <2>4. timer[b] \in 0..Timeout
    BY <2>3 DEF Restarted, TypeOK, TimersInLiveEntries, Armed
  <2>5. timer'[b] = IF timer[b] = 0 THEN 0 ELSE timer[b] - 1
    BY <1>1, <2>4
  <2>6. timer'[b] + silent'[f] >= Timeout
    BY <2>2, <2>3, <2>4, <2>5 DEF Restarted
  <2>. QED  BY <2>3, <2>6 DEF Restarted, Tick
<1>. QED  BY <1>3, <1>5, <1>6

\* A packet of the flow of entry a, found in memory, refreshes it.
LEMMA HitInv ==
    ASSUME IndInv, NEW a \in heap, RefreshTimer(a), Used(fwd[a]),
           UNCHANGED <<tables, heap, fwd, rev, next_port, clean>>
    PROVE  IndInv'
<1>. USE Constants DEF IndInv
<1>1. /\ a \in Entries /\ fwd[a] \in Flows
      /\ timer' \in [Entries -> 0..Off] /\ timer'[a] = Timeout
      /\ \A b \in Entries : b # a => timer'[b] = timer[b]
  BY DEF RefreshTimer, TypeOK
<1>2. /\ silent' \in [Flows -> 0..Timeout]
      /\ \A f \in Flows : f # fwd[a] => silent'[f] = silent[f]
  BY DEF Used, TypeOK
<1>3. TypeOK'
  <2>1. clean' \in BOOLEAN
    BY Zenon DEF TypeOK
  <2>. QED  BY <1>1, <1>2, <2>1 DEF tables, TypeOK
<1>4. Armed' = Armed
  BY <1>1 DEF Armed, TimersInLiveEntries
<1>5. TimersInLiveEntries' /\ TablesSound' /\ RoundTrip'
  BY <1>4 DEF tables, TimersInLiveEntries, TablesSound, RoundTrip, MappedFlows, MappedRevKeys
<1>6. Aging'
  <2>1. SUFFICES ASSUME NEW f \in Flows, silent'[f] < Timeout
                 PROVE  \E b \in Entries : Restarted(f, b)'
    BY DEF Aging
  <2>2. CASE f = fwd[a]
    <3>1. silent'[f] = 0
      BY <2>2 DEF Used, TypeOK
    <3>2. Restarted(f, a)'
      BY <1>1, <2>2, <3>1 DEF Restarted
    <3>. QED  BY <1>1, <3>2
  <2>3. CASE f # fwd[a]
    <3>1. silent'[f] = silent[f]
      BY <1>2, <2>3
    <3>2. PICK b \in Entries : Restarted(f, b)
      BY <2>1, <3>1 DEF Aging
    <3>3. b # a
      BY <2>3, <3>2 DEF Restarted
    <3>4. Restarted(f, b)'
      BY <1>1, <3>1, <3>2, <3>3 DEF Restarted
    <3>. QED  BY <3>4
  <2>. QED  BY <2>2, <2>3
<1>. QED  BY <1>3, <1>5, <1>6

LEMMA EgressHitInv == ASSUME IndInv, NEW f \in Flows, EgressHit(f) PROVE IndInv'
<1>1. fwd_table[f] \in heap /\ fwd[fwd_table[f]] = f
  BY DEF IndInv, TablesSound, MappedFlows, EgressHit
<1>. QED  BY <1>1, HitInv DEF EgressHit

LEMMA IngressInv == ASSUME IndInv, NEW p \in Ports, Ingress(p) PROVE IndInv'
<1>1. <<p, 0>> \in RevKeys
  BY RevKey, Constants
<1>2. rev_table[<<p, 0>>] \in heap
  BY <1>1 DEF IndInv, TablesSound, MappedRevKeys, Ingress
<1>. QED  BY <1>2, HitInv DEF Ingress

LEMMA EgressNewInv ==
    ASSUME IndInv, NEW f \in Flows, NEW a \in Entries, NEW padding \in Padding,
           EgressNew(f, a, padding)
    PROVE  IndInv'
<1>. USE Constants DEF IndInv
<1>. DEFINE r == <<next_port, padding>>
<1>1. r \in RevKeys /\ next_port \in Ports /\ r[1] = next_port
  BY RevKey DEF TypeOK
<1>2. a \notin heap /\ heap' = heap \cup {a} /\ fwd_table[f] = None
  BY DEF EgressNew
<1>3. /\ fwd' \in [Entries -> Flows] /\ fwd'[a] = f
      /\ \A b \in Entries : b # a => fwd'[b] = fwd[b]
  BY DEF EgressNew, TypeOK
<1>4. /\ rev' \in [Entries -> RevKeys] /\ rev'[a] = r
      /\ \A b \in Entries : b # a => rev'[b] = rev[b]
  BY <1>1 DEF EgressNew, TypeOK
<1>5. /\ fwd_table' \in [Flows -> Entries \cup {None}]
      /\ \A g \in Flows : g # f => fwd_table'[g] = fwd_table[g]
      /\ fwd_table'[f] \in {a, fwd_table[f]}
      /\ HasRoom(MappedFlows, f) => fwd_table'[f] = a
  <2>1. fwd_table \in [Flows -> Entries \cup {None}]
    BY DEF TypeOK
  <2>2. fwd_table' = With(fwd_table, MappedFlows, f, a)
    BY DEF EgressNew
  <2>. QED  BY <2>1, <2>2 DEF With
<1>6. /\ rev_table' \in [RevKeys -> Entries \cup {None}]
      /\ \A s \in RevKeys : s # r => rev_table'[s] = rev_table[s]
      /\ rev_table'[r] \in {a, rev_table[r]}
      /\ HasRoom(MappedRevKeys, r) => rev_table'[r] = a
  <2>1. rev_table \in [RevKeys -> Entries \cup {None}]
    BY DEF TypeOK
  <2>2. rev_table' = With(rev_table, MappedRevKeys, r, a)
    BY DEF EgressNew, NewRevKey
  <2>. QED  BY <1>1, <2>1, <2>2 DEF With
<1>7. /\ timer' \in [Entries -> 0..Off] /\ timer'[a] = Timeout
      /\ \A b \in Entries : b # a => timer'[b] = timer[b]
  BY DEF EgressNew, RefreshTimer, TypeOK
<1>8. /\ silent' \in [Flows -> 0..Timeout]
      /\ \A g \in Flows : g # f => silent'[g] = silent[g]
  BY DEF EgressNew, Used, TypeOK
<1>9. TypeOK'
  <2>1. clean' \in BOOLEAN
    BY SMT DEF EgressNew
  <2>2. next_port' \in Ports
    BY <1>1 DEF EgressNew, NextPort, Ports
  <2>3. heap' \subseteq Entries
    BY <1>2 DEF TypeOK
  <2>. QED  BY <1>3, <1>4, <1>5, <1>6, <1>7, <1>8, <2>1, <2>2, <2>3 DEF TypeOK
<1>10. TimersInLiveEntries'
  <2>1. Armed' = Armed \cup {a}
    BY <1>7 DEF Armed
  <2>. QED  BY <1>2, <2>1 DEF TimersInLiveEntries
<1>11. TablesSound'
  <2>1. ASSUME NEW g \in Flows, fwd_table'[g] # None
        PROVE  fwd_table'[g] \in heap' /\ fwd'[fwd_table'[g]] = g
    <3>1. CASE g = f
      BY <1>2, <1>3, <1>5, <2>1, <3>1
    <3>2. CASE g # f
      <4>1. fwd_table'[g] = fwd_table[g]
        BY <1>5, <3>2
      <4>2. fwd_table[g] \in heap /\ fwd[fwd_table[g]] = g
        BY <2>1, <4>1 DEF TablesSound, MappedFlows
      <4>. QED  BY <1>2, <1>3, <4>1, <4>2 DEF TypeOK
    <3>. QED  BY <3>1, <3>2
  <2>2. ASSUME NEW s \in RevKeys, rev_table'[s] # None
        PROVE  rev_table'[s] \in heap' /\ rev'[rev_table'[s]] = s
    <3>1. CASE rev_table'[s] = a /\ s = r
      BY <1>2, <1>4, <3>1
    <3>2. CASE rev_table'[s] = rev_table[s]
      <4>1. rev_table[s] \in heap /\ rev[rev_table[s]] = s
        BY <2>2, <3>2 DEF TablesSound, MappedRevKeys
      <4>. QED  BY <1>2, <1>4, <3>2, <4>1 DEF TypeOK
    <3>. QED  BY <1>6, <3>1, <3>2
  <2>. QED  BY <2>1, <2>2 DEF TablesSound, MappedFlows, MappedRevKeys
<1>12. ASSUME clean'
       PROVE  /\ clean /\ r = <<next_port, 0>>
              /\ fwd_table'[f] = a /\ rev_table'[r] = a
              /\ \A b \in heap : b # a /\ b \in Entries /\ fwd[b] # f /\ rev[b][1] # next_port
  <2>1. /\ clean /\ padding = 0 /\ HasRoom(MappedFlows, f)
        /\ HasRoom(MappedRevKeys, <<next_port, 0>>)
        /\ \A b \in heap : rev[b] # <<next_port, 0>>
    BY <1>12 DEF EgressNew
  <2>2. ASSUME NEW b \in heap
        PROVE  b # a /\ b \in Entries /\ fwd[b] # f /\ rev[b][1] # next_port
    <3>1. /\ b # a /\ b \in Entries /\ rev[b] \in RevKeys
          /\ fwd_table[fwd[b]] = b /\ rev_table[<<rev[b][1], 0>>] = b
      BY <1>2, <2>1 DEF TypeOK, RoundTrip
    <3>2. <<rev[b][1], 0>> \in RevKeys
      BY <3>1, RevKey, RevKeyParts
    <3>3. rev[b] = <<rev[b][1], 0>>
      BY <3>1, <3>2 DEF TablesSound, MappedRevKeys
    <3>4. fwd[b] # f
      BY <1>2, <3>1
    <3>5. rev[b][1] # next_port
      BY <2>1, <3>3
    <3>. QED  BY <3>1, <3>4, <3>5
  <2>. QED  BY <1>5, <1>6, <2>1, <2>2
<1>13. RoundTrip'
  <2>1. SUFFICES ASSUME clean', NEW b \in heap'
                 PROVE  fwd_table'[fwd'[b]] = b /\ rev_table'[<<rev'[b][1], 0>>] = b
    BY DEF RoundTrip
  <2>2. CASE b = a
    BY <1>1, <1>3, <1>4, <1>12, <2>1, <2>2
  <2>3. CASE b # a
    <3>1. /\ b \in heap /\ b \in Entries /\ fwd[b] # f /\ rev[b][1] # next_port /\ clean
      BY <1>2, <1>12, <2>1, <2>3
    <3>2. fwd'[b] = fwd[b] /\ rev'[b] = rev[b] /\ fwd[b] \in Flows /\ rev[b] \in RevKeys
      BY <1>3, <1>4, <2>3, <3>1 DEF TypeOK
    <3>3. <<rev[b][1], 0>> \in RevKeys /\ <<rev[b][1], 0>>[1] = rev[b][1]
      BY <3>2, RevKey, RevKeyParts
    <3>4. <<rev[b][1], 0>> # r
      BY <1>1, <3>1, <3>3
    <3>5. fwd_table[fwd[b]] = b /\ rev_table[<<rev[b][1], 0>>] = b
      BY <3>1 DEF RoundTrip
    <3>. QED  BY <1>5, <1>6, <3>1, <3>2, <3>3, <3>4, <3>5
  <2>. QED  BY <2>2, <2>3
<1>14. Aging'
  <2>1. SUFFICES ASSUME NEW g \in Flows, silent'[g] < Timeout
                 PROVE  \E b \in Entries : Restarted(g, b)'
    BY DEF Aging
  <2>2. CASE g = f
    <3>1. silent'[g] = 0
      BY <2>2 DEF EgressNew, Used, TypeOK
    <3>2. Restarted(g, a)'
      BY <1>2, <1>3, <1>7, <2>2, <3>1 DEF Restarted
    <3>. QED  BY <3>2
  <2>3. CASE g # f
    <3>1. silent'[g] = silent[g]
      BY <1>8, <2>3
    <3>2. PICK b \in Entries : Restarted(g, b)
      BY <2>1, <3>1 DEF Aging
    <3>3. b \in heap' /\ fwd'[b] = g /\ timer'[b] = timer[b]
      BY <1>2, <1>3, <1>7, <3>2 DEF Restarted
    <3>4. Restarted(g, b)'
      BY <3>1, <3>2, <3>3 DEF Restarted
    <3>. QED  BY <3>4
  <2>. QED  BY <2>2, <2>3
<1>. QED  BY <1>9, <1>10, <1>11, <1>13, <1>14

\* The entries whose timers are due, and what their expiry leaves.
Due == {a \in Entries : timer[a] = 0}

LEMMA ExpiryLeaves ==
    ASSUME IndInv, TimerManage
    PROVE  /\ Due \subseteq heap
           /\ heap' = heap \ Due
           /\ Armed' = Armed \ Due
           /\ timer' \in [Entries -> 0..Off]
           /\ \A a \in Entries \ Due : timer'[a] = timer[a]
           /\ \A f \in Flows : fwd_table'[f] = IF \E a \in Due : fwd[a] = f THEN None ELSE fwd_table[f]
           /\ \A s \in RevKeys : rev_table'[s] = IF \E a \in Due : rev[a] = s THEN None ELSE rev_table[s]
           /\ fwd_table' \in [Flows -> Entries \cup {None}]
           /\ rev_table' \in [RevKeys -> Entries \cup {None}]
           /\ UNCHANGED <<fwd, rev, next_port, silent, clean>>
<1>. USE Constants DEF IndInv
<1>1. Due \subseteq heap
  BY DEF TimersInLiveEntries, Armed, Due
<1>2. timer' = Stopped(Due) /\ heap' = heap \ Due
  BY DEF TimerManage, FlowTimeout, Due
<1>3. timer' \in [Entries -> 0..Off] /\ \A a \in Entries \ Due : timer'[a] = timer[a]
  BY <1>2 DEF Stopped, TypeOK
<1>4. Armed' = Armed \ Due
  BY <1>2, <1>3 DEF Stopped, Armed
<1>5. /\ fwd_table' = Without(fwd_table, {fwd[a] : a \in Due})
      /\ rev_table' = Without(rev_table, {rev[a] : a \in Due})
      /\ UNCHANGED <<fwd, rev, next_port, silent, clean>>
  BY DEF TimerManage, FlowTimeout, Due
<1>6. /\ fwd_table' \in [Flows -> Entries \cup {None}]
      /\ \A f \in Flows : fwd_table'[f] = IF \E a \in Due : fwd[a] = f THEN None ELSE fwd_table[f]
  BY <1>5 DEF Without, TypeOK
<1>7. /\ rev_table' \in [RevKeys -> Entries \cup {None}]
      /\ \A s \in RevKeys : rev_table'[s] = IF \E a \in Due : rev[a] = s THEN None ELSE rev_table[s]
  BY <1>5 DEF Without, TypeOK
<1>. QED  BY <1>1, <1>2, <1>3, <1>4, <1>5, <1>6, <1>7

LEMMA TimerManageInv == IndInv /\ TimerManage => IndInv'
<1>. SUFFICES ASSUME IndInv, TimerManage PROVE IndInv'
  OBVIOUS
<1>. USE Constants DEF IndInv
<1>1. /\ Due \subseteq heap
      /\ heap' = heap \ Due
      /\ Armed' = Armed \ Due
      /\ timer' \in [Entries -> 0..Off]
      /\ \A a \in Entries \ Due : timer'[a] = timer[a]
      /\ UNCHANGED <<fwd, rev, next_port, silent, clean>>
  BY ExpiryLeaves
<1>2. /\ fwd_table' \in [Flows -> Entries \cup {None}]
      /\ \A f \in Flows : fwd_table'[f] = IF \E a \in Due : fwd[a] = f THEN None ELSE fwd_table[f]
  BY ExpiryLeaves
<1>3. /\ rev_table' \in [RevKeys -> Entries \cup {None}]
      /\ \A s \in RevKeys : rev_table'[s] = IF \E a \in Due : rev[a] = s THEN None ELSE rev_table[s]
  BY ExpiryLeaves
<1>4. TypeOK'
  <2>1. clean' \in BOOLEAN
    BY <1>1, Zenon DEF TypeOK
  <2>. QED  BY <1>1, <1>2, <1>3, <2>1 DEF TypeOK
<1>5. TimersInLiveEntries'
  BY <1>1 DEF TimersInLiveEntries
<1>6. TablesSound'
  <2>1. ASSUME NEW f \in Flows, fwd_table'[f] # None
        PROVE  fwd_table'[f] \in heap' /\ fwd'[fwd_table'[f]] = f
    BY <1>1, <1>2, <2>1 DEF TablesSound, MappedFlows
  <2>2. ASSUME NEW s \in RevKeys, rev_table'[s] # None
        PROVE  rev_table'[s] \in heap' /\ rev'[rev_table'[s]] = s
    BY <1>1, <1>3, <2>2 DEF TablesSound, MappedRevKeys
  <2>. QED  BY <2>1, <2>2 DEF TablesSound, MappedFlows, MappedRevKeys
<1>7. RoundTrip'
  <2>1. SUFFICES ASSUME clean, NEW b \in heap, b \notin Due
                 PROVE  fwd_table'[fwd[b]] = b /\ rev_table'[<<rev[b][1], 0>>] = b
    BY <1>1 DEF RoundTrip
  <2>2. /\ fwd[b] \in Flows /\ rev[b] \in RevKeys /\ <<rev[b][1], 0>> \in RevKeys
        /\ fwd_table[fwd[b]] = b /\ rev_table[<<rev[b][1], 0>>] = b
    BY <2>1, RevKey, RevKeyParts DEF TypeOK, RoundTrip
  <2>3. \A a \in Due : fwd[a] # fwd[b]
    BY <1>1, <2>1, <2>2 DEF RoundTrip
  <2>4. \A a \in Due : rev[a] # <<rev[b][1], 0>>
    <3>1. SUFFICES ASSUME NEW a \in Due, rev[a] = <<rev[b][1], 0>> PROVE FALSE
      OBVIOUS
    <3>2. rev[a][1] = rev[b][1]
      BY <2>2, <3>1, RevKey, RevKeyParts
    <3>3. rev_table[<<rev[a][1], 0>>] = a
      BY <1>1, <2>1 DEF RoundTrip
    <3>. QED  BY <2>1, <2>2, <3>2, <3>3
  <2>. QED  BY <1>2, <1>3, <2>2, <2>3, <2>4
<1>8. Aging'
  <2>1. SUFFICES ASSUME NEW f \in Flows, silent[f] < Timeout
                 PROVE  \E b \in Entries : Restarted(f, b)'
    BY <1>1 DEF Aging
  <2>2. PICK b \in Entries : Restarted(f, b)
    BY <2>1 DEF Aging
  <2>3. silent[f] \in Nat /\ b \notin Due
    BY <2>1, <2>2 DEF Restarted, Due, TypeOK
  <2>4. Restarted(f, b)'
    BY <1>1, <2>2, <2>3 DEF Restarted
  <2>. QED  BY <2>4
<1>. QED  BY <1>4, <1>5, <1>6, <1>7, <1>8

LEMMA IndInvStep == IndInv /\ [Next]_vars => IndInv'
<1>. SUFFICES ASSUME IndInv, [Next]_vars PROVE IndInv'
  OBVIOUS
<1>1. CASE Tick
  BY <1>1, TickInv
<1>2. ASSUME NEW f \in Flows, EgressHit(f) PROVE IndInv'
  BY <1>2, EgressHitInv
<1>3. ASSUME NEW f \in Flows, NEW a \in Entries, NEW padding \in Padding, EgressNew(f, a, padding)
      PROVE  IndInv'
  BY <1>3, EgressNewInv
<1>4. ASSUME NEW p \in Ports, Ingress(p) PROVE IndInv'
  BY <1>4, IngressInv
<1>5. CASE TimerManage
  BY <1>5, TimerManageInv
<1>6. CASE UNCHANGED vars
  BY <1>6 DEF vars, tables, entries, IndInv, TypeOK, TimersInLiveEntries, Armed, TablesSound,
              MappedFlows, MappedRevKeys, RoundTrip, Aging, Restarted
<1>. QED  BY <1>1, <1>2, <1>3, <1>4, <1>5, <1>6 DEF Next

LEMMA Invariant == Spec => []IndInv
<1>1. Init => IndInv
  BY IndInvInit
<1>2. IndInv /\ [Next]_vars => IndInv'
  BY IndInvStep
<1>. QED  BY <1>1, <1>2, PTL DEF Spec

\* The variables keep their types: above all, next_port stays a uint16_t.
THEOREM TypeCorrect == Spec => []TypeOK
<1>1. IndInv => TypeOK
  BY DEF IndInv
<1>. QED  BY <1>1, Invariant, PTL

\* flow_timeout_cb is the only one to free an entry, and every entry that
\* process_egress allocates has it coming.
THEOREM TimersStayInLiveEntries == Spec => []TimersInLiveEntries
<1>1. IndInv => TimersInLiveEntries
  BY DEF IndInv
<1>. QED  BY <1>1, Invariant, PTL

\* What process_egress and process_ingress find in the tables is in memory
\* and holds the key they looked up, whatever adds failed.
THEOREM TablesStaySound == Spec => []TablesSound
<1>1. IndInv => TablesSound
  BY DEF IndInv
<1>. QED  BY <1>1, Invariant, PTL

\* Replies find the flow they belong to until an add fails, a port is taken
\* over or a rev_key is stored with other padding than zero.
THEOREM RepliesComeBack == Spec => []RoundTrip
<1>1. IndInv => RoundTrip
  BY DEF IndInv
<1>. QED  BY <1>1, Invariant, PTL

\* flow_timeout_cb never takes the key of a flow that was used within the
\* timeout, unless the flow has another entry in memory.
THEOREM ActiveFlowsAreKept == Spec => FlowKeptWhileActive
<1>. DEFINE Kept == \A f \in MappedFlows :
                      fwd_table'[f] # fwd_table[f]
                        => \/ silent[f] >= Timeout
                           \/ \E b \in heap \ {fwd_table[f]} : fwd[b] = f
<1>1. IndInv /\ [Next]_vars => [Kept]_vars
  <2>1. SUFFICES ASSUME IndInv, Next, NEW f \in MappedFlows, fwd_table'[f] # fwd_table[f]
                 PROVE  \/ silent[f] >= Timeout
                        \/ \E b \in heap \ {fwd_table[f]} : fwd[b] = f
    OBVIOUS
  <2>. USE Constants DEF IndInv
  <2>2. f \in Flows /\ fwd_table[f] # None
    BY DEF MappedFlows
  <2>3. ASSUME NEW g \in Flows, NEW a \in Entries, NEW padding \in Padding, EgressNew(g, a, padding)
        PROVE  FALSE
    <3>1. g # f
      BY <2>2, <2>3 DEF EgressNew
    <3>2. fwd_table' = With(fwd_table, MappedFlows, g, a)
      BY <2>3 DEF EgressNew
    <3>. QED  BY <2>1, <2>2, <3>1, <3>2 DEF With, TypeOK
  <2>4. ASSUME TimerManage, silent[f] < Timeout
        PROVE  \E b \in heap \ {fwd_table[f]} : fwd[b] = f
    <3>1. PICK a \in Due : fwd[a] = f
      BY <2>1, <2>2, <2>4, ExpiryLeaves
    <3>2. a \in heap /\ timer[a] = 0
      BY <2>1, <2>4, ExpiryLeaves DEF Due
    <3>3. PICK b \in Entries : Restarted(f, b)
      BY <2>1, <2>2, <2>4 DEF Aging
    <3>4. b \in heap /\ fwd[b] = f
      BY <3>3 DEF Restarted
    <3>5. b # a
      <4>1. silent[f] \in Nat
        BY <2>1, <2>2 DEF TypeOK
      <4>. QED  BY <2>4, <3>2, <3>3, <4>1 DEF Restarted
    <3>. QED  BY <3>1, <3>2, <3>4, <3>5
  <2>5. TimerManage
    BY <2>1, <2>3 DEF Next, Tick, EgressHit, Ingress, tables
  <2>6. silent[f] < Timeout \/ silent[f] >= Timeout
    BY <2>1, <2>2 DEF TypeOK
  <2>. QED  BY <2>4, <2>5, <2>6
<1>. QED  BY <1>1, Invariant, PTL DEF Spec, FlowKeptWhileActive

\* process_egress and process_ingress reach entries through the tables only, so
\* the timer of an entry that is in neither runs down and frees it.
THEOREM OrphansAreFreed == Spec => OrphansRunDown
<1>. DEFINE Runs(a) == \/ timer[a] = 0 /\ a \notin heap'
                       \/ Orphan(a)' /\ timer'[a] \in {timer[a], timer[a] - 1}
            RunDown == \A a \in Entries : Orphan(a) => Runs(a)
<1>1. IndInv /\ [Next]_vars => [RunDown]_vars
  <2>1. SUFFICES ASSUME IndInv, Next, NEW a \in Entries, Orphan(a) PROVE Runs(a)
    OBVIOUS
  <2>. USE Constants
  <2>2. /\ a \in heap /\ \A f \in Flows : fwd_table[f] # a
        /\ \A r \in RevKeys : rev_table[r] # a
    BY <2>1 DEF Orphan
  <2>3. TypeOK /\ a # None
    BY <2>1 DEF IndInv
  <2>4. CASE Tick
    BY <2>2, <2>3, <2>4 DEF Tick, tables, Orphan, TypeOK, Off
  <2>5. ASSUME NEW f \in Flows, EgressHit(f) PROVE Runs(a)
    BY <2>2, <2>3, <2>5 DEF EgressHit, RefreshTimer, tables, Orphan, TypeOK
  <2>6. ASSUME NEW p \in Ports, Ingress(p) PROVE Runs(a)
    BY <2>2, <2>3, <2>6, RevKey DEF Ingress, RefreshTimer, tables, Orphan, TypeOK
  <2>7. ASSUME NEW f \in Flows, NEW b \in Entries, NEW c \in Padding, EgressNew(f, b, c)
        PROVE  Runs(a)
    <3>1. b # a /\ a \in heap' /\ timer'[a] = timer[a]
      BY <2>2, <2>3, <2>7 DEF EgressNew, RefreshTimer, TypeOK
    <3>2. \A g \in Flows : fwd_table'[g] # a
      BY <2>2, <2>3, <2>7, <3>1 DEF EgressNew, With, TypeOK
    <3>3. \A r \in RevKeys : rev_table'[r] # a
      BY <2>2, <2>3, <2>7, <3>1 DEF EgressNew, With, TypeOK
    <3>. QED  BY <3>1, <3>2, <3>3 DEF Orphan
  <2>8. CASE TimerManage
    <3>1. CASE timer[a] = 0
      BY <2>8, <3>1 DEF TimerManage, FlowTimeout
    <3>2. CASE timer[a] # 0
      <4>1. a \in heap' /\ timer'[a] = timer[a]
        BY <2>2, <2>8, <3>2 DEF TimerManage, FlowTimeout, Stopped
      <4>2. \A f \in Flows : fwd_table'[f] # a
        BY <2>2, <2>3, <2>8 DEF TimerManage, FlowTimeout, Without, TypeOK
      <4>3. \A r \in RevKeys : rev_table'[r] # a
        BY <2>2, <2>3, <2>8 DEF TimerManage, FlowTimeout, Without, TypeOK
      <4>. QED  BY <4>1, <4>2, <4>3 DEF Orphan
    <3>. QED  BY <3>1, <3>2
  <2>. QED  BY <2>1, <2>4, <2>5, <2>6, <2>7, <2>8 DEF Next
<1>. QED  BY <1>1, Invariant, PTL DEF Spec, OrphansRunDown
=============================================================================
