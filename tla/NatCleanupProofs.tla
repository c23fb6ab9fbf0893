-------------------------- MODULE NatCleanupProofs --------------------------
(* The table of NatCleanup stays sound, and cleanups take only what was     *)
(* silent, for every number of flows, entries, ports and paddings.          *)
EXTENDS NatCleanup, TLAPS

Clean == ~addFailed /\ ~mixed

\* A flow that had a packet within the timeout has an entry in memory, though
\* not always in the table, that was stamped by its last packet.
Stamped(f, b) == b \in heap /\ flow[b] = f /\ age[b] <= silent[f]
Aging == \A f \in Flows : silent[f] <= Timeout => \E b \in Entries : Stamped(f, b)

IndInv == TableSound /\ OnlyFailedAddsLeak /\ RoundTrip /\ Aging

LEMMA Constants ==
    /\ None \notin Entries /\ 0 \in Padding
    /\ PortSpace \in Nat \ {0} /\ HashEntries \in Nat \ {0} /\ Timeout \in Nat \ {0}
    /\ FirstPort \in Ports /\ Old = Timeout + 1
BY ConstantsAssumption DEF Old, Ports

LEMMA KeyParts == \A k \in Keys : k[1] \in Flows /\ k[2] \in Padding /\ k = <<k[1], k[2]>>
BY DEF Keys

LEMMA CleanKey == \A f \in Flows : /\ <<f, 0>> \in Keys
                                   /\ <<f, 0>>[1] = f /\ <<f, 0>>[2] = 0
BY Constants DEF Keys

LEMMA IndInvInit == Init => IndInv
<1>. SUFFICES ASSUME Init PROVE IndInv
  OBVIOUS
<1>. USE Constants DEF Init
<1>1. heap = {} /\ MappedKeys = {} /\ Mapped = {}
  BY DEF MappedKeys, Mapped
<1>2. TypeOK
  <2>1. Old \in 0..Old /\ 0 \in 0..Old
    OBVIOUS
  <2>. QED  BY <2>1 DEF TypeOK
<1>3. Aging
  BY DEF Aging
<1>. QED  BY <1>1, <1>2, <1>3 DEF IndInv, TableSound, OnlyFailedAddsLeak, RoundTrip

LEMMA TickInv == IndInv /\ Tick => IndInv'
<1>. SUFFICES ASSUME IndInv, Tick PROVE IndInv'
  OBVIOUS
<1>. USE Constants DEF IndInv
<1>1. TypeOK
  BY DEF TableSound
<1>2. \A t \in 0..Old : Aged(t) \in 0..Old
  BY DEF Aged
<1>3. \A t, u \in 0..Old : t <= u => Aged(t) <= Aged(u)
  BY DEF Aged
<1>4. age' \in [Entries -> 0..Old] /\ silent' \in [Flows -> 0..Old]
  BY <1>1, <1>2 DEF Tick, TypeOK
<1>5. TypeOK'
  BY <1>1, <1>4 DEF Tick, TypeOK
<1>6. TableSound' /\ OnlyFailedAddsLeak' /\ RoundTrip'
  BY <1>5 DEF Tick, TableSound, OnlyFailedAddsLeak, RoundTrip, MappedKeys, Mapped
<1>7. Aging'
  <2>1. SUFFICES ASSUME NEW f \in Flows, silent'[f] <= Timeout
                 PROVE  \E b \in Entries : Stamped(f, b)'
    BY DEF Aging
  <2>2. silent[f] \in 0..Old /\ silent'[f] = Aged(silent[f]) /\ silent[f] <= Timeout
    BY <1>1, <2>1 DEF Tick, Aged, TypeOK
  <2>3. PICK b \in Entries : Stamped(f, b)
    BY <2>2 DEF Aging
  <2>4. age[b] \in 0..Old /\ age'[b] = Aged(age[b]) /\ age[b] <= silent[f]
    BY <1>1, <2>3 DEF Tick, TypeOK, Stamped
  <2>5. age'[b] <= silent'[f]
    BY <1>3, <2>2, <2>4
  <2>. QED  BY <2>3, <2>5 DEF Tick, Stamped
<1>. QED  BY <1>6, <1>7

\* A packet of the flow of mapping a, found in memory, stamps it; the padding
\* of the key it was found with may put an end to Clean.
LEMMA HitInv ==
    ASSUME IndInv, NEW a \in heap, Seen(a, flow[a]), mixed' \in BOOLEAN, mixed => mixed',
           UNCHANGED <<nat_table, heap, flow, public_port, next_port, addFailed>>
    PROVE  IndInv'
<1>. USE Constants DEF IndInv
<1>1. TypeOK /\ a \in Entries /\ flow[a] \in Flows
  BY DEF TableSound, TypeOK
<1>2. /\ age' \in [Entries -> 0..Old] /\ age'[a] = 0
      /\ \A b \in Entries : b # a => age'[b] = age[b]
  BY <1>1 DEF Seen, TypeOK
<1>3. /\ silent' \in [Flows -> 0..Old]
      /\ \A f \in Flows : f # flow[a] => silent'[f] = silent[f]
  BY <1>1 DEF Seen, TypeOK
<1>4. TypeOK'
  BY <1>1, <1>2, <1>3 DEF TypeOK
<1>5. TableSound' /\ OnlyFailedAddsLeak'
  BY <1>4 DEF TableSound, OnlyFailedAddsLeak, MappedKeys, Mapped
<1>6. RoundTrip'
  BY DEF RoundTrip
<1>7. Aging'
  <2>1. SUFFICES ASSUME NEW f \in Flows, silent'[f] <= Timeout
                 PROVE  \E b \in Entries : Stamped(f, b)'
    BY DEF Aging
  <2>2. CASE f = flow[a]
    <3>1. silent'[f] = 0
      BY <1>1, <2>2 DEF Seen, TypeOK
    <3>2. Stamped(f, a)'
      BY <1>2, <2>2, <3>1 DEF Stamped
    <3>. QED  BY <1>1, <3>2
  <2>3. CASE f # flow[a]
    <3>1. silent'[f] = silent[f]
      BY <1>3, <2>3
    <3>2. PICK b \in Entries : Stamped(f, b)
      BY <2>1, <3>1 DEF Aging
    <3>3. b # a
      BY <2>3, <3>2 DEF Stamped
    <3>4. Stamped(f, b)'
      BY <1>2, <3>1, <3>2, <3>3 DEF Stamped
    <3>. QED  BY <3>4
  <2>. QED  BY <2>2, <2>3
<1>. QED  BY <1>5, <1>6, <1>7

LEMMA EgressHitInv == ASSUME IndInv, NEW k \in Keys, EgressHit(k) PROVE IndInv'
<1>1. nat_table[k] \in heap /\ flow[nat_table[k]] = k[1]
  BY DEF IndInv, TableSound, EgressHit
<1>2. mixed' \in BOOLEAN /\ (mixed => mixed')
  BY Zenon DEF IndInv, TableSound, TypeOK, EgressHit
<1>. QED  BY <1>1, <1>2, HitInv DEF EgressHit

LEMMA IngressInv == ASSUME IndInv, NEW p \in Ports, Ingress(p) PROVE IndInv'
<1>1. PICK a \in Mapped : Seen(a, flow[a])
                          /\ UNCHANGED <<nat_table, heap, flow, public_port, next_port, addFailed, mixed>>
  BY DEF Ingress
<1>2. a \in heap
  BY <1>1 DEF IndInv, TableSound, Mapped
<1>3. mixed' \in BOOLEAN /\ (mixed => mixed')
  BY <1>1, Zenon DEF IndInv, TableSound, TypeOK
<1>. QED  BY <1>1, <1>2, <1>3, HitInv

LEMMA EgressNewInv ==
    ASSUME IndInv, NEW k \in Keys, NEW a \in Entries, EgressNew(k, a)
    PROVE  IndInv'
<1>. USE Constants, KeyParts DEF IndInv
<1>1. TypeOK /\ k \notin MappedKeys /\ a \notin heap /\ nat_table[k] = None
  BY DEF TableSound, EgressNew, MappedKeys
<1>2. /\ flow' \in [Entries -> Flows] /\ flow'[a] = k[1]
      /\ \A b \in Entries : b # a => flow'[b] = flow[b]
      /\ public_port' \in [Entries -> Ports] /\ public_port'[a] = next_port
      /\ \A b \in Entries : b # a => public_port'[b] = public_port[b]
  BY <1>1 DEF EgressNew, TypeOK
<1>3. /\ age' \in [Entries -> 0..Old] /\ age'[a] = 0
      /\ \A b \in Entries : b # a => age'[b] = age[b]
      /\ silent' \in [Flows -> 0..Old] /\ silent'[k[1]] = 0
      /\ \A f \in Flows : f # k[1] => silent'[f] = silent[f]
  BY <1>1 DEF EgressNew, Seen, TypeOK
<1>4. heap' = heap \cup {a} /\ next_port' \in Ports
  <2>1. next_port \in Nat
    BY <1>1 DEF TypeOK, Ports
  <2>. QED  BY <2>1 DEF EgressNew, AllocatePort, Ports
<1>5. mixed' \in BOOLEAN /\ mixed' = (mixed \/ k[2] # 0 \/ \E b \in heap : public_port[b] = next_port)
  BY Zenon DEF EgressNew
<1>6. \/ nat_table' = [nat_table EXCEPT ![k] = a] /\ addFailed' = addFailed
      \/ nat_table' = nat_table /\ addFailed'
  BY DEF EgressNew
<1>7. TypeOK'
  <2>1. nat_table' \in [Keys -> Entries \cup {None}]
    BY <1>1, <1>6 DEF TypeOK
  <2>2. addFailed' \in BOOLEAN
    BY <1>1, <1>6 DEF TypeOK
  <2>3. heap' \subseteq Entries
    BY <1>1, <1>4 DEF TypeOK
  <2>. QED  BY <1>2, <1>3, <1>4, <1>5, <2>1, <2>2, <2>3 DEF TypeOK
<1>8. \A l \in MappedKeys : /\ l \in Keys /\ l # k /\ nat_table[l] \in heap /\ nat_table[l] # a
                            /\ flow'[nat_table[l]] = l[1]
                            /\ \A m \in MappedKeys : nat_table[m] = nat_table[l] => m = l
  BY <1>1, <1>2 DEF TableSound, TypeOK, MappedKeys
<1>9. Aging'
  <2>1. SUFFICES ASSUME NEW f \in Flows, silent'[f] <= Timeout
                 PROVE  \E b \in Entries : Stamped(f, b)'
    BY DEF Aging
  <2>2. CASE f = k[1]
    <3>1. Stamped(f, a)'
      BY <1>2, <1>3, <1>4, <2>2 DEF Stamped
    <3>. QED  BY <3>1
  <2>3. CASE f # k[1]
    <3>1. silent'[f] = silent[f]
      BY <1>3, <2>3
    <3>2. PICK b \in Entries : Stamped(f, b)
      BY <2>1, <3>1 DEF Aging
    <3>3. b # a /\ b \in heap'
      BY <1>1, <1>4, <3>2 DEF Stamped
    <3>4. Stamped(f, b)'
      BY <1>2, <1>3, <3>1, <3>2, <3>3 DEF Stamped
    <3>. QED  BY <3>4
  <2>. QED  BY <2>2, <2>3
<1>10. CASE nat_table' = [nat_table EXCEPT ![k] = a] /\ addFailed' = addFailed
  <2>1. /\ nat_table'[k] = a /\ \A l \in Keys : l # k => nat_table'[l] = nat_table[l]
        /\ MappedKeys' = MappedKeys \cup {k}
    BY <1>1, <1>10 DEF TypeOK, MappedKeys
  <2>2. TableSound'
    BY <1>2, <1>4, <1>7, <1>8, <2>1 DEF TableSound
  <2>3. Mapped' = Mapped \cup {a}
    BY <1>8, <2>1 DEF Mapped
  <2>4. OnlyFailedAddsLeak'
    BY <1>4, <1>10, <2>3 DEF OnlyFailedAddsLeak
  <2>5. ASSUME Clean' PROVE /\ Clean /\ k = <<k[1], 0>>
                            /\ \A b \in heap : /\ b \in Entries /\ b # a /\ flow[b] \in Flows
                                               /\ flow[b] # k[1]
                                               /\ public_port[b] # next_port
    <3>1. Clean /\ k = <<k[1], 0>> /\ \A b \in heap : public_port[b] # next_port
      BY <1>5, <1>10, <2>5 DEF Clean
    <3>2. \A b \in heap : b \in Entries /\ b # a /\ flow[b] \in Flows /\ nat_table[<<flow[b], 0>>] = b
      BY <1>1, <3>1 DEF TypeOK, RoundTrip, Clean
    <3>3. \A b \in heap : flow[b] # k[1]
      BY <1>1, <3>1, <3>2, Zenon
    <3>. QED  BY <3>1, <3>2, <3>3, Zenon
  <2>6. RoundTrip'
    <3>1. SUFFICES ASSUME Clean', NEW b \in heap'
                   PROVE  /\ nat_table'[<<flow'[b], 0>>] = b
                          /\ \A c \in heap' : public_port'[c] = public_port'[b] => c = b
      BY DEF RoundTrip, Clean
    <3>2. \A c \in heap : /\ nat_table'[<<flow'[c], 0>>] = c
                          /\ public_port'[c] # public_port'[a]
                          /\ \A d \in heap : public_port'[d] = public_port'[c] => d = c
      <4>1. SUFFICES ASSUME NEW c \in heap
                     PROVE  /\ nat_table'[<<flow'[c], 0>>] = c
                            /\ public_port'[c] # public_port'[a]
                            /\ \A d \in heap : public_port'[d] = public_port'[c] => d = c
        OBVIOUS
      <4>2. /\ flow'[c] = flow[c] /\ <<flow[c], 0>> \in Keys /\ <<flow[c], 0>> # k
        BY <1>2, <2>5, <3>1, CleanKey
      <4>3. nat_table[<<flow[c], 0>>] = c
        BY <2>5, <3>1 DEF RoundTrip, Clean
      <4>4. \A d \in heap : public_port[d] = public_port[c] => d = c
        BY <2>5, <3>1 DEF RoundTrip, Clean
      <4>. QED  BY <1>2, <2>1, <2>5, <3>1, <4>2, <4>3, <4>4
    <3>3. nat_table'[<<flow'[a], 0>>] = a
      BY <1>2, <2>1, <2>5, <3>1
    <3>. QED  BY <1>4, <3>1, <3>2, <3>3
  <2>. QED  BY <1>9, <2>2, <2>4, <2>6
<1>11. CASE nat_table' = nat_table /\ addFailed'
  <2>1. TableSound'
    BY <1>4, <1>7, <1>8, <1>11 DEF TableSound, MappedKeys
  <2>. QED  BY <1>11, <1>9, <2>1 DEF OnlyFailedAddsLeak, RoundTrip
<1>. QED  BY <1>6, <1>10, <1>11

LEMMA CleanupInv == IndInv /\ Cleanup => IndInv'
<1>. SUFFICES ASSUME IndInv, Cleanup PROVE IndInv'
  OBVIOUS
<1>. USE Constants DEF IndInv
<1>. DEFINE gone == {k \in MappedKeys : age[nat_table[k]] > Timeout}
<1>1. TypeOK /\ gone \subseteq MappedKeys /\ MappedKeys \subseteq Keys
  BY DEF TableSound, MappedKeys
<1>2. /\ nat_table' = [k \in Keys |-> IF k \in gone THEN None ELSE nat_table[k]]
      /\ heap' = heap \ {nat_table[k] : k \in gone}
      /\ UNCHANGED <<flow, public_port, age, next_port, silent, addFailed, mixed>>
  BY DEF Cleanup, Remove
<1>. HIDE DEF gone
<1>3. TypeOK'
  BY <1>1, <1>2 DEF TypeOK
<1>4. MappedKeys' = MappedKeys \ gone /\ \A k \in MappedKeys \ gone : nat_table'[k] = nat_table[k]
  BY <1>1, <1>2 DEF MappedKeys
<1>5. \A k \in MappedKeys \ gone : nat_table[k] \in heap'
  BY <1>1, <1>2 DEF TableSound
<1>6. TableSound'
  BY <1>2, <1>3, <1>4, <1>5 DEF TableSound
<1>7. OnlyFailedAddsLeak'
  <2>1. SUFFICES ASSUME ~addFailed PROVE heap' = Mapped'
    BY <1>2 DEF OnlyFailedAddsLeak
  <2>2. heap = Mapped
    BY <2>1 DEF OnlyFailedAddsLeak
  <2>. QED  BY <1>2, <1>4, <1>5, <2>2 DEF Mapped
<1>8. RoundTrip'
  <2>1. SUFFICES ASSUME Clean, NEW a \in heap'
                 PROVE  /\ nat_table'[<<flow[a], 0>>] = a
                        /\ \A b \in heap' : public_port[b] = public_port[a] => b = a
    BY <1>2 DEF RoundTrip, Clean
  <2>2. SUFFICES nat_table'[<<flow[a], 0>>] = a
    BY <1>2, <2>1 DEF RoundTrip, Clean
  <2>3. a \in heap /\ a \in Entries /\ flow[a] \in Flows /\ nat_table[<<flow[a], 0>>] = a
    BY <1>1, <1>2, <2>1 DEF TypeOK, RoundTrip, Clean
  <2>. QED  BY <1>2, <2>1, <2>3, CleanKey
<1>9. Aging'
  <2>1. SUFFICES ASSUME NEW f \in Flows, silent[f] <= Timeout
                 PROVE  \E b \in Entries : Stamped(f, b)'
    BY <1>2 DEF Aging
  <2>2. PICK b \in Entries : Stamped(f, b)
    BY <2>1 DEF Aging
  <2>3. age[b] \in Nat /\ silent[f] \in Nat /\ age[b] <= silent[f]
    BY <1>1, <2>2 DEF TypeOK, Stamped
  <2>4. b \in heap'
    BY <1>2, <2>1, <2>2, <2>3 DEF Stamped, gone
  <2>5. Stamped(f, b)'
    BY <1>2, <2>2, <2>4 DEF Stamped
  <2>. QED  BY <2>5
<1>. QED  BY <1>6, <1>7, <1>8, <1>9

LEMMA IndInvNext == IndInv /\ [Next]_vars => IndInv'
<1>. SUFFICES ASSUME IndInv, [Next]_vars PROVE IndInv'
  OBVIOUS
<1>1. CASE UNCHANGED vars
  BY <1>1 DEF vars, IndInv, TableSound, TypeOK, OnlyFailedAddsLeak, RoundTrip, Aging, Stamped,
              MappedKeys, Mapped
<1>. QED
  BY <1>1, TickInv, EgressHitInv, EgressNewInv, IngressInv, CleanupInv DEF Next

LEMMA Invariant == Spec => []IndInv
<1>. QED  BY IndInvInit, IndInvNext, PTL DEF Spec

\* nat_callback and nat_cleanup meet no freed entry and free none twice,
\* through failed adds, port wrap-around and garbage padding.
THEOREM TableStaysSound == Spec => []TableSound
<1>1. IndInv => TableSound
  BY DEF IndInv
<1>. QED  BY <1>1, Invariant, PTL

\* Entries get lost only where nat_callback ignores that an add has failed.
THEOREM LeaksAreFailedAdds == Spec => []OnlyFailedAddsLeak
<1>1. IndInv => OnlyFailedAddsLeak
  BY DEF IndInv
<1>. QED  BY <1>1, Invariant, PTL

\* Replies find the flow they belong to until an add fails, a port is reused or
\* a key has padding other than zero.
THEOREM RepliesComeBack == Spec => []RoundTrip
<1>1. IndInv => RoundTrip
  BY DEF IndInv
<1>. QED  BY <1>1, Invariant, PTL

\* nat_cleanup takes no mapping of a flow that had a packet within the timeout,
\* unless the flow has another entry, which stays.
THEOREM ActiveFlowsAreKept == Spec => FlowKeptWhileActive
<1>. DEFINE Kept == \A k \in MappedKeys :
                      nat_table'[k] # nat_table[k]
                        => \/ silent[k[1]] > Timeout
                           \/ \E b \in heap' : flow[b] = k[1] /\ age[b] <= Timeout
<1>1. IndInv /\ [Next]_vars => [Kept]_vars
  <2>1. SUFFICES ASSUME IndInv, Next, NEW k \in MappedKeys, nat_table'[k] # nat_table[k]
                 PROVE  \/ silent[k[1]] > Timeout
                        \/ \E b \in heap' : flow[b] = k[1] /\ age[b] <= Timeout
    OBVIOUS
  <2>. USE Constants DEF IndInv
  <2>2. TypeOK /\ k \in Keys /\ nat_table[k] # None /\ k[1] \in Flows
    BY <2>1, KeyParts DEF TableSound, MappedKeys
  <2>3. ASSUME NEW l \in Keys, NEW a \in Entries, EgressNew(l, a) PROVE FALSE
    <3>1. l # k
      BY <2>1, <2>3 DEF EgressNew
    <3>2. nat_table' = [nat_table EXCEPT ![l] = a] \/ nat_table' = nat_table
      BY <2>3 DEF EgressNew
    <3>. QED  BY <2>1, <2>2, <3>1, <3>2 DEF TypeOK
  <2>4. Cleanup
    BY <2>1, <2>3 DEF Next, Tick, EgressHit, Ingress
  <2>5. ASSUME silent[k[1]] <= Timeout
        PROVE  \E b \in heap' : flow[b] = k[1] /\ age[b] <= Timeout
    <3>1. PICK b \in Entries : Stamped(k[1], b)
      BY <2>1, <2>2, <2>5 DEF Aging
    <3>2. b \in heap /\ flow[b] = k[1] /\ age[b] \in Nat /\ silent[k[1]] \in Nat
      BY <2>2, <3>1 DEF Stamped, TypeOK
    <3>3. age[b] <= Timeout
      BY <2>5, <3>1, <3>2 DEF Stamped
    <3>4. \A l \in MappedKeys : age[nat_table[l]] > Timeout => nat_table[l] # b
      BY <3>2, <3>3
    <3>5. b \in heap'
      BY <2>4, <3>2, <3>4 DEF Cleanup, Remove
    <3>. QED  BY <3>2, <3>3, <3>5
  <2>6. silent[k[1]] <= Timeout \/ silent[k[1]] > Timeout
    BY <2>2 DEF TypeOK
  <2>. QED  BY <2>5, <2>6
<1>. QED  BY <1>1, Invariant, PTL DEF Spec, FlowKeptWhileActive
=============================================================================
