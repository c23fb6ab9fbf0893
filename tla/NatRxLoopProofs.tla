-------------------------- MODULE NatRxLoopProofs --------------------------
(* The idle clearing of NatRxLoop frees no entry under an armed timer, for  *)
(* every number of keys and entries and all timeouts whose margin covers    *)
(* two iterations of the loop (TimingAssumption).                           *)
EXTENDS NatRxLoop, FiniteSetTheorems, TLAPS

\* A timer was reset at most MaxIter ticks after the last packet was seen.
ResetEarly == \A a \in Armed : timer[a] = 0 \/ timer[a] + idle <= Timeout + MaxIter

\* The burst being handled came in this iteration.
BurstIsFresh == pc = "packets" => idle <= spent

\* What is still armed after rte_timer_manage was not due when it ran.
ArmedIsRecent == pc = "idle" => \A a \in Armed : idle < Timeout + MaxIter + spent

IndInv ==
    /\ TypeOK
    /\ TimersInLiveEntries
    /\ TableSound
    /\ ResetEarly
    /\ BurstIsFresh
    /\ ArmedIsRecent

LEMMA Constants ==
    /\ None \notin Entries
    /\ HashEntries \in Nat \ {0} /\ Timeout \in Nat \ {0} /\ Idle \in Nat \ {0}
    /\ MaxBurst \in Nat \ {0} /\ MaxIter \in Nat \ {0}
    /\ Off = Timeout + 1 /\ Forgotten = Timeout + MaxIter
    /\ Timeout + 2 * MaxIter <= Idle + 1
BY ConstantsAssumption, TimingAssumption DEF Off, Forgotten

LEMMA NothingLeftToClear == IndInv => ClearFindsNothing
<1>. SUFFICES ASSUME IndInv, pc = "idle", ClearDue PROVE heap = {} /\ Mapped = {}
  BY DEF ClearFindsNothing
<1>1. Armed = {}
  BY Constants DEF IndInv, TypeOK, ArmedIsRecent, ClearDue
<1>2. heap = {}
  BY <1>1 DEF IndInv, TimersInLiveEntries
<1>3. Mapped = {}
  BY <1>2 DEF IndInv, TableSound
<1>. QED  BY <1>2, <1>3

LEMMA IndInvInit == Init => IndInv
<1>. SUFFICES ASSUME Init PROVE IndInv
  OBVIOUS
<1>1. TypeOK
  <2>1. /\ nat_table \in [Keys -> Entries \cup {None}] /\ key \in [Entries -> Keys]
        /\ timer \in [Entries -> 0..Off] /\ silent \in [Keys -> 0..Forgotten]
    <3>1. Off \in 0..Off /\ Forgotten \in 0..Forgotten
      BY Constants
    <3>. QED  BY <3>1 DEF Init
  <2>2. idle \in 0..Idle + 1 /\ todo \in 0..MaxBurst /\ spent \in 0..MaxIter
    BY Constants DEF Init
  <2>. QED  BY <2>1, <2>2 DEF Init, TypeOK
<1>2. Armed = {} /\ Mapped = {}
  BY DEF Init, Armed, Mapped
<1>3. TimersInLiveEntries /\ TableSound /\ ResetEarly /\ BurstIsFresh /\ ArmedIsRecent
  BY <1>2 DEF Init, TimersInLiveEntries, TableSound, ResetEarly, BurstIsFresh, ArmedIsRecent
<1>. QED  BY <1>1, <1>3 DEF IndInv

LEMMA TickInv == IndInv /\ Tick => IndInv'
<1>. SUFFICES ASSUME IndInv, Tick PROVE IndInv'
  OBVIOUS
<1>. USE Constants DEF IndInv
<1>0. /\ idle' = (IF idle + 1 <= Idle + 1 THEN idle + 1 ELSE Idle + 1)
      /\ spent' = spent + 1 /\ spent < MaxIter /\ pc' = pc
      /\ idle \in Nat /\ spent \in Nat
  BY DEF Tick, Lesser, TypeOK
<1>1. TypeOK'
  <2>1. silent' \in [Keys -> 0..Forgotten]
    BY DEF Tick, TypeOK, Lesser
  <2>2. timer' \in [Entries -> 0..Off]
    BY DEF Tick, TypeOK
  <2>. QED  BY <1>0, <2>1, <2>2 DEF Tick, TypeOK
<1>2. Armed' = Armed
  BY DEF Tick, Armed, TypeOK
<1>3. \A a \in Armed : timer'[a] = IF timer[a] = 0 THEN 0 ELSE timer[a] - 1
  BY DEF Tick, Armed
<1>4. TimersInLiveEntries' /\ TableSound'
  BY <1>2 DEF Tick, TimersInLiveEntries, TableSound, Mapped
<1>5. ResetEarly'
  BY <1>0, <1>2, <1>3 DEF ResetEarly, TypeOK, Armed
<1>6. BurstIsFresh'
  BY <1>0 DEF BurstIsFresh
<1>7. ArmedIsRecent'
  BY <1>0, <1>2 DEF ArmedIsRecent
<1>. QED  BY <1>1, <1>4, <1>5, <1>6, <1>7

LEMMA PollInv == ASSUME IndInv, NEW nb_rx \in 0..MaxBurst, Poll(nb_rx) PROVE IndInv'
<1>. USE Constants DEF IndInv
<1>1. TypeOK'
  <2>1. CASE nb_rx > 0
    <3>1. /\ pc' = "packets" /\ todo' = nb_rx /\ idle' = 0 /\ table_cleared' = FALSE
          /\ UNCHANGED <<nat_table, heap, key, timer, spent, silent>>
      BY <2>1 DEF Poll
    <3>2. table_cleared' \in BOOLEAN
      BY <3>1, Zenon
    <3>3. idle' \in 0..Idle + 1 /\ todo' \in 0..MaxBurst /\ (pc' = "packets" => todo' > 0)
      BY <2>1, <3>1
    <3>. QED  BY <3>1, <3>2, <3>3 DEF TypeOK
  <2>2. CASE ~(nb_rx > 0)
    <3>1. /\ pc' = "manage" /\ todo' = nb_rx /\ idle' = idle /\ table_cleared' = table_cleared
          /\ UNCHANGED <<nat_table, heap, key, timer, spent, silent>>
      BY <2>2 DEF Poll
    <3>2. table_cleared' \in BOOLEAN
      BY <3>1, Zenon DEF TypeOK
    <3>3. idle' \in 0..Idle + 1 /\ todo' \in 0..MaxBurst /\ (pc' = "packets" => todo' > 0)
      BY <3>1 DEF TypeOK
    <3>. QED  BY <3>1, <3>2, <3>3 DEF TypeOK
  <2>. QED  BY <2>1, <2>2
<1>2. Armed' = Armed /\ Mapped' = Mapped
  BY DEF Poll, Armed, Mapped
<1>3. TimersInLiveEntries' /\ TableSound'
  BY <1>2 DEF Poll, TimersInLiveEntries, TableSound
<1>4. ResetEarly'
  <2>1. \A a \in Armed : timer[a] \in 0..Timeout
    BY DEF Armed, TypeOK
  <2>. QED  BY <1>2, <2>1 DEF Poll, ResetEarly
<1>5. BurstIsFresh' /\ ArmedIsRecent'
  BY DEF Poll, BurstIsFresh, ArmedIsRecent, TypeOK
<1>. QED  BY <1>1, <1>3, <1>4, <1>5

\* Handling one packet, with the entry it arms, if any.
LEMMA RefreshInv ==
    ASSUME IndInv, NextPacket, NEW a \in Entries, RefreshTimer(a)
    PROVE  /\ Armed' = Armed \cup {a}
           /\ timer' \in [Entries -> 0..Off]
           /\ ResetEarly' /\ BurstIsFresh' /\ ArmedIsRecent'
<1>. USE Constants DEF IndInv
<1>1. /\ timer' \in [Entries -> 0..Off] /\ timer'[a] = Timeout
      /\ \A b \in Entries : b # a => timer'[b] = timer[b]
  BY DEF RefreshTimer, TypeOK
<1>2. Armed' = Armed \cup {a}
  BY <1>1 DEF Armed
<1>3. idle' = idle /\ spent' = spent /\ pc' # "idle" /\ idle <= spent
  BY DEF NextPacket, BurstIsFresh
<1>4. ResetEarly'
  <2>1. SUFFICES ASSUME NEW b \in Armed'
                 PROVE  timer'[b] = 0 \/ timer'[b] + idle <= Timeout + MaxIter
    BY <1>3 DEF ResetEarly
  <2>2. CASE b = a
    BY <1>1, <1>3, <2>2 DEF TypeOK
  <2>3. CASE b # a
    <3>1. b \in Armed /\ timer'[b] = timer[b]
      BY <1>1, <1>2, <2>3 DEF Armed
    <3>. QED  BY <3>1 DEF ResetEarly
  <2>. QED  BY <2>2, <2>3
<1>. QED  BY <1>1, <1>2, <1>3, <1>4 DEF BurstIsFresh, ArmedIsRecent

LEMMA PacketInv == IndInv /\ Packet => IndInv'
<1>. USE Constants DEF IndInv
<1>0. ASSUME IndInv, NextPacket PROVE todo' \in 0..MaxBurst /\ (pc' = "packets" => todo' > 0)
                                     /\ pc' \in {"poll", "packets", "manage", "idle"}
                                     /\ idle' = idle /\ table_cleared' = table_cleared /\ spent' = spent
  BY <1>0 DEF NextPacket, TypeOK
<1>1. ASSUME IndInv, NotIPv4 PROVE IndInv'
  <2>1. NextPacket
    BY <1>1 DEF NotIPv4
  <2>2. Armed' = Armed /\ Mapped' = Mapped
    BY <1>1 DEF NotIPv4, Armed, Mapped
  <2>3. TypeOK'
    BY <1>0, <1>1, <2>1 DEF NotIPv4, TypeOK
  <2>4. TimersInLiveEntries' /\ TableSound'
    BY <1>1, <2>2 DEF NotIPv4, TimersInLiveEntries, TableSound
  <2>5. ResetEarly' /\ BurstIsFresh' /\ ArmedIsRecent'
    BY <1>1, <2>1, <2>2 DEF NotIPv4, NextPacket, ResetEarly, BurstIsFresh, ArmedIsRecent
  <2>. QED  BY <2>3, <2>4, <2>5
<1>2. ASSUME IndInv, NEW k \in Keys, FlowHit(k) PROVE IndInv'
  <2>1. NextPacket /\ RefreshTimer(nat_table[k]) /\ k \in Mapped
    BY <1>2 DEF FlowHit, Mapped
  <2>2. nat_table[k] \in Entries /\ nat_table[k] \in Armed
    BY <1>2, <2>1 DEF TypeOK, TableSound, TimersInLiveEntries
  <2>3. /\ Armed' = Armed
        /\ timer' \in [Entries -> 0..Off]
        /\ ResetEarly' /\ BurstIsFresh' /\ ArmedIsRecent'
    BY <1>2, <2>1, <2>2, RefreshInv
  <2>4. TypeOK'
    BY <1>0, <1>2, <2>1, <2>3 DEF FlowHit, TypeOK
  <2>5. TimersInLiveEntries' /\ TableSound'
    BY <1>2, <2>3 DEF FlowHit, TimersInLiveEntries, TableSound, Mapped
  <2>. QED  BY <2>3, <2>4, <2>5
<1>3. ASSUME IndInv, NEW k \in Keys, NEW a \in Entries, NewFlow(k, a) PROVE IndInv'
  <2>1. NextPacket /\ RefreshTimer(a) /\ a \notin heap
    BY <1>3 DEF NewFlow
  <2>2. /\ Armed' = Armed \cup {a}
        /\ timer' \in [Entries -> 0..Off]
        /\ ResetEarly' /\ BurstIsFresh' /\ ArmedIsRecent'
    BY <1>3, <2>1, RefreshInv
  <2>3. /\ heap' = heap \cup {a} /\ key' \in [Entries -> Keys] /\ key'[a] = k
        /\ \A b \in Entries : b # a => key'[b] = key[b]
    BY <1>3 DEF NewFlow, TypeOK
  <2>4. /\ nat_table' \in [Keys -> Entries \cup {None}]
        /\ nat_table'[k] \in {None, a}
        /\ \A j \in Keys : j # k => nat_table'[j] = nat_table[j]
    BY <1>3 DEF NewFlow, AddKey, TypeOK
  <2>5. TypeOK'
    <3>1. silent' \in [Keys -> 0..Forgotten]
      BY <1>3 DEF NewFlow, TypeOK
    <3>. QED  BY <1>0, <1>3, <2>1, <2>2, <2>3, <2>4, <3>1 DEF TypeOK
  <2>6. TimersInLiveEntries'
    BY <1>3, <2>2, <2>3 DEF TimersInLiveEntries
  <2>7. TableSound'
    BY <1>3, <2>1, <2>3, <2>4 DEF TableSound, Mapped, TypeOK
  <2>. QED  BY <2>2, <2>5, <2>6, <2>7
<1>. QED  BY <1>1, <1>2, <1>3 DEF Packet

LEMMA ManageInv == IndInv /\ TimerManage => IndInv'
<1>. SUFFICES ASSUME IndInv, TimerManage PROVE IndInv'
  OBVIOUS
<1>. USE Constants DEF IndInv
<1> DEFINE due == {a \in Entries : timer[a] = 0}
<1>1. /\ timer' \in [Entries -> 0..Off]
      /\ \A a \in Entries : timer'[a] = IF a \in due THEN Off ELSE timer[a]
      /\ heap' = heap \ due
      /\ nat_table' \in [Keys -> Entries \cup {None}]
      /\ \A k \in Keys : nat_table'[k] = IF \E a \in due : key[a] = k THEN None ELSE nat_table[k]
  BY DEF TimerManage, FlowTimeout, TypeOK
<1>2. TypeOK'
  BY <1>1 DEF TimerManage, TypeOK
<1>3. Armed' = Armed \ due
  BY <1>1 DEF Armed
<1>4. TimersInLiveEntries'
  BY <1>1, <1>3 DEF TimersInLiveEntries
<1>5. TableSound'
  BY <1>1 DEF TimerManage, TableSound, Mapped, TypeOK
<1>6. \A a \in Armed' : timer'[a] = timer[a] /\ timer[a] \in Nat \ {0} /\ a \in Armed
  BY <1>1, <1>3 DEF Armed, TypeOK
<1>7. ResetEarly' /\ ArmedIsRecent' /\ BurstIsFresh'
  BY <1>6 DEF TimerManage, ResetEarly, ArmedIsRecent, BurstIsFresh, TypeOK
<1>. QED  BY <1>2, <1>4, <1>5, <1>7

LEMMA ClearInv == IndInv /\ CheckGlobalIdle => IndInv'
<1>. SUFFICES ASSUME IndInv, CheckGlobalIdle PROVE IndInv'
  OBVIOUS
<1>. USE Constants DEF IndInv
<1>1. ClearDue => heap = {} /\ Mapped = {}
  BY NothingLeftToClear DEF CheckGlobalIdle, ClearFindsNothing
<1>2. heap' = heap
  BY <1>1 DEF CheckGlobalIdle
<1>3. nat_table' = nat_table
  BY <1>1 DEF CheckGlobalIdle, Mapped, TypeOK
<1>4. TypeOK'
  BY <1>2, <1>3 DEF CheckGlobalIdle, TypeOK
<1>5. Armed' = Armed /\ Mapped' = Mapped
  BY <1>3 DEF CheckGlobalIdle, Armed, Mapped
<1>6. TimersInLiveEntries' /\ TableSound' /\ ResetEarly' /\ BurstIsFresh' /\ ArmedIsRecent'
  BY <1>2, <1>3, <1>5 DEF CheckGlobalIdle, TimersInLiveEntries, TableSound, ResetEarly,
                          BurstIsFresh, ArmedIsRecent
<1>. QED  BY <1>4, <1>6

LEMMA IndInvNext == IndInv /\ [Next]_vars => IndInv'
<1>1. IndInv /\ UNCHANGED vars => IndInv'
  BY DEF vars, program, IndInv, TypeOK, TimersInLiveEntries, TableSound, ResetEarly,
         BurstIsFresh, ArmedIsRecent, Armed, Mapped
<1>. QED  BY <1>1, TickInv, PollInv, PacketInv, ManageInv, ClearInv DEF Next

LEMMA IndInvAlways == Spec => []IndInv
BY IndInvInit, IndInvNext, PTL DEF Spec

\* The variables keep their types.
THEOREM TypeCorrect == Spec => []TypeOK
BY IndInvAlways, PTL DEF IndInv

\* No armed timer is ever left in freed memory (main.c:109 against main.c:76).
THEOREM TimersStayInLiveEntries == Spec => []TimersInLiveEntries
BY IndInvAlways, PTL DEF IndInv

\* The table only leads to live entries of the key looked up, even when adds
\* to a full table failed.
THEOREM TableStaysSound == Spec => []TableSound
BY IndInvAlways, PTL DEF IndInv

\* check_global_idle never finds a flow to free.
THEOREM ClearNeverFreesAFlow == Spec => []ClearFindsNothing
BY IndInvAlways, NothingLeftToClear, PTL

-----------------------------------------------------------------------------
(* The timer of the entry the table leads to tells how long its flow was    *)
(* silent, whatever becomes of entries whose add failed.                    *)

Tells(a, k) == IF timer[a] = 0 THEN Timeout <= silent[k] /\ silent[k] < Timeout + spent
                               ELSE timer[a] + silent[k] = Timeout
Told == \A k \in Mapped : Tells(nat_table[k], k)

ToldInv == IndInv /\ Told

LEMMA EntryParts ==
    ASSUME IndInv, NEW a \in heap
    PROVE  /\ a \in Entries /\ a # None /\ key[a] \in Keys
           /\ timer[a] \in 0..Timeout /\ silent[key[a]] \in 0..Forgotten /\ spent \in 0..MaxIter
<1>1. a \in Entries /\ timer[a] # Off /\ timer[a] \in 0..Off /\ spent \in 0..MaxIter /\ key[a] \in Keys
  BY DEF IndInv, TypeOK, TimersInLiveEntries, Armed
<1>2. silent[key[a]] \in 0..Forgotten
  BY <1>1 DEF IndInv, TypeOK
<1>. QED  BY <1>1, <1>2, Constants

LEMMA MappedParts ==
    ASSUME ToldInv, NEW k \in Mapped
    PROVE  /\ k \in Keys /\ nat_table[k] \in heap /\ key[nat_table[k]] = k
           /\ nat_table[k] \in Entries
           /\ timer[nat_table[k]] \in 0..Timeout /\ silent[k] \in 0..Forgotten /\ spent \in 0..MaxIter
           /\ Tells(nat_table[k], k)
<1>1. k \in Keys /\ nat_table[k] \in heap /\ key[nat_table[k]] = k
  BY DEF ToldInv, IndInv, TableSound, Mapped
<1>2. /\ nat_table[k] \in Entries /\ timer[nat_table[k]] \in 0..Timeout
      /\ silent[key[nat_table[k]]] \in 0..Forgotten /\ spent \in 0..MaxIter
  BY <1>1, EntryParts DEF ToldInv
<1>. QED  BY <1>1, <1>2 DEF ToldInv, Told

\* A packet of key k restarts the timer of entry a; the table leads to other
\* entries for the other keys, and to a for k if it leads anywhere.
LEMMA ToldOfPacket ==
    ASSUME ToldInv, NEW k \in Keys, NEW a \in Entries,
           timer' = [timer EXCEPT ![a] = Timeout], silent' = [silent EXCEPT ![k] = 0],
           spent' = spent, nat_table'[k] \in {a, None},
           \A l \in Keys \ {k} : nat_table'[l] = nat_table[l] /\ nat_table[l] # a
    PROVE  Told'
<1>1. SUFFICES ASSUME NEW l \in Keys, nat_table'[l] # None PROVE Tells(nat_table[l], l)'
  BY DEF Told, Mapped
<1>2. timer \in [Entries -> 0..Off] /\ silent \in [Keys -> 0..Forgotten]
  BY DEF ToldInv, IndInv, TypeOK
<1>3. CASE l = k
  <2>1. nat_table'[l] = a /\ timer'[a] = Timeout /\ silent'[l] = 0
    BY <1>1, <1>2, <1>3
  <2>. QED  BY <2>1, Constants DEF Tells
<1>4. CASE l # k
  <2>1. nat_table'[l] = nat_table[l] /\ nat_table[l] # a /\ l \in Mapped
    BY <1>1, <1>4 DEF Mapped
  <2>2. timer'[nat_table[l]] = timer[nat_table[l]] /\ silent'[l] = silent[l]
    BY <1>2, <1>4, <2>1, MappedParts
  <2>. QED  BY <2>1, <2>2, MappedParts DEF Tells
<1>. QED  BY <1>3, <1>4

LEMMA ToldPacket == ASSUME ToldInv, Packet PROVE Told'
<1>. USE Constants
<1>1. TypeOK
  BY DEF ToldInv, IndInv
<1>2. CASE NotIPv4
  BY <1>2 DEF NotIPv4, NextPacket, ToldInv, Told, Mapped, Tells
<1>3. ASSUME NEW k \in Keys, FlowHit(k) PROVE Told'
  <2>. DEFINE a == nat_table[k]
  <2>1. k \in Mapped /\ key[a] = k /\ a \in Entries
    BY <1>3, MappedParts DEF FlowHit, Mapped
  <2>2. ASSUME NEW l \in Keys \ {k} PROVE nat_table[l] # a
    <3>1. CASE l \in Mapped
      BY <2>1, <3>1, MappedParts
    <3>2. CASE l \notin Mapped
      BY <2>1, <3>2 DEF Mapped
    <3>. QED  BY <3>1, <3>2
  <2>3. /\ timer' = [timer EXCEPT ![a] = Timeout] /\ silent' = [silent EXCEPT ![k] = 0]
        /\ spent' = spent /\ nat_table' = nat_table
    BY <1>3 DEF FlowHit, NextPacket, RefreshTimer
  <2>4. nat_table'[k] \in {a, None}
    BY <2>3
  <2>. HIDE DEF a
  <2>. QED  BY <2>1, <2>2, <2>3, <2>4, ToldOfPacket
<1>4. ASSUME NEW k \in Keys, NEW a \in Entries, NewFlow(k, a) PROVE Told'
  <2>1. nat_table[k] = None /\ a \notin heap
    BY <1>4 DEF NewFlow
  <2>2. ASSUME NEW l \in Keys \ {k} PROVE nat_table[l] # a
    <3>1. CASE l \in Mapped
      BY <2>1, <3>1, MappedParts
    <3>2. CASE l \notin Mapped
      BY <3>2 DEF Mapped
    <3>. QED  BY <3>1, <3>2
  <2>3. /\ timer' = [timer EXCEPT ![a] = Timeout] /\ silent' = [silent EXCEPT ![k] = 0]
        /\ spent' = spent /\ AddKey(k, a)
    BY <1>4 DEF NewFlow, NextPacket, RefreshTimer
  <2>4. /\ nat_table'[k] \in {a, None}
        /\ \A l \in Keys \ {k} : nat_table'[l] = nat_table[l]
    BY <1>1, <2>1, <2>3 DEF AddKey, TypeOK
  <2>. QED  BY <2>2, <2>3, <2>4, ToldOfPacket
<1>. QED  BY <1>2, <1>3, <1>4 DEF Packet

LEMMA ToldTick == ASSUME ToldInv, Tick PROVE Told'
<1>1. SUFFICES ASSUME NEW k \in Mapped PROVE Tells(nat_table[k], k)'
  BY DEF Told, Tick, Mapped
<1>. DEFINE a == nat_table[k]
<1>2. /\ a \in Entries /\ k \in Keys /\ Tells(a, k)
      /\ timer[a] \in 0..Timeout /\ silent[k] \in 0..Forgotten /\ spent \in 0..MaxIter
  BY <1>1, MappedParts
<1>3. /\ spent < MaxIter /\ spent' = spent + 1 /\ nat_table' = nat_table
      /\ timer'[a] = IF timer[a] = 0 THEN 0 ELSE timer[a] - 1
      /\ silent'[k] = IF silent[k] + 1 <= Forgotten THEN silent[k] + 1 ELSE Forgotten
  BY <1>2, Constants DEF Tick, Lesser
<1>. QED  BY <1>2, <1>3, Constants DEF Tells

LEMMA ToldManage == ASSUME ToldInv, TimerManage PROVE Told'
<1>. DEFINE expired == {a \in Entries : timer[a] = 0}
<1>1. /\ nat_table' = [k \in Keys |-> IF \E a \in expired : key[a] = k THEN None ELSE nat_table[k]]
      /\ timer' = [a \in Entries |-> IF a \in expired THEN Off ELSE timer[a]]
      /\ UNCHANGED <<key, silent>>
  BY DEF TimerManage, FlowTimeout
<1>2. SUFFICES ASSUME NEW k \in Keys, nat_table'[k] # None PROVE Tells(nat_table[k], k)'
  BY DEF Told, Mapped
<1>3. k \in Mapped /\ nat_table'[k] = nat_table[k] /\ \A a \in expired : key[a] # k
  BY <1>1, <1>2 DEF Mapped
<1>4. timer'[nat_table[k]] = timer[nat_table[k]] /\ timer[nat_table[k]] # 0
  BY <1>1, <1>3, MappedParts
<1>. QED  BY <1>1, <1>3, <1>4, MappedParts DEF Tells

\* Steps that leave the entries and the time alone.
LEMMA ToldQuiet ==
    ASSUME ToldInv, UNCHANGED <<nat_table, timer, silent, spent>>
    PROVE  Told'
BY DEF ToldInv, Told, Mapped, Tells

LEMMA ToldInvNext == ASSUME ToldInv, [Next]_vars PROVE ToldInv'
<1>1. SUFFICES Told'
  BY IndInvNext DEF ToldInv
<1>2. CASE UNCHANGED vars
  BY <1>2, ToldQuiet DEF vars, program
<1>3. ASSUME NEW nb_rx \in 0..MaxBurst, Poll(nb_rx) PROVE Told'
  BY <1>3, ToldQuiet DEF Poll
<1>4. CASE CheckGlobalIdle
  <2>1. ClearDue => Mapped = {}
    BY <1>4, NothingLeftToClear DEF CheckGlobalIdle, ClearFindsNothing, ToldInv
  <2>2. CASE ClearDue
    BY <1>4, <2>2 DEF CheckGlobalIdle, Told, Mapped
  <2>3. CASE ~ClearDue
    BY <1>4, <2>3, ToldQuiet DEF CheckGlobalIdle
  <2>. QED  BY <2>2, <2>3
<1>. QED  BY <1>2, <1>3, <1>4, ToldTick, ToldPacket, ToldManage DEF Next

LEMMA ToldInvAlways == Spec => []ToldInv
<1>1. Init => ToldInv
  BY IndInvInit DEF Init, ToldInv, Told, Mapped
<1>2. ToldInv /\ [Next]_vars => ToldInv'
  BY ToldInvNext
<1>. QED  BY <1>1, <1>2, PTL DEF Spec

\* The key of a silent flow is gone within an iteration of the loop after its
\* timeout, also when the table is full and adds fail.
THEOREM SilentFlowsGo == Spec => []FlowForgottenInTime
<1>1. ToldInv => FlowForgottenInTime
  <2>1. SUFFICES ASSUME ToldInv, NEW k \in Mapped PROVE silent[k] < Timeout + MaxIter
    BY DEF FlowForgottenInTime
  <2>. QED  BY <2>1, MappedParts, Constants DEF Tells
<1>. QED  BY <1>1, ToldInvAlways, PTL

\* No expiry and no clearing takes the key of a flow that had a packet within
\* the timeout, unless it is the expiry of an entry whose add failed.
THEOREM ActiveFlowsAreKept == Spec => FlowKeptWhileActive
<1>. DEFINE Kept == \A k \in Keys : nat_table'[k] # nat_table[k] /\ nat_table[k] # None
                                      => \/ silent[k] >= Timeout
                                         \/ \E a \in heap \ {nat_table[k]} :
                                               key[a] = k /\ timer[a] = 0
<1>1. ToldInv /\ [Next]_vars => [Kept]_vars
  <2>1. SUFFICES ASSUME ToldInv, Next, NEW k \in Keys, nat_table'[k] # nat_table[k], nat_table[k] # None
                 PROVE  \/ silent[k] >= Timeout
                        \/ \E a \in heap \ {nat_table[k]} : key[a] = k /\ timer[a] = 0
    OBVIOUS
  <2>2. TypeOK /\ k \in Mapped
    BY <2>1 DEF ToldInv, IndInv, Mapped
  <2>3. ~CheckGlobalIdle
    <3>1. CheckGlobalIdle /\ ClearDue => Mapped = {}
      BY <2>1, NothingLeftToClear DEF CheckGlobalIdle, ClearFindsNothing, ToldInv
    <3>. QED  BY <2>1, <2>2, <3>1 DEF CheckGlobalIdle
  <2>4. ASSUME NEW l \in Keys, NEW a \in Entries, NewFlow(l, a) PROVE FALSE
    <3>1. l # k
      BY <2>1, <2>4 DEF NewFlow
    <3>. QED  BY <2>1, <2>2, <2>4, <3>1 DEF NewFlow, AddKey, TypeOK
  <2>5. ~(Tick \/ NotIPv4 \/ (\E nb_rx \in 0..MaxBurst : Poll(nb_rx)) \/ \E l \in Keys : FlowHit(l))
    BY <2>1 DEF Tick, NotIPv4, Poll, FlowHit
  <2>6. TimerManage
    BY <2>1, <2>3, <2>4, <2>5 DEF Next, Packet
  <2>7. PICK a \in Entries : timer[a] = 0 /\ key[a] = k
    BY <2>1, <2>6 DEF TimerManage, FlowTimeout
  <2>8. a \in heap
    BY <2>1, <2>7, Constants DEF ToldInv, IndInv, TimersInLiveEntries, Armed
  <2>9. CASE a = nat_table[k]
    BY <2>1, <2>2, <2>7, <2>9, MappedParts DEF Tells
  <2>10. CASE a # nat_table[k]
    BY <2>7, <2>8, <2>10
  <2>. QED  BY <2>9, <2>10
<1>. QED  BY <1>1, ToldInvAlways, PTL DEF Spec, FlowKeptWhileActive

-----------------------------------------------------------------------------
(* With room in the table for every key no add fails.                       *)

Roomy == IsFiniteSet(Keys) /\ Cardinality(Keys) <= HashEntries

\* The entries in memory are the table's.
Filed == \A a \in heap : nat_table[key[a]] = a

LEMMA RoomForNew ==
    ASSUME Roomy, NEW k \in Keys, nat_table[k] = None
    PROVE  Cardinality(Mapped) < HashEntries
<1>1. Mapped \subseteq Keys \ {k}
  BY DEF Mapped
<1>2. IsFiniteSet(Keys \ {k}) /\ Cardinality(Keys \ {k}) = Cardinality(Keys) - 1
  BY FS_RemoveElement DEF Roomy
<1>3. Cardinality(Mapped) <= Cardinality(Keys \ {k}) /\ IsFiniteSet(Mapped)
  BY <1>1, <1>2, FS_Subset
<1>4. Cardinality(Mapped) \in Nat /\ Cardinality(Keys) \in Nat
  BY <1>3, FS_CardinalityType DEF Roomy
<1>. QED  BY <1>2, <1>3, <1>4, Constants DEF Roomy

LEMMA FiledNew ==
    ASSUME Roomy, IndInv, Filed, NEW k \in Keys, NEW a \in Entries, NewFlow(k, a)
    PROVE  Filed'
<1>1. TypeOK
  BY DEF IndInv
<1>2. nat_table[k] = None /\ heap' = heap \cup {a} /\ key' = [key EXCEPT ![a] = k]
  BY DEF NewFlow
<1>3. nat_table' = [nat_table EXCEPT ![k] = a]
  BY <1>2, RoomForNew DEF NewFlow, AddKey
<1>4. SUFFICES ASSUME NEW b \in heap' PROVE nat_table'[key'[b]] = b
  BY DEF Filed
<1>5. CASE b = a
  BY <1>1, <1>2, <1>3, <1>5 DEF TypeOK
<1>6. CASE b # a
  <2>1. b \in heap /\ b \in Entries /\ b # None /\ key[b] \in Keys /\ nat_table[key[b]] = b
    BY <1>2, <1>4, <1>6, EntryParts DEF Filed
  <2>2. key'[b] = key[b] /\ key[b] # k
    BY <1>1, <1>2, <1>6, <2>1 DEF TypeOK
  <2>. QED  BY <1>1, <1>3, <2>1, <2>2 DEF TypeOK
<1>. QED  BY <1>5, <1>6

LEMMA FiledManage == ASSUME IndInv, Filed, TimerManage PROVE Filed'
<1>. DEFINE expired == {a \in Entries : timer[a] = 0}
<1>1. /\ heap' = heap \ expired
      /\ nat_table' = [k \in Keys |-> IF \E a \in expired : key[a] = k THEN None ELSE nat_table[k]]
      /\ key' = key
  BY DEF TimerManage, FlowTimeout
<1>2. expired \subseteq heap
  BY Constants DEF IndInv, TimersInLiveEntries, Armed
<1>3. SUFFICES ASSUME NEW b \in heap' PROVE nat_table'[key[b]] = b
  BY <1>1 DEF Filed
<1>4. b \in heap /\ key[b] \in Keys /\ nat_table[key[b]] = b /\ b \notin expired
  BY <1>1, <1>3, EntryParts DEF Filed
<1>5. \A a \in expired : key[a] # key[b]
  BY <1>2, <1>4 DEF Filed
<1>. QED  BY <1>1, <1>4, <1>5

\* With room for all keys every entry in memory is the one its key leads to;
\* by ActiveFlowsAreKept an active flow then keeps its entry without exception.
THEOREM RoomLeavesNoStrays == ASSUME Roomy PROVE Spec => []Filed
<1>1. Init => Filed
  BY DEF Init, Filed
<1>2. IndInv /\ Filed /\ [Next]_vars => Filed'
  <2>1. SUFFICES ASSUME IndInv, Filed, [Next]_vars PROVE Filed'
    OBVIOUS
  <2>2. CASE CheckGlobalIdle
    <3>1. ClearDue => heap = {}
      BY <2>1, <2>2, NothingLeftToClear DEF CheckGlobalIdle, ClearFindsNothing
    <3>. QED  BY <2>1, <2>2, <3>1 DEF CheckGlobalIdle, Filed
  <2>3. CASE \/ UNCHANGED vars \/ Tick \/ NotIPv4
             \/ (\E nb_rx \in 0..MaxBurst : Poll(nb_rx)) \/ \E k \in Keys : FlowHit(k)
    BY <2>1, <2>3 DEF vars, program, Tick, NotIPv4, Poll, FlowHit, Filed
  <2>. QED  BY <2>1, <2>2, <2>3, FiledNew, FiledManage DEF Next, Packet
<1>. QED  BY <1>1, <1>2, IndInvAlways, PTL DEF Spec
=============================================================================
