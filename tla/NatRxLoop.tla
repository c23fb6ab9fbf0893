----------------------------- MODULE NatRxLoop -----------------------------
(***************************************************************************)
(* src/NAT/NWT_actualPkts/main.c: one lcore runs, for ever, rx_burst, the  *)
(* handling of each packet, rte_timer_manage and check_global_idle.  A     *)
(* flow is an entry in rte_malloc'ed memory, found through nat_table and   *)
(* freed either by its own timer or by the clearing of an idle table.      *)
(* The timer lives inside the entry: freeing an armed entry leaves the     *)
(* timer engine with a pointer into freed memory.                          *)
(*                                                                         *)
(* Time is counted in ticks that pass between any two steps.  Everything   *)
(* is kept relative to now, so the state space needs no bound on time.     *)
(* A packet is its nat_key; the public port an entry is given is not used  *)
(* again by this program and is left out, as is the mbuf, which both ways  *)
(* through the packet loop free once.                                      *)
(***************************************************************************)
EXTENDS Naturals, FiniteSets

CONSTANTS Keys,         \* nat_key values
          Entries,      \* addresses rte_malloc may return; bounds the heap
          None,         \* no entry
          HashEntries,  \* .entries of nat_table (1024)
          Timeout,      \* ticks after which a flow expires (5 * hz)
          Idle,         \* ticks without traffic before clearing (10 * hz)
          MaxBurst,     \* most packets one rx_burst returns (32)
          MaxIter       \* most ticks between two calls of rte_timer_manage

ASSUME ConstantsAssumption ==
    /\ None \notin Entries
    /\ {HashEntries, Timeout, Idle, MaxBurst, MaxIter} \subseteq Nat \ {0}

\* The loop comes round often enough: the margin between the two timeouts
\* covers two iterations (with 5 s and 10 s, an iteration of up to 3 s).
ASSUME TimingAssumption == Timeout + 2 * MaxIter <= Idle + 1

VARIABLES nat_table,      \* key -> entry, None where absent
          heap,           \* addresses of entries allocated and not freed
          key,            \* the key stored in an entry
          timer,          \* ticks left on an armed timer, Off if not armed
          idle,           \* ticks since global_last_pkt, up to Idle + 1
          table_cleared,
          pc,             \* where the loop is
          todo,           \* packets of the burst still to be handled
          spent,          \* ticks since the last rte_timer_manage
          silent          \* history: ticks since a key's last packet

program == <<nat_table, heap, key, timer, idle, table_cleared, pc, todo>>
vars == <<program, spent, silent>>

Off == Timeout + 1
Forgotten == Timeout + MaxIter
Armed == {a \in Entries : timer[a] # Off}
Mapped == {k \in Keys : nat_table[k] # None}

Init ==
    /\ nat_table = [k \in Keys |-> None]
    /\ heap = {}
    /\ key \in [Entries -> Keys]                \* rte_malloc does not clear
    /\ timer = [a \in Entries |-> Off]
    /\ idle = 0
    /\ table_cleared = FALSE
    /\ pc = "poll"
    /\ todo = 0
    /\ spent = 0
    /\ silent = [k \in Keys |-> Forgotten]

Lesser(a, b) == IF a <= b THEN a ELSE b

-----------------------------------------------------------------------------
Tick ==                                 \* a second passes
    /\ spent < MaxIter
    /\ spent' = spent + 1
    /\ timer' = [a \in Entries |-> IF timer[a] \in {0, Off} THEN timer[a] ELSE timer[a] - 1]
    /\ idle' = Lesser(idle + 1, Idle + 1)
    /\ silent' = [k \in Keys |-> Lesser(silent[k] + 1, Forgotten)]
    /\ UNCHANGED <<nat_table, heap, key, table_cleared, pc, todo>>

\* Mutant: the arrival of packets does not update global_last_pkt.
PollStale(nb_rx) ==
    /\ pc = "poll"
    /\ pc' = IF nb_rx > 0 THEN "packets" ELSE "manage"
    /\ table_cleared' = (nb_rx = 0 /\ table_cleared)
    /\ todo' = nb_rx
    /\ UNCHANGED <<nat_table, heap, key, timer, idle, spent, silent>>

Poll(nb_rx) ==                          \* rte_eth_rx_burst
    /\ pc = "poll"
    /\ IF nb_rx > 0
         THEN /\ idle' = 0              \* global_last_pkt = rte_rdtsc()
              /\ table_cleared' = FALSE
              /\ pc' = "packets"
         ELSE /\ UNCHANGED <<idle, table_cleared>>
              /\ pc' = "manage"
    /\ todo' = nb_rx
    /\ UNCHANGED <<nat_table, heap, key, timer, spent, silent>>

NextPacket ==
    /\ pc = "packets"
    /\ todo' = todo - 1
    /\ pc' = IF todo = 1 THEN "manage" ELSE "packets"
    /\ UNCHANGED <<idle, table_cleared, spent>>

NotIPv4 ==                              \* freed and skipped
    /\ NextPacket
    /\ UNCHANGED <<nat_table, heap, key, timer, silent>>

\* refresh_timer: rte_timer_reset(5 * hz, SINGLE)
RefreshTimer(a) == timer' = [timer EXCEPT ![a] = Timeout]

\* rte_hash_add_key_data of an absent key: fails, unnoticed, on a full table
AddKey(k, a) ==
    nat_table' = IF Cardinality(Mapped) < HashEntries
                   THEN [nat_table EXCEPT ![k] = a]
                   ELSE nat_table

\* Mutant: a packet of a known flow does not refresh its timer.
FlowHitNoRefresh(k) ==
    /\ NextPacket
    /\ nat_table[k] # None
    /\ silent' = [silent EXCEPT ![k] = 0]
    /\ UNCHANGED <<nat_table, heap, key, timer>>

FlowHit(k) ==                           \* rte_hash_lookup_data finds the entry
    /\ NextPacket
    /\ nat_table[k] # None
    /\ RefreshTimer(nat_table[k])
    /\ silent' = [silent EXCEPT ![k] = 0]
    /\ UNCHANGED <<nat_table, heap, key>>

NewFlow(k, a) ==                        \* it does not: a new entry at address a
    /\ NextPacket
    /\ nat_table[k] = None
    /\ a \notin heap
    /\ heap' = heap \cup {a}
    /\ key' = [key EXCEPT ![a] = k]
    /\ AddKey(k, a)
    /\ RefreshTimer(a)
    /\ silent' = [silent EXCEPT ![k] = 0]

\* Mutant: the callback frees the entry but leaves its key in the table.
FlowTimeoutNoDelete(expired) ==
    /\ heap' = heap \ expired
    /\ timer' = [a \in Entries |-> IF a \in expired THEN Off ELSE timer[a]]
    /\ UNCHANGED nat_table

\* flow_timeout_cb of every entry in expired: deletes the key, whichever entry
\* it leads to, and frees the entry.
FlowTimeout(expired) ==
    /\ nat_table' = [k \in Keys |-> IF \E a \in expired : key[a] = k
                                      THEN None ELSE nat_table[k]]
    /\ heap' = heap \ expired
    /\ timer' = [a \in Entries |-> IF a \in expired THEN Off ELSE timer[a]]

TimerManage ==                          \* rte_timer_manage
    /\ pc = "manage"
    /\ FlowTimeout({a \in Entries : timer[a] = 0})
    /\ spent' = 0
    /\ pc' = "idle"
    /\ UNCHANGED <<key, idle, table_cleared, todo, silent>>

\* Mutant: the table is cleared after the timeout of a single flow.
ClearDueEarly == ~table_cleared /\ idle >= Timeout

ClearDue == ~table_cleared /\ idle > Idle

CheckGlobalIdle ==                      \* check_global_idle: timers stay armed
    /\ pc = "idle"
    /\ IF ClearDue
         THEN /\ heap' = heap \ {nat_table[k] : k \in Mapped}
              /\ nat_table' = [k \in Keys |-> None]
              /\ table_cleared' = TRUE
         ELSE UNCHANGED <<heap, nat_table, table_cleared>>
    /\ pc' = "poll"
    /\ UNCHANGED <<key, timer, idle, todo, spent, silent>>

Packet == NotIPv4 \/ \E k \in Keys : FlowHit(k) \/ \E a \in Entries : NewFlow(k, a)

Next ==
    \/ Tick
    \/ \E nb_rx \in 0..MaxBurst : Poll(nb_rx)
    \/ Packet
    \/ TimerManage
    \/ CheckGlobalIdle

Spec == Init /\ [][Next]_vars

-----------------------------------------------------------------------------
\* The types of the variables.
TypeOK ==
    /\ nat_table \in [Keys -> Entries \cup {None}]
    /\ heap \subseteq Entries
    /\ key \in [Entries -> Keys]
    /\ timer \in [Entries -> 0..Off]
    /\ idle \in 0..Idle + 1
    /\ table_cleared \in BOOLEAN
    /\ pc \in {"poll", "packets", "manage", "idle"}
    /\ todo \in 0..MaxBurst
    /\ pc = "packets" => todo > 0
    /\ spent \in 0..MaxIter
    /\ silent \in [Keys -> 0..Forgotten]

\* The timer engine never holds a timer in freed memory, although clearing
\* an idle table (main.c:107-112) frees entries without stopping their
\* timers; and every entry in memory still has the timer that will free it.
TimersInLiveEntries == Armed = heap

\* The table never leads to freed memory or to another flow's entry
\* (main.c:213, 240 use what they find): not after an expiry, not after a
\* clearing, and not when an add failed.
TableSound ==
    \A k \in Mapped : nat_table[k] \in heap /\ key[nat_table[k]] = k

\* When the idle table is cleared there is nothing left to free: the flows'
\* own timers were first.  That is why TimersInLiveEntries holds.
ClearFindsNothing == pc = "idle" /\ ClearDue => heap = {} /\ Mapped = {}

\* A flow whose packets keep coming keeps its entry: a mapping disappears only
\* after a whole timeout without a packet, however expiries, packets of other
\* flows and the clearing of the table interleave.  The one exception is an
\* entry of the same key that the table does not lead to: its add failed
\* unnoticed (main.c:234), and its timer, which nothing refreshes, deletes the
\* key of a younger entry (main.c:75).
FlowKeptWhileActive ==
    [][\A k \in Keys : nat_table'[k] # nat_table[k] /\ nat_table[k] # None
                         => \/ silent[k] >= Timeout
                            \/ \E a \in heap \ {nat_table[k]} :
                                  key[a] = k /\ timer[a] = 0]_vars

\* ... and a silent flow is gone at most one iteration after its timeout.
FlowForgottenInTime == \A k \in Mapped : silent[k] < Timeout + MaxIter
=============================================================================
