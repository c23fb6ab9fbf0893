---------------------------- MODULE NatTwoTables ----------------------------
(***************************************************************************)
(* src/NAT/NAT_twoTables/main.c: translation of outgoing flows to public   *)
(* ports and back.  An entry is found through fwd_table by flow and        *)
(* through rev_table by public port; its timer removes it from both.       *)
(*                                                                         *)
(* The results of rte_hash_add_key_data are ignored, next_port is a        *)
(* uint16_t that wraps, and the two bytes of padding of a stored rev_key   *)
(* are whatever rte_malloc's memory held.  So an entry may be missing from *)
(* a table, or have its public port taken over by a younger entry, or be   *)
(* filed under a key no lookup uses.  The module says what still holds     *)
(* then, and what holds as long as it has not happened.                    *)
(*                                                                         *)
(* One lcore calls process_egress, process_ingress and rte_timer_manage,   *)
(* in any order and with any time between the calls.  A flow is its        *)
(* fwd_key; of a rev_key the public port and the padding are kept, as      *)
(* PUBLIC_IP is the only address.                                          *)
(***************************************************************************)
EXTENDS Naturals, FiniteSets

CONSTANTS Flows,        \* fwd_key values
          Entries,      \* addresses rte_malloc may return; bounds the heap
          None,         \* no entry
          PortSpace,    \* number of values of next_port (2^16)
          FirstPort,    \* initial value of next_port (10000)
          Padding,      \* what the padding of a new entry's rev may hold
          HashEntries,  \* .entries of each table (1024)
          Timeout       \* ticks after which a flow expires (5 * hz)

ASSUME ConstantsAssumption ==
    /\ None \notin Entries
    /\ {PortSpace, HashEntries, Timeout} \subseteq Nat \ {0}
    /\ FirstPort \in 0..PortSpace - 1
    /\ 0 \in Padding

VARIABLES fwd_table,    \* flow -> entry, None where absent
          rev_table,    \* rev_key -> entry, None where absent
          heap,         \* addresses of entries allocated and not freed
          fwd,          \* the fwd_key stored in an entry
          rev,          \* the rev_key stored in an entry
          timer,        \* ticks left on an armed timer, Off if not armed
          next_port,
          silent,       \* history: ticks since a flow's last packet
          clean         \* history: every entry so far was filed as intended

tables == <<fwd_table, rev_table>>
entries == <<heap, fwd, rev, timer>>
vars == <<tables, entries, next_port, silent, clean>>

Ports == 0..PortSpace - 1
RevKeys == Ports \X Padding
Off == Timeout + 1
Armed == {a \in Entries : timer[a] # Off}
MappedFlows == {f \in Flows : fwd_table[f] # None}
MappedRevKeys == {r \in RevKeys : rev_table[r] # None}

Init ==
    /\ fwd_table = [f \in Flows |-> None]
    /\ rev_table = [r \in RevKeys |-> None]
    /\ heap = {}
    /\ fwd \in [Entries -> Flows]
    /\ rev = [a \in Entries |-> <<FirstPort, 0>>]       \* written before read
    /\ timer = [a \in Entries |-> Off]
    /\ next_port = FirstPort
    /\ silent = [f \in Flows |-> Timeout]
    /\ clean = TRUE

-----------------------------------------------------------------------------
Tick ==                                 \* time passes
    /\ timer' = [a \in Entries |-> IF timer[a] \in {0, Off} THEN timer[a] ELSE timer[a] - 1]
    /\ silent' = [f \in Flows |-> IF silent[f] = Timeout THEN Timeout ELSE silent[f] + 1]
    /\ UNCHANGED <<tables, heap, fwd, rev, next_port, clean>>

\* refresh_timer: rte_timer_reset(5 * hz, SINGLE)
RefreshTimer(a) == timer' = [timer EXCEPT ![a] = Timeout]

\* The packet of flow f just translated counts as its use.
Used(f) == silent' = [silent EXCEPT ![f] = 0]

EgressHit(f) ==                         \* process_egress of a known flow
    /\ fwd_table[f] # None
    /\ RefreshTimer(fwd_table[f])
    /\ Used(f)
    /\ UNCHANGED <<tables, heap, fwd, rev, next_port, clean>>

\* rte_hash_add_key_data: overwrites the data of a key that is present, and
\* fails for an absent key when the table is full.
HasRoom(mapped, k) == k \in mapped \/ Cardinality(mapped) < HashEntries
With(table, mapped, k, a) ==
    IF HasRoom(mapped, k) THEN [table EXCEPT ![k] = a] ELSE table

\* next_port++ of a uint16_t.
NextPort == (next_port + 1) % PortSpace

\* Mutant: the rev_key is built after next_port++, from next_port.
NewRevKeyLate(padding) == <<(next_port + 1) % PortSpace, padding>>

\* The key an entry is put into rev_table with.
NewRevKey(padding) == <<next_port, padding>>

EgressNew(f, a, padding) ==             \* process_egress: a new entry at a
    /\ fwd_table[f] = None
    /\ a \notin heap
    /\ heap' = heap \cup {a}
    /\ fwd' = [fwd EXCEPT ![a] = f]
    /\ rev' = [rev EXCEPT ![a] = <<next_port, padding>>]
    /\ next_port' = NextPort
    /\ fwd_table' = With(fwd_table, MappedFlows, f, a)
    /\ rev_table' = With(rev_table, MappedRevKeys, NewRevKey(padding), a)
    /\ RefreshTimer(a)
    /\ Used(f)
    /\ clean' = (/\ clean
                 /\ padding = 0
                 /\ HasRoom(MappedFlows, f)
                 /\ HasRoom(MappedRevKeys, <<next_port, 0>>)
                 /\ \A b \in heap : rev[b] # <<next_port, 0>>)

\* Mutant: a reply does not refresh the flow.
IngressNoRefresh(p) ==
    /\ rev_table[<<p, 0>>] # None
    /\ Used(fwd[rev_table[<<p, 0>>]])
    /\ UNCHANGED <<tables, entries, next_port, clean>>

Ingress(p) ==                           \* process_ingress; a miss only drops
    /\ rev_table[<<p, 0>>] # None
    /\ RefreshTimer(rev_table[<<p, 0>>])
    /\ Used(fwd[rev_table[<<p, 0>>]])
    /\ UNCHANGED <<tables, heap, fwd, rev, next_port, clean>>

\* rte_hash_del_key: the key goes, whichever entry it leads to.
Without(table, gone) == [k \in DOMAIN table |-> IF k \in gone THEN None ELSE table[k]]
Stopped(due) == [a \in Entries |-> IF a \in due THEN Off ELSE timer[a]]

\* Mutants of FlowTimeout: the rev_key stays; the timer is PERIODICAL; an
\* entry is freed only if fwd_table leads to it.
FlowTimeoutFwdOnly(due) ==
    /\ fwd_table' = Without(fwd_table, {fwd[a] : a \in due})
    /\ rev_table' = rev_table
    /\ heap' = heap \ due
    /\ timer' = Stopped(due)
FlowTimeoutPeriodical(due) ==
    /\ fwd_table' = Without(fwd_table, {fwd[a] : a \in due})
    /\ rev_table' = Without(rev_table, {rev[a] : a \in due})
    /\ heap' = heap \ due
    /\ timer' = [a \in Entries |-> IF a \in due THEN Timeout ELSE timer[a]]
FlowTimeoutIfMapped(due) ==
    /\ fwd_table' = Without(fwd_table, {fwd[a] : a \in due})
    /\ rev_table' = Without(rev_table, {rev[a] : a \in due})
    /\ heap' = heap \ {a \in due : fwd_table[fwd[a]] = a}
    /\ timer' = Stopped(due)

\* flow_timeout_cb of every entry in due
FlowTimeout(due) ==
    /\ fwd_table' = Without(fwd_table, {fwd[a] : a \in due})
    /\ rev_table' = Without(rev_table, {rev[a] : a \in due})
    /\ heap' = heap \ due
    /\ timer' = Stopped(due)

TimerManage ==                          \* rte_timer_manage
    /\ FlowTimeout({a \in Entries : timer[a] = 0})
    /\ UNCHANGED <<fwd, rev, next_port, silent, clean>>

Next ==
    \/ Tick
    \/ \E f \in Flows :
         \/ EgressHit(f)
         \/ \E a \in Entries, padding \in Padding : EgressNew(f, a, padding)
    \/ \E p \in Ports : Ingress(p)
    \/ TimerManage

Spec == Init /\ [][Next]_vars

-----------------------------------------------------------------------------
\* The types of the variables.
TypeOK ==
    /\ fwd_table \in [Flows -> Entries \cup {None}]
    /\ rev_table \in [RevKeys -> Entries \cup {None}]
    /\ heap \subseteq Entries
    /\ fwd \in [Entries -> Flows]
    /\ rev \in [Entries -> RevKeys]
    /\ timer \in [Entries -> 0..Off]
    /\ next_port \in Ports
    /\ silent \in [Flows -> 0..Timeout]
    /\ clean \in BOOLEAN

\* Neither table leads to freed memory or to an entry with another key
\* (main.c:120, 164 use what they find), whatever adds failed, whatever the
\* padding was and however often the ports wrapped around.
TablesSound ==
    /\ \A f \in MappedFlows : fwd_table[f] \in heap /\ fwd[fwd_table[f]] = f
    /\ \A r \in MappedRevKeys : rev_table[r] \in heap /\ rev[rev_table[r]] = r

\* An entry in memory, mapped or not, has the timer that will free it.
TimersInLiveEntries == Armed = heap

\* As long as every entry was filed as intended, a reply comes back to where
\* its flow started: the entry of a flow is the one process_ingress finds
\* under the port process_egress wrote, so no two flows share a port.
RoundTrip ==
    clean => \A a \in heap : /\ fwd_table[fwd[a]] = a
                             /\ rev_table[<<rev[a][1], 0>>] = a

\* A flow that is used within the timeout, in either direction, keeps its
\* entry and with it its public port.  What failed adds, ports taken over and
\* odd padding can do to it is limited to a flow with a second entry in memory:
\* the timer of either deletes the flow's key (main.c:91).  By RoundTrip
\* there is none as long as every entry was filed as intended.
FlowKeptWhileActive ==
    [][\A f \in MappedFlows :
         fwd_table'[f] # fwd_table[f]
           => \/ silent[f] >= Timeout
              \/ \E b \in heap \ {fwd_table[f]} : fwd[b] = f]_vars

\* An entry that neither table leads to any more, after failed adds or a port
\* taken over, is lost to packets for good, but not leaked: nothing refreshes or
\* stops its timer (main.c:120, 164), which runs down and frees it.
Orphan(a) == /\ a \in heap
             /\ \A f \in Flows : fwd_table[f] # a
             /\ \A r \in RevKeys : rev_table[r] # a
OrphansRunDown ==
    [][\A a \in Entries :
         Orphan(a) => \/ timer[a] = 0 /\ a \notin heap'
                      \/ Orphan(a)' /\ timer'[a] \in {timer[a], timer[a] - 1}]_vars
=============================================================================
