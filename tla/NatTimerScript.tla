--------------------------- MODULE NatTimerScript ---------------------------
(***************************************************************************)
(* src/NAT/Nat_with_TIMER/nwt.c: main sends a fixed script of packets and  *)
(* sleeps through process_packet and then, for ever, calls                 *)
(* rte_timer_manage, check_global_idle and sleep(1).  Timers fire only in  *)
(* that loop, so the script runs against a table that nothing expires.     *)
(*                                                                         *)
(* process_packet writes the translated endpoint into the caller's packet  *)
(* and leaves the padding of the key it looks up uninitialised.            *)
(*                                                                         *)
(* An endpoint is an address with a port: that of a host, or PUBLIC_IP     *)
(* with a public port, which stands for itself.  All flows go to the same  *)
(* server, so a nat_key is the source endpoint and the padding.            *)
(***************************************************************************)
EXTENDS Naturals, Sequences, FiniteSets

CONSTANTS Packets,      \* main's packet structs: p1, p2
          Initially,    \* packet -> [ingress, end], with end the endpoint
                        \*   that is translated: source, or destination
          Hosts,        \* endpoints of hosts
          Entries,      \* addresses rte_malloc may return; bounds the heap
          None,         \* no entry
          FirstPort,    \* initial value of next_port (10000)
          Padding,      \* what the padding of key may hold
          Timeout,      \* ticks after which a flow expires (5 * hz)
          Idle,         \* ticks without traffic before clearing (10 * hz)
          Late,         \* most ticks lost between two calls
          Scripts       \* sequences of <<"packet", p>> and <<"sleep", ticks>>

PublicPorts == FirstPort..FirstPort + Cardinality(Entries)
Endpoints == Hosts \cup PublicPorts
Keys == Endpoints \X Padding
Step == ({"packet"} \X Packets) \cup ({"sleep"} \X (Nat \ {0}))

\* An entry just refreshed has not been idle for long when the loop looks.
SizeAssumption ==
    /\ None \notin Entries /\ IsFiniteSet(Entries)
    /\ {FirstPort, Timeout, Idle} \subseteq Nat \ {0} /\ Late \in Nat
    /\ Timeout + Late <= Idle + 1
    /\ Initially \in [Packets -> [ingress : BOOLEAN, end : Endpoints]]
    /\ \A s \in Scripts : s \in Seq(Step) /\ s # <<>>

VARIABLES script,       \* what main does before its loop
          pkt,          \* the packet structs
          nat_table,    \* key -> entry, None where absent
          heap,         \* addresses of entries allocated and not freed
          key,          \* the key stored in an entry
          private,      \* private_ip and private_port of an entry
          public_port,  \* public_port of an entry
          timer,        \* ticks left on an armed timer, Off if not armed
          next_port,
          idle,         \* ticks since global_last_pkt, up to Idle + 1
          table_cleared,
          pc,           \* 1.. in the script, then "manage" and "check"
          nap,          \* ticks left of a sleep
          lost,         \* ticks lost since the last call
          served        \* history: the entry a packet struct was last given

entries == <<heap, key, private, public_port, timer, next_port>>
vars == <<script, pkt, nat_table, entries, idle, table_cleared, pc, nap, lost, served>>

Off == Timeout + 1
Armed == {a \in Entries : timer[a] # Off}
Mapped == {k \in Keys : nat_table[k] # None}
Lesser(a, b) == IF a <= b THEN a ELSE b

After(i) == IF i < Len(script) THEN <<"script", i + 1>> ELSE <<"manage", 0>>

Init ==
    /\ script \in Scripts
    /\ pkt = Initially
    /\ nat_table = [k \in Keys |-> None]
    /\ heap = {}
    /\ key = [a \in Entries |-> None]                   \* written before read
    /\ private = [a \in Entries |-> None]
    /\ public_port = [a \in Entries |-> None]
    /\ timer = [a \in Entries |-> Off]
    /\ next_port = FirstPort
    /\ idle = 0
    /\ table_cleared = FALSE
    /\ pc = <<"script", 1>>
    /\ nap = 0
    /\ lost = 0
    /\ served = [p \in Packets |-> None]

-----------------------------------------------------------------------------
Tick ==                                 \* a second passes, asleep or not
    /\ nap > 0 \/ lost < Late
    /\ nap' = IF nap > 0 THEN nap - 1 ELSE 0
    /\ lost' = IF nap > 0 THEN 0 ELSE lost + 1
    /\ timer' = [a \in Entries |-> IF timer[a] \in {0, Off} THEN timer[a] ELSE timer[a] - 1]
    /\ idle' = Lesser(idle + 1, Idle + 1)
    /\ UNCHANGED <<script, pkt, nat_table, heap, key, private, public_port, next_port,
                   table_cleared, pc, served>>

\* The next call main makes, once it is awake.
Call(label) == nap = 0 /\ pc[1] = label /\ lost' = 0 /\ UNCHANGED script
ScriptStep(op) == Call("script") /\ script[pc[2]][1] = op /\ pc' = After(pc[2])
Arg == script[pc[2]][2]

Sleep ==
    /\ ScriptStep("sleep")
    /\ nap' = Arg
    /\ UNCHANGED <<pkt, nat_table, entries, idle, table_cleared, served>>

\* refresh_timer: rte_timer_reset(5 * hz, SINGLE)
RefreshTimer(a) == timer' = [timer EXCEPT ![a] = Timeout]

ProcessPacket(p) ==                     \* what every process_packet does
    /\ ScriptStep("packet")
    /\ p = Arg
    /\ idle' = 0                        \* global_last_pkt = rte_rdtsc()
    /\ table_cleared' = FALSE
    /\ UNCHANGED nap

EgressHit(p, padding) ==                \* the key is found
    LET a == nat_table[<<pkt[p].end, padding>>]
    IN  /\ ProcessPacket(p)
        /\ ~pkt[p].ingress
        /\ a # None
        /\ RefreshTimer(a)
        /\ pkt' = [pkt EXCEPT ![p].end = public_port[a]]
        /\ served' = [served EXCEPT ![p] = a]
        /\ UNCHANGED <<nat_table, heap, key, private, public_port, next_port>>

EgressNew(p, padding, a) ==             \* it is not: a new entry at a
    LET k == <<pkt[p].end, padding>>
    IN  /\ ProcessPacket(p)
        /\ ~pkt[p].ingress
        /\ nat_table[k] = None
        /\ a \notin heap
        /\ heap' = heap \cup {a}
        /\ key' = [key EXCEPT ![a] = k]
        /\ private' = [private EXCEPT ![a] = pkt[p].end]
        /\ public_port' = [public_port EXCEPT ![a] = next_port]
        /\ next_port' = next_port + 1
        /\ nat_table' = [nat_table EXCEPT ![k] = a]
        /\ RefreshTimer(a)
        /\ pkt' = [pkt EXCEPT ![p].end = next_port]
        /\ served' = [served EXCEPT ![p] = a]

\* rte_hash_iterate over the table until an entry has the packet's port
Matching(p) == {a \in Entries : /\ \E k \in Mapped : nat_table[k] = a
                                /\ public_port[a] = pkt[p].end}

Ingress(p) ==
    /\ ProcessPacket(p)
    /\ pkt[p].ingress
    /\ \/ \E a \in Matching(p) :
            /\ pkt' = [pkt EXCEPT ![p].end = private[a]]
            /\ RefreshTimer(a)
            /\ served' = [served EXCEPT ![p] = a]
       \/ /\ Matching(p) = {}
          /\ UNCHANGED <<pkt, timer, served>>
    /\ UNCHANGED <<nat_table, heap, key, private, public_port, next_port>>

Traffic ==
    \E p \in Packets :
      \/ \E padding \in Padding : \/ EgressHit(p, padding)
                                  \/ \E a \in Entries : EgressNew(p, padding, a)
      \/ Ingress(p)

\* Mutants of FlowTimeout: the key to delete is built again, with clean
\* padding, as before "FIX: store key" (nwt.c:39); the entry is not freed.
FlowTimeoutRebuilt(due) ==
    /\ nat_table' = [k \in Keys |-> IF \E a \in due : <<private[a], 0>> = k
                                      THEN None ELSE nat_table[k]]
    /\ heap' = heap \ due
    /\ timer' = [a \in Entries |-> IF a \in due THEN Off ELSE timer[a]]
FlowTimeoutLeak(due) ==
    /\ nat_table' = [k \in Keys |-> IF \E a \in due : key[a] = k THEN None ELSE nat_table[k]]
    /\ timer' = [a \in Entries |-> IF a \in due THEN Off ELSE timer[a]]
    /\ heap' = heap

\* flow_timeout_cb of every entry in due
FlowTimeout(due) ==
    /\ nat_table' = [k \in Keys |-> IF \E a \in due : key[a] = k THEN None ELSE nat_table[k]]
    /\ heap' = heap \ due
    /\ timer' = [a \in Entries |-> IF a \in due THEN Off ELSE timer[a]]

TimerManage ==                          \* rte_timer_manage
    /\ Call("manage")
    /\ FlowTimeout({a \in Entries : timer[a] = 0})
    /\ pc' = <<"check", pc[2]>>
    /\ UNCHANGED <<pkt, key, private, public_port, next_port, idle, table_cleared, nap, served>>

\* Mutant: the table is cleared after the timeout of a single flow.
ClearDueEarly == ~table_cleared /\ idle >= Timeout

ClearDue == ~table_cleared /\ idle > Idle

CheckGlobalIdle ==                      \* check_global_idle; sleep(1)
    /\ Call("check")
    /\ IF ClearDue
         THEN /\ heap' = heap \ {nat_table[k] : k \in Mapped}
              /\ nat_table' = [k \in Keys |-> None]
              /\ table_cleared' = TRUE
         ELSE UNCHANGED <<heap, nat_table, table_cleared>>
    /\ pc' = <<"manage", 1>>
    /\ nap' = 1
    /\ UNCHANGED <<pkt, key, private, public_port, timer, next_port, idle, served>>

Main == Sleep \/ Traffic \/ TimerManage \/ CheckGlobalIdle

Next == Tick \/ Main

Spec == Init /\ [][Next]_vars

\* One lcore, which does not stop; sleep returns.
FairSpec == Spec /\ WF_vars(Tick) /\ WF_vars(Main)

-----------------------------------------------------------------------------
\* The types of the variables.
TypeOK ==
    /\ pkt \in [Packets -> [ingress : BOOLEAN, end : Endpoints]]
    /\ nat_table \in [Keys -> Entries \cup {None}]
    /\ heap \subseteq Entries
    /\ \A a \in heap : key[a] \in Keys /\ private[a] \in Endpoints /\ public_port[a] \in PublicPorts
    /\ timer \in [Entries -> 0..Off]
    /\ next_port \in PublicPorts
    /\ idle \in 0..Idle + 1
    /\ table_cleared \in BOOLEAN
    /\ pc \in ({"script"} \X (1..Len(script))) \cup ({"manage", "check"} \X {0, 1})
    /\ nap \in Nat /\ lost \in 0..Late
    /\ served \in [Packets -> Entries \cup {None}]

\* However long the timers were overdue when the loop began: none is armed in
\* freed memory, and every entry in memory still has one.
TimersInLiveEntries == Armed = heap

\* Every entry in memory is found by the key it holds and by no other, and
\* no two have the same public port: what the search of process_packet for a
\* reply's entry (nwt.c:142-159) relies on, which stops at the first match.
OneEntryPerKeyAndPort ==
    /\ TypeOK
    /\ \A k \in Mapped : nat_table[k] \in heap /\ key[nat_table[k]] = k
    /\ \A a \in heap : nat_table[key[a]] = a
    /\ \A a, b \in heap : public_port[a] = public_port[b] => a = b

\* In the end nothing is left: each flow is freed once the loop runs.
Drained == <>[](heap = {} /\ Mapped = {})

\* "refresh flow" (nwt.c:228): passing on a packet a second time, while the
\* entry it was given is alive, refreshes that entry's timer.
Refreshes ==
    [][\A p \in Packets :
         pc[1] = "script" /\ script[pc[2]] = <<"packet", p>> /\ pc' # pc /\ served[p] \in heap
           => timer'[served[p]] = Timeout]_vars
=============================================================================
