----------------------------- MODULE NatCleanup -----------------------------
(***************************************************************************)
(* src/NAT/main.c: the translator that ages its mappings by last_seen.     *)
(* nat_callback files the mapping of an outgoing flow in nat_table, finds  *)
(* the mapping of a reply by walking the table, and stamps what it finds;  *)
(* nat_cleanup walks the table and deletes what is older than the timeout. *)
(*                                                                         *)
(* The padding of key is whatever the stack held (main.c:89), the result   *)
(* of rte_hash_add_key_data is ignored (main.c:119), next_port wraps       *)
(* (main.c:74).  One lcore makes the calls, in any order and with any time *)
(* between them; main() makes them in one such order.                      *)
(***************************************************************************)
EXTENDS Naturals, FiniteSets

CONSTANTS Flows,        \* the fields of a nat_key, without its padding
          Entries,      \* addresses rte_malloc may return; bounds the heap
          None,         \* no entry
          PortSpace,    \* number of values of next_port (2^16)
          FirstPort,    \* initial value of next_port (10000)
          Padding,      \* what the padding of key may hold
          HashEntries,  \* .entries of the table (1024)
          Timeout       \* timeout_cycles in ticks (20 * hz)

ASSUME ConstantsAssumption ==
    /\ None \notin Entries
    /\ {PortSpace, HashEntries, Timeout} \subseteq Nat \ {0}
    /\ FirstPort \in 0..PortSpace - 1
    /\ 0 \in Padding

VARIABLES nat_table,    \* key -> entry, None where absent
          heap,         \* addresses of entries allocated and not freed
          flow,         \* private and destination fields of an entry
          public_port,  \* ... its public_port
          age,          \* ... ticks since its last_seen; Old is Old or more
          next_port,
          silent,       \* history: ticks since a flow's last packet
          addFailed,    \* history: an add failed
          mixed         \* history: padding was not 0, or a port was reused

vars == <<nat_table, heap, flow, public_port, age, next_port, silent, addFailed, mixed>>

Ports == 0..PortSpace - 1
Keys == Flows \X Padding
Old == Timeout + 1
MappedKeys == {k \in Keys : nat_table[k] # None}
Mapped == {nat_table[k] : k \in MappedKeys}

Init ==
    /\ nat_table = [k \in Keys |-> None]
    /\ heap = {}
    /\ flow \in [Entries -> Flows]
    /\ public_port = [a \in Entries |-> FirstPort]      \* written before read
    /\ age = [a \in Entries |-> 0]
    /\ next_port = FirstPort
    /\ silent = [f \in Flows |-> Old]
    /\ addFailed = FALSE
    /\ mixed = FALSE

-----------------------------------------------------------------------------
Aged(t) == IF t = Old THEN Old ELSE t + 1

Tick ==                                 \* time passes
    /\ age' = [a \in Entries |-> IF a \in heap THEN Aged(age[a]) ELSE age[a]]
    /\ silent' = [f \in Flows |-> Aged(silent[f])]
    /\ UNCHANGED <<nat_table, heap, flow, public_port, next_port, addFailed, mixed>>

\* entry->last_seen = rte_rdtsc(), by a packet of flow f
Seen(a, f) ==
    /\ age' = [age EXCEPT ![a] = 0]
    /\ silent' = [silent EXCEPT ![f] = 0]

EgressHit(k) ==                         \* nat_callback: "Existing NAT mapping found"
    /\ k \in MappedKeys
    /\ Seen(nat_table[k], k[1])
    /\ mixed' = (mixed \/ k[2] # 0)
    /\ UNCHANGED <<nat_table, heap, flow, public_port, next_port, addFailed>>

AllocatePort == next_port' = (next_port + 1) % PortSpace

\* Mutant: no lookup before the mapping is created.
EgressNewUnasked(k, a) ==
    /\ a \notin heap
    /\ heap' = heap \cup {a}
    /\ flow' = [flow EXCEPT ![a] = k[1]]
    /\ public_port' = [public_port EXCEPT ![a] = next_port]
    /\ AllocatePort
    /\ Seen(a, k[1])
    /\ nat_table' = [nat_table EXCEPT ![k] = a]
    /\ mixed' = (mixed \/ k[2] # 0 \/ \E b \in heap : public_port[b] = next_port)
    /\ UNCHANGED addFailed

EgressNew(k, a) ==                      \* nat_callback: "Creating new NAT mapping"
    /\ k \notin MappedKeys
    /\ a \notin heap
    /\ heap' = heap \cup {a}
    /\ flow' = [flow EXCEPT ![a] = k[1]]
    /\ public_port' = [public_port EXCEPT ![a] = next_port]
    /\ AllocatePort
    /\ Seen(a, k[1])
    /\ IF Cardinality(MappedKeys) < HashEntries
         THEN nat_table' = [nat_table EXCEPT ![k] = a] /\ UNCHANGED addFailed
         ELSE addFailed' = TRUE /\ UNCHANGED nat_table
    /\ mixed' = (mixed \/ k[2] # 0 \/ \E b \in heap : public_port[b] = next_port)

\* Mutant: a reply does not stamp the mapping.
IngressNoStamp(p) ==
    \E a \in Mapped :
      /\ public_port[a] = p
      /\ silent' = [silent EXCEPT ![flow[a]] = 0]
      /\ UNCHANGED <<nat_table, heap, flow, public_port, age, next_port, addFailed, mixed>>

\* nat_callback of a reply to port p: the first entry of the walk that has
\* the port.  Where in the table an entry is, is up to the hash function.
Ingress(p) ==
    \E a \in Mapped :
      /\ public_port[a] = p
      /\ Seen(a, flow[a])
      /\ UNCHANGED <<nat_table, heap, flow, public_port, next_port, addFailed, mixed>>

\* Mutants of Remove: the key stays; the entry is not freed.
RemoveEntryOnly(gone) ==
    /\ heap' = heap \ {nat_table[k] : k \in gone}
    /\ UNCHANGED nat_table
RemoveKeyOnly(gone) ==
    /\ nat_table' = [k \in Keys |-> IF k \in gone THEN None ELSE nat_table[k]]
    /\ UNCHANGED heap

\* rte_hash_del_key and rte_free of each mapping in gone
Remove(gone) ==
    /\ nat_table' = [k \in Keys |-> IF k \in gone THEN None ELSE nat_table[k]]
    /\ heap' = heap \ {nat_table[k] : k \in gone}

Cleanup ==                              \* nat_cleanup
    /\ Remove({k \in MappedKeys : age[nat_table[k]] > Timeout})
    /\ UNCHANGED <<flow, public_port, age, next_port, silent, addFailed, mixed>>

Next ==
    \/ Tick
    \/ \E k \in Keys : EgressHit(k) \/ \E a \in Entries : EgressNew(k, a)
    \/ \E p \in Ports : Ingress(p)
    \/ Cleanup

Spec == Init /\ [][Next]_vars

-----------------------------------------------------------------------------
\* The types of the variables.
TypeOK ==
    /\ nat_table \in [Keys -> Entries \cup {None}]
    /\ heap \subseteq Entries
    /\ flow \in [Entries -> Flows]
    /\ public_port \in [Entries -> Ports]
    /\ age \in [Entries -> 0..Old]
    /\ next_port \in Ports
    /\ silent \in [Flows -> 0..Old]
    /\ addFailed \in BOOLEAN
    /\ mixed \in BOOLEAN

\* The table leads to live entries of the key's flow, and to each by one key
\* only: no lookup or walk (main.c:101, 144, 186) meets freed memory and no
\* cleanup frees an entry twice, whatever the padding, however often adds
\* failed or the ports wrapped.
TableSound ==
    /\ TypeOK
    /\ \A k \in MappedKeys :
         /\ nat_table[k] \in heap
         /\ flow[nat_table[k]] = k[1]
         /\ \A l \in MappedKeys : nat_table[l] = nat_table[k] => l = k

\* An entry in memory is in the table, where a cleanup will find it, unless
\* an add failed at main.c:119: then the entry, which no timer frees, is lost.
OnlyFailedAddsLeak == ~addFailed => heap = Mapped

\* With no add failed, the padding always 0 and no port reused, a reply to
\* the public port of a flow is translated to that flow and no other, and the
\* next packet of the flow finds the same mapping.
RoundTrip ==
    ~addFailed /\ ~mixed =>
      \A a \in heap : /\ nat_table[<<flow[a], 0>>] = a
                      /\ \A b \in heap : public_port[b] = public_port[a] => b = a

\* A cleanup takes no mapping of a flow that had a packet in either direction
\* within the timeout, unless packets of the flow use another of its entries,
\* which stays.  So it may have two, under keys with different padding
\* (main.c:89-97) or after a failed add, and each goes by its own last_seen; by
\* RoundTrip it has one as long as mappings are filed as intended.
FlowKeptWhileActive ==
    [][\A k \in MappedKeys :
         nat_table'[k] # nat_table[k]
           => \/ silent[k[1]] > Timeout
              \/ \E b \in heap' : flow[b] = k[1] /\ age[b] <= Timeout]_vars
=============================================================================
