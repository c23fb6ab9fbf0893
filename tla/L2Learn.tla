------------------------------ MODULE L2Learn ------------------------------
(***************************************************************************)
(* src/l2fwd/veth_peer/main.c: a switch with two ports that learns behind  *)
(* which of them an address is.  Every lcore runs the loop, the table has  *)
(* no protection against concurrent writers, its entries never age, adds   *)
(* to a full table fail unnoticed, and hosts may move.  A signal makes the *)
(* lcores leave the loop, after which main frees the table.                *)
(***************************************************************************)
EXTENDS Naturals, Sequences, FiniteSets

CONSTANTS Lcores,       \* lcores there may be; the EAL is started with some
          Macs,         \* the hosts' addresses
          None,         \* no entry
          HashEntries,  \* entries of l2_mac_table
          Burst,        \* BURST_SIZE
          RxDesc,       \* RX_RING_SIZE
          MaxMoves      \* bound: how often hosts move

ASSUME SizeAssumption == /\ {HashEntries, Burst, RxDesc} \subseteq Nat \ {0}
                         /\ MaxMoves \in Nat

Ports == {0, 1}
Frames == {f \in [src : Macs, dst : Macs] : f.src # f.dst}

VARIABLES main,         \* "init", "run", "ended", or "failed" after rte_exit
          up,           \* ports port_init has brought up
          force_quit,
          l2_hash,      \* address -> port learned
          rxq,          \* frames received at each port, oldest first
          pc, port, buff,               \* each lcore's place and locals
          at,           \* the port each host is behind
          moved         \* hosts that have moved, in order of their moves

lvars == <<pc, port, buff>>
hosts == <<at, moved>>
vars == <<main, up, force_quit, l2_hash, rxq, lvars, hosts>>

Labels == {"off", "top", "poll", "learn", "add", "lookup", "done"}
Lesser(a, b) == IF a <= b THEN a ELSE b
Other(p) == 1 - p

Init ==
    /\ main = "init"
    /\ up = {}
    /\ force_quit = FALSE
    /\ l2_hash = [m \in Macs |-> None]
    /\ rxq = [p \in Ports |-> <<>>]
    /\ pc = [l \in Lcores |-> "off"]
    /\ port = [l \in Lcores |-> 0]
    /\ buff = [l \in Lcores |-> <<>>]
    /\ at \in [Macs -> Ports]
    /\ moved = <<>>

-----------------------------------------------------------------------------
(* main and the signal handler                                              *)

Signal ==                               \* signal_handler
    /\ main \in {"init", "run"} /\ ~force_quit
    /\ force_quit' = TRUE
    /\ UNCHANGED <<main, up, l2_hash, rxq, lvars, hosts>>

PortInit(p) ==                          \* port_init; any of its calls may fail
    /\ main = "init"
    /\ p \notin up /\ \A q \in Ports : q < p => q \in up
    /\ \/ up' = up \cup {p} /\ UNCHANGED main
       \/ main' = "failed" /\ UNCHANGED up
    /\ UNCHANGED <<force_quit, l2_hash, rxq, lvars, hosts>>

Launch ==                               \* rte_eal_mp_remote_launch, CALL_MAIN
    /\ main = "init" /\ up = Ports
    /\ main' = "run"
    /\ \E used \in SUBSET Lcores \ {{}} :
         pc' = [l \in Lcores |-> IF l \in used THEN "top" ELSE "off"]
    /\ UNCHANGED <<up, force_quit, l2_hash, rxq, port, buff, hosts>>

FreeTable ==                            \* rte_eal_mp_wait_lcore; rte_hash_free
    /\ main = "run" /\ \A l \in Lcores : pc[l] \in {"off", "done"}
    /\ main' = "ended"
    /\ UNCHANGED <<up, force_quit, l2_hash, rxq, lvars, hosts>>

-----------------------------------------------------------------------------
(* The hosts                                                                *)

HostSends(m, d) ==                      \* the port is promiscuous: any dst
    /\ at[m] \in up /\ main # "failed" /\ m # d
    /\ Len(rxq[at[m]]) < RxDesc
    /\ rxq' = [rxq EXCEPT ![at[m]] = Append(@, [src |-> m, dst |-> d])]
    /\ UNCHANGED <<main, up, force_quit, l2_hash, lvars, hosts>>

HostMoves(m) ==
    /\ main = "run" /\ Len(moved) < MaxMoves
    /\ at' = [at EXCEPT ![m] = Other(@)]
    /\ moved' = Append(moved, m)
    /\ UNCHANGED <<main, up, force_quit, l2_hash, rxq, lvars>>

-----------------------------------------------------------------------------
(* l2fwd_main_loop on lcore l                                               *)

Goto(l, label) == pc' = [pc EXCEPT ![l] = label]

\* Mutant: force_quit is not looked at.
TopForEver(l) ==
    /\ pc[l] = "top"
    /\ Goto(l, "poll")
    /\ UNCHANGED <<main, up, force_quit, l2_hash, rxq, port, buff, hosts>>
Top(l) ==                               \* while (!force_quit)
    /\ pc[l] = "top"
    /\ Goto(l, IF force_quit THEN "done" ELSE "poll")
    /\ UNCHANGED <<main, up, force_quit, l2_hash, rxq, port, buff, hosts>>

\* On to the next port of RTE_ETH_FOREACH_DEV, or back to the while.
NextPort(l) ==
    /\ port' = [port EXCEPT ![l] = Other(@)]
    /\ Goto(l, IF port[l] = 0 THEN "poll" ELSE "top")

RxNone(l) ==
    /\ pc[l] = "poll" /\ rxq[port[l]] = <<>>
    /\ NextPort(l)
    /\ UNCHANGED <<main, up, force_quit, l2_hash, rxq, buff, hosts>>

Rx(l) ==
    /\ pc[l] = "poll"
    /\ LET q == rxq[port[l]]
       IN  \E n \in 1..Lesser(Burst, Len(q)) :
             /\ buff' = [buff EXCEPT ![l] = SubSeq(q, 1, n)]
             /\ rxq' = [rxq EXCEPT ![port[l]] = SubSeq(q, n + 1, Len(q))]
    /\ Goto(l, "learn")
    /\ UNCHANGED <<main, up, force_quit, l2_hash, port, hosts>>

LearnBegin(l) ==                        \* rte_hash_add_key_data is entered
    /\ pc[l] = "learn"
    /\ Goto(l, "add")
    /\ UNCHANGED <<main, up, force_quit, l2_hash, rxq, port, buff, hosts>>

Adding(l) == {k \in Lcores \ {l} : pc[k] = "add"}
Learned == {m \in Macs : l2_hash[m] # None}
\* An add of a new key fails, unnoticed, when the table is full.
HasRoom(m) == m \in Learned \/ Cardinality(Learned) < HashEntries
AddKeyData(m, p) == [l2_hash EXCEPT ![m] = IF HasRoom(m) THEN p ELSE @]

\* Mutants: an address is learned only once; the destination's is learned.
LearnEndOnce(l) ==
    /\ pc[l] = "add"
    /\ l2_hash' = LET m == Head(buff[l]).src
                  IN  IF m \in Learned THEN l2_hash ELSE AddKeyData(m, port[l])
    /\ Goto(l, "lookup")
    /\ UNCHANGED <<main, up, force_quit, rxq, port, buff, hosts>>
LearnEndDst(l) ==
    /\ pc[l] = "add"
    /\ l2_hash' = AddKeyData(Head(buff[l]).dst, port[l])
    /\ Goto(l, "lookup")
    /\ UNCHANGED <<main, up, force_quit, rxq, port, buff, hosts>>

LearnEnd(l) ==                          \* overlapped, the add may be undone
    /\ pc[l] = "add"
    /\ \/ l2_hash' = AddKeyData(Head(buff[l]).src, port[l])
       \/ Adding(l) # {} /\ UNCHANGED l2_hash
    /\ Goto(l, "lookup")
    /\ UNCHANGED <<main, up, force_quit, rxq, port, buff, hosts>>

\* The result of the lookup of m: during another lcore's add it may miss m.
Lookups(m, l) == {l2_hash[m]} \cup (IF Adding(l) = {} THEN {} ELSE {None})

\* out_port of the frame l is about to transmit: found, or FLOOD.
OutPorts(l) == {IF found # None THEN found ELSE Other(port[l]) :
                  found \in Lookups(Head(buff[l]).dst, l)}

Forward(l) ==                           \* lookup or flood, transmit or free
    /\ pc[l] = "lookup"
    /\ buff' = [buff EXCEPT ![l] = Tail(@)]
    /\ IF Len(buff[l]) > 1 THEN Goto(l, "learn") /\ UNCHANGED port
                           ELSE NextPort(l)
    /\ UNCHANGED <<main, up, force_quit, l2_hash, rxq, hosts>>

Loop(l) == Top(l) \/ RxNone(l) \/ Rx(l) \/ LearnBegin(l) \/ LearnEnd(l) \/ Forward(l)

Ended == main \in {"ended", "failed"}

Main == (\E p \in Ports : PortInit(p)) \/ Launch \/ FreeTable

Next ==
    \/ Signal \/ Main
    \/ \E m \in Macs : HostMoves(m) \/ \E d \in Macs : HostSends(m, d)
    \/ \E l \in Lcores : Loop(l)

Spec == Init /\ [][Next]_vars

\* Each lcore has a CPU of its own and no call of the loop blocks; main goes
\* on.  A host speaks again and again, as hosts do.
FairSpec ==
    /\ Spec
    /\ WF_vars(Main)
    /\ \A l \in Lcores : WF_vars(Loop(l))
    /\ \A m \in Macs : SF_vars(\E d \in Macs : HostSends(m, d))

-----------------------------------------------------------------------------
\* The types of the variables; the table never has more than HashEntries keys.
TypeOK ==
    /\ main \in {"init", "run", "ended", "failed"}
    /\ up \subseteq Ports
    /\ force_quit \in BOOLEAN
    /\ l2_hash \in [Macs -> Ports \cup {None}]
    /\ Cardinality(Learned) <= HashEntries
    /\ rxq \in [Ports -> Seq(Frames)] /\ \A p \in Ports : Len(rxq[p]) <= RxDesc
    /\ pc \in [Lcores -> Labels]
    /\ port \in [Lcores -> Ports]
    /\ buff \in [Lcores -> Seq(Frames)] /\ \A l \in Lcores : Len(buff[l]) <= Burst
    /\ at \in [Macs -> Ports]
    /\ moved \in Seq(Macs) /\ Len(moved) <= MaxMoves

Moved(m) == \E i \in DOMAIN moved : moved[i] = m

\* A frame that came in at one port for a host behind the other leaves by the
\* other (main.c:104-122), whatever the table holds: lost entries, entries that
\* never were, adds of other lcores in progress.  Only moved hosts miss frames.
ReachesWhoStayed ==
    /\ TypeOK
    /\ \A l \in Lcores :
         pc[l] = "lookup" =>
           LET d == Head(buff[l]).dst
           IN  (~Moved(d) /\ at[d] # port[l]) => OutPorts(l) = {at[d]}

\* With one lcore a host that has moved is found again: once hosts stay where
\* they are, the table, whose entries never age, becomes right for good
\* (main.c:104 overwrites what it knew), unless the program is ended.
MovedHostsFound ==
    \/ <>[](\A m \in Macs : l2_hash[m] \in {None, at[m]})
    \/ <>(force_quit \/ Ended \/ Cardinality({l \in Lcores : pc[l] # "off"}) > 1)

\* A signal ends the program (main.c:25-30, 85, 180): every lcore sees it.
SignalEnds == force_quit ~> Ended
=============================================================================
