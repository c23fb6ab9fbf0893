--------------------------- MODULE GraphPrograms ---------------------------
(***************************************************************************)
(* The three programs of src/Graphs that build a graph of nodes and walk   *)
(* it: rx_packets/rx.c ("rx") sorts one burst by IP version and prints it, *)
(* multiple_src_node.c ("sources") lets two source nodes feed a worker     *)
(* until ten packets are made, graph_demo.c ("demo") asks for nodes by a   *)
(* name none has.  A walk runs each source once, then the nodes that have  *)
(* got objects, in the order they got their first.                         *)
(***************************************************************************)
EXTENDS Naturals, Sequences, FiniteSets

CONSTANTS Mbufs,        \* the buffers of the pool
          Burst,        \* RX_BURST_SIZE
          Limit         \* the prints after which "sources" stops: 10

SizeAssumption == IsFiniteSet(Mbufs) /\ {Burst, Limit} \subseteq Nat

Programs == {"rx", "sources", "demo"}

\* The nodes each program registers, with their edges in order.
Edges == [rx      |-> [RX |-> <<"CLASSIFY">>,
                       CLASSIFY |-> <<"PRINT_IPV4", "PRINT_IPV6">>,
                       PRINT_IPV4 |-> <<>>, PRINT_IPV6 |-> <<>>],
          sources |-> [start1 |-> <<"worker">>, start2 |-> <<"worker">>, worker |-> <<>>],
          demo    |-> [RX |-> <<"PRINT">>, PRINT |-> <<>>]]
\* ... which of them have RTE_NODE_SOURCE_F, and what the graph is made of.
Sources == [rx |-> {"RX"}, sources |-> {"start1", "start2"}, demo |-> {"RX"}]
Patterns == [rx |-> {"RX"}, sources |-> {"start1", "start2"}, demo |-> {"rx_node"}]

Types == {"ip4", "ip6", "other"}

VARIABLES prog,
          pc,           \* "create", "walk", "loop", "ended", "failed"
          nodes,        \* the nodes of the graph
          todo,         \* sources this walk has not run yet
          stream,       \* objects waiting at each node
          pending,      \* nodes with objects, in the order they will run
          pool,
          rxq,          \* what the NIC has received, and ...
          type,         \* ... the ether_type of each packet
          arrived,      \* history: the burst rx_node_process took
          printed,      \* history: what was printed, in order
          ip4, ip6,     \* ipv4_objs and ipv6_objs of classify_node_process
          total_prints

walk == <<todo, stream, pending>>
nic == <<rxq, type>>
hist == <<arrived, printed>>
local == <<ip4, ip6>>
vars == <<prog, pc, nodes, walk, pool, nic, hist, local, total_prints>>

Nodes == DOMAIN Edges[prog]
SeqSet(s) == {s[i] : i \in DOMAIN s}

Init ==
    /\ prog \in Programs
    /\ pc = "create"
    /\ nodes = {}
    /\ todo = {}
    /\ stream = [n \in Nodes |-> <<>>]
    /\ pending = <<>>
    /\ pool = Mbufs
    /\ rxq = <<>>
    /\ type = [m \in Mbufs |-> "other"]
    /\ arrived = <<>> /\ printed = <<>>
    /\ ip4 = <<>> /\ ip6 = <<>>
    /\ total_prints = 0

NicReceive(t) ==
    /\ prog = "rx" /\ pc \notin {"ended", "failed"}
    /\ \E m \in pool : /\ pool' = pool \ {m}
                       /\ rxq' = Append(rxq, m)
                       /\ type' = [type EXCEPT ![m] = t]
    /\ UNCHANGED <<prog, pc, nodes, walk, hist, local, total_prints>>

-----------------------------------------------------------------------------
(* The graph library                                                        *)

\* rte_graph_create: the nodes the patterns name and all that edges lead to.
Next1(set) == set \cup UNION {SeqSet(Edges[prog][n]) : n \in set}
Closed == CHOOSE set \in SUBSET Nodes :
            /\ Patterns[prog] \subseteq set /\ Next1(set) = set
            /\ \A s \in SUBSET Nodes : Patterns[prog] \subseteq s /\ Next1(s) = s => set \subseteq s

Create ==
    /\ pc = "create"
    /\ IF Patterns[prog] \subseteq Nodes
       THEN nodes' = Closed /\ pc' = "loop"
       ELSE pc' = "failed" /\ UNCHANGED nodes
    /\ UNCHANGED <<prog, walk, pool, nic, hist, local, total_prints>>

\* rte_node_enqueue of objs at edge e, after the node that does it has run.
Pushed(n, e, objs, str) == [str EXCEPT ![Edges[prog][n][e]] = @ \o objs]
Pends(n, e, str) == IF str[Edges[prog][n][e]] = <<>> THEN <<Edges[prog][n][e]>> ELSE <<>>

\* The next node of the walk is n.
Runs(n) == pc = "walk" /\ todo = {} /\ pending # <<>> /\ Head(pending) = n
\* It has run: its stream is empty, and it is no longer pending.
Ran(n) ==
    /\ stream' = [stream EXCEPT ![n] = <<>>]
    /\ pending' = Tail(pending)
    /\ UNCHANGED todo

EndWalk ==
    /\ pc = "walk" /\ todo = {} /\ pending = <<>>
    /\ pc' = IF prog = "rx" THEN "ended" ELSE "loop"
    /\ UNCHANGED <<prog, nodes, walk, pool, nic, hist, local, total_prints>>

-----------------------------------------------------------------------------
(* main of each program                                                     *)

Walk ==                                 \* rte_graph_walk; "sources" goes on
    /\ pc = "loop"
    /\ IF prog = "sources" /\ total_prints >= Limit
       THEN pc' = "ended" /\ UNCHANGED todo
       ELSE pc' = "walk" /\ todo' = Sources[prog]
    /\ UNCHANGED <<prog, nodes, stream, pending, pool, nic, hist, local, total_prints>>

\* rx_node_process; rx_done plays no part, there is one walk.
RxNode ==
    /\ pc = "walk" /\ "RX" \in todo
    /\ todo' = todo \ {"RX"}
    /\ \E n \in {k \in 0..Burst : k <= Len(rxq) /\ (k = 0 => rxq = <<>>)} :
         /\ arrived' = [i \in 1..n |-> [mbuf |-> rxq[i], type |-> type[rxq[i]]]]
         /\ rxq' = SubSeq(rxq, n + 1, Len(rxq))
         /\ IF n = 0 THEN UNCHANGED <<stream, pending>>
            ELSE /\ stream' = Pushed("RX", 1, SubSeq(rxq, 1, n), stream)
                 /\ pending' = pending \o Pends("RX", 1, stream)
    /\ UNCHANGED <<prog, pc, nodes, pool, type, printed, local, total_prints>>

\* Mutants: what is not IPv4 counts as IPv6; packets of other types are forgotten.
ClassifyOneElse ==
    /\ Runs("CLASSIFY") /\ stream["CLASSIFY"] # <<>>
    /\ LET m == Head(stream["CLASSIFY"])
       IN  IF type[m] = "ip4" THEN ip4' = Append(ip4, m) /\ UNCHANGED ip6
                              ELSE ip6' = Append(ip6, m) /\ UNCHANGED ip4
    /\ stream' = [stream EXCEPT !["CLASSIFY"] = Tail(@)]
    /\ UNCHANGED <<prog, pc, nodes, todo, pending, pool, nic, hist, total_prints>>
ClassifyOneKeeps ==
    /\ Runs("CLASSIFY") /\ stream["CLASSIFY"] # <<>>
    /\ LET m == Head(stream["CLASSIFY"])
       IN  /\ ip4' = IF type[m] = "ip4" THEN Append(ip4, m) ELSE ip4
           /\ ip6' = IF type[m] = "ip6" THEN Append(ip6, m) ELSE ip6
    /\ stream' = [stream EXCEPT !["CLASSIFY"] = Tail(@)]
    /\ UNCHANGED <<prog, pc, nodes, todo, pending, pool, nic, hist, total_prints>>
ClassifyOne ==                          \* one packet of classify_node_process
    /\ Runs("CLASSIFY") /\ stream["CLASSIFY"] # <<>>
    /\ LET m == Head(stream["CLASSIFY"])
       IN  /\ ip4' = IF type[m] = "ip4" THEN Append(ip4, m) ELSE ip4
           /\ ip6' = IF type[m] = "ip6" THEN Append(ip6, m) ELSE ip6
           /\ pool' = IF type[m] = "other" THEN pool \cup {m} ELSE pool
    /\ stream' = [stream EXCEPT !["CLASSIFY"] = Tail(@)]
    /\ UNCHANGED <<prog, pc, nodes, todo, pending, nic, hist, total_prints>>

ClassifyEnqueue ==                      \* ... and what it does at the end
    /\ Runs("CLASSIFY") /\ stream["CLASSIFY"] = <<>>
    /\ LET with4 == Pushed("CLASSIFY", 1, ip4, stream)
       IN  /\ stream' = Pushed("CLASSIFY", 2, ip6, with4)
           /\ pending' = Tail(pending)
                \o (IF ip4 # <<>> THEN Pends("CLASSIFY", 1, stream) ELSE <<>>)
                \o (IF ip6 # <<>> THEN Pends("CLASSIFY", 2, with4) ELSE <<>>)
    /\ ip4' = <<>> /\ ip6' = <<>>
    /\ UNCHANGED <<prog, pc, nodes, todo, pool, nic, hist, total_prints>>

PrintNode(n) ==                         \* print_ipv4_process, print_ipv6_process
    /\ n \in {"PRINT_IPV4", "PRINT_IPV6"} /\ Runs(n)
    /\ LET version == IF n = "PRINT_IPV4" THEN "ip4" ELSE "ip6"
       IN  printed' = printed \o [i \in DOMAIN stream[n] |-> [mbuf |-> stream[n][i], type |-> version]]
    /\ pool' = pool \cup SeqSet(stream[n])
    /\ Ran(n)
    /\ UNCHANGED <<prog, pc, nodes, nic, arrived, local, total_prints>>

LimitReached == total_prints >= Limit

Start(n) ==                             \* start1_process, start2_process
    /\ n \in {"start1", "start2"}
    /\ pc = "walk" /\ n \in todo
    /\ todo' = todo \ {n}
    /\ IF LimitReached \/ pool = {} THEN UNCHANGED <<stream, pending, pool, total_prints>>
       ELSE \E m \in pool :
              /\ pool' = pool \ {m}
              /\ stream' = Pushed(n, 1, <<m>>, stream)
              /\ pending' = pending \o Pends(n, 1, stream)
              /\ total_prints' = total_prints + 1
    /\ UNCHANGED <<prog, pc, nodes, nic, hist, local>>

\* Mutant: the worker does not free.
WorkerKeeps ==
    /\ Runs("worker")
    /\ Ran("worker")
    /\ UNCHANGED <<prog, pc, nodes, pool, nic, hist, local, total_prints>>
Worker ==                               \* worker_process
    /\ Runs("worker")
    /\ pool' = pool \cup SeqSet(stream["worker"])
    /\ Ran("worker")
    /\ UNCHANGED <<prog, pc, nodes, nic, hist, local, total_prints>>

Main ==
    \/ Create \/ Walk \/ EndWalk
    \/ RxNode \/ ClassifyOne \/ ClassifyEnqueue \/ Worker
    \/ \E n \in Nodes : PrintNode(n) \/ Start(n)

Next == Main \/ \E t \in Types : NicReceive(t)

Spec == Init /\ [][Next]_vars
FairSpec == Spec /\ WF_vars(Main)       \* the one lcore goes on

-----------------------------------------------------------------------------
\* The types of the variables; the arrays of classify_node_process hold a burst.
Objs(s, n) == s \in Seq(Mbufs) /\ Len(s) <= n
TypeOK ==
    /\ pc \in {"create", "walk", "loop", "ended", "failed"}
    /\ nodes \subseteq Nodes /\ todo \subseteq Sources[prog]
    /\ \A n \in Nodes : Objs(stream[n], Cardinality(Mbufs))
    /\ SeqSet(pending) \subseteq nodes
    /\ pool \subseteq Mbufs
    /\ Objs(rxq, Cardinality(Mbufs)) /\ type \in [Mbufs -> Types]
    /\ Objs(ip4, Burst) /\ Objs(ip6, Burst)
    /\ total_prints \in 0..Limit

\* Where a buffer is, in a stream, in an array, with the NIC, or in the pool.
Places(m) ==
    Cardinality({n \in Nodes : m \in SeqSet(stream[n])})
      + Cardinality({s \in {<<1, ip4>>, <<2, ip6>>, <<3, rxq>>} : m \in SeqSet(s[2])})
      + (IF m \in pool THEN 1 ELSE 0)

\* Every buffer is in one place, whichever nodes a walk takes it to: none is
\* leaked or freed twice (rx.c:77-93, 138, 176, multiple_src_node.c:102).
Custody == TypeOK /\ \A m \in Mbufs : Places(m) = 1

\* rx.c prints the whole burst, IPv4 before IPv6, each in order of arrival
\* (rx.c:77-93): no other packet, and none twice.
Earlier(p, q) == \E i, j \in DOMAIN arrived : i < j /\ arrived[i] = p /\ arrived[j] = q
PrintedByVersion ==
    (prog = "rx" /\ pc = "ended") =>
      /\ SeqSet(printed) = {p \in SeqSet(arrived) : p.type # "other"}
      /\ \A k, l \in DOMAIN printed : k < l =>
           /\ printed[k].mbuf # printed[l].mbuf
           /\ IF printed[k].type = printed[l].type THEN Earlier(printed[k], printed[l])
                                                   ELSE printed[k].type = "ip4"

\* "Stopping after 10 prints." (multiple_src_node.c:159): the program gets
\* there, with any number of buffers, and has made that many packets.
StopsAtLimit == prog = "sources" => <>(pc = "ended" /\ total_prints = Limit)
=============================================================================
