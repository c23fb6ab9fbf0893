------------------------------- MODULE Demos -------------------------------
(***************************************************************************)
(* The small programs: one of them is started, and has the machine to      *)
(* itself.  They share nothing, so that is all there is to see; those that *)
(* are not started stay in their initial state.                            *)
(***************************************************************************)
EXTENDS Integers, Sequences, FiniteSets

CONSTANTS Started,                      \* which of those below may be started
          None,
          MaxWorkers, MaxRounds,        \* of LiveStats
          Secondaries, MaxStarts,       \* of MpMessage
          Hz, MaxLag,                   \* of TimerLoop
          Burst,                        \* of PacketParsing and GraphPrograms
          DataRoom, Lengths,            \* of PacketParsing
          Mbufs, Limit,                 \* of GraphPrograms
          MaxLcores, MaxPorts, MaxDevs, \* of EventStart
          Packets, Initially, Hosts, Entries, FirstPort, Padding,   \* of NatTimerScript
          Timeout, Idle, Late, Scripts

VARIABLES program,
          workers, cli_pc, cli_next, launched, loop, reg, stats, cli_shown, rounds, floor,
          primary, second, inbox, told, starts,
          prog, timer_next, timer_left, sleep, lag, fired,
          parse_pc, parse_left, frame, data, len, read, ports_shown,
          graph, graph_pc, nodes, todo, stream, pending, pool, rxq, type, arrived, printed,
          ip4, ip6, total_prints,
          lcores, devs, sw0, start_pc, evdev_id, ports, queues, lcore_to_evport,
          script, pkt, nat_table, heap, key, private, public_port, timer, next_port,
          idle, table_cleared, script_pc, nap, lost, served

Stats == INSTANCE LiveStats WITH pc <- cli_pc, next <- cli_next, shown <- cli_shown
Ipc == INSTANCE MpMessage
Timers == INSTANCE TimerLoop WITH next <- timer_next, left <- timer_left
Parsing == INSTANCE PacketParsing WITH pc <- parse_pc, left <- parse_left, shown <- ports_shown
Graph == INSTANCE GraphPrograms WITH pc <- graph_pc, prog <- graph
Start == INSTANCE EventStart WITH pc <- start_pc
Script == INSTANCE NatTimerScript WITH pc <- script_pc

ASSUME StatsAssumption == Stats!SizeAssumption
ASSUME TimersAssumption == Timers!LagAssumption
ASSUME ParsingAssumption == Parsing!SizeAssumption
ASSUME GraphAssumption == Graph!SizeAssumption
ASSUME StartAssumption == Start!SizeAssumption
ASSUME ScriptAssumption == Script!SizeAssumption

stats_vars == <<workers, cli_pc, cli_next, launched, loop, reg, stats, cli_shown, rounds, floor>>
ipc_vars == <<primary, second, inbox, told, starts>>
timer_vars == <<prog, timer_next, timer_left, sleep, lag, fired>>
parsing_vars == <<parse_pc, parse_left, frame, data, len, read, ports_shown>>
graph_vars == <<graph, graph_pc, nodes, todo, stream, pending, pool, rxq, type, arrived, printed,
                ip4, ip6, total_prints>>
start_vars == <<lcores, devs, sw0, start_pc, evdev_id, ports, queues, lcore_to_evport>>
script_vars == <<script, pkt, nat_table, heap, key, private, public_port, timer, next_port,
                 idle, table_cleared, script_pc, nap, lost, served>>
vars == <<program, stats_vars, ipc_vars, timer_vars, parsing_vars, graph_vars, start_vars,
          script_vars>>

Init ==
    /\ program \in Started \cap {"stats", "ipc", "timers", "parsing", "graph", "start", "script"}
    /\ Stats!Init /\ (program # "stats" => workers = 0)
    /\ Ipc!Init
    /\ Timers!Init /\ (program # "timers" => prog = "one")
    /\ Parsing!Init
    /\ Graph!Init /\ (program # "graph" => graph = "rx")
    /\ Start!Init /\ (program # "start" => lcores = 1 /\ devs = 0)
    /\ Script!Init /\ (program # "script" => script = CHOOSE s \in Scripts : TRUE)

Next ==
    \/ /\ program = "stats" /\ Stats!Next
       /\ UNCHANGED <<program, ipc_vars, timer_vars, parsing_vars, graph_vars, start_vars,
                      script_vars>>
    \/ /\ program = "ipc" /\ Ipc!Next
       /\ UNCHANGED <<program, stats_vars, timer_vars, parsing_vars, graph_vars, start_vars,
                      script_vars>>
    \/ /\ program = "timers" /\ Timers!Next
       /\ UNCHANGED <<program, stats_vars, ipc_vars, parsing_vars, graph_vars, start_vars,
                      script_vars>>
    \/ /\ program = "parsing" /\ Parsing!Next
       /\ UNCHANGED <<program, stats_vars, ipc_vars, timer_vars, graph_vars, start_vars,
                      script_vars>>
    \/ /\ program = "graph" /\ Graph!Next
       /\ UNCHANGED <<program, stats_vars, ipc_vars, timer_vars, parsing_vars, start_vars,
                      script_vars>>
    \/ /\ program = "start" /\ Start!Next
       /\ UNCHANGED <<program, stats_vars, ipc_vars, timer_vars, parsing_vars, graph_vars,
                      script_vars>>
    \/ /\ program = "script" /\ Script!Next
       /\ UNCHANGED <<program, stats_vars, ipc_vars, timer_vars, parsing_vars, graph_vars,
                      start_vars>>

Spec == Init /\ [][Next]_vars

\* The fairness of FairSpec in MpMessage, TimerLoop, GraphPrograms and NatTimerScript.
IpcFair ==
    /\ WF_ipc_vars(program = "ipc" /\ Ipc!Primary)
    /\ \A s \in Secondaries : /\ WF_ipc_vars(program = "ipc" /\ Ipc!Register(s))
                              /\ WF_ipc_vars(program = "ipc" /\ Ipc!Deliver(s))
TimersFair ==
    /\ WF_timer_vars(program = "timers" /\ Timers!Tick)
    /\ WF_timer_vars(program = "timers" /\ Timers!Set)
    /\ WF_timer_vars(program = "timers" /\ Timers!Manage)

GraphFair == WF_graph_vars(program = "graph" /\ Graph!Main)

ScriptFair ==
    /\ WF_script_vars(program = "script" /\ Script!Tick)
    /\ WF_script_vars(program = "script" /\ Script!Main)

FairSpec == Spec /\ IpcFair /\ TimersFair /\ GraphFair /\ ScriptFair

-----------------------------------------------------------------------------
(* What the modules say of each program.                                    *)

\* src/CLI_lib: no count is lost, though a count is a load and a store.
NoCountLost == Stats!NoCountLost
\* src/CLI_lib: a number shown is one its counter had during the command.
ShownDuringCommand == Stats!ShownDuringCommand

\* src/IPC_using_rte_mp_msg: a secondary that stays up is told in the end.
EveryoneTold == Ipc!EveryoneTold

\* src/TIMER: each timer fires once at most, in the order of the delays, and
\* late by no more than the sleep and a lag.
FiresInTurn == Timers!FiresInTurn

\* src/PacketParsing: a complete packet is not read past its end, and one cut
\* short no farther than the longest headers.
ReadsInsidePacket == Parsing!ReadsInsidePacket
\* src/PacketParsing: the ports shown are those of the transport header.
PortsOfTransport == Parsing!PortsOfTransport

\* src/Graphs: every buffer is in one place, whichever nodes a walk takes it to.
Custody == Graph!Custody

\* src/Graphs/rx_packets: the whole burst is printed, by version, in order.
PrintedByVersion == Graph!PrintedByVersion
\* src/Graphs/multiple_src_node.c: the program stops with ten packets made.
StopsAtLimit == program = "graph" => Graph!StopsAtLimit

\* src/Eventdev/Parsing: the packet loops are never launched.
LoopsNeverRun == Start!LoopsNeverRun
\* src/Eventdev/Parsing: no event device but event_sw0 is configured.
OnlySw0Configured == Start!OnlySw0Configured

\* src/NAT/Nat_with_TIMER: exactly the entries in memory have an armed timer.
TimersInLiveEntries == Script!TimersInLiveEntries
\* src/NAT/Nat_with_TIMER: each entry is found by its key, and by its port alone.
OneEntryPerKeyAndPort == Script!OneEntryPerKeyAndPort
\* src/NAT/Nat_with_TIMER: each flow is freed once the loop runs.
Drained == program = "script" => Script!Drained
=============================================================================
