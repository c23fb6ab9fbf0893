# TLA+ specifications of DPDK_CODE

The repository is a collection of DPDK programs: packet pipelines on several
lcores, network address translators with expiring flows, layer 2 forwarders,
event and graph pipelines, and demonstrations of single libraries. DPDK itself
is not part of it; where a program depends on what a DPDK call does, the models
say what they take the call to do.

Contents: [1 the system](#1-the-system), [2 the modules](#2-the-modules),
[3 the runs](#3-the-runs), [4 the proofs](#4-the-proofs),
[5 abstractions and assumptions](#5-abstractions-and-assumptions),
[6 disagreements found](#6-disagreements-found),
[7 not modelled](#7-not-modelled), [8 plan](#8-plan).

## 1 The system

Each program is a process of its own; nothing connects one program with
another except the two IPC programs. Inside a program the parts interact
through rings, hash tables, the NIC's queues, the mbuf pool and timers.

| component (`src/`) | state | operations | what is hard | what makes it correct |
|---|---|---|---|---|
| `ThreadedParsing/` | pool of 8192 mbufs, NIC queues, `rx_ring`, `tx_ring`, a local array `buff[]` per lcore | main launches `rx_handler`, `parser`, `tx_handler` on lcores 1, 2, 3; each loops: take a burst, pass it on, free what was refused | three threads, bursts that are partly accepted at every hand-over, the NIC freeing what it accepted, lcores that do not exist | each mbuf has one owner; order is kept; only full queues drop; every mbuf comes back |
| `NAT/NWT_actualPkts/main.c` | `nat_table`, entries in malloc'ed memory with a timer inside, `global_last_pkt`, `table_cleared` | rx burst, lookup, create, refresh, expire, clear the idle table | expiry, refresh and clearing of the same entries; adds that fail unnoticed | no timer or mapping leads to freed memory; active flows stay and silent ones go |
| `NAT/NAT_twoTables/main.c` | `fwd_table`, `rev_table`, entries with timers, 16-bit `next_port` | `process_egress`, `process_ingress`, expire | two tables kept in step; port wrap-around; failed adds; padding of the stored key | tables sound; a reply finds the flow it answers |
| `NAT/Nat_with_TIMER/nwt.c` | one table, entries with timers, `p1` and `p2` | `process_packet` (rewrites its argument), expire, clear idle | timers only looked at after the script; uninitialised key padding | flows refreshed and expired as the script's comments say; all drained |
| `NAT/main.c` | one table, entries with `last_seen` | `nat_callback`, `nat_cleanup` | uninitialised padding; a cleanup that takes mappings in use | mappings found again, deleted once and only when old |
| `Eventdev/Parsing/main.c` | event device with two queues, a port per worker | init, `rx_loop`, `worker_loop` | number of event ports against number of workers; ignored results | starts with any number of lcores; no mbuf lost |
| `Eventdev/demo.c` | event device | enqueue, dequeue | nothing concurrent | events come back |
| `l2fwd/main.c` | NIC queues, `force_quit` | all lcores run the same loop | queues shared by threads | each mbuf forwarded or freed once |
| `l2fwd/veth_peer/main.c` | the same and `l2_hash` | learn, look up, flood, signal handler | table shared by threads, full table, moved hosts, shutdown order | frames reach hosts that stayed, moved ones are found again; a signal ends the program |
| `Graphs/` | graph of nodes | create, clone, link, walk | node names and patterns, a source node that is walked once | the graph has the nodes meant; packets get to the last node |
| `CLI_lib/Live_Stats_using_CLI/` | counters per port | rx and tx lcores count, the CLI shows, sets, exits | unsynchronised counters, an exit that waits for endless loops | no count is lost; a number shown is one its counter had during the command; exit ends the program |
| `CLI_lib/cmdline_demo.c` | none | three commands | - | - |
| `IPC_using_rte_mp_msg/` | a message, a registered handler | send every 5 s, register | peer not there yet, or restarted | the peer is told in the end |
| `TIMER/`, `TIMER/Multiple_timers/` | timers | reset, manage | a loop that sleeps longer than the timers differ | each fires once, never early, in order |
| `reordering/reorder.c` | reorder buffer | insert, drain | late and early sequence numbers | drained in order |
| `mbuf/operations.c`, `PacketParsing/` | an mbuf's offset and length | prepend, append, adj, trim; read headers | boundaries | data stays inside the buffer |
| `Mempool/`, `Ports/`, `Callbacks/`, `hello.c`, `diff_fn_diff_thread.c` | library objects | create, print | - | - |

`PROJECT.json` lists the components with their status, and under `hazards`
every place in this code where something can go wrong that a test would hardly
reach, with the properties that cover it.

## 2 The modules

| module | models | proofs | run by |
|---|---|---|---|
| `ThreadedParsing`, implements `LossyFifo` | `ThreadedParsing/` | `ThreadedParsingProofs`, `LossyFifoProofs` | `pipeline` |
| `NatRxLoop` | `NAT/NWT_actualPkts/main.c` | `NatRxLoopProofs` | `natrx` |
| `NatTwoTables` | `NAT/NAT_twoTables/main.c` | `NatTwoTablesProofs` | `nattt` |
| `NatTimerScript` | `NAT/Nat_with_TIMER/nwt.c` | `DemosProofs` | `script`, `script_refresh` |
| `NatCleanup` | `NAT/main.c` | `NatCleanupProofs` | `natclean` |
| `L2Fwd`, implements `LossyFifo` in each direction | `l2fwd/main.c` | `L2FwdProofs`, `LossyFifoProofs` | `l2fwd` |
| `L2Learn` | `l2fwd/veth_peer/main.c` | `L2LearnProofs` | `l2learn`, `l2learn_live` |
| `EventStart` | `Eventdev/Parsing/main.c` | `DemosProofs` | `demos`, `eventstart_worker` |
| `LiveStats` | `CLI_lib/Live_Stats_using_CLI/` | `DemosProofs` | `demos` |
| `MpMessage` | `IPC_using_rte_mp_msg/` | - | `demos` |
| `TimerLoop` | `TIMER/` | `DemosProofs` | `demos` |
| `PacketParsing` | `PacketParsing/` | `DemosProofs` | `demos` |
| `GraphPrograms` | `Graphs/` | `DemosProofs` | `demos` |

`Demos` puts the seven small programs, `NatTimerScript` and those from `EventStart`
on, side by side. An MC module
holds only the constants and the symmetry set of its runs. A definition whose
name ends in what is wrong with it, marked "Mutant" in its comment, is a
plausible bug of the definition that follows it; every property of every
passing run is violated when one of them takes that definition's place
(`mutants` in `PROJECT.json`).

### ThreadedParsing, LossyFifo

`ThreadedParsing` has one variable for each place a buffer can be: `pool`, the
NIC's receive queue `nicRx`, the arrays `rxBuff`, `parserBuff`, `txBuff` (the
three functions each call theirs `buff`), the rings `rx_ring`, `tx_ring` and
the NIC's transmit queue `nicTx`; `pc` says where each handler is in its loop
and `lcore_id` how far main's launch loop has come. Each library call is one
atomic action, as DPDK's queues make it, and so is each `rte_pktmbuf_free` of
the loops that free leftovers; the local computation between two calls is part
of the one or the other.

| action | code |
|---|---|
| `Launch` | one turn of the loop in `main.c:60-67`, for lcore ids 1 to 3; each may be missing, others launch nothing |
| `RxPoll`, `RxEnqueue`, `RxFree` | `rx.c:16-19`, `22-26`, one turn of `27-28` |
| `ParserDequeue`, `ParserEnqueue`, `ParserFree` | `parser.c:172-180`, `185-188`, one turn of `189-191` |
| `TxDequeue`, `TxBurst`, `TxFree` | `tx.c:15-18`, `20-26`, one turn of `27-28` |
| `NicReceive`, `NicTxDone` | the NIC: external |

`rte_eth_rx_burst` returns from 1 to BURST_SIZE of the packets there are,
`rte_eth_tx_burst` takes from none to as many as fit. `__parser` only reads and
prints; the comment at `parser.c:182-183` says that forwarding decisions are to
come.

`LossyFifo` is what the pipeline promises: a line of packets that keeps their
order, may drop any of them (and then returns the buffer), passes some on to
the wire, and gets each buffer back from there once. The refinement mapping
(`Line` in `ThreadedParsing`) is the concatenation of all places from the tx
lcore back to the NIC's receive queue. Moving a burst from one place to the
next does not change it, so most steps of the code are stutters; `RxFree`,
`ParserFree` and `TxFree` are drops, and that they drop from the right place
is exactly what the loop bounds have to get right.

### NatRxLoop

The loop of `NAT/NWT_actualPkts/main.c`, one action per call: `Poll`
(`rte_eth_rx_burst` and the idle bookkeeping), then one `NotIPv4`, `FlowHit` or
`NewFlow` per packet, then `TimerManage` and `CheckGlobalIdle`. Entries are
addresses: `heap` is the set of those allocated, and an address can be handed
out again as soon as it is free. A timer is the number of ticks it has left.

The question the module was written for: `check_global_idle` frees entries
without stopping their timers (`main.c:107-112`). That is harmless only if no
entry of the table has an armed timer at that point, which depends on the
distance between the two timeouts, 5 s and 10 s. `TimingAssumption` says how
long an iteration of the loop may take: twice that, plus the flow timeout, must
fit into the idle timeout (`Timeout + 2 * MaxIter <= Idle + 1`). With one more
tick per iteration TLC finds a clearing that frees an armed timer, so the
assumption is as weak as it can be.

An add that fails on a full table leaves an entry that no packet finds and only
its timer frees, and that timer deletes whatever mapping its key has by then.
`FlowKeptWhileActive` says that this is the only way for a flow in use to lose
its mapping.

### NatTwoTables

`process_egress`, `process_ingress` and `rte_timer_manage` of
`NAT/NAT_twoTables/main.c` in any order, with any time between them; the file's
`main` calls them in one such order. The module contains the three things that
can go wrong with an entry: an add fails on a full table (`main.c:139-140`
ignore the results), `next_port++` (`main.c:132`) reaches a port still in use,
and the padding of `rev`, which nothing writes, differs from the zeroes
`process_ingress` looks up. The history variable `clean` says that none of them
has happened so far. What holds always (`TablesSound`, `TimersInLiveEntries`,
`OrphansRunDown`) and what only while `clean` (`RoundTrip`) is stated apart.
`FlowKeptWhileActive` holds always, too: it names what the three can do to an
active flow, which is to lose its mapping to the timer of a second entry of its
own. By `RoundTrip` no flow has one while `clean`.

### NatTimerScript

`main` of `NAT/Nat_with_TIMER/nwt.c`: a script of `process_packet` and `sleep`
calls, then the endless loop. The script is a constant, so that the same module
runs main's own script and all similar ones. Packets are the structs
`process_packet` rewrites: `pkt[p].end` is the endpoint it translates.

### NatCleanup

`nat_callback` and `nat_cleanup` of `NAT/main.c`, in any order and with any
time between them. `EgressHit` and `EgressNew` are the two ways through the
outgoing half of `nat_callback`, `Ingress` is the walk over the table that
finds a reply's mapping (the first entry with the port; which one that is, is
up to the hash function), `Cleanup` the walk that deletes what is older than
the timeout. There are no timers: `age` counts the ticks since an entry's
`last_seen`, up to one more than the timeout.

Two history variables separate what must hold always (`TableSound`,
`FlowKeptWhileActive`) from what holds only while mappings are filed as
intended (`OnlyFailedAddsLeak`, `RoundTrip`): `addFailed` (the result at
`main.c:119` is ignored; the entry is then lost, as nothing frees it), and
`mixed` (the padding of `key`, which nothing writes, was not zero, or
`next_port` reached a port in use). A flow may then have several entries, and a
cleanup may take one of them while the flow is active; `FlowKeptWhileActive`
says that one its packets used within the timeout stays. A reply to a port that
two entries share counts for the flow it is translated to, which need not be
the one it was meant for: nothing in the code could tell.

### L2Fwd

The loop of `l2fwd/main.c` on any number of lcores. All lcores poll queue 0 of
both ports and transmit on queue 0 of the other, which the drivers do not
protect. A burst call is therefore two steps, its entry (`RxEnter`, `TxEnter`)
and its end (`RxEnd`, `TxEnd`), and when two calls on one queue overlap, each
may undo what the other did to the queue (`CallSets`). `raced` records that an
overlap has happened.

| action | code (`l2fwd/main.c`) |
|---|---|
| `PortInit`, `Launch` | the two `port_init` calls, of which any call may fail, and the launch on all lcores |
| `RxNone`, `RxEnter`, `RxEnd` | `rte_eth_rx_burst` and `if (nb_rx == 0) continue` |
| `TxEnter`, `Reclaim`, `TxEnd` | `rte_eth_tx_burst`: it frees what has been sent before, and takes part of the burst |
| `Free` | one turn of the loop that frees the rest |
| `NicReceive` | the NIC: external |

With one lcore (`Forwards`) each direction implements `LossyFifo`: the line of
a direction is the burst of the lcore that came from its port, then the port's
receive queue; the wire is the other port's transmit queue. With several,
`CustodyUnlessRaced` says that overlapping calls are the only way to lose or
double a buffer: the rest of the loop, with all its paths, is safe on any
number of lcores.

### L2Learn

`l2fwd/veth_peer/main.c`: the same loop with a MAC table, a signal handler and
an orderly end. `LearnBegin` and `LearnEnd` are the entry and the end of
`rte_hash_add_key_data`; while another lcore is inside one, an add may come to
nothing and a lookup may miss a key (the table is created without a flag for
concurrent writers). Adds of a new key to a full table fail unnoticed. Hosts
send frames to anyone, and may move to the other port (`HostMoves`, at most
`MaxMoves` times): the table never forgets, so a moved host misses frames until
it speaks. What happens to the frames' buffers is the subject of `L2Fwd`, so
the burst calls are atomic here and a frame is gone once `OutPorts` has decided
where it goes.

### EventStart

`main` of `Eventdev/Parsing/main.c` up to the launch of `rx_loop` and
`worker_loop`, one action per call that can fail: `PortInit`, `GetDevId`,
`Configure`, `QueueSetup`, `PortSetup`. `lcores`, the event devices and which of
them is `event_sw0` are chosen at the start. The 8-bit variables `nb_workers`,
`evdev_id` and `ev_port` are kept modulo 256. The module shows that the launch
is never reached (section 6), and that is why the two loops have no module.
`OnlySw0Configured` is what saves a machine without the device `event_sw0`: the
negative result of `rte_event_dev_get_dev_id` goes into 8 bits (`main.c:64`)
and comes out as an id that no device has.

### The small programs

`Demos` starts one of seven programs, chosen by `program`; the others stay in
their initial states. They share nothing, so this checks and proves each of them
as if it were alone. Its constant `Started` says which may be started: the
translator with its script in the run `script`, the six others in `demos`, any
in the proofs. `NatTimerScript` and `EventStart` are described above; the others
are:

- `LiveStats`: `Launch` goes through the workers (`main.c:52-64`) and starts at
  most two loops; `Load` and `Store` are the two halves of `counter += ...` in
  `rx.c:7` and `tx.c:7`; `ShowBegin` and `ShowRead` are the show command, which
  reads the counters one by one in any order; `Exit` and `WaitLcore` the end,
  which is never reached with a loop running. `MaxRounds` bounds the rounds of
  each loop.
- `MpMessage`: `PrimarySends` and `PrimaryWakes` are the loop at
  `primary.c:32-35`; `Register` and `Deliver` the secondary's registration and
  its message thread; every process may start late, crash and start again, up
  to `MaxStarts` times. A message to a process that has not registered its
  handler is dropped.
- `TimerLoop`: both timer programs, which differ in their delays and in the
  sleep between two calls of `rte_timer_manage`. Up to `MaxLag` ticks are lost
  between two calls. Timers found due by one call run in the order of their expiry.
- `PacketParsing`: `Ether`, `Ip4`, `Ip6` and `ShowPorts` are the header walk of
  `packet_parsing.c`, with its pointer `data` as a position in the packet, its
  `uint16_t len`, and the farthest byte it has read. `__parser` of
  `ThreadedParsing/parser.c` is the same code, and `map` names it too.
- `GraphPrograms`: `rx.c`, `multiple_src_node.c` and `graph_demo.c`. The graph
  library is a set of nodes, the objects waiting at each, and the list of nodes
  a walk has still to run; each node function is an action or, in
  `classify_node_process`, one action per packet and one at the end.

## 3 The runs

| run | asks | instance | distinct states |
|---|---|---|---|
| `pipeline` | Does any interleaving, with any of the lcores missing, leak, double-free, overwrite, reorder or needlessly drop a buffer? Does each come back, and does reception go on? | 4 buffers, bursts of 3, rings of 2, NIC queues of 3 and 1 | 19,459 |
| `natrx` | Can expiry, packets and idle clearing collide? Do active flows stay and silent ones go? What does a failed add do? | 3 flows, 3 entries, table of 2, the code's timeouts, iterations of up to 3 ticks | 50,138 |
| `nattt` | Do the tables stay sound, do replies find their flow, and are entries without a mapping freed? | 3 flows, 3 entries, tables of 2, 4 ports, two paddings, timeout 2 | 190,087 |
| `script` | Does any script with garbage padding upset table or timers, and does the loop free everything? | all scripts of 3 packets and a sleep past the timeout, and main's | 252,834 |
| `script_refresh` | Does main's script do what its comment says? No: section 6 | main's script | - |
| `natclean` | Is the table sound, what leaks, do replies find their flow and active flows stay? | 2 flows, 3 entries, table of 2, 3 ports, two paddings, timeout 1 | 12,731 |
| `l2fwd` | Is a buffer lost or doubled without a race, and is each direction a lossy FIFO? | 1 or 2 lcores, 2 buffers, bursts of 2, queues of 2 and 1 | 590,065 |
| `l2learn` | Do frames reach hosts that stayed, whatever the table has lost? | 1 or 2 lcores, 2 hosts, table of 1, bursts of 2, queues of 2, one move | 258,672 |
| `l2learn_live` | Is a moved host found again, and does a signal end the program? | 1 or 2 lcores, 2 hosts, table of 2, bursts and queues of 1, one move | 99,488 |
| `eventstart_worker` | Has each worker an event port? No: section 6 | 1 to 8 lcores | - |
| `demos` | What the six other small programs promise; of `EventStart`: does it ever get to its loops, and which device does it configure? | 3 workers, 2 secondaries, a sixth of a second per tick, 11 lengths of packet, 3 buffers, 1 to 300 lcores, 64 event ports, up to 2 devices | 142,408 |

Why the bounds are enough. In the pipeline and the forwarders every guard
compares a burst with the room in front of it; rings and queues smaller than a
burst give every relation between the two. In the translators every interaction
is between two flows or two entries (an old and a new entry of one flow, a
failed add and a mapping, a port and the one that takes it over); the third
entry lets one more thing be in progress. In `natrx` and `nattt` there is one
flow more than a table holds, so adds fail, and in `natclean` two keys
more, through the padding. In all three the exception `FlowKeptWhileActive`
makes is reached: without it TLC finds an active flow lose a mapping. Two lcores
are enough for an overlap, and two hosts sharing a table of one entry for a
table that is full. `demos` goes past 258 lcores, where `nb_workers` wraps.
The code's constants 5 and 10 are used as they are where the timing matters, at
one tick a second. Time is kept relative (ticks left, ticks since), so no run
needs a bound on it. Symmetry over buffers, entries, flows, hosts and lcores is
used in safety runs only.

Fairness is stated in the modules and assumed for what really runs by itself.
`pipeline`: each launched handler keeps taking steps (each lcore has a CPU of
its own and its loop never blocks), main's loop is finished, and the NIC
completes what it accepted; nothing is assumed about arriving packets.
`script`: the one lcore goes on and sleeps end. `l2learn_live`: main and each
lcore's loop go on, and a host that can send does so again and again; the
signal need not come. `demos`: a running process goes on and its sleeps end,
but nothing makes a process start; the timer program has a CPU and time passes;
the graph program's one lcore goes on.

## 4 The proofs

| module | theorem | for every |
|---|---|---|
| `LossyFifoProofs` | `FifoCustody`: in the abstract FIFO each buffer has one owner | set of buffers |
| `ThreadedParsingProofs` | `TypeCorrect`, `BurstsNotOverwritten`, `DropsOnlyWhenFull`, `PipelineIsFifo`, `CustodyAlways` | set of buffers, burst size, ring and queue size |
| `NatRxLoopProofs` | `TypeCorrect`, `TimersStayInLiveEntries`, `TableStaysSound`, `ClearNeverFreesAFlow`, `SilentFlowsGo`, `ActiveFlowsAreKept` | number of keys and entries, table size, and timeouts that satisfy `TimingAssumption` |
| | `RoomLeavesNoStrays` | the same, if the table has room for every key (`Roomy`) |
| `NatTwoTablesProofs` | `TypeCorrect`, `TimersStayInLiveEntries`, `TablesStaySound`, `RepliesComeBack`, `ActiveFlowsAreKept`, `OrphansAreFreed` | number of flows, entries and ports, table size, padding, timeout |
| `NatCleanupProofs` | `TableStaysSound`, `LeaksAreFailedAdds`, `RepliesComeBack`, `ActiveFlowsAreKept` | number of flows, entries and ports, table size, padding, timeout |
| `L2LearnProofs` | `StayersAreReached` | number of lcores, hosts and moves, table, burst and queue size |
| `L2FwdProofs` | `BuffersKept` | number of lcores and buffers, burst and queue size |
| | `ForwardsInOrder` | the same, with one lcore |
| `DemosProofs` | `ScriptTimersLive`, `ScriptEntriesSound` (`NatTimerScript`) | script, packets, padding, number of entries, and timeouts with `Timeout + Late <= Idle + 1` |
| | `CountsAreKept`, `LineIsOfTheCommand` (`LiveStats`) | number of workers and rounds |
| | `TimersFireInTurn` (`TimerLoop`) | clock rate, and lag of less than a second |
| | `ReadsStayInside`, `PortsAreTransport` (`PacketParsing`) | burst, lengths of frames of up to 16 bits, and data room for the longest headers |
| | `GraphCustody`, `BurstIsPrinted` (`GraphPrograms`) | set of buffers, burst, number of prints |
| | `LoopsUnreachable`, `EachWorkerItsPort`, `MissingDeviceRefused` (`EventStart`) | number of lcores, up to 254 event ports and 237 devices |

With these, every invariant a passing run checks is a theorem, and so are the
action properties and both refinements of `LossyFifo`.

*Pipeline.* Each place of the pipeline is a sequence with a bound
(`TypeOK`), and a handler holds buffers exactly when it is past its dequeue
(`NothingOverwritten`); the two together are inductive. From them each step is
shown to be a step or a stutter of `LossyFifo` under the mapping `Line`, with
the facts about cutting and joining sequences in `LossyFifoProofs`. Custody is
proved once for the abstract FIFO, where it is short, and carried over. That
drops come only from full rings is a fact about each enqueue
(`RefusedIsFull`).

*Receive loop.* That no clearing frees an armed timer is not inductive: it
depends on when the timers were last set. `IndInv` adds three bounds:
an armed timer was set at most `MaxIter` ticks after the last packet was seen
(`ResetEarly`), the burst in progress came in this iteration (`BurstIsFresh`),
and a timer that survived `rte_timer_manage` was not due then
(`ArmedIsRecent`). With `TimingAssumption` they leave no armed timer when the
clearing is due. The timer of an entry the table leads to tells exactly how
long its flow has been silent (`Told`), because a packet of the flow finds this
entry and no other; the theorems about active and silent flows follow from
that. A mapping goes with the timer of its own entry or of another one of the
same key. If the table has room for every key no add fails, every entry in
memory is the one its key leads to (`RoomLeavesNoStrays`), and there is no
other.

*Two tables.* `IndInv` adds `Aging` to the invariants the run checks: a flow
used within the timeout has an entry in memory, in a table or not, whose timer
was restarted by its last packet. An entry whose timer is due is another one,
so a mapping of an active flow goes only if there are two. `OrphansAreFreed`
is about the entries neither table leads to: no step but time touches their
timers.

*Cleanup by age.* The same shape: `TableSound` and `OnlyFailedAddsLeak` are
inductive with the types, `RoundTrip` needs both, and `Aging` (a flow with a
packet within the timeout has an entry stamped by its last one) is what
`FlowKeptWhileActive` adds.

*Learning switch.* `StayersAreReached` needs what every frame on its way says:
a frame in a queue or a burst of port p comes from a host that is behind p, or
has moved (`QueuesKnown`, `BurstsKnown`), and so the table says of a host that
stayed its port or nothing (`TableKnown`). A lost add or a missed lookup leaves
nothing, and then the frame is flooded, which with two ports is the right one.

*Static forwarding.* The queues of the ports and the bursts of the lcores are
the shelves of the program: no buffer is on two, or twice on one, or on one and
in the pool, and each is somewhere (`Kept`, with its lemmas in
`LossyFifoProofs`: a buffer put on a shelf, taken off, a run of buffers moved to
another shelf). The inductive invariant says this while `raced` is false
(`Placed`), that an lcore has a burst exactly at the labels between its receive
and its last free (`Carrying`), and that two lcores are in calls on one queue
only if `raced` (`Apart`); that a call which is alone does what it should
follows from the last. With one lcore nothing is ever raced (`Alone`), each
direction's line is the burst in hand, if it came from that port, and the
queue it came from, and every step moves one direction as `LossyFifo` may and
leaves the other as it is (`Moves`).

*Scripted translator.* As in the receive loop, what makes the clearing harmless
is that a flow's own timer has fired before the table is idle for that long. No
packet comes in the loop, so the bound is `Late`, the ticks a call may be late,
in place of two iterations: a timer is at most as far behind as the table is
idle (`ResetWhenSeen`), and what `rte_timer_manage` left armed was not due
(`NotDueAtManage`). With one more tick of lateness TLC finds a clearing that
frees an armed timer. That no two entries share a port needs that none is freed
while the script runs, so that `next_port` counts them (`PortsCounted`).

*Small programs.* `LiveStats`: each loop is started once (`OneLoopEach`), so a
counter has one writer, and what it has loaded is still there when it stores
(`Loaded`); a number shown is at least what the counter was when the command
began (`Shown`). `TimerLoop`: the timers are set within less than a second of
each other, and their delays differ by seconds, so what they have left is in
the order of the delays (`InOrder`), and those that have fired come before
those that have not (`FiredFirst`); how late one can be (`NotLate`) adds up the
lags while the timers are set, and one sleep afterwards. `PacketParsing`:
`data`, `len` and the bytes read are known at each header, as numbers; the
16-bit `len` can wrap, and it does not matter; that a truncated packet is read
no farther than the longest headers is a bound on them. `GraphPrograms`: the shelves
again, which are the streams of the nodes, the two arrays of the classifier and
the NIC's queue (`GraphHeld`); a graph that is walked has all its nodes
(`Walked`), which is a fact about the closure of the edges (`WholeGraph`).
`BurstIsPrinted` follows the burst: at each point of the walk only some nodes
hold packets (`Phases`), those and the ones printed are the burst without its
other packets (`Accounted`), and each stream has them in the order they came
(`Sorted`).

*Event device.* The ports the device has are `(lcores - 2) % 256`, never more
than `lcores - 2`, and the ports handed out are 0, 1, 2, ... in order; the loops
would start after port `lcores - 2` was set up, which no device that was
configured has. A missing `event_sw0` becomes device 237, and there are fewer.

What stays with TLC is liveness, because fairness and `ENABLED` are beyond the
prover: `EveryBufferReturns` and `ReceptionNeverStalls` (`pipeline`), `Drained`
(`script`), `MovedHostsFound` and `SignalEnds` (`l2learn_live`), `EveryoneTold`
and `StopsAtLimit` (`demos`). `EveryoneTold` is all that `MpMessage` promises.
`PrintedByVersion` speaks of positions in `arrived` and `printed` and not of a
filtered sequence, because `SelectSeq` is recursive and nothing can be proved
of it; the two say the same of a burst whose packets are all different, which
they are.

## 5 Abstractions and assumptions

- A packet is its mbuf in the pipeline and the forwarders, its key in the
  translators, and what its headers say in `PacketParsing`. Addresses, ports and
  payload are kept only where an action depends on them.
- `rte_hash_add_key_data` fails on an absent key when `HashEntries` keys are
  present and at no other time. DPDK's table can fail earlier; that is a table
  with fewer entries, and the proofs are for every number.
- `rte_malloc` returns some free address; that it may return NULL, which the
  code would write through, is not modelled. Its memory is not cleared, as its
  documentation says: the padding of `rev` (`NAT_twoTables/main.c:134-135`) is
  any value of `Padding`. The padding of a variable initialised with `{0}` is
  zero, which is what the compilers this is built with do.
- `rte_timer_manage` runs the callbacks of all timers that are due as one step:
  on one lcore nothing can happen in between. The translators' callbacks
  commute; in `TimerLoop`, where their order is the question, they run in the
  order of expiry, as the library keeps its list.
- `nat_cleanup` is one step that takes every old mapping once. It deletes keys
  while `rte_hash_iterate` walks the table (`NAT/main.c:182-190`); what that does
  to the walk is the library's affair, and nothing else runs in between.
- The NIC frees the mbufs `rte_eth_tx_burst` accepted when it has sent them
  (`ThreadedParsing/tx.c:23-24`). No packet is duplicated by the NIC.
- 16-bit ports are `% PortSpace`, with a small `PortSpace` in the runs and any
  in the proofs. `NatTimerScript` runs so few packets that its port cannot
  wrap, and has no modulus.
- The time stamp counter does not wrap.
- What two overlapping calls on an unprotected queue or table do is undefined.
  `L2Fwd` and `L2Learn` let each of them come to nothing, and a lookup miss;
  corrupted memory is beyond them. Nothing is claimed of `L2Fwd`'s buffers after
  an overlap.
- The event device, port and queue calls fail when their arguments are invalid,
  and may fail at any other time for want of resources.
- Messages that wait unread at a secondary are all the same, so `MpMessage`
  keeps only whether there is one.
- `set` of the live statistics only prints, and has no action.
- The graph library has room for all objects a walk produces, and runs each
  source once per walk.
- The bounds of the runs: `MaxRounds` (counting loops), `MaxMoves` (hosts),
  `MaxStarts` (processes), `Lengths` (packets), `MaxLag` (lost ticks; the order
  of the timers needs less than a second lost between setting two of them).

## 6 Disagreements found

- `nwt.c:228` says "refresh flow" of the second `process_packet(&p1)`. It does
  not refresh it: the first call has replaced p1's source by the public
  endpoint (`nwt.c:135-136`), so the second call looks up another key and
  creates another flow (run `script_refresh`).
- `nwt.c:229` says "let one expire" of the sleep before the loop. Timers are
  looked at only in the loop, which starts at 10 s, when all flows, last used
  at 0, 2 and 4 s, are overdue: all expire in the first call. No run is needed
  to see it, but `script` contains this script.
- `NAT/main.c:240` prints "WAITING FOR TIMEOUT (simulate)", but nothing waits:
  `nat_cleanup` is called at once (`main.c:243`) and, with mappings younger than
  20 s, deletes nothing.
- `Eventdev/Parsing/main.c:26` says "worker lcore → event port". The device is
  configured with two ports fewer than there are lcores (`main.c:207`), one port
  is set up for every worker, and the last setup is out of range: the program
  exits on every machine (run `eventstart_worker`, theorem `LoopsUnreachable`).
- `cmd_exit.c:18` says of `cmdline_quit` "THIS exits cleanly". It leaves the
  command line; main then waits for loops that never end, as the comment at
  `Live_Stats_using_CLI/main.c:77` knows.
- `graph_demo.c:109` makes its graph of the nodes that match "rx_node"; the node
  is called "RX" (`graph_demo.c:46`). The graph is not created and the node
  functions never run (`Create` in `GraphPrograms`).

## 7 Not modelled

- `Eventdev/demo.c`: one thread enqueues three events and dequeues them, once.
  Scheduling in between is done by a service of the library, of which the
  source shows nothing.
- `rx_loop` and `worker_loop` of `Eventdev/Parsing/main.c` and the node
  functions of `graph_demo.c`: never run (section 6).
- `Graphs/rx_packets/main.c`: commented out.
- `CLI_lib/cmdline_demo.c`: parse tables and three commands without state.
- `reordering/reorder.c`: eight mbufs are inserted in a fixed order and drained;
  what comes out is decided in the library.
- `mbuf/operations.c`: one straight line of library calls with constant sizes.
- `Mempool/`, `Ports/`, `hello.c`, `diff_fn_diff_thread.c`: straight-line library
  calls of single threads.
- `Callbacks/`: unfinished; the file of the callback is empty.
- `rte_malloc` returning NULL, which the translators write through at once.
- Makefiles, binaries and documents.

## 8 Plan

Nothing of the program's own logic is left without a module, and no safety
property of a run without a theorem. What would still add to the project:

1. A refinement of a plain map from flows to endpoints by `NatTwoTables` and
   `NatRxLoop`: what a translator promises, in one module for both. The
   invariants it needs are proved (`RoundTrip`, `TableSound`).
2. What happens to the line of a direction in `L2Fwd` with several lcores that
   do not race: `ForwardsInOrder` is for one, and several reorder.
3. A larger `l2fwd` run, with three buffers, where TLC's time allows.
