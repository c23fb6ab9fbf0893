----------------------------- MODULE EventStart -----------------------------
(***************************************************************************)
(* src/Eventdev/Parsing/main.c up to the launch of its loops: the ethdev,  *)
(* the event device, its two queues, and one event port for each worker    *)
(* lcore, for any number of lcores and of event devices.  A call fails     *)
(* when its arguments are not valid, and may fail for want of resources.   *)
(***************************************************************************)
EXTENDS Integers, Sequences

CONSTANTS MaxLcores,    \* RTE_MAX_LCORE
          MaxPorts,     \* event ports event_sw can have
          MaxDevs       \* RTE_EVENT_MAX_DEVS

\* event_sw has at most 64 ports, and there are at most 16 devices.
SizeAssumption == MaxLcores \in Nat /\ MaxPorts \in 0..254 /\ MaxDevs \in 0..237

UInt8 == 0..255
NoDev == -19            \* -ENODEV
Queues == 2             \* RX_Q, TX_Q

VARIABLES lcores,       \* rte_lcore_count()
          devs, sw0,    \* event devices; which of them is event_sw0, or NoDev
          pc,           \* main's next call, "loops" at the end, or "exit"
          evdev_id,
          ports,        \* nb_event_ports the device is configured with
          queues,       \* event queues set up
          lcore_to_evport       \* ... of the first workers, in their order

system == <<lcores, devs, sw0>>
vars == <<system, pc, evdev_id, ports, queues, lcore_to_evport>>

Init ==
    /\ lcores \in 1..MaxLcores
    /\ devs \in 0..MaxDevs
    /\ sw0 \in {NoDev} \cup 0..(devs - 1)
    /\ pc = "port_init"
    /\ evdev_id = 0
    /\ ports = 0
    /\ queues = 0
    /\ lcore_to_evport = <<>>

locals == <<evdev_id, ports, queues, lcore_to_evport>>

Exit == pc' = "exit" /\ UNCHANGED <<system, locals>>    \* rte_exit

PortInit ==                             \* port_init: device 0, one queue pair
    /\ pc = "port_init"
    /\ \/ pc' = "dev_id" /\ UNCHANGED <<system, locals>>
       \/ Exit

\* Mutant: a missing device is taken for the first.
DevIdOrFirst == IF sw0 = NoDev THEN 0 ELSE sw0
DevId == sw0 % 256                      \* evdev_id is a uint8_t

GetDevId ==                             \* evdev_id < 0 is never true
    /\ pc = "dev_id"
    /\ evdev_id' = DevId
    /\ pc' = "configure"
    /\ UNCHANGED <<system, ports, queues, lcore_to_evport>>

\* Mutant: a port for every worker.
NbWorkersAll == (lcores - 1) % 256
NbWorkers == (lcores - 2) % 256         \* nb_workers is a uint8_t

Configure ==
    /\ pc = "configure"
    /\ \/ /\ evdev_id < devs /\ NbWorkers \in 1..MaxPorts
          /\ ports' = NbWorkers
          /\ pc' = "queues"
          /\ UNCHANGED <<system, evdev_id, queues, lcore_to_evport>>
       \/ Exit

QueueSetup ==
    /\ pc = "queues"
    /\ \/ /\ queues' = queues + 1
          /\ pc' = IF queues + 1 = Queues THEN "ports" ELSE pc
          /\ UNCHANGED <<system, evdev_id, ports, lcore_to_evport>>
       \/ Exit

EvPort == Len(lcore_to_evport) % 256    \* ev_port++ of a uint8_t

\* One turn of the loop over the workers; after the last the device is started
\* and rx_loop and worker_loop are launched.
PortSetup ==
    /\ pc = "ports"
    /\ \/ /\ EvPort < ports
          /\ lcore_to_evport' = Append(lcore_to_evport, EvPort)
          /\ pc' = IF Len(lcore_to_evport) + 1 = lcores - 1 THEN "loops" ELSE pc
          /\ UNCHANGED <<system, evdev_id, ports, queues>>
       \/ Exit

Next == PortInit \/ GetDevId \/ Configure \/ QueueSetup \/ PortSetup

Spec == Init /\ [][Next]_vars

-----------------------------------------------------------------------------
\* The types of the variables.
TypeOK ==
    /\ lcores \in 1..MaxLcores
    /\ devs \in 0..MaxDevs
    /\ sw0 \in {NoDev} \cup 0..(devs - 1)
    /\ pc \in {"port_init", "dev_id", "configure", "queues", "ports", "loops", "exit"}
    /\ evdev_id \in UInt8
    /\ ports \in UInt8
    /\ queues \in 0..Queues
    /\ lcore_to_evport \in Seq(UInt8)

\* rx_loop and worker_loop are never launched, with any number of lcores: with
\* one or two the configuration is refused (main.c:77), with more the setup of
\* the last worker's port (main.c:105).
LoopsNeverRun == pc # "loops"

\* Only event_sw0 is ever configured, although a missing event_sw0 passes the
\* test at main.c:65: its id, -19 as a uint8_t, is refused at main.c:77.
OnlySw0Configured == ports > 0 => evdev_id = sw0

\* Workers do not share event ports, which are for one thread each (main.c:118).
PortsNotShared ==
    \A i, j \in DOMAIN lcore_to_evport :
        i # j => lcore_to_evport[i] # lcore_to_evport[j]

\* What main.c:26 says: a worker lcore has an event port.  The device has a
\* port for each worker that one is to be set up for.
WorkerHasPort == pc = "ports" => EvPort < ports
=============================================================================
