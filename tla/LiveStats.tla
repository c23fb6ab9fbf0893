----------------------------- MODULE LiveStats -----------------------------
(***************************************************************************)
(* src/CLI_lib/Live_Stats_using_CLI: an lcore counts received packets,     *)
(* another counts sent ones, and main shows the counters at the command    *)
(* line.  Nothing synchronises them: a count is a load and a store, and a  *)
(* line of the show command is made of loads in any order.                 *)
(***************************************************************************)
EXTENDS Naturals, Sequences, FiniteSets

CONSTANTS MaxWorkers,   \* RTE_MAX_LCORE - 1
          None,
          MaxRounds     \* bound: rounds of each counting loop

Counters == {"rx_pkts", "tx_pkts"}
SizeAssumption == {MaxWorkers, MaxRounds} \subseteq Nat /\ None \notin Nat \cup Counters
Step == [rx_pkts |-> 10, tx_pkts |-> 8]

VARIABLES workers,      \* lcores besides the main one
          pc,           \* main: "launch", "cli", "show", "wait", "ended"
          next,         \* next lcore of main's loop
          launched,
          loop,         \* what each worker counts, or None
          reg,          \* what it has loaded, or None
          stats,        \* g_port_stats[0]; nobody touches the other ports
          shown,        \* the line being shown, or last shown
          rounds,       \* history: stores to each counter
          floor         \* history: the counters when the show began

vars == <<workers, pc, next, launched, loop, reg, stats, shown, rounds, floor>>
lcore_vars == <<workers, loop, reg, stats, rounds>>
show_vars == <<shown, floor>>

Zero == [c \in Counters |-> 0]

Init ==
    /\ workers \in 0..MaxWorkers
    /\ pc = "launch"
    /\ next = 1
    /\ launched = 0
    /\ loop = [l \in 1..workers |-> None]
    /\ reg = [l \in 1..workers |-> None]
    /\ stats = Zero /\ shown = Zero /\ rounds = Zero /\ floor = Zero

LoopFor(n) == CASE n = 0 -> "rx_pkts" [] n = 1 -> "tx_pkts" [] OTHER -> None

\* Mutant: launched is not counted up.
LaunchNoCount ==
    /\ pc = "launch" /\ next <= workers
    /\ loop' = [loop EXCEPT ![next] = LoopFor(launched)]
    /\ next' = next + 1
    /\ UNCHANGED <<workers, pc, launched, reg, stats, rounds, show_vars>>
Launch ==                               \* one worker of RTE_LCORE_FOREACH
    /\ pc = "launch" /\ next <= workers
    /\ loop' = [loop EXCEPT ![next] = LoopFor(launched)]
    /\ launched' = IF launched < 2 THEN launched + 1 ELSE launched
    /\ next' = next + 1
    /\ UNCHANGED <<workers, pc, reg, stats, rounds, show_vars>>

StartCli ==                             \* cmdline_stdin_new, or return -1
    /\ pc = "launch" /\ next > workers
    /\ pc' \in {"cli", "ended"}
    /\ UNCHANGED <<next, launched, lcore_vars, show_vars>>

Load(l) ==                              \* rx_loop, tx_loop: counter += ...
    /\ loop[l] # None /\ reg[l] = None /\ pc # "ended"
    /\ rounds[loop[l]] < MaxRounds
    /\ reg' = [reg EXCEPT ![l] = stats[loop[l]]]
    /\ UNCHANGED <<workers, pc, next, launched, loop, stats, rounds, show_vars>>

Store(l) ==                             \* ... and usleep
    /\ loop[l] # None /\ reg[l] # None /\ pc # "ended"
    /\ LET c == loop[l]
       IN  /\ stats' = [stats EXCEPT ![c] = reg[l] + Step[c]]
           /\ rounds' = [rounds EXCEPT ![c] = @ + 1]
    /\ reg' = [reg EXCEPT ![l] = None]
    /\ UNCHANGED <<workers, pc, next, launched, loop, show_vars>>

\* Mutant: the numbers of the last command are kept.
ShowBeginKeeps ==
    /\ pc = "cli"
    /\ pc' = "show"
    /\ floor' = stats
    /\ UNCHANGED <<next, launched, lcore_vars, shown>>
ShowBegin ==                            \* cmd_show_port_stats_parsed
    /\ pc = "cli"
    /\ pc' = "show"
    /\ shown' = [c \in Counters |-> None]
    /\ floor' = stats
    /\ UNCHANGED <<next, launched, lcore_vars>>

ShowRead(c) ==                          \* one argument of cmdline_printf
    /\ pc = "show" /\ shown[c] = None
    /\ shown' = [shown EXCEPT ![c] = stats[c]]
    /\ pc' = IF \A d \in Counters \ {c} : shown[d] # None THEN "cli" ELSE pc
    /\ UNCHANGED <<next, launched, lcore_vars, floor>>

Exit ==                                 \* cmd_exit_parsed: cmdline_quit
    /\ pc = "cli"
    /\ pc' = "wait"
    /\ UNCHANGED <<next, launched, lcore_vars, show_vars>>

WaitLcore ==                            \* rte_eal_mp_wait_lcore: no loop ends
    /\ pc = "wait" /\ \A l \in 1..workers : loop[l] = None
    /\ pc' = "ended"
    /\ UNCHANGED <<next, launched, lcore_vars, show_vars>>

Main == Launch \/ StartCli \/ (\E c \in Counters : ShowRead(c)) \/ WaitLcore
Count == \E l \in 1..workers : Load(l) \/ Store(l)

Next == Main \/ ShowBegin \/ Exit \/ Count

Spec == Init /\ [][Next]_vars
-----------------------------------------------------------------------------
\* The types of the variables.
Values(c) == {Step[c] * k : k \in 0..MaxRounds}
TypeOK ==
    /\ workers \in 0..MaxWorkers
    /\ pc \in {"launch", "cli", "show", "wait", "ended"}
    /\ next \in 1..(workers + 1)
    /\ launched \in 0..2
    /\ \A l \in 1..workers : loop[l] \in Counters \cup {None}
    /\ \A l \in 1..workers : reg[l] = None \/ reg[l] \in Values(loop[l])
    /\ \A c \in Counters : stats[c] \in Values(c) /\ shown[c] \in Values(c) \cup {None}

\* No count is lost: unsynchronised loads and stores (rx.c:7, tx.c:7) are enough
\* only because main starts each loop on one lcore and no other (main.c:52-64).
NoCountLost == TypeOK /\ \A c \in Counters : stats[c] = rounds[c] * Step[c]

\* A line shown mixes moments, but each number in it (cmd_show.c:28-29) is one
\* its counter had while the command ran.
ShownDuringCommand ==
    \A c \in Counters : shown[c] # None => floor[c] <= shown[c] /\ shown[c] <= stats[c]
=============================================================================
