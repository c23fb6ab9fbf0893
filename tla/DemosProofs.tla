---------------------------- MODULE DemosProofs ----------------------------
(* What the modules say of the small programs, for every value of their    *)
(* constants: an inductive invariant for each program.                     *)
EXTENDS Demos, FiniteSetTheorems, SequenceTheorems, TLAPS

\* The lemmas about buffers on shelves; the queues are of no matter to them.
Facts == INSTANCE LossyFifoProofs WITH line <- rxq, wire <- ip4, free <- pool

\* A program that is started does its steps; the others stay as they are.
LEMMA Apart ==
    [Next]_vars => /\ [Stats!Next]_stats_vars /\ [Timers!Next]_timer_vars /\ [Parsing!Next]_parsing_vars
                   /\ [Graph!Next]_graph_vars /\ [Start!Next]_start_vars
                   /\ [Script!Next]_script_vars
BY DEF Next, vars

-----------------------------------------------------------------------------
(* The live statistics: each loop is started on one lcore, so that nobody   *)
(* comes between its load and its store.                                    *)

StatsTypes ==
    /\ workers \in 0..MaxWorkers
    /\ cli_pc \in {"launch", "cli", "show", "wait", "ended"}
    /\ cli_next \in 1..workers + 1
    /\ launched \in 0..2
    /\ loop \in [1..workers -> Stats!Counters \cup {None}]
    /\ reg \in [1..workers -> Nat \cup {None}]
    /\ stats \in [Stats!Counters -> Nat] /\ floor \in [Stats!Counters -> Nat]
    /\ rounds \in [Stats!Counters -> 0..MaxRounds]
    /\ cli_shown \in [Stats!Counters -> Nat \cup {None}]
LoopsInTurn ==
    \A l \in 1..workers : /\ l >= cli_next => loop[l] = None
                          /\ loop[l] = "rx_pkts" => launched >= 1
                          /\ loop[l] = "tx_pkts" => launched = 2
OneLoopEach == \A k, l \in 1..workers : k # l /\ loop[k] # None => loop[k] # loop[l]
Loaded ==
    \A l \in 1..workers : reg[l] # None => /\ loop[l] # None /\ reg[l] = stats[loop[l]]
                                           /\ rounds[loop[l]] < MaxRounds
Counted == \A c \in Stats!Counters : stats[c] = rounds[c] * Stats!Step[c]
Shown ==
    \A c \in Stats!Counters :
        /\ floor[c] <= stats[c]
        /\ cli_shown[c] # None => /\ floor[c] <= cli_shown[c] /\ cli_shown[c] <= stats[c]
                                  /\ cli_shown[c] \in Stats!Values(c)
StatsInv == StatsTypes /\ LoopsInTurn /\ OneLoopEach /\ Loaded /\ Counted /\ Shown

LEMMA StatsConstants ==
    /\ MaxWorkers \in Nat /\ MaxRounds \in Nat /\ None \notin Nat \cup Stats!Counters
    /\ Stats!Counters = {"rx_pkts", "tx_pkts"}
    /\ Stats!Step["rx_pkts"] = 10 /\ Stats!Step["tx_pkts"] = 8
BY StatsAssumption DEF Stats!SizeAssumption, Stats!Counters, Stats!Step

\* Counting a round leaves a product of the step.
LEMMA RoundCounted ==
    ASSUME NEW c \in Stats!Counters, NEW n \in Nat
    PROVE  /\ n * Stats!Step[c] \in Nat /\ 0 * Stats!Step[c] = 0
           /\ (n + 1) * Stats!Step[c] = n * Stats!Step[c] + Stats!Step[c]
           /\ n * Stats!Step[c] = Stats!Step[c] * n
           /\ Stats!Step[c] \in Nat
<1>1. CASE c = "rx_pkts"
  BY <1>1, StatsConstants
<1>2. CASE c = "tx_pkts"
  BY <1>2, StatsConstants
<1> QED
  BY <1>1, <1>2, StatsConstants

\* A counter holds a whole number of steps.
LEMMA CountIsValue ==
    ASSUME StatsTypes, Counted, NEW c \in Stats!Counters
    PROVE  stats[c] \in Stats!Values(c)
<1>1. rounds[c] \in 0..MaxRounds /\ rounds[c] \in Nat
  BY DEF StatsTypes
<1>2. stats[c] = Stats!Step[c] * rounds[c]
  <2>1. stats[c] = rounds[c] * Stats!Step[c]
    BY DEF Counted
  <2>2. rounds[c] * Stats!Step[c] = Stats!Step[c] * rounds[c]
    BY <1>1, RoundCounted
  <2> QED  BY <2>1, <2>2, Zenon
<1> QED
  BY <1>1, <1>2, Zenon DEF Stats!Values

LEMMA StatsInit == Stats!Init => StatsInv
<1>. SUFFICES ASSUME Stats!Init PROVE StatsInv
  OBVIOUS
<1>1. \A c \in Stats!Counters : 0 * Stats!Step[c] = 0 /\ stats[c] = 0 /\ rounds[c] = 0 /\ cli_shown[c] = 0 /\ floor[c] = 0
  BY RoundCounted DEF Stats!Init, Stats!Zero
<1>2. \A c \in Stats!Counters : 0 \in Stats!Values(c)
  <2>1. \A c \in Stats!Counters : Stats!Step[c] * 0 = 0
    BY StatsConstants
  <2> QED  BY <2>1, StatsConstants DEF Stats!Values
<1>3. StatsTypes
  BY StatsConstants DEF Stats!Init, Stats!Zero, StatsTypes
<1> QED
  BY <1>1, <1>2, <1>3, StatsConstants
  DEF Stats!Init, StatsInv, LoopsInTurn, OneLoopEach, Loaded, Counted, Shown

LEMMA StatsLaunch == StatsInv /\ Stats!Launch => StatsInv'
<1>. SUFFICES ASSUME StatsInv, Stats!Launch PROVE StatsInv'
  OBVIOUS
<1>. DEFINE n == cli_next
            f == Stats!LoopFor(launched)
<1>1. /\ n \in 1..workers /\ loop' = [loop EXCEPT ![n] = f] /\ cli_next' = n + 1
      /\ launched' = IF launched < 2 THEN launched + 1 ELSE launched
      /\ UNCHANGED <<workers, cli_pc, reg, stats, rounds, cli_shown, floor>>
      /\ launched \in 0..2 /\ loop \in [1..workers -> Stats!Counters \cup {None}]
  BY StatsConstants DEF Stats!Launch, Stats!show_vars, StatsInv, StatsTypes
<1>2. /\ launched = 0 => f = "rx_pkts"
      /\ launched = 1 => f = "tx_pkts"
      /\ launched = 2 => f = None
  BY DEF Stats!LoopFor
<1>. HIDE DEF f
<1>3. f \in Stats!Counters \cup {None}
  BY <1>1, <1>2, StatsConstants
<1>4. /\ loop' \in [1..workers -> Stats!Counters \cup {None}] /\ loop'[n] = f /\ loop[n] = None
      /\ \A l \in 1..workers : l # n => loop'[l] = loop[l]
  BY <1>1, <1>3 DEF StatsInv, LoopsInTurn
<1>5. StatsTypes'
  BY <1>1, <1>4 DEF StatsInv, StatsTypes
<1>6. LoopsInTurn'
  BY <1>1, <1>2, <1>4, StatsConstants DEF StatsInv, StatsTypes, LoopsInTurn
<1>7. OneLoopEach'
  <2>1. ASSUME NEW l \in 1..workers, l # n, f # None PROVE loop[l] # f
    BY <1>1, <1>2, <2>1, StatsConstants DEF StatsInv, LoopsInTurn
  <2> QED  BY <1>1, <1>4, <2>1 DEF StatsInv, OneLoopEach
<1>8. Loaded'
  BY <1>1, <1>4 DEF StatsInv, Loaded
<1>9. Counted' /\ Shown'
  BY <1>1 DEF StatsInv, Counted, Shown, Stats!Values
<1> QED
  BY <1>5, <1>6, <1>7, <1>8, <1>9 DEF StatsInv

LEMMA StatsLoad == \A l \in 1..workers : StatsInv /\ Stats!Load(l) => StatsInv'
<1>. SUFFICES ASSUME NEW l \in 1..workers, StatsInv, Stats!Load(l) PROVE StatsInv'
  OBVIOUS
<1>1. /\ loop[l] \in Stats!Counters /\ reg' = [reg EXCEPT ![l] = stats[loop[l]]]
      /\ rounds[loop[l]] < MaxRounds
      /\ UNCHANGED <<workers, cli_pc, cli_next, launched, loop, stats, rounds, cli_shown, floor>>
  BY DEF Stats!Load, Stats!show_vars, StatsInv, StatsTypes
<1>2. reg' \in [1..workers -> Nat \cup {None}] /\ reg'[l] = stats[loop[l]]
      /\ \A k \in 1..workers : k # l => reg'[k] = reg[k]
  BY <1>1 DEF StatsInv, StatsTypes
<1>3. Loaded'
  <2>1. loop[l] # None
    BY <1>1, StatsConstants
  <2> QED  BY <1>1, <1>2, <2>1 DEF StatsInv, Loaded
<1> QED
  BY <1>1, <1>2, <1>3 DEF StatsInv, StatsTypes, LoopsInTurn, OneLoopEach, Counted, Shown, Stats!Values

LEMMA StatsStore == \A l \in 1..workers : StatsInv /\ Stats!Store(l) => StatsInv'
<1>. SUFFICES ASSUME NEW l \in 1..workers, StatsInv, Stats!Store(l) PROVE StatsInv'
  OBVIOUS
<1>. DEFINE c == loop[l]
            k == Stats!Step[c]
<1>1. /\ c \in Stats!Counters /\ reg[l] # None /\ reg[l] = stats[c] /\ rounds[c] < MaxRounds
      /\ stats' = [stats EXCEPT ![c] = reg[l] + k] /\ rounds' = [rounds EXCEPT ![c] = @ + 1]
      /\ reg' = [reg EXCEPT ![l] = None]
      /\ UNCHANGED <<workers, cli_pc, cli_next, launched, loop, cli_shown, floor>>
  BY DEF Stats!Store, Stats!show_vars, StatsInv, StatsTypes, Loaded
<1>2. stats[c] \in Nat /\ rounds[c] \in 0..MaxRounds /\ k \in Nat
      /\ stats \in [Stats!Counters -> Nat] /\ rounds \in [Stats!Counters -> 0..MaxRounds]
      /\ reg \in [1..workers -> Nat \cup {None}] /\ loop \in [1..workers -> Stats!Counters \cup {None}]
  BY <1>1, RoundCounted DEF StatsInv, StatsTypes
<1>3. stats[c] + k = (rounds[c] + 1) * k
  <2>1. stats[c] = rounds[c] * k
    BY <1>1 DEF StatsInv, Counted
  <2>. DEFINE n == rounds[c]
  <2>2. n \in Nat /\ stats[c] = n * k
    BY <1>2, <2>1
  <2>. HIDE DEF n, c
  <2>3. c \in Stats!Counters
    BY <1>1
  <2>4. (n + 1) * k = n * k + k
    BY <2>2, <2>3, RoundCounted
  <2> QED  BY <2>2, <2>4, Zenon DEF n
<1>. HIDE DEF c, k
<1>4. /\ stats' \in [Stats!Counters -> Nat] /\ rounds' \in [Stats!Counters -> 0..MaxRounds]
      /\ reg' \in [1..workers -> Nat \cup {None}] /\ reg'[l] = None
      /\ \A d \in Stats!Counters : d # c => stats'[d] = stats[d] /\ rounds'[d] = rounds[d]
      /\ stats'[c] = stats[c] + k /\ rounds'[c] = rounds[c] + 1
      /\ \A j \in 1..workers : j # l => reg'[j] = reg[j]
  BY <1>1, <1>2, StatsConstants
<1>5. StatsTypes' /\ LoopsInTurn' /\ OneLoopEach'
  BY <1>1, <1>4 DEF StatsInv, StatsTypes, LoopsInTurn, OneLoopEach
<1>6. Loaded'
  <2>1. ASSUME NEW j \in 1..workers, reg'[j] # None PROVE j # l /\ loop[j] # None /\ loop[j] # c
    BY <1>4, <2>1 DEF StatsInv, Loaded, OneLoopEach, c
  <2> QED  BY <1>1, <1>2, <1>4, <2>1 DEF StatsInv, Loaded
<1>7. Counted'
  BY <1>3, <1>4 DEF StatsInv, Counted, k
<1>8. Shown'
  <2>. SUFFICES ASSUME NEW d \in Stats!Counters
       PROVE  /\ floor[d] <= stats'[d]
              /\ cli_shown[d] # None => /\ floor[d] <= cli_shown[d] /\ cli_shown[d] <= stats'[d]
                                        /\ cli_shown[d] \in Stats!Values(d)
    BY <1>1 DEF Shown, Stats!Values
  <2>1. /\ floor[d] \in Nat /\ stats[d] \in Nat /\ stats'[d] \in Nat
        /\ cli_shown[d] # None => cli_shown[d] \in Nat
    BY <1>2, <1>4 DEF StatsInv, StatsTypes
  <2>2. stats[d] <= stats'[d]
    <3>1. CASE d = c
      <4>1. stats[c] \in Nat /\ k \in Nat /\ stats'[c] = stats[c] + k
        BY <1>2, <1>4
      <4> QED  BY <3>1, <4>1
    <3>2. CASE d # c
      <4>1. stats'[d] = stats[d]
        BY <1>4, <3>2
      <4> QED  BY <2>1, <4>1
    <3> QED  BY <3>1, <3>2
  <2>3. /\ floor[d] <= stats[d]
        /\ cli_shown[d] # None => /\ floor[d] <= cli_shown[d] /\ cli_shown[d] <= stats[d]
                                  /\ cli_shown[d] \in Stats!Values(d)
    BY DEF StatsInv, Shown
  <2> QED
    BY <2>1, <2>2, <2>3
<1> QED
  BY <1>5, <1>6, <1>7, <1>8 DEF StatsInv

LEMMA StatsShow == StatsInv /\ (Stats!ShowBegin \/ \E c \in Stats!Counters : Stats!ShowRead(c)) => StatsInv'
<1>1. ASSUME StatsInv, Stats!ShowBegin PROVE StatsInv'
  BY <1>1, StatsConstants DEF Stats!ShowBegin, Stats!lcore_vars, StatsInv, StatsTypes, LoopsInTurn, OneLoopEach,
    Loaded, Counted, Shown, Stats!Values
<1>2. ASSUME StatsInv, NEW c \in Stats!Counters, Stats!ShowRead(c) PROVE StatsInv'
  <2>1. /\ cli_shown' = [cli_shown EXCEPT ![c] = stats[c]] /\ cli_pc' \in {"cli", cli_pc}
        /\ UNCHANGED <<workers, cli_next, launched, loop, reg, stats, rounds, floor>>
    BY <1>2 DEF Stats!ShowRead, Stats!lcore_vars
  <2>2. stats[c] \in Stats!Values(c)
    BY <1>2, CountIsValue DEF StatsInv
  <2>3. stats[c] \in Nat /\ floor[c] <= stats[c] /\ stats[c] <= stats[c]
    BY <1>2 DEF StatsInv, StatsTypes, Shown
  <2>4. /\ cli_shown' \in [Stats!Counters -> Nat \cup {None}] /\ cli_shown'[c] = stats[c]
        /\ \A d \in Stats!Counters : d # c => cli_shown'[d] = cli_shown[d]
    BY <1>2, <2>1, <2>3 DEF StatsInv, StatsTypes
  <2>5. Shown'
    <3>. SUFFICES ASSUME NEW d \in Stats!Counters
         PROVE  /\ floor[d] <= stats[d]
                /\ cli_shown'[d] # None => /\ floor[d] <= cli_shown'[d] /\ cli_shown'[d] <= stats[d]
                                           /\ cli_shown'[d] \in Stats!Values(d)
      BY <2>1 DEF Shown, Stats!Values
    <3>1. CASE d = c
      BY <2>2, <2>3, <2>4, <3>1
    <3>2. CASE d # c
      BY <1>2, <2>4, <3>2 DEF StatsInv, Shown
    <3> QED
      BY <3>1, <3>2
  <2>6. StatsTypes'
    BY <1>2, <2>1, <2>4 DEF StatsInv, StatsTypes
  <2>7. LoopsInTurn' /\ OneLoopEach' /\ Loaded' /\ Counted'
    BY <1>2, <2>1 DEF StatsInv, LoopsInTurn, OneLoopEach, Loaded, Counted
  <2> QED
    BY <2>5, <2>6, <2>7 DEF StatsInv
<1> QED
  BY <1>1, <1>2

LEMMA StatsStep == StatsInv /\ [Stats!Next]_stats_vars => StatsInv'
<1>. DEFINE all == <<workers, cli_next, launched, loop, reg, stats, rounds, cli_shown, floor>>
<1>1. ASSUME StatsInv, UNCHANGED all, cli_pc' \in {cli_pc, "cli", "wait", "ended"} PROVE StatsInv'
  <2>1. StatsTypes'
    BY <1>1 DEF StatsInv, StatsTypes
  <2> QED
    BY <1>1, <2>1 DEF StatsInv, LoopsInTurn, OneLoopEach, Loaded, Counted, Shown, Stats!Values
<1>2. ASSUME StatsInv, Stats!StartCli \/ Stats!Exit \/ Stats!WaitLcore \/ UNCHANGED stats_vars PROVE StatsInv'
  <2>1. UNCHANGED all /\ cli_pc' \in {cli_pc, "cli", "wait", "ended"}
    BY <1>2 DEF Stats!StartCli, Stats!Exit, Stats!WaitLcore, Stats!lcore_vars, Stats!show_vars, stats_vars
  <2> QED  BY <1>1, <1>2, <2>1
<1> QED
  BY <1>2, StatsLaunch, StatsLoad, StatsStore, StatsShow DEF Stats!Next, Stats!Main, Stats!Count

\* No count is lost, on any number of workers (main.c:52-64, rx.c:7, tx.c:7).
THEOREM CountsAreKept == Spec => []NoCountLost
<1>1. StatsInv => NoCountLost
  <2>. SUFFICES ASSUME StatsInv PROVE Stats!NoCountLost
    BY DEF NoCountLost
  <2>1. \A c \in Stats!Counters : stats[c] \in Stats!Values(c)
    BY CountIsValue DEF StatsInv
  <2>2. \A l \in 1..workers : reg[l] = None \/ reg[l] \in Stats!Values(loop[l])
    BY <2>1 DEF StatsInv, StatsTypes, Loaded
  <2> QED
    BY <2>1, <2>2 DEF StatsInv, StatsTypes, Counted, Shown, Stats!NoCountLost, Stats!TypeOK
<1> QED
  BY <1>1, Apart, StatsInit, StatsStep, PTL DEF Spec, Init

\* Each number of a line shown is one its counter had during the command, though
\* the line is made of loads in any order (cmd_show.c:28-29).
THEOREM LineIsOfTheCommand == Spec => []ShownDuringCommand
<1>1. StatsInv => ShownDuringCommand
  BY DEF StatsInv, Shown, ShownDuringCommand, Stats!ShownDuringCommand
<1> QED
  BY <1>1, Apart, StatsInit, StatsStep, PTL DEF Spec, Init

-----------------------------------------------------------------------------
(* The timers: they are set in less than a second each, so that their order *)
(* is that of their delays all the time.                                    *)

N == Len(Timers!Delay[prog])
D(t) == Timers!Delay[prog][t]
At(t) == D(t) * Hz                      \* ticks from the setting to the expiry
Nap == Timers!Pause[prog] * Hz
Pending(t) == timer_left[t] # None

TimersTypes ==
    /\ prog \in {"one", "five"}
    /\ timer_next \in 1..N + 1
    /\ timer_left \in [1..N -> Int \cup {None}]
    /\ sleep \in 0..Nap /\ lag \in 0..MaxLag
    /\ fired \in Seq(1..N)
\* While timers are set none has fired, and the last one set has run for lag.
Setting ==
    timer_next <= N => /\ sleep = 0 /\ fired = <<>>
                       /\ \A t \in 1..N : Pending(t) <=> t < timer_next
                       /\ \A t \in 1..N : t + 1 = timer_next => timer_left[t] = At(t) - lag
InOrder ==
    /\ \A t \in 1..N : Pending(t) => timer_left[t] <= At(t)
    /\ \A s, t \in 1..N : Pending(s) /\ Pending(t) /\ D(s) < D(t) => timer_left[s] < timer_left[t]
FiredFirst ==
    \A i \in 1..Len(fired) :
        /\ ~Pending(fired[i])
        /\ \A t \in 1..N : Pending(t) => D(fired[i]) < D(t)
        /\ \A j \in 1..Len(fired) : i < j => D(fired[i]) < D(fired[j])
\* What each setting may take, then what a sleep and a lag take.
NotLate ==
    \A t \in 1..N : Pending(t) =>
        IF timer_next <= N THEN timer_left[t] >= At(t) - (timer_next - 1 - t) * MaxLag - lag
                           ELSE timer_left[t] >= 1 - (Nap - sleep) - lag
TimersInv == TimersTypes /\ Setting /\ InOrder /\ FiredFirst /\ NotLate

LEMMA TimerConstants == Hz \in Nat /\ MaxLag \in Nat /\ MaxLag < Hz /\ None \notin Int
BY TimersAssumption DEF Timers!LagAssumption

\* The two programs: a timer that is set before one with a shorter delay is set
\* just before it, and has a delay longer by a second.
LEMMA TimerData ==
    ASSUME prog \in {"one", "five"}
    PROVE  /\ N \in {1, 5} /\ Timers!Timers = 1..N /\ DOMAIN Timers!Delay[prog] = 1..N
           /\ \A t \in 1..N : D(t) \in 1..5
           /\ \A s, t \in 1..N : s < t => D(s) < D(t) \/ (t = s + 1 /\ D(s) = D(t) + 1)
           /\ \A s, t \in 1..N : D(s) = D(t) => s = t
           /\ Nap \in Nat /\ (N = 5 => Nap = 3 * Hz)
<1>1. CASE prog = "one"
  <2>1. Timers!Delay[prog] = <<3>> /\ Timers!Pause[prog] = 0
    BY <1>1 DEF Timers!Delay, Timers!Pause
  <2>2. N = 1 /\ D(1) = 3 /\ DOMAIN Timers!Delay[prog] = 1..1
    BY <2>1 DEF N, D
  <2>3. \A t \in 1..N : t = 1
    BY <2>2
  <2>4. Nap = 0
    BY <2>1, TimerConstants DEF Nap
  <2> QED
    BY <2>2, <2>3, <2>4, TimerConstants DEF Timers!Timers
<1>2. CASE prog = "five"
  <2>1. Timers!Delay[prog] = <<1, 3, 2, 5, 4>> /\ Timers!Pause[prog] = 3
    BY <1>2 DEF Timers!Delay, Timers!Pause
  <2>2. /\ N = 5 /\ DOMAIN Timers!Delay[prog] = 1..5
        /\ D(1) = 1 /\ D(2) = 3 /\ D(3) = 2 /\ D(4) = 5 /\ D(5) = 4
    BY <2>1 DEF N, D
  <2>3. \A t \in 1..N : t \in {1, 2, 3, 4, 5}
    BY <2>2
  <2>4. Nap = 3 * Hz /\ Nap \in Nat
    BY <2>1, TimerConstants DEF Nap
  <2>5. Timers!Timers = 1..N /\ DOMAIN Timers!Delay[prog] = 1..N
    BY <2>2 DEF Timers!Timers
  <2>. DEFINE late(s, t) == s < t => D(s) < D(t) \/ (t = s + 1 /\ D(s) = D(t) + 1)
  <2>. HIDE DEF D, N, Nap
  <2>6. \A t \in {1, 2, 3, 4, 5} : D(t) \in 1..5
    BY <2>2
  <2>7. \A s, t \in {1, 2, 3, 4, 5} : late(s, t) /\ (D(s) = D(t) => s = t)
    BY <2>2
  <2> QED
    BY <2>2, <2>3, <2>4, <2>5, <2>6, <2>7
<1> QED
  BY <1>1, <1>2

LEMMA Seconds ==
    ASSUME NEW d \in 1..5, NEW e \in 1..5
    PROVE  /\ d * Hz \in Nat /\ d * Hz >= Hz
           /\ d < e => d * Hz < e * Hz
           /\ d = e + 1 => d * Hz = e * Hz + Hz
<1>1. d \in {1, 2, 3, 4, 5} /\ e \in {1, 2, 3, 4, 5}
  OBVIOUS
<1>2. \A k \in {1, 2, 3, 4, 5} : /\ k = 1 => k * Hz = Hz
                                 /\ k = 2 => k * Hz = Hz + Hz
                                 /\ k = 3 => k * Hz = Hz + Hz + Hz
                                 /\ k = 4 => k * Hz = Hz + Hz + Hz + Hz
                                 /\ k = 5 => k * Hz = Hz + Hz + Hz + Hz + Hz
  BY TimerConstants
<1>3. Hz \in Nat /\ Hz > 0
  BY TimerConstants
<1>. DEFINE x == d * Hz
            y == e * Hz
<1>4. /\ d = 1 => x = Hz
      /\ d = 2 => x = Hz + Hz
      /\ d = 3 => x = Hz + Hz + Hz
      /\ d = 4 => x = Hz + Hz + Hz + Hz
      /\ d = 5 => x = Hz + Hz + Hz + Hz + Hz
  BY <1>1, <1>2
<1>5. /\ e = 1 => y = Hz
      /\ e = 2 => y = Hz + Hz
      /\ e = 3 => y = Hz + Hz + Hz
      /\ e = 4 => y = Hz + Hz + Hz + Hz
      /\ e = 5 => y = Hz + Hz + Hz + Hz + Hz
  BY <1>1, <1>2
<1>. HIDE DEF x, y
<1>6. x \in Nat /\ x >= Hz /\ (d < e => x < y) /\ (d = e + 1 => x = y + Hz)
  BY <1>1, <1>3, <1>4, <1>5
<1> QED
  BY <1>6 DEF x, y

LEMMA Times ==
    ASSUME prog \in {"one", "five"}, NEW s \in 1..N, NEW t \in 1..N
    PROVE  /\ At(s) \in Nat /\ At(s) >= Hz
           /\ D(s) \in 1..5 /\ D(t) \in 1..5
           /\ D(s) < D(t) => At(s) < At(t)
           /\ D(s) = D(t) + 1 => At(s) = At(t) + Hz
BY TimerData, Seconds DEF At

\* What k settings may take at most.
LEMMA Lags ==
    ASSUME NEW k \in Nat
    PROVE  /\ k * MaxLag \in Nat /\ 0 * MaxLag = 0
           /\ (k + 1) * MaxLag = k * MaxLag + MaxLag
BY TimerConstants

\* However long all settings took, no timer is as late as a nap when they end.
LEMMA SetInTime ==
    ASSUME prog \in {"one", "five"}, NEW t \in 1..N
    PROVE  At(t) - (N - t) * MaxLag >= 1 - Nap
<1>1. Hz \in Nat /\ MaxLag \in Nat /\ MaxLag < Hz /\ At(t) \in Nat /\ At(t) >= Hz /\ Nap \in Nat
  BY TimerConstants, TimerData, Times
<1>2. CASE N = 1
  <2>1. N - t = 0
    BY <1>2
  <2> QED  BY <1>1, <2>1, Lags
<1>3. CASE N = 5
  <2>1. Nap = Hz + Hz + Hz
    BY <1>1, <1>3, TimerData
  <2>2. N - t \in {0, 1, 2, 3, 4}
    BY <1>3
  <2>. DEFINE k == N - t
              x == k * MaxLag
  <2>3. /\ k = 0 => x = 0
        /\ k = 1 => x = MaxLag
        /\ k = 2 => x = MaxLag + MaxLag
        /\ k = 3 => x = MaxLag + MaxLag + MaxLag
        /\ k = 4 => x = MaxLag + MaxLag + MaxLag + MaxLag
    BY <1>1, <2>2
  <2>. HIDE DEF x, k
  <2>4. k \in {0, 1, 2, 3, 4}
    BY <2>2 DEF k
  <2>5. At(t) - x >= 1 - Nap
    BY <1>1, <2>1, <2>3, <2>4
  <2> QED  BY <2>5 DEF x, k
<1> QED
  BY <1>2, <1>3, TimerData

LEMMA TimersInit == Timers!Init => TimersInv
<1>. SUFFICES ASSUME Timers!Init PROVE TimersInv
  OBVIOUS
<1>1. prog \in {"one", "five"} /\ timer_next = 1 /\ sleep = 0 /\ lag = 0 /\ fired = <<>>
  BY DEF Timers!Init
<1>2. N \in {1, 5} /\ Nap \in Nat /\ timer_left = [t \in 1..N |-> None]
  BY <1>1, TimerData DEF Timers!Init
<1>. HIDE DEF N, Nap
<1>3. TimersTypes /\ Setting /\ InOrder /\ NotLate
  BY <1>1, <1>2, TimerConstants DEF TimersTypes, Setting, InOrder, NotLate, Pending
<1>4. FiredFirst
  BY <1>1 DEF FiredFirst
<1> QED
  BY <1>3, <1>4 DEF TimersInv

\* The programs' data do not change.
LEMMA TimerDataSame ==
    ASSUME UNCHANGED prog
    PROVE  N' = N /\ Nap' = Nap /\ \A t : D(t)' = D(t) /\ At(t)' = At(t)
BY DEF N, Nap, D, At

LEMMA TimersTick == TimersInv /\ Timers!Tick => TimersInv'
<1>. SUFFICES ASSUME TimersInv, Timers!Tick PROVE TimersInv'
  OBVIOUS
<1>1. /\ UNCHANGED <<prog, timer_next, fired>>
      /\ timer_left' = [t \in 1..N |-> IF timer_left[t] = None THEN None ELSE timer_left[t] - 1]
      /\ \/ sleep > 0 /\ sleep' = sleep - 1 /\ lag' = lag
         \/ sleep = 0 /\ lag < MaxLag /\ lag' = lag + 1 /\ sleep' = sleep
      /\ sleep \in 0..Nap /\ lag \in 0..MaxLag /\ Nap \in Nat /\ N \in Nat /\ timer_next \in Nat
  BY TimerData DEF Timers!Tick, TimersInv, TimersTypes
<1>2. N' = N /\ Nap' = Nap /\ \A t : D(t)' = D(t) /\ At(t)' = At(t)
  BY <1>1, TimerDataSame
<1>3. \A t \in 1..N : At(t) \in Nat
  BY Times DEF TimersInv, TimersTypes
<1>. HIDE DEF N, Nap, D, At
<1>4. /\ timer_left' \in [1..N -> Int \cup {None}]
      /\ \A t \in 1..N : /\ Pending(t)' <=> Pending(t)
                         /\ Pending(t) => timer_left[t] \in Int /\ timer_left'[t] = timer_left[t] - 1
  BY <1>1, TimerConstants DEF TimersInv, TimersTypes, Pending
<1>5. TimersTypes' /\ Setting'
  BY <1>1, <1>2, <1>3, <1>4, TimerConstants DEF TimersInv, TimersTypes, Setting
<1>6. InOrder'
  BY <1>2, <1>3, <1>4 DEF TimersInv, InOrder
<1>7. FiredFirst'
  <2>1. \A i \in 1..Len(fired) : fired[i] \in 1..N
    BY ElementOfSeq DEF TimersInv, TimersTypes
  <2> QED  BY <1>1, <1>2, <1>4, <2>1 DEF TimersInv, FiredFirst
<1>8. NotLate'
  <2>1. ASSUME NEW t \in 1..N, Pending(t), timer_next <= N
        PROVE  timer_left'[t] >= At(t) - (timer_next - 1 - t) * MaxLag - lag'
    <3>1. t \in Nat /\ t < timer_next
      BY <1>1, <2>1 DEF TimersInv, Setting
    <3>. DEFINE x == (timer_next - 1 - t) * MaxLag
    <3>2. x \in Int
      BY <1>1, <3>1, TimerConstants
    <3>3. timer_left[t] >= At(t) - x - lag /\ lag' = lag + 1
      BY <1>1, <2>1 DEF TimersInv, NotLate, Setting
    <3>. HIDE DEF x
    <3>4. timer_left'[t] >= At(t) - x - lag'
      BY <1>1, <1>3, <1>4, <2>1, <3>2, <3>3
    <3> QED  BY <3>4 DEF x
  <2>2. ASSUME NEW t \in 1..N, Pending(t), ~(timer_next <= N)
        PROVE  timer_left'[t] >= 1 - (Nap - sleep') - lag'
    BY <1>1, <1>4, <2>2 DEF TimersInv, NotLate
  <2> QED  BY <1>1, <1>2, <1>4, <2>1, <2>2 DEF NotLate
<1> QED
  BY <1>5, <1>6, <1>7, <1>8 DEF TimersInv

LEMMA TimersSet == TimersInv /\ Timers!Set => TimersInv'
<1>. SUFFICES ASSUME TimersInv, Timers!Set PROVE TimersInv'
  OBVIOUS
<1>. DEFINE n == timer_next
<1>1. /\ n \in 1..N /\ timer_left' = [timer_left EXCEPT ![n] = At(n)] /\ n' = n + 1 /\ lag' = 0
      /\ UNCHANGED <<prog, sleep, fired>> /\ N \in Nat /\ Nap \in Nat
      /\ sleep = 0 /\ fired = <<>> /\ lag \in 0..MaxLag /\ timer_left \in [1..N -> Int \cup {None}]
  BY TimerData DEF Timers!Set, TimersInv, TimersTypes, Setting, At, D
<1>2. N' = N /\ Nap' = Nap /\ \A t : D(t)' = D(t) /\ At(t)' = At(t)
  BY <1>1, TimerDataSame
<1>3. \A s, t \in 1..N : /\ At(s) \in Nat /\ At(s) >= Hz /\ D(s) \in 1..5
                         /\ D(s) < D(t) => At(s) < At(t)
                         /\ D(s) = D(t) + 1 => At(s) = At(t) + Hz
                         /\ s < t => D(s) < D(t) \/ (t = s + 1 /\ D(s) = D(t) + 1)
  BY Times, TimerData DEF TimersInv, TimersTypes
<1>4. \A t \in 1..N : At(t) - (N - t) * MaxLag >= 1 - Nap
  BY SetInTime DEF TimersInv, TimersTypes
<1>. HIDE DEF N, Nap, D, At
<1>5. /\ timer_left' \in [1..N -> Int \cup {None}] /\ timer_left'[n] = At(n)
      /\ \A t \in 1..N : t # n => timer_left'[t] = timer_left[t]
      /\ \A t \in 1..N : (Pending(t)' <=> t < n + 1) /\ (Pending(t) <=> t < n)
      /\ \A t \in 1..N : t < n => timer_left[t] \in Int
  BY <1>1, <1>3, TimerConstants DEF TimersInv, Setting, Pending
<1>6. TimersTypes' /\ FiredFirst'
  BY <1>1, <1>2, <1>5, TimerConstants DEF TimersInv, TimersTypes, FiredFirst
<1>7. Setting'
  BY <1>1, <1>2, <1>3, <1>5 DEF Setting
<1>8. InOrder'
  <2>1. \A t \in 1..N : t < n => timer_left[t] <= At(t)
    BY <1>5 DEF TimersInv, InOrder
  <2>2. \A s, t \in 1..N : s < n /\ t < n /\ D(s) < D(t) => timer_left[s] < timer_left[t]
    BY <1>5 DEF TimersInv, InOrder
  <2>3. ASSUME NEW s \in 1..N, s < n, D(s) < D(n) PROVE timer_left[s] < At(n)
    BY <1>1, <1>3, <1>5, <2>1, <2>3
  <2>4. ASSUME NEW s \in 1..N, s < n, D(n) < D(s) PROVE At(n) < timer_left[s]
    <3>1. n = s + 1 /\ At(s) = At(n) + Hz
      BY <1>1, <1>3, <2>4
    <3>2. timer_left[s] = At(s) - lag
      BY <1>1, <3>1 DEF TimersInv, Setting
    <3> QED  BY <1>1, <1>3, <3>1, <3>2, TimerConstants
  <2>5. \A t \in 1..N : t < n + 1 => timer_left'[t] <= At(t)
    BY <1>1, <1>3, <1>5, <2>1
  <2>6. ASSUME NEW s \in 1..N, NEW t \in 1..N, s < n + 1, t < n + 1, D(s) < D(t)
        PROVE  timer_left'[s] < timer_left'[t]
    <3>1. s # t
      BY <1>3, <2>6
    <3>2. CASE s = n
      <4>1. t < n /\ timer_left'[t] = timer_left[t]
        BY <1>1, <1>5, <2>6, <3>1, <3>2
      <4> QED  BY <1>5, <2>4, <2>6, <3>2, <4>1
    <3>3. CASE t = n
      <4>1. s < n /\ timer_left'[s] = timer_left[s]
        BY <1>1, <1>5, <2>6, <3>1, <3>3
      <4> QED  BY <1>5, <2>3, <2>6, <3>3, <4>1
    <3>4. CASE s # n /\ t # n
      <4>1. s < n /\ t < n
        BY <1>1, <2>6, <3>4
      <4> QED  BY <1>5, <2>2, <2>6, <3>4, <4>1
    <3> QED  BY <3>2, <3>3, <3>4
  <2> QED  BY <1>2, <1>5, <2>5, <2>6 DEF InOrder
<1>9. NotLate'
  <2>1. ASSUME NEW t \in 1..N, t < n + 1 PROVE timer_left'[t] >= At(t) - (n - t) * MaxLag
    <3>1. CASE t = n
      <4>1. n - t = 0 /\ 0 * MaxLag = 0
        BY <1>1, <3>1, Lags
      <4> QED  BY <1>3, <1>5, <3>1, <4>1
    <3>2. CASE t # n
      <4>. DEFINE k == n - 1 - t
                  x == k * MaxLag
      <4>1. k \in Nat /\ k + 1 = n - t /\ t < n
        BY <1>1, <2>1, <3>2
      <4>2. timer_left[t] >= At(t) - x - lag
        BY <1>1, <1>5, <4>1 DEF TimersInv, NotLate
      <4>3. (k + 1) * MaxLag = x + MaxLag /\ x \in Nat
        BY <4>1, Lags
      <4>. HIDE DEF x, k
      <4>4. timer_left[t] >= At(t) - (x + MaxLag)
        BY <1>1, <1>3, <1>5, <4>1, <4>2, <4>3, TimerConstants
      <4> QED  BY <1>5, <3>2, <4>1, <4>3, <4>4
    <3> QED  BY <3>1, <3>2
  <2>2. CASE n + 1 <= N
    <3>1. ASSUME NEW t \in 1..N, t < n + 1
          PROVE  timer_left'[t] >= At(t) - (n + 1 - 1 - t) * MaxLag - 0
      <4>1. n + 1 - 1 - t = n - t
        BY <1>1
      <4>. DEFINE x == (n - t) * MaxLag
      <4>2. x \in Int /\ timer_left'[t] >= At(t) - x
        BY <1>1, <2>1, <3>1, TimerConstants
      <4>. HIDE DEF x
      <4>3. timer_left'[t] >= At(t) - x - 0
        BY <1>3, <4>2
      <4> QED  BY <4>1, <4>3 DEF x
    <3> QED  BY <1>1, <1>2, <1>5, <2>2, <3>1 DEF NotLate
  <2>3. CASE ~(n + 1 <= N)
    <3>1. n = N
      BY <1>1, <2>3
    <3>2. ASSUME NEW t \in 1..N PROVE timer_left'[t] >= 1 - Nap
      <4>. DEFINE x == (N - t) * MaxLag
      <4>1. x \in Int /\ timer_left'[t] >= At(t) - x /\ At(t) - x >= 1 - Nap /\ timer_left'[t] \in Int
        BY <1>1, <1>3, <1>4, <1>5, <2>1, <3>1, TimerConstants
      <4>. HIDE DEF x
      <4> QED  BY <1>1, <1>3, <4>1
    <3>3. ASSUME NEW t \in 1..N PROVE timer_left'[t] >= 1 - (Nap - 0) - 0
      BY <1>1, <3>2
    <3> QED  BY <1>1, <1>2, <2>3, <3>3 DEF NotLate
  <2> QED  BY <2>2, <2>3
<1> QED
  BY <1>6, <1>7, <1>8, <1>9 DEF TimersInv

\* A function on the numbers up to k is a sequence.
LEMMA Enumerated ==
    ASSUME NEW S, NEW k \in Nat, NEW f \in [1..k -> S]
    PROVE  f \in Seq(S) /\ Len(f) = k
<1>1. f \in Seq(S)
  BY SMT
<1>2. DOMAIN f = 1..k
  OBVIOUS
<1> QED
  BY <1>1, <1>2, LenProperties

LEMMA TimersManage == TimersInv /\ Timers!Manage => TimersInv'
<1>. SUFFICES ASSUME TimersInv, Timers!Manage PROVE TimersInv'
  OBVIOUS
<1>. DEFINE Due == Timers!Due
<1>0. PICK k \in 0..N : \E run \in [1..k -> Due] : Timers!ByExpiry(run) /\ fired' = fired \o run
  BY DEF Timers!Manage, N
<1>1. PICK run \in [1..k -> Due] : Timers!ByExpiry(run) /\ fired' = fired \o run
  BY <1>0
<1>2. /\ timer_next = N + 1 /\ sleep = 0 /\ sleep' = Nap /\ lag' = 0 /\ UNCHANGED <<prog, timer_next>>
      /\ timer_left' = [t \in 1..N |-> IF t \in Due THEN None ELSE timer_left[t]]
      /\ N \in Nat /\ Nap \in Nat /\ timer_left \in [1..N -> Int \cup {None}] /\ fired \in Seq(1..N)
      /\ Due = {t \in 1..N : timer_left[t] # None /\ timer_left[t] <= 0}
  BY TimerData DEF Timers!Manage, Timers!Manages, Timers!Due, TimersInv, TimersTypes, Nap
<1>3. N' = N /\ Nap' = Nap /\ \A t : D(t)' = D(t) /\ At(t)' = At(t)
  BY <1>2, TimerDataSame
<1>4. \A s, t \in 1..N : D(s) \in Int /\ (D(s) = D(t) => s = t)
  BY TimerData DEF TimersInv, TimersTypes
<1>5. k \in Nat
  BY <1>2
<1>6. run \in Seq(1..N) /\ Len(run) = k /\ \A i \in 1..k : run[i] \in Due
  <2>1. run \in [1..k -> 1..N] /\ \A i \in 1..k : run[i] \in Due
    BY <1>1, <1>2
  <2>. HIDE DEF Due, N
  <2>2. run \in Seq(1..N) /\ Len(run) = k
    BY <1>5, <2>1, Enumerated
  <2> QED  BY <2>1, <2>2
<1>. HIDE DEF N, Nap, D, At, Due
<1>7. \A i, j \in 1..k : i < j => run[i] # run[j] /\ timer_left[run[i]] <= timer_left[run[j]]
  BY <1>1, <1>6 DEF Timers!ByExpiry
<1>8. /\ timer_left' \in [1..N -> Int \cup {None}]
      /\ \A t \in 1..N : /\ Pending(t)' <=> Pending(t) /\ t \notin Due
                         /\ Pending(t)' => /\ timer_left'[t] = timer_left[t] /\ timer_left[t] \in Int
                                           /\ timer_left[t] > 0
      /\ \A t \in Due : t \in 1..N /\ Pending(t) /\ timer_left[t] \in Int /\ timer_left[t] <= 0
  BY <1>2, TimerConstants DEF Pending
<1>9. /\ fired' \in Seq(1..N) /\ Len(fired') = Len(fired) + k /\ Len(fired) \in Nat
      /\ \A i \in 1..Len(fired) : fired'[i] = fired[i] /\ fired[i] \in 1..N
      /\ \A i \in 1..Len(fired') : i > Len(fired) => i - Len(fired) \in 1..k /\ fired'[i] = run[i - Len(fired)]
  <2>1. /\ fired' \in Seq(1..N) /\ Len(fired') = Len(fired) + Len(run) /\ Len(fired) \in Nat
        /\ \A i \in 1..Len(fired) + Len(run) :
             fired'[i] = IF i <= Len(fired) THEN fired[i] ELSE run[i - Len(fired)]
    <3>1. fired \in Seq(1..N) /\ run \in Seq(1..N) /\ fired' = fired \o run
      BY <1>1, <1>2, <1>6
    <3> QED  BY <3>1, ConcatProperties, LenProperties
  <2>2. \A i \in 1..Len(fired) : fired[i] \in 1..N
    BY <1>2, ElementOfSeq
  <2> QED  BY <1>5, <1>6, <2>1, <2>2
<1>10. TimersTypes' /\ Setting'
  BY <1>2, <1>3, <1>8, <1>9, TimerConstants DEF TimersInv, TimersTypes, Setting
<1>11. InOrder' /\ NotLate'
  BY <1>2, <1>3, <1>8 DEF TimersInv, InOrder, NotLate
<1>12. FiredFirst'
  <2>1. ASSUME NEW s \in Due, NEW t \in 1..N, Pending(t), timer_left[s] <= timer_left[t], s # t
        PROVE  D(s) < D(t)
    <3>1. ~(D(t) < D(s))
      BY <1>8, <2>1 DEF TimersInv, InOrder
    <3> QED  BY <1>4, <1>8, <2>1, <3>1
  <2>2. \A i \in 1..Len(fired') : fired'[i] \in 1..N /\ timer_left'[fired'[i]] = None
    <3>. SUFFICES ASSUME NEW i \in 1..Len(fired') PROVE fired'[i] \in 1..N /\ timer_left'[fired'[i]] = None
      OBVIOUS
    <3>1. CASE i <= Len(fired)
      <4>1. i \in 1..Len(fired)
        BY <1>9, <3>1
      <4>2. ~Pending(fired[i]) /\ fired[i] \in 1..N /\ fired'[i] = fired[i]
        BY <1>9, <4>1 DEF TimersInv, FiredFirst
      <4> QED  BY <1>2, <4>2 DEF Pending
    <3>2. CASE i > Len(fired)
      <4>1. fired'[i] \in Due
        BY <1>6, <1>9, <3>2
      <4> QED  BY <1>2, <4>1
    <3> QED  BY <1>9, <3>1, <3>2
  <2>3. ASSUME NEW i \in 1..Len(fired'), NEW t \in 1..N, timer_left'[t] # None PROVE D(fired'[i]) < D(t)
    <3>0. Pending(t)'
      BY <2>3 DEF Pending
    <3>1. CASE i <= Len(fired)
      BY <1>8, <1>9, <2>3, <3>0, <3>1 DEF TimersInv, FiredFirst
    <3>2. CASE i > Len(fired)
      <4>. DEFINE s == fired'[i]
      <4>1. s \in Due
        BY <1>6, <1>9, <3>2
      <4>2. Pending(t) /\ timer_left[t] \in Int /\ timer_left[t] > 0
        BY <1>8, <2>3, <3>0
      <4>3. timer_left[s] \in Int /\ timer_left[s] <= 0
        BY <1>8, <4>1
      <4>. HIDE DEF s
      <4>4. timer_left[s] <= timer_left[t] /\ s # t
        BY <4>2, <4>3
      <4>5. D(s) < D(t)
        BY <2>1, <4>1, <4>2, <4>4
      <4> QED  BY <4>5 DEF s
    <3> QED  BY <1>9, <3>1, <3>2
  <2>4. ASSUME NEW i \in 1..Len(fired'), NEW j \in 1..Len(fired'), i < j PROVE D(fired'[i]) < D(fired'[j])
    <3>1. CASE j <= Len(fired)
      BY <1>9, <2>4, <3>1 DEF TimersInv, FiredFirst
    <3>2. CASE i <= Len(fired) /\ j > Len(fired)
      BY <1>6, <1>8, <1>9, <2>4, <3>2 DEF TimersInv, FiredFirst
    <3>3. CASE i > Len(fired) /\ j > Len(fired)
      <4>1. i - Len(fired) \in 1..k /\ j - Len(fired) \in 1..k /\ i - Len(fired) < j - Len(fired)
        BY <1>9, <2>4, <3>3
      <4> QED  BY <1>6, <1>7, <1>8, <1>9, <2>1, <3>3, <4>1
    <3> QED  BY <1>9, <2>4, <3>1, <3>2, <3>3
  <2>. DEFINE f == fired'
              Out(t) == timer_left'[t] # None
  <2>5. \A i \in 1..Len(f) : /\ ~Out(f[i])
                             /\ \A t \in 1..N : Out(t) => D(f[i]) < D(t)
                             /\ \A j \in 1..Len(f) : i < j => D(f[i]) < D(f[j])
    BY <2>2, <2>3, <2>4
  <2> QED  BY <1>2, <1>3, <2>5 DEF FiredFirst, Pending, D
<1> QED
  BY <1>10, <1>11, <1>12 DEF TimersInv

LEMMA TimersStep == TimersInv /\ [Timers!Next]_timer_vars => TimersInv'
<1>1. ASSUME TimersInv, UNCHANGED timer_vars PROVE TimersInv'
  BY <1>1 DEF timer_vars, TimersInv, TimersTypes, Setting, InOrder, FiredFirst, NotLate, Pending, N, D, At, Nap
<1> QED
  BY <1>1, TimersTick, TimersSet, TimersManage DEF Timers!Next

\* Each timer fires once at most, in the order of the delays and late by no more
\* than a sleep and a lag (multi.c:50-62), however the settings are held up for
\* less than a second each.
THEOREM TimersFireInTurn == Spec => []FiresInTurn
<1>1. ASSUME TimersInv PROVE FiresInTurn
  <2>0. TimersTypes /\ prog \in {"one", "five"}
    BY <1>1 DEF TimersInv, TimersTypes
  <2>1. /\ Timers!Timers = 1..N /\ N \in Nat /\ Nap \in Nat
        /\ \A t \in 1..N : At(t) \in Nat /\ At(t) - (N - t) * MaxLag >= 1 - Nap
    <3>1. Timers!Timers = 1..N /\ N \in Nat /\ Nap \in Nat
      BY <2>0, TimerData
    <3>2. \A t \in 1..N : At(t) \in Nat
      BY <2>0, Times
    <3>3. \A t \in 1..N : At(t) - (N - t) * MaxLag >= 1 - Nap
      BY <2>0, SetInTime
    <3> QED  BY <3>1, <3>2, <3>3
  <2>2. Timers!OnTime
    <3>1. ASSUME NEW t \in 1..N, Pending(t) PROVE timer_left[t] >= -(Nap + MaxLag)
      <4>1. timer_left[t] \in Int /\ lag \in 0..MaxLag /\ sleep \in 0..Nap /\ timer_next \in 1..N + 1
        BY <2>0, <2>1, <3>1 DEF TimersTypes, Pending
      <4>2. CASE timer_next <= N
        <5>. DEFINE j == timer_next - 1 - t
        <5>1. j \in Nat /\ N - t \in Nat /\ j <= N - t
          BY <1>1, <2>1, <3>1, <4>1, <4>2 DEF TimersInv, Setting
        <5>. DEFINE x == j * MaxLag
                    y == (N - t) * MaxLag
        <5>2. timer_left[t] >= At(t) - x - lag /\ At(t) - y >= 1 - Nap
          BY <1>1, <2>1, <3>1, <4>2 DEF TimersInv, NotLate
        <5>3. x \in Nat /\ y \in Nat /\ x <= y
          <6>. DEFINE d == N - t - j
          <6>1. d \in Nat /\ N - t = j + d
            BY <2>1, <5>1
          <6>. HIDE DEF j, d
          <6>2. (j + d) * MaxLag = j * MaxLag + d * MaxLag /\ d * MaxLag \in Nat /\ j * MaxLag \in Nat
            BY <5>1, <6>1, TimerConstants
          <6> QED  BY <6>1, <6>2
        <5>. HIDE DEF x, y
        <5>4. At(t) \in Int /\ Nap \in Nat /\ MaxLag \in Nat /\ lag <= MaxLag
          BY <2>1, <3>1, <4>1, TimerConstants
        <5>5. At(t) - x >= 1 - Nap
          BY <5>2, <5>3, <5>4
        <5>6. timer_left[t] >= 1 - Nap - lag
          BY <4>1, <5>2, <5>3, <5>4, <5>5
        <5> QED  BY <4>1, <5>4, <5>6
      <4>3. CASE ~(timer_next <= N)
        BY <1>1, <2>1, <3>1, <4>1, <4>3, TimerConstants DEF TimersInv, NotLate
      <4> QED  BY <4>2, <4>3
    <3> QED  BY <2>1, <3>1 DEF Timers!OnTime, Pending, Nap
  <2>3. Timers!TypeOK
    <3>1. \A i \in DOMAIN fired : timer_left[fired[i]] = None
      BY <1>1, <2>0, <2>1, LenProperties, ElementOfSeq DEF TimersInv, TimersTypes, FiredFirst, Pending
    <3>2. \A t \in 1..N : timer_left[t] = None \/ (timer_left[t] \in Int /\ timer_left[t] <= At(t))
      BY <1>1, <2>0, <2>1 DEF TimersInv, TimersTypes, InOrder, Pending
    <3> QED  BY <2>0, <2>1, <3>1, <3>2 DEF Timers!TypeOK, TimersTypes, N, Nap, D, At
  <2>4. \A i, j \in DOMAIN fired : i < j => D(fired[i]) < D(fired[j])
    <3>1. DOMAIN fired = 1..Len(fired)
      BY <2>0, LenProperties DEF TimersTypes
    <3> QED  BY <1>1, <3>1 DEF TimersInv, FiredFirst
  <2> QED
    BY <2>2, <2>3, <2>4 DEF FiresInTurn, Timers!FiresInTurn, D
<1> QED
  BY <1>1, Apart, TimersInit, TimersStep, PTL DEF Spec, Init
-----------------------------------------------------------------------------
(* Packet parsing: where packet_parsing is in a packet, and how far it has  *)
(* read.                                                                    *)

\* The end of the headers up to that of the network layer, as they are read.
HeadersRead(f) == CASE f.type = "ip4" -> 34 [] f.type = "ip6" -> 54 [] OTHER -> 14
HasPorts(f) == f.type \in {"ip4", "ip6"} /\ f.proto \in {"tcp", "udp"}
PortsRead(f) ==
    LET end == Parsing!TransportAt(f) + 4 IN IF end > HeadersRead(f) THEN end ELSE HeadersRead(f)

BetweenPackets ==
    /\ parse_pc \in {"poll", "next"}
    /\ parse_left \in 0..Burst /\ (parse_pc = "next" => parse_left >= 1)
    /\ frame = Parsing!NoFrame /\ data = 0 /\ len = 0 /\ read = 0 /\ ports_shown = 0
AtEther == parse_pc = "ether" /\ data = 0 /\ read = 0 /\ ports_shown = 0
AtNetwork == parse_pc \in {"ip4", "ip6"} /\ frame.type = parse_pc /\ data = 14 /\ read = 14 /\ ports_shown = 0
AtPorts ==
    /\ parse_pc = "ports" /\ HasPorts(frame)
    /\ data = Parsing!TransportAt(frame) /\ read = HeadersRead(frame) /\ ports_shown = 0
Parsed ==
    /\ parse_pc = "free"
    /\ data = Parsing!TransportAt(frame)
    /\ IF HasPorts(frame) THEN read = PortsRead(frame) /\ ports_shown = data
                          ELSE read = HeadersRead(frame) /\ ports_shown = 0
ParsingInv ==
    \/ BetweenPackets
    \/ /\ parse_left \in 1..Burst /\ len \in Parsing!UInt16 /\ frame \in Parsing!Frames
       /\ AtEther \/ AtNetwork \/ AtPorts \/ Parsed

LEMMA ParsingConstants ==
    /\ Burst \in Nat /\ DataRoom \in Nat /\ DataRoom >= 78 /\ Lengths \subseteq Parsing!UInt16
    /\ Parsing!EtherLen = 14 /\ Parsing!Ipv4Len = 20
    /\ Parsing!Ipv6Len = 40 /\ Parsing!PortsLen = 4
BY ParsingAssumption DEF Parsing!SizeAssumption, Parsing!EtherLen,
   Parsing!Ipv4Len, Parsing!Ipv6Len, Parsing!PortsLen

\* What the standards say of a frame, in numbers.
LEMMA FrameData ==
    ASSUME NEW f \in Parsing!Frames
    PROVE  /\ f.type \in {"ip4", "ip6", "other"} /\ f.ihl \in 0..15 /\ f.len \in Lengths /\ f.len \in Parsing!UInt16
           /\ f # Parsing!NoFrame
           /\ f.type = "ip4" => Parsing!TransportAt(f) = 14 + 4 * f.ihl /\ HeadersRead(f) = 34
           /\ f.type = "ip6" => Parsing!TransportAt(f) = 54 /\ HeadersRead(f) = 54
           /\ f.type = "other" => Parsing!TransportAt(f) = 14 /\ HeadersRead(f) = 14
           /\ Parsing!TransportAt(f) \in 14..74
<1>1. /\ f.type \in {"ip4", "ip6", "other"} /\ f.ihl \in 0..15 /\ f.len \in Lengths /\ f.len \in Parsing!UInt16
      /\ f # Parsing!NoFrame
  BY ParsingConstants DEF Parsing!Frames, Parsing!NoFrame
<1>2. CASE f.type = "ip4"
  BY <1>1, <1>2 DEF Parsing!TransportAt, Parsing!NetworkLen, HeadersRead
<1>3. CASE f.type = "ip6"
  BY <1>1, <1>3 DEF Parsing!TransportAt, Parsing!NetworkLen, HeadersRead
<1>4. CASE f.type = "other"
  BY <1>1, <1>4 DEF Parsing!TransportAt, Parsing!NetworkLen, HeadersRead
<1> QED
  BY <1>1, <1>2, <1>3, <1>4

\* Lengths wrap around; their width is of no consequence but for being enough
\* for every header.
LEMMA Width == Parsing!Wrap16 \in Nat /\ Parsing!Wrap16 > 78
BY DEF Parsing!Wrap16
LEMMA Short ==
    /\ 0 \in Parsing!UInt16
    /\ \A n \in Parsing!UInt16 : n \in Nat
    /\ \A n \in 0..78 : n \in Parsing!UInt16
    /\ \A l \in Parsing!UInt16, n \in 0..60 :
         (l + Parsing!Wrap16 - n) % Parsing!Wrap16 \in Parsing!UInt16
BY Width DEF Parsing!UInt16

LEMMA ParsingInit == Parsing!Init => ParsingInv
BY ParsingConstants DEF Parsing!Init, ParsingInv, BetweenPackets

LEMMA ParsingStep == ParsingInv /\ [Parsing!Next]_parsing_vars => ParsingInv'
<1>. SUFFICES ASSUME ParsingInv, [Parsing!Next]_parsing_vars PROVE ParsingInv'
  OBVIOUS
<1>. DEFINE Within == parse_left \in 1..Burst /\ len \in Parsing!UInt16 /\ frame \in Parsing!Frames
<1>0. ParsingInv <=> BetweenPackets \/ (Within /\ (AtEther \/ AtNetwork \/ AtPorts \/ Parsed))
  BY ParsingConstants, Zenon DEF ParsingInv
<1>1. CASE UNCHANGED parsing_vars
  <2>. USE <1>1 DEF parsing_vars
  <2>1. (BetweenPackets' <=> BetweenPackets) /\ (AtEther' <=> AtEther) /\ (AtNetwork' <=> AtNetwork)
    BY DEF BetweenPackets, AtEther, AtNetwork
  <2>2. (AtPorts' <=> AtPorts) /\ (Parsed' <=> Parsed)
    BY DEF AtPorts, Parsed
  <2> QED  BY <2>1, <2>2 DEF ParsingInv
<1>2. CASE Parsing!RxBurst
  <2>1. BetweenPackets
    BY <1>2 DEF Parsing!RxBurst, ParsingInv, AtEther, AtNetwork, AtPorts, Parsed
  <2>2. BetweenPackets'
    BY <1>2, <2>1, ParsingConstants DEF Parsing!RxBurst, BetweenPackets
  <2> QED  BY <2>2 DEF ParsingInv
<1>3. CASE Parsing!NextPacket
  <2>1. BetweenPackets /\ parse_left \in 1..Burst
    BY <1>3, ParsingConstants DEF Parsing!NextPacket, ParsingInv, AtEther, AtNetwork, AtPorts, Parsed, BetweenPackets
  <2>2. frame' \in Parsing!Frames /\ frame'.len \in Parsing!UInt16
    BY <1>3, FrameData DEF Parsing!NextPacket
  <2>3. AtEther' /\ parse_left' \in 1..Burst /\ len' \in Parsing!UInt16
    BY <1>3, <2>1, <2>2, ParsingConstants DEF Parsing!NextPacket, AtEther
  <2> QED  BY <2>2, <2>3 DEF ParsingInv
<1>4. CASE Parsing!Ether
  <2>1. Within /\ AtEther
    BY <1>4, ParsingConstants DEF Parsing!Ether, ParsingInv, AtNetwork, AtPorts, Parsed, BetweenPackets
  <2>2. UNCHANGED <<parse_left, frame, len, ports_shown>> /\ data' = 14 /\ read' = 14 /\ ports_shown = 0
    BY <1>4, <2>1, ParsingConstants DEF Parsing!Ether, Parsing!Reads, AtEther
  <2>3. CASE frame.type \in {"ip4", "ip6"}
    <3>1. parse_pc' = frame.type
      BY <1>4, <2>3 DEF Parsing!Ether
    <3>2. AtNetwork'
      BY <2>2, <2>3, <3>1 DEF AtNetwork
    <3> QED  BY <2>1, <2>2, <3>2, ParsingConstants DEF ParsingInv
  <2>4. CASE frame.type = "other"
    <3>1. parse_pc' = "free"
      BY <1>4, <2>4 DEF Parsing!Ether
    <3>2. Parsing!TransportAt(frame) = 14 /\ HeadersRead(frame) = 14 /\ ~HasPorts(frame)
      BY <2>1, <2>4, FrameData DEF HasPorts
    <3>3. Parsed'
      BY <2>2, <3>1, <3>2 DEF Parsed, HasPorts, HeadersRead, Parsing!TransportAt, Parsing!NetworkLen
    <3> QED  BY <2>1, <2>2, <3>3, ParsingConstants DEF ParsingInv
  <2> QED  BY <2>1, <2>3, <2>4, FrameData
<1>5. CASE Parsing!Ip4 \/ Parsing!Ip6
  <2>1. Within /\ AtNetwork
    BY <1>5, ParsingConstants DEF Parsing!Ip4, Parsing!Ip6, ParsingInv, AtEther, AtPorts, Parsed, BetweenPackets
  <2>2. /\ UNCHANGED <<parse_left, frame, ports_shown>> /\ ports_shown = 0
        /\ parse_pc' = Parsing!AfterHeader
    BY <1>5, <2>1 DEF Parsing!Ip4, Parsing!Ip6, AtNetwork
  <2>3. data' = Parsing!TransportAt(frame) /\ read' = HeadersRead(frame) /\ len' \in Parsing!UInt16
    <3>0. frame.ihl \in 0..15 /\ data = 14 /\ read = 14 /\ frame.type = parse_pc /\ len \in Parsing!UInt16
      BY <2>1, FrameData DEF AtNetwork
    <3>1. CASE Parsing!Ip4
      <4>1. frame.type = "ip4"
        BY <3>0, <3>1 DEF Parsing!Ip4
      <4>2. frame.ihl * 4 \in 0..60 /\ data' = 14 + 4 * frame.ihl /\ read' = 34
        BY <3>0, <3>1, ParsingConstants DEF Parsing!Ip4, Parsing!Ihl, Parsing!Reads
      <4>3. len' \in Parsing!UInt16
        BY <3>0, <3>1, <4>2, Short DEF Parsing!Ip4, Parsing!Ihl
      <4> QED  BY <2>1, <4>1, <4>2, <4>3, FrameData
    <3>2. CASE Parsing!Ip6
      <4>1. frame.type = "ip6"
        BY <3>0, <3>2 DEF Parsing!Ip6
      <4>2. data' = 54 /\ read' = 54
        BY <3>0, <3>2, ParsingConstants DEF Parsing!Ip6, Parsing!Reads
      <4>3. len' \in Parsing!UInt16
        BY <3>0, <3>2, ParsingConstants, Short DEF Parsing!Ip6
      <4> QED  BY <2>1, <4>1, <4>2, <4>3, FrameData
    <3> QED  BY <1>5, <3>1, <3>2
  <2>4. frame.type \in {"ip4", "ip6"}
    BY <2>1 DEF AtNetwork
  <2>5. /\ HasPorts(frame)' <=> HasPorts(frame) /\ HeadersRead(frame)' = HeadersRead(frame)
        /\ Parsing!TransportAt(frame)' = Parsing!TransportAt(frame)
    BY <2>2 DEF HasPorts, HeadersRead, Parsing!TransportAt, Parsing!NetworkLen
  <2>6. CASE HasPorts(frame)
    <3>1. AtPorts'
      BY <2>2, <2>3, <2>5, <2>6 DEF AtPorts, Parsing!AfterHeader, HasPorts
    <3> QED  BY <2>1, <2>2, <2>3, <3>1, ParsingConstants DEF ParsingInv
  <2>7. CASE ~HasPorts(frame)
    <3>1. parse_pc' = "free"
      BY <2>2, <2>4, <2>7 DEF Parsing!AfterHeader, HasPorts
    <3>2. Parsed'
      BY <2>2, <2>3, <2>5, <2>7, <3>1 DEF Parsed
    <3> QED  BY <2>1, <2>2, <2>3, <3>2, ParsingConstants DEF ParsingInv
  <2> QED  BY <2>6, <2>7
<1>6. CASE Parsing!ShowPorts
  <2>1. Within /\ AtPorts
    BY <1>6, ParsingConstants DEF Parsing!ShowPorts, ParsingInv, AtEther, AtNetwork, Parsed, BetweenPackets
  <2>2. UNCHANGED <<parse_left, frame, data, len>> /\ parse_pc' = "free" /\ ports_shown' = data
    BY <1>6 DEF Parsing!ShowPorts
  <2>3. HasPorts(frame) /\ data = Parsing!TransportAt(frame) /\ read = HeadersRead(frame)
    BY <2>1 DEF AtPorts
  <2>4. read' = PortsRead(frame)
    BY <1>6, <2>3, ParsingConstants DEF Parsing!ShowPorts, Parsing!Reads, PortsRead
  <2>5. Parsed'
    BY <2>2, <2>3, <2>4
       DEF Parsed, HasPorts, PortsRead, HeadersRead, Parsing!TransportAt, Parsing!NetworkLen
  <2> QED  BY <2>1, <2>2, <2>5, ParsingConstants DEF ParsingInv
<1>7. CASE Parsing!Free
  <2>1. Within
    BY <1>7, ParsingConstants DEF Parsing!Free, ParsingInv, BetweenPackets
  <2>2. BetweenPackets'
    BY <1>7, <2>1, ParsingConstants DEF Parsing!Free, BetweenPackets
  <2> QED  BY <2>2 DEF ParsingInv
<1> QED
  BY <1>1, <1>2, <1>3, <1>4, <1>5, <1>6, <1>7 DEF Parsing!Next

\* A complete packet is not read past its end, with options or without
\* (packet_parsing.c:39-87, 127-149), and none past the longest headers.
THEOREM ReadsStayInside == Spec => []ReadsInsidePacket
<1>1. ASSUME ParsingInv PROVE ReadsInsidePacket
  <2>1. CASE BetweenPackets
    BY <2>1, ParsingConstants, Short
       DEF BetweenPackets, ReadsInsidePacket, Parsing!ReadsInsidePacket, Parsing!TypeOK,
           Parsing!LongestHeaders, Parsing!EtherLen, Parsing!PortsLen
  <2>2. CASE /\ parse_left \in 1..Burst /\ len \in Parsing!UInt16 /\ frame \in Parsing!Frames
             /\ AtEther \/ AtNetwork \/ AtPorts \/ Parsed
    <3>1. /\ frame.ihl \in 0..15 /\ frame.len \in Nat /\ frame.type \in {"ip4", "ip6", "other"}
          /\ Parsing!TransportAt(frame) \in 14..74
          /\ frame.type = "ip4" => Parsing!TransportAt(frame) = 14 + 4 * frame.ihl /\ HeadersRead(frame) = 34
          /\ frame.type = "ip6" => Parsing!TransportAt(frame) = 54 /\ HeadersRead(frame) = 54
          /\ frame.type = "other" => Parsing!TransportAt(frame) = 14 /\ HeadersRead(frame) = 14
      BY <2>2, FrameData, Short
    <3>2. /\ parse_pc \in {"ether", "ip4", "ip6", "ports", "free"} /\ data \in 0..74 /\ read \in 0..78
          /\ ports_shown \in 0..74
      BY <2>2, <3>1 DEF AtEther, AtNetwork, AtPorts, Parsed, PortsRead, HasPorts
    <3>3. Parsing!TypeOK
      BY <2>2, <3>2, ParsingConstants, Short DEF Parsing!TypeOK
    <3>4. ASSUME Parsing!Complete(frame) PROVE read <= frame.len
      <4>1. /\ frame.type = "ip4" => frame.ihl >= 5
            /\ frame.len >= Parsing!TransportAt(frame) + (IF HasPorts(frame) THEN 4 ELSE 0)
        BY <3>1, <3>4 DEF Parsing!Complete, HasPorts
      <4>2. Parsing!TransportAt(frame) >= HeadersRead(frame) /\ HeadersRead(frame) \in {14, 34, 54}
        BY <3>1, <4>1
      <4>3. CASE AtEther \/ AtNetwork
        BY <3>1, <4>1, <4>3 DEF AtEther, AtNetwork
      <4>4. CASE AtPorts
        BY <3>1, <4>1, <4>2, <4>4 DEF AtPorts
      <4>5. CASE Parsed
        BY <3>1, <4>1, <4>2, <4>5 DEF Parsed, PortsRead
      <4> QED  BY <2>2, <4>3, <4>4, <4>5
    <3>5. read <= Parsing!LongestHeaders
      BY <3>2 DEF Parsing!LongestHeaders, Parsing!EtherLen, Parsing!PortsLen
    <3> QED  BY <3>3, <3>4, <3>5 DEF ReadsInsidePacket, Parsing!ReadsInsidePacket
  <2> QED  BY <1>1, <2>1, <2>2 DEF ParsingInv
<1> QED
  BY <1>1, Apart, ParsingInit, ParsingStep, PTL DEF Spec, Init

\* The ports printed of a complete packet are read where its transport header
\* is, and of a packet without one none are (packet_parsing.c:64, 127).
THEOREM PortsAreTransport == Spec => []PortsOfTransport
<1>1. ASSUME ParsingInv PROVE PortsOfTransport
  <2>1. ASSUME parse_pc = "free"
        PROVE  Parsed /\ frame \in Parsing!Frames
    BY <1>1, <2>1 DEF ParsingInv, BetweenPackets, AtEther, AtNetwork, AtPorts
  <2>2. ASSUME parse_pc = "free"
        PROVE  ports_shown = IF frame.type # "other" /\ frame.proto \in {"tcp", "udp"}
                             THEN Parsing!TransportAt(frame) ELSE 0
    <3>1. frame.type \in {"ip4", "ip6", "other"}
      BY <2>1, <2>2, FrameData
    <3> QED  BY <2>1, <2>2, <3>1 DEF Parsed, HasPorts
  <2> QED  BY <2>2 DEF PortsOfTransport, Parsing!PortsOfTransport
<1> QED
  BY <1>1, Apart, ParsingInit, ParsingStep, PTL DEF Spec, Init
-----------------------------------------------------------------------------
(* The start of the event packet program: its port loop asks for a port more *)
(* than there are.                                                           *)

\* The device has the ports asked for, two fewer than there are lcores, and
\* the workers so far have the first of them.
DeviceConfigured ==
    /\ ports \in Nat
    /\ lcores \in Nat \ {0}
    /\ lcore_to_evport \in Seq(Nat)
    /\ start_pc \in {"queues", "ports"} => ports = Start!NbWorkers /\ ports \in 1..MaxPorts
    /\ start_pc \notin {"ports", "exit"} => lcore_to_evport = <<>>
    /\ Len(lcore_to_evport) <= ports
    /\ \A i \in 1..Len(lcore_to_evport) : lcore_to_evport[i] = i - 1

StartInv == DeviceConfigured /\ Start!LoopsNeverRun

LEMMA StartInit == Start!Init => StartInv
  BY StartAssumption DEF Start!SizeAssumption, Start!Init, StartInv, DeviceConfigured, Start!LoopsNeverRun

LEMMA WorkersBound ==
  ASSUME lcores \in Nat \ {0}, Start!NbWorkers \in 1..MaxPorts
  PROVE  Start!NbWorkers <= lcores - 2
<1>1. CASE lcores = 1
  BY <1>1, StartAssumption DEF Start!SizeAssumption, Start!NbWorkers
<1>2. CASE lcores >= 2
  BY <1>2, StartAssumption DEF Start!SizeAssumption, Start!NbWorkers
<1> QED
  BY <1>1, <1>2

LEMMA SmallPorts ==
  ASSUME NEW p \in 1..MaxPorts, NEW n \in Nat, n <= p
  PROVE  n % 256 = n
<1>1. n \in 0..254
  BY StartAssumption DEF Start!SizeAssumption
<1> QED
  BY <1>1

LEMMA StartStep == StartInv /\ [Start!Next]_start_vars => StartInv'
<1> SUFFICES ASSUME StartInv, [Start!Next]_start_vars PROVE StartInv'
  OBVIOUS
<1> USE DEF StartInv, DeviceConfigured, Start!LoopsNeverRun, Start!NbWorkers, Start!system, Start!locals
<1>1. CASE Start!Exit
  BY <1>1 DEF Start!Exit
<1>2. CASE Start!PortInit /\ ~Start!Exit
  BY <1>2 DEF Start!PortInit
<1>3. CASE Start!GetDevId
  BY <1>3 DEF Start!GetDevId
<1>4. CASE Start!Configure /\ ~Start!Exit
  <2>1. ports' = Start!NbWorkers /\ Start!NbWorkers \in 1..MaxPorts /\ start_pc' = "queues" /\ start_pc = "configure"
          /\ UNCHANGED <<lcores, lcore_to_evport>>
    BY <1>4 DEF Start!Configure
  <2>2. Start!NbWorkers \in Nat
    BY <2>1, StartAssumption DEF Start!SizeAssumption
  <2> QED
    BY <2>1, <2>2
<1>5. CASE Start!QueueSetup /\ ~Start!Exit
  BY <1>5 DEF Start!QueueSetup
<1>6. CASE Start!PortSetup /\ ~Start!Exit
  <2> DEFINE n == Len(lcore_to_evport)
  <2> HIDE DEF Start!NbWorkers
  <2>1. /\ start_pc = "ports" /\ Start!EvPort < ports
        /\ lcore_to_evport' = Append(lcore_to_evport, Start!EvPort)
        /\ start_pc' = IF n + 1 = lcores - 1 THEN "loops" ELSE start_pc
        /\ UNCHANGED <<lcores, ports>>
    BY <1>6 DEF Start!PortSetup
  <2>2. ports \in 1..MaxPorts /\ n \in Nat /\ n <= ports
    BY <2>1
  <2>3. Start!EvPort = n /\ UNCHANGED Start!NbWorkers
    BY <2>1, <2>2, SmallPorts DEF Start!EvPort, Start!NbWorkers
  <2>4. ports <= lcores - 2
    BY <2>1, WorkersBound
  <2>5. start_pc' = "ports"
    BY <2>1, <2>2, <2>3, <2>4
  <2>6. lcore_to_evport' \in Seq(Nat) /\ Len(lcore_to_evport') = n + 1
    BY <2>1, <2>2, <2>3
  <2>7. \A i \in 1..Len(lcore_to_evport') : lcore_to_evport'[i] = i - 1
    BY <2>1, <2>2, <2>3, <2>6
  <2> QED
    BY <2>1, <2>2, <2>3, <2>5, <2>6, <2>7
<1>7. CASE UNCHANGED start_vars
  BY <1>7 DEF start_vars, Start!vars
<1> HIDE DEF StartInv, DeviceConfigured, Start!LoopsNeverRun, Start!NbWorkers, Start!system, Start!locals
<1> QED
  BY <1>1, <1>2, <1>3, <1>4, <1>5, <1>6, <1>7 DEF Start!Next

\* The id the code goes on with is that of event_sw0 unless that is missing.
IdFound ==
    /\ devs \in 0..MaxDevs /\ sw0 \in {Start!NoDev} \cup 0..(devs - 1)
    /\ evdev_id \in Nat
    /\ start_pc = "port_init" => ports = 0
    /\ start_pc = "dev_id" => ports = 0
    /\ start_pc = "configure" => evdev_id = Start!DevId
    /\ Start!OnlySw0Configured

LEMMA DevIdValue ==
  ASSUME devs \in 0..MaxDevs, sw0 \in {Start!NoDev} \cup 0..(devs - 1)
  PROVE  Start!DevId \in Nat /\ (Start!DevId < devs => Start!DevId = sw0)
<1>1. CASE sw0 = Start!NoDev
  <2>1. \A k \in Int : k + 19 = 0 => k % 256 = 237
    OBVIOUS
  <2>2. sw0 \in Int /\ sw0 + 19 = 0
    BY <1>1 DEF Start!NoDev
  <2>3. Start!DevId = 237
    BY <2>1, <2>2 DEF Start!DevId
  <2>4. devs \in Nat /\ devs <= 237
    BY StartAssumption DEF Start!SizeAssumption
  <2> QED
    BY <2>3, <2>4
<1>2. CASE sw0 \in 0..(devs - 1)
  <2>1. \A k \in 0..237 : k % 256 = k
    OBVIOUS
  <2> QED
    BY <1>2, <2>1, StartAssumption DEF Start!SizeAssumption, Start!DevId
<1> QED
  BY <1>1, <1>2

LEMMA StepIdFound == IdFound /\ [Start!Next]_start_vars => IdFound'
<1> SUFFICES ASSUME IdFound, [Start!Next]_start_vars PROVE IdFound'
  OBVIOUS
<1> USE DEF IdFound, Start!OnlySw0Configured, Start!system, Start!locals
<1>1. CASE Start!Exit
  BY <1>1 DEF Start!Exit
<1>6. CASE Start!PortInit /\ ~Start!Exit
  BY <1>6 DEF Start!PortInit
<1>7. CASE UNCHANGED start_vars
  BY <1>7 DEF start_vars, Start!DevId
<1>2. CASE Start!GetDevId
  <2>1. Start!DevId' = Start!DevId /\ Start!DevId \in Nat
    BY <1>2, DevIdValue DEF Start!GetDevId, Start!DevId
  <2> QED
    BY <1>2, <2>1 DEF Start!GetDevId
<1>3. CASE Start!Configure /\ ~Start!Exit
  BY <1>3, DevIdValue DEF Start!Configure
<1>4. CASE Start!QueueSetup /\ ~Start!Exit
  BY <1>4 DEF Start!QueueSetup
<1>5. CASE Start!PortSetup /\ ~Start!Exit
  BY <1>5 DEF Start!PortSetup
<1> HIDE DEF IdFound, Start!OnlySw0Configured, Start!system, Start!locals
<1> QED
  BY <1>1, <1>2, <1>3, <1>4, <1>5, <1>6, <1>7, Zenon DEF Start!Next

\* Only event_sw0 is ever configured (main.c:64-77), although the code's own
\* test for a missing one never succeeds.
THEOREM MissingDeviceRefused == Spec => []OnlySw0Configured
<1>1. Start!Init => IdFound
  BY DEF Start!Init, IdFound, Start!OnlySw0Configured
<1>2. IdFound => OnlySw0Configured
  BY DEF IdFound, OnlySw0Configured
<1> QED
  BY <1>1, <1>2, Apart, StepIdFound, PTL DEF Spec, Init

\* The loops are never launched and no two workers share an event port
\* (main.c:99-122), with any number of lcores and any limit on ports below 255.
THEOREM LoopsUnreachable == Spec => []LoopsNeverRun
<1>1. StartInv => LoopsNeverRun
  BY DEF StartInv, LoopsNeverRun
<1> QED
  BY <1>1, Apart, StartInit, StartStep, PTL DEF Spec, Init

THEOREM EachWorkerItsPort == Spec => []Start!PortsNotShared
<1>1. StartInv => Start!PortsNotShared
  BY DEF StartInv, DeviceConfigured, Start!PortsNotShared
<1> QED
  BY <1>1, Apart, StartInit, StartStep, PTL DEF Spec, Init

-----------------------------------------------------------------------------
(* The graphs: which nodes there are, what a walk leaves behind, and where  *)
(* the buffers are.                                                         *)

LEMMA RxData ==
    ASSUME graph = "rx"
    PROVE  /\ Graph!Nodes = {"RX", "CLASSIFY", "PRINT_IPV4", "PRINT_IPV6"}
           /\ Graph!Edges[graph]["RX"] = <<"CLASSIFY">>
           /\ Graph!Edges[graph]["RX"][1] = "CLASSIFY"
           /\ Graph!Edges[graph]["CLASSIFY"] = <<"PRINT_IPV4", "PRINT_IPV6">>
           /\ Graph!Edges[graph]["CLASSIFY"][1] = "PRINT_IPV4"
           /\ Graph!Edges[graph]["CLASSIFY"][2] = "PRINT_IPV6"
           /\ Graph!Edges[graph]["PRINT_IPV4"] = <<>> /\ Graph!Edges[graph]["PRINT_IPV6"] = <<>>
           /\ Graph!Sources[graph] = {"RX"} /\ Graph!Patterns[graph] = {"RX"}
BY DEF Graph!Nodes, Graph!Edges, Graph!Sources, Graph!Patterns

LEMMA SourcesData ==
    ASSUME graph = "sources"
    PROVE  /\ Graph!Nodes = {"start1", "start2", "worker"}
           /\ Graph!Edges[graph]["start1"] = <<"worker">> /\ Graph!Edges[graph]["start2"] = <<"worker">>
           /\ Graph!Edges[graph]["start1"][1] = "worker" /\ Graph!Edges[graph]["start2"][1] = "worker"
           /\ Graph!Edges[graph]["worker"] = <<>>
           /\ Graph!Sources[graph] = {"start1", "start2"} /\ Graph!Patterns[graph] = {"start1", "start2"}
BY DEF Graph!Nodes, Graph!Edges, Graph!Sources, Graph!Patterns

LEMMA DemoData ==
    ASSUME graph = "demo"
    PROVE  /\ Graph!Nodes = {"RX", "PRINT"} /\ Graph!Sources[graph] = {"RX"} 
           /\ ~(Graph!Patterns[graph] \subseteq Graph!Nodes)
BY DEF Graph!Nodes, Graph!Edges, Graph!Sources, Graph!Patterns

\* What the edges lead to from the patterns is the whole graph.
LEMMA WholeGraph ==
    ASSUME graph \in {"rx", "sources"}
    PROVE  Graph!Closed = Graph!Nodes
<1>. DEFINE Is(set) == /\ Graph!Patterns[graph] \subseteq set /\ Graph!Next1(set) = set
                       /\ \A s \in SUBSET Graph!Nodes :
                            Graph!Patterns[graph] \subseteq s /\ Graph!Next1(s) = s => set \subseteq s
<1>1. ASSUME NEW s \in SUBSET Graph!Nodes, Graph!Patterns[graph] \subseteq s, Graph!Next1(s) = s
      PROVE  Graph!Nodes = s
  <2>1. \A n \in s : Graph!SeqSet(Graph!Edges[graph][n]) \subseteq s
    BY <1>1 DEF Graph!Next1
  <2>2. CASE graph = "rx"
    <3>1. "RX" \in s
      BY <1>1, <2>2, RxData
    <3>2. "CLASSIFY" \in Graph!SeqSet(Graph!Edges[graph]["RX"])
      BY <2>2, RxData DEF Graph!SeqSet
    <3>3. "CLASSIFY" \in s
      BY <2>1, <3>1, <3>2
    <3>4. {"PRINT_IPV4", "PRINT_IPV6"} \subseteq Graph!SeqSet(Graph!Edges[graph]["CLASSIFY"])
      BY <2>2, RxData DEF Graph!SeqSet
    <3>5. "PRINT_IPV4" \in s /\ "PRINT_IPV6" \in s
      BY <2>1, <3>3, <3>4
    <3>6. Graph!Nodes \subseteq s
      BY <2>2, <3>1, <3>3, <3>5, RxData
    <3> QED  BY <3>6
  <2>3. CASE graph = "sources"
    <3>1. "start1" \in s /\ "start2" \in s
      BY <1>1, <2>3, SourcesData
    <3>2. "worker" \in Graph!SeqSet(Graph!Edges[graph]["start1"])
      BY <2>3, SourcesData DEF Graph!SeqSet
    <3> QED  BY <2>1, <2>3, <3>1, <3>2, SourcesData
  <2>4. graph = "rx" \/ graph = "sources"
    OBVIOUS
  <2> QED  BY <2>2, <2>3, <2>4, Zenon
<1>2. Graph!Patterns[graph] \subseteq Graph!Nodes /\ Graph!Next1(Graph!Nodes) = Graph!Nodes
  <2>1. CASE graph = "rx"
    BY <2>1, RxData DEF Graph!Next1, Graph!SeqSet
  <2>2. CASE graph = "sources"
    BY <2>2, SourcesData DEF Graph!Next1, Graph!SeqSet
  <2> QED  BY <2>1, <2>2
<1>3. Is(Graph!Nodes)
  BY <1>1, <1>2
<1>4. Graph!Closed = CHOOSE set \in SUBSET Graph!Nodes : Is(set)
  BY DEF Graph!Closed
<1>. HIDE DEF Is
<1>5. Graph!Closed \in SUBSET Graph!Nodes /\ Is(Graph!Closed)
  BY <1>3, <1>4
<1> QED
  BY <1>1, <1>5 DEF Is

GraphTypes ==
    /\ graph \in Graph!Programs
    /\ graph_pc \in {"create", "walk", "loop", "ended", "failed"}
    /\ nodes \subseteq Graph!Nodes
    /\ todo \subseteq Graph!Sources[graph]
    /\ stream \in [Graph!Nodes -> Seq(Mbufs)]
    /\ pending \in Seq(Graph!Nodes)
    /\ pool \subseteq Mbufs
    /\ rxq \in Seq(Mbufs) /\ type \in [Mbufs -> Graph!Types]
    /\ ip4 \in Seq(Mbufs) /\ ip6 \in Seq(Mbufs)
    /\ total_prints \in 0..Limit
\* A graph that is walked has all the nodes, and nothing waits between walks.
Walked ==
    /\ graph_pc \in {"walk", "loop", "ended"} => nodes = Graph!Nodes
    /\ graph_pc # "walk" => todo = {} /\ pending = <<>>
    /\ graph = "demo" => graph_pc \in {"create", "failed"}
\* "rx" takes one burst from the NIC, and sorts no more than that.
OneBurst ==
    /\ graph # "rx" => ip4 = <<>> /\ ip6 = <<>>
    /\ graph = "rx" /\ (graph_pc \in {"create", "loop"} \/ "RX" \in todo) =>
         stream["CLASSIFY"] = <<>> /\ ip4 = <<>> /\ ip6 = <<>>
    /\ graph = "rx" => Len(stream["CLASSIFY"]) + Len(ip4) + Len(ip6) <= Burst

GraphPlaces == Graph!Nodes \cup {"ip4", "ip6", "rxq"}
GraphShelves(str, a4, a6, q) ==
    [x \in GraphPlaces |-> CASE x = "ip4" -> a4 [] x = "ip6" -> a6 [] x = "rxq" -> q [] OTHER -> str[x]]
GraphHeld(str, a4, a6, q, P) == Facts!Kept(GraphPlaces, Mbufs, GraphShelves(str, a4, a6, q), P)
GraphInv == GraphTypes /\ Walked /\ OneBurst /\ GraphHeld(stream, ip4, ip6, rxq, pool)

LEMMA GraphConstants == IsFiniteSet(Mbufs) /\ Burst \in Nat /\ Limit \in Nat
<1>1. Graph!IsFiniteSet(Mbufs) <=> IsFiniteSet(Mbufs)
  BY Zenon DEF Graph!IsFiniteSet, IsFiniteSet
<1> QED
  BY <1>1, GraphAssumption DEF Graph!SizeAssumption

\* The places of a graph, each of which holds what it should.
ShelvesAre(H, str, a4, a6, q) ==
    /\ H \in [GraphPlaces -> Seq(Mbufs)]
    /\ H["ip4"] = a4 /\ H["ip6"] = a6 /\ H["rxq"] = q
    /\ \A n \in Graph!Nodes : H[n] = str[n]

LEMMA ShelfNames ==
    ASSUME GraphTypes
    PROVE  /\ "ip4" \notin Graph!Nodes /\ "ip6" \notin Graph!Nodes /\ "rxq" \notin Graph!Nodes
           /\ {"ip4", "ip6", "rxq"} \subseteq GraphPlaces /\ Graph!Nodes \subseteq GraphPlaces
           /\ \A a \in GraphPlaces : a \in Graph!Nodes \/ a \in {"ip4", "ip6", "rxq"}
BY RxData, SourcesData, DemoData DEF Graph!Programs, GraphTypes, GraphPlaces

LEMMA ShelfValues ==
    ASSUME GraphTypes, NEW str \in [Graph!Nodes -> Seq(Mbufs)],
           NEW a4 \in Seq(Mbufs), NEW a6 \in Seq(Mbufs), NEW q \in Seq(Mbufs)
    PROVE  ShelvesAre(GraphShelves(str, a4, a6, q), str, a4, a6, q)
<1>1. \A a \in GraphPlaces : a \in {"ip4", "ip6", "rxq"} \/ a \in Graph!Nodes
  BY ShelfNames
<1> QED
  BY <1>1, ShelfNames DEF GraphShelves, ShelvesAre

\* Which program a node that runs belongs to.
LEMMA RunsIn ==
    ASSUME GraphTypes, Walked, NEW n, Graph!Runs(n)
    PROVE  /\ n \in Graph!Nodes /\ pending # <<>> /\ Tail(pending) \in Seq(Graph!Nodes)
           /\ graph_pc = "walk" /\ graph \in {"rx", "sources"} /\ todo = {}
           /\ n \in {"CLASSIFY", "PRINT_IPV4", "PRINT_IPV6"} => graph = "rx"
           /\ n = "worker" => graph = "sources"
<1>1. /\ pending \in Seq(Graph!Nodes) /\ pending # <<>> /\ n = Head(pending)
      /\ graph_pc = "walk" /\ graph \in {"rx", "sources"} /\ todo = {}
  BY DEF Graph!Runs, GraphTypes, Walked, Graph!Programs
<1>2. Head(pending) \in Graph!Nodes /\ Tail(pending) \in Seq(Graph!Nodes)
  BY <1>1, HeadTailProperties
<1> QED
  BY <1>1, <1>2, RxData, SourcesData

\* The sequences that are taken apart and put together again.
LEMMA WholeCut ==
    ASSUME NEW s \in Seq(Mbufs)
    PROVE  /\ SubSeq(s, 1, Len(s)) = s /\ SubSeq(s, Len(s) + 1, Len(s)) = <<>>
           /\ Len(s) \in Nat /\ (s = <<>> <=> Len(s) = 0)
<1>1. Len(s) \in Nat /\ (s = <<>> <=> Len(s) = 0)
  BY LenProperties, EmptySeq
<1>2. /\ SubSeq(s, 1, Len(s)) \in Seq(Mbufs) /\ Len(SubSeq(s, 1, Len(s))) = Len(s)
      /\ SubSeq(s, Len(s) + 1, Len(s)) \in Seq(Mbufs) /\ Len(SubSeq(s, Len(s) + 1, Len(s))) = 0
      /\ SubSeq(s, 1, Len(s)) \o SubSeq(s, Len(s) + 1, Len(s)) = s
  BY <1>1, Facts!CutProperties
<1>. DEFINE f == SubSeq(s, 1, Len(s))
            t == SubSeq(s, Len(s) + 1, Len(s))
<1>. HIDE DEF f, t
<1>3. t = <<>> /\ f \in Seq(Mbufs) /\ f \o t = s
  BY <1>2, EmptySeq DEF f, t
<1>4. f = s
  BY <1>3, ConcatEmptySeq
<1> QED
  BY <1>1, <1>3, <1>4 DEF f, t

\* What is on the move when a shelf is emptied into another.
LEMMA HeldMove ==
    ASSUME GraphTypes, NEW str \in [Graph!Nodes -> Seq(Mbufs)], NEW a4 \in Seq(Mbufs), NEW a6 \in Seq(Mbufs),
           NEW q \in Seq(Mbufs), NEW H \in [GraphPlaces -> Seq(Mbufs)], NEW P \in SUBSET Mbufs,
           NEW c \in GraphPlaces, NEW d \in GraphPlaces, NEW n \in 0..Len(H[c]), c # d,
           Facts!Kept(GraphPlaces, Mbufs, H, P),
           LET G == GraphShelves(str, a4, a6, q)
           IN  /\ G[c] = SubSeq(H[c], n + 1, Len(H[c])) /\ G[d] = H[d] \o SubSeq(H[c], 1, n)
               /\ \A a \in GraphPlaces \ {c, d} : G[a] = H[a]
    PROVE  GraphHeld(str, a4, a6, q, P)
<1>. DEFINE G == GraphShelves(str, a4, a6, q)
<1>1. G \in [GraphPlaces -> Seq(Mbufs)]
  BY ShelfValues DEF ShelvesAre
<1>2. Facts!Moved(GraphPlaces, H, G, c, d, n)
  BY DEF Facts!Moved
<1>. HIDE DEF G
<1>3. Facts!Kept(GraphPlaces, Mbufs, G, P)
  BY <1>1, <1>2, Facts!KeptMove
<1> QED
  BY <1>3 DEF G, GraphHeld

LEMMA HeldAppend ==
    ASSUME GraphTypes, NEW str \in [Graph!Nodes -> Seq(Mbufs)], NEW a4 \in Seq(Mbufs), NEW a6 \in Seq(Mbufs),
           NEW q \in Seq(Mbufs), NEW H \in [GraphPlaces -> Seq(Mbufs)], NEW P \in SUBSET Mbufs,
           NEW c \in GraphPlaces, NEW m \in P, Facts!Kept(GraphPlaces, Mbufs, H, P),
           LET G == GraphShelves(str, a4, a6, q)
           IN  G[c] = Append(H[c], m) /\ \A a \in GraphPlaces \ {c} : G[a] = H[a]
    PROVE  GraphHeld(str, a4, a6, q, P \ {m})
<1>. DEFINE G == GraphShelves(str, a4, a6, q)
<1>1. G \in [GraphPlaces -> Seq(Mbufs)]
  BY ShelfValues DEF ShelvesAre
<1>2. G[c] = Append(H[c], m) /\ \A a \in GraphPlaces \ {c} : G[a] = H[a]
  OBVIOUS
<1>. HIDE DEF G
<1>3. Facts!Kept(GraphPlaces, Mbufs, G, P \ {m})
  BY <1>1, <1>2, Facts!KeptAppend
<1> QED
  BY <1>3 DEF G, GraphHeld

LEMMA HeldClear ==
    ASSUME GraphTypes, NEW n \in Graph!Nodes, GraphHeld(stream, ip4, ip6, rxq, pool)
    PROVE  LET str == [stream EXCEPT ![n] = <<>>]
           IN  /\ str \in [Graph!Nodes -> Seq(Mbufs)]
               /\ pool \cup Graph!SeqSet(stream[n]) \subseteq Mbufs
               /\ GraphHeld(str, ip4, ip6, rxq, pool \cup Graph!SeqSet(stream[n]))
<1>. DEFINE H == GraphShelves(stream, ip4, ip6, rxq)
            str == [stream EXCEPT ![n] = <<>>]
            G == GraphShelves(str, ip4, ip6, rxq)
            Q == {H[n][i] : i \in 1..Len(H[n])}
<1>1. str \in [Graph!Nodes -> Seq(Mbufs)] /\ str[n] = <<>> /\ \A k \in Graph!Nodes \ {n} : str[k] = stream[k]
  BY EmptySeq DEF GraphTypes
<1>. HIDE DEF str
<1>2. ShelvesAre(H, stream, ip4, ip6, rxq) /\ ShelvesAre(G, str, ip4, ip6, rxq)
  BY <1>1, ShelfValues DEF GraphTypes
<1>. HIDE DEF H, G
<1>3. DOMAIN stream[n] = 1..Len(stream[n]) /\ \A i \in 1..Len(stream[n]) : stream[n][i] \in Mbufs
  BY LenProperties, ElementOfSeq DEF GraphTypes
<1>4. Q = Graph!SeqSet(stream[n]) /\ pool \in SUBSET Mbufs
  BY <1>2, <1>3 DEF Graph!SeqSet, GraphTypes, ShelvesAre
<1>5. Facts!Kept(GraphPlaces, Mbufs, H, pool)
  BY DEF GraphHeld, H
<1>6. Facts!Kept(GraphPlaces, Mbufs, G, pool \cup Q)
  <2>1. /\ G \in [GraphPlaces -> Seq(Mbufs)] /\ H \in [GraphPlaces -> Seq(Mbufs)] /\ n \in GraphPlaces
        /\ G[n] = <<>> /\ \A a \in GraphPlaces \ {n} : G[a] = H[a]
    BY <1>1, <1>2, ShelfNames DEF ShelvesAre
  <2> QED  BY <1>4, <1>5, <2>1, Facts!KeptClear
<1>7. pool \cup Graph!SeqSet(stream[n]) \subseteq Mbufs
  BY <1>3, <1>4 DEF Graph!SeqSet
<1> QED
  BY <1>1, <1>4, <1>6, <1>7 DEF G, str, GraphHeld

LEMMA GraphInit == Graph!Init => GraphInv
<1>. SUFFICES ASSUME Graph!Init PROVE GraphInv
  OBVIOUS
<1>1. GraphTypes /\ Walked
  BY EmptySeq, GraphConstants DEF Graph!Init, GraphTypes, Walked, Graph!Types
<1>2. OneBurst
  <2>1. graph = "rx" => stream["CLASSIFY"] = <<>>
    BY RxData DEF Graph!Init
  <2>2. Len(<<>>) = 0
    BY EmptySeq
  <2> QED  BY <2>1, <2>2, GraphConstants DEF Graph!Init, OneBurst
<1>3. GraphHeld(stream, ip4, ip6, rxq, pool)
  <2>. DEFINE H == GraphShelves(stream, ip4, ip6, rxq)
  <2>1. ShelvesAre(H, stream, ip4, ip6, rxq)
    BY <1>1, ShelfValues DEF GraphTypes
  <2>. HIDE DEF H
  <2>2. \A a \in GraphPlaces : H[a] = <<>>
    BY <1>1, <2>1, ShelfNames DEF ShelvesAre, Graph!Init
  <2>3. \A a \in GraphPlaces : 1..Len(H[a]) = {}
    BY <2>2, EmptySeq
  <2>4. Facts!Kept(GraphPlaces, Mbufs, H, pool)
    BY <2>3 DEF Facts!Kept, Graph!Init
  <2> QED  BY <2>4 DEF H, GraphHeld
<1> QED
  BY <1>1, <1>2, <1>3 DEF GraphInv

\* The places are those of the program, whose graph does not change.
LEMMA SameGraph ==
    ASSUME UNCHANGED graph
    PROVE  /\ Graph!Nodes' = Graph!Nodes /\ GraphPlaces' = GraphPlaces
           /\ Graph!Sources[graph]' = Graph!Sources[graph]
           /\ GraphHeld(stream, ip4, ip6, rxq, pool)' <=> GraphHeld(stream', ip4', ip6', rxq', pool')
BY DEF Graph!Nodes, GraphPlaces, GraphHeld, GraphShelves

\* Nothing moves.
LEMMA GraphStays ==
    ASSUME GraphInv, UNCHANGED <<graph, stream, ip4, ip6, rxq, pool, type, total_prints>>, GraphTypes', Walked',
           graph = "rx" /\ (graph_pc' \in {"create", "loop"} \/ "RX" \in todo') =>
             graph_pc \in {"create", "loop"} \/ "RX" \in todo
    PROVE  GraphInv'
<1>1. OneBurst'
  BY DEF GraphInv, OneBurst
<1>2. GraphHeld(stream, ip4, ip6, rxq, pool)'
  BY SameGraph DEF GraphInv
<1> QED
  BY <1>1, <1>2 DEF GraphInv

LEMMA GraphMains == GraphInv /\ (Graph!Create \/ Graph!Walk \/ Graph!EndWalk) => GraphInv'
<1>. SUFFICES ASSUME GraphInv, Graph!Create \/ Graph!Walk \/ Graph!EndWalk PROVE GraphInv'
  OBVIOUS
<1>1. /\ UNCHANGED <<graph, stream, ip4, ip6, rxq, pool, type, total_prints>> /\ pending' = pending
      /\ Graph!Nodes' = Graph!Nodes /\ Graph!Sources[graph]' = Graph!Sources[graph]
  BY SameGraph
     DEF Graph!Create, Graph!Walk, Graph!EndWalk, Graph!walk, Graph!nic, Graph!local
<1>2. CASE Graph!Create
  <2>1. todo' = todo /\ graph_pc = "create" /\ graph_pc' \in {"loop", "failed"}
    BY <1>2 DEF Graph!Create, Graph!walk
  <2>2. graph_pc' = "loop" => graph \in {"rx", "sources"} /\ nodes' = Graph!Nodes
    BY <1>2, DemoData, WholeGraph DEF Graph!Create, GraphInv, GraphTypes, Graph!Programs
  <2>3. graph_pc' = "failed" => nodes' = nodes
    BY <1>2 DEF Graph!Create
  <2>4. nodes' \subseteq Graph!Nodes
    BY <2>1, <2>2, <2>3 DEF GraphInv, GraphTypes
  <2>5. GraphTypes' /\ Walked'
    BY <1>1, <2>1, <2>2, <2>4 DEF GraphInv, GraphTypes, Walked
  <2> QED  BY <1>1, <2>1, <2>5, GraphStays
<1>3. CASE Graph!Walk
  <2>1. nodes' = nodes /\ graph_pc = "loop" /\ graph \in {"rx", "sources"}
    BY <1>3 DEF Graph!Walk, GraphInv, GraphTypes, Walked, Graph!Programs
  <2>2. \/ graph_pc' = "ended" /\ todo' = todo
        \/ graph_pc' = "walk" /\ todo' = Graph!Sources[graph]
    BY <1>3 DEF Graph!Walk
  <2>3. GraphTypes' /\ Walked'
    BY <1>1, <2>1, <2>2 DEF GraphInv, GraphTypes, Walked
  <2> QED  BY <1>1, <2>1, <2>3, GraphStays
<1>4. CASE Graph!EndWalk
  <2>1. /\ nodes' = nodes /\ todo' = todo /\ graph_pc = "walk" /\ todo = {} /\ pending = <<>>
        /\ graph_pc' = IF graph = "rx" THEN "ended" ELSE "loop"
    BY <1>4 DEF Graph!EndWalk, Graph!walk
  <2>2. GraphTypes' /\ Walked'
    BY <1>1, <2>1 DEF GraphInv, GraphTypes, Walked
  <2> QED  BY <1>1, <2>1, <2>2, GraphStays
<1> QED
  BY <1>2, <1>3, <1>4

LEMMA GraphReceive == ASSUME NEW t \in Graph!Types PROVE GraphInv /\ Graph!NicReceive(t) => GraphInv'
<1>. SUFFICES ASSUME GraphInv, Graph!NicReceive(t) PROVE GraphInv'
  OBVIOUS
<1>1. PICK m \in pool : pool' = pool \ {m} /\ rxq' = Append(rxq, m) /\ type' = [type EXCEPT ![m] = t]
  BY DEF Graph!NicReceive
<1>2. /\ UNCHANGED <<graph, graph_pc, nodes, todo, stream, pending, ip4, ip6, total_prints>>
      /\ GraphTypes /\ m \in Mbufs
  BY <1>1 DEF Graph!NicReceive, Graph!walk, Graph!local, GraphInv, GraphTypes
<1>3. rxq' \in Seq(Mbufs) /\ pool' \subseteq Mbufs /\ type' \in [Mbufs -> Graph!Types]
  BY <1>1, <1>2, AppendProperties DEF GraphTypes
<1>4. GraphTypes' /\ Walked' /\ OneBurst'
  BY <1>2, <1>3, SameGraph DEF GraphInv, GraphTypes, Walked, OneBurst
<1>5. GraphHeld(stream', ip4', ip6', rxq', pool')
  <2>. DEFINE H == GraphShelves(stream, ip4, ip6, rxq)
              G == GraphShelves(stream, ip4, ip6, rxq')
  <2>1. ShelvesAre(H, stream, ip4, ip6, rxq) /\ ShelvesAre(G, stream, ip4, ip6, rxq')
    BY <1>2, <1>3, ShelfValues DEF GraphTypes
  <2>2. Facts!Kept(GraphPlaces, Mbufs, H, pool) /\ pool \in SUBSET Mbufs
    BY <1>2 DEF GraphInv, GraphHeld, GraphTypes
  <2>. HIDE DEF H, G
  <2>3. "rxq" \in GraphPlaces /\ G["rxq"] = Append(H["rxq"], m) /\ \A a \in GraphPlaces \ {"rxq"} : G[a] = H[a]
    BY <1>1, <1>2, <2>1, ShelfNames DEF ShelvesAre
  <2>4. H \in [GraphPlaces -> Seq(Mbufs)]
    BY <2>1 DEF ShelvesAre
  <2>5. GraphHeld(stream, ip4, ip6, rxq', pool \ {m})
    BY <1>1, <1>2, <1>3, <2>2, <2>3, <2>4, HeldAppend DEF G, GraphTypes
  <2> QED  BY <1>1, <1>2, <2>5
<1> QED
  BY <1>2, <1>4, <1>5, SameGraph DEF GraphInv

LEMMA GraphRx == GraphInv /\ Graph!RxNode => GraphInv'
<1>. SUFFICES ASSUME GraphInv, Graph!RxNode PROVE GraphInv'
  OBVIOUS
<1>0. GraphTypes /\ Walked /\ OneBurst /\ stream \in [Graph!Nodes -> Seq(Mbufs)] /\ rxq \in Seq(Mbufs)
  BY DEF GraphInv, GraphTypes
<1>1. /\ graph_pc = "walk" /\ "RX" \in todo /\ todo' = todo \ {"RX"}
      /\ UNCHANGED <<graph, graph_pc, nodes, pool, type, ip4, ip6, total_prints>>
  BY DEF Graph!RxNode, Graph!local
<1>2. PICK n \in {k \in 0..Burst : k <= Len(rxq) /\ (k = 0 => rxq = <<>>)} :
        /\ rxq' = SubSeq(rxq, n + 1, Len(rxq))
        /\ IF n = 0 THEN UNCHANGED <<stream, pending>>
           ELSE /\ stream' = Graph!Pushed("RX", 1, SubSeq(rxq, 1, n), stream)
                /\ pending' = pending \o Graph!Pends("RX", 1, stream)
  BY DEF Graph!RxNode
<1>3. graph = "rx" /\ n \in 0..Len(rxq) /\ n \in Nat /\ n <= Burst
  <2>1. graph # "sources" /\ graph # "demo"
    BY <1>0, <1>1, SourcesData DEF GraphTypes, Walked
  <2>2. Len(rxq) \in Nat
    BY <1>0, LenProperties
  <2> QED  BY <1>0, <1>2, <2>1, <2>2, GraphConstants DEF GraphTypes, Graph!Programs
<1>4. stream["CLASSIFY"] = <<>> /\ ip4 = <<>> /\ ip6 = <<>> /\ "CLASSIFY" \in Graph!Nodes
  BY <1>0, <1>1, <1>3, RxData DEF OneBurst
<1>. DEFINE f == SubSeq(rxq, 1, n)
<1>5. f \in Seq(Mbufs) /\ Len(f) = n /\ rxq' \in Seq(Mbufs)
  BY <1>0, <1>2, <1>3, Facts!CutProperties
<1>. HIDE DEF f
<1>6. /\ stream' \in [Graph!Nodes -> Seq(Mbufs)] /\ stream'["CLASSIFY"] = f
      /\ \A k \in Graph!Nodes \ {"CLASSIFY"} : stream'[k] = stream[k]
      /\ pending' \in Seq(Graph!Nodes)
  <2>1. CASE n = 0
    <3>1. f = <<>>
      BY <1>5, <2>1, EmptySeq
    <3> QED  BY <1>0, <1>2, <1>4, <2>1, <3>1 DEF GraphTypes
  <2>2. CASE n # 0
    <3>1. /\ stream' = [stream EXCEPT !["CLASSIFY"] = stream["CLASSIFY"] \o f]
          /\ pending' = pending \o Graph!Pends("RX", 1, stream)
      BY <1>2, <1>3, <2>2, RxData DEF Graph!Pushed, f
    <3>2. stream["CLASSIFY"] \o f = f
      BY <1>4, <1>5, ConcatEmptySeq
    <3>3. Graph!Pends("RX", 1, stream) \in Seq(Graph!Nodes)
      BY <1>3, RxData DEF Graph!Pends
    <3>4. pending' \in Seq(Graph!Nodes)
      BY <1>0, <3>1, <3>3, ConcatProperties DEF GraphTypes
    <3> QED  BY <1>0, <1>4, <1>5, <3>1, <3>2, <3>4
  <2> QED  BY <2>1, <2>2
<1>7. GraphTypes' /\ Walked'
  BY <1>0, <1>1, <1>5, <1>6, SameGraph DEF GraphTypes, Walked
<1>8. OneBurst'
  <2>1. Len(<<>>) = 0
    BY EmptySeq
  <2> QED  BY <1>0, <1>1, <1>3, <1>4, <1>5, <1>6, <2>1, GraphConstants DEF OneBurst
<1>9. GraphHeld(stream', ip4', ip6', rxq', pool')
  <2>. DEFINE H == GraphShelves(stream, ip4, ip6, rxq)
              G == GraphShelves(stream', ip4, ip6, rxq')
              c == "rxq"
              d == "CLASSIFY"
  <2>1. ShelvesAre(H, stream, ip4, ip6, rxq) /\ ShelvesAre(G, stream', ip4, ip6, rxq')
    BY <1>0, <1>5, <1>6, ShelfValues DEF GraphTypes
  <2>2. Facts!Kept(GraphPlaces, Mbufs, H, pool) /\ pool \in SUBSET Mbufs
    BY <1>0 DEF GraphInv, GraphHeld, GraphTypes
  <2>. HIDE DEF H, G
  <2>3. c \in GraphPlaces /\ d \in GraphPlaces /\ c # d /\ H[c] = rxq /\ H[d] = <<>>
    BY <1>0, <1>4, <2>1, ShelfNames DEF ShelvesAre
  <2>4. H[d] \o SubSeq(H[c], 1, n) = f
    BY <1>5, <2>3, ConcatEmptySeq DEF f
  <2>5. G[c] = SubSeq(H[c], n + 1, Len(H[c])) /\ G[d] = H[d] \o SubSeq(H[c], 1, n)
    BY <1>2, <1>4, <1>6, <2>1, <2>3, <2>4 DEF ShelvesAre
  <2>6. \A a \in GraphPlaces \ {c, d} : G[a] = H[a]
    BY <1>0, <1>6, <2>1, ShelfNames DEF ShelvesAre
  <2>7. H \in [GraphPlaces -> Seq(Mbufs)] /\ n \in 0..Len(H[c])
    BY <1>3, <2>1, <2>3 DEF ShelvesAre
  <2>. HIDE DEF c, d
  <2>8. GraphHeld(stream', ip4, ip6, rxq', pool)
    BY <1>0, <1>5, <1>6, <2>2, <2>3, <2>5, <2>6, <2>7, HeldMove DEF G, GraphTypes
  <2> QED  BY <1>1, <2>8
<1> QED
  BY <1>1, <1>7, <1>8, <1>9, SameGraph DEF GraphInv

LEMMA GraphPrint ==
    ASSUME NEW n \in Graph!Nodes
    PROVE  GraphInv /\ (Graph!PrintNode(n) \/ (n = "worker" /\ Graph!Worker)) => GraphInv'
<1>. SUFFICES ASSUME GraphInv, Graph!PrintNode(n) \/ (n = "worker" /\ Graph!Worker) PROVE GraphInv'
  OBVIOUS
<1>0. GraphTypes /\ Walked /\ OneBurst
  BY DEF GraphInv
<1>1. /\ Graph!Runs(n) /\ n \in {"PRINT_IPV4", "PRINT_IPV6", "worker"}
      /\ stream' = [stream EXCEPT ![n] = <<>>] /\ pending' = Tail(pending) /\ todo' = todo
      /\ pool' = pool \cup Graph!SeqSet(stream[n])
      /\ UNCHANGED <<graph, graph_pc, nodes, rxq, type, ip4, ip6, total_prints>>
  BY DEF Graph!PrintNode, Graph!Worker, Graph!Ran, Graph!nic, Graph!local
<1>2. pending' \in Seq(Graph!Nodes) /\ graph_pc = "walk" /\ todo = {}
  BY <1>0, <1>1, RunsIn
<1>3. /\ stream' \in [Graph!Nodes -> Seq(Mbufs)] /\ pool' \subseteq Mbufs
      /\ GraphHeld(stream', ip4', ip6', rxq', pool')
  BY <1>0, <1>1, HeldClear DEF GraphInv
<1>4. GraphTypes' /\ Walked'
  BY <1>0, <1>1, <1>2, <1>3, SameGraph DEF GraphTypes, Walked
<1>5. OneBurst'
  <2>1. "CLASSIFY" \in Graph!Nodes => stream'["CLASSIFY"] = stream["CLASSIFY"]
    BY <1>0, <1>1 DEF GraphTypes
  <2> QED  BY <1>0, <1>1, <1>2, <2>1, RxData DEF OneBurst
<1> QED
  BY <1>1, <1>3, <1>4, <1>5, SameGraph DEF GraphInv

LEMMA GraphSource == ASSUME NEW n PROVE GraphInv /\ Graph!Start(n) => GraphInv'
<1>. SUFFICES ASSUME GraphInv, Graph!Start(n) PROVE GraphInv'
  OBVIOUS
<1>0. GraphTypes /\ Walked /\ OneBurst
  BY DEF GraphInv
<1>1. /\ n \in {"start1", "start2"} /\ n \in todo /\ todo' = todo \ {n} /\ graph_pc = "walk"
      /\ UNCHANGED <<graph, graph_pc, nodes, rxq, type, ip4, ip6>>
  BY DEF Graph!Start, Graph!nic, Graph!local
<1>2. graph = "sources"
  BY <1>0, <1>1, RxData, DemoData DEF GraphTypes, Graph!Programs
<1>3. CASE UNCHANGED <<stream, pending, pool, total_prints>>
  <2>1. GraphTypes' /\ Walked'
    BY <1>0, <1>1, <1>3, SameGraph DEF GraphTypes, Walked
  <2> QED  BY <1>1, <1>2, <1>3, <2>1, GraphStays
<1>4. CASE ~(Graph!LimitReached \/ pool = {})
  <2>1. PICK m \in pool : /\ pool' = pool \ {m}
                          /\ stream' = Graph!Pushed(n, 1, <<m>>, stream)
                          /\ pending' = pending \o Graph!Pends(n, 1, stream)
                          /\ total_prints' = total_prints + 1
    BY <1>4 DEF Graph!Start
  <2>2. total_prints' \in 0..Limit
    BY <1>0, <1>4, <2>1, GraphConstants DEF GraphTypes, Graph!LimitReached
  <2>3. /\ stream["worker"] \in Seq(Mbufs) /\ m \in Mbufs /\ "worker" \in Graph!Nodes
        /\ stream' = [stream EXCEPT !["worker"] = stream["worker"] \o <<m>>]
    BY <1>0, <1>1, <1>2, <2>1, SourcesData DEF GraphTypes, Graph!Pushed
  <2>4. stream["worker"] \o <<m>> = Append(stream["worker"], m) /\ Append(stream["worker"], m) \in Seq(Mbufs)
    BY <2>3, AppendIsConcat, AppendProperties
  <2>5. /\ stream' \in [Graph!Nodes -> Seq(Mbufs)] /\ stream'["worker"] = Append(stream["worker"], m)
        /\ \A k \in Graph!Nodes \ {"worker"} : stream'[k] = stream[k]
    BY <1>0, <2>3, <2>4 DEF GraphTypes
  <2>6. pending' \in Seq(Graph!Nodes)
    <3>1. Graph!Pends(n, 1, stream) \in Seq(Graph!Nodes)
      BY <1>1, <1>2, SourcesData DEF Graph!Pends
    <3> QED  BY <1>0, <2>1, <3>1, ConcatProperties DEF GraphTypes
  <2>7. GraphTypes' /\ Walked' /\ OneBurst'
    BY <1>0, <1>1, <1>2, <2>1, <2>2, <2>5, <2>6, SameGraph DEF GraphTypes, Walked, OneBurst
  <2>8. GraphHeld(stream', ip4, ip6, rxq, pool \ {m})
    <3>. DEFINE H == GraphShelves(stream, ip4, ip6, rxq)
                G == GraphShelves(stream', ip4, ip6, rxq)
                c == "worker"
    <3>1. ShelvesAre(H, stream, ip4, ip6, rxq) /\ ShelvesAre(G, stream', ip4, ip6, rxq)
      BY <1>0, <2>5, ShelfValues DEF GraphTypes
    <3>2. Facts!Kept(GraphPlaces, Mbufs, H, pool) /\ pool \in SUBSET Mbufs
      BY <1>0 DEF GraphInv, GraphHeld, GraphTypes
    <3>. HIDE DEF H, G
    <3>3. c \in GraphPlaces /\ G[c] = Append(H[c], m) /\ \A a \in GraphPlaces \ {c} : G[a] = H[a]
      BY <1>0, <2>3, <2>5, <3>1, ShelfNames DEF ShelvesAre
    <3>4. H \in [GraphPlaces -> Seq(Mbufs)]
      BY <3>1 DEF ShelvesAre
    <3>. HIDE DEF c
    <3> QED  BY <1>0, <2>1, <2>5, <3>2, <3>3, <3>4, HeldAppend DEF G, GraphTypes
  <2> QED  BY <1>1, <2>1, <2>7, <2>8, SameGraph DEF GraphInv
<1> QED
  BY <1>3, <1>4 DEF Graph!Start

\* One packet leaves the stream of the classifier: to an array, or to the pool.
LEMMA GraphClassifyOne == GraphInv /\ Graph!ClassifyOne => GraphInv'
<1>. SUFFICES ASSUME GraphInv, Graph!ClassifyOne PROVE GraphInv'
  OBVIOUS
<1>. DEFINE m == Head(stream["CLASSIFY"])
            rest == Tail(stream["CLASSIFY"])
            str == [stream EXCEPT !["CLASSIFY"] = rest]
<1>0. GraphTypes /\ Walked /\ OneBurst /\ GraphHeld(stream, ip4, ip6, rxq, pool)
  BY DEF GraphInv
<1>1. /\ Graph!Runs("CLASSIFY") /\ stream["CLASSIFY"] # <<>> /\ stream' = str
      /\ ip4' = IF type[m] = "ip4" THEN Append(ip4, m) ELSE ip4
      /\ ip6' = IF type[m] = "ip6" THEN Append(ip6, m) ELSE ip6
      /\ pool' = IF type[m] = "other" THEN pool \cup {m} ELSE pool
      /\ UNCHANGED <<graph, graph_pc, nodes, todo, pending, rxq, type, total_prints>>
  BY DEF Graph!ClassifyOne, Graph!nic
<1>2. graph = "rx" /\ graph_pc = "walk" /\ todo = {} /\ "CLASSIFY" \in Graph!Nodes
  BY <1>0, <1>1, RunsIn
<1>3. /\ m \in Mbufs /\ rest \in Seq(Mbufs) /\ Len(rest) = Len(stream["CLASSIFY"]) - 1
      /\ Len(stream["CLASSIFY"]) \in Nat \ {0} /\ type[m] \in {"ip4", "ip6", "other"}
  <2>1. stream["CLASSIFY"] \in Seq(Mbufs)
    BY <1>0, <1>2 DEF GraphTypes
  <2>2. m \in Mbufs /\ rest \in Seq(Mbufs) /\ Len(rest) = Len(stream["CLASSIFY"]) - 1
    BY <1>1, <2>1, HeadTailProperties
  <2>3. Len(stream["CLASSIFY"]) \in Nat \ {0}
    BY <1>1, <2>1, LenProperties, EmptySeq
  <2> QED  BY <1>0, <2>2, <2>3 DEF GraphTypes, Graph!Types
<1>4. /\ str \in [Graph!Nodes -> Seq(Mbufs)] /\ str["CLASSIFY"] = rest
      /\ \A k \in Graph!Nodes \ {"CLASSIFY"} : str[k] = stream[k]
  BY <1>0, <1>2, <1>3 DEF GraphTypes
<1>5. /\ Append(ip4, m) \in Seq(Mbufs) /\ Len(Append(ip4, m)) = Len(ip4) + 1 /\ Len(ip4) \in Nat
      /\ Append(ip6, m) \in Seq(Mbufs) /\ Len(Append(ip6, m)) = Len(ip6) + 1 /\ Len(ip6) \in Nat
  BY <1>0, <1>3, AppendProperties, LenProperties DEF GraphTypes
<1>. DEFINE H == GraphShelves(stream, ip4, ip6, rxq)
            G == GraphShelves(str, ip4, ip6, rxq)
            c == "CLASSIFY"
<1>6. ShelvesAre(H, stream, ip4, ip6, rxq) /\ ShelvesAre(G, str, ip4, ip6, rxq)
  BY <1>0, <1>4, ShelfValues DEF GraphTypes
<1>7. Facts!Kept(GraphPlaces, Mbufs, H, pool) /\ pool \in SUBSET Mbufs
  BY <1>0 DEF GraphHeld, GraphTypes
<1>. HIDE DEF H, G, str
<1>8. /\ H \in [GraphPlaces -> Seq(Mbufs)] /\ G \in [GraphPlaces -> Seq(Mbufs)] /\ c \in GraphPlaces
      /\ H[c] = stream["CLASSIFY"] /\ G[c] = rest /\ \A a \in GraphPlaces \ {c} : G[a] = H[a]
  BY <1>0, <1>2, <1>4, <1>6, ShelfNames DEF ShelvesAre
\* ... as if by way of the pool.
<1>9. Facts!Kept(GraphPlaces, Mbufs, G, pool \cup {m})
  <2>1. H[c] # <<>> /\ G[c] = Tail(H[c]) /\ m = Head(H[c])
    BY <1>1, <1>8
  <2>. HIDE DEF c, m, rest
  <2> QED  BY <1>7, <1>8, <2>1, Facts!KeptHead
<1>10. m \notin pool
  <2>1. 1 \in 1..Len(H[c]) /\ H[c][1] = m
    BY <1>3, <1>8
  <2> QED  BY <1>7, <1>8, <2>1 DEF Facts!Kept
<1>11. (pool \cup {m}) \ {m} = pool /\ pool \cup {m} \in SUBSET Mbufs
  BY <1>3, <1>7, <1>10
<1>. HIDE DEF c, m, rest
<1>15. /\ graph' = "rx" /\ graph_pc' = "walk" /\ todo' = {} /\ stream'["CLASSIFY"] = rest
       /\ Len(stream["CLASSIFY"]) + Len(ip4) + Len(ip6) <= Burst
  BY <1>0, <1>1, <1>2, <1>4 DEF OneBurst
<1>12. CASE type[m] = "other"
  <2>1. ip4' = ip4 /\ ip6' = ip6 /\ pool' = pool \cup {m}
    BY <1>1, <1>12
  <2>2. GraphHeld(stream', ip4', ip6', rxq', pool')
    BY <1>1, <1>9, <2>1 DEF GraphHeld, G
  <2>3. GraphTypes' /\ Walked'
    BY <1>0, <1>1, <1>4, <1>11, <2>1, SameGraph DEF GraphTypes, Walked
  <2>4. OneBurst'
    <3>1. Len(stream'["CLASSIFY"]) + Len(ip4') + Len(ip6') <= Burst
      BY <1>3, <1>5, <1>15, <2>1, GraphConstants
    <3> QED  BY <1>15, <3>1 DEF OneBurst
  <2> QED  BY <1>1, <2>2, <2>3, <2>4, SameGraph DEF GraphInv
<1>13. CASE type[m] = "ip4"
  <2>1. ip4' = Append(ip4, m) /\ ip6' = ip6 /\ pool' = pool
    BY <1>1, <1>13
  <2>. DEFINE F == GraphShelves(str, ip4', ip6, rxq)
              d == "ip4"
  <2>2. ShelvesAre(F, str, ip4', ip6, rxq)
    BY <1>0, <1>4, <1>5, <2>1, ShelfValues DEF GraphTypes
  <2>. HIDE DEF F
  <2>3. d \in GraphPlaces /\ F[d] = Append(G[d], m) /\ \A a \in GraphPlaces \ {d} : F[a] = G[a]
    BY <1>0, <1>6, <2>1, <2>2, ShelfNames DEF ShelvesAre
  <2>. HIDE DEF d
  <2>4. GraphHeld(str, ip4', ip6, rxq, (pool \cup {m}) \ {m})
    <3>1. ip4' \in Seq(Mbufs) /\ ip6 \in Seq(Mbufs) /\ rxq \in Seq(Mbufs) /\ m \in pool \cup {m}
      BY <1>0, <1>5, <2>1 DEF GraphTypes
    <3> QED  BY <1>0, <1>4, <1>8, <1>9, <1>11, <2>3, <3>1, HeldAppend DEF F
  <2>5. GraphHeld(stream', ip4', ip6', rxq', pool')
    BY <1>1, <1>11, <2>1, <2>4
  <2>6. GraphTypes' /\ Walked'
    BY <1>0, <1>1, <1>4, <1>5, <2>1, SameGraph DEF GraphTypes, Walked
  <2>7. OneBurst'
    <3>1. Len(stream'["CLASSIFY"]) + Len(ip4') + Len(ip6') <= Burst
      BY <1>3, <1>5, <1>15, <2>1, GraphConstants
    <3> QED  BY <1>15, <3>1 DEF OneBurst
  <2> QED  BY <1>1, <2>5, <2>6, <2>7, SameGraph DEF GraphInv
<1>14. CASE type[m] = "ip6"
  <2>1. ip4' = ip4 /\ ip6' = Append(ip6, m) /\ pool' = pool
    BY <1>1, <1>14
  <2>. DEFINE F == GraphShelves(str, ip4, ip6', rxq)
              d == "ip6"
  <2>2. ShelvesAre(F, str, ip4, ip6', rxq)
    BY <1>0, <1>4, <1>5, <2>1, ShelfValues DEF GraphTypes
  <2>. HIDE DEF F
  <2>3. d \in GraphPlaces /\ F[d] = Append(G[d], m) /\ \A a \in GraphPlaces \ {d} : F[a] = G[a]
    BY <1>0, <1>6, <2>1, <2>2, ShelfNames DEF ShelvesAre
  <2>. HIDE DEF d
  <2>4. GraphHeld(str, ip4, ip6', rxq, (pool \cup {m}) \ {m})
    <3>1. ip6' \in Seq(Mbufs) /\ ip4 \in Seq(Mbufs) /\ rxq \in Seq(Mbufs) /\ m \in pool \cup {m}
      BY <1>0, <1>5, <2>1 DEF GraphTypes
    <3> QED  BY <1>0, <1>4, <1>8, <1>9, <1>11, <2>3, <3>1, HeldAppend DEF F
  <2>5. GraphHeld(stream', ip4', ip6', rxq', pool')
    BY <1>1, <1>11, <2>1, <2>4
  <2>6. GraphTypes' /\ Walked'
    BY <1>0, <1>1, <1>4, <1>5, <2>1, SameGraph DEF GraphTypes, Walked
  <2>7. OneBurst'
    <3>1. Len(stream'["CLASSIFY"]) + Len(ip4') + Len(ip6') <= Burst
      BY <1>3, <1>5, <1>15, <2>1, GraphConstants
    <3> QED  BY <1>15, <3>1 DEF OneBurst
  <2> QED  BY <1>1, <2>5, <2>6, <2>7, SameGraph DEF GraphInv
<1> QED
  BY <1>3, <1>12, <1>13, <1>14

\* The arrays go to the streams of the printers.
LEMMA GraphClassifyEnqueue == GraphInv /\ Graph!ClassifyEnqueue => GraphInv'
<1>. SUFFICES ASSUME GraphInv, Graph!ClassifyEnqueue PROVE GraphInv'
  OBVIOUS
<1>0. /\ GraphTypes /\ Walked /\ OneBurst /\ GraphHeld(stream, ip4, ip6, rxq, pool)
      /\ ip4 \in Seq(Mbufs) /\ ip6 \in Seq(Mbufs) /\ rxq \in Seq(Mbufs) /\ pool \in SUBSET Mbufs
  BY DEF GraphInv, GraphTypes
<1>. DEFINE str == [stream EXCEPT !["PRINT_IPV4"] = stream["PRINT_IPV4"] \o ip4]
            fin == [str EXCEPT !["PRINT_IPV6"] = str["PRINT_IPV6"] \o ip6]
<1>1. Graph!Runs("CLASSIFY") /\ stream["CLASSIFY"] = <<>>
  BY DEF Graph!ClassifyEnqueue
<1>2. graph = "rx" /\ graph_pc = "walk" /\ todo = {} /\ Tail(pending) \in Seq(Graph!Nodes)
  BY <1>0, <1>1, RunsIn
<1>3. /\ stream' = fin /\ ip4' = <<>> /\ ip6' = <<>>
      /\ pending' = Tail(pending)
                \o (IF ip4 # <<>> THEN Graph!Pends("CLASSIFY", 1, stream) ELSE <<>>)
                \o (IF ip6 # <<>> THEN Graph!Pends("CLASSIFY", 2, str) ELSE <<>>)
      /\ UNCHANGED <<graph, graph_pc, nodes, todo, pool, rxq, type, total_prints>>
  BY <1>2, RxData DEF Graph!ClassifyEnqueue, Graph!Pushed, Graph!nic
<1>4. pending' \in Seq(Graph!Nodes)
  <2>1. Graph!Pends("CLASSIFY", 1, stream) \in Seq(Graph!Nodes)
    BY <1>2, RxData DEF Graph!Pends
  <2>2. Graph!Pends("CLASSIFY", 2, str) \in Seq(Graph!Nodes)
    BY <1>2, RxData DEF Graph!Pends
  <2>. DEFINE p == IF ip4 # <<>> THEN Graph!Pends("CLASSIFY", 1, stream) ELSE <<>>
              q == IF ip6 # <<>> THEN Graph!Pends("CLASSIFY", 2, str) ELSE <<>>
  <2>3. p \in Seq(Graph!Nodes) /\ q \in Seq(Graph!Nodes) /\ pending' = Tail(pending) \o p \o q
    BY <1>3, <2>1, <2>2, EmptySeq
  <2>. HIDE DEF p, q
  <2>4. Tail(pending) \o p \in Seq(Graph!Nodes)
    BY <1>2, <2>3, ConcatProperties
  <2> QED  BY <2>3, <2>4, ConcatProperties
<1>5. /\ str \in [Graph!Nodes -> Seq(Mbufs)] /\ str["PRINT_IPV4"] = stream["PRINT_IPV4"] \o ip4
      /\ \A k \in Graph!Nodes \ {"PRINT_IPV4"} : str[k] = stream[k]
  <2>1. stream["PRINT_IPV4"] \o ip4 \in Seq(Mbufs)
    BY <1>0, <1>2, RxData, ConcatProperties DEF GraphTypes
  <2> QED  BY <1>0, <1>2, <2>1, RxData DEF GraphTypes
<1>. HIDE DEF str
<1>6. /\ fin \in [Graph!Nodes -> Seq(Mbufs)] /\ fin["PRINT_IPV6"] = str["PRINT_IPV6"] \o ip6
      /\ \A k \in Graph!Nodes \ {"PRINT_IPV6"} : fin[k] = str[k]
  <2>1. str["PRINT_IPV6"] \o ip6 \in Seq(Mbufs)
    BY <1>0, <1>2, <1>5, RxData, ConcatProperties
  <2> QED  BY <1>2, <1>5, <2>1, RxData
<1>. HIDE DEF fin
<1>7. /\ "CLASSIFY" \in Graph!Nodes /\ "PRINT_IPV4" \in Graph!Nodes /\ "PRINT_IPV6" \in Graph!Nodes
      /\ <<>> \in Seq(Mbufs) /\ Len(<<>>) = 0
  BY <1>2, RxData, EmptySeq
<1>8. GraphTypes' /\ Walked' /\ OneBurst'
  <2>1. stream'["CLASSIFY"] = <<>>
    BY <1>1, <1>3, <1>5, <1>6, <1>7
  <2> QED
    <3>1. GraphTypes' /\ Walked'
      BY <1>0, <1>2, <1>3, <1>4, <1>6, <1>7, SameGraph DEF GraphTypes, Walked
    <3>2. OneBurst'
      BY <1>2, <1>3, <1>7, <2>1, GraphConstants DEF OneBurst
    <3> QED  BY <3>1, <3>2
<1>. DEFINE H == GraphShelves(stream, ip4, ip6, rxq)
            F == GraphShelves(str, <<>>, ip6, rxq)
            G == GraphShelves(fin, <<>>, <<>>, rxq)
<1>9. ShelvesAre(H, stream, ip4, ip6, rxq) /\ ShelvesAre(F, str, <<>>, ip6, rxq) /\ ShelvesAre(G, fin, <<>>, <<>>, rxq)
  BY <1>0, <1>5, <1>6, <1>7, ShelfValues DEF GraphTypes
<1>10. GraphHeld(str, <<>>, ip6, rxq, pool)
  <2>. DEFINE c == "ip4"
              d == "PRINT_IPV4"
  <2>1. Facts!Kept(GraphPlaces, Mbufs, H, pool)
    BY <1>0 DEF GraphHeld
  <2>. HIDE DEF H, F
  <2>2. c \in GraphPlaces /\ d \in GraphPlaces /\ c # d /\ H[c] = ip4 /\ F[c] = <<>> /\ F[d] = H[d] \o ip4
    BY <1>0, <1>5, <1>7, <1>9, ShelfNames DEF ShelvesAre
  <2>3. \A a \in GraphPlaces \ {c, d} : F[a] = H[a]
    BY <1>0, <1>5, <1>9, ShelfNames DEF ShelvesAre
  <2>4. /\ H \in [GraphPlaces -> Seq(Mbufs)] /\ Len(H[c]) \in 0..Len(H[c])
        /\ F[c] = SubSeq(H[c], Len(H[c]) + 1, Len(H[c])) /\ F[d] = H[d] \o SubSeq(H[c], 1, Len(H[c]))
    BY <1>0, <1>9, <2>2, WholeCut DEF ShelvesAre
  <2>. HIDE DEF c, d
  <2> QED  BY <1>0, <1>5, <1>7, <2>1, <2>2, <2>3, <2>4, HeldMove DEF F
<1>11. GraphHeld(fin, <<>>, <<>>, rxq, pool)
  <2>. DEFINE c == "ip6"
              d == "PRINT_IPV6"
  <2>1. Facts!Kept(GraphPlaces, Mbufs, F, pool)
    BY <1>10 DEF GraphHeld
  <2>. HIDE DEF F, G
  <2>2. c \in GraphPlaces /\ d \in GraphPlaces /\ c # d /\ F[c] = ip6 /\ G[c] = <<>> /\ G[d] = F[d] \o ip6
    BY <1>0, <1>6, <1>7, <1>9, ShelfNames DEF ShelvesAre
  <2>3. \A a \in GraphPlaces \ {c, d} : G[a] = F[a]
    BY <1>0, <1>6, <1>9, ShelfNames DEF ShelvesAre
  <2>4. /\ F \in [GraphPlaces -> Seq(Mbufs)] /\ Len(F[c]) \in 0..Len(F[c])
        /\ G[c] = SubSeq(F[c], Len(F[c]) + 1, Len(F[c])) /\ G[d] = F[d] \o SubSeq(F[c], 1, Len(F[c]))
    BY <1>0, <1>9, <2>2, WholeCut DEF ShelvesAre
  <2>. HIDE DEF c, d
  <2> QED  BY <1>0, <1>6, <1>7, <2>1, <2>2, <2>3, <2>4, HeldMove DEF G
<1> QED
  BY <1>3, <1>8, <1>11, SameGraph DEF GraphInv

LEMMA GraphStep == GraphInv /\ [Graph!Next]_graph_vars => GraphInv'
<1>. SUFFICES ASSUME GraphInv, [Graph!Next]_graph_vars PROVE GraphInv'
  OBVIOUS
<1>1. CASE UNCHANGED graph_vars
  <2>1. UNCHANGED <<graph, graph_pc, nodes, todo, stream, pending, pool, rxq, type, ip4, ip6, total_prints>>
    BY <1>1 DEF graph_vars
  <2>2. GraphTypes' /\ Walked'
    BY <2>1, SameGraph DEF GraphInv, GraphTypes, Walked
  <2> QED  BY <2>1, <2>2, GraphStays
<1>2. CASE Graph!Main
  <2>1. ASSUME NEW n \in Graph!Nodes, Graph!PrintNode(n) \/ Graph!Start(n) PROVE GraphInv'
    BY <2>1, GraphPrint, GraphSource
  <2>2. CASE Graph!Worker
    <3>1. "worker" \in Graph!Nodes
      BY <2>2, RunsIn DEF Graph!Worker, GraphInv
    <3> QED  BY <2>2, <3>1, GraphPrint
  <2> QED
    BY <1>2, <2>1, <2>2, GraphMains, GraphRx, GraphClassifyOne, GraphClassifyEnqueue DEF Graph!Main
<1>3. ASSUME NEW t \in Graph!Types, Graph!NicReceive(t) PROVE GraphInv'
  BY <1>3, GraphReceive
<1> QED
  BY <1>1, <1>2, <1>3 DEF Graph!Next

\* A shelf holds no more than there is.
LEMMA KeptLength ==
    ASSUME NEW I, NEW M, NEW H \in [I -> Seq(M)], NEW P, NEW a \in I, Facts!Kept(I, M, H, P), IsFiniteSet(M)
    PROVE  Len(H[a]) <= Cardinality(M)
<1>1. Len(H[a]) \in Nat /\ \A i \in 1..Len(H[a]) : H[a][i] \in M
  BY LenProperties, ElementOfSeq
<1>. DEFINE f == [i \in 1..Len(H[a]) |-> H[a][i]]
<1>2. f \in Injection(1..Len(H[a]), M)
  BY <1>1 DEF Facts!Kept, Injection, IsInjective
<1>3. IsFiniteSet(1..Len(H[a])) /\ Cardinality(1..Len(H[a])) = Len(H[a])
  BY <1>1, FS_Interval
<1>4. Cardinality(1..Len(H[a])) <= Cardinality(M)
  BY <1>2, FS_Injection
<1> QED
  BY <1>3, <1>4

LEMMA SameCount == ASSUME NEW S PROVE Graph!Cardinality(S) = Cardinality(S)
BY Zenon DEF Graph!Cardinality, Cardinality

\* A buffer that is in one place of the program is counted once.
LEMMA OnePlace == ASSUME GraphInv, NEW m \in Mbufs PROVE Graph!Places(m) = 1
<1>. DEFINE A == {n \in Graph!Nodes : m \in Graph!SeqSet(stream[n])}
            B == {s \in {<<1, ip4>>, <<2, ip6>>, <<3, rxq>>} : m \in Graph!SeqSet(s[2])}
            H == GraphShelves(stream, ip4, ip6, rxq)
            On(a) == \E i \in 1..Len(H[a]) : H[a][i] = m
<1>1. GraphTypes /\ Facts!Kept(GraphPlaces, Mbufs, H, pool) /\ ShelvesAre(H, stream, ip4, ip6, rxq)
  BY ShelfValues DEF GraphInv, GraphHeld, GraphTypes
<1>. HIDE DEF H
<1>2. \A a, b \in GraphPlaces : On(a) /\ On(b) => a = b
  BY <1>1 DEF Facts!Kept
<1>3. \A a \in GraphPlaces : On(a) => m \notin pool
  BY <1>1 DEF Facts!Kept
<1>4. m \in pool \/ \E a \in GraphPlaces : On(a)
  BY <1>1 DEF Facts!Kept
<1>5. ASSUME NEW s \in Seq(Mbufs) PROVE m \in Graph!SeqSet(s) <=> \E i \in 1..Len(s) : s[i] = m
  BY LenProperties DEF Graph!SeqSet
<1>6. /\ \A n \in Graph!Nodes : n \in A <=> On(n)
      /\ <<1, ip4>> \in B <=> On("ip4")
      /\ <<2, ip6>> \in B <=> On("ip6")
      /\ <<3, rxq>> \in B <=> On("rxq")
  <2>1. \A n \in Graph!Nodes : n \in A <=> On(n)
    BY <1>1, <1>5 DEF ShelvesAre, GraphTypes
  <2>2. /\ <<1, ip4>> \in B <=> On("ip4")
        /\ <<2, ip6>> \in B <=> On("ip6")
        /\ <<3, rxq>> \in B <=> On("rxq")
    BY <1>1, <1>5 DEF ShelvesAre, GraphTypes
  <2> QED  BY <2>1, <2>2
<1>7. A \subseteq Graph!Nodes /\ B \subseteq {<<1, ip4>>, <<2, ip6>>, <<3, rxq>>}
  OBVIOUS
<1>8. Graph!Places(m) = Cardinality(A) + Cardinality(B) + (IF m \in pool THEN 1 ELSE 0)
  BY SameCount DEF Graph!Places
<1>. HIDE DEF A, B, On
<1>9. Cardinality({}) = 0 /\ \A x : Cardinality({x}) = 1
  BY FS_EmptySet, FS_Singleton
<1>10. CASE m \in pool
  <2>1. A = {} /\ B = {}
    BY <1>1, <1>3, <1>6, <1>7, <1>10, ShelfNames
  <2> QED  BY <1>8, <1>9, <1>10, <2>1
<1>11. ASSUME NEW a \in Graph!Nodes, On(a) PROVE Graph!Places(m) = 1
  <2>1. a \in GraphPlaces /\ m \notin pool
    BY <1>1, <1>3, <1>11, ShelfNames
  <2>2. A = {a} /\ B = {}
    BY <1>1, <1>2, <1>6, <1>7, <1>11, <2>1, ShelfNames
  <2>3. Cardinality(A) = 1 /\ Cardinality(B) = 0
    BY <1>9, <2>2
  <2> QED  BY <1>8, <2>1, <2>3
<1>12. ASSUME NEW a \in {"ip4", "ip6", "rxq"}, On(a) PROVE Graph!Places(m) = 1
  <2>1. a \in GraphPlaces /\ m \notin pool
    BY <1>1, <1>3, <1>12, ShelfNames
  <2>2. A = {}
    BY <1>1, <1>2, <1>6, <1>7, <1>12, <2>1, ShelfNames
  <2>3. \A b \in {"ip4", "ip6", "rxq"} : On(b) => b = a
    BY <1>1, <1>2, <1>12, <2>1, ShelfNames
  <2>4. PICK x : B = {x}
    <3>1. CASE a = "ip4"
      <4>1. B = {<<1, ip4>>}
        BY <1>6, <1>7, <1>12, <2>3, <3>1
      <4> QED  BY <4>1
    <3>2. CASE a = "ip6"
      <4>1. B = {<<2, ip6>>}
        BY <1>6, <1>7, <1>12, <2>3, <3>2
      <4> QED  BY <4>1
    <3>3. CASE a = "rxq"
      <4>1. B = {<<3, rxq>>}
        BY <1>6, <1>7, <1>12, <2>3, <3>3
      <4> QED  BY <4>1
    <3> QED  BY <3>1, <3>2, <3>3
  <2>5. Cardinality(A) = 0 /\ Cardinality(B) = 1
    BY <1>9, <2>2, <2>4
  <2> QED  BY <1>8, <2>1, <2>5
<1> QED
  BY <1>1, <1>4, <1>10, <1>11, <1>12, ShelfNames

\* Whichever nodes a walk takes it to, a buffer is in one place, so that none is
\* leaked or freed twice (rx.c:77-93, 138, 176, multiple_src_node.c:102), and the
\* classifier's arrays hold a burst.
THEOREM GraphCustody == Spec => []Custody
<1>1. ASSUME GraphInv PROVE Custody
  <2>0. GraphTypes /\ Walked /\ OneBurst
    BY <1>1 DEF GraphInv
  <2>. DEFINE H == GraphShelves(stream, ip4, ip6, rxq)
  <2>1. Facts!Kept(GraphPlaces, Mbufs, H, pool) /\ ShelvesAre(H, stream, ip4, ip6, rxq)
    BY <1>1, <2>0, ShelfValues DEF GraphInv, GraphHeld, GraphTypes
  <2>. HIDE DEF H
  <2>2. \A a \in GraphPlaces : Len(H[a]) <= Cardinality(Mbufs)
    BY <2>1, KeptLength, GraphConstants DEF ShelvesAre
  <2>3. /\ \A n \in Graph!Nodes : Graph!Objs(stream[n], Graph!Cardinality(Mbufs))
        /\ Graph!Objs(rxq, Graph!Cardinality(Mbufs))
    BY <2>0, <2>1, <2>2, ShelfNames, SameCount DEF Graph!Objs, ShelvesAre, GraphTypes
  <2>4. Graph!Objs(ip4, Burst) /\ Graph!Objs(ip6, Burst)
    <3>1. /\ ip4 \in Seq(Mbufs) /\ ip6 \in Seq(Mbufs) /\ Len(ip4) \in Nat /\ Len(ip6) \in Nat /\ Len(<<>>) = 0
          /\ graph = "rx" => Len(stream["CLASSIFY"]) \in Nat
      BY <2>0, LenProperties, EmptySeq, RxData DEF GraphTypes
    <3>2. Len(ip4) <= Burst /\ Len(ip6) <= Burst
      BY <2>0, <3>1, GraphConstants DEF OneBurst
    <3> QED  BY <3>1, <3>2 DEF Graph!Objs
  <2>5. Graph!SeqSet(pending) \subseteq nodes
    <3>1. CASE graph_pc = "walk"
      <4>1. pending \in Seq(nodes)
        BY <2>0, <3>1 DEF GraphTypes, Walked
      <4> QED  BY <4>1, LenProperties, ElementOfSeq DEF Graph!SeqSet
    <3>2. CASE graph_pc # "walk"
      <4>1. pending = <<>>
        BY <2>0, <3>2 DEF Walked
      <4> QED  BY <4>1, EmptySeq, LenProperties DEF Graph!SeqSet
    <3> QED  BY <3>1, <3>2
  <2>6. Graph!TypeOK
    BY <2>0, <2>3, <2>4, <2>5 DEF Graph!TypeOK, GraphTypes
  <2> QED  BY <1>1, <2>6, OnePlace DEF Custody, Graph!Custody
<1> QED
  BY <1>1, Apart, GraphInit, GraphStep, PTL DEF Spec, Init

-----------------------------------------------------------------------------
(* rx_packets: what was taken is sorted, and then printed, in its order.    *)

Pkt(m, t) == [mbuf |-> m, type |-> t]
PktSet == [mbuf : Mbufs, type : Graph!Types]
\* The packets of a stream whose types are known, and of one as they came.
Marked(s, t) == {Pkt(s[k], t) : k \in DOMAIN s}
AsCame(s, ty) == {Pkt(s[k], ty[s[k]]) : k \in DOMAIN s}
Wanted(set) == {p \in set : p.type # "other"}
Came(arr, p, q) == \E i, j \in DOMAIN arr : i < j /\ arr[i] = p /\ arr[j] = q

Burst4 == stream["PRINT_IPV4"]
Burst6 == stream["PRINT_IPV6"]
Unsorted == stream["CLASSIFY"]

\* The nodes run one after the other, and each leaves nothing behind.
Phases ==
    /\ pending \in {<<>>, <<"CLASSIFY">>, <<"PRINT_IPV4">>, <<"PRINT_IPV6">>, <<"PRINT_IPV4", "PRINT_IPV6">>}
    /\ graph_pc \in {"create", "loop"} \/ "RX" \in todo => pending = <<>> /\ arrived = <<>> /\ printed = <<>>
    /\ pending # <<"CLASSIFY">> => Unsorted = <<>> /\ ip4 = <<>> /\ ip6 = <<>>
    /\ pending \notin {<<"PRINT_IPV4">>, <<"PRINT_IPV4", "PRINT_IPV6">>} => Burst4 = <<>>
    /\ pending \notin {<<"PRINT_IPV6">>, <<"PRINT_IPV4", "PRINT_IPV6">>} => Burst6 = <<>>
    /\ pending \notin {<<>>, <<"PRINT_IPV6">>} => printed = <<>>
    /\ pending = <<"PRINT_IPV6">> => \A k \in DOMAIN printed : printed[k].type = "ip4"
\* Every packet of the burst is on its way, or printed, or of no interest.
Accounted ==
    Wanted(Graph!SeqSet(arrived)) =
      Wanted(AsCame(Unsorted, type)) \cup Marked(ip4, "ip4") \cup Marked(ip6, "ip6")
        \cup Marked(Burst4, "ip4") \cup Marked(Burst6, "ip6") \cup Graph!SeqSet(printed)
\* Each stream is in the order of arrival, and what is sorted came before what is not.
InOrderOf(arr, s, t) == \A k, l \in DOMAIN s : k < l => Came(arr, Pkt(s[k], t), Pkt(s[l], t))
Sorted ==
    /\ \A k, l \in DOMAIN Unsorted :
         k < l => Came(arrived, Pkt(Unsorted[k], type[Unsorted[k]]), Pkt(Unsorted[l], type[Unsorted[l]]))
    /\ InOrderOf(arrived, ip4, "ip4") /\ InOrderOf(arrived, ip6, "ip6")
    /\ InOrderOf(arrived, Burst4, "ip4") /\ InOrderOf(arrived, Burst6, "ip6")
    /\ \A p \in Marked(ip4, "ip4") \cup Marked(ip6, "ip6") : \A q \in AsCame(Unsorted, type) : Came(arrived, p, q)
    /\ \A k, l \in DOMAIN printed : k < l =>
         IF printed[k].type = printed[l].type THEN Came(arrived, printed[k], printed[l])
                                              ELSE printed[k].type = "ip4"
RxInv ==
    graph = "rx" => /\ arrived \in Seq(PktSet) /\ printed \in Seq(PktSet)
                    /\ \A i, j \in DOMAIN arrived : arrived[i].mbuf = arrived[j].mbuf => i = j
                    /\ Phases /\ Accounted /\ Sorted

\* Packets put at the end of a sequence or taken from its beginning.
LEMMA MarkAppend ==
    ASSUME NEW S, NEW s \in Seq(S), NEW m \in S, NEW t
    PROVE  Marked(Append(s, m), t) = Marked(s, t) \cup {Pkt(m, t)}
<1>. DEFINE x == Append(s, m)
<1>1. /\ DOMAIN s = 1..Len(s) /\ Len(s) \in Nat /\ DOMAIN x = 1..Len(s) + 1
      /\ \A i \in 1..Len(s) : x[i] = s[i] 
      /\ x[Len(s) + 1] = m
  BY LenProperties, AppendProperties
<1>. HIDE DEF x
<1>2. ASSUME NEW i \in DOMAIN x PROVE Pkt(x[i], t) \in Marked(s, t) \cup {Pkt(m, t)}
  <2>1. CASE i = Len(s) + 1
    BY <1>1, <2>1
  <2>2. CASE i # Len(s) + 1
    BY <1>1, <1>2, <2>2 DEF Marked
  <2> QED  BY <2>1, <2>2
<1>3. ASSUME NEW i \in DOMAIN s PROVE Pkt(s[i], t) \in Marked(x, t)
  BY <1>1, <1>3 DEF Marked
<1>4. Pkt(m, t) \in Marked(x, t)
  BY <1>1 DEF Marked
<1>5. Marked(x, t) = Marked(s, t) \cup {Pkt(m, t)}
  BY <1>2, <1>3, <1>4 DEF Marked
<1> QED
  BY <1>5 DEF x

LEMMA MarkEmpty == ASSUME NEW t PROVE Marked(<<>>, t) = {} /\ AsCame(<<>>, t) = {} /\ Graph!SeqSet(<<>>) = {}
<1>1. DOMAIN <<>> = {}
  BY EmptySeq, LenProperties
<1> QED
  BY <1>1 DEF Marked, AsCame, Graph!SeqSet

LEMMA CameTail ==
    ASSUME NEW S, NEW s \in Seq(S), s # <<>>, NEW ty
    PROVE  /\ AsCame(s, ty) = AsCame(Tail(s), ty) \cup {Pkt(Head(s), ty[Head(s)])}
           /\ DOMAIN Tail(s) = 1..Len(s) - 1 /\ DOMAIN s = 1..Len(s) /\ Len(s) \in Nat \ {0}
           /\ \A k \in 1..Len(s) - 1 : Tail(s)[k] = s[k + 1]
           /\ Head(s) = s[1] 
<1>. DEFINE x == Tail(s)
<1>1. /\ DOMAIN x = 1..Len(s) - 1 /\ DOMAIN s = 1..Len(s) /\ Len(s) \in Nat \ {0}
      /\ \A k \in 1..Len(s) - 1 : x[k] = s[k + 1]
      /\ Head(s) = s[1]
  BY LenProperties, HeadTailProperties, EmptySeq
<1>. HIDE DEF x
<1>2. ASSUME NEW i \in DOMAIN s PROVE Pkt(s[i], ty[s[i]]) \in AsCame(x, ty) \cup {Pkt(Head(s), ty[Head(s)])}
  <2>1. CASE i = 1
    BY <1>1, <2>1
  <2>2. CASE i # 1
    <3>1. i - 1 \in DOMAIN x /\ x[i - 1] = s[i]
      BY <1>1, <1>2, <2>2
    <3> QED  BY <3>1 DEF AsCame
  <2> QED  BY <2>1, <2>2
<1>3. ASSUME NEW i \in DOMAIN x PROVE Pkt(x[i], ty[x[i]]) \in AsCame(s, ty)
  <2>1. i + 1 \in DOMAIN s /\ x[i] = s[i + 1]
    BY <1>1, <1>3
  <2> QED  BY <2>1 DEF AsCame
<1>4. Pkt(Head(s), ty[Head(s)]) \in AsCame(s, ty)
  BY <1>1 DEF AsCame
<1>5. AsCame(s, ty) = AsCame(x, ty) \cup {Pkt(Head(s), ty[Head(s)])}
  BY <1>2, <1>3, <1>4 DEF AsCame
<1> QED
  BY <1>1, <1>5 DEF x

LEMMA RxStreams ==
    ASSUME GraphInv, graph = "rx"
    PROVE  /\ Unsorted \in Seq(Mbufs) /\ Burst4 \in Seq(Mbufs) /\ Burst6 \in Seq(Mbufs)
           /\ ip4 \in Seq(Mbufs) /\ ip6 \in Seq(Mbufs) /\ type \in [Mbufs -> Graph!Types]
           /\ DOMAIN Unsorted = 1..Len(Unsorted)
           /\ \A k \in DOMAIN Unsorted : Unsorted[k] \in Mbufs \ pool
<1>1. /\ Unsorted \in Seq(Mbufs) /\ Burst4 \in Seq(Mbufs) /\ Burst6 \in Seq(Mbufs)
      /\ ip4 \in Seq(Mbufs) /\ ip6 \in Seq(Mbufs) /\ type \in [Mbufs -> Graph!Types]
  BY RxData DEF GraphInv, GraphTypes, Unsorted, Burst4, Burst6
<1>2. DOMAIN Unsorted = 1..Len(Unsorted)
  BY <1>1, LenProperties
<1>. DEFINE H == GraphShelves(stream, ip4, ip6, rxq)
<1>3. ShelvesAre(H, stream, ip4, ip6, rxq)
  BY ShelfValues DEF GraphInv, GraphTypes
<1>4. Facts!Kept(GraphPlaces, Mbufs, H, pool)
  BY DEF GraphInv, GraphHeld
<1>. HIDE DEF H
<1>5. "CLASSIFY" \in GraphPlaces /\ H["CLASSIFY"] = Unsorted
  BY <1>3, RxData, ShelfNames DEF GraphInv, ShelvesAre, Unsorted
<1>6. \A k \in 1..Len(Unsorted) : Unsorted[k] \notin pool
  BY <1>4, <1>5 DEF Facts!Kept
<1>7. \A k \in 1..Len(Unsorted) : Unsorted[k] \in Mbufs
  BY <1>1, ElementOfSeq
<1> QED
  BY <1>1, <1>2, <1>6, <1>7

LEMMA RxInit == Graph!Init => RxInv
<1>. SUFFICES ASSUME Graph!Init, graph = "rx" PROVE RxInv
  BY DEF RxInv
<1>1. /\ arrived = <<>> /\ printed = <<>> /\ pending = <<>> /\ ip4 = <<>> /\ ip6 = <<>>
      /\ Unsorted = <<>> /\ Burst4 = <<>> /\ Burst6 = <<>>
  BY RxData DEF Graph!Init, Unsorted, Burst4, Burst6
<1>2. arrived \in Seq(PktSet) /\ printed \in Seq(PktSet) /\ DOMAIN <<>> = {}
  BY <1>1, EmptySeq, LenProperties
<1>3. Phases
  BY <1>1 DEF Phases
<1>4. Accounted
  BY <1>1, MarkEmpty DEF Accounted, Wanted
<1>5. Sorted
  BY <1>1, <1>2, MarkEmpty DEF Sorted, InOrderOf
<1> QED
  BY <1>1, <1>2, <1>3, <1>4, <1>5 DEF RxInv

LEMMA RxSame ==
    ASSUME RxInv, UNCHANGED <<graph, arrived, printed, pending, stream, ip4, ip6, type>>,
           graph = "rx" /\ (graph_pc' \in {"create", "loop"} \/ "RX" \in todo') =>
             graph_pc \in {"create", "loop"} \/ "RX" \in todo
    PROVE  RxInv'
<1>1. Unsorted' = Unsorted /\ Burst4' = Burst4 /\ Burst6' = Burst6
  BY DEF Unsorted, Burst4, Burst6
<1>2. CASE graph = "rx"
  <2>1. Phases'
    BY <1>1, <1>2 DEF RxInv, Phases
  <2>2. Accounted' /\ Sorted'
    BY <1>1, <1>2 DEF RxInv, Accounted, Sorted
  <2> QED  BY <2>1, <2>2 DEF RxInv
<1>3. CASE graph # "rx"
  BY <1>3 DEF RxInv
<1> QED
  BY <1>2, <1>3

LEMMA RxMains == GraphInv /\ RxInv /\ (Graph!Create \/ Graph!Walk \/ Graph!EndWalk) => RxInv'
<1>. SUFFICES ASSUME GraphInv, RxInv, Graph!Create \/ Graph!Walk \/ Graph!EndWalk PROVE RxInv'
  OBVIOUS
<1>1. UNCHANGED <<graph, arrived, printed, pending, stream, ip4, ip6, type>>
  BY DEF Graph!Create, Graph!Walk, Graph!EndWalk, Graph!walk, Graph!nic, Graph!local, Graph!hist
<1>2. CASE Graph!Create \/ Graph!Walk
  <2>1. graph_pc \in {"create", "loop"}
    BY <1>2 DEF Graph!Create, Graph!Walk
  <2> QED  BY <1>1, <2>1, RxSame
<1>3. CASE Graph!EndWalk
  <2>1. graph = "rx" => graph_pc' = "ended" /\ todo' = {}
    BY <1>3 DEF Graph!EndWalk, Graph!walk
  <2> QED  BY <1>1, <2>1, RxSame
<1> QED
  BY <1>2, <1>3

\* What the NIC receives into is a buffer of the pool, and no stream has it.
LEMMA RxReceives == ASSUME NEW t \in Graph!Types PROVE GraphInv /\ RxInv /\ Graph!NicReceive(t) => RxInv'
<1>. SUFFICES ASSUME GraphInv, RxInv, Graph!NicReceive(t) PROVE RxInv'
  OBVIOUS
<1>1. PICK m \in pool : type' = [type EXCEPT ![m] = t]
  BY DEF Graph!NicReceive
<1>2. /\ UNCHANGED <<graph, graph_pc, todo, arrived, printed, pending, stream, ip4, ip6>>
      /\ graph = "rx"
  BY DEF Graph!NicReceive, Graph!walk, Graph!local, Graph!hist
<1>3. \A k \in DOMAIN Unsorted : type'[Unsorted[k]] = type[Unsorted[k]]
  BY <1>1, <1>2, RxStreams
<1>4. Unsorted' = Unsorted /\ Burst4' = Burst4 /\ Burst6' = Burst6
  BY <1>2 DEF Unsorted, Burst4, Burst6
<1>5. AsCame(Unsorted, type') = AsCame(Unsorted, type)
  BY <1>3 DEF AsCame
<1>6. Phases'
  BY <1>2, <1>4 DEF RxInv, Phases
<1>7. Accounted'
  BY <1>2, <1>4, <1>5 DEF RxInv, Accounted
<1>8. Sorted'
  BY <1>2, <1>3, <1>4, <1>5 DEF RxInv, Sorted
<1> QED
  BY <1>2, <1>6, <1>7, <1>8 DEF RxInv

\* The burst, as it came.
LEMMA RxTakes == GraphInv /\ RxInv /\ Graph!RxNode => RxInv'
<1>. SUFFICES ASSUME GraphInv, RxInv, Graph!RxNode PROVE RxInv'
  OBVIOUS
<1>1. /\ graph_pc = "walk" /\ "RX" \in todo /\ todo' = todo \ {"RX"}
      /\ UNCHANGED <<graph, graph_pc, type, ip4, ip6, printed>>
  BY DEF Graph!RxNode, Graph!local
<1>2. PICK n \in {k \in 0..Burst : k <= Len(rxq) /\ (k = 0 => rxq = <<>>)} :
        /\ arrived' = [i \in 1..n |-> [mbuf |-> rxq[i], type |-> type[rxq[i]]]]
        /\ IF n = 0 THEN UNCHANGED <<stream, pending>>
           ELSE /\ stream' = Graph!Pushed("RX", 1, SubSeq(rxq, 1, n), stream)
                /\ pending' = pending \o Graph!Pends("RX", 1, stream)
  BY DEF Graph!RxNode
<1>. SUFFICES ASSUME graph = "rx" PROVE RxInv'
  BY <1>1 DEF RxInv
<1>3. /\ pending = <<>> /\ arrived = <<>> /\ printed = <<>> /\ Unsorted = <<>> /\ ip4 = <<>> /\ ip6 = <<>>
      /\ Burst4 = <<>> /\ Burst6 = <<>>
  BY <1>1 DEF RxInv, Phases
<1>4. /\ rxq \in Seq(Mbufs) /\ Len(rxq) \in Nat /\ n \in 0..Len(rxq) /\ n \in Nat
      /\ stream \in [Graph!Nodes -> Seq(Mbufs)] /\ type \in [Mbufs -> Graph!Types]
      /\ graph_pc' \notin {"create", "loop"} /\ "RX" \notin todo'
  BY <1>1, <1>2, GraphConstants, LenProperties DEF GraphInv, GraphTypes
<1>. DEFINE f == SubSeq(rxq, 1, n)
<1>5. f \in Seq(Mbufs) /\ Len(f) = n /\ DOMAIN f = 1..n /\ \A i \in 1..n : f[i] = rxq[i] /\ f[i] \in Mbufs
  <2>1. f \in Seq(Mbufs) /\ Len(f) = n /\ \A i \in 1..n : f[i] = rxq[i]
    BY <1>4, Facts!CutProperties
  <2> QED  BY <2>1, <1>4, LenProperties, ElementOfSeq
<1>. HIDE DEF f
<1>6. Unsorted' = f /\ Burst4' = <<>> /\ Burst6' = <<>>
  <2>1. CASE n = 0
    BY <1>2, <1>3, <1>5, <2>1, EmptySeq DEF Unsorted, Burst4, Burst6
  <2>2. CASE n # 0
    <3>1. stream' = [stream EXCEPT !["CLASSIFY"] = stream["CLASSIFY"] \o f]
      BY <1>2, <2>2, RxData DEF Graph!Pushed, f
    <3>2. stream["CLASSIFY"] \o f = f
      BY <1>3, <1>5, ConcatEmptySeq DEF Unsorted
    <3> QED  BY <1>3, <1>4, <3>1, <3>2, RxData DEF Unsorted, Burst4, Burst6
  <2> QED  BY <2>1, <2>2
<1>7. (n = 0 /\ pending' = <<>>) \/ pending' = <<"CLASSIFY">>
  <2>1. CASE n = 0
    BY <1>2, <1>3, <2>1
  <2>2. CASE n # 0
    <3>1. pending' = <<>> \o <<"CLASSIFY">>
      BY <1>2, <1>3, <2>2, RxData DEF Graph!Pends, Unsorted
    <3> QED  BY <3>1, ConcatEmptySeq
  <2> QED  BY <2>1, <2>2
<1>8. /\ arrived' \in Seq(PktSet) /\ DOMAIN arrived' = 1..n
      /\ \A i \in 1..n : arrived'[i] = Pkt(f[i], type[f[i]]) /\ arrived'[i] \in PktSet
  <2>1. \A i \in 1..n : [mbuf |-> rxq[i], type |-> type[rxq[i]]] \in PktSet
    BY <1>4, <1>5 DEF PktSet
  <2>2. arrived' \in [1..n -> PktSet]
    BY <1>2, <2>1
  <2> QED  BY <1>2, <1>4, <1>5, <2>1, <2>2, Enumerated DEF Pkt
<1>9. Phases'
  <2>1. n = 0 => f = <<>>
    BY <1>5, EmptySeq
  <2> QED  BY <1>1, <1>3, <1>4, <1>6, <1>7, <2>1 DEF Phases
<1>10. AsCame(f, type) = Graph!SeqSet(arrived')
  BY <1>5, <1>8 DEF AsCame, Graph!SeqSet
<1>11. Accounted'
  <2>1. Graph!SeqSet(arrived)' = Graph!SeqSet(arrived')
    BY DEF Graph!SeqSet
  <2> QED  BY <1>1, <1>3, <1>6, <1>10, <2>1, MarkEmpty DEF Accounted, Wanted
<1>12. Sorted'
  <2>1. \A k, l \in DOMAIN f : k < l => Came(arrived', Pkt(f[k], type[f[k]]), Pkt(f[l], type[f[l]]))
    BY <1>5, <1>8 DEF Came
  <2>2. DOMAIN <<>> = {}
    BY EmptySeq, LenProperties
  <2> QED  BY <1>1, <1>3, <1>6, <2>1, <2>2, MarkEmpty DEF Sorted, InOrderOf
<1>13. \A i, j \in DOMAIN arrived' : arrived'[i].mbuf = arrived'[j].mbuf => i = j
  <2>. DEFINE H == GraphShelves(stream, ip4, ip6, rxq)
  <2>1. ShelvesAre(H, stream, ip4, ip6, rxq) /\ Facts!Kept(GraphPlaces, Mbufs, H, pool) /\ "rxq" \in GraphPlaces
    BY ShelfValues, ShelfNames DEF GraphInv, GraphTypes, GraphHeld
  <2>. HIDE DEF H
  <2>2. \A i, j \in 1..Len(rxq) : rxq[i] = rxq[j] => i = j
    BY <2>1 DEF ShelvesAre, Facts!Kept
  <2>3. \A i \in 1..n : i \in 1..Len(rxq) /\ arrived'[i].mbuf = rxq[i]
    BY <1>4, <1>5, <1>8 DEF Pkt
  <2> QED  BY <1>8, <2>2, <2>3
<1> QED
  BY <1>1, <1>3, <1>8, <1>9, <1>11, <1>12, <1>13, EmptySeq DEF RxInv

\* A stream one packet longer, and what is left of the burst, stay in order.
LEMMA OrderAppend ==
    ASSUME NEW s \in Seq(Mbufs), NEW m \in Mbufs, NEW t, NEW arr, InOrderOf(arr, s, t),
           \A p \in Marked(s, t) : Came(arr, p, Pkt(m, t))
    PROVE  InOrderOf(arr, Append(s, m), t)
<1>. DEFINE x == Append(s, m)
<1>1. /\ DOMAIN s = 1..Len(s) /\ Len(s) \in Nat /\ DOMAIN x = 1..Len(s) + 1
      /\ \A i \in 1..Len(s) : x[i] = s[i]
      /\ x[Len(s) + 1] = m
  BY LenProperties, AppendProperties
<1>. HIDE DEF x
<1>2. ASSUME NEW k \in DOMAIN x, NEW l \in DOMAIN x, k < l PROVE Came(arr, Pkt(x[k], t), Pkt(x[l], t))
  <2>1. k \in DOMAIN s /\ x[k] = s[k]
    BY <1>1, <1>2
  <2>2. CASE l = Len(s) + 1
    <3>1. Pkt(x[k], t) \in Marked(s, t) /\ x[l] = m
      BY <1>1, <2>1, <2>2 DEF Marked
    <3> QED  BY <3>1
  <2>3. CASE l # Len(s) + 1
    <3>1. l \in DOMAIN s /\ x[l] = s[l]
      BY <1>1, <1>2, <2>3
    <3> QED  BY <1>2, <2>1, <3>1 DEF InOrderOf
  <2> QED  BY <2>2, <2>3
<1> QED
  BY <1>2 DEF InOrderOf, x

LEMMA RxClassifies == GraphInv /\ RxInv /\ Graph!ClassifyOne => RxInv'
<1>. SUFFICES ASSUME GraphInv, RxInv, Graph!ClassifyOne PROVE RxInv'
  OBVIOUS
<1>. DEFINE m == Head(stream["CLASSIFY"])
            rest == Tail(stream["CLASSIFY"])
<1>1. /\ Graph!Runs("CLASSIFY") /\ stream["CLASSIFY"] # <<>>
      /\ stream' = [stream EXCEPT !["CLASSIFY"] = rest]
      /\ ip4' = IF type[m] = "ip4" THEN Append(ip4, m) ELSE ip4
      /\ ip6' = IF type[m] = "ip6" THEN Append(ip6, m) ELSE ip6
      /\ UNCHANGED <<graph, graph_pc, todo, pending, type, arrived, printed>>
  BY DEF Graph!ClassifyOne, Graph!nic, Graph!hist
<1>2. graph = "rx" /\ graph_pc = "walk" /\ todo = {} /\ pending = <<"CLASSIFY">>
  <2>1. graph = "rx" /\ graph_pc = "walk" /\ todo = {}
    BY <1>1, RunsIn DEF GraphInv
  <2> QED  BY <1>1, <2>1 DEF RxInv, Phases, Unsorted
<1>3. /\ Unsorted \in Seq(Mbufs) /\ Unsorted # <<>> /\ m = Head(Unsorted) /\ rest = Tail(Unsorted)
      /\ m \in Mbufs /\ type[m] \in {"ip4", "ip6", "other"} /\ rest \in Seq(Mbufs)
      /\ ip4 \in Seq(Mbufs) /\ ip6 \in Seq(Mbufs)
  <2>1. Unsorted \in Seq(Mbufs) /\ ip4 \in Seq(Mbufs) /\ ip6 \in Seq(Mbufs) /\ type \in [Mbufs -> Graph!Types]
    BY <1>2, RxStreams
  <2>2. Unsorted # <<>> /\ m = Head(Unsorted) /\ rest = Tail(Unsorted)
    BY <1>1 DEF Unsorted
  <2>3. m \in Mbufs /\ rest \in Seq(Mbufs)
    BY <2>1, <2>2, HeadTailProperties
  <2> QED  BY <2>1, <2>2, <2>3 DEF Graph!Types
<1>4. Unsorted' = rest /\ Burst4' = Burst4 /\ Burst6' = Burst6
  BY <1>1, <1>2, RxData DEF GraphInv, GraphTypes, Unsorted, Burst4, Burst6
<1>. HIDE DEF m, rest
<1>5. Phases'
  BY <1>1, <1>2, <1>4 DEF RxInv, Phases
<1>6. /\ AsCame(Unsorted, type) = AsCame(rest, type) \cup {Pkt(m, type[m])}
      /\ DOMAIN rest = 1..Len(Unsorted) - 1 /\ DOMAIN Unsorted = 1..Len(Unsorted) /\ Len(Unsorted) \in Nat \ {0}
      /\ \A k \in 1..Len(Unsorted) - 1 : rest[k] = Unsorted[k + 1]
      /\ m = Unsorted[1]
  BY <1>3, CameTail
<1>7. /\ Marked(Append(ip4, m), "ip4") = Marked(ip4, "ip4") \cup {Pkt(m, "ip4")}
      /\ Marked(Append(ip6, m), "ip6") = Marked(ip6, "ip6") \cup {Pkt(m, "ip6")}
  BY <1>3, MarkAppend
<1>8. /\ Marked(ip4', "ip4") = Marked(ip4, "ip4") \cup (IF type[m] = "ip4" THEN {Pkt(m, type[m])} ELSE {})
      /\ Marked(ip6', "ip6") = Marked(ip6, "ip6") \cup (IF type[m] = "ip6" THEN {Pkt(m, type[m])} ELSE {})
  BY <1>1, <1>7
<1>9. Accounted'
  <2>1. Wanted(AsCame(Unsorted, type)) =
          Wanted(AsCame(rest, type)) \cup (IF type[m] = "other" THEN {} ELSE {Pkt(m, type[m])})
    BY <1>6 DEF Wanted, Pkt
  <2>2. Wanted(AsCame(Unsorted, type)) \cup Marked(ip4, "ip4") \cup Marked(ip6, "ip6") =
          Wanted(AsCame(rest, type)) \cup Marked(ip4', "ip4") \cup Marked(ip6', "ip6")
    BY <1>3, <1>8, <2>1
  <2>3. Accounted
    BY <1>2 DEF RxInv
  <2> QED  BY <1>1, <1>4, <2>2, <2>3 DEF Accounted
<1>10. Sorted
  BY <1>2 DEF RxInv
<1>11. \A q \in AsCame(rest, type) : Came(arrived, Pkt(m, type[m]), q)
  <2>1. ASSUME NEW k \in DOMAIN rest PROVE Came(arrived, Pkt(m, type[m]), Pkt(rest[k], type[rest[k]]))
    <3>1. 1 \in DOMAIN Unsorted /\ k + 1 \in DOMAIN Unsorted /\ 1 < k + 1 /\ rest[k] = Unsorted[k + 1]
      BY <1>6, <2>1
    <3> QED  BY <1>6, <1>10, <3>1 DEF Sorted
  <2> QED  BY <2>1 DEF AsCame
<1>12. \A p \in Marked(ip4, "ip4") \cup Marked(ip6, "ip6") : Came(arrived, p, Pkt(m, type[m]))
  BY <1>6, <1>10 DEF Sorted
<1>13. Sorted'
  <2>1. \A k, l \in DOMAIN rest : k < l => Came(arrived, Pkt(rest[k], type[rest[k]]), Pkt(rest[l], type[rest[l]]))
    <3>1. ASSUME NEW k \in DOMAIN rest, NEW l \in DOMAIN rest, k < l
          PROVE  Came(arrived, Pkt(rest[k], type[rest[k]]), Pkt(rest[l], type[rest[l]]))
      <4>1. /\ k + 1 \in DOMAIN Unsorted /\ l + 1 \in DOMAIN Unsorted /\ k + 1 < l + 1
            /\ rest[k] = Unsorted[k + 1] /\ rest[l] = Unsorted[l + 1]
        BY <1>6, <3>1
      <4> QED  BY <1>10, <4>1 DEF Sorted
    <3> QED  BY <3>1
  <2>2. InOrderOf(arrived, ip4', "ip4")
    <3>1. CASE type[m] = "ip4"
      BY <1>1, <1>3, <1>10, <1>12, <3>1, OrderAppend DEF Sorted
    <3>2. CASE type[m] # "ip4"
      BY <1>1, <1>10, <3>2 DEF Sorted
    <3> QED  BY <3>1, <3>2
  <2>3. InOrderOf(arrived, ip6', "ip6")
    <3>1. CASE type[m] = "ip6"
      BY <1>1, <1>3, <1>10, <1>12, <3>1, OrderAppend DEF Sorted
    <3>2. CASE type[m] # "ip6"
      BY <1>1, <1>10, <3>2 DEF Sorted
    <3> QED  BY <3>1, <3>2
  <2>4. \A p \in Marked(ip4', "ip4") \cup Marked(ip6', "ip6") : \A q \in AsCame(rest, type) : Came(arrived, p, q)
    <3>1. \A p \in Marked(ip4, "ip4") \cup Marked(ip6, "ip6") : \A q \in AsCame(rest, type) : Came(arrived, p, q)
      BY <1>6, <1>10 DEF Sorted
    <3> QED  BY <1>8, <1>11, <3>1
  <2>5. /\ arrived' = arrived /\ printed' = printed /\ type' = type
        /\ InOrderOf(arrived, Burst4, "ip4") /\ InOrderOf(arrived, Burst6, "ip6")
        /\ \A k, l \in DOMAIN printed : k < l =>
             IF printed[k].type = printed[l].type THEN Came(arrived, printed[k], printed[l])
                                                  ELSE printed[k].type = "ip4"
    BY <1>1, <1>10 DEF Sorted
  <2> QED  BY <1>4, <2>1, <2>2, <2>3, <2>4, <2>5 DEF Sorted
<1> QED
  BY <1>1, <1>2, <1>5, <1>9, <1>13 DEF RxInv

LEMMA PairProperties ==
    ASSUME NEW S, NEW a \in S, NEW b \in S
    PROVE  <<a>> \in Seq(S) /\ <<b>> \in Seq(S) /\ <<a>> \o <<b>> = <<a, b>>
<1>1. <<a>> \in Seq(S) /\ <<b>> \in Seq(S) /\ <<a, b>> \in Seq(S) /\ Append(<<a>>, b) \in Seq(S)
  BY AppendProperties
<1>2. Len(<<a>>) = 1 /\ Len(<<a, b>>) = 2
  OBVIOUS
<1>3. Len(Append(<<a>>, b)) = 2 /\ Append(<<a>>, b)[1] = a /\ Append(<<a>>, b)[2] = b
  BY <1>1, <1>2, AppendProperties
<1>4. <<a, b>>[1] = a /\ <<a, b>>[2] = b
  OBVIOUS
<1>5. \A i \in 1..2 : i = 1 \/ i = 2
  OBVIOUS
<1>6. Append(<<a>>, b) = <<a, b>>
  BY <1>1, <1>2, <1>3, <1>4, <1>5, SeqEqual
<1> QED
  BY <1>1, <1>6, AppendIsConcat

\* What is still to run tells which node is next.
LEMMA Agendas ==
    /\ <<"PRINT_IPV4">> # <<>> /\ <<"PRINT_IPV4">> # <<"CLASSIFY">> /\ <<"PRINT_IPV4">> # <<"PRINT_IPV6">>
    /\ <<"PRINT_IPV4", "PRINT_IPV6">> # <<>> /\ <<"PRINT_IPV4", "PRINT_IPV6">> # <<"CLASSIFY">>
    /\ <<"PRINT_IPV4", "PRINT_IPV6">> # <<"PRINT_IPV6">>
    /\ <<"PRINT_IPV6">> # <<>> /\ <<"PRINT_IPV6">> # <<"CLASSIFY">>
    /\ Tail(<<"PRINT_IPV4">>) = <<>> /\ Tail(<<"PRINT_IPV6">>) = <<>>
    /\ Tail(<<"PRINT_IPV4", "PRINT_IPV6">>) = <<"PRINT_IPV6">>
<1>1. /\ Len(<<"PRINT_IPV4">>) = 1 /\ Len(<<"PRINT_IPV6">>) = 1 /\ Len(<<>>) = 0 /\ Len(<<"CLASSIFY">>) = 1
      /\ Len(<<"PRINT_IPV4", "PRINT_IPV6">>) = 2
  OBVIOUS
<1>2. /\ <<"PRINT_IPV4">>[1] = "PRINT_IPV4" /\ <<"PRINT_IPV6">>[1] = "PRINT_IPV6" /\ <<"CLASSIFY">>[1] = "CLASSIFY"
  OBVIOUS
<1>3. /\ Tail(<<"PRINT_IPV4">>) = <<>> /\ Tail(<<"PRINT_IPV6">>) = <<>>
  OBVIOUS
<1>4. Tail(<<"PRINT_IPV4", "PRINT_IPV6">>) = <<"PRINT_IPV6">>
  OBVIOUS
<1>5. /\ "PRINT_IPV4" # "PRINT_IPV6" /\ "PRINT_IPV4" # "CLASSIFY" /\ "PRINT_IPV6" # "CLASSIFY"
  OBVIOUS
<1>6. 0 # 1 /\ 0 # 2 /\ 1 # 2
  OBVIOUS
<1> QED
  BY <1>1, <1>2, <1>3, <1>4, <1>5, <1>6, Zenon

\* The arrays become the streams of the printers.
LEMMA RxSends == GraphInv /\ RxInv /\ Graph!ClassifyEnqueue => RxInv'
<1>. SUFFICES ASSUME GraphInv, RxInv, Graph!ClassifyEnqueue PROVE RxInv'
  OBVIOUS
<1>. DEFINE str == [stream EXCEPT !["PRINT_IPV4"] = stream["PRINT_IPV4"] \o ip4]
            fin == [str EXCEPT !["PRINT_IPV6"] = str["PRINT_IPV6"] \o ip6]
<1>1. Graph!Runs("CLASSIFY") /\ stream["CLASSIFY"] = <<>>
  BY DEF Graph!ClassifyEnqueue
<1>2. graph = "rx" /\ graph_pc = "walk" /\ todo = {} /\ pending # <<>> /\ Head(pending) = "CLASSIFY"
  BY <1>1, RunsIn DEF GraphInv, Graph!Runs
<1>3. /\ stream' = fin /\ ip4' = <<>> /\ ip6' = <<>>
      /\ pending' = Tail(pending)
                \o (IF ip4 # <<>> THEN Graph!Pends("CLASSIFY", 1, stream) ELSE <<>>)
                \o (IF ip6 # <<>> THEN Graph!Pends("CLASSIFY", 2, str) ELSE <<>>)
      /\ UNCHANGED <<graph, graph_pc, todo, type, arrived, printed>>
  <2>1. ip4' = <<>> /\ ip6' = <<>> /\ UNCHANGED <<graph, graph_pc, todo, type, arrived, printed>>
    BY DEF Graph!ClassifyEnqueue, Graph!nic, Graph!hist
  <2>2. str = Graph!Pushed("CLASSIFY", 1, ip4, stream) /\ fin = Graph!Pushed("CLASSIFY", 2, ip6, str)
    BY <1>2, RxData DEF Graph!Pushed
  <2>. HIDE DEF str, fin
  <2>3. /\ stream' = fin
        /\ pending' = Tail(pending)
                 \o (IF ip4 # <<>> THEN Graph!Pends("CLASSIFY", 1, stream) ELSE <<>>)
                 \o (IF ip6 # <<>> THEN Graph!Pends("CLASSIFY", 2, str) ELSE <<>>)
    BY <2>2, Zenon DEF Graph!ClassifyEnqueue
  <2> QED  BY <2>1, <2>3
<1>4. /\ pending = <<"CLASSIFY">> /\ Burst4 = <<>> /\ Burst6 = <<>> /\ Unsorted = <<>> /\ printed = <<>>
      /\ ip4 \in Seq(Mbufs) /\ ip6 \in Seq(Mbufs)
  <2>1. pending = <<"CLASSIFY">>
    BY <1>2 DEF RxInv, Phases
  <2>2. Burst4 = <<>> /\ Burst6 = <<>> /\ printed = <<>>
    BY <1>2, <2>1 DEF RxInv, Phases
  <2> QED  BY <1>1, <1>2, <2>1, <2>2, RxStreams DEF Unsorted
<1>5. Unsorted' = <<>> /\ Burst4' = ip4 /\ Burst6' = ip6 /\ str["PRINT_IPV6"] = <<>>
  <2>1. <<>> \o ip4 = ip4 /\ <<>> \o ip6 = ip6
    BY <1>4, ConcatEmptySeq
  <2> QED  BY <1>2, <1>3, <1>4, <2>1, RxData DEF GraphInv, GraphTypes, Unsorted, Burst4, Burst6
<1>6. \/ ip4 = <<>> /\ ip6 = <<>> /\ pending' = <<>>
      \/ ip4 # <<>> /\ ip6 = <<>> /\ pending' = <<"PRINT_IPV4">>
      \/ ip4 = <<>> /\ ip6 # <<>> /\ pending' = <<"PRINT_IPV6">>
      \/ ip4 # <<>> /\ ip6 # <<>> /\ pending' = <<"PRINT_IPV4", "PRINT_IPV6">>
  <2>1. Tail(pending) = <<>>
    BY <1>4
  <2>2. Graph!Pends("CLASSIFY", 1, stream) = <<"PRINT_IPV4">> /\ Graph!Pends("CLASSIFY", 2, str) = <<"PRINT_IPV6">>
    BY <1>2, <1>4, <1>5, RxData DEF Graph!Pends, Burst4
  <2>3. /\ \A x \in {<<>>, <<"PRINT_IPV4">>, <<"PRINT_IPV6">>} : <<>> \o x = x
        /\ <<"PRINT_IPV4">> \o <<>> = <<"PRINT_IPV4">>
        /\ <<"PRINT_IPV4">> \o <<"PRINT_IPV6">> = <<"PRINT_IPV4", "PRINT_IPV6">>
    <3>. DEFINE S == {"PRINT_IPV4", "PRINT_IPV6"}
    <3>1. <<"PRINT_IPV4">> \in Seq(S) /\ <<"PRINT_IPV6">> \in Seq(S) /\ <<>> \in Seq(S)
      BY PairProperties, EmptySeq
    <3>2. <<"PRINT_IPV4">> \o <<"PRINT_IPV6">> = <<"PRINT_IPV4", "PRINT_IPV6">>
      <4>1. "PRINT_IPV4" \in S /\ "PRINT_IPV6" \in S
        OBVIOUS
      <4> QED  BY <4>1, PairProperties, Zenon
    <3>3. \A x \in {<<>>, <<"PRINT_IPV4">>, <<"PRINT_IPV6">>} : <<>> \o x = x
      BY <3>1, ConcatEmptySeq
    <3>4. <<"PRINT_IPV4">> \o <<>> = <<"PRINT_IPV4">>
      BY <3>1, ConcatEmptySeq
    <3> QED  BY <3>2, <3>3, <3>4
  <2>. HIDE DEF str
  <2>4. CASE ip4 = <<>> /\ ip6 = <<>>
    BY <1>3, <2>1, <2>3, <2>4
  <2>5. CASE ip4 # <<>> /\ ip6 = <<>>
    BY <1>3, <2>1, <2>2, <2>3, <2>5
  <2>6. CASE ip4 = <<>> /\ ip6 # <<>>
    BY <1>3, <2>1, <2>2, <2>3, <2>6
  <2>7. CASE ip4 # <<>> /\ ip6 # <<>>
    BY <1>3, <2>1, <2>2, <2>3, <2>7
  <2> QED  BY <2>4, <2>5, <2>6, <2>7
<1>. HIDE DEF str, fin
<1>7. Phases'
  <2>1. DOMAIN <<>> = {}
    BY EmptySeq, LenProperties
  <2> QED  BY <1>2, <1>3, <1>4, <1>5, <1>6, <2>1 DEF Phases
<1>8. Accounted'
  BY <1>2, <1>3, <1>4, <1>5, MarkEmpty DEF RxInv, Accounted, Wanted
<1>9. Sorted'
  <2>1. DOMAIN <<>> = {}
    BY EmptySeq, LenProperties
  <2> QED  BY <1>2, <1>3, <1>4, <1>5, <2>1, MarkEmpty DEF RxInv, Sorted, InOrderOf
<1> QED
  BY <1>2, <1>3, <1>7, <1>8, <1>9 DEF RxInv

\* What a print node prints of its stream.
NamedAs(s, t) == [i \in DOMAIN s |-> [mbuf |-> s[i], type |-> t]]

LEMMA NamedProperties ==
    ASSUME NEW s \in Seq(Mbufs), NEW t \in Graph!Types
    PROVE  /\ NamedAs(s, t) \in Seq(PktSet) /\ Len(s) \in Nat /\ Len(NamedAs(s, t)) = Len(s)
           /\ DOMAIN s = 1..Len(s) /\ DOMAIN NamedAs(s, t) = 1..Len(s)
           /\ \A i \in 1..Len(s) : NamedAs(s, t)[i] = Pkt(s[i], t)
           /\ Graph!SeqSet(NamedAs(s, t)) = Marked(s, t)
<1>1. Len(s) \in Nat /\ DOMAIN s = 1..Len(s) /\ \A i \in 1..Len(s) : s[i] \in Mbufs
  BY LenProperties, ElementOfSeq
<1>2. NamedAs(s, t) \in [1..Len(s) -> PktSet] /\ \A i \in 1..Len(s) : NamedAs(s, t)[i] = Pkt(s[i], t)
  BY <1>1 DEF NamedAs, PktSet, Pkt
<1>3. NamedAs(s, t) \in Seq(PktSet) /\ Len(NamedAs(s, t)) = Len(s) /\ DOMAIN NamedAs(s, t) = 1..Len(s)
  BY <1>1, <1>2, Enumerated
<1>4. Graph!SeqSet(NamedAs(s, t)) = Marked(s, t)
  BY <1>1, <1>2, <1>3 DEF Graph!SeqSet, Marked
<1> QED
  BY <1>1, <1>2, <1>3, <1>4

LEMMA RxPrints ==
    ASSUME NEW n
    PROVE  GraphInv /\ RxInv /\ Graph!PrintNode(n) => RxInv'
<1>. SUFFICES ASSUME GraphInv, RxInv, Graph!PrintNode(n) PROVE RxInv'
  OBVIOUS
<1>1. /\ n \in {"PRINT_IPV4", "PRINT_IPV6"} /\ Graph!Runs(n)
      /\ printed' = printed \o NamedAs(stream[n], IF n = "PRINT_IPV4" THEN "ip4" ELSE "ip6")
      /\ stream' = [stream EXCEPT ![n] = <<>>] /\ pending' = Tail(pending) /\ todo' = todo
      /\ UNCHANGED <<graph, graph_pc, type, arrived, ip4, ip6>>
  BY DEF Graph!PrintNode, Graph!Ran, Graph!nic, Graph!local, NamedAs
<1>2. /\ graph = "rx" /\ graph_pc = "walk" /\ todo = {} /\ Head(pending) = n /\ pending # <<>>
      /\ stream \in [Graph!Nodes -> Seq(Mbufs)]
  BY <1>1, RunsIn DEF GraphInv, GraphTypes, Graph!Runs
<1>3. /\ arrived \in Seq(PktSet) /\ printed \in Seq(PktSet) /\ Phases /\ Accounted /\ Sorted
      /\ Burst4 \in Seq(Mbufs) /\ Burst6 \in Seq(Mbufs) /\ "ip4" \in Graph!Types /\ "ip6" \in Graph!Types
  BY <1>2, RxStreams DEF RxInv, Graph!Types
<1>4. CASE n = "PRINT_IPV4"
  <2>. DEFINE x == NamedAs(Burst4, "ip4")
  <2>1. /\ x \in Seq(PktSet) /\ DOMAIN x = 1..Len(Burst4) /\ DOMAIN Burst4 = 1..Len(Burst4)
        /\ \A i \in 1..Len(Burst4) : x[i] = Pkt(Burst4[i], "ip4")
        /\ Graph!SeqSet(x) = Marked(Burst4, "ip4")
    BY <1>3, NamedProperties
  <2>2. /\ pending \in {<<"PRINT_IPV4">>, <<"PRINT_IPV4", "PRINT_IPV6">>}
        /\ printed = <<>> /\ Unsorted = <<>> /\ ip4 = <<>> /\ ip6 = <<>>
    <3>1. pending \in {<<"PRINT_IPV4">>, <<"PRINT_IPV4", "PRINT_IPV6">>}
      BY <1>2, <1>3, <1>4 DEF Phases
    <3> QED  BY <1>3, <3>1, Agendas DEF Phases
  <2>3. printed' = x /\ Unsorted' = <<>> /\ Burst4' = <<>> /\ Burst6' = Burst6
    <3>1. printed' = <<>> \o x
      BY <1>1, <1>4, <2>2 DEF Burst4
    <3>2. <<>> \o x = x
      BY <2>1, ConcatEmptySeq
    <3>. HIDE DEF x
    <3>3. Unsorted' = Unsorted /\ Burst4' = <<>> /\ Burst6' = Burst6
      BY <1>1, <1>2, <1>4, RxData DEF Unsorted, Burst4, Burst6
    <3> QED  BY <2>2, <3>1, <3>2, <3>3
  <2>. HIDE DEF x
  <2>4. \/ pending = <<"PRINT_IPV4">> /\ pending' = <<>>
        \/ pending = <<"PRINT_IPV4", "PRINT_IPV6">> /\ pending' = <<"PRINT_IPV6">>
    BY <1>1, <2>2, Agendas
  <2>5. \A k \in DOMAIN x : x[k].type = "ip4"
    BY <2>1 DEF Pkt
  <2>6. Phases'
    BY <1>1, <1>2, <1>3, <2>2, <2>3, <2>4, <2>5, Agendas DEF Phases
  <2>7. Accounted'
    BY <1>1, <1>3, <2>1, <2>2, <2>3, MarkEmpty DEF Accounted, Wanted
  <2>8. Sorted'
    <3>1. DOMAIN <<>> = {}
      BY EmptySeq, LenProperties
    <3>2. \A k, l \in DOMAIN x : k < l => Came(arrived, x[k], x[l])
      BY <1>3, <2>1 DEF Sorted, InOrderOf
    <3> QED  BY <1>1, <1>3, <2>2, <2>3, <2>5, <3>1, <3>2, MarkEmpty DEF Sorted, InOrderOf
  <2> QED  BY <1>1, <1>3, <2>1, <2>3, <2>6, <2>7, <2>8 DEF RxInv
<1>5. CASE n = "PRINT_IPV6"
  <2>. DEFINE y == NamedAs(Burst6, "ip6")
              z == printed \o y
  <2>1. /\ y \in Seq(PktSet) /\ DOMAIN y = 1..Len(Burst6) /\ DOMAIN Burst6 = 1..Len(Burst6)
        /\ \A i \in 1..Len(Burst6) : y[i] = Pkt(Burst6[i], "ip6")
        /\ Graph!SeqSet(y) = Marked(Burst6, "ip6") /\ Len(y) = Len(Burst6) /\ Len(Burst6) \in Nat
    BY <1>3, NamedProperties
  <2>2. /\ pending = <<"PRINT_IPV6">> /\ Burst4 = <<>> /\ Unsorted = <<>> /\ ip4 = <<>> /\ ip6 = <<>>
        /\ \A k \in DOMAIN printed : printed[k].type = "ip4"
    <3>1. pending = <<"PRINT_IPV6">>
      BY <1>2, <1>3, <1>5 DEF Phases
    <3> QED  BY <1>3, <3>1 DEF Phases
  <2>3. /\ printed' = z /\ Unsorted' = <<>> /\ Burst4' = <<>> /\ Burst6' = <<>> /\ pending' = <<>>
    <3>1. printed' = z
      BY <1>1, <1>5 DEF Burst6
    <3>. HIDE DEF z, y
    <3>2. Unsorted' = Unsorted /\ Burst4' = Burst4 /\ Burst6' = <<>>
      BY <1>1, <1>2, <1>5, RxData DEF Unsorted, Burst4, Burst6
    <3>3. pending' = <<>>
      BY <1>1, <2>2
    <3> QED  BY <2>2, <3>1, <3>2, <3>3
  <2>. HIDE DEF y
  <2>4. /\ z \in Seq(PktSet) /\ Len(printed) \in Nat /\ DOMAIN printed = 1..Len(printed)
        /\ DOMAIN z = 1..Len(printed) + Len(y)
        /\ \A i \in 1..Len(printed) : z[i] = printed[i]
        /\ \A i \in 1..Len(y) : z[Len(printed) + i] = y[i]
    <3>1. /\ z \in Seq(PktSet) /\ Len(z) = Len(printed) + Len(y)
          /\ \A i \in 1..Len(printed) + Len(y) :
               z[i] = IF i <= Len(printed) THEN printed[i] ELSE y[i - Len(printed)]
      <4>1. y \in Seq(PktSet)
        BY <2>1
      <4> QED  BY <1>3, <4>1, ConcatProperties
    <3>2. Len(printed) \in Nat /\ DOMAIN printed = 1..Len(printed) /\ DOMAIN z = 1..Len(z) /\ Len(y) \in Nat
      BY <1>3, <2>1, <3>1, LenProperties
    <3>. HIDE DEF z
    <3>3. \A i \in 1..Len(printed) : i \in 1..Len(printed) + Len(y) /\ i <= Len(printed)
      BY <3>2
    <3>4. \A i \in 1..Len(y) : /\ Len(printed) + i \in 1..Len(printed) + Len(y)
                              /\ ~(Len(printed) + i <= Len(printed)) /\ (Len(printed) + i) - Len(printed) = i
      BY <3>2
    <3> QED  BY <3>1, <3>2, <3>3, <3>4
  <2>. HIDE DEF z
  <2>5. ASSUME NEW k \in DOMAIN z
        PROVE  \/ k \in DOMAIN printed /\ z[k] = printed[k]
               \/ k > Len(printed) /\ k - Len(printed) \in DOMAIN Burst6
                   /\ z[k] = Pkt(Burst6[k - Len(printed)], "ip6")
    <3>1. CASE k <= Len(printed)
      BY <2>4, <2>5, <3>1
    <3>2. CASE k > Len(printed)
      <4>1. k - Len(printed) \in 1..Len(y) /\ k = Len(printed) + (k - Len(printed))
        BY <2>1, <2>4, <2>5, <3>2
      <4>2. z[k] = y[k - Len(printed)]
        BY <2>4, <4>1
      <4> QED  BY <2>1, <3>2, <4>1, <4>2
    <3>3. k \in Int /\ Len(printed) \in Int
      BY <2>1, <2>4, <2>5
    <3> QED  BY <3>1, <3>2, <3>3
  <2>6. Graph!SeqSet(z) = Graph!SeqSet(printed) \cup Marked(Burst6, "ip6")
    <3>1. ASSUME NEW i \in DOMAIN z PROVE z[i] \in Graph!SeqSet(printed) \cup Marked(Burst6, "ip6")
      BY <2>5 DEF Graph!SeqSet, Marked
    <3>2. ASSUME NEW i \in DOMAIN printed PROVE printed[i] \in Graph!SeqSet(z)
      BY <2>1, <2>4, <3>2 DEF Graph!SeqSet
    <3>3. ASSUME NEW i \in DOMAIN Burst6 PROVE Pkt(Burst6[i], "ip6") \in Graph!SeqSet(z)
      <4>1. Len(printed) + i \in DOMAIN z /\ z[Len(printed) + i] = Pkt(Burst6[i], "ip6")
        BY <2>1, <2>4, <3>3
      <4> QED  BY <4>1 DEF Graph!SeqSet
    <3> QED  BY <3>1, <3>2, <3>3 DEF Graph!SeqSet, Marked
  <2>7. Phases'
    BY <1>1, <1>2, <1>3, <2>2, <2>3 DEF Phases
  <2>8. Accounted'
    BY <1>1, <1>3, <2>2, <2>3, <2>6, MarkEmpty DEF Accounted, Wanted
  <2>9. ASSUME NEW k \in DOMAIN z, NEW l \in DOMAIN z, k < l
        PROVE  IF z[k].type = z[l].type THEN Came(arrived, z[k], z[l]) ELSE z[k].type = "ip4"
    <3>1. CASE k \in DOMAIN printed /\ z[k] = printed[k] /\ l \in DOMAIN printed /\ z[l] = printed[l]
      BY <1>3, <2>9, <3>1 DEF Sorted
    <3>2. CASE k \in DOMAIN printed /\ z[k] = printed[k] /\ z[l] = Pkt(Burst6[l - Len(printed)], "ip6")
      BY <2>2, <3>2 DEF Pkt
    <3>3. CASE /\ k - Len(printed) \in DOMAIN Burst6 /\ z[k] = Pkt(Burst6[k - Len(printed)], "ip6")
               /\ l - Len(printed) \in DOMAIN Burst6 /\ z[l] = Pkt(Burst6[l - Len(printed)], "ip6")
      <4>1. k - Len(printed) < l - Len(printed)
        BY <2>1, <2>4, <2>9
      <4>2. Came(arrived, z[k], z[l])
        BY <1>3, <3>3, <4>1 DEF Sorted, InOrderOf
      <4> QED  BY <3>3, <4>2 DEF Pkt
    <3>4. ~(k > Len(printed) /\ l \in DOMAIN printed)
      BY <2>1, <2>4, <2>9
    <3> QED  BY <2>5, <3>1, <3>2, <3>3, <3>4
  <2>10. Sorted'
    <3>1. DOMAIN <<>> = {}
      BY EmptySeq, LenProperties
    <3> QED  BY <1>1, <1>3, <2>2, <2>3, <2>9, <3>1, MarkEmpty DEF Sorted, InOrderOf
  <2> QED  BY <1>1, <1>3, <2>3, <2>4, <2>7, <2>8, <2>10 DEF RxInv
<1> QED
  BY <1>1, <1>4, <1>5

LEMMA RxStep == GraphInv /\ RxInv /\ [Graph!Next]_graph_vars => RxInv'
<1>. SUFFICES ASSUME GraphInv, RxInv, [Graph!Next]_graph_vars PROVE RxInv'
  OBVIOUS
<1>1. CASE UNCHANGED graph_vars
  <2>1. UNCHANGED <<graph, graph_pc, todo, arrived, printed, pending, stream, ip4, ip6, type>>
    BY <1>1 DEF graph_vars
  <2> QED  BY <2>1, RxSame
<1>2. CASE Graph!Worker
  <2>1. graph = "sources" /\ graph' = graph
    BY <1>2, RunsIn DEF Graph!Worker, GraphInv
  <2> QED  BY <2>1 DEF RxInv
<1>3. ASSUME NEW n, Graph!Start(n) PROVE RxInv'
  <2>1. n \in {"start1", "start2"} /\ n \in todo /\ graph' = graph
    BY <1>3 DEF Graph!Start
  <2>2. graph # "rx"
    BY <2>1, RxData DEF GraphInv, GraphTypes
  <2> QED  BY <2>1, <2>2 DEF RxInv
<1>4. CASE Graph!Main
  BY <1>2, <1>3, <1>4, RxMains, RxTakes, RxClassifies, RxSends, RxPrints DEF Graph!Main
<1>5. ASSUME NEW t \in Graph!Types, Graph!NicReceive(t) PROVE RxInv'
  BY <1>5, RxReceives
<1> QED
  BY <1>1, <1>4, <1>5 DEF Graph!Next

\* rx.c prints the whole burst, IPv4 before IPv6, each in order of arrival
\* (rx.c:77-93): no other packet, and none twice.
THEOREM BurstIsPrinted == Spec => []PrintedByVersion
<1>1. ASSUME GraphInv, RxInv PROVE PrintedByVersion
  <2>. SUFFICES ASSUME graph = "rx", graph_pc = "ended" PROVE PrintedByVersion
    BY DEF PrintedByVersion, Graph!PrintedByVersion
  <2>1. pending = <<>>
    BY <1>1 DEF GraphInv, Walked
  <2>2. Unsorted = <<>> /\ ip4 = <<>> /\ ip6 = <<>> /\ Burst4 = <<>> /\ Burst6 = <<>>
    BY <1>1, <2>1 DEF RxInv, Phases
  <2>3. Graph!SeqSet(printed) = Wanted(Graph!SeqSet(arrived))
    BY <1>1, <2>2, MarkEmpty DEF RxInv, Accounted, Wanted
  <2>4. \A p, q : Graph!Earlier(p, q) <=> Came(arrived, p, q)
    BY DEF Graph!Earlier, Came
  <2>5. ASSUME NEW k \in DOMAIN printed, NEW l \in DOMAIN printed, k < l
        PROVE  /\ printed[k].mbuf # printed[l].mbuf
               /\ IF printed[k].type = printed[l].type THEN Graph!Earlier(printed[k], printed[l])
                                                      ELSE printed[k].type = "ip4"
    <3>1. IF printed[k].type = printed[l].type THEN Came(arrived, printed[k], printed[l])
                                               ELSE printed[k].type = "ip4"
      BY <1>1, <2>5 DEF RxInv, Sorted
    <3>2. PICK i \in DOMAIN arrived, j \in DOMAIN arrived : arrived[i] = printed[k] /\ arrived[j] = printed[l]
      BY <2>3, <2>5 DEF Graph!SeqSet, Wanted
    <3>3. ASSUME printed[k].mbuf = printed[l].mbuf PROVE FALSE
      <4>1. i = j /\ printed[k] = printed[l]
        BY <1>1, <3>2, <3>3 DEF RxInv
      <4>2. PICK a \in DOMAIN arrived, b \in DOMAIN arrived : a < b /\ arrived[a] = arrived[b]
        BY <3>1, <4>1 DEF Came
      <4>3. a = b
        BY <1>1, <4>2 DEF RxInv
      <4>4. a \in Nat
        BY <1>1, LenProperties DEF RxInv
      <4> QED  BY <4>2, <4>3, <4>4
    <3> QED  BY <2>4, <3>1, <3>3
  <2> QED  BY <2>3, <2>5 DEF Wanted, PrintedByVersion, Graph!PrintedByVersion
<1> QED
  BY <1>1, Apart, GraphInit, GraphStep, RxInit, RxStep, PTL DEF Spec, Init

-----------------------------------------------------------------------------
(* The scripted translator: when its loop looks at the table, no timer is    *)
(* so far behind that the idle clearing comes first.                         *)

\* No entry is freed before the loop, so the ports given out are as many.
PortsCounted ==
    /\ script_pc[1] = "script" => next_port = FirstPort + Cardinality(heap)
    /\ \A a \in heap : public_port[a] < next_port
\* A timer is reset when a packet is seen, which is when idle is.
ResetWhenSeen == \A a \in Script!Armed : timer[a] = 0 \/ timer[a] + idle <= Timeout
\* What is still armed after rte_timer_manage was not due when it ran.
NotDueAtManage == script_pc[1] = "check" => nap = 0 /\ \A a \in Script!Armed : idle < Timeout + lost

ScriptInv ==
    /\ script \in Scripts
    /\ DOMAIN key = Entries /\ DOMAIN private = Entries /\ DOMAIN public_port = Entries
    /\ Script!OneEntryPerKeyAndPort
    /\ Script!TimersInLiveEntries
    /\ PortsCounted /\ ResetWhenSeen /\ NotDueAtManage

LEMMA ScriptCounts == \A S : Script!Cardinality(S) = Cardinality(S) /\ (Script!IsFiniteSet(S) <=> IsFiniteSet(S))
BY Zenon DEF Script!Cardinality, Cardinality, Script!IsFiniteSet, IsFiniteSet

LEMMA ScriptConstants ==
           /\ None \notin Entries /\ IsFiniteSet(Entries)
           /\ FirstPort \in Nat \ {0} /\ Timeout \in Nat \ {0} /\ Idle \in Nat \ {0}
           /\ Late \in Nat /\ Timeout + Late <= Idle + 1
           /\ Initially \in [Packets -> [ingress : BOOLEAN, end : Script!Endpoints]]
           /\ \A s \in Scripts : s \in Seq(Script!Step) /\ Len(s) \in Nat \ {0} 
           /\ Script!Off = Timeout + 1
           /\ Cardinality(Entries) \in Nat
           /\ Script!PublicPorts = FirstPort..FirstPort + Cardinality(Entries)
           /\ Script!PublicPorts \subseteq Script!Endpoints
<1>1. IsFiniteSet(Entries)
  BY ScriptCounts, ScriptAssumption DEF Script!SizeAssumption
<1>2. Cardinality(Entries) \in Nat
  BY <1>1, FS_CardinalityType
<1>3. \A s \in Scripts : s \in Seq(Script!Step) /\ Len(s) \in Nat \ {0}
  BY ScriptAssumption, LenProperties, EmptySeq DEF Script!SizeAssumption
<1>4. Script!PublicPorts = FirstPort..FirstPort + Cardinality(Entries)
  BY ScriptCounts DEF Script!PublicPorts
<1>5. Script!PublicPorts \subseteq Script!Endpoints
  BY DEF Script!Endpoints
<1> QED
  BY <1>1, <1>2, <1>3, <1>4, <1>5, ScriptAssumption DEF Script!SizeAssumption, Script!Off

\* Where main can be.
Labels == ({"script"} \X (1..Len(script))) \cup ({"manage", "check"} \X {0, 1})

LEMMA NextLabel ==
    ASSUME ScriptInv
    PROVE  /\ script \in Seq(Script!Step) /\ Len(script) \in Nat \ {0}
           /\ script_pc \in Labels
           /\ script_pc[1] = "script" => /\ script_pc[2] \in 1..Len(script)
                                  /\ Script!After(script_pc[2]) \in Labels
                                  /\ Script!After(script_pc[2])[1] # "check"
           /\ script_pc[1] # "script" => script_pc[2] \in {0, 1}
<1>1. script \in Seq(Script!Step) /\ Len(script) \in Nat \ {0}
  BY ScriptConstants DEF ScriptInv
<1>2. script_pc \in Labels
  BY DEF ScriptInv, Script!OneEntryPerKeyAndPort, Script!TypeOK, Labels
<1>3. script_pc[1] = "script" => script_pc[2] \in 1..Len(script)
  BY <1>2 DEF Labels
<1>4. script_pc[1] # "script" => script_pc[2] \in {0, 1}
  BY <1>2 DEF Labels
<1>5. ASSUME script_pc[1] = "script"
      PROVE  Script!After(script_pc[2]) \in Labels /\ Script!After(script_pc[2])[1] # "check"
  <2>1. CASE script_pc[2] < Len(script)
    <3>1. Script!After(script_pc[2]) = <<"script", script_pc[2] + 1>>
      BY <2>1 DEF Script!After
    <3>2. script_pc[2] + 1 \in 1..Len(script)
      BY <1>1, <1>3, <1>5, <2>1
    <3> QED  BY <3>1, <3>2 DEF Labels
  <2>2. CASE ~(script_pc[2] < Len(script))
    <3>1. Script!After(script_pc[2]) = <<"manage", 0>>
      BY <2>2 DEF Script!After
    <3> QED  BY <3>1 DEF Labels
  <2> QED  BY <2>1, <2>2
<1> QED
  BY <1>1, <1>2, <1>3, <1>4, <1>5

LEMMA ScriptInit == Script!Init => ScriptInv
<1>. SUFFICES ASSUME Script!Init PROVE ScriptInv
  OBVIOUS
<1>1. script \in Scripts /\ Len(script) \in Nat \ {0}
  BY ScriptConstants DEF Script!Init
<1>2. Script!Armed = {} /\ heap = {} /\ Script!Mapped = {} /\ Cardinality(heap) = 0
  BY FS_EmptySet DEF Script!Init, Script!Armed, Script!Mapped
<1>3. Script!TypeOK
  <2>1. timer \in [Entries -> 0..Script!Off] /\ next_port \in Script!PublicPorts
    BY ScriptConstants DEF Script!Init
  <2>2. script_pc = <<"script", 1>> /\ 1 \in 1..Len(script)
    BY <1>1 DEF Script!Init
  <2>3. script_pc \in Labels
    BY <2>2 DEF Labels
  <2>4. idle \in 0..Idle + 1 /\ nap \in Nat /\ lost \in 0..Late
    BY ScriptConstants DEF Script!Init
  <2> QED
    BY <1>2, <2>1, <2>3, <2>4, ScriptConstants DEF Script!Init, Script!TypeOK, Labels
<1>4. Script!OneEntryPerKeyAndPort /\ Script!TimersInLiveEntries
  BY <1>2, <1>3 DEF Script!OneEntryPerKeyAndPort, Script!TimersInLiveEntries
<1>5. PortsCounted /\ ResetWhenSeen /\ NotDueAtManage
  BY <1>2, ScriptConstants DEF PortsCounted, ResetWhenSeen, NotDueAtManage, Script!Init
<1> QED
  BY <1>1, <1>4, <1>5 DEF ScriptInv, Script!Init

LEMMA ScriptNumbers ==
    ASSUME ScriptInv
    PROVE  /\ Script!TypeOK
           /\ idle \in Nat /\ idle <= Idle + 1
           /\ nap \in Nat /\ lost \in Nat /\ lost <= Late
           /\ timer \in [Entries -> 0..Script!Off]
           /\ \A a \in Entries : timer[a] \in Nat /\ timer[a] <= Timeout + 1
           /\ \A a \in Script!Armed : a \in Entries /\ timer[a] \in 0..Timeout
<1>1. Script!TypeOK
  BY DEF ScriptInv, Script!OneEntryPerKeyAndPort
<1>2. timer \in [Entries -> 0..Script!Off] /\ Script!Off = Timeout + 1 /\ Timeout \in Nat
  BY <1>1, ScriptConstants DEF Script!TypeOK
<1>3. \A a \in Entries : timer[a] \in Nat /\ timer[a] <= Timeout + 1
  BY <1>2
<1>4. \A a \in Script!Armed : a \in Entries /\ timer[a] \in 0..Timeout
  BY <1>2, <1>3 DEF Script!Armed
<1>5. idle \in 0..Idle + 1 /\ nap \in Nat /\ lost \in 0..Late
  BY <1>1 DEF Script!TypeOK
<1> QED
  BY <1>1, <1>2, <1>3, <1>4, <1>5, ScriptConstants

LEMMA ScriptTick == ASSUME ScriptInv, Script!Tick PROVE ScriptInv'
<1>0. /\ UNCHANGED <<script, pkt, nat_table, heap, key, private, public_port, next_port,
                     table_cleared, script_pc, served>>
      /\ nap > 0 \/ lost < Late
      /\ nap' = IF nap > 0 THEN nap - 1 ELSE 0
      /\ lost' = IF nap > 0 THEN 0 ELSE lost + 1
      /\ idle' = IF idle + 1 <= Idle + 1 THEN idle + 1 ELSE Idle + 1
      /\ timer' = [a \in Entries |-> IF timer[a] \in {0, Script!Off} THEN timer[a] ELSE timer[a] - 1]
  BY DEF Script!Tick, Script!Lesser
<1>1. Idle \in Nat /\ Late \in Nat /\ Timeout \in Nat /\ Script!Off = Timeout + 1
  BY ScriptConstants
<1>2. idle' \in 0..Idle + 1 /\ idle' <= idle + 1
  BY <1>0, <1>1, ScriptNumbers
<1>3. nap' \in Nat /\ lost' \in 0..Late /\ (nap = 0 => nap' = 0 /\ lost' = lost + 1)
  <2>1. CASE nap > 0
    BY <1>0, <1>1, <2>1, ScriptNumbers
  <2>2. CASE ~(nap > 0)
    BY <1>0, <1>1, <2>2, ScriptNumbers
  <2> QED  BY <2>1, <2>2
<1>4. \A a \in Entries : /\ timer'[a] = IF timer[a] \in {0, Script!Off} THEN timer[a] ELSE timer[a] - 1
                         /\ timer'[a] \in 0..Script!Off
                         /\ timer'[a] = Script!Off <=> timer[a] = Script!Off
  <2>1. SUFFICES ASSUME NEW a \in Entries
                 PROVE  /\ timer'[a] = IF timer[a] \in {0, Script!Off} THEN timer[a] ELSE timer[a] - 1
                        /\ timer'[a] \in 0..Script!Off
                        /\ timer'[a] = Script!Off <=> timer[a] = Script!Off
    OBVIOUS
  <2>2. timer'[a] = IF timer[a] \in {0, Script!Off} THEN timer[a] ELSE timer[a] - 1
    BY <1>0, <2>1
  <2>3. timer[a] \in Nat /\ timer[a] <= Timeout + 1
    BY <2>1, ScriptNumbers
  <2> QED  BY <1>1, <2>2, <2>3
<1>5. timer' \in [Entries -> 0..Script!Off]
  BY <1>0, <1>4
<1>6. Script!Armed' = Script!Armed
  BY <1>4 DEF Script!Armed
<1>7. Script!TypeOK'
  BY <1>0, <1>2, <1>3, <1>5, ScriptNumbers DEF Script!TypeOK
<1>8. Script!Mapped' = Script!Mapped
  BY <1>0 DEF Script!Mapped
<1>9. Script!OneEntryPerKeyAndPort' /\ Script!TimersInLiveEntries'
  BY <1>0, <1>6, <1>7, <1>8 DEF ScriptInv, Script!OneEntryPerKeyAndPort, Script!TimersInLiveEntries
<1>10. PortsCounted'
  BY <1>0 DEF ScriptInv, PortsCounted
<1>11. ResetWhenSeen'
  <2>1. SUFFICES ASSUME NEW a \in Script!Armed PROVE timer'[a] = 0 \/ timer'[a] + idle' <= Timeout
    BY <1>6 DEF ResetWhenSeen
  <2>2. a \in Entries /\ timer[a] # Script!Off
    BY DEF Script!Armed
  <2>3. timer[a] \in Nat /\ (timer[a] = 0 \/ timer[a] + idle <= Timeout)
    BY <2>2, ScriptNumbers DEF ScriptInv, ResetWhenSeen
  <2>4. CASE timer[a] = 0
    BY <1>4, <2>2, <2>4
  <2>5. CASE timer[a] # 0
    <3>1. timer'[a] = timer[a] - 1
      BY <1>4, <2>2, <2>5
    <3> QED  BY <1>1, <1>2, <2>3, <2>5, <3>1, ScriptNumbers
  <2> QED  BY <2>4, <2>5
<1>12. NotDueAtManage'
  <2>1. SUFFICES ASSUME script_pc[1] = "check" PROVE nap' = 0 /\ \A a \in Script!Armed : idle' < Timeout + lost'
    BY <1>0, <1>6 DEF NotDueAtManage
  <2>2. nap = 0 /\ \A a \in Script!Armed : idle < Timeout + lost
    BY <2>1 DEF ScriptInv, NotDueAtManage
  <2> QED  BY <1>1, <1>2, <1>3, <2>2, ScriptNumbers
<1> QED
  BY <1>0, <1>9, <1>10, <1>11, <1>12 DEF ScriptInv

LEMMA ScriptSleep == ASSUME ScriptInv, Script!Sleep PROVE ScriptInv'
<1>0. Script!TypeOK /\ Late \in Nat
  BY ScriptNumbers, ScriptConstants
<1>1. /\ script_pc[1] = "script" /\ script[script_pc[2]][1] = "sleep" /\ script_pc' = Script!After(script_pc[2])
      /\ nap' = script[script_pc[2]][2] /\ lost' = 0 /\ script' = script
      /\ UNCHANGED <<pkt, nat_table, heap, key, private, public_port, timer, next_port, idle,
                     table_cleared, served>>
  BY DEF Script!Sleep, Script!ScriptStep, Script!Call, Script!Arg, Script!entries
<1>2. script[script_pc[2]] \in Script!Step
  BY <1>1, NextLabel, ElementOfSeq
<1>3. nap' \in Nat
  BY <1>1, <1>2 DEF Script!Step
<1>4. script_pc' \in Labels /\ script_pc'[1] # "check" 
  BY <1>1, NextLabel
<1>5. Script!TypeOK'
  BY <1>0, <1>1, <1>3, <1>4 DEF Script!TypeOK, Labels
<1>6. Script!Armed' = Script!Armed /\ Script!Mapped' = Script!Mapped
  BY <1>1 DEF Script!Armed, Script!Mapped
<1>7. Script!OneEntryPerKeyAndPort' /\ Script!TimersInLiveEntries'
  BY <1>1, <1>5, <1>6 DEF ScriptInv, Script!OneEntryPerKeyAndPort, Script!TimersInLiveEntries
<1>8. PortsCounted' /\ ResetWhenSeen' /\ NotDueAtManage'
  BY <1>1, <1>4, <1>6 DEF ScriptInv, PortsCounted, ResetWhenSeen, NotDueAtManage
<1> QED
  BY <1>1, <1>7, <1>8 DEF ScriptInv

\* What every process_packet does, and what a refreshed timer does to the bounds.
LEMMA ScriptPacket ==
    ASSUME ScriptInv, NEW p \in Packets, Script!ProcessPacket(p)
    PROVE  /\ idle' = 0 /\ table_cleared' = FALSE /\ nap' = nap /\ lost' = 0 /\ script' = script
           /\ script_pc[1] = "script" /\ script_pc' \in Labels /\ script_pc'[1] # "check"
           /\ pkt[p] \in [ingress : BOOLEAN, end : Script!Endpoints]
           /\ idle' \in 0..Idle + 1 /\ lost' \in 0..Late /\ nap' \in Nat /\ table_cleared' \in BOOLEAN
<1>1. /\ idle' = 0 /\ table_cleared' = FALSE /\ nap' = nap /\ lost' = 0 /\ script' = script
      /\ script_pc[1] = "script" /\ script_pc' = Script!After(script_pc[2])
  BY DEF Script!ProcessPacket, Script!ScriptStep, Script!Call
<1>2. pkt[p] \in [ingress : BOOLEAN, end : Script!Endpoints]
  BY ScriptNumbers DEF Script!TypeOK
<1>3. 0 \in 0..Idle + 1 /\ 0 \in 0..Late /\ nap \in Nat
  BY ScriptConstants, ScriptNumbers
<1>4. table_cleared' \in BOOLEAN
  BY <1>1, Zenon
<1>5. idle' \in 0..Idle + 1 /\ lost' \in 0..Late /\ nap' \in Nat
  BY <1>1, <1>3
<1> QED
  BY <1>1, <1>2, <1>4, <1>5, NextLabel

LEMMA ScriptRefresh ==
    ASSUME ScriptInv, NEW a \in Entries, Script!RefreshTimer(a), idle' = 0
    PROVE  /\ timer' \in [Entries -> 0..Script!Off]
           /\ Script!Armed' = Script!Armed \cup {a}
           /\ ResetWhenSeen'
<1>0. Timeout \in Nat /\ Script!Off = Timeout + 1
  BY ScriptConstants
<1>1. /\ timer' \in [Entries -> 0..Script!Off] /\ timer'[a] = Timeout
      /\ \A b \in Entries : b # a => timer'[b] = timer[b]
  BY <1>0, ScriptNumbers DEF Script!RefreshTimer
<1>2. Script!Armed' = Script!Armed \cup {a}
  BY <1>0, <1>1 DEF Script!Armed
<1>3. \A b \in Script!Armed' : timer'[b] \in 0..Timeout
  BY <1>0, <1>1, <1>2, ScriptNumbers
<1>4. ResetWhenSeen'
  BY <1>0, <1>3 DEF ResetWhenSeen
<1> QED
  BY <1>1, <1>2, <1>4

\* A packet whose entry is there: a of the table's entries is refreshed.
LEMMA ScriptHit ==
    ASSUME ScriptInv, NEW p \in Packets, Script!ProcessPacket(p),
           NEW a \in heap, Script!RefreshTimer(a),
           NEW x \in Script!Endpoints, pkt' = [pkt EXCEPT ![p].end = x],
           served' = [served EXCEPT ![p] = a],
           UNCHANGED <<nat_table, heap, key, private, public_port, next_port>>
    PROVE  ScriptInv'
<1>0. Script!TypeOK /\ a \in Entries
  BY ScriptNumbers DEF Script!TypeOK
<1>1. /\ timer' \in [Entries -> 0..Script!Off] /\ Script!Armed' = Script!Armed \cup {a} /\ ResetWhenSeen'
  BY <1>0, ScriptPacket, ScriptRefresh
<1>2. Script!Armed' = Script!Armed /\ Script!Mapped' = Script!Mapped
  BY <1>1 DEF ScriptInv, Script!TimersInLiveEntries, Script!Mapped
<1>3. pkt' \in [Packets -> [ingress : BOOLEAN, end : Script!Endpoints]]
  BY <1>0, ScriptPacket DEF Script!TypeOK
<1>4. served' \in [Packets -> Entries \cup {None}]
  BY <1>0 DEF Script!TypeOK
<1>6. Script!TypeOK'
  BY <1>0, <1>1, <1>3, <1>4, ScriptPacket DEF Script!TypeOK, Labels
<1>7. Script!OneEntryPerKeyAndPort' /\ Script!TimersInLiveEntries'
  BY <1>2, <1>6 DEF ScriptInv, Script!OneEntryPerKeyAndPort, Script!TimersInLiveEntries
<1>8. PortsCounted' /\ NotDueAtManage'
  BY ScriptPacket DEF ScriptInv, PortsCounted, NotDueAtManage
<1> QED
  BY <1>1, <1>7, <1>8, ScriptPacket DEF ScriptInv

LEMMA ScriptEgressHit ==
    ASSUME ScriptInv, NEW p \in Packets, NEW padding \in Padding,
           Script!EgressHit(p, padding)
    PROVE  ScriptInv'
<1>. DEFINE a == nat_table[<<pkt[p].end, padding>>]
<1>1. /\ Script!ProcessPacket(p) /\ a # None /\ Script!RefreshTimer(a)
      /\ pkt' = [pkt EXCEPT ![p].end = public_port[a]] /\ served' = [served EXCEPT ![p] = a]
      /\ UNCHANGED <<nat_table, heap, key, private, public_port, next_port>>
  BY DEF Script!EgressHit
<1>2. <<pkt[p].end, padding>> \in Script!Keys
  BY <1>1, ScriptPacket DEF Script!Keys
<1>3. a \in heap
  BY <1>1, <1>2 DEF ScriptInv, Script!OneEntryPerKeyAndPort, Script!Mapped
<1>4. public_port[a] \in Script!Endpoints
  BY <1>3, ScriptNumbers, ScriptConstants DEF Script!TypeOK
<1>. HIDE DEF a
<1> QED
  BY <1>1, <1>3, <1>4, ScriptHit

LEMMA ScriptIngress ==
    ASSUME ScriptInv, NEW p \in Packets, Script!Ingress(p)
    PROVE  ScriptInv'
<1>1. Script!ProcessPacket(p) /\ UNCHANGED <<nat_table, heap, key, private, public_port, next_port>>
  BY DEF Script!Ingress
<1>2. CASE \E a \in Script!Matching(p) : /\ pkt' = [pkt EXCEPT ![p].end = private[a]]
                                         /\ Script!RefreshTimer(a)
                                         /\ served' = [served EXCEPT ![p] = a]
  <2>1. PICK a \in Script!Matching(p) : /\ pkt' = [pkt EXCEPT ![p].end = private[a]]
                                        /\ Script!RefreshTimer(a)
                                        /\ served' = [served EXCEPT ![p] = a]
    BY <1>2
  <2>2. a \in heap
    BY DEF Script!Matching, ScriptInv, Script!OneEntryPerKeyAndPort
  <2>3. private[a] \in Script!Endpoints
    BY <2>2, ScriptNumbers DEF Script!TypeOK
  <2> QED  BY <1>1, <2>1, <2>2, <2>3, ScriptHit
<1>3. CASE UNCHANGED <<pkt, timer, served>>
  <2>1. Script!TypeOK'
    BY <1>1, <1>3, ScriptPacket, ScriptNumbers DEF Script!TypeOK, Labels
  <2>2. Script!Armed' = Script!Armed /\ Script!Mapped' = Script!Mapped
    BY <1>1, <1>3 DEF Script!Armed, Script!Mapped
  <2>3. Script!OneEntryPerKeyAndPort' /\ Script!TimersInLiveEntries'
    BY <1>1, <2>1, <2>2 DEF ScriptInv, Script!OneEntryPerKeyAndPort, Script!TimersInLiveEntries
  <2>4. ResetWhenSeen'
    <3>1. \A a \in Script!Armed : timer[a] \in 0..Timeout /\ Timeout \in Nat
      BY ScriptNumbers, ScriptConstants
    <3>2. idle' = 0
      BY <1>1, ScriptPacket
    <3> QED  BY <1>3, <2>2, <3>1, <3>2 DEF ResetWhenSeen
  <2>5. PortsCounted' /\ NotDueAtManage'
    BY <1>1, ScriptPacket DEF ScriptInv, PortsCounted, NotDueAtManage
  <2> QED  BY <1>1, <2>3, <2>4, <2>5, ScriptPacket DEF ScriptInv
<1> QED
  BY <1>2, <1>3 DEF Script!Ingress

LEMMA ScriptEgressNew ==
    ASSUME ScriptInv, NEW p \in Packets, NEW padding \in Padding, NEW a \in Entries,
           Script!EgressNew(p, padding, a)
    PROVE  ScriptInv'
<1>. DEFINE k == <<pkt[p].end, padding>>
<1>0. Script!TypeOK
  BY ScriptNumbers
<1>1. /\ Script!ProcessPacket(p) /\ nat_table[k] = None /\ a \notin heap
      /\ heap' = heap \cup {a}
      /\ key' = [key EXCEPT ![a] = k] /\ private' = [private EXCEPT ![a] = pkt[p].end]
      /\ public_port' = [public_port EXCEPT ![a] = next_port] /\ next_port' = next_port + 1
      /\ nat_table' = [nat_table EXCEPT ![k] = a] /\ Script!RefreshTimer(a)
      /\ pkt' = [pkt EXCEPT ![p].end = next_port] /\ served' = [served EXCEPT ![p] = a]
  BY DEF Script!EgressNew
<1>2. k \in Script!Keys /\ pkt[p].end \in Script!Endpoints
  BY <1>1, ScriptPacket DEF Script!Keys
<1>. HIDE DEF k
<1>3. /\ timer' \in [Entries -> 0..Script!Off] /\ Script!Armed' = Script!Armed \cup {a} /\ ResetWhenSeen'
  BY <1>1, ScriptPacket, ScriptRefresh
<1>4. heap \subseteq Entries /\ IsFiniteSet(heap) /\ Cardinality(heap) \in Nat
  BY <1>0, ScriptConstants, FS_Subset, FS_CardinalityType DEF Script!TypeOK
<1>5. /\ Cardinality(heap') = Cardinality(heap) + 1
      /\ Cardinality(heap') <= Cardinality(Entries)
  <2>1. heap' \subseteq Entries
    BY <1>1, <1>4
  <2> QED  BY <1>1, <1>4, <2>1, ScriptConstants, FS_AddElement, FS_Subset
<1>6. /\ next_port = FirstPort + Cardinality(heap) /\ FirstPort \in Nat
      /\ next_port \in Script!PublicPorts /\ next_port' \in Script!PublicPorts
      /\ next_port \in Nat
  <2>1. next_port = FirstPort + Cardinality(heap)
    BY <1>1, ScriptPacket DEF ScriptInv, PortsCounted
  <2> QED  BY <1>1, <1>4, <1>5, <2>1, ScriptConstants
<1>7. /\ pkt' \in [Packets -> [ingress : BOOLEAN, end : Script!Endpoints]]
      /\ served' \in [Packets -> Entries \cup {None}]
  <2>1. next_port \in Script!Endpoints
    BY <1>6, ScriptConstants
  <2>2. pkt \in [Packets -> [ingress : BOOLEAN, end : Script!Endpoints]] /\ pkt' = [pkt EXCEPT ![p].end = next_port]
    BY <1>0, <1>1 DEF Script!TypeOK
  <2>3. pkt' \in [Packets -> [ingress : BOOLEAN, end : Script!Endpoints]]
    BY <2>1, <2>2
  <2>4. served' \in [Packets -> Entries \cup {None}]
    BY <1>0, <1>1 DEF Script!TypeOK
  <2> QED  BY <2>3, <2>4
<1>8. /\ nat_table' \in [Script!Keys -> Entries \cup {None}] /\ nat_table'[k] = a
      /\ \A j \in Script!Keys : j # k => nat_table'[j] = nat_table[j]
  BY <1>0, <1>1, <1>2 DEF Script!TypeOK
<1>9. /\ DOMAIN key' = Entries /\ DOMAIN private' = Entries /\ DOMAIN public_port' = Entries
      /\ key'[a] = k /\ private'[a] = pkt[p].end /\ public_port'[a] = next_port
      /\ \A b \in Entries : b # a => /\ key'[b] = key[b] /\ private'[b] = private[b]
                                     /\ public_port'[b] = public_port[b]
  BY <1>1 DEF ScriptInv
<1>10. /\ script' = script /\ script_pc' \in Labels /\ table_cleared' \in BOOLEAN
       /\ idle' \in 0..Idle + 1 /\ lost' \in 0..Late /\ nap' \in Nat
  BY <1>1, ScriptPacket
<1>11. \A b \in heap' : /\ key'[b] \in Script!Keys /\ private'[b] \in Script!Endpoints
                        /\ public_port'[b] \in Script!PublicPorts
  BY <1>0, <1>1, <1>2, <1>4, <1>6, <1>9 DEF Script!TypeOK
<1>12. Script!TypeOK'
  <2>1. heap' \subseteq Entries
    BY <1>1, <1>4
  <2> QED  BY <1>3, <1>6, <1>7, <1>8, <1>10, <1>11, <2>1 DEF Script!TypeOK, Labels
<1>13. Script!TimersInLiveEntries'
  BY <1>1, <1>3 DEF ScriptInv, Script!TimersInLiveEntries
<1>14. /\ \A b \in heap : public_port[b] \in Nat /\ public_port[b] < next_port
  <2>1. \A b \in heap : public_port[b] < next_port
    BY DEF ScriptInv, PortsCounted
  <2>2. \A b \in heap : public_port[b] \in Nat
    <3>1. \A b \in heap : public_port[b] \in Script!PublicPorts
      BY <1>0 DEF Script!TypeOK
    <3> QED  BY <3>1, ScriptConstants
  <2> QED  BY <2>1, <2>2
<1>15. \A b, c \in heap' : public_port'[b] = public_port'[c] => b = c
  <2>1. SUFFICES ASSUME NEW b \in heap', NEW c \in heap', public_port'[b] = public_port'[c], b # c
                 PROVE  FALSE
    OBVIOUS
  <2>2. CASE b # a /\ c # a
    BY <1>1, <1>4, <1>9, <2>1, <2>2 DEF ScriptInv, Script!OneEntryPerKeyAndPort
  <2>3. CASE b = a
    BY <1>1, <1>4, <1>6, <1>9, <1>14, <2>1, <2>3
  <2>4. CASE c = a
    BY <1>1, <1>4, <1>6, <1>9, <1>14, <2>1, <2>4
  <2> QED  BY <2>2, <2>3, <2>4
<1>16. /\ \A j \in Script!Mapped' : nat_table'[j] \in heap' /\ key'[nat_table'[j]] = j
       /\ \A b \in heap' : nat_table'[key'[b]] = b
  <2>1. /\ \A j \in Script!Mapped : nat_table[j] \in heap /\ key[nat_table[j]] = j
        /\ \A b \in heap : nat_table[key[b]] = b /\ key[b] \in Script!Keys
    BY <1>0 DEF ScriptInv, Script!OneEntryPerKeyAndPort, Script!TypeOK
  <2>2. ASSUME NEW j \in Script!Mapped' PROVE nat_table'[j] \in heap' /\ key'[nat_table'[j]] = j
    <3>1. CASE j = k
      BY <1>1, <1>8, <1>9, <3>1
    <3>2. CASE j # k
      <4>1. j \in Script!Mapped /\ nat_table'[j] = nat_table[j]
        BY <1>8, <2>2, <3>2 DEF Script!Mapped
      <4> QED  BY <1>1, <1>4, <1>9, <2>1, <4>1
    <3> QED  BY <3>1, <3>2
  <2>3. ASSUME NEW b \in heap' PROVE nat_table'[key'[b]] = b
    <3>1. CASE b = a
      BY <1>8, <1>9, <3>1
    <3>2. CASE b # a
      <4>1. b \in heap /\ key'[b] = key[b] /\ key[b] \in Script!Keys /\ nat_table[key[b]] = b
        BY <1>1, <1>4, <1>9, <2>1, <2>3, <3>2
      <4>2. key[b] # k
        BY <1>1, <4>1, <1>4, ScriptConstants
      <4> QED  BY <1>8, <4>1, <4>2
    <3> QED  BY <3>1, <3>2
  <2> QED  BY <2>2, <2>3
<1>17. Script!OneEntryPerKeyAndPort'
  BY <1>12, <1>15, <1>16 DEF Script!OneEntryPerKeyAndPort
<1>18. PortsCounted'
  <2>1. next_port' = FirstPort + Cardinality(heap')
    BY <1>1, <1>4, <1>5, <1>6
  <2>2. \A b \in heap' : public_port'[b] < next_port'
    <3>1. ASSUME NEW b \in heap' PROVE public_port'[b] < next_port'
      <4>1. CASE b = a
        BY <1>1, <1>6, <1>9, <4>1
      <4>2. CASE b # a
        BY <1>1, <1>4, <1>6, <1>9, <1>14, <3>1, <4>2
      <4> QED  BY <4>1, <4>2
    <3> QED  BY <3>1
  <2> QED  BY <2>1, <2>2 DEF PortsCounted
<1>19. NotDueAtManage'
  BY <1>1, ScriptPacket DEF NotDueAtManage
<1> QED
  BY <1>1, <1>3, <1>9, <1>13, <1>17, <1>18, <1>19, ScriptPacket DEF ScriptInv

LEMMA ScriptManage == ASSUME ScriptInv, Script!TimerManage PROVE ScriptInv'
<1>. DEFINE due == {a \in Entries : timer[a] = 0}
<1>0. Script!TypeOK
  BY ScriptNumbers
<1>1. /\ nap = 0 /\ script_pc[1] = "manage" /\ lost' = 0 /\ script_pc' = <<"check", script_pc[2]>>
      /\ UNCHANGED <<script, pkt, key, private, public_port, next_port, idle, table_cleared, nap, served>>
      /\ heap' = heap \ due
      /\ timer' = [a \in Entries |-> IF a \in due THEN Script!Off ELSE timer[a]]
      /\ nat_table' = [k \in Script!Keys |-> IF \E a \in due : key[a] = k THEN None ELSE nat_table[k]]
  BY DEF Script!TimerManage, Script!Call, Script!FlowTimeout
<1>2. Timeout \in Nat /\ Script!Off = Timeout + 1 /\ Late \in Nat
  BY ScriptConstants
<1>3. timer' \in [Entries -> 0..Script!Off] /\ nat_table' \in [Script!Keys -> Entries \cup {None}]
  BY <1>0, <1>1, <1>2, ScriptNumbers DEF Script!TypeOK
<1>4. script_pc' \in Labels /\ script_pc'[1] = "check" /\ lost' \in 0..Late
  <2>1. script_pc[2] \in {0, 1}
    BY <1>1, NextLabel
  <2> QED  BY <1>1, <1>2, <2>1 DEF Labels
<1>5. Script!TypeOK'
  BY <1>0, <1>1, <1>3, <1>4 DEF Script!TypeOK, Labels
<1>6. Script!Armed' = Script!Armed \ due
  BY <1>1, <1>2 DEF Script!Armed
<1>7. Script!TimersInLiveEntries'
  BY <1>1, <1>6 DEF ScriptInv, Script!TimersInLiveEntries
<1>8. Script!OneEntryPerKeyAndPort'
  <2>1. \A k \in Script!Mapped' : /\ k \in Script!Mapped /\ nat_table'[k] = nat_table[k]
                                  /\ \A a \in due : key[a] # k
    BY <1>1 DEF Script!Mapped
  <2>2. \A k \in Script!Mapped' : nat_table'[k] \in heap' /\ key'[nat_table'[k]] = k
    BY <1>1, <2>1 DEF ScriptInv, Script!OneEntryPerKeyAndPort
  <2>3. ASSUME NEW a \in heap' PROVE nat_table'[key'[a]] = a
    <3>1. a \in heap /\ a \notin due /\ key'[a] = key[a] /\ key[a] \in Script!Keys /\ nat_table[key[a]] = a
      BY <1>0, <1>1, <2>3 DEF ScriptInv, Script!OneEntryPerKeyAndPort, Script!TypeOK
    <3>2. \A b \in due : b \in heap /\ nat_table[key[b]] = b
      BY <1>2 DEF ScriptInv, Script!TimersInLiveEntries, Script!Armed, Script!OneEntryPerKeyAndPort
    <3> QED  BY <1>1, <3>1, <3>2
  <2> QED  BY <1>1, <1>5, <2>2, <2>3 DEF ScriptInv, Script!OneEntryPerKeyAndPort
<1>9. PortsCounted'
  BY <1>1, <1>4 DEF ScriptInv, PortsCounted
<1>10. ResetWhenSeen'
  BY <1>1, <1>6 DEF ScriptInv, ResetWhenSeen, Script!Armed
<1>11. NotDueAtManage'
  <2>1. ASSUME NEW a \in Script!Armed' PROVE idle < Timeout + 0
    <3>1. a \in Script!Armed /\ timer[a] # 0 /\ a \in Entries
      BY <1>6, <2>1 DEF Script!Armed
    <3>2. timer[a] \in Nat /\ timer[a] + idle <= Timeout
      BY <3>1, ScriptNumbers DEF ScriptInv, ResetWhenSeen
    <3> QED  BY <1>2, <3>1, <3>2, ScriptNumbers
  <2> QED  BY <1>1, <2>1 DEF NotDueAtManage
<1> QED
  BY <1>1, <1>7, <1>8, <1>9, <1>10, <1>11 DEF ScriptInv

\* The loop never finds an entry to clear: it is idle for too short a time.
LEMMA ScriptClear == ASSUME ScriptInv, Script!CheckGlobalIdle PROVE ScriptInv'
<1>0. Script!TypeOK
  BY ScriptNumbers
<1>1. /\ nap = 0 /\ script_pc[1] = "check" /\ lost' = 0 /\ script_pc' = <<"manage", 1>> /\ nap' = 1
      /\ UNCHANGED <<script, pkt, key, private, public_port, timer, next_port, idle, served>>
  BY DEF Script!CheckGlobalIdle, Script!Call
<1>2. Script!ClearDue => heap = {} /\ Script!Mapped = {}
  <2>1. SUFFICES ASSUME Script!ClearDue PROVE heap = {} /\ Script!Mapped = {}
    OBVIOUS
  <2>2. \A a \in Script!Armed : idle < Timeout + lost
    BY <1>1 DEF ScriptInv, NotDueAtManage
  <2>3. idle > Idle
    BY <2>1 DEF Script!ClearDue
  <2>4. \A a \in Script!Armed : FALSE
    BY <2>2, <2>3, ScriptNumbers, ScriptConstants
  <2>5. heap = {}
    BY <2>4 DEF ScriptInv, Script!TimersInLiveEntries
  <2> QED  BY <2>5 DEF ScriptInv, Script!OneEntryPerKeyAndPort
<1>3. UNCHANGED <<heap, nat_table>> /\ table_cleared' \in BOOLEAN
  <2>1. CASE Script!ClearDue
    <3>1. /\ heap' = heap \ {nat_table[k] : k \in Script!Mapped}
          /\ nat_table' = [k \in Script!Keys |-> None] /\ table_cleared' = TRUE
      BY <2>1 DEF Script!CheckGlobalIdle
    <3>2. \A k \in Script!Keys : nat_table[k] = None
      BY <1>2, <2>1 DEF Script!Mapped
    <3>3. nat_table' = nat_table
      BY <1>0, <3>1, <3>2 DEF Script!TypeOK
    <3>4. table_cleared' \in BOOLEAN
      BY <3>1, Zenon
    <3> QED  BY <1>2, <2>1, <3>1, <3>3, <3>4
  <2>2. CASE ~Script!ClearDue
    <3>1. UNCHANGED <<heap, nat_table, table_cleared>>
      BY <2>2 DEF Script!CheckGlobalIdle
    <3>2. table_cleared' \in BOOLEAN
      BY <1>0, <3>1, Zenon DEF Script!TypeOK
    <3> QED  BY <3>1, <3>2
  <2> QED  BY <2>1, <2>2
<1>4. script_pc' \in Labels /\ script_pc'[1] = "manage" /\ nap' \in Nat
  BY <1>1 DEF Labels
<1>5. lost' \in 0..Late
  BY <1>1, ScriptConstants
<1>6. Script!TypeOK'
  BY <1>0, <1>1, <1>3, <1>4, <1>5 DEF Script!TypeOK, Labels
<1>7. Script!Armed' = Script!Armed /\ Script!Mapped' = Script!Mapped
  BY <1>1, <1>3 DEF Script!Armed, Script!Mapped
<1>8. Script!OneEntryPerKeyAndPort' /\ Script!TimersInLiveEntries'
  BY <1>1, <1>3, <1>6, <1>7 DEF ScriptInv, Script!OneEntryPerKeyAndPort, Script!TimersInLiveEntries
<1>9. PortsCounted' /\ ResetWhenSeen' /\ NotDueAtManage'
  BY <1>1, <1>3, <1>4, <1>7 DEF ScriptInv, PortsCounted, ResetWhenSeen, NotDueAtManage
<1> QED
  BY <1>1, <1>8, <1>9 DEF ScriptInv

LEMMA ScriptStutter == ASSUME ScriptInv, UNCHANGED script_vars PROVE ScriptInv'
<1>1. Script!Armed' = Script!Armed /\ Script!Mapped' = Script!Mapped
  BY DEF script_vars, Script!Armed, Script!Mapped
<1>2. Script!TypeOK'
  BY DEF script_vars, ScriptInv, Script!OneEntryPerKeyAndPort, Script!TypeOK
<1> QED
  BY <1>1, <1>2 DEF script_vars, ScriptInv, Script!OneEntryPerKeyAndPort,
                    Script!TimersInLiveEntries, PortsCounted, ResetWhenSeen, NotDueAtManage

LEMMA ScriptStep == ScriptInv /\ [Script!Next]_script_vars => ScriptInv'
<1>. SUFFICES ASSUME ScriptInv, [Script!Next]_script_vars PROVE ScriptInv'
  OBVIOUS
<1>1. CASE Script!Traffic
  BY <1>1, ScriptEgressHit, ScriptEgressNew, ScriptIngress DEF Script!Traffic
<1> QED
  BY <1>1, ScriptTick, ScriptSleep, ScriptManage, ScriptClear, ScriptStutter DEF Script!Next, Script!Main

\* However long the script sleeps past the timeouts, no timer is armed in freed
\* memory and each entry in memory has one (nwt.c:84-92, 181-188): with any
\* scripts, packets and entries, and a loop that is late by Late at most.
THEOREM ScriptTimersLive == Spec => []TimersInLiveEntries
<1>1. ScriptInv => TimersInLiveEntries
  BY DEF ScriptInv, TimersInLiveEntries
<1> QED
  BY <1>1, Apart, ScriptInit, ScriptStep, PTL DEF Spec, Init

\* The table leads to each entry by the key stored in it, whatever the padding,
\* and no public port is given out twice (nwt.c:121-130).
THEOREM ScriptEntriesSound == Spec => []OneEntryPerKeyAndPort
<1>1. ScriptInv => OneEntryPerKeyAndPort
  BY DEF ScriptInv, OneEntryPerKeyAndPort
<1> QED
  BY <1>1, Apart, ScriptInit, ScriptStep, PTL DEF Spec, Init
=============================================================================
