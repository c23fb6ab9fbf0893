----------------------------- MODULE TimerLoop -----------------------------
(***************************************************************************)
(* The programs of src/TIMER: main.c sets one timer of 3 s and calls       *)
(* rte_timer_manage all the time ("one"); Multiple_timers/multi.c sets     *)
(* five, of 1, 3, 2, 5 and 4 s, and sleeps 3 s between calls ("five").     *)
(* Time passes in ticks; the program is never held up for longer than      *)
(* MaxLag of them, apart from its sleeps.                                  *)
(***************************************************************************)
EXTENDS Integers, Sequences

CONSTANTS Hz,           \* ticks in a second
          MaxLag,
          None          \* a timer that is not pending

\* A program held up for a second between two calls may set timers in the order
\* their delays do not have.
LagAssumption == Hz \in Nat /\ MaxLag \in Nat /\ MaxLag < Hz /\ None \notin Int

Delay == [one |-> <<3>>, five |-> <<1, 3, 2, 5, 4>>]
Pause == [one |-> 0, five |-> 3]

VARIABLES prog,
          next,         \* the next timer to set
          left,         \* ticks until each is due, negative if overdue, or None
          sleep,        \* ticks left to sleep
          lag,          \* ticks since the program could have gone on
          fired         \* history: the timers whose callback has run, in order

vars == <<prog, next, left, sleep, lag, fired>>
Timers == DOMAIN Delay[prog]

Init ==
    /\ prog \in {"one", "five"}
    /\ next = 1
    /\ left = [t \in Timers |-> None]
    /\ sleep = 0
    /\ lag = 0
    /\ fired = <<>>

Tick ==
    /\ sleep > 0 \/ lag < MaxLag
    /\ left' = [t \in Timers |-> IF left[t] = None THEN None ELSE left[t] - 1]
    /\ IF sleep > 0 THEN sleep' = sleep - 1 /\ UNCHANGED lag
                    ELSE lag' = lag + 1 /\ UNCHANGED sleep
    /\ UNCHANGED <<prog, next, fired>>

Set ==                                  \* rte_timer_reset, SINGLE
    /\ next \in Timers
    /\ left' = [left EXCEPT ![next] = Delay[prog][next] * Hz]
    /\ next' = next + 1
    /\ lag' = 0
    /\ UNCHANGED <<prog, sleep, fired>>

\* The timers a call finds due; it runs their callbacks by expiry.
Due == {t \in Timers : left[t] # None /\ left[t] <= 0}
\* Mutant: the callbacks run in the order the timers were set.
BySetting(s) == \A i, j \in DOMAIN s : i < j => s[i] < s[j]
ByExpiry(s) == \A i, j \in DOMAIN s : i < j => s[i] # s[j] /\ left[s[i]] <= left[s[j]]

Manages == next \notin Timers /\ sleep = 0

Manage ==                               \* rte_timer_manage, then the sleep
    /\ Manages
    /\ \E k \in 0..Len(Delay[prog]) : \E run \in [1..k -> Due] :
         Due = {run[i] : i \in 1..k} /\ ByExpiry(run) /\ fired' = fired \o run
    /\ left' = [t \in Timers |-> IF t \in Due THEN None ELSE left[t]]
    /\ sleep' = Pause[prog] * Hz
    /\ lag' = 0
    /\ UNCHANGED <<prog, next>>

Next == Tick \/ Set \/ Manage

\* The program is on a CPU of its own, and time does not stop.
Spec == Init /\ [][Next]_vars
FairSpec == Spec /\ WF_vars(Tick) /\ WF_vars(Set) /\ WF_vars(Manage)

-----------------------------------------------------------------------------
\* The types of the variables; a timer that has fired is not set again.
TypeOK ==
    /\ prog \in {"one", "five"}
    /\ next \in 1..(Len(Delay[prog]) + 1)
    /\ \A t \in Timers : \/ left[t] = None
                         \/ left[t] \in Int /\ left[t] <= Delay[prog][t] * Hz
    /\ sleep \in 0..(Pause[prog] * Hz)
    /\ lag \in 0..MaxLag
    /\ fired \in Seq(Timers)
    /\ \A i \in DOMAIN fired : left[fired[i]] = None

\* Each timer fires at most once, and in the order of their delays, although
\* they are set in another order and several are found due by one call; and they
\* fire late by the sleep and a lag at most (multi.c:50-62), even those that are
\* due while the others are still being set.
OnTime == \A t \in Timers : left[t] # None => left[t] >= -(Pause[prog] * Hz + MaxLag)
FiresInTurn ==
    /\ TypeOK /\ OnTime
    /\ \A i, j \in DOMAIN fired : i < j => Delay[prog][fired[i]] < Delay[prog][fired[j]]
=============================================================================
