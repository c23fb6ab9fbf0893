----------------------------- MODULE MpMessage -----------------------------
(***************************************************************************)
(* src/IPC_using_rte_mp_msg: the primary process sends the same message    *)
(* every five seconds; a secondary registers a handler for it and waits.   *)
(* Processes start in any order and crash at any time, and a message that  *)
(* comes before the handler is registered, or to nobody, is dropped.       *)
(***************************************************************************)
EXTENDS Naturals, FiniteSets

CONSTANTS Secondaries,
          MaxStarts     \* bound: how often each process is started

VARIABLES primary,      \* "down", "sending", "asleep"
          second,       \* each: "down", "eal" (no handler yet), "registered"
          inbox,        \* secondaries whose socket holds a message unread
          told,         \* secondaries whose handler has run since their start
          starts        \* times each process has been started

vars == <<primary, second, inbox, told, starts>>
Processes == {"primary"} \cup Secondaries

Init ==
    /\ primary = "down"
    /\ second = [s \in Secondaries |-> "down"]
    /\ inbox = {} /\ told = {}
    /\ starts = [p \in Processes |-> 0]

Start(p) ==
    /\ starts[p] < MaxStarts
    /\ starts' = [starts EXCEPT ![p] = @ + 1]

PrimaryStart ==                         \* rte_eal_init, the message is built
    /\ primary = "down" /\ Start("primary")
    /\ primary' = "sending"
    /\ UNCHANGED <<second, inbox, told>>

\* Mutant: the message is sent only once.
PrimarySendsOnce ==
    /\ primary = "sending"
    /\ inbox' = inbox \cup {s \in Secondaries : second[s] # "down"}
    /\ primary' = "done"
    /\ UNCHANGED <<second, told, starts>>
PrimarySends ==                         \* rte_mp_sendmsg: to every socket
    /\ primary = "sending"
    /\ inbox' = inbox \cup {s \in Secondaries : second[s] # "down"}
    /\ primary' = "asleep"
    /\ UNCHANGED <<second, told, starts>>

PrimaryWakes ==                         \* sleep(5) is over
    /\ primary = "asleep"
    /\ primary' = "sending"
    /\ UNCHANGED <<second, inbox, told, starts>>

PrimaryCrash ==
    /\ primary # "down"
    /\ primary' = "down"
    /\ UNCHANGED <<second, inbox, told, starts>>

\* rte_eal_init attaches to the primary's memory: there must have been one.
SecondStart(s) ==
    /\ second[s] = "down" /\ starts["primary"] > 0 /\ Start(s)
    /\ second' = [second EXCEPT ![s] = "eal"]
    /\ UNCHANGED <<primary, inbox, told>>

Register(s) ==                          \* rte_mp_action_register
    /\ second[s] = "eal"
    /\ second' = [second EXCEPT ![s] = "registered"]
    /\ UNCHANGED <<primary, inbox, told, starts>>

\* The message thread: ready_handler, or nobody is registered.
Deliver(s) ==
    /\ s \in inbox
    /\ inbox' = inbox \ {s}
    /\ told' = IF second[s] = "registered" THEN told \cup {s} ELSE told
    /\ UNCHANGED <<primary, second, starts>>

SecondCrash(s) ==                       \* its socket goes with it
    /\ second[s] # "down"
    /\ second' = [second EXCEPT ![s] = "down"]
    /\ inbox' = inbox \ {s} /\ told' = told \ {s}
    /\ UNCHANGED <<primary, starts>>

Primary == PrimarySends \/ PrimaryWakes
Secondary(s) == Register(s) \/ Deliver(s)

Next ==
    \/ PrimaryStart \/ Primary \/ PrimaryCrash
    \/ \E s \in Secondaries : SecondStart(s) \/ Secondary(s) \/ SecondCrash(s)

Spec == Init /\ [][Next]_vars

\* A running process goes on, and its sleeps end; nothing makes one start.
FairSpec ==
    /\ Spec
    /\ WF_vars(Primary)
    /\ \A s \in Secondaries : WF_vars(Register(s)) /\ WF_vars(Deliver(s))

-----------------------------------------------------------------------------
\* The types of the variables; only a running secondary has mail.
TypeOK ==
    /\ primary \in {"down", "sending", "asleep"}
    /\ second \in [Secondaries -> {"down", "eal", "registered"}]
    /\ inbox \subseteq {s \in Secondaries : second[s] # "down"}
    /\ told \subseteq Secondaries
    /\ starts \in [Processes -> 0..MaxStarts]

\* A secondary that stays up while the primary does is told in the end, however
\* late it started or registered and whatever crashed before: the repetition at
\* primary.c:32-35 makes up for every message lost.
EveryoneTold ==
    \A s \in Secondaries :
        (second[s] # "down" /\ primary # "down")
            ~> (s \in told \/ second[s] = "down" \/ primary = "down")
=============================================================================
