------------------------------ MODULE MCDemos ------------------------------
(* Instances of Demos for TLC.                                              *)
EXTENDS Demos, TLC

\* Too short, headers only, minimal Ethernet, the longest header, a full frame.
McLengths == {0, 14, 33, 34, 38, 54, 58, 60, 77, 78, 1514}

CONSTANTS p1, p2, q, r, h1, h2

\* main's two packets, another one of p1's flow, and a reply to the first port.
MCInitially == (p1 :> [ingress |-> FALSE, end |-> h1]) @@
               (p2 :> [ingress |-> FALSE, end |-> h2]) @@
               (q  :> [ingress |-> FALSE, end |-> h1]) @@
               (r  :> [ingress |-> TRUE, end |-> FirstPort])

\* nwt.c:222-229
MainScript == <<<<"packet", p1>>, <<"sleep", 2>>, <<"packet", p2>>, <<"sleep", 2>>,
                <<"packet", p1>>, <<"sleep", 6>>>>

\* Every script of three packets and a sleep longer than the timeout, in any order,
\* and main's own.
Calls == ({"packet"} \X {p1, q, r}) \cup {<<"sleep", 6>>}
AllScripts ==
    {s \in [1..4 -> Calls] : Cardinality({i \in 1..4 : s[i][1] = "packet"}) = 3}
      \cup {MainScript}
JustMain == {MainScript}
=============================================================================
