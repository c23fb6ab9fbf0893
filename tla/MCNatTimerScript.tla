-------------------------- MODULE MCNatTimerScript --------------------------
(* Instances of NatTimerScript for TLC.                                     *)
EXTENDS NatTimerScript, TLC

CONSTANTS p1, p2, q, r, h1, h2

\* main's two packets, another one of p1's flow, and a reply to the first port.
MCInitially == (p1 :> [ingress |-> FALSE, end |-> h1]) @@
               (p2 :> [ingress |-> FALSE, end |-> h2]) @@
               (q  :> [ingress |-> FALSE, end |-> h1]) @@
               (r  :> [ingress |-> TRUE, end |-> FirstPort])

\* nwt.c:222-229
MainScript == <<<<"packet", p1>>, <<"sleep", 2>>, <<"packet", p2>>, <<"sleep", 2>>,
                <<"packet", p1>>, <<"sleep", 6>>>>

JustMain == {MainScript}
=============================================================================
