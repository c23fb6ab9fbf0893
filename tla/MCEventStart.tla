---------------------------- MODULE MCEventStart ----------------------------
(* Instances of EventStart for TLC, which evaluates its assumption.         *)
EXTENDS EventStart
=============================================================================
