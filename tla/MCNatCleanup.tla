---------------------------- MODULE MCNatCleanup ----------------------------
(* Instances of NatCleanup for TLC.                                         *)
EXTENDS NatCleanup, TLC

\* Addresses are interchangeable, and so are flows.
Symmetry == Permutations(Flows) \cup Permutations(Entries)
=============================================================================
