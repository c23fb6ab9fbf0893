-------------------------- MODULE MCNatTwoTables --------------------------
(* Instances of NatTwoTables for TLC.                                       *)
EXTENDS NatTwoTables, TLC

\* Addresses are interchangeable, and so are flows.
Symmetry == Permutations(Flows) \cup Permutations(Entries)
=============================================================================
