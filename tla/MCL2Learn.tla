----------------------------- MODULE MCL2Learn -----------------------------
(* Instances of L2Learn for TLC.                                            *)
EXTENDS L2Learn, TLC

\* Addresses are interchangeable, and so are lcores.
Symmetry == Permutations(Macs) \cup Permutations(Lcores)
=============================================================================
