------------------------------ MODULE MCL2Fwd ------------------------------
(* Instances of L2Fwd for TLC.                                              *)
EXTENDS L2Fwd, TLC

\* Buffers are interchangeable, and so are lcores.
Symmetry == Permutations(Mbufs) \cup Permutations(Lcores)
=============================================================================
