---------------------------- MODULE MCNatRxLoop ----------------------------
(* Instances of NatRxLoop for TLC.                                          *)
EXTENDS NatRxLoop, TLC

\* Addresses are interchangeable, and so are keys.
Symmetry == Permutations(Keys) \cup Permutations(Entries)
=============================================================================
