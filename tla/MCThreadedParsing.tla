------------------------- MODULE MCThreadedParsing -------------------------
(* Instances of ThreadedParsing for TLC.  The sizes are the .cfg's.         *)
EXTENDS ThreadedParsing
=============================================================================
