--------------------------- MODULE MCChainRecord ---------------------------
(* Model values and sets for TLC.                                          *)
EXTENDS ChainRecord, TLC

\* the drivers differ by their names only
Symmetry == Permutations(Drivers)
=============================================================================
