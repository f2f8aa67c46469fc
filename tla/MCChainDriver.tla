--------------------------- MODULE MCChainDriver ---------------------------
(* Model values and sets for TLC.                                          *)
EXTENDS ChainDriver
=============================================================================
