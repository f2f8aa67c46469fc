----------------------------- MODULE MCJsonlLog -----------------------------
(* A small instance of JsonlLog for TLC: two writers, four rows *)
EXTENDS JsonlLog

CONSTANTS w1, w2, r1, r2, r3, r4
=============================================================================
