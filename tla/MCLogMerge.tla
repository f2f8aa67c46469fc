----------------------------- MODULE MCLogMerge -----------------------------
(* A small instance of LogMerge for TLC *)
EXTENDS LogMerge

CONSTANTS t1, mine, yours, pending, wip, blocked

SideSymmetry == Permutations(Sides)
=============================================================================
