--------------------------- MODULE MCMorningQueue ---------------------------
(* A small instance of the morning-review queue.                           *)
EXTENDS MorningQueue, TLC

CONSTANTS p, q, t, i, j

Symmetric == Permutations({i, j}) \cup Permutations({p, q})
=============================================================================
