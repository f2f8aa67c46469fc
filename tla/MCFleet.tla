------------------------------ MODULE MCFleet ------------------------------
(***************************************************************************)
(* Two operators, two plans and two runs.                                  *)
(***************************************************************************)
EXTENDS Fleet, TLC

CONSTANTS a, b, i, j, r1, r2

MCSlugs == {a, b}
MCOperators == {i, j}
MCRuns == {r1, r2}
MCEdits == {[status |-> "ready", next |-> [cmd |-> "review", rest |-> TRUE]],
            [directive |-> TRUE]}

Symmetric == Permutations(MCSlugs) \cup Permutations(MCOperators) \cup Permutations(MCRuns)
=============================================================================
