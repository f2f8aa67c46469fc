------------------------------ MODULE ChainLock ------------------------------
(***************************************************************************)
(* What _chain_running.lock promises of one plan directory: at most one    *)
(* overnight driver owns the plan, it keeps it as long as it lives, and    *)
(* the plan is taken away only from a driver that is dead.                 *)
(***************************************************************************)
CONSTANTS Drivers, Nobody

VARIABLES owner, alive

Init == owner = Nobody /\ alive = {}

Start(d) == d \notin alive /\ owner # d /\ alive' = alive \cup {d} /\ UNCHANGED owner

Take(d) == d \in alive /\ owner = Nobody /\ owner' = d /\ UNCHANGED alive

\* an orderly end gives the plan back; a crash leaves it to the dead driver
Stop(d) ==
  /\ d \in alive
  /\ alive' = alive \ {d}
  /\ owner' = owner \/ (owner = d /\ owner' = Nobody)

\* --release-lock
TakeBack == owner \in Drivers \ alive /\ owner' = Nobody /\ UNCHANGED alive

Next == TakeBack \/ \E d \in Drivers : Start(d) \/ Take(d) \/ Stop(d)

Spec == Init /\ [][Next]_<<owner, alive>>
=============================================================================
