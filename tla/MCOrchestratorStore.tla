------------------------ MODULE MCOrchestratorStore ------------------------
(* Small instances of OrchestratorStore for TLC *)
EXTENDS OrchestratorStore, TLC

CONSTANTS p1, p2, t1, t2

Base(t, status)     == [op |-> "base", task |-> t, status |-> status, override |-> FALSE]
Override(t, status) == [op |-> "base", task |-> t, status |-> status, override |-> TRUE]
Develop(t, native)  == [op |-> "develop", task |-> t, status |-> native, override |-> FALSE]
Simple(op)          == [op |-> op]
Resync(seeds)       == [op |-> "resync", seeds |-> seeds]

\* status updates on both command lines: the two gates, the history and its
\* sentinel, a status outside the enum, a task develop-plan may not touch
StatusRequests == {Base(t1, "done"), Base(t1, "wip"), Override(t1, "wip"),
                   Base(t1, "bogus"), Base(t2, "cancelled"),
                   Develop(t1, "revisions_requested"), Develop(t1, "in_progress"),
                   Develop(t2, "completed")}

\* the writers of other components beside an update: the operator's close
\* and the picker's, the amend resync, the retry loop's counter
SharedRequests == {Base(t1, "done"), Override(t1, "wip"), Base(t2, "done"),
                   Resync({t1, t2}), Simple("bump"), Simple("reset"), Simple("close")}

ProcSymmetry == Permutations(Procs)
=============================================================================
