----------------------------- MODULE TestGates -----------------------------
(***************************************************************************)
(* What tests_enabled goes through on its way to a green /test: the strict *)
(* contract of the plan (PlanVerify), the collect check of a junction      *)
(* (bin/verify junction), the pre-flight of bin/verify test-step and the   *)
(* pytest run that grades the loop.  A world gives each path its fate.     *)
(***************************************************************************)
EXTENDS PlanVerify

\* No such file; a file without the node; one in which nothing is a test; one
\* that does not import; a test that fails, or passes.
Fates == {"absent", "phantom", "empty", "broken", "red", "green"}

\* A blank is dropped.  A directory is no selector for the strict contract,
\* but pytest takes it.
Declared(tasks) == {e \in UNION {Entries(t.tests) : t \in tasks} : e.form # "blank"}
\* the first task of that id has the say
ResolveTests(orch, id) ==
  LET first == CHOOSE i \in DOMAIN orch.tasks :
                 orch.tasks[i].id = id /\ \A k \in 1..(i - 1) : orch.tasks[k].id # id
  IN  Declared({orch.tasks[first]})
Runnable(world, e) == e.form \in {"selector", "directory"} /\ world[e.path] # "absent"
RunnableOf(orch, world) == {e \in Declared(TasksOf(orch)) : Runnable(world, e)}

-----------------------------------------------------------------------------
(* The collect check *)

\* (wrong) exit 5, nothing collected, is as good as exit 0
ProbeTakesNone(fate) ==
  CASE fate = "phantom" -> "not_collectable" [] fate = "broken" -> "error"
    [] OTHER -> "collectable"

\* pytest --collect-only: 5, or 4 with "not found"; 2 for a failed import
Probe(fate) ==
  CASE fate \in {"empty", "phantom"} -> "not_collectable" [] fate = "broken" -> "error"
    [] OTHER -> "collectable"

Classify(world, e) ==
  IF e.form = "typed" THEN "typed"
  ELSE IF ~Runnable(world, e) THEN "not_selector"
  ELSE Probe(world[e.path])

\* An explicit covers[] is taken as it is; else the tasks in the order of the
\* array, through after_task.
CoversResolve(orch, j) ==
  IF j.explicit THEN j.covers # {} /\ j.covers \subseteq IdsOf(orch)
  ELSE j.after \in IdsOf(orch)
CoveringSet(orch, j) ==
  IF j.explicit THEN j.covers
  ELSE LET last == CHOOSE i \in DOMAIN orch.tasks :
                     /\ orch.tasks[i].id = j.after
                     /\ \A k \in 1..(i - 1) : orch.tasks[k].id # j.after
       IN  {orch.tasks[i].id : i \in 1..last}
Covered(orch, j) == {t \in TasksOf(orch) : t.id \in CoveringSet(orch, j)}

\* exempt tasks are reported; they neither satisfy the gate nor block it
AdvanceOk(orch, j, world) ==
  LET entries == UNION {ResolveTests(orch, id) : id \in CoveringSet(orch, j)}
  IN  /\ entries # {}
      /\ \A e \in entries : Classify(world, e) \in {"collectable", "typed"}

\* what bin/verify junction exits with
JunctionExit(orch, j, world) ==
  IF j.kind = "unknown" THEN "usage"
  ELSE IF j.kind # "test_gate" THEN "not_applicable"
  ELSE IF ~CoversResolve(orch, j) THEN "usage"
  ELSE IF AdvanceOk(orch, j, world) THEN "advance" ELSE "halt"

-----------------------------------------------------------------------------
(* The pre-flight, and the run *)

\* an import that fails goes on to the loop, which can mend it
Preflight(orch, world) ==
  IF RunnableOf(orch, world) = {} THEN "no_runnable_tests"
  ELSE IF \E e \in RunnableOf(orch, world) : Probe(world[e.path]) = "not_collectable"
  THEN "not_collectable_tests"
  ELSE "run"

\* pytest's exit status: usage, interrupted, failed, passed, nothing collected
Pytest(fates) ==
  IF "phantom" \in fates THEN 4 ELSE IF "broken" \in fates THEN 2
  ELSE IF "red" \in fates THEN 1 ELSE IF "green" \in fates THEN 0 ELSE 5

\* run_verify_subprocess: entries that cannot run are skipped, an empty union
\* crashes the driver, and a green run must have a trust surface that is committed
Crash == -1
UntrustedGreen == 13
Verify(orch, world, trusted) ==
  LET runs == RunnableOf(orch, world)
      code == Pytest({world[e.path] : e \in runs})
  IN  IF Declared(TasksOf(orch)) = {} THEN Crash
      ELSE IF runs = {} THEN 4
      ELSE IF code = 0 /\ ~trusted THEN UntrustedGreen ELSE code

\* bin/verify test-step before its loop; the chain goes straight to Verify
TestStepEntry(orch, world, trusted) ==
  IF Preflight(orch, world) # "run" THEN "usage"
  ELSE IF Verify(orch, world, trusted) = 0 THEN "passed" ELSE "loop"

-----------------------------------------------------------------------------
(***************************************************************************)
(* Properties                                                              *)
(***************************************************************************)

(* A plan that the strict contract accepts, a junction that advances and a *)
(* green run in the same world: every test that a covered task declares is *)
(* there and passes.  Of the three gates no two are enough: pytest skips   *)
(* what is absent and is green over an empty file, a typed entry advances  *)
(* a junction and nothing runs it.                                         *)
GateIsEarned(orch, j, world, trusted) ==
  ContractHolds(orch) /\ JunctionExit(orch, j, world) = "advance"
    /\ Verify(orch, world, trusted) = 0
    => \A e \in Declared(Covered(orch, j)) : world[e.path] = "green"

(* No gate opens on nothing: a green run has a test that passes, and a     *)
(* junction over tasks that are exempt does not advance.                   *)
NoVacuousGate(orch, j, world, trusted) ==
  /\ Verify(orch, world, trusted) = 0
       => trusted /\ \E e \in Declared(TasksOf(orch)) : Runnable(world, e) /\ world[e.path] = "green"
  /\ ContractHolds(orch) /\ JunctionExit(orch, j, world) = "advance"
       => \E t \in Covered(orch, j) : ~Exempt(t)

(* The gates agree: a junction that covers the whole plan advances only    *)
(* when the pre-flight lets /test begin, if the plan keeps the contract;   *)
(* and a refusal of the pre-flight has a declared test that could not      *)
(* have passed, or nothing declared at all.                                *)
GatesAgree(orch, j, world) ==
  /\ ContractHolds(orch) /\ JunctionExit(orch, j, world) = "advance"
       /\ Covered(orch, j) = TasksOf(orch)
       => Preflight(orch, world) = "run"
  /\ Preflight(orch, world) # "run" =>
       \/ Declared(TasksOf(orch)) = {}
       \/ \E e \in Declared(TasksOf(orch)) :
            ~Runnable(world, e) \/ world[e.path] \notin {"red", "green", "broken"}

(* A test of a task that a junction does not cover neither satisfies the   *)
(* gate nor blocks it.                                                     *)
OthersDoNotCount(orch, j, world) ==
  j.kind = "test_gate" /\ CoversResolve(orch, j) =>
    LET without == [orch EXCEPT !.tasks =
          [i \in DOMAIN orch.tasks |->
             IF orch.tasks[i].id \in CoveringSet(orch, j) THEN orch.tasks[i]
             ELSE [orch.tasks[i] EXCEPT !.tests = <<>>]]]
    IN  JunctionExit(without, j, world) = JunctionExit(orch, j, world)
=============================================================================
