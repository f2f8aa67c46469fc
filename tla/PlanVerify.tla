---------------------------- MODULE PlanVerify ----------------------------
(* The strict checks of an orchestrator (bin/_verify_plan/strict.py).  A task *)
(* has the paths it touches, the entries of tests_enabled (a selector of a    *)
(* path, a typed gate command, prose or a blank) and the entries of its test  *)
(* plan, of which only the exemption markers count.                           *)
EXTENDS Integers, Sequences, FiniteSets

TasksOf(orch) == {orch.tasks[i] : i \in DOMAIN orch.tasks}
IdsOf(orch) == {t.id : t \in TasksOf(orch)}
Entries(seq) == {seq[i] : i \in DOMAIN seq}
CountOf(seq, x) == Cardinality({i \in DOMAIN seq : seq[i] = x})

UniqueIds(orch) == Cardinality(IdsOf(orch)) = Len(orch.tasks)
DependsOnResolves(orch) == \A t \in TasksOf(orch) : t.deps \subseteq IdsOf(orch)
JunctionsResolve(orch) == orch.junctions \subseteq IdsOf(orch)
\* a reference left out is no violation
PlanRefExists(orch) == orch.plan_ref # "broken"

\* a selector is bound when some task of the plan, any of them, touches its path
AllTouched(orch) == UNION {t.touched : t \in TasksOf(orch)}
EntryKept(orch, e) == e.form = "selector" /\ e.path \in AllTouched(orch)

Exempt(task) == "marker" \in Entries(task.test_plan)
MarkersCohere(task) ==
  LET markers == CountOf(task.test_plan, "marker") + CountOf(task.test_plan, "empty_marker")
  IN /\ "near_miss" \notin Entries(task.test_plan)
     /\ "empty_marker" \notin Entries(task.test_plan)
     /\ markers <= 1
     /\ markers > 0 => task.tests = <<>>

ContractHolds(orch) ==
  \A t \in TasksOf(orch) : MarkersCohere(t) /\ \A e \in Entries(t.tests) : EntryKept(orch, e)

\* one task with work is enough; a test plan counts, markers or not
HasSubstance(orch) ==
  \E t \in TasksOf(orch) : t.touched # {} \/ t.tests # <<>> \/ t.test_plan # <<>>

GenericHolds(orch) == /\ UniqueIds(orch) /\ DependsOnResolves(orch)
                      /\ PlanRefExists(orch) /\ JunctionsResolve(orch)

\* the defect of the plan's tests is never masked by another one
RunStrict(orch) == IF ~ContractHolds(orch) THEN "contract"
                   ELSE IF ~HasSubstance(orch) THEN "degenerate"
                   ELSE IF ~GenericHolds(orch) THEN "generic"
                   ELSE "ok"
=============================================================================
