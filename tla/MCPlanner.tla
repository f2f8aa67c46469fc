------------------------------ MODULE MCPlanner ------------------------------
(* A plan of two tasks, and one patch or orchestrator per case of the code *)
EXTENDS Planner, TLC

Task(id, deps, text) == [id |-> id, deps |-> deps, text |-> text]
Entry(id, text) == [id |-> id, text |-> text]
Op(kind, action, address, value) ==
  [kind |-> kind, action |-> action, address |-> address, value |-> value]

MCPlan == [task |-> <<Task("T1", {}, "old"), Task("T2", {"T1"}, "old")>>,
           criterion |-> <<Entry("c1", "old")>>,
           reference |-> <<Entry("r1", "old"), Entry("r1", "twin")>>,
           non_goal |-> <<"n1", "n2">>,
           scalar |-> [title |-> "old", tier |-> Missing] @@ (Nested :> "old")]

AddT3 == Op("task", "add", "T3", Task("T3", {"T2"}, "new"))
MCPatches ==
  {<<AddT3>>,
   <<Op("task", "replace", "T1", Task("T1", {}, "new"))>>,
   <<Op("task", "remove", "T2", "none")>>,
   <<Op("task", "remove", "T1", "none")>>,
   <<Op("task", "replace", "T2", Task("T2", {}, "new")), Op("task", "remove", "T1", "none")>>,
   <<Op("task", "replace", "T1", Task("T9", {}, "new"))>>,
   <<Op("task", "add", "T3", Task("T3", {"T8"}, "new")),
     Op("scalar", "replace", Nested, "new"), Op("scalar", "add", "tier", "new")>>,
   <<Op("reference", "replace", "r1", Entry("r1", "new"))>>,
   <<Op("criterion", "remove", "c1", "none")>>,
   <<Op("non_goal", "remove", 1, "none"), Op("non_goal", "replace", 1, "new")>>,
   <<Op("task", "remove", "T2", "none"), Op("non_goal", "remove", 2, "none"),
     Op("criterion", "add", "c2", Entry("c2", "new"))>>,
   <<Op("reference", "add", "r2", Entry("r2", Unfit))>>,
   <<Op("task", "add", Missing, Task("T3", {}, "new"))>>,
   <<Op("task", "add", "T3", Malformed)>>}

MCFewPatches == {<<AddT3>>, <<Op("task", "replace", "T1", Task("T1", {}, "new"))>>,
                 <<Op("task", "remove", "T2", "none")>>}

Test(form, path) == [form |-> form, path |-> path]
Unit(id, deps, touched, tests, testPlan) ==
  [id |-> id, deps |-> deps, touched |-> touched, tests |-> tests, test_plan |-> testPlan]
Real(id, deps) == Unit(id, deps, {"test_" \o id}, <<Test("selector", "test_" \o id)>>, <<>>)
Stub(id) == Unit(id, {}, {}, <<>>, <<>>)
Orch(tasks, junctions, ref) == [tasks |-> tasks, junctions |-> junctions, plan_ref |-> ref]

MCRank == [id \in {"T1", "T2"} |-> CASE id = "T1" -> 1 [] id = "T2" -> 2]

\* one sound orchestrator, and one per defect
MCEmissions ==
  {Orch(<<Real("T1", {}), Real("T2", {"T1"})>>, {"T2"}, "plan"),
   Orch(<<Real("T2", {}), Unit("T1", {}, {}, <<>>, <<"marker", "plain">>)>>, {}, "none"),
   Orch(<<Real("T1", {"T2"}), Real("T2", {"T1"})>>, {}, "plan"),
   Orch(<<Real("T1", {"T7"})>>, {}, "plan"),
   Orch(<<Real("T1", {}), Real("T1", {})>>, {}, "plan"),
   Orch(<<Stub("T1"), Stub("T2")>>, {"T9"}, "plan"),
   Orch(<<Unit("T1", {}, {"a"}, <<Test("prose", "a")>>, <<>>), Stub("T2")>>, {}, "broken"),
   Orch(<<Unit("T1", {}, {"a"}, <<Test("selector", "b")>>, <<>>)>>, {}, "plan"),
   Orch(<<Unit("T1", {}, {"a"}, <<Test("selector", "a")>>, <<"marker">>)>>, {}, "plan"),
   Orch(<<Unit("T1", {}, {"a"}, <<>>, <<"marker", "marker">>)>>, {}, "plan"),
   Orch(<<Unit("T1", {}, {"a"}, <<>>, <<"near_miss">>)>>, {}, "plan")}
=============================================================================
