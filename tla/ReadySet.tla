------------------------------ MODULE ReadySet ------------------------------
(* Which tasks may start, and the picker's verdict on a plan                  *)
(* (bin/_orchestrator_query/query.py).  `state' is the task state's map from  *)
(* ids to statuses; an id it does not know counts as ready.                   *)
EXTENDS Integers, Sequences, PlanVerify

\* (wrong) a deferred task still holds back those that wait for it
DepsDoneOnly == {"done", "cancelled"}

DepsSatisfying == {"done", "cancelled", "deferred"}
TerminalStatuses == {"done", "cancelled", "deferred"}

ResolveStatus(state, id) == IF id \in DOMAIN state THEN state[id] ELSE "ready"
LiveStatusMap(orch, state) == [id \in IdsOf(orch) |-> ResolveStatus(state, id)]

\* a dependency the plan does not declare is looked up all the same
IsReady(task, state) ==
  /\ ResolveStatus(state, task.id) = "ready"
  /\ \A d \in task.deps : ResolveStatus(state, d) \in DepsSatisfying

ReadyIds(orch, state) == {t.id : t \in {u \in TasksOf(orch) : IsReady(u, state)}}
StatusesOf(orch, state) == {ResolveStatus(state, id) : id \in IdsOf(orch)}

\* ids of the form T<n> come first, by number; the others as declared.
\* `Rank' gives T<n> its n and every other id 0.
SortsBefore(orch, Rank, i, j) ==
  LET a == Rank[orch.tasks[i].id]
      b == Rank[orch.tasks[j].id]
  IN IF a > 0 /\ b > 0 THEN a < b \/ (a = b /\ i < j)
     ELSE IF a = 0 /\ b = 0 THEN i < j ELSE a > 0

FirstReady(orch, state, Rank) ==
  LET ready == {i \in DOMAIN orch.tasks : IsReady(orch.tasks[i], state)}
  IN orch.tasks[CHOOSE i \in ready : \A j \in ready \ {i} : SortsBefore(orch, Rank, i, j)].id

Verdict(orch, state) ==
  LET seen == StatusesOf(orch, state)
  IN IF ReadyIds(orch, state) # {} THEN "has_ready"
     ELSE IF seen \subseteq TerminalStatuses THEN "all_done"
     ELSE IF "blocked" \in seen /\ "wip" \notin seen THEN "all_blocked"
     ELSE IF "wip" \in seen /\ "blocked" \notin seen THEN "all_wip"
     ELSE "mixed_no_ready"
=============================================================================
