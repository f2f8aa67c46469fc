----------------------------- MODULE PlanPatch -----------------------------
(* How a surgical amend edits a plan (bin/_planner/patch_apply.py): a patch  *)
(* is a sequence of operations, each addressing one entry of a keyed          *)
(* collection, one non-goal by its index, or one scalar field by its name.    *)
(* A plan is a record of sequences; an entry keeps its key, what it depends   *)
(* on and the version of its text.  `Unfit' stands for a value the schema of  *)
(* plans refuses, `Malformed' for one without the fields its kind requires.   *)
EXTENDS Integers, Sequences, SequencesExt, FiniteSets

CONSTANTS Missing,     \* a missing address, or a scalar the plan does not have
          Malformed,   \* a value of the wrong shape
          Unfit        \* a text the plan schema refuses

Kinds == {"task", "criterion", "reference"}
Collections == Kinds \cup {"non_goal"}
Nested == "conceptual_architecture.overview"    \* NESTED_SCALAR_FIELDS
Dotted(field) == field \in {Nested, "tasks_skeleton.title"}

\* a count of the entries of every keyed collection
CountKeyed(plan) == Len(plan.task) + Len(plan.criterion) + Len(plan.reference)
                    + Len(plan.non_goal)

Keyed(op) == op.kind # "scalar"
Touching(patch) == {i \in DOMAIN patch : Keyed(patch[i])}
Doing(patch, action) == {i \in Touching(patch) : patch[i].action = action}

\* the gate before any change: two touches or more may reach half of the
\* entries the plan will have, never more
WithinBound(plan, patch) ==
  LET touched == Cardinality(Touching(patch))
      total == CountKeyed(plan) + Cardinality(Doing(patch, "add"))
                                - Cardinality(Doing(patch, "remove"))
  IN touched < 2 \/ (total > 0 /\ 2 * touched <= total)

\* the plan with a collection replaced, and no plan at all
Edited(plan, kind, seq) == [err |-> "none", plan |-> [plan EXCEPT ![kind] = seq]]
Refused(why) == [err |-> why]

Addressed(op) == op.address # Missing
ValueFits(op) == op.action = "remove" \/ op.value # Malformed

Holds(seq, key) == {i \in DOMAIN seq : seq[i].id = key}
FirstOf(S) == CHOOSE i \in S : \A j \in S : i <= j

\* what another task still waits for when the entry at `at' is gone
Dangles(tasks, at) ==
  \E i \in DOMAIN tasks \ {at} : tasks[at].id \in tasks[i].deps

ApplyObjectOp(plan, op) ==
  LET coll == plan[op.kind]
      found == Holds(coll, op.address)
      at == FirstOf(found)
  IN IF \/ ~Addressed(op)
        \/ ~ValueFits(op)
        \/ op.kind = "reference" /\ Cardinality(found) > 1
        \/ (op.action = "add") # (found = {})
     THEN Refused("apply")
     ELSE CASE op.action = "add"     -> Edited(plan, op.kind, Append(coll, op.value))
            [] op.action = "replace" -> Edited(plan, op.kind, [coll EXCEPT ![at] = op.value])
            [] op.action = "remove"  ->
                 IF op.kind = "task" /\ Dangles(coll, at)
                 THEN Refused("integrity")
                 ELSE Edited(plan, op.kind, RemoveAt(coll, at))

\* an added non-goal goes to the end whatever its address; the others are
\* counted from what the operations before this one have left
ApplyNonGoalOp(plan, op) ==
  LET coll == plan.non_goal
  IN IF op.action = "add"
     THEN IF op.value = Malformed THEN Refused("apply")
          ELSE Edited(plan, "non_goal", Append(coll, op.value))
     ELSE IF ~Addressed(op) \/ op.address \notin DOMAIN coll \/ ~ValueFits(op)
     THEN Refused("apply")
     ELSE Edited(plan, "non_goal",
                 IF op.action = "replace" THEN [coll EXCEPT ![op.address] = op.value]
                                          ELSE RemoveAt(coll, op.address))

\* a dotted field must be on the list, and is only ever replaced
NestedRefused(op) == Dotted(op.address) /\ (op.address # Nested \/ op.action # "replace")

ApplyScalarOp(plan, op) ==
  IF \/ ~Addressed(op)
     \/ NestedRefused(op)
     \/ (op.action = "add") # (plan.scalar[op.address] = Missing)
     \/ ~ValueFits(op)
  THEN Refused("apply")
  ELSE Edited(plan, "scalar",
              [plan.scalar EXCEPT ![op.address] =
                 IF op.action = "remove" THEN Missing ELSE op.value])

ApplyOp(plan, op) == CASE op.kind \in Kinds      -> ApplyObjectOp(plan, op)
                       [] op.kind = "non_goal" -> ApplyNonGoalOp(plan, op)
                       [] op.kind = "scalar"   -> ApplyScalarOp(plan, op)

\* the schema of plans: at least one task and one criterion, no unfit text,
\* and every required scalar.  It says nothing of ids or of what they name.
SchemaAccepts(plan) ==
  /\ plan.task # <<>> /\ plan.criterion # <<>>
  /\ \A k \in Kinds : \A i \in DOMAIN plan[k] : plan[k][i].text # Unfit
  /\ plan.scalar["title"] \notin {Missing, Unfit}

\* the plan after each operation of the patch, in their order, or why one was
\* refused
After(plan, patch) ==
  LET done[n \in 0..Len(patch)] ==
        IF n = 0 THEN [err |-> "none", plan |-> plan]
        ELSE IF done[n - 1].err = "none" THEN ApplyOp(done[n - 1].plan, patch[n])
        ELSE done[n - 1]
  IN done

\* the patch, applied to a copy of the plan
ApplyPatch(plan, patch) ==
  LET done == After(plan, patch)[Len(patch)]
  IN IF ~WithinBound(plan, patch) THEN Refused("bound")
     ELSE IF done.err # "none" THEN done
     ELSE IF ~SchemaAccepts(done.plan) THEN Refused("post_apply_invalid")
     ELSE done
-----------------------------------------------------------------------------
\* what the patch puts into a collection, and the places of the entries that
\* it does not address
Puts(patch, kind) ==
  {patch[i].value : i \in {j \in DOMAIN patch : patch[j].kind = kind /\ patch[j].action # "remove"}}
Untouched(plan, patch, kind) ==
  LET addressed == {patch[i].address : i \in {j \in DOMAIN patch : patch[j].kind = kind}}
  IN {k \in DOMAIN plan[kind] : plan[kind][k].id \notin addressed}

\* another plan has the entries at `kept', in their order; what else it has is
\* the patch's, or one of those it addresses
Keeps(plan, patch, other, kind) ==
  LET kept == Untouched(plan, patch, kind)
      theirs == other[kind]
  IN \E place \in [kept -> DOMAIN theirs] :
       /\ \A k \in kept : theirs[place[k]] = plan[kind][k]
       /\ \A k, m \in kept : k < m => place[k] < place[m]
       /\ \A n \in DOMAIN theirs :
            \/ \E k \in kept : place[k] = n
            \/ theirs[n] \in Puts(patch, kind)
            \/ \E k \in DOMAIN plan[kind] \ kept : theirs[n] = plan[kind][k]

\* a task waits for one that the plan does not have
Loose(plan, task, dep) == dep \in task.deps /\ \A k \in DOMAIN plan.task : plan.task[k].id # dep

\* a task whose replacement goes by another id
Renamed(patch) ==
  {patch[i].address : i \in {j \in DOMAIN patch : /\ patch[j].kind = "task"
                                                  /\ patch[j].action = "replace"
                                                  /\ patch[j].value # Malformed
                                                  /\ patch[j].value.id # patch[j].address}}

\* the entries that a plan has and the other had not
Fresh(plan, other) ==
  UNION {{kind} \X {n \in DOMAIN other[kind] : \A k \in DOMAIN plan[kind] : plan[kind][k] # other[kind][n]}
         : kind \in Collections}
=============================================================================
