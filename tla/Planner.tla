------------------------------ MODULE Planner ------------------------------
(* The planner's runs (bin/_planner/main.py) on one plan: a first plan, a     *)
(* wholesale rewrite (--reopen), a surgical amend and the orchestrator made   *)
(* from the plan, beside the workers that execute the orchestrator's tasks    *)
(* and the operator who closes it.  A run asks an agent between its gate and  *)
(* its writes, and holds no lock but the task state's, during the resync.     *)
EXTENDS PlanPatch, ReadySet

CONSTANTS Runs,        \* invocations of the planner, each used once
          Jobs,        \* the job each run is given
          FirstPlan,   \* what the agent emits as a whole plan
          Patches,     \* the patches it may emit for an amend
          Emissions,   \* the orchestrators it may emit
          Rank,        \* the number in an id of the form T<n>, 0 for any other
          Faults,      \* bound: crashes, failed writes and failed renders
          SetAsides,   \* bound: tasks the operator defers
          NoFile       \* a file that is not there

\* what the schemas of plans, patches and orchestrators guarantee
Listed(seq) == Len(seq) \in Nat /\ seq = [i \in 1..Len(seq) |-> seq[i]]
IsPlan(plan) == /\ DOMAIN plan = Collections \cup {"scalar"}
                /\ \A kind \in Collections : Listed(plan[kind])
IsPatch(patch) == /\ Listed(patch)
                  /\ \A i \in DOMAIN patch :
                       /\ patch[i].kind \in Collections \cup {"scalar"}
                       /\ patch[i].action \in {"add", "replace", "remove"}
IsOrch(o) == Listed(o.tasks) /\ \A t \in TasksOf(o) : Listed(t.test_plan)

ASSUME PlannerAssumption ==
  /\ Jobs \subseteq {"plan", "replan", "amend", "implplan", "reimplplan"}
  /\ IsPlan(FirstPlan) /\ (\A patch \in Patches : IsPatch(patch))
  /\ \A o \in Emissions : IsOrch(o)
  /\ NoFile \notin Emissions
  /\ Faults \in Nat /\ SetAsides \in Nat

NoRun == [pc |-> "idle", job |-> "none"]

VARIABLES planJson, page,       \* <slug>_plan.json and its page
          orch,                 \* <slug>_orchestrator.json
          state,                \* the task state's statuses
          sealed,               \* the marker of a closed orchestrator
          audit,                \* <slug>_amend_log.jsonl
          run,                  \* each run's program counter and locals
          faults, setAsides,    \* what the bounds count
          base,                 \* ghost: the last whole plan written
          recorded,             \* ghost: has every amend that landed since then its row
          clean,                \* ghost: no fault, and no two writers of the plan at once
          moved                 \* ghost: what was started, or came into the orchestrator,
                                \* since a run judged its patch

amendLog == <<audit, recorded>>
planFiles == <<planJson, page, orch, state, sealed, amendLog>>
ghosts == <<base, clean, moved>>
bounds == <<faults, setAsides>>
plannerVars == <<planFiles, run, bounds, ghosts>>

At(p, pc) == run[p].pc = pc
Live(p) == ~At(p, "idle") /\ ~At(p, "over")
WritesPlan(job) == job \in {"plan", "replan", "amend"}
InFlight == {"wip", "done"}

PlannerInit ==
  /\ planJson \in {NoFile, FirstPlan} /\ page = planJson
  /\ orch = NoFile /\ state = <<>> /\ sealed = FALSE /\ audit = <<>>
  /\ run = [p \in Runs |-> NoRun]
  /\ faults = 0 /\ setAsides = 0
  /\ base = [plan |-> planJson, from |-> 0] /\ recorded = TRUE /\ clean = TRUE
  /\ moved = [p \in Runs |-> {}]

Goto(p, pc) == run' = [run EXCEPT ![p].pc = pc]
With(p, fields, pc) == run' = [run EXCEPT ![p] = [fields EXCEPT !.pc = pc]]
Fault == faults < Faults /\ faults' = faults + 1 /\ UNCHANGED setAsides
Dirty == clean' = FALSE /\ UNCHANGED <<base, moved>>

\* the results of an amend that leave its plan on the disk
Landed == {"applied", "reconcile_sync_failed"}

\* one row for an amend, appended at the end of the run; an OSError of the
\* append is swallowed, and the run ends as it would have
AuditRow(p, result) ==
  \/ /\ audit' = Append(audit, [result |-> result, ops |-> run[p].patch])
     /\ recorded' = recorded
  \/ audit' = audit /\ recorded' = (recorded /\ result \notin Landed)
Ends(p, result) == /\ Goto(p, "over")
                   /\ IF run[p].job = "amend" THEN AuditRow(p, result) ELSE UNCHANGED amendLog

-----------------------------------------------------------------------------
\* what the command line requires of the files, before anything is asked
GateOpens(job) ==
  CASE job = "plan"       -> planJson = NoFile
    [] job = "replan"     -> orch = NoFile
    [] job = "amend"      -> planJson # NoFile
    [] job = "implplan"   -> planJson # NoFile /\ orch = NoFile
    [] job = "reimplplan" -> planJson # NoFile

Gate(p) ==
  /\ At(p, "idle")
  /\ \E job \in Jobs :
       LET taken == [pc |-> "asking", job |-> job, prior |-> planJson,
                     existed |-> IF WritesPlan(job) THEN planJson # NoFile ELSE orch # NoFile,
                     patch |-> <<>>, payload |-> NoFile, life |-> "none",
                     seeds |-> {}, pre |-> NoFile]
           overlaps == WritesPlan(job) /\ \E q \in Runs \ {p} : Live(q) /\ WritesPlan(run[q].job)
       IN IF GateOpens(job)
          THEN With(p, taken, "asking") /\ clean' = (clean /\ ~overlaps)
          ELSE With(p, [taken EXCEPT !.job = "refused"], "over") /\ clean' = clean
  /\ UNCHANGED <<planFiles, bounds, base, moved>>

\* the two calls to the agent: the second returns what its schema allows
AgentAnswers(p) ==
  /\ At(p, "asking")
  /\ CASE run[p].job = "amend" ->
            \E patch \in Patches : With(p, [run[p] EXCEPT !.patch = patch], "judging")
       [] run[p].job \in {"plan", "replan"} ->
            With(p, [run[p] EXCEPT !.payload = FirstPlan], "capturing")
       [] OTHER ->
            \E e \in Emissions : With(p, [run[p] EXCEPT !.payload = e], "prechecking")
  /\ UNCHANGED <<planFiles, bounds, ghosts>>

\* the retries of the structured call are exhausted, in either call
AgentExhausted(p) ==
  /\ At(p, "asking") /\ Fault /\ Ends(p, "sdk_exhausted")
  /\ UNCHANGED <<planJson, page, orch, state, sealed, ghosts>>

\* the reply holds no JSON, or the call times out: nobody catches it
AgentBreaks(p) ==
  /\ At(p, "asking") /\ Fault /\ Goto(p, "over")
  /\ UNCHANGED <<planFiles, ghosts>>

-----------------------------------------------------------------------------
Lifecycle == IF sealed THEN "closed" ELSE IF orch # NoFile THEN "active" ELSE "draft"

\* a closed plan is refused; else the patch is applied to the plan read at the gate
Judge(p) ==
  LET applied == ApplyPatch(run[p].prior, run[p].patch)
  IN /\ At(p, "judging")
     /\ IF Lifecycle = "closed" THEN Ends(p, "closed_denied")
        ELSE IF applied.err # "none" THEN Ends(p, applied.err)
        ELSE /\ With(p, [run[p] EXCEPT !.payload = applied.plan, !.life = Lifecycle],
                     IF Lifecycle = "active" THEN "reconciling" ELSE "capturing")
             /\ UNCHANGED amendLog
     /\ moved' = [moved EXCEPT ![p] = {}]
     /\ UNCHANGED <<planJson, page, orch, state, sealed, bounds, base, clean>>

TaskOps(patch) == {patch[i] : i \in {j \in DOMAIN patch : patch[j].kind = "task"}}

\* (wrong) a task that runs may still be edited
FinishedOpRefused(op, live) ==
  op.address \in DOMAIN live /\ (op.action = "add" \/ live[op.address] = "done")

\* an id the live orchestrator has cannot be added, and a task that runs or
\* is done is not to be edited; every other operation is permitted
OpRefused(op, live) ==
  /\ op.address \in DOMAIN live
  /\ op.action = "add" \/ live[op.address] \in InFlight

Reconcile(p) ==
  /\ At(p, "reconciling")
  /\ LET live == LiveStatusMap(orch, state)
         ops == TaskOps(run[p].patch)
     IN IF \E op \in ops : OpRefused(op, live) THEN Ends(p, "reconcile_refused")
        ELSE /\ With(p, [run[p] EXCEPT !.seeds = {op.address : op \in {o \in ops : o.action = "add"}}],
                     "capturing")
             /\ UNCHANGED amendLog
  /\ UNCHANGED <<planJson, page, orch, state, sealed, bounds, ghosts>>

\* the tests contract and the all-stub check are fatal, other defects a warning
Fatal(emitted) == RunStrict(emitted) \in {"contract", "degenerate"}

PreCheck(p) ==
  /\ At(p, "prechecking")
  /\ IF Fatal(run[p].payload) THEN Goto(p, "over") ELSE Goto(p, "capturing")
  /\ UNCHANGED <<planFiles, bounds, ghosts>>

-----------------------------------------------------------------------------
OnOrch(p) == run[p].job \in {"implplan", "reimplplan"}
TargetOf(p) == IF OnOrch(p) THEN orch ELSE planJson

\* the orchestrator is replaced: tasks come into it
Replaces(o) ==
  /\ orch' = o
  /\ moved' = [p \in Runs |-> moved[p] \cup (IF o = NoFile THEN {} ELSE
                 IdsOf(o) \ (IF orch = NoFile THEN {} ELSE IdsOf(orch)))]

\* the bytes a failure may have to restore
Capture(p) ==
  /\ At(p, "capturing")
  /\ With(p, [run[p] EXCEPT !.pre = IF run[p].existed THEN TargetOf(p) ELSE NoFile], "writing")
  /\ UNCHANGED <<planFiles, bounds, ghosts>>

WriteOutput(p) ==
  /\ At(p, "writing") /\ Goto(p, IF OnOrch(p) THEN "postchecking" ELSE "rendering")
  /\ IF OnOrch(p) THEN Replaces(run[p].payload) /\ planJson' = planJson
     ELSE planJson' = run[p].payload /\ UNCHANGED <<orch, moved>>
  /\ base' = IF run[p].job \in {"plan", "replan"}
             THEN [plan |-> run[p].payload, from |-> Len(audit)] ELSE base
  /\ recorded' = (recorded \/ run[p].job \in {"plan", "replan"})
  /\ UNCHANGED <<page, state, sealed, audit, bounds, clean>>

\* a failed write leaves the old file, and of an amend no row
OutputFails(p) ==
  /\ At(p, "writing") /\ Fault /\ Goto(p, "over")
  /\ UNCHANGED <<planFiles, ghosts>>

\* what landed is checked again: it is undone, or the file removed
PostCheck(p) ==
  /\ At(p, "postchecking") /\ Goto(p, "over")
  /\ IF orch # NoFile /\ Fatal(orch) THEN Replaces(run[p].pre) ELSE UNCHANGED <<orch, moved>>
  /\ UNCHANGED <<planJson, page, state, sealed, amendLog, bounds, base, clean>>

\* the page is made from the file as it is now
Render(p) ==
  /\ At(p, "rendering")
  /\ page' = planJson
  /\ Goto(p, IF run[p].job # "amend" THEN "over"
             ELSE IF run[p].life = "active" THEN "syncing" ELSE "recording")
  /\ UNCHANGED <<planJson, orch, state, sealed, amendLog, bounds, ghosts>>

\* (wrong) the amended JSON stays when its page could not be made
RenderFailsAlone(p) ==
  /\ At(p, "rendering") /\ Fault /\ Ends(p, "render_failed_rolled_back")
  /\ IF run[p].job = "amend" THEN UNCHANGED ghosts ELSE Dirty
  /\ UNCHANGED <<planJson, page, orch, state, sealed>>

\* the page could not be made: an amend takes its JSON back, a plan warns
RenderFails(p) ==
  /\ At(p, "rendering") /\ Fault /\ Ends(p, "render_failed_rolled_back")
  /\ IF run[p].job = "amend"
     THEN planJson' = run[p].pre /\ UNCHANGED ghosts
     ELSE planJson' = planJson /\ Dirty
  /\ UNCHANGED <<page, orch, state, sealed>>

\* under the state's flock: the ids it does not know are seeded, nothing else
SyncToOrchestrator(p) ==
  /\ At(p, "syncing") /\ Goto(p, "recording")
  /\ state' = [id \in DOMAIN state \cup run[p].seeds |-> ResolveStatus(state, id)]
  /\ UNCHANGED <<planJson, page, orch, sealed, amendLog, bounds, ghosts>>

SyncFails(p) ==
  /\ At(p, "syncing") /\ Fault /\ Ends(p, "reconcile_sync_failed")
  /\ UNCHANGED <<planJson, page, orch, state, sealed, ghosts>>

Record(p) ==
  /\ At(p, "recording") /\ Ends(p, "applied")
  /\ UNCHANGED <<planJson, page, orch, state, sealed, bounds, ghosts>>

\* the process is killed
Crash(p) ==
  /\ Live(p) /\ Fault /\ Goto(p, "over") /\ Dirty
  /\ UNCHANGED planFiles

-----------------------------------------------------------------------------
SetStatus(id, status) ==
  state' = [i \in DOMAIN state \cup {id} |-> IF i = id THEN status ELSE state[i]]

\* a worker takes the task the picker offers, and finishes it
StartTask ==
  /\ orch # NoFile /\ Verdict(orch, state) = "has_ready"
  /\ LET id == FirstReady(orch, state, Rank)
     IN /\ SetStatus(id, "wip")
        /\ moved' = [p \in Runs |-> moved[p] \cup {id}]
  /\ UNCHANGED <<planJson, page, orch, sealed, amendLog, run, bounds, base, clean>>

FinishTask ==
  /\ orch # NoFile
  /\ \E id \in IdsOf(orch) : ResolveStatus(state, id) = "wip" /\ SetStatus(id, "done")
  /\ UNCHANGED <<planJson, page, orch, sealed, amendLog, run, bounds, ghosts>>

\* the operator defers a task
SetAside ==
  /\ orch # NoFile /\ setAsides < SetAsides /\ setAsides' = setAsides + 1
  /\ \E id \in IdsOf(orch) : ResolveStatus(state, id) = "ready" /\ SetStatus(id, "deferred")
  /\ UNCHANGED <<planJson, page, orch, sealed, amendLog, run, faults, ghosts>>

\* by the picker when it sees that all is done
AutoClose ==
  /\ orch # NoFile /\ ~sealed /\ Verdict(orch, state) = "all_done" /\ sealed' = TRUE
  /\ UNCHANGED <<planJson, page, orch, state, amendLog, run, bounds, ghosts>>

RunStep(p) == \/ Gate(p) \/ AgentAnswers(p) \/ AgentExhausted(p) \/ AgentBreaks(p)
              \/ Judge(p) \/ Reconcile(p) \/ PreCheck(p) \/ Capture(p)
              \/ WriteOutput(p) \/ OutputFails(p) \/ PostCheck(p)
              \/ Render(p) \/ RenderFails(p) \/ SyncToOrchestrator(p) \/ SyncFails(p)
              \/ Record(p) \/ Crash(p)
Work == StartTask \/ FinishTask
PlannerNext == (\E p \in Runs : RunStep(p)) \/ Work \/ SetAside \/ AutoClose

\* an agent takes what the picker offers and ends what it took
PlannerSpec == PlannerInit /\ [][PlannerNext]_plannerVars
               /\ WF_plannerVars(StartTask) /\ WF_plannerVars(FinishTask)
-----------------------------------------------------------------------------
AtRest == \A p \in Runs : ~Live(p)

PlannerTypeOK ==
  /\ sealed \in BOOLEAN /\ clean \in BOOLEAN /\ recorded \in BOOLEAN
  /\ faults \in 0..Faults /\ setAsides \in 0..SetAsides
  /\ \A id \in DOMAIN state : state[id] \in {"ready", "wip", "done", "deferred"}
  /\ \A p \in Runs : run[p].pc \in {"idle", "asking", "judging", "reconciling", "prechecking",
                                    "capturing", "writing", "postchecking", "rendering",
                                    "syncing", "recording", "over"}

\* a plan, told again from the rows that follow row `from'
Replay(plan, from, rows) ==
  LET told[n \in from..Len(rows)] ==
        IF n = from THEN plan
        ELSE IF rows[n].result \in Landed THEN ApplyPatch(told[n - 1], rows[n].ops).plan
        ELSE told[n - 1]
  IN told[Len(rows)]
Replayed == Replay(base.plan, base.from, audit)

\* With no fault that kills a run and no two writers at once, the page shows
\* the plan, and the audit rows say what it is, as long as no amend that landed
\* since the last whole plan lost its row: an amend that failed to render is
\* taken back, one whose resync failed is on record, and a lost row of an amend
\* that was refused takes nothing away.
RowsAndPageTellThePlan ==
  AtRest /\ clean => page = planJson /\ (recorded => planJson = Replayed)

\* An orchestrator on the disk has a task with work, every test it counts is
\* a selector of a path some task will write, and no exempt task has tests.
DagIsExecutable ==
  orch # NoFile =>
    /\ \E t \in TasksOf(orch) : t.touched # {} \/ t.tests # <<>> \/ t.test_plan # <<>>
    /\ \A t \in TasksOf(orch) : \A e \in Entries(t.tests) :
         e.form = "selector" /\ \E u \in TasksOf(orch) : e.path \in u.touched
    /\ \A t \in TasksOf(orch) : Exempt(t) => t.tests = <<>>

\* Both, with the types (the planner's files agree when it is at rest).
PlannerInv == PlannerTypeOK /\ RowsAndPageTellThePlan /\ DagIsExecutable

\* what an amend may do to the plan it was asked about
Surgical(p) ==
  LET old == run[p].prior
      new == run[p].payload
      patch == run[p].patch
  IN /\ \A kind \in Kinds : Keeps(old, patch, new, kind)
     /\ \A k \in DOMAIN new.task : \A dep \in new.task[k].deps :
          LET task == new.task[k]
          IN Loose(new, task, dep) /\ task \notin Puts(patch, "task") /\ dep \notin Renamed(patch)
               => Loose(old, task, dep) /\ task \in Entries(old.task)
     /\ Cardinality(Touching(patch)) >= 2 => 2 * Cardinality(Fresh(old, new)) <= CountKeyed(new)
     /\ orch # NoFile /\ run[p].life = "active" =>
          \A op \in TaskOps(patch) :
            op.action # "add" /\ op.address \in IdsOf(orch) /\ op.address \notin moved[p]
              => ResolveStatus(state, op.address) \notin InFlight

\* A written amend keeps every entry it does not address, in its order, and
\* adds none but those of its patch; leaves no task waiting for one that it
\* removed; makes at most half of the entries new; and edits no task that ran
\* when the patch was judged.
AmendIsSurgical ==
  [][\A p \in Runs : run[p].job = "amend" /\ At(p, "writing") /\ run'[p].pc = "rendering"
       => Surgical(p)]_plannerVars

Acyclic(o) == \A S \in SUBSET IdsOf(o) \ {{}} :
                \E t \in TasksOf(o) : t.id \in S /\ t.deps \cap S = {}
Sound(o) == UniqueIds(o) /\ DependsOnResolves(o) /\ Acyclic(o)

\* A sound orchestrator is worked to its end and closed, whatever amends and
\* deferrals come in between, unless another one replaces it.
SoundPlanFinishes ==
  (orch # NoFile /\ Sound(orch)) ~> (orch # NoFile /\ (Sound(orch) => Verdict(orch, state) = "all_done"))
=============================================================================
