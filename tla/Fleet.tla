------------------------------- MODULE Fleet -------------------------------
(***************************************************************************)
(* bin/fleet: where several plans stand, and the sessions run for them.    *)
(*                                                                         *)
(* Each plan's directory holds a state file (replaced whole), a log of     *)
(* events and a ledger of runs (appended to).  A page, the hub, shows them *)
(* between markers; one meta file lists the plans that are on the roster   *)
(* and those that are closed.  Stage engines update the state by hooks,    *)
(* operators by `update`; `close` archives a plan's directory; `spawn`     *)
(* starts a runner that outlives it.  Nothing here takes a lock.           *)
(***************************************************************************)
EXTENDS Integers, Sequences, FiniteSets

CONSTANTS
    Slugs,          \* the plans
    Operators,      \* the processes that run fleet commands, hooks included
    Runs,           \* the runs that may be spawned, with their runners
    Stages,         \* the stages the hooks report
    Edits,          \* what `update` may be asked to set
    Attended,       \* meta `unspawnable_stages`
    MaxConcurrent,  \* meta `max_concurrent`
    Nothing,        \* no state file, no view, no plan
    MaxCommands, MaxFaults

Status == {"ready", "wip", "done", "blocked", "parked", "closed"}
Zones == {"now", "prompts", "tree", "attended", "board", "recent"}
OptionalZones == {"prompts", "tree", "attended"}

(* A `next` is a stage command, one with trailing words, or prose.         *)
Command == {"qa", "plan", "implplan", "code", "test", "review"}
Next_ == [cmd : Command \cup {"none"}, rest : BOOLEAN]
Bare(c) == [cmd |-> c, rest |-> FALSE]

State == [stage : Command \cup {"seed", "none"}, status : Status \cup {"none"}, next : Next_,
          directive : BOOLEAN]
Blank == [stage |-> "none", status |-> "none", next |-> Bare("none"), directive |-> FALSE]

ASSUME FleetAssumption ==
    /\ {MaxCommands, MaxFaults} \subseteq Nat /\ MaxConcurrent \in Nat \ {0}
    /\ Nothing \notin Slugs \cup State \cup Runs \cup Operators
    /\ IsFiniteSet(Runs) /\ Runs \cap (Operators \cup Slugs \cup {"cap", "meta"}) = {}
    /\ Stages \subseteq Command /\ Attended \subseteq Command
    /\ \A e \in Edits : \E s \in State : \A f \in DOMAIN e : e[f] = s[f]

VARIABLES
    dir,        \* docs/plans/<slug>: its state file, log and ledger
    archive,    \* docs/plans/_closed/<slug>
    meta,       \* the meta file: initialised or not, roster, closed rows
    hub,        \* the page: there or not, the zones marked, what they show
    job,        \* what each operator and runner is doing
    bounds,     \* commands started and faults met
    mixed       \* ghost: where two actors were between a read and a write,
                \* and the runs without a row of their end

vars == <<dir, archive, meta, hub, job, bounds, mixed>>

Actors == Operators \cup Runs
Empty == [there |-> FALSE, st |-> Nothing, log |-> <<>>, rows |-> <<>>]

Idle == [do |-> "none", at |-> "idle", slug |-> Nothing, edit |-> <<>>, st |-> Nothing,
         meta |-> Nothing, view |-> Nothing, zones |-> {}, heir |-> Nothing, keep |-> FALSE,
         render |-> FALSE, run |-> Nothing]

----------------------------------------------------------------------------
(***************************************************************************)
(* Reading                                                                 *)
(***************************************************************************)
(* The non-empty arguments of an update over the stored state.             *)
Merge(st, e) == [f \in DOMAIN st |-> IF f \in DOMAIN e THEN e[f] ELSE st[f]]

Stored(s) == IF dir[s].st = Nothing THEN Blank ELSE dir[s].st

Active(s) == meta.on /\ dir[s].there

(* The stage that follows when a stage ends well.                          *)
StageNext(stage) ==
    CASE stage = "recon" -> "qa"
      [] stage \in {"qa", "research", "qna"} -> "plan"
      [] stage = "plan" -> "implplan"
      [] stage = "implplan" -> "code"
      [] stage = "code" -> "test"
      [] stage = "test" -> "review"
      [] OTHER -> "none"

(* (wrong) Only a bare command counts.                                     *)
StageTokenAnchored(st) == IF st.next.rest THEN "none" ELSE st.next.cmd
(* The leading stage command decides the lane, whatever follows it.        *)
StageToken(st) == st.next.cmd

With(view, statuses) == {s \in Slugs : /\ view.states[s] # Nothing
                                       /\ view.states[s].status \in statuses}
Now(view) == With(view, {"wip", "ready"})
Prompts(view) == {s \in With(view, {"ready"}) : StageToken(view.states[s]) \notin Attended}
Held(view) == With(view, {"blocked", "parked"})
AttendedQueue(view) == {s \in With(view, {"ready"}) : StageToken(view.states[s]) \in Attended}
(* A live state hides the plan's closed row.                               *)
Board(view) == [live |-> With(view, Status), closed |-> view.closed \ With(view, Status)]

(* Plans with a wave come under it, from the roster or their closed row;   *)
(* then the others that are not closed; then the closed rows not seen yet. *)
Tree(view) ==
    LET waved == (view.roster \cup view.closed) \cap view.waved
        unwaved == (view.roster \cup With(view, Status)) \ waved
    IN  waved \cup (unwaved \ view.closed) \cup (view.closed \ (waved \cup unwaved))

View == [states |-> [s \in Slugs |-> dir[s].st], roster |-> meta.roster, closed |-> meta.closed,
         waved |-> meta.waved]

(* A run counts while its runner lives and no end row names it.            *)
IsEnd(x) == x.event \in {"completed", "failed"}
RowsOf(s) == {dir[s].rows[n] : n \in DOMAIN dir[s].rows}
Unended(s) == {x.run : x \in {y \in RowsOf(s) : ~IsEnd(y)}}
                  \ {x.run : x \in {y \in RowsOf(s) : IsEnd(y)}}
Alive(r) == job[r].at # "idle"
LiveRuns == {r \in UNION {Unended(s) : s \in Slugs} : Alive(r)}
HasSession(s) == \E x \in RowsOf(s) : x.session

(* What the board asks the operator to look at: a plan that is blocked, a  *)
(* run whose runner died, a last run that failed.                          *)
Died(s) == {r \in Unended(s) : ~Alive(r)}
LastRunFailed(s) ==
    \E n \in DOMAIN dir[s].rows :
        /\ dir[s].rows[n].event = "failed"
        /\ \A m \in n + 1..Len(dir[s].rows) : ~IsEnd(dir[s].rows[m])
NeedsAttention(s) == Stored(s).status = "blocked" \/ Died(s) # {} \/ LastRunFailed(s)

----------------------------------------------------------------------------
(***************************************************************************)
(* Control                                                                 *)
(***************************************************************************)
At(p, step) == job[p].at = step
Goto(p, step) == job' = [job EXCEPT ![p].at = step]
(* A runner that is done keeps its name: a run is not started twice.       *)
Return(p) == job' = [job EXCEPT ![p] = [Idle EXCEPT !.do = IF p \in Runs THEN "run" ELSE "none"]]

Begins(p, j) ==
    /\ p \in Operators /\ At(p, "idle") /\ bounds.commands < MaxCommands
    /\ bounds' = [bounds EXCEPT !.commands = @ + 1]
    /\ job' = [job EXCEPT ![p] = j]

Job(do, at, s) == [Idle EXCEPT !.do = do, !.at = at, !.slug = s]

OthersAt(p, steps) == \E q \in Actors \ {p} : job[q].at \in steps
OthersOn(p, s, steps) == \E q \in Actors \ {p} : job[q].at \in steps /\ job[q].slug = s

----------------------------------------------------------------------------
(***************************************************************************)
(* update: read, merge, replace the state, append the event                *)
(***************************************************************************)
UpdateStarts(p, s) ==
    /\ meta.on
    /\ \E e \in Edits, r \in BOOLEAN :
          Begins(p, [Job("update", "load", s) EXCEPT !.edit = e, !.render = r])
    /\ UNCHANGED <<dir, archive, meta, hub, mixed>>

Reported(stage, status, next) ==
    [stage |-> stage, status |-> status, next |-> next]

(* The stage hooks: stage_started, stage_finished (which uses up the       *)
(* stored directive), stage_blocked, code_task_updated and slug_closed.    *)
HookEdits ==
    {Reported(g, "wip", Bare(g)) : g \in Stages}
        \cup {[stage |-> g, status |-> "ready", next |-> Bare(StageNext(g)), directive |-> FALSE] :
                 g \in Stages}
        \cup {[stage |-> g, status |-> "blocked"] : g \in Stages}
        \cup {Reported("code", "wip", Bare("code")), [status |-> "closed", next |-> Bare("none")]}

HookStarts(p, s) ==
    /\ Active(s)
    /\ \E e \in HookEdits :
          Begins(p, [Job("hook", "load", s) EXCEPT !.edit = e, !.render = TRUE])
    /\ UNCHANGED <<dir, archive, meta, hub, mixed>>

(* An event alone: the status it carries is the stored one.                *)
HookTells(p, s) ==
    /\ Active(s)
    /\ \E g \in Stages :
          Begins(p, [Job("hook", "event", s) EXCEPT
                        !.st = [Stored(s) EXCEPT !.stage = g], !.render = TRUE])
    /\ UNCHANGED <<dir, archive, meta, hub, mixed>>

Loads(p) ==
    LET st == Merge(Stored(job[p].slug), job[p].edit) IN
    /\ At(p, "load")
    /\ IF st.status = "none" THEN Return(p)
       ELSE job' = [job EXCEPT ![p].at = "save", ![p].st = st]
    /\ UNCHANGED <<dir, archive, meta, hub, bounds, mixed>>

Saves(p) ==
    LET s == job[p].slug IN
    /\ At(p, "save")
    /\ dir' = [dir EXCEPT ![s].there = TRUE, ![s].st = job[p].st]
    /\ mixed' = IF OthersOn(p, s, {"save", "event"}) THEN mixed \cup {s} ELSE mixed
    /\ Goto(p, "event")
    /\ UNCHANGED <<archive, meta, hub, bounds>>

(* What a command does after its update.                                   *)
AfterUpdate(j) ==
    CASE j.do = "close" -> "meta"
      [] j.do = "seed" \/ (j.do = "update" /\ ~j.render) -> "idle"
      [] OTHER -> "fold"

Tells(p) ==
    LET s == job[p].slug IN
    /\ At(p, "event")
    /\ dir' = [dir EXCEPT ![s].there = TRUE,
                          ![s].log = Append(@, [stage |-> job[p].st.stage,
                                                status |-> job[p].st.status])]
    /\ IF AfterUpdate(job[p]) = "idle" THEN Return(p) ELSE Goto(p, AfterUpdate(job[p]))
    /\ UNCHANGED <<archive, meta, hub, bounds, mixed>>

----------------------------------------------------------------------------
(***************************************************************************)
(* render: fold the files, read the page, replace it                       *)
(***************************************************************************)
RenderStarts(p) ==
    /\ meta.on
    /\ Begins(p, Job("render", "fold", Nothing))
    /\ UNCHANGED <<dir, archive, meta, hub, mixed>>

(* A page without the three old zones is refused before anything is        *)
(* written; zones added since are filled in only where they are marked.    *)
Folds(p) ==
    /\ At(p, "fold")
    /\ IF hub.there /\ Zones \ OptionalZones \subseteq hub.zones
       THEN job' = [job EXCEPT ![p].at = "swap", ![p].view = View, ![p].zones = hub.zones]
       ELSE Return(p)
    /\ UNCHANGED <<dir, archive, meta, hub, bounds, mixed>>

Swaps(p) ==
    /\ At(p, "swap")
    /\ hub' = [there |-> TRUE, zones |-> job[p].zones, view |-> job[p].view]
    /\ Return(p)
    /\ UNCHANGED <<dir, archive, meta, bounds, mixed>>

----------------------------------------------------------------------------
(***************************************************************************)
(* init, migrate and seed                                                  *)
(***************************************************************************)
InitStarts(p) ==
    /\ ~meta.on
    /\ \E existing \in {b \in BOOLEAN : b => hub.there} :
          Begins(p, [Job("init", "opt", Nothing) EXCEPT !.keep = existing])
    /\ UNCHANGED <<dir, archive, meta, hub, mixed>>

OptsIn(p) ==
    /\ At(p, "opt")
    /\ meta' = [on |-> TRUE, roster |-> {}, closed |-> {}, waved |-> {}]
    /\ IF job[p].keep \/ hub.there THEN Return(p) ELSE Goto(p, "scaffold")
    /\ UNCHANGED <<dir, archive, hub, bounds, mixed>>

Scaffolds(p) ==
    /\ At(p, "scaffold")
    /\ hub' = [there |-> TRUE, zones |-> Zones, view |-> Nothing]
    /\ Return(p)
    /\ UNCHANGED <<dir, archive, meta, bounds, mixed>>

(* The page is read whole, with what its zones show, and written back with *)
(* every zone marked; nothing happens when all are, or an anchor is        *)
(* missing.                                                                *)
MigrateStarts(p) ==
    /\ meta.on /\ hub.there /\ hub.zones # Zones
    /\ Begins(p, [Job("migrate", "wire", Nothing) EXCEPT !.view = hub.view])
    /\ UNCHANGED <<dir, archive, meta, hub, mixed>>

Wires(p) ==
    /\ At(p, "wire")
    /\ hub' = [there |-> TRUE, zones |-> Zones, view |-> job[p].view]
    /\ Return(p)
    /\ UNCHANGED <<dir, archive, meta, bounds, mixed>>

(* The state of a plan that has one is kept unless forced, the events are  *)
(* appended to all of them, and the stored directive is not carried over.  *)
SeedStarts(p, s) ==
    /\ meta.on
    /\ \E force, events \in BOOLEAN :
          LET writes == dir[s].st = Nothing \/ force IN
          /\ writes \/ events
          /\ Begins(p, [Job("seed", IF writes THEN "sow" ELSE "event", s) EXCEPT
                           !.st = [stage |-> "qa", status |-> "ready", next |-> Bare("plan"),
                                   directive |-> FALSE],
                           !.keep = events])
          /\ mixed' = IF writes /\ events THEN mixed ELSE mixed \cup {s}
    /\ UNCHANGED <<dir, archive, meta, hub>>

Sows(p) ==
    LET s == job[p].slug IN
    /\ At(p, "sow")
    /\ dir' = [dir EXCEPT ![s].there = TRUE, ![s].st = job[p].st]
    /\ mixed' = IF OthersOn(p, s, {"save", "event"}) THEN mixed \cup {s} ELSE mixed
    /\ IF job[p].keep THEN Goto(p, "event") ELSE Return(p)
    /\ UNCHANGED <<archive, meta, hub, bounds>>

----------------------------------------------------------------------------
(***************************************************************************)
(* close: event and state, meta, archive, successor, page                  *)
(***************************************************************************)
Fresh(h) == ~dir[h].there /\ ~archive[h].there /\ h \notin meta.roster

CloseStarts(p, s) ==
    /\ meta.on /\ ~archive[s].there
    /\ dir[s].there \/ s \in meta.roster
    /\ \E keep \in BOOLEAN, h \in {Nothing} \cup {h \in Slugs : Fresh(h)} :
          /\ Begins(p, [Job("close", IF dir[s].there /\ Stored(s).status # "closed"
                                     THEN "load" ELSE "meta", s) EXCEPT
                        !.edit = [status |-> "closed", next |-> Bare("none")],
                        !.keep = keep, !.heir = h, !.meta = meta])
          /\ mixed' = IF OthersOn(p, h, {"archive"}) THEN mixed \cup {"meta"} ELSE mixed
    /\ UNCHANGED <<dir, archive, meta, hub>>

(* The meta read at the start, with the plan moved and its successor added.*)
Reconciled(j) ==
    [j.meta EXCEPT !.roster = (@ \ {j.slug}) \cup ({j.heir} \ {Nothing}),
                   !.closed = @ \cup {j.slug}, !.waved = @ \cup ({j.heir} \ {Nothing})]

SavesMeta(p) ==
    /\ At(p, "meta")
    /\ meta' = Reconciled(job[p])
    /\ mixed' = IF \E q \in Operators \ {p} :
                      job[q].do \in {"close", "init"} /\ job[q].at \in {"load", "save", "event", "meta", "opt"}
                THEN mixed \cup {"meta"} ELSE mixed
    /\ Goto(p, "archive")
    /\ UNCHANGED <<dir, archive, hub, bounds>>

(* (wrong) The directory takes the archive's place.                        *)
ArchivedOver(s) == dir[s]
(* A directory that came back is moved into the archive it once became.    *)
Archived(s) ==
    IF ~archive[s].there THEN dir[s]
    ELSE [archive[s] EXCEPT !.log = @ \o dir[s].log, !.rows = @ \o dir[s].rows]

Archives(p) ==
    LET s == job[p].slug IN
    /\ At(p, "archive")
    /\ IF dir[s].there /\ ~job[p].keep
       THEN /\ archive' = [archive EXCEPT ![s] = Archived(s)]
            /\ dir' = [dir EXCEPT ![s] = Empty]
            /\ mixed' = IF Unended(s) # {} THEN mixed \cup {"cap"} ELSE mixed
       ELSE UNCHANGED <<dir, archive, mixed>>
    /\ Goto(p, IF job[p].heir = Nothing THEN "fold" ELSE "mint")
    /\ UNCHANGED <<meta, hub, bounds>>

(* The successor's directory, then an update of its own.                   *)
Mints(p) ==
    LET h == job[p].heir IN
    /\ At(p, "mint")
    /\ dir' = [dir EXCEPT ![h].there = TRUE]
    /\ job' = [job EXCEPT ![p] = [Job("mint", "load", h) EXCEPT
                  !.edit = [stage |-> "seed", status |-> "ready", next |-> Bare("code")]]]
    /\ UNCHANGED <<archive, meta, hub, bounds, mixed>>

----------------------------------------------------------------------------
(***************************************************************************)
(* spawn and resume: count, launch, record; the runner records the end     *)
(***************************************************************************)
BelowCap == Cardinality(LiveRuns) < MaxConcurrent

Unused(r) == job[r].do = "none" /\ \A p \in Operators : job[p].run # r

CountedTogether(p) ==
    mixed' = IF OthersAt(p, {"launch", "row"}) THEN mixed \cup {"cap"} ELSE mixed

SpawnStarts(p, s) ==
    /\ meta.on /\ dir[s].there /\ BelowCap
    /\ Stages \ Attended # {}
    /\ \E r \in Runs :
          /\ Unused(r)
          /\ Begins(p, [Job("spawn", "launch", s) EXCEPT !.run = r])
    /\ CountedTogether(p)
    /\ UNCHANGED <<dir, archive, meta, hub>>

(* A session is entered again whatever its stage.                          *)
ResumeStarts(p, s) ==
    /\ meta.on /\ dir[s].there /\ HasSession(s) /\ BelowCap
    /\ \E r \in Runs :
          /\ Unused(r)
          /\ Begins(p, [Job("resume", "launch", s) EXCEPT !.run = r])
    /\ CountedTogether(p)
    /\ UNCHANGED <<dir, archive, meta, hub>>

(* The runner is detached: it is alive before the ledger names it.         *)
Launches(p) ==
    LET r == job[p].run IN
    /\ At(p, "launch")
    /\ job' = [job EXCEPT ![r] = Job("run", "work", job[p].slug), ![p].at = "row"]
    /\ UNCHANGED <<dir, archive, meta, hub, bounds, mixed>>

Row(r, event, session) == [event |-> event, run |-> r, session |-> session]

Records(p) ==
    LET s == job[p].slug IN
    /\ At(p, "row")
    /\ dir' = [dir EXCEPT ![s].there = TRUE,
                          ![s].rows = Append(@, Row(job[p].run, IF job[p].do = "resume"
                                                                THEN "resumed" ELSE "spawned",
                                                    job[p].do = "resume"))]
    /\ Return(p)
    /\ UNCHANGED <<archive, meta, hub, bounds, mixed>>

(* The child's result: what it says goes into a completed row, and output  *)
(* that is no result into a failed one.  Only the former renders the page. *)
RunEnds(r) ==
    LET s == job[r].slug IN
    /\ r \in Runs /\ At(r, "work")
    /\ \E event \in {"completed", "failed"} :
          /\ dir' = [dir EXCEPT ![s].there = TRUE,
                                ![s].rows = Append(@, Row(r, event, event = "completed"))]
          /\ IF event = "completed" THEN Goto(r, "fold") ELSE Return(r)
    /\ UNCHANGED <<archive, meta, hub, bounds, mixed>>

(* No row of the end, and no kill: output that parses and is no object     *)
(* (or counts no denials) ends the runner with an exception, which is not  *)
(* caught; an append that fails is caught, and the page is rendered next.  *)
RunIsLost(r) ==
    /\ r \in Runs /\ At(r, "work")
    /\ \/ Return(r) /\ UNCHANGED bounds
       \/ /\ bounds.faults < MaxFaults
          /\ bounds' = [bounds EXCEPT !.faults = @ + 1]
          /\ Goto(r, "fold")
    /\ mixed' = mixed \cup {r}
    /\ UNCHANGED <<dir, archive, meta, hub>>

----------------------------------------------------------------------------
(***************************************************************************)
(* Faults                                                                  *)
(***************************************************************************)
(* A process is killed, or a write of it fails: hooks swallow the error,   *)
(* commands report it, and nothing is undone.                              *)
Dies(p) ==
    /\ ~At(p, "idle") /\ bounds.faults < MaxFaults
    /\ bounds' = [bounds EXCEPT !.faults = @ + 1]
    /\ mixed' = mixed \cup (IF At(p, "event") THEN {job[p].slug} ELSE {})
                      \cup (IF At(p, "row") THEN {"cap"} ELSE {})
                      \cup (IF At(p, "work") THEN {p} ELSE {})
    /\ Return(p)
    /\ UNCHANGED <<dir, archive, meta, hub>>

----------------------------------------------------------------------------
AtWork == [Empty EXCEPT !.there = TRUE,
                       !.st = [stage |-> "code", status |-> "wip", next |-> Bare("code"),
                               directive |-> FALSE],
                       !.log = <<[stage |-> "code", status |-> "wip"]>>]
Closed == [AtWork EXCEPT !.st.status = "closed", !.st.next = Bare("none"),
                        !.log = Append(@, [stage |-> "code", status |-> "closed"])]

(* A project before init, with plans that have directories and maybe a     *)
(* page; or a fleet with plans at work, plans archived, and a run going.   *)
Init ==
    /\ \E on \in BOOLEAN, live \in (SUBSET Slugs) \ {{}}, going \in Runs \cup {Nothing} :
       \E gone \in SUBSET (Slugs \ live) :
          /\ going # Nothing => on /\ live = Slugs
          /\ ~on => gone = {}
          /\ meta = [on |-> on, roster |-> IF on THEN live ELSE {}, closed |-> gone,
                     waved |-> IF going = Nothing THEN gone ELSE live]
          /\ archive = [s \in Slugs |-> IF s \in gone THEN Closed ELSE Empty]
          /\ \E s \in live :
                /\ dir = [t \in Slugs |->
                      CASE t \notin live -> Empty
                        [] t \in live /\ ~on -> [Empty EXCEPT !.there = TRUE]
                        [] t = s /\ going # Nothing ->
                              [AtWork EXCEPT !.rows = <<Row(going, "spawned", FALSE)>>]
                        [] OTHER -> AtWork]
                /\ job = [p \in Actors |-> IF p = going THEN Job("run", "work", s) ELSE Idle]
          /\ IF on THEN \E z \in {Zones, Zones \ OptionalZones} :
                           /\ z = Zones \/ gone # {}
                           /\ hub = [there |-> TRUE, zones |-> z, view |-> Nothing]
                   ELSE \E there \in BOOLEAN :
                           hub = [there |-> there, zones |-> {}, view |-> Nothing]
    /\ bounds = [commands |-> 0, faults |-> 0]
    /\ mixed = {}

Step(p) == \/ Loads(p) \/ Saves(p) \/ Tells(p) \/ Folds(p) \/ Swaps(p)
           \/ OptsIn(p) \/ Scaffolds(p) \/ Wires(p) \/ Sows(p)
           \/ SavesMeta(p) \/ Archives(p) \/ Mints(p) \/ Launches(p) \/ Records(p)

Starting(p, s) == \/ UpdateStarts(p, s) \/ HookStarts(p, s) \/ HookTells(p, s)
                  \/ SeedStarts(p, s) \/ CloseStarts(p, s)
                  \/ SpawnStarts(p, s) \/ ResumeStarts(p, s)

Next ==
    \/ \E p \in Operators :
          \/ RenderStarts(p) \/ InitStarts(p) \/ MigrateStarts(p)
          \/ \E s \in Slugs : Starting(p, s)
    \/ \E p \in Actors : Step(p) \/ Dies(p)
    \/ \E r \in Runs : RunEnds(r) \/ RunIsLost(r)

Spec == Init /\ [][Next]_vars

----------------------------------------------------------------------------
TypeOK ==
    /\ \A s \in Slugs : \A d \in {dir[s], archive[s]} :
          /\ d.st \in State \cup {Nothing}
          /\ \A n \in 1..Len(d.log) : d.log[n].status \in Status \cup {"none"}
          /\ \A n \in DOMAIN d.rows : d.rows[n].run \in Runs
    /\ meta.roster \subseteq Slugs /\ meta.closed \subseteq Slugs
    /\ hub.zones \subseteq Zones
    /\ bounds.commands \in 0..MaxCommands /\ bounds.faults \in 0..MaxFaults

(* A plan's state and the last event of its history agree in status unless *)
(* two writers of one plan met, one died between the two writes, or a seed *)
(* wrote only one of them (engine.update, seed_from_file).                 *)
StateHasItsEvent ==
    \A s \in Slugs :
        \/ dir[s].st = Nothing \/ s \in mixed
        \/ \E p \in Actors : At(p, "event") /\ job[p].slug = s
        \/ dir[s].log # <<>> /\ dir[s].log[Len(dir[s].log)].status = dir[s].st.status

(* An archived plan has its closed row and is off the roster, wherever a   *)
(* close died, unless two closes had read the meta file at once, or one    *)
(* was about to archive the plan that the other names its successor.       *)
MetaTellsTheArchive ==
    \A s \in Slugs :
        archive[s].there => s \in meta.closed \ meta.roster \/ "meta" \in mixed

(* A plan on the roster without a directory is the successor of a close    *)
(* that is still going or that died.                                       *)
SuccessorsAreMinted ==
    \A h \in meta.roster :
        \/ dir[h].there \/ archive[h].there \/ bounds.faults > 0
        \/ \E p \in Operators : job[p].heir = h

(* No more children run than `max_concurrent` unless two spawns counted at *)
(* once, one died before its row, or a plan was archived with a run going: *)
(* the count reads only the live directories.                              *)
CapHoldsAlone ==
    "cap" \in mixed \/ Cardinality({r \in Runs : At(r, "work")}) <= MaxConcurrent

(* A runner left the row of its end, in the plan's directory or in its     *)
(* archive, unless it was killed, could not append it, or met the output   *)
(* its parser has no case for (spawn_runner.run): whatever is archived,    *)
(* recreated, resumed or rendered meanwhile, no other run is lost.         *)
EveryRunIsTold ==
    \A r \in Runs :
        job[r].do = "run" /\ ~At(r, "work") /\ r \notin mixed =>
            \E s \in Slugs : \E d \in {dir[s], archive[s]} : \E n \in DOMAIN d.rows :
                d.rows[n].run = r /\ IsEnd(d.rows[n])

(* A runner that left no row of its end is reported once its process is    *)
(* gone, for as long as the ledger that names it is in a live directory,   *)
(* whatever ran later.                                                     *)
DeathsAreSeen ==
    \A r \in Runs \cap mixed : \A s \in Slugs :
        ~Alive(r) /\ (\E x \in RowsOf(s) : x.run = r) => NeedsAttention(s)

(* The tree of the page has every plan of the roster, of the closed rows   *)
(* and with a state, but one: closed without a wave, its directory kept,   *)
(* it is taken for seen and shown nowhere (render_tree).                   *)
TreeHasTheRest ==
    hub.view # Nothing =>
        LET v == hub.view IN
        Tree(v) = (v.roster \cup v.closed \cup With(v, Status))
                      \ ((v.closed \cap (v.roster \cup With(v, Status))) \ v.waved)

(* Each ready plan the page shows has one lane: runnable one-liner, or the *)
(* attended queue when its next command is attended-only, with or without  *)
(* words after it.  A page without its markers shows nothing.              *)
LanesAgree ==
    hub.view # Nothing =>
        /\ Zones \ OptionalZones \subseteq hub.zones
        /\ Now(hub.view) \subseteq Board(hub.view).live
        /\ \A s \in With(hub.view, {"ready"}) :
              IF \E c \in Attended, more \in BOOLEAN :
                    hub.view.states[s].next = [cmd |-> c, rest |-> more]
              THEN s \in AttendedQueue(hub.view) \ Prompts(hub.view)
              ELSE s \in Prompts(hub.view) \ AttendedQueue(hub.view)

FleetInv ==
    /\ TypeOK /\ StateHasItsEvent /\ MetaTellsTheArchive /\ SuccessorsAreMinted
    /\ CapHoldsAlone /\ EveryRunIsTold /\ DeathsAreSeen /\ LanesAgree /\ TreeHasTheRest

(* What was written to a plan's history and ledger is never dropped: an    *)
(* archive only grows, whichever close moves a directory into it.          *)
HistoryIsKept ==
    [][\A s \in Slugs :
          /\ Len(archive[s].rows) + Len(dir[s].rows) <= Len(archive'[s].rows) + Len(dir'[s].rows)
          /\ Len(archive[s].log) + Len(dir[s].log) <= Len(archive'[s].log) + Len(dir'[s].log)
          /\ SubSeq(archive'[s].log, 1, Len(archive[s].log)) = archive[s].log]_vars
=============================================================================
