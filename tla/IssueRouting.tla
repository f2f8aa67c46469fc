---------------------------- MODULE IssueRouting ----------------------------
(***************************************************************************)
(* route_issue: where a problem found during other work goes.              *)
(*                                                                         *)
(* Unless the staged change forces an escalation, an issue is fixed now (a *)
(* log row), appended to outstanding_issues.md, made a marker (a call of   *)
(* bin/marker create), or promoted: an outstanding line becomes a plan     *)
(* directory with a recon file.  An escalation is a file of its own.       *)
(* Outstanding lines are capped per session by a counter file, read before *)
(* the line is appended and bumped after it, without a lock and through    *)
(* one temporary name.  bin/lessons adds entries to a plan's lessons.md.   *)
(***************************************************************************)
EXTENDS ScheduledMarkers

CONSTANTS
    Slugs,          \* the plans a promotion or a lesson may name
    Contexts,       \* what may be staged when route_issue is called
    MaxLines,       \* how many lines and escalations are minted
    Cap, GuardrailCap, BlastRadius

(* What the triggers look at.  `verticals` are those of the files that     *)
(* have one; `ddl` is what the hook's log counts, `override` the pending   *)
(* marker of the state file; `flags` are the switches given.               *)
Context == [staged : Nat, outside : BOOLEAN, verticals : SUBSET {"etl", "web"}, ddl : Nat,
            override : BOOLEAN,
            flags : SUBSET {"include-ddl-count", "allow-multi-ddl", "check-override-state"}]

ASSUME RoutingAssumption ==
    /\ Contexts \subseteq Context
    /\ {MaxLines, Cap, GuardrailCap, BlastRadius} \subseteq Nat
    /\ "issues" \notin Slugs /\ Nothing \notin Nat \cup Slugs

VARIABLES
    route,      \* what route_issue or lessons is doing in each process
    flocks,     \* the holder of the flock of the outstanding file, and of each plan
    issues,     \* the lines of outstanding_issues.md
    plans,      \* the directory of each plan: there, its recon, its lessons
    raised,     \* the escalation files
    minted,     \* how many line ids were given
    cells,      \* what the counter's files hold, one per inode
    counter,    \* the inode of the counter file, or Nothing
    tmp,        \* the inode of its temporary file, or Nothing
    dumped,     \* ghost: lines appended since the counter was last zeroed
    met         \* ghost: two commands were between check and count at once

lines == <<issues, plans, raised, minted>>
counting == <<cells, counter, tmp, dumped, met>>
routing == <<route, flocks>>
vars == <<cmd, locks, markers, bounds, routing, lines, counting>>

(***************************************************************************)
(* Triggers                                                                *)
(***************************************************************************)
Evaluate(c, ddlLog, stateFile) ==
    IF c.staged > BlastRadius THEN "blast_radius"
    ELSE IF /\ {"include-ddl-count", "allow-multi-ddl"} \cap c.flags = {"include-ddl-count"}
            /\ ddlLog > 1 THEN "ddl_multi"
    ELSE IF c.staged > 0 /\ c.outside THEN "cross_repo"
    ELSE IF c.staged > 0 /\ Cardinality(c.verticals) > 1 THEN "cross_vertical"
    ELSE IF "check-override-state" \in c.flags /\ stateFile THEN "operator_override_state"
    ELSE "none"

(* The command line names neither the log nor the state file, and routing  *)
(* turns both detectors off.                                               *)
CheckScope(c) == Evaluate(c, 0, FALSE)
RouteTrigger(c) == Evaluate([c EXCEPT !.flags = {}], 0, FALSE)

MayRoute(type, c) == type = "escalate" \/ RouteTrigger(c) = "none"

(***************************************************************************)
(* Lines                                                                   *)
(***************************************************************************)
Line(id) == [id |-> id, status |-> "open", to |-> Nothing]
Ids == {issues[k].id : k \in DOMAIN issues}
LineOf(id) == CHOOSE l \in ToSet(issues) : l.id = id
IsOpen(f, id) == \E k \in DOMAIN f : f[k].id = id /\ f[k].status = "open"
Promoted(f, id, slug) ==
    [k \in DOMAIN f |-> IF f[k].id = id THEN [f[k] EXCEPT !.status = "promoted", !.to = slug]
                        ELSE f[k]]

(* Rows of the log.                                                        *)
Appended(id) == <<"outstanding_appended", id>>
LessonAdded(n, slug) == <<"lesson_added", n, slug>>
Reset == <<"lazy_dump_cap_reset">>

(* A command of route_issue or lessons: what it will tell the log of, the  *)
(* line and the plan it is about, a number, the copy of the file it read   *)
(* and the inode it writes to.                                             *)
Free == [at |-> "free", row |-> <<>>, id |-> Nothing, slug |-> Nothing, n |-> 0,
         copy |-> <<>>, inode |-> Nothing]
RouteAt(i, at) == route[i].at = at
Goes(i, job) == route' = [route EXCEPT ![i] = job]
GoesTo(i, at) == Goes(i, [route[i] EXCEPT !.at = at])
Telling(row) == [Free EXCEPT !.at = "tell", !.row = row]

Locked(f, i) == flocks[f] = Nobody /\ flocks' = [flocks EXCEPT ![f] = i]
Unlocks(i) == flocks' = [f \in DOMAIN flocks |-> IF flocks[f] = i THEN Nobody ELSE flocks[f]]
Ends(i) == Unlocks(i) /\ Goes(i, Free) /\ UNCHANGED <<cmd, locks, left>>

(* A process that runs no command starts one.                              *)
Begins(i, job) ==
    /\ RouteAt(i, "free") /\ At(i, "idle") /\ left > 0 /\ left' = left - 1
    /\ Goes(i, job) /\ UNCHANGED <<cmd, locks, faults, flocks>>

RouteStarts(i, type, c) ==
    LET job == CASE type = "fix-now" -> Telling(<<"fix_now_logged">>)
                 [] type = "outstanding" -> [Free EXCEPT !.at = "cap"]
                 [] type = "escalate" -> [Free EXCEPT !.at = "raise"]
    IN /\ Begins(i, IF MayRoute(type, c) THEN job ELSE Free)
       /\ UNCHANGED <<markers, lines, counting>>

(* bin/marker create runs as a subprocess.                                 *)
RouteMarkerStarts(i, r, c) ==
    /\ RouteAt(i, "free") /\ MayRoute("marker", c) /\ CreateStarts(i, r)
    /\ Goes(i, [Free EXCEPT !.at = "delegated"])
    /\ UNCHANGED <<flocks, lines, counting>>

(* The caller's row, whatever the marker command answered.                 *)
TellsDelegated(i) ==
    /\ RouteAt(i, "delegated") /\ At(i, "idle")
    /\ Tells(<<"route_marker_delegated">>) /\ Ends(i)
    /\ UNCHANGED <<faults, lines, counting>>

TellsRoute(i) ==
    /\ RouteAt(i, "tell")
    /\ Tells(route[i].row) /\ Ends(i)
    /\ UNCHANGED <<faults, lines, counting>>

RaisesFile(i) ==
    /\ RouteAt(i, "raise") /\ minted < MaxLines
    /\ minted' = minted + 1 /\ raised' = raised \cup {minted + 1}
    /\ Goes(i, Telling(<<"escalation_triggered", minted + 1>>))
    /\ UNCHANGED <<cmd, locks, flocks, markers, bounds, issues, plans, counting>>

(***************************************************************************)
(* outstanding, and the counter                                            *)
(***************************************************************************)
Window == {"append", "append_write", "count", "fill", "replace"}
OthersInWindow(i) == \E k \in Procs \ {i} : route[k].at \in Window

(* A file that is missing, or cut short, counts nothing.                   *)
Count == IF counter = Nothing THEN 0 ELSE IF cells[counter] = Nothing THEN 0 ELSE cells[counter]

(* The default or what the environment says, or the guardrail.             *)
Caps == {Cap, GuardrailCap}
BelowCap(cap) == Count < cap

CapIsChecked(i, cap) ==
    /\ RouteAt(i, "cap")
    /\ IF BelowCap(cap)
       THEN GoesTo(i, "append") /\ met' = (met \/ OthersInWindow(i))
       ELSE Goes(i, Free) /\ UNCHANGED met
    /\ UNCHANGED <<cmd, locks, flocks, markers, bounds, lines, cells, counter, tmp, dumped>>

AppendReads(i) ==
    /\ RouteAt(i, "append") /\ minted < MaxLines /\ Locked("issues", i)
    /\ minted' = minted + 1
    /\ Goes(i, [Free EXCEPT !.at = "append_write", !.id = minted + 1, !.copy = issues])
    /\ UNCHANGED <<cmd, locks, markers, bounds, issues, plans, raised, counting>>

AppendWrites(i) ==
    /\ RouteAt(i, "append_write")
    /\ issues' = Append(route[i].copy, Line(route[i].id))
    /\ dumped' = dumped + 1
    /\ Unlocks(i)
    /\ Goes(i, [Free EXCEPT !.at = "count", !.row = Appended(route[i].id)])
    /\ UNCHANGED <<cmd, locks, markers, bounds, plans, raised, minted, cells, counter, tmp, met>>

ResetStarts(i) ==
    /\ Begins(i, [Free EXCEPT !.at = "count", !.row = Reset])
    /\ met' = (met \/ OthersInWindow(i))
    /\ UNCHANGED <<markers, lines, cells, counter, tmp, dumped>>

IsReset(i) == route[i].row = Reset
InUse == {counter, tmp} \cup {route[k].inode : k \in Procs}
FreeInode == CHOOSE c \in DOMAIN cells : c \notin InUse

(* The count is read, then the temporary file opened, which cuts it.       *)
CountReads(i) ==
    /\ RouteAt(i, "count")
    /\ LET inode == IF tmp = Nothing THEN FreeInode ELSE tmp
       IN /\ tmp' = inode /\ cells' = [cells EXCEPT ![inode] = Nothing]
          /\ Goes(i, [route[i] EXCEPT !.at = "fill", !.inode = inode,
                                      !.n = IF IsReset(i) THEN 0 ELSE Count + 1])
    /\ UNCHANGED <<cmd, locks, flocks, markers, bounds, lines, counter, dumped, met>>

CountFills(i) ==
    /\ RouteAt(i, "fill")
    /\ cells' = [cells EXCEPT ![route[i].inode] = route[i].n]
    /\ GoesTo(i, "replace")
    /\ UNCHANGED <<cmd, locks, flocks, markers, bounds, lines, counter, tmp, dumped, met>>

(* The temporary file is the counter now; when another command has moved   *)
(* it first, the rename fails and the command with it.                     *)
CountReplaces(i) ==
    /\ RouteAt(i, "replace") /\ tmp # Nothing
    /\ counter' = tmp /\ tmp' = Nothing
    /\ dumped' = IF IsReset(i) THEN 0 ELSE dumped
    /\ Goes(i, Telling(route[i].row))
    /\ UNCHANGED <<cmd, locks, flocks, markers, bounds, lines, cells, met>>

CountIsGone(i) ==
    /\ RouteAt(i, "replace") /\ tmp = Nothing
    /\ Ends(i)
    /\ UNCHANGED <<faults, markers, lines, counting>>

(***************************************************************************)
(* tier-promote                                                            *)
(***************************************************************************)
PromoteStarts(i, id, slug, c) ==
    /\ Begins(i, IF MayRoute("tier-promote", c) /\ IsOpen(issues, id) /\ ~plans[slug].there
                 THEN [Free EXCEPT !.at = "mkdir", !.id = id, !.slug = slug] ELSE Free)
    /\ UNCHANGED <<markers, lines, counting>>

Slug(i) == route[i].slug

MakesPlan(i) ==
    /\ RouteAt(i, "mkdir")
    /\ IF plans[Slug(i)].there
       THEN Goes(i, Free) /\ UNCHANGED plans
       ELSE plans' = [plans EXCEPT ![Slug(i)].there = TRUE] /\ GoesTo(i, "recon")
    /\ UNCHANGED <<cmd, locks, flocks, markers, bounds, issues, raised, minted, counting>>

WritesRecon(i) ==
    /\ RouteAt(i, "recon")
    /\ plans' = [plans EXCEPT ![Slug(i)].recon = route[i].id]
    /\ GoesTo(i, "promote")
    /\ UNCHANGED <<cmd, locks, flocks, markers, bounds, issues, raised, minted, counting>>

StillOpen(i) == IsOpen(issues, route[i].id)

PromoteReads(i) ==
    /\ RouteAt(i, "promote") /\ Locked("issues", i)
    /\ Goes(i, [route[i] EXCEPT !.copy = issues, !.at = IF StillOpen(i) THEN "mark" ELSE "undo"])
    /\ UNCHANGED <<cmd, locks, markers, bounds, lines, counting>>

MarksLine(i) ==
    /\ RouteAt(i, "mark")
    /\ issues' = Promoted(route[i].copy, route[i].id, Slug(i))
    /\ Unlocks(i)
    /\ Goes(i, Telling(<<"outstanding_promoted", route[i].id, Slug(i)>>))
    /\ UNCHANGED <<cmd, locks, markers, bounds, plans, raised, minted, counting>>

(* The recon goes; the directory too, unless lessons were left in it.      *)
UndoesPlan(i) ==
    /\ RouteAt(i, "undo")
    /\ plans' = [plans EXCEPT ![Slug(i)].recon = Nothing, ![Slug(i)].there = plans[Slug(i)].used]
    /\ Ends(i)
    /\ UNCHANGED <<faults, markers, issues, raised, minted, counting>>

ResolvesByHand(id) ==
    /\ left > 0 /\ left' = left - 1 /\ IsOpen(issues, id)
    /\ issues' = [k \in DOMAIN issues |->
           IF issues[k].id = id THEN [issues[k] EXCEPT !.status = "resolved"] ELSE issues[k]]
    /\ UNCHANGED <<cmd, locks, routing, markers, faults, plans, raised, minted, counting>>

(***************************************************************************)
(* lessons add                                                             *)
(***************************************************************************)
LessonStarts(i, slug, complete) ==
    /\ Begins(i, IF complete THEN [Free EXCEPT !.at = "lesson", !.slug = slug] ELSE Free)
    /\ UNCHANGED <<markers, lines, counting>>

(* Taking the flock makes the directory and leaves the lock file in it.    *)
LessonReads(i) ==
    /\ RouteAt(i, "lesson") /\ Locked(Slug(i), i)
    /\ plans' = [plans EXCEPT ![Slug(i)].there = TRUE, ![Slug(i)].used = TRUE]
    /\ Goes(i, [route[i] EXCEPT !.at = "lesson_write", !.n = plans[Slug(i)].lessons])
    /\ UNCHANGED <<cmd, locks, markers, bounds, issues, raised, minted, counting>>

LessonWrites(i) ==
    /\ RouteAt(i, "lesson_write")
    /\ plans' = [plans EXCEPT ![Slug(i)].lessons = route[i].n + 1]
    /\ Unlocks(i)
    /\ Goes(i, Telling(LessonAdded(route[i].n + 1, Slug(i))))
    /\ UNCHANGED <<cmd, locks, markers, bounds, issues, raised, minted, counting>>

(***************************************************************************)
(* Failures, and the specification                                         *)
(***************************************************************************)
RoutingWrites == {"delegated", "tell", "raise", "append", "append_write", "fill", "replace",
                  "recon", "mark", "lesson_write"}

(* The command ends, and its flocks with it; so it does when it is killed. *)
RoutingWriteFails(i) ==
    /\ route[i].at \in RoutingWrites /\ Fault /\ Ends(i)
    /\ UNCHANGED <<markers, lines, counting>>

RoutingKilled(i) ==
    /\ route[i].at # "free" /\ Fault /\ Ends(i)
    /\ UNCHANGED <<markers, lines, counting>>

Init ==
    /\ MarkerInit /\ flocks = [f \in {"issues"} \cup Slugs |-> Nobody]
    /\ route = [i \in Procs |-> Free]
    /\ issues = <<Line(0)>> /\ raised = {} /\ minted = 0
    /\ plans = [s \in Slugs |-> [there |-> FALSE, used |-> FALSE, recon |-> Nothing, lessons |-> 0]]
    /\ cells = [c \in 0..(2 * Cardinality(Procs)) |-> Nothing] /\ counter = Nothing /\ tmp = Nothing
    /\ dumped = 0 /\ met = FALSE

Step(i) ==
    \/ MarkerStep(i) /\ UNCHANGED <<routing, lines, counting>>
    \/ TellsDelegated(i) \/ TellsRoute(i) \/ RaisesFile(i)
    \/ \E cap \in Caps : CapIsChecked(i, cap)
    \/ AppendReads(i) \/ AppendWrites(i)
    \/ CountReads(i) \/ CountFills(i) \/ CountReplaces(i) \/ CountIsGone(i)
    \/ MakesPlan(i) \/ WritesRecon(i) \/ PromoteReads(i) \/ MarksLine(i) \/ UndoesPlan(i)
    \/ LessonReads(i) \/ LessonWrites(i)
    \/ RoutingWriteFails(i) \/ RoutingKilled(i)

Command(i) ==
    \/ RouteAt(i, "free") /\ MarkerStarts(i) /\ UNCHANGED <<routing, lines, counting>>
    \/ ResetStarts(i)
    \/ \E c \in Contexts :
          \/ \E type \in {"fix-now", "outstanding", "escalate"} : RouteStarts(i, type, c)
          \/ \E r \in Requests : RouteMarkerStarts(i, r, c)
          \/ \E id \in Ids, slug \in Slugs : PromoteStarts(i, id, slug, c)
    \/ \E slug \in Slugs, complete \in BOOLEAN : LessonStarts(i, slug, complete)

ByHand == \/ (\E p \in PrefixIds : RetiresByHand(p)) /\ UNCHANGED <<routing, lines, counting>>
          \/ \E id \in Ids : ResolvesByHand(id)

Next == ByHand \/ \E i \in Procs : Step(i) \/ Command(i)

Spec == Init /\ [][Next]_vars

(***************************************************************************)
(* Properties                                                              *)
(***************************************************************************)
TypeOK ==
    /\ locks \in [{"list", "registry"} -> Procs \cup {Nobody}]
    /\ flocks \in [{"issues"} \cup Slugs -> Procs \cup {Nobody}]
    /\ \A l \in ToSet(issues) : /\ l.id \in 0..minted
                                /\ l.status \in {"open", "promoted", "resolved"}
                                /\ l.to \in Slugs \cup {Nothing}
    /\ minted \in 0..MaxLines /\ left \in 0..MaxCommands /\ faults \in 0..MaxFaults

(* A line that is promoted names a plan whose recon was made from it, and  *)
(* a recon whose line does not name it is the trace of a failure or of a   *)
(* promotion that is still on its way.                                     *)
Names(l, s) == l.status = "promoted" /\ l.to = s
Loose == {s \in Slugs : plans[s].recon # Nothing /\ ~Names(LineOf(plans[s].recon), s)}
InFlight == {i \in Procs : route[i].at \in {"promote", "mark", "undo"}}

PromotionIsWhole ==
    /\ \A l \in ToSet(issues), s \in Slugs : Names(l, s) => plans[s].recon = l.id
    /\ Cardinality(Loose) <= faults + Cardinality(InFlight)

(* No line that was appended is gone, nor a lesson that was told of.       *)
NothingAppendedIsLost ==
    /\ \A id \in 0..MaxLines : Appended(id) \in told => id \in Ids
    /\ \A s \in Slugs, n \in 0..MaxCommands :
          LessonAdded(n, s) \in told => plans[s].lessons >= n

(* The session's cap, the greatest of the caps the commands were given,    *)
(* holds as long as no two commands are between their check and their      *)
(* count at once and none of them fails there.                             *)
CapHoldsAlone == (\A cap \in Caps : dumped > cap) => met \/ faults > 0

RoutingInv ==
    /\ TypeOK /\ NumbersAreBurned /\ RowsAreKept /\ RowsValidate /\ TracesCostAFault
    /\ PromotionIsWhole /\ NothingAppendedIsLost /\ CapHoldsAlone
=============================================================================
