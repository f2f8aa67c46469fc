---------------------------- MODULE MorningQueue ----------------------------
(***************************************************************************)
(* The morning-review queue: what an overnight run leaves for the operator.*)
(*                                                                         *)
(* A plan has one file per day.  Sessions that collide append an entry to  *)
(* it, the retry loop a section about a halted chain and the divergence    *)
(* check its report; the operator's gestures (reactivate, route-outstanding,*)
(* route-marker, abandon) run another command and then write the outcome   *)
(* into the entry, its mirror.  A file whose entries are all closed is     *)
(* moved to the archive.                                                   *)
(*                                                                         *)
(* Entries and mirrors are written under the file's flock.  The halt       *)
(* section, the report, the fallback header and the archive move are not.  *)
(***************************************************************************)
EXTENDS Naturals, Sequences, FiniteSets, SequencesExt

CONSTANTS
    Plans,          \* one daily file each
    Tasks,          \* the ids an entry may carry
    RealTasks,      \* those that are tasks of every plan's orchestrator
    Procs,          \* processes; each runs one command at a time
    MaxBlocks,      \* how many blocks are written
    MaxCommands,    \* how many commands run
    MaxDeaths,      \* how many of them are killed
    Absent, Nobody, NoTask

ASSUME QueueAssumption ==
    /\ RealTasks \subseteq Tasks
    /\ MaxBlocks \in Nat /\ MaxCommands \in Nat /\ MaxDeaths \in Nat
    /\ NoTask \notin Tasks /\ Nobody \notin Procs /\ IsFiniteSet(Procs)

VARIABLES
    daily,      \* today's file of each plan
    archive,    \* the archived file of the same name
    lock,       \* who holds the flock of the daily file
    cmd,        \* what each process is doing
    known,      \* the tasks _state.json has, real or not
    did,        \* what gestures have done: <<gesture, plan, task>>
    closed,     \* the tasks with a triage row in the plan's log
    index,      \* the tasks _index.md lists
    left, deaths,
    born,       \* ghost: blocks written so far
    lost,       \* ghost: blocks a writer without the flock dropped
    unseen,     \* ghost: open entries an archive move took unseen
    reopened    \* ghost: closed entries a halt section set back to pending

files == <<daily, archive>>
effects == <<known, did>>
views == <<closed, index>>
bounds == <<left, deaths>>
ghosts == <<lost, unseen, reopened>>
vars == <<files, lock, cmd, effects, views, bounds, born, ghosts>>

Gestures == {"reactivate", "route-outstanding", "route-marker", "abandon"}
Terminal == {"reactivated", "routed-outstanding", "routed-marker", "abandoned"}
MirrorOf == [g \in Gestures \cup {"mark-deferred"} |-> CASE g = "reactivate" -> "reactivated"
                                  [] g = "route-outstanding" -> "routed-outstanding"
                                  [] g = "abandon" -> "abandoned"
                                  [] OTHER -> "routed-marker"]

(* A piece of a daily file.  Only an "entry" is under the heading the      *)
(* parser knows; the rest is header or trailing notes to it.  A "note" is  *)
(* the operator's own: it names the task the way route_marker looks for.   *)
Block ==
    [id : 1..MaxBlocks, kind : {"entry"}, task : Tasks, mirror : Terminal \cup {"pending"}]
      \cup [id : 1..MaxBlocks, kind : {"halt", "report", "note"}, task : Tasks \cup {NoTask},
            mirror : {"none"}]

ASSUME AbsentAssumption == Absent \notin Seq(Block)

Idle == [at |-> "idle", how |-> "none", plan |-> Nobody, task |-> NoTask, copy |-> <<>>]

Init ==
    /\ daily = [p \in Plans |-> Absent] /\ archive = [p \in Plans |-> Absent]
    /\ lock = [p \in Plans |-> Nobody]
    /\ cmd = [i \in Procs |-> Idle]
    /\ known = [p \in Plans |-> RealTasks] /\ did = {}
    /\ closed = [p \in Plans |-> {}] /\ index = [p \in Plans |-> {}]
    /\ left = MaxCommands /\ deaths = 0
    /\ born = 0 /\ lost = {} /\ unseen = {} /\ reopened = {}

(***************************************************************************)
(* A daily file                                                            *)
(***************************************************************************)
Blocks(f) == IF f = Absent THEN {} ELSE ToSet(f)
Content(f) == IF f = Absent THEN <<>> ELSE f
Ids(S) == {b.id : b \in S}
IsEntry(b) == b.kind = "entry"
Entries(f) == {b \in Blocks(f) : IsEntry(b)}
Pending(f) == {b \in Entries(f) : b.mirror = "pending"}
Listed(p) == Pending(daily[p])

(* Lookup and update both take the first entry with the task's id.         *)
Places(f, t) == {n \in DOMAIN Content(f) : IsEntry(f[n]) /\ f[n].task = t}
First(f, t) == CHOOSE n \in Places(f, t) : \A m \in Places(f, t) : n <= m
Found(f, t) == Places(f, t) # {}
FoundPending(f, t) == Found(f, t) /\ f[First(f, t)].mirror = "pending"
WithMirror(f, t, m) == [f EXCEPT ![First(f, t)].mirror = m]

AllClosed(f) == Entries(f) # {} /\ Pending(f) = {}
Noted(f, t) == \E b \in Blocks(f) : b.kind = "note" /\ b.task = t

NewBlock(kind, t) ==
    [id |-> born + 1, kind |-> kind, task |-> t,
     mirror |-> IF kind = "entry" THEN "pending" ELSE "none"]
HaltSection == NewBlock("halt", NoTask)

At(i, at) == cmd[i].at = at
Plan(i) == cmd[i].plan
File(i) == daily[Plan(i)]
Goto(i, at) == cmd' = [cmd EXCEPT ![i].at = at]
GotoWith(i, at, copy) == cmd' = [cmd EXCEPT ![i].at = at, ![i].copy = copy]
Return(i) == cmd' = [cmd EXCEPT ![i] = Idle]

Begin(i, at, how, p, t) ==
    /\ At(i, "idle") /\ left > 0
    /\ left' = left - 1
    /\ cmd' = [cmd EXCEPT ![i] = [at |-> at, how |-> how, plan |-> p, task |-> t, copy |-> <<>>]]
    /\ UNCHANGED <<files, lock, effects, views, deaths, born, ghosts>>

(* (wrong) Taken whoever holds it.                                         *)
TakeLockAnyway(i) == lock' = [lock EXCEPT ![Plan(i)] = i]

TakeLock(i) == lock[Plan(i)] = Nobody /\ lock' = [lock EXCEPT ![Plan(i)] = i]
FreeLock(i) == lock' = [lock EXCEPT ![Plan(i)] = Nobody]
Write(i, f) == daily' = [daily EXCEPT ![Plan(i)] = f]

(* What replacing the file with f drops.                                   *)
Dropped(i, f) == Ids(Blocks(File(i))) \ Ids(Blocks(f))
DroppedByHand(i, f) == Dropped(i, f) \ Ids(Entries(File(i)))

(***************************************************************************)
(* Writers: a colliding session, a halted chain, the divergence check      *)
(***************************************************************************)
Writers == {i \in Procs : cmd[i].how \in {"collide", "halt"}}
Room == born + Cardinality(Writers) < MaxBlocks

Collide(i, p, t) == Room /\ Begin(i, "boot", "collide", p, t) /\ UNCHANGED born
Halt(i, p) == Room /\ Begin(i, "boot", "halt", p, NoTask) /\ UNCHANGED born

(* The file is there, or the header is to be written: by                   *)
(* --internal-bootstrap-day under the flock, which looks again, or, when    *)
(* that fails, by the writer itself, which does not.                       *)
BootSees(i) ==
    /\ At(i, "boot")
    /\ Goto(i, IF File(i) = Absent THEN "missing" ELSE "append")
    /\ UNCHANGED <<files, lock, effects, views, bounds, born, ghosts>>

BootAgain(i) ==
    /\ At(i, "missing") /\ TakeLock(i) /\ File(i) = Absent
    /\ Goto(i, "header")
    /\ UNCHANGED <<files, effects, views, bounds, born, ghosts>>

BootDone(i) ==
    /\ At(i, "missing") /\ lock[Plan(i)] = Nobody /\ File(i) # Absent
    /\ Goto(i, "append")
    /\ UNCHANGED <<files, lock, effects, views, bounds, born, ghosts>>

BootWrites(i) ==
    /\ At(i, "header")
    /\ Write(i, <<>>) /\ lost' = lost \cup DroppedByHand(i, <<>>)
    /\ FreeLock(i) /\ Goto(i, "append")
    /\ UNCHANGED <<archive, effects, views, bounds, born, unseen, reopened>>

ShellWritten(i) ==
    /\ At(i, "missing")
    /\ Write(i, <<>>) /\ lost' = lost \cup Dropped(i, <<>>)
    /\ Goto(i, "append")
    /\ UNCHANGED <<archive, lock, effects, views, bounds, born, unseen, reopened>>

(* (wrong) Read before the flock, as the halt section is.                  *)
EntryReadsUnlocked(i) ==
    /\ At(i, "append") /\ cmd[i].how = "collide"
    /\ GotoWith(i, "entry", Content(File(i)))
    /\ UNCHANGED <<files, lock, effects, views, bounds, born, ghosts>>

(* A collision entry: read and replaced under the flock.                   *)
EntryReads(i) ==
    /\ At(i, "append") /\ cmd[i].how = "collide" /\ TakeLock(i)
    /\ GotoWith(i, "entry", Content(File(i)))
    /\ UNCHANGED <<files, effects, views, bounds, born, ghosts>>

EntryWrites(i) ==
    /\ At(i, "entry")
    /\ LET f == Append(cmd[i].copy, NewBlock("entry", cmd[i].task)) IN
         /\ Write(i, f) /\ lost' = lost \cup DroppedByHand(i, f)
    /\ born' = born + 1
    /\ FreeLock(i) /\ Return(i)
    /\ UNCHANGED <<archive, effects, views, bounds, unseen, reopened>>

(* A halt section: read, and replaced with the copy and the section.       *)
HaltReads(i) ==
    /\ At(i, "append") /\ cmd[i].how = "halt"
    /\ GotoWith(i, "section", Content(File(i)))
    /\ UNCHANGED <<files, lock, effects, views, bounds, born, ghosts>>

HaltWrites(i) ==
    /\ At(i, "section")
    /\ LET f == Append(cmd[i].copy, HaltSection) IN
         /\ Write(i, f) /\ lost' = lost \cup Dropped(i, f)
         /\ reopened' = reopened \cup (Ids(Pending(f)) \ Ids(Pending(File(i))))
    /\ born' = born + 1
    /\ Return(i)
    /\ UNCHANGED <<archive, lock, effects, views, bounds, unseen>>

(* The divergence report and the operator's notes are appended in place.   *)
Appended(p, kind, t) ==
    /\ Room /\ left > 0 /\ left' = left - 1
    /\ daily' = [daily EXCEPT ![p] = Append(Content(@), NewBlock(kind, t))]
    /\ born' = born + 1
    /\ UNCHANGED <<archive, lock, cmd, effects, views, deaths, ghosts>>

Report(p) == Appended(p, "report", NoTask)
OperatorNotes(p, t) == Found(daily[p], t) /\ Appended(p, "note", t)

(***************************************************************************)
(* Gestures                                                                *)
(***************************************************************************)
Triage(i, p, t, g) == Begin(i, "lookup", g, p, t) /\ UNCHANGED born

LookupRefuses(i) ==
    /\ At(i, "lookup") /\ ~FoundPending(File(i), cmd[i].task)
    /\ Return(i)
    /\ UNCHANGED <<files, lock, effects, views, bounds, born, ghosts>>

LookupFinds(i) ==
    /\ At(i, "lookup") /\ FoundPending(File(i), cmd[i].task)
    /\ Goto(i, IF cmd[i].how = "route-outstanding" THEN "mint" ELSE "effect")
    /\ UNCHANGED <<files, lock, effects, views, bounds, born, ghosts>>

(* bin/update_orchestrator takes any task id and adds the ones it does not *)
(* know.  Its exit code may be that of a later step: done, and refused.    *)
Updated(i) == known' = [known EXCEPT ![Plan(i)] = @ \cup {cmd[i].task}]
Did(i) == did' = did \cup {<<cmd[i].how, Plan(i), cmd[i].task>>}

GestureUpdates(i) ==
    /\ At(i, "effect") /\ cmd[i].how \in {"reactivate", "route-outstanding"}
    /\ Updated(i)
    /\ \/ Did(i) /\ Goto(i, "mirror")
       \/ UNCHANGED did /\ Return(i)
    /\ UNCHANGED <<files, lock, views, bounds, born, ghosts>>

GestureFails(i) ==
    /\ At(i, "effect") \/ At(i, "mint")
    /\ cmd[i].how # "abandon"
    /\ Return(i)
    /\ UNCHANGED <<files, lock, effects, views, bounds, born, ghosts>>

(* The outstanding line is minted before the update that may still fail.   *)
RouteMints(i) ==
    /\ At(i, "mint")
    /\ did' = did \cup {<<"mint", Plan(i), cmd[i].task>>}
    /\ Goto(i, "effect")
    /\ UNCHANGED <<files, lock, known, views, bounds, born, ghosts>>

(* route_marker looks for the task under a heading entries do not have:    *)
(* only a note makes it find one.                                          *)
MarkerCreated(i) ==
    /\ At(i, "effect") /\ cmd[i].how = "route-marker"
    /\ Noted(File(i), cmd[i].task)
    /\ Did(i) /\ Goto(i, "mirror")
    /\ UNCHANGED <<files, lock, known, views, bounds, born, ghosts>>

(* abandon calls bin/lessons add without its arguments, which refuses.     *)
AbandonStops(i) ==
    /\ At(i, "effect") /\ cmd[i].how = "abandon"
    /\ Return(i)
    /\ UNCHANGED <<files, lock, effects, views, bounds, born, ghosts>>

(* --internal-mark-deferred: of the first plan, in directory order, with   *)
(* an entry of that id.                                                    *)
MarkDeferred(i, p, t) ==
    /\ \E q \in Plans : <<"route-marker", q, t>> \in did
    /\ FoundPending(daily[p], t)
    /\ Begin(i, "mirror", "mark-deferred", p, t) /\ UNCHANGED born

MirrorReads(i) ==
    /\ At(i, "mirror") /\ TakeLock(i)
    /\ Found(File(i), cmd[i].task)
    /\ GotoWith(i, "write", File(i))
    /\ UNCHANGED <<files, effects, views, bounds, born, ghosts>>

MirrorAbsent(i) ==
    /\ At(i, "mirror") /\ lock[Plan(i)] = Nobody
    /\ ~Found(File(i), cmd[i].task)
    /\ Return(i)
    /\ UNCHANGED <<files, lock, effects, views, bounds, born, ghosts>>

MirrorWrites(i) ==
    /\ At(i, "write")
    /\ LET f == WithMirror(cmd[i].copy, cmd[i].task, MirrorOf[cmd[i].how]) IN
         /\ Write(i, f) /\ lost' = lost \cup DroppedByHand(i, f)
    /\ FreeLock(i) /\ GotoWith(i, "row", <<>>)
    /\ UNCHANGED <<archive, effects, views, bounds, born, unseen, reopened>>

(* The row is a best effort; the callback stops after it.                  *)
RowEmitted(i) ==
    /\ At(i, "row")
    /\ closed' \in {closed, [closed EXCEPT ![Plan(i)] = @ \cup {cmd[i].task}]}
    /\ IF cmd[i].how = "mark-deferred" THEN Return(i) ELSE Goto(i, "check")
    /\ UNCHANGED <<files, lock, effects, index, bounds, born, ghosts>>

(***************************************************************************)
(* The archive and the index                                               *)
(***************************************************************************)
Gc(i, p) == Begin(i, "check", "gc", p, NoTask) /\ UNCHANGED born

ArchiveChecks(i) ==
    /\ At(i, "check")
    /\ IF AllClosed(File(i)) THEN GotoWith(i, "move", File(i))
       ELSE IF cmd[i].how = "gc" THEN Return(i) ELSE Goto(i, "regen")
    /\ UNCHANGED <<files, lock, effects, views, bounds, born, ghosts>>

(* os.replace over a file of the same name.  A file that has gone by then   *)
(* ends a gc and is a warning to a gesture.                                *)
ArchiveMoves(i) ==
    /\ At(i, "move")
    /\ IF File(i) = Absent THEN UNCHANGED <<files, ghosts>>
       ELSE /\ archive' = [archive EXCEPT ![Plan(i)] = File(i)]
            /\ Write(i, Absent)
            /\ lost' = lost \cup (Ids(Blocks(archive[Plan(i)])) \ Ids(Blocks(File(i))))
            /\ unseen' = unseen \cup (Ids(Pending(File(i))) \ Ids(ToSet(cmd[i].copy)))
            /\ UNCHANGED reopened
    /\ IF cmd[i].how = "gc" THEN Return(i) ELSE GotoWith(i, "regen", <<>>)
    /\ UNCHANGED <<lock, effects, views, bounds, born>>

IndexRegenerated(i) ==
    /\ At(i, "regen")
    /\ index' = [index EXCEPT ![Plan(i)] =
                    {b.task : b \in Pending(File(i))} \ closed[Plan(i)]]
    /\ Return(i)
    /\ UNCHANGED <<files, lock, effects, closed, bounds, born, ghosts>>

(* A killed process lets go of the flock; what it wrote stays.             *)
Dies(i) ==
    /\ ~At(i, "idle") /\ deaths < MaxDeaths /\ deaths' = deaths + 1
    /\ lock' = [p \in Plans |-> IF lock[p] = i THEN Nobody ELSE lock[p]]
    /\ Return(i)
    /\ UNCHANGED <<files, effects, views, left, born, ghosts>>

Step(i) ==
    \/ BootSees(i) \/ BootAgain(i) \/ BootDone(i) \/ BootWrites(i) \/ ShellWritten(i)
    \/ EntryReads(i) \/ EntryWrites(i) \/ HaltReads(i) \/ HaltWrites(i)
    \/ LookupRefuses(i) \/ LookupFinds(i) \/ RouteMints(i) \/ GestureUpdates(i)
    \/ GestureFails(i) \/ AbandonStops(i) \/ MarkerCreated(i)
    \/ MirrorReads(i) \/ MirrorAbsent(i) \/ MirrorWrites(i) \/ RowEmitted(i)
    \/ ArchiveChecks(i) \/ ArchiveMoves(i) \/ IndexRegenerated(i)

Next ==
    \/ \E i \in Procs : Step(i) \/ Dies(i)
    \/ \E i \in Procs, p \in Plans :
         \/ Halt(i, p) \/ Gc(i, p)
         \/ \E t \in Tasks : \/ Collide(i, p, t) \/ MarkDeferred(i, p, t)
                             \/ \E g \in Gestures : Triage(i, p, t, g)
    \/ \E p \in Plans : Report(p) \/ \E t \in Tasks : OperatorNotes(p, t)

Spec == Init /\ [][Next]_vars

(***************************************************************************)
(* Properties                                                              *)
(***************************************************************************)
Stages == {"idle", "boot", "missing", "header", "append", "entry", "section", "lookup", "mint",
           "effect", "mirror", "write", "row", "check", "move", "regen"}
Command == [at : Stages, how : Gestures \cup {"none", "collide", "halt", "mark-deferred", "gc"},
            plan : Plans \cup {Nobody}, task : Tasks \cup {NoTask}, copy : Seq(Block)]

TypeOK ==
    /\ daily \in [Plans -> Seq(Block) \cup {Absent}]
    /\ archive \in [Plans -> Seq(Block) \cup {Absent}]
    /\ lock \in [Plans -> Procs \cup {Nobody}]
    /\ cmd \in [Procs -> Command]
    /\ \A i \in Procs : At(i, "idle") \/ Plan(i) \in Plans
    /\ known \in [Plans -> SUBSET Tasks]
    /\ closed \in [Plans -> SUBSET Tasks] /\ index \in [Plans -> SUBSET Tasks]
    /\ born \in 0..MaxBlocks /\ lost \subseteq 1..MaxBlocks

Kept == UNION {Ids(Blocks(daily[p])) \cup Ids(Blocks(archive[p])) : p \in Plans}

(* Nothing that was written vanishes but by a writer without the flock (a  *)
(* halt section, a fallback header, a file archived over another), or, if  *)
(* it was itself written without it, by anyone.                            *)
LostOnlyWithoutTheLock == \A n \in 1..born : n \in Kept \cup lost

(* A closed mirror tells of a command that succeeded: the gesture's own,   *)
(* for this plan's task, and for a marker somebody's of that id.           *)
MirrorTellsWhatWasDone ==
    \A p \in Plans : \A b \in Entries(daily[p]) \cup Entries(archive[p]) :
        \/ b.mirror = "pending"
        \/ \E d \in did : /\ d[1] # "mint" /\ MirrorOf[d[1]] = b.mirror /\ d[3] = b.task
                          /\ d[2] = p \/ d[1] = "route-marker"

(* An archived entry is closed, unless it was appended after the archiver  *)
(* looked or a halt section set it back.                                   *)
ArchivedIsClosed ==
    \A p \in Plans : Ids(Pending(archive[p])) \subseteq unseen \cup reopened

(* A flock is held only by a process between its read and its write.       *)
LockIsHeldInside ==
    \A p \in Plans : lock[p] # Nobody =>
        Plan(lock[p]) = p /\ cmd[lock[p]].at \in {"header", "entry", "write"}

QueueInv ==
    /\ TypeOK /\ LockIsHeldInside /\ LostOnlyWithoutTheLock /\ MirrorTellsWhatWasDone /\ ArchivedIsClosed

(* Closed stays closed: an entry whose mirror goes back to pending is one  *)
(* that a halt section, written from a copy read before the gesture, has   *)
(* set back.  A writer under the flock can only repeat what a halt section *)
(* did between its read and its write.                                     *)
OnlyHaltsReopen ==
    [][\A p \in Plans : \A a \in Entries(daily[p]), b \in Entries(daily'[p]) :
          a.id = b.id /\ a.mirror # "pending" /\ b.mirror = "pending" => a.id \in reopened']_vars
=============================================================================
