------------------------- MODULE OrchestratorStore -------------------------
(***************************************************************************)
(* The task-state store of one plan (src/bin/_update_orchestrator): the    *)
(* files _state.json, _orchestrator_log.jsonl, _orchestrator.md and        *)
(* _orchestrator_closed.lock of docs/plans/<slug>/, and the processes that *)
(* run bin/update_orchestrator, the picker, the amend resync and the retry *)
(* counter over them.  Every writer takes an exclusive flock on            *)
(* _state.json.lock, reads the whole file, and replaces the whole file.    *)
(* The picker reads without the lock.  A process may die, or an append may *)
(* raise, between any two steps; the kernel then drops its flock.          *)
(***************************************************************************)
EXTENDS Integers, Sequences, FiniteSets

CONSTANTS
  Procs,       \* processes (command invocations follow one another in each)
  Tasks,       \* task ids that requests may name
  Dag,         \* the ids listed by <slug>_orchestrator.json
  Requests,    \* the requests the environment may make
  HistoryCap,  \* rows of iteration_history before the sentinel (20 in the code)
  MaxOps,      \* bound: requests started in a behaviour
  MaxCrashes,  \* bound: crashes in a behaviour
  NoProc, NoTask

ASSUME StoreAssumption ==
  /\ Dag \subseteq Tasks
  /\ HistoryCap \in Nat \ {0} /\ MaxOps \in Nat /\ MaxCrashes \in Nat
  /\ NoProc \notin Procs /\ NoTask \notin Tasks

-----------------------------------------------------------------------------
(* The seven-status enum, and "absent" for a task with no status in the file *)
SevenStatus == {"ready", "wip", "done", "deferred", "blocked", "cancelled", "unknown"}
Terminal    == {"done", "cancelled", "deferred"}
OutsideDevelopAuthority == {"deferred", "cancelled"}
MaybeStatus == SevenStatus \cup {"absent"}

(* The status a command line may carry: base mode takes it as it stands,    *)
(* --from-develop-plan maps the native name.  "bogus" is in neither enum.   *)
Canonical == [not_started         |-> "ready",
              in_progress         |-> "wip",
              awaiting_eval       |-> "unknown",
              revisions_requested |-> "wip",
              completed           |-> "done",
              blocked             |-> "blocked"]

Request ==
       [op : {"base"}, task : Tasks, status : SevenStatus \cup {"bogus"}, override : BOOLEAN]
  \cup [op : {"develop"}, task : Tasks, status : DOMAIN Canonical, override : BOOLEAN]
  \cup [op : {"close", "bump", "reset"}]
  \cup [op : {"resync"}, seeds : SUBSET Tasks]

ASSUME RequestsAssumption == Requests \subseteq Request

(* The picker's close: the only request a process makes without being asked *)
AutoClose == [op |-> "auto_close"]

File == [status    : [Tasks -> MaybeStatus],
         history   : [Tasks -> 0 .. HistoryCap + 1],
         lifecycle : {"active", "closed"},
         retries   : Nat]

Event == {"transition", "revision", "refused", "overflow",
          "rendered", "render_failed", "closed", "resync"}

Row == [task : Tasks \cup {NoTask}, from : SevenStatus, to : SevenStatus,
        event : Event, override : BOOLEAN]

VARIABLES
  file,     \* _state.json
  marker,   \* does _orchestrator_closed.lock exist
  log,      \* the parsed rows of _orchestrator_log.jsonl
  md,       \* the statuses shown by _orchestrator.md
  lock,     \* the holder of the flock on _state.json.lock
  pc, req, view,  \* per process: control, request, the file as it read it
  ops, crashes    \* bounds

disk == <<file, marker, log, md>>
vars == <<file, marker, log, md, lock, pc, req, view, ops, crashes>>

EmptyFile == [status    |-> [t \in Tasks |-> "absent"],
              history   |-> [t \in Tasks |-> 0],
              lifecycle |-> "active",
              retries   |-> 0]

Init ==
  /\ file = EmptyFile
  /\ marker = FALSE
  /\ log = <<>>
  /\ md = EmptyFile.status
  /\ lock = NoProc
  /\ pc = [p \in Procs |-> "idle"]
  /\ req = [p \in Procs |-> AutoClose]
  /\ view = [p \in Procs |-> EmptyFile]
  /\ ops = 0
  /\ crashes = 0

-----------------------------------------------------------------------------
(* Helpers *)

\* get_task_status(state, t) or "ready"
Effective(f, t) == IF f.status[t] = "absent" THEN "ready" ELSE f.status[t]

\* the status the request would write
Target(r) == IF r.op = "develop" THEN Canonical[r.status] ELSE r.status

\* (wrong) the gate looks at the canonical command line only
RollbackRefusedBase(from, r) == r.op = "base" /\ from = "done" /\ Target(r) = "wip" /\ ~r.override

RollbackRefused(from, r) == from = "done" /\ Target(r) = "wip" /\ ~r.override

OutsideAuthority(from, r) == r.op = "develop" /\ from \in OutsideDevelopAuthority

IsRevision(r) == r.op = "develop" /\ r.status = "revisions_requested"

HistoryExhausted(f, r) == IsRevision(r) /\ f.history[r.task] >= HistoryCap + 1

Allowed(f, r) ==
  LET from == Effective(f, r.task)
  IN  /\ Target(r) \in SevenStatus
      /\ ~OutsideAuthority(from, r)
      /\ ~RollbackRefused(from, r)
      /\ ~HistoryExhausted(f, r)

TaskRow(t, from, to, event, override) ==
  [task |-> t, from |-> from, to |-> to, event |-> event, override |-> override]

\* an observability row: no task, unknown to unknown
PlanRow(event) == TaskRow(NoTask, "unknown", "unknown", event, FALSE)

\* the verdict all_done of compute_ready_set, over the statuses it read
AllDone(f) == \A t \in Dag : Effective(f, t) \in Terminal

\* (wrong) the status is written and the history row is not
RevisedNever(f, r) == f.history

\* append_iteration_row: a row, then the overflow sentinel at the cap
Revised(f, r) == IF IsRevision(r) THEN [f.history EXCEPT ![r.task] = @ + 1] ELSE f.history

\* merge_seeds_preserving_status: a present id keeps its entry
Seeded(f, seeds) ==
  [t \in Tasks |-> IF t \in seeds /\ f.status[t] = "absent" THEN "ready" ELSE f.status[t]]

At(p, at) == pc[p] = at

Goto(p, at) == pc' = [pc EXCEPT ![p] = at]

\* the process forgets its request and its copy of the file
Forget(p) ==
  /\ Goto(p, "idle")
  /\ req' = [req EXCEPT ![p] = AutoClose]
  /\ view' = [view EXCEPT ![p] = EmptyFile]

\* the with-block ends: the flock is dropped and the command returns
Return(p) == Forget(p) /\ lock' = NoProc

-----------------------------------------------------------------------------
(* Starting a command, and the flock *)

Start(p, r) ==
  /\ pc[p] = "idle"
  /\ ops < MaxOps
  /\ ops' = ops + 1
  /\ req' = [req EXCEPT ![p] = r]
  /\ Goto(p, "waiting")
  /\ UNCHANGED <<disk, lock, view, crashes>>

\* The picker loads the file without the lock; only the all_done verdict
\* goes on, to close_orchestrator, and nothing looks at the verdict again.
Pick(p) ==
  /\ pc[p] = "idle"
  /\ ops < MaxOps
  /\ AllDone(file)
  /\ ops' = ops + 1
  /\ req' = [req EXCEPT ![p] = AutoClose]
  /\ Goto(p, "waiting")
  /\ UNCHANGED <<disk, lock, view, crashes>>

\* (wrong) the flock is not exclusive
AcquireShared(p) ==
  /\ pc[p] = "waiting"
  /\ lock' = p
  /\ view' = [view EXCEPT ![p] = file]
  /\ Goto(p, "locked")
  /\ UNCHANGED <<disk, req, ops, crashes>>

\* state_flock is granted and read_state reads the whole file
Acquire(p) ==
  /\ pc[p] = "waiting"
  /\ lock = NoProc
  /\ lock' = p
  /\ view' = [view EXCEPT ![p] = file]
  /\ Goto(p, "locked")
  /\ UNCHANGED <<disk, req, ops, crashes>>

-----------------------------------------------------------------------------
(* Status transitions: _dispatch_base and _dispatch_from_develop_plan *)

\* set_task_status and write_state, with the history row in the same write
WriteStatus(p) ==
  /\ At(p, "locked")
  /\ req[p].op \in {"base", "develop"}
  /\ Allowed(view[p], req[p])
  /\ file' = [view[p] EXCEPT !.status[req[p].task] = Target(req[p]),
                             !.history = Revised(view[p], req[p])]
  /\ Goto(p, "written")
  /\ UNCHANGED <<marker, log, md, lock, req, view, ops, crashes>>

\* _render_and_emit: _orchestrator.md from the file just written, or its
\* failure, and the observability row in either case
Render(p) ==
  /\ At(p, "written")
  /\ \/ md' = file.status /\ log' = Append(log, PlanRow("rendered"))
     \/ UNCHANGED md /\ log' = Append(log, PlanRow("render_failed"))
  /\ Goto(p, "rendered")
  /\ UNCHANGED <<file, marker, lock, req, view, ops, crashes>>

\* emit_transition: the row names the status read under the lock, and the
\* command returns
Emit(p) ==
  /\ At(p, "rendered")
  /\ log' = Append(log, TaskRow(req[p].task, Effective(view[p], req[p].task), Target(req[p]),
                                IF IsRevision(req[p]) THEN "revision" ELSE "transition",
                                req[p].override))
  /\ Return(p)
  /\ UNCHANGED <<file, marker, md, ops, crashes>>

\* An unknown status or a task outside develop-plan's authority: no row
Refuse(p) ==
  /\ At(p, "locked")
  /\ req[p].op \in {"base", "develop"}
  /\ \/ Target(req[p]) \notin SevenStatus
     \/ OutsideAuthority(Effective(view[p], req[p].task), req[p])
  /\ Return(p)
  /\ UNCHANGED <<disk, ops, crashes>>

\* (wrong) the forensic row names the status that was asked for
RefuseRollbackAsAsked(p) ==
  LET from == Effective(view[p], req[p].task)
  IN  /\ At(p, "locked")
      /\ req[p].op \in {"base", "develop"}
      /\ ~OutsideAuthority(from, req[p])
      /\ RollbackRefused(from, req[p])
      /\ log' = Append(log, TaskRow(req[p].task, "done", "wip", "refused", FALSE))
      /\ Return(p)
      /\ UNCHANGED <<file, marker, md, ops, crashes>>

\* _handle_done_wip_refusal: a forensic row from done to done
RefuseRollback(p) ==
  LET from == Effective(view[p], req[p].task)
  IN  /\ At(p, "locked")
      /\ req[p].op \in {"base", "develop"}
      /\ ~OutsideAuthority(from, req[p])
      /\ RollbackRefused(from, req[p])
      /\ log' = Append(log, TaskRow(req[p].task, "done", "done", "refused", FALSE))
      /\ Return(p)
      /\ UNCHANGED <<file, marker, md, ops, crashes>>

\* IterationOverflowError: a row from the current status to itself
RefuseOverflow(p) ==
  LET from == Effective(view[p], req[p].task)
  IN  /\ At(p, "locked")
      /\ req[p].op \in {"base", "develop"}
      /\ ~OutsideAuthority(from, req[p])
      /\ ~RollbackRefused(from, req[p])
      /\ HistoryExhausted(view[p], req[p])
      /\ log' = Append(log, TaskRow(req[p].task, from, from, "overflow", FALSE))
      /\ Return(p)
      /\ UNCHANGED <<file, marker, md, ops, crashes>>

-----------------------------------------------------------------------------
(* Closing: _close_locked, for the operator and for the picker *)

ClosesPlan(p) == req[p].op \in {"close", "auto_close"}

\* (wrong) the queryable mirror is taken for the idempotency token
CloseAgainByLifecycle(p) ==
  /\ At(p, "locked")
  /\ ClosesPlan(p)
  /\ view[p].lifecycle = "closed"
  /\ Return(p)
  /\ UNCHANGED <<disk, ops, crashes>>

\* (wrong) the early return keeps the flock
CloseAgainHolding(p) ==
  /\ At(p, "locked")
  /\ ClosesPlan(p)
  /\ marker
  /\ Forget(p)
  /\ UNCHANGED <<disk, lock, ops, crashes>>

CloseAgain(p) ==
  /\ At(p, "locked")
  /\ ClosesPlan(p)
  /\ marker
  /\ Return(p)
  /\ UNCHANGED <<disk, ops, crashes>>

WriteLifecycle(p) ==
  /\ At(p, "locked")
  /\ ClosesPlan(p)
  /\ ~marker
  /\ file' = [view[p] EXCEPT !.lifecycle = "closed"]
  /\ Goto(p, "closing")
  /\ UNCHANGED <<marker, log, md, lock, req, view, ops, crashes>>

WriteMarker(p) ==
  /\ At(p, "closing")
  /\ marker' = TRUE
  /\ Goto(p, "marked")
  /\ UNCHANGED <<file, log, md, lock, req, view, ops, crashes>>

\* an advisory row: its failure is swallowed, and the command returns
AdvisoryRow(p, event) ==
  /\ log' \in {log, Append(log, PlanRow(event))}
  /\ Return(p)
  /\ UNCHANGED <<file, marker, md, ops, crashes>>

AuditClosed(p) == At(p, "marked") /\ AdvisoryRow(p, "closed")

-----------------------------------------------------------------------------
(* The amend resync and the retry counter, which share the file *)

WriteSeeds(p) ==
  /\ At(p, "locked")
  /\ req[p].op = "resync"
  /\ file' = [view[p] EXCEPT !.status = Seeded(view[p], req[p].seeds)]
  /\ Goto(p, "seeded")
  /\ UNCHANGED <<marker, log, md, lock, req, view, ops, crashes>>

EmitResync(p) == At(p, "seeded") /\ AdvisoryRow(p, "resync")

\* unified_counter_increment and unified_counter_reset
WriteRetries(p) ==
  /\ At(p, "locked")
  /\ req[p].op \in {"bump", "reset"}
  /\ file' = [view[p] EXCEPT !.retries = IF req[p].op = "bump" THEN @ + 1 ELSE 0]
  /\ Return(p)
  /\ UNCHANGED <<marker, log, md, ops, crashes>>

-----------------------------------------------------------------------------
\* The process is killed, or a row that is not advisory cannot be appended
\* and the exception leaves the with-block.  What it wrote stays.
Crash(p) ==
  /\ pc[p] # "idle"
  /\ crashes < MaxCrashes
  /\ crashes' = crashes + 1
  /\ Forget(p)
  /\ lock' = IF lock = p THEN NoProc ELSE lock
  /\ UNCHANGED <<disk, ops>>

Step(p) ==
  \/ Acquire(p)
  \/ WriteStatus(p) \/ Render(p) \/ Emit(p)
  \/ Refuse(p) \/ RefuseRollback(p) \/ RefuseOverflow(p)
  \/ CloseAgain(p) \/ WriteLifecycle(p) \/ WriteMarker(p) \/ AuditClosed(p)
  \/ WriteSeeds(p) \/ EmitResync(p) \/ WriteRetries(p)

Work ==
  \E p \in Procs :
    \/ \E r \in Requests : Start(p, r)
    \/ Pick(p)
    \/ Step(p)
    \/ Crash(p)

\* every command has returned and the bound on commands is spent
Quiet == ops = MaxOps /\ (\A p \in Procs : pc[p] = "idle") /\ UNCHANGED vars

Next == Work \/ Quiet

Spec == Init /\ [][Next]_vars

\* A running command goes on: nothing in a handler waits but the flock, and
\* a flock is granted once it is free and the other waiters are finitely many.
FairSpec == Spec /\ \A p \in Procs : WF_vars(Step(p))
-----------------------------------------------------------------------------
(* replay(): the status the log derives for a task, the last row's "to" *)

Rows(l, t) == {i \in DOMAIN l : l[i].task = t}

Replayed(l, t) ==
  IF Rows(l, t) = {} THEN "absent"
  ELSE l[CHOOSE i \in Rows(l, t) : \A j \in Rows(l, t) : j <= i].to

\* diff(): the log and the file disagree about t
Diverged(t) == Replayed(log, t) # file.status[t]

\* what a seed that has not moved yet looks like
LooksSeeded(t) == Rows(log, t) = {} /\ file.status[t] = "ready"

Critical == {"locked", "written", "rendered", "closing", "marked", "seeded"}
PC == {"idle", "waiting"} \cup Critical

(***************************************************************************)
(* Properties                                                              *)
(***************************************************************************)

(* Every variable keeps its type; in particular no status outside the enum *)
(* reaches the file or the log, and no history passes its sentinel.        *)
TypeOK ==
  /\ file \in File
  /\ marker \in BOOLEAN
  /\ log \in Seq(Row)
  /\ md \in [Tasks -> MaybeStatus]
  /\ lock \in Procs \cup {NoProc}
  /\ pc \in [Procs -> PC]
  /\ req \in [Procs -> Request \cup {AutoClose}]
  /\ view \in [Procs -> File]
  /\ ops \in Nat
  /\ crashes \in Nat

(* A process inside the flock is alone there, and until it writes, the copy *)
(* of _state.json it read is still the file: the read-modify-write of a     *)
(* whole file loses nobody else's update.                                   *)
SnapshotIsCurrent ==
  \A p \in Procs :
    /\ pc[p] \in Critical => lock = p
    /\ pc[p] = "locked" => view[p] = file

(* Without a crash, whenever the flock is free the statuses replayed from  *)
(* the log are those of the file, but for a seeded task that has not moved *)
(* yet: the resync writes no row for it.                                   *)
LogAgreesWithState ==
  crashes = 0 /\ lock = NoProc =>
    \A t \in Tasks : Diverged(t) => LooksSeeded(t)

(* A crash costs at most the row of the one task that was being written:   *)
(* the divergences of a plan never outnumber the crashes.                  *)
DivergenceBoundedByCrashes ==
  lock = NoProc =>
    Cardinality({t \in Tasks : Diverged(t) /\ ~LooksSeeded(t)}) <= crashes

(* State first, then the log: a task row that is appended ends in the      *)
(* status that the file holds at that moment, whatever else is running.    *)
RowTellsTheFile ==
  [][log' # log =>
       LET row == log'[Len(log')]
       IN  row.task \in Tasks => row.to = Effective(file', row.task)]_vars

(* A write changes only what its command is about: a stale copy never      *)
(* brings back another task's status or history, the lifecycle or the      *)
(* retry counter; and a seed never moves a task that is already there.     *)
WriteTouchesOnlyItsOwn ==
  [][/\ \A t \in Tasks :
          file'.status[t] # file.status[t] \/ file'.history[t] # file.history[t] =>
            \E p \in Procs :
              /\ pc[p] = "locked" /\ pc'[p] # "locked"
              /\ \/ req[p].op \in {"base", "develop"} /\ req[p].task = t
                 \/ req[p].op = "resync" /\ t \in req[p].seeds /\ file.status[t] = "absent"
     /\ file'.lifecycle # file.lifecycle => \E p \in Procs : pc'[p] = "closing"
     /\ file'.retries # file.retries =>
          \E p \in Procs : pc[p] = "locked" /\ req[p].op \in {"bump", "reset"}]_vars

(* done goes back to wip only for a command that ran with the operator's   *)
(* override, on either command line.                                       *)
RollbackNeedsOverride ==
  [][\A t \in Tasks :
       file.status[t] = "done" /\ file'.status[t] = "wip" =>
         \E p \in Procs : /\ pc[p] = "locked" /\ pc'[p] = "written"
                          /\ req[p].task = t /\ req[p].override]_vars

(* The marker is written last: once it exists, the lifecycle field of the  *)
(* file says closed, and no later writer of the file takes that back.      *)
MarkerMeansClosed == marker => file.lifecycle = "closed"

(* The audit append of a close happens at most once, whoever closes and    *)
(* wherever an earlier close died.                                         *)
OneClosedRow ==
  \A i, j \in DOMAIN log :
    log[i].event = "closed" /\ log[j].event = "closed" => i = j

(* A close command that returns leaves the plan closed in both places,     *)
(* also when an earlier one died between the file and the marker.          *)
CloseReturnsClosed ==
  [][\A p \in Procs :
       /\ pc[p] # "idle" /\ pc'[p] = "idle" /\ crashes' = crashes
       /\ ClosesPlan(p)
       => marker' /\ file'.lifecycle = "closed"]_vars

(* iteration_history and the log count the same revisions; a crash between *)
(* the two costs the log one row.                                          *)
HistoryCountsRevisions ==
  lock = NoProc =>
    \A t \in Tasks :
      LET logged == Cardinality({i \in Rows(log, t) : log[i].event = "revision"})
      IN  logged <= file.history[t] /\ file.history[t] <= logged + crashes

(* An update about to return after a successful render leaves the page     *)
(* _orchestrator.md showing exactly the statuses of the file.              *)
RenderedMatchesFile ==
  \A p \in Procs :
    pc[p] = "rendered" /\ log[Len(log)].event = "rendered" => md = file.status

(* Every command that waits for the flock returns in the end.              *)
EveryCommandReturns == \A p \in Procs : pc[p] = "waiting" ~> pc[p] = "idle"

(* The store is a board of tasks: under every interleaving and crash, each *)
(* step on the disk is one atomic operation of TaskBoard on the current    *)
(* files, and the log is only ever told a task's present status.           *)
Board == INSTANCE TaskBoard
  WITH Status    <- SevenStatus,
       status    <- file.status,
       history   <- file.history,
       lifecycle <- file.lifecycle,
       retries   <- file.retries,
       told      <- [t \in Tasks |-> Replayed(log, t)],
       page      <- md

ImplementsTaskBoard == Board!Spec

-----------------------------------------------------------------------------
(* The inductive invariant behind the safety theorems: what each location  *)
(* inside the flock knows of the files, and what the files keep between    *)
(* two commands.                                                           *)

\* a status has been written whose row is still to be appended
InFlight(t) ==
  \E p \in Procs : pc[p] \in {"written", "rendered"} /\ req[p].task = t

FlockInv ==
  \A p \in Procs :
    /\ pc[p] \in Critical <=> lock = p
    /\ pc[p] = "locked" => view[p] = file

WriterInv ==
  \A p \in Procs :
    pc[p] \in {"written", "rendered"} =>
      /\ req[p].op \in {"base", "develop"}
      /\ Target(req[p]) \in SevenStatus
      /\ file.status[req[p].task] = Target(req[p])

CloserInv ==
  /\ marker => file.lifecycle = "closed"
  /\ \A i \in DOMAIN log : log[i].event = "closed" => marker
  /\ \A p \in Procs :
       /\ pc[p] = "closing" => ~marker /\ file.lifecycle = "closed"
       /\ pc[p] = "marked" => marker /\ \A i \in DOMAIN log : log[i].event # "closed"
  /\ OneClosedRow

\* A task with a history has a status, and a task with a row has a last one
HistoryInv ==
  /\ \A t \in Tasks : file.history[t] > 0 => file.status[t] # "absent"
  /\ \A t \in Tasks :
       Rows(log, t) # {} => \E i \in Rows(log, t) : \A j \in Rows(log, t) : j <= i

AgreementInv ==
  crashes = 0 => \A t \in Tasks : InFlight(t) \/ LooksSeeded(t) \/ ~Diverged(t)

StoreInv ==
  /\ TypeOK /\ FlockInv /\ WriterInv /\ CloserInv /\ HistoryInv
  /\ AgreementInv /\ RenderedMatchesFile
=============================================================================
