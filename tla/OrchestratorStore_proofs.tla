---------------------- MODULE OrchestratorStore_proofs ----------------------
(***************************************************************************)
(* Proofs about OrchestratorStore, for every set of processes, tasks and   *)
(* requests and every bound.                                               *)
(***************************************************************************)
EXTENDS OrchestratorStore, TLAPS, FiniteSetTheorems

-----------------------------------------------------------------------------
(* Facts about the operators *)

(* A request for a status names a task, and its target is in the enum when *)
(* it comes from the develop-plan bridge.                                  *)
LEMMA RequestShape ==
  ASSUME NEW r \in Request \cup {AutoClose}, r.op \in {"base", "develop"}
  PROVE  /\ r.task \in Tasks
         /\ r.override \in BOOLEAN
         /\ r.op = "develop" => r.status \in DOMAIN Canonical /\ Target(r) \in SevenStatus
  BY DEF Request, AutoClose, Target, Canonical, SevenStatus

(* A resync names tasks.                                                   *)
LEMMA SeedsShape ==
  ASSUME NEW r \in Request \cup {AutoClose}, r.op = "resync"
  PROVE  r.seeds \in SUBSET Tasks
  BY DEF Request, AutoClose

(* get_task_status with its default is a status of the enum.               *)
LEMMA EffectiveType ==
  ASSUME NEW f \in File, NEW t \in Tasks
  PROVE  Effective(f, t) \in SevenStatus
  BY DEF File, Effective, MaybeStatus, SevenStatus

(* Appending a row keeps the log a sequence of rows.                       *)
LEMMA AppendType ==
  ASSUME NEW l \in Seq(Row), NEW r \in Row
  PROVE  Append(l, r) \in Seq(Row)
  OBVIOUS

(* A plan with no _state.json reads as a well-typed file.                  *)
LEMMA EmptyFileType == EmptyFile \in File
  BY StoreAssumption DEF EmptyFile, File, MaybeStatus

(* The row constructors give rows.                                         *)
LEMMA RowTypes ==
  /\ \A t \in Tasks, from, to \in SevenStatus, e \in Event, o \in BOOLEAN :
       TaskRow(t, from, to, e, o) \in Row
  /\ \A e \in Event : PlanRow(e) \in Row
  BY DEF TaskRow, PlanRow, Row, SevenStatus

(* An allowed write of a status is a well-typed file.                       *)
LEMMA StatusWriteType ==
  ASSUME NEW f \in File, NEW r \in Request \cup {AutoClose},
         r.op \in {"base", "develop"}, Allowed(f, r)
  PROVE  [f EXCEPT !.status[r.task] = Target(r), !.history = Revised(f, r)] \in File
  <1>1. r.task \in Tasks
    BY RequestShape
  <1>2. Target(r) \in MaybeStatus
    BY DEF Allowed, MaybeStatus
  <1>3. Revised(f, r) \in [Tasks -> 0 .. HistoryCap + 1]
    <2>1. CASE IsRevision(r)
      <3>1. f.history[r.task] \in 0 .. HistoryCap + 1 /\ ~(f.history[r.task] >= HistoryCap + 1)
        BY <1>1, <2>1 DEF Allowed, HistoryExhausted, File
      <3>2. f.history[r.task] + 1 \in 0 .. HistoryCap + 1
        BY <3>1, StoreAssumption
      <3>3. QED
        BY <2>1, <3>2, <1>1 DEF Revised, File
    <2>2. CASE ~IsRevision(r)
      BY <2>2 DEF Revised, File
    <2>3. QED
      BY <2>1, <2>2
  <1>4. QED
    BY <1>1, <1>2, <1>3 DEF File

-----------------------------------------------------------------------------
(* The log: what an append does to replay() *)

(* An append adds one index, and to Rows only that of its own task.        *)
LEMMA AppendRows ==
  ASSUME NEW l \in Seq(Row), NEW r \in Row, NEW t \in Tasks
  PROVE  /\ DOMAIN Append(l, r) = DOMAIN l \cup {Len(l) + 1}
         /\ \A i \in DOMAIN l : Append(l, r)[i] = l[i] /\ i < Len(l) + 1
         /\ Append(l, r)[Len(l) + 1] = r
         /\ Len(Append(l, r)) = Len(l) + 1
         /\ Rows(Append(l, r), t) = IF r.task = t THEN Rows(l, t) \cup {Len(l) + 1} ELSE Rows(l, t)
  <1>1. /\ DOMAIN Append(l, r) = DOMAIN l \cup {Len(l) + 1}
        /\ \A i \in DOMAIN l : Append(l, r)[i] = l[i] /\ i < Len(l) + 1
        /\ Append(l, r)[Len(l) + 1] = r
        /\ Len(Append(l, r)) = Len(l) + 1
        /\ Len(l) + 1 \notin DOMAIN l
    OBVIOUS
  <1>2. Rows(Append(l, r), t) = IF r.task = t THEN Rows(l, t) \cup {Len(l) + 1} ELSE Rows(l, t)
    BY <1>1 DEF Rows
  <1>3. QED
    BY <1>1, <1>2

HasLast(l, t) ==
  Rows(l, t) # {} => \E i \in Rows(l, t) : \A j \in Rows(l, t) : j <= i

(* A task's rows have a last one, and an append keeps it so.               *)
LEMMA AppendHasLast ==
  ASSUME NEW l \in Seq(Row), NEW r \in Row, NEW t \in Tasks, HasLast(l, t)
  PROVE  HasLast(Append(l, r), t)
  <1>1. \A i \in Rows(l, t) : i \in Nat /\ i <= Len(l)
    BY DEF Rows
  <1>2. Len(l) \in Nat
    OBVIOUS
  <1>3. QED
    BY <1>1, <1>2, AppendRows DEF HasLast

(* Folding one more row: it decides the status of its own task and of no   *)
(* other.                                                                  *)
LEMMA ReplayAppend ==
  ASSUME NEW l \in Seq(Row), NEW r \in Row, NEW t \in Tasks, HasLast(l, t)
  PROVE  Replayed(Append(l, r), t) = IF r.task = t THEN r.to ELSE Replayed(l, t)
  <1> DEFINE L == Append(l, r)
             last(k) == CHOOSE i \in Rows(k, t) : \A j \in Rows(k, t) : j <= i
  <1>1. CASE r.task = t
    <2>1. Rows(L, t) = Rows(l, t) \cup {Len(l) + 1}
      BY <1>1, AppendRows
    <2>2. \A i \in Rows(l, t) : i \in Nat /\ i <= Len(l)
      BY DEF Rows
    <2>3. Len(l) \in Nat
      OBVIOUS
    <2>4. last(L) = Len(l) + 1
      <3>1. Len(l) + 1 \in Rows(L, t) /\ \A j \in Rows(L, t) : j <= Len(l) + 1
        BY <2>1, <2>2, <2>3
      <3>2. \A i \in Rows(L, t) : (\A j \in Rows(L, t) : j <= i) => i = Len(l) + 1
        BY <2>1, <2>2, <2>3, SMTT(30)
      <3>3. QED
        BY <3>1, <3>2
    <2>5. Rows(L, t) # {}
      BY <2>1
    <2>6. Replayed(L, t) = L[last(L)].to
      BY <2>5 DEF Replayed
    <2>7. L[Len(l) + 1] = r
      BY AppendRows
    <2>8. QED
      BY <1>1, <2>4, <2>6, <2>7
  <1>2. CASE r.task # t
    <2>1. Rows(L, t) = Rows(l, t)
      BY <1>2, AppendRows
    <2>2. CASE Rows(l, t) = {}
      BY <1>2, <2>1, <2>2 DEF Replayed
    <2>3. CASE Rows(l, t) # {}
      <3>1. last(L) = last(l)
        BY <2>1
      <3>2. last(l) \in Rows(l, t)
        BY <2>3 DEF HasLast
      <3>3. L[last(l)] = l[last(l)]
        BY <3>2, AppendRows DEF Rows
      <3>4. QED
        BY <1>2, <2>1, <2>3, <3>1, <3>3 DEF Replayed
    <2>4. QED
      BY <2>2, <2>3
  <1>3. QED
    BY <1>1, <1>2

(* A task with a row replays to a status of the enum, one without to none.  *)
LEMMA ReplayType ==
  ASSUME NEW l \in Seq(Row), NEW t \in Tasks, HasLast(l, t)
  PROVE  IF Rows(l, t) = {} THEN Replayed(l, t) = "absent" ELSE Replayed(l, t) \in SevenStatus
  <1> DEFINE last == CHOOSE i \in Rows(l, t) : \A j \in Rows(l, t) : j <= i
  <1>1. ASSUME Rows(l, t) # {} PROVE Replayed(l, t) \in SevenStatus
    <2>1. last \in DOMAIN l
      BY <1>1 DEF HasLast, Rows
    <2>2. l[last] \in Row
      BY <2>1
    <2>3. QED
      BY <1>1, <2>2 DEF Replayed, Row
  <1>2. QED
    BY <1>1 DEF Replayed

-----------------------------------------------------------------------------
(* The initial state *)

(* A fresh plan satisfies the invariant.                                   *)
LEMMA InitStoreInv == Init => StoreInv
  <1> SUFFICES ASSUME Init PROVE StoreInv
    OBVIOUS
  <1> USE DEF Init
  <1>1. TypeOK
    <2>1. file \in File /\ view \in [Procs -> File]
      BY EmptyFileType
    <2>2. log \in Seq(Row)
      OBVIOUS
    <2>3. md \in [Tasks -> MaybeStatus]
      BY EmptyFileType DEF File
    <2>4. req \in [Procs -> Request \cup {AutoClose}]
      OBVIOUS
    <2>5. QED
      BY <2>1, <2>2, <2>3, <2>4 DEF TypeOK, PC
  <1>2. FlockInv /\ WriterInv /\ RenderedMatchesFile
    BY StoreAssumption DEF FlockInv, WriterInv, RenderedMatchesFile, Critical
  <1>3. DOMAIN log = {} /\ \A t \in Tasks : Rows(log, t) = {}
    BY DEF Rows
  <1>4. CloserInv
    BY <1>3 DEF CloserInv, OneClosedRow
  <1>5. HistoryInv
    BY <1>3 DEF HistoryInv, EmptyFile
  <1>6. AgreementInv
    BY <1>3 DEF AgreementInv, Diverged, Replayed, EmptyFile
  <1>7. QED
    BY <1>1, <1>2, <1>4, <1>5, <1>6 DEF StoreInv

-----------------------------------------------------------------------------
(* Type correctness of a step *)

(* Every step of a command writes well-typed files and rows.               *)
LEMMA StepTypeOK ==
  ASSUME StoreInv, NEW p \in Procs, Step(p)
  PROVE  TypeOK'
  <1> USE DEF StoreInv, TypeOK, At, Goto, disk
  <1>1. CASE Acquire(p)
    BY <1>1 DEF Acquire, PC, Critical
  <1>2. ASSUME Return(p) PROVE pc' \in [Procs -> PC] /\ lock' \in Procs \cup {NoProc}
                               /\ req' \in [Procs -> Request \cup {AutoClose}]
                               /\ view' \in [Procs -> File]
    BY <1>2, EmptyFileType DEF Return, Forget, PC
  <1>3. CASE WriteStatus(p)
    BY <1>3, StatusWriteType DEF WriteStatus, PC, Critical
  <1>4. CASE Render(p)
    <2>1. log' \in Seq(Row)
      <3>1. "rendered" \in Event /\ "render_failed" \in Event
        BY DEF Event
      <3>2. QED
        BY <1>4, <3>1, RowTypes, AppendType DEF Render
    <2>2. md' \in [Tasks -> MaybeStatus] /\ pc' \in [Procs -> PC]
      BY <1>4 DEF Render, PC, Critical, File
    <2>3. QED
      BY <1>4, <2>1, <2>2 DEF Render
  <1>5. CASE Emit(p)
    <2>1. req[p].op \in {"base", "develop"} /\ Target(req[p]) \in SevenStatus
      BY <1>5 DEF Emit, WriterInv
    <2>2. TaskRow(req[p].task, Effective(view[p], req[p].task), Target(req[p]),
                  IF IsRevision(req[p]) THEN "revision" ELSE "transition",
                  req[p].override) \in Row
      BY <2>1, RequestShape, EffectiveType, RowTypes DEF Event
    <2>3. QED
      BY <1>2, <1>5, <2>2, AppendType DEF Emit
  <1>6. CASE Refuse(p) \/ CloseAgain(p)
    BY <1>2, <1>6 DEF Refuse, CloseAgain
  <1>7. CASE RefuseRollback(p)
    <2>1. TaskRow(req[p].task, "done", "done", "refused", FALSE) \in Row
      BY <1>7, RequestShape, RowTypes DEF RefuseRollback, Event, SevenStatus
    <2>2. QED
      BY <1>2, <1>7, <2>1, AppendType DEF RefuseRollback
  <1>8. CASE RefuseOverflow(p)
    <2>1. TaskRow(req[p].task, Effective(view[p], req[p].task),
                  Effective(view[p], req[p].task), "overflow", FALSE) \in Row
      BY <1>8, RequestShape, EffectiveType, RowTypes DEF RefuseOverflow, Event
    <2>2. QED
      BY <1>2, <1>8, <2>1, AppendType DEF RefuseOverflow
  <1>9. CASE WriteLifecycle(p)
    BY <1>9 DEF WriteLifecycle, PC, Critical, File
  <1>10. CASE WriteMarker(p)
    BY <1>10 DEF WriteMarker, PC, Critical
  <1>11. CASE AuditClosed(p) \/ EmitResync(p)
    <2>1. PlanRow("closed") \in Row /\ PlanRow("resync") \in Row
      BY RowTypes DEF Event
    <2>2. QED
      BY <1>2, <1>11, <2>1, AppendType DEF AuditClosed, EmitResync, AdvisoryRow
  <1>12. CASE WriteSeeds(p)
    <2>1. Seeded(view[p], req[p].seeds) \in [Tasks -> MaybeStatus]
      BY DEF Seeded, File, MaybeStatus, SevenStatus
    <2>2. QED
      BY <1>12, <2>1 DEF WriteSeeds, PC, Critical, File
  <1>13. CASE WriteRetries(p)
    <2>1. view[p] \in File /\ view[p].retries \in Nat
      BY DEF File
    <2>2. PICK n \in Nat : file' = [view[p] EXCEPT !.retries = n]
      <3>1. view[p].retries + 1 \in Nat
        BY <2>1
      <3>2. CASE req[p].op = "bump"
        BY <1>13, <3>1, <3>2 DEF WriteRetries
      <3>3. CASE req[p].op # "bump"
        BY <1>13, <3>3 DEF WriteRetries
      <3>4. QED
        BY <3>2, <3>3
    <2>3. file' \in File
      BY <2>1, <2>2 DEF File
    <2>4. QED
      BY <1>2, <1>13, <2>3 DEF WriteRetries
  <1>14. QED
    BY <1>1, <1>3, <1>4, <1>5, <1>6, <1>7, <1>8, <1>9, <1>10, <1>11, <1>12, <1>13
       DEF Step

-----------------------------------------------------------------------------
(* The flock: one process inside, and its copy is the file *)

(* The flock is taken when free and dropped by its holder only.            *)
LEMMA StepFlockInv ==
  ASSUME StoreInv, NEW p \in Procs, Step(p)
  PROVE  FlockInv'
  <1> USE DEF StoreInv, TypeOK, At, Goto, disk, FlockInv
  <1>1. CASE Acquire(p)
    BY <1>1, StoreAssumption DEF Acquire, Critical
  <1>2. ASSUME pc[p] \in Critical, Return(p)
        PROVE  FlockInv'
    BY <1>2, StoreAssumption DEF Return, Forget, Critical
  <1>3. ASSUME NEW at \in Critical, pc[p] \in Critical, at # "locked", Goto(p, at),
               UNCHANGED <<lock, view>>
        PROVE  FlockInv'
    BY <1>3, StoreAssumption DEF Critical
  <1>4. CASE WriteStatus(p) \/ Render(p) \/ WriteLifecycle(p) \/ WriteMarker(p) \/ WriteSeeds(p)
    BY <1>3, <1>4 DEF WriteStatus, Render, WriteLifecycle, WriteMarker, WriteSeeds, Critical
  <1>5. CASE Emit(p) \/ Refuse(p) \/ RefuseRollback(p) \/ RefuseOverflow(p) \/ CloseAgain(p)
             \/ AuditClosed(p) \/ EmitResync(p) \/ WriteRetries(p)
    BY <1>2, <1>5 DEF Emit, Refuse, RefuseRollback, RefuseOverflow, CloseAgain, AuditClosed,
                      EmitResync, AdvisoryRow, WriteRetries, Critical
  <1>6. QED
    BY <1>1, <1>4, <1>5 DEF Step

(* Until its row is out, an update's target is what the file holds.        *)
LEMMA StepWriterInv ==
  ASSUME StoreInv, NEW p \in Procs, Step(p)
  PROVE  WriterInv'
  <1> USE DEF StoreInv, TypeOK, At, Goto, disk, FlockInv, WriterInv
  <1>1. CASE Acquire(p) \/ Refuse(p) \/ RefuseRollback(p) \/ RefuseOverflow(p) \/ CloseAgain(p)
             \/ Render(p) \/ Emit(p) \/ WriteMarker(p) \/ AuditClosed(p) \/ EmitResync(p)
    BY <1>1 DEF Acquire, Refuse, RefuseRollback, RefuseOverflow, CloseAgain, Render, Emit,
                WriteMarker, AuditClosed, EmitResync, AdvisoryRow, Return, Forget
  <1>2. \A q \in Procs : q # p /\ pc[p] \in Critical => pc[q] \notin Critical
    OBVIOUS
  <1>3. CASE WriteStatus(p)
    <2>1. req[p].task \in Tasks /\ Target(req[p]) \in SevenStatus
      BY <1>3, RequestShape DEF WriteStatus, Allowed
    <2>2. file'.status[req[p].task] = Target(req[p])
      BY <1>3, <2>1 DEF WriteStatus, File
    <2>3. QED
      BY <1>2, <1>3, <2>1, <2>2 DEF WriteStatus, Critical
  <1>4. CASE WriteLifecycle(p) \/ WriteSeeds(p) \/ WriteRetries(p)
    BY <1>2, <1>4 DEF WriteLifecycle, WriteSeeds, WriteRetries, Return, Forget, Critical
  <1>5. QED
    BY <1>1, <1>3, <1>4 DEF Step

-----------------------------------------------------------------------------
(* What a step does to the log and to the statuses *)

(* A step appends at most one row.  The row of a task ends in the status   *)
(* that the file holds; the row of an update names the updated task; only  *)
(* the last step of a close appends a closed row.                          *)
LEMMA StepLog ==
  ASSUME StoreInv, NEW p \in Procs, Step(p)
  PROVE  \/ log' = log /\ pc[p] \notin {"written", "rendered"}
         \/ \E r \in Row :
              /\ log' = Append(log, r)
              /\ r.event = "closed" => AuditClosed(p)
              /\ r.task \in Tasks => /\ r.to = Effective(file', r.task)
                                     /\ file.status[r.task] # "absent"
                                     /\ UNCHANGED file
              /\ pc[p] = "rendered" => r.task = req[p].task
              /\ r.event = "revision" <=> pc[p] = "rendered" /\ IsRevision(req[p])
  <1> USE DEF StoreInv, TypeOK, At, Goto, disk
  <1>1. CASE Acquire(p) \/ WriteStatus(p) \/ Refuse(p) \/ CloseAgain(p) \/ WriteLifecycle(p)
             \/ WriteMarker(p) \/ WriteSeeds(p) \/ WriteRetries(p)
    BY <1>1 DEF Acquire, WriteStatus, Refuse, CloseAgain, WriteLifecycle, WriteMarker,
                WriteSeeds, WriteRetries
  <1>2. \A e \in Event : PlanRow(e) \in Row /\ PlanRow(e).event = e /\ PlanRow(e).task \notin Tasks
    BY RowTypes, StoreAssumption DEF PlanRow, TaskRow
  <1>3. "rendered" \in Event /\ "render_failed" \in Event /\ "closed" \in Event /\ "resync" \in Event
    BY DEF Event
  <1>4. CASE Render(p)
    <2>1. PICK e \in {"rendered", "render_failed"} : log' = Append(log, PlanRow(e))
      BY <1>4 DEF Render
    <2>2. QED
      BY <1>2, <1>3, <1>4, <2>1 DEF Render
  <1>5. CASE AuditClosed(p)
    <2>1. log' = log \/ log' = Append(log, PlanRow("closed"))
      BY <1>5 DEF AuditClosed, AdvisoryRow
    <2>2. QED
      BY <1>2, <1>3, <1>5, <2>1 DEF AuditClosed
  <1>6. CASE EmitResync(p)
    <2>1. log' = log \/ log' = Append(log, PlanRow("resync"))
      BY <1>6 DEF EmitResync, AdvisoryRow
    <2>2. QED
      BY <1>2, <1>3, <1>6, <2>1 DEF EmitResync
  <1>7. CASE Emit(p)
    <2> DEFINE event == IF IsRevision(req[p]) THEN "revision" ELSE "transition"
               r == TaskRow(req[p].task, Effective(view[p], req[p].task), Target(req[p]),
                            event, req[p].override)
    <2>1. /\ req[p].op \in {"base", "develop"} /\ Target(req[p]) \in SevenStatus
          /\ file.status[req[p].task] = Target(req[p])
      BY <1>7 DEF Emit, WriterInv
    <2>2. req[p].task \in Tasks /\ req[p].override \in BOOLEAN
      BY <2>1, RequestShape
    <2>3. r \in Row
      BY <2>1, <2>2, EffectiveType, RowTypes DEF Event
    <2>4. /\ r.task = req[p].task /\ r.to = Target(req[p]) /\ r.event = event
      BY DEF TaskRow
    <2>5. Target(req[p]) # "absent"
      BY <2>1 DEF SevenStatus
    <2>6. log' = Append(log, r) /\ UNCHANGED file
      BY <1>7 DEF Emit
    <2>7. Effective(file', req[p].task) = Target(req[p])
      BY <2>1, <2>5, <2>6 DEF Effective
    <2>8. event # "closed" /\ (event = "revision" <=> pc[p] = "rendered" /\ IsRevision(req[p]))
      BY <1>7 DEF Emit
    <2> HIDE DEF event, r
    <2>9. QED
      BY <2>1, <2>3, <2>4, <2>5, <2>6, <2>7, <2>8
  <1>8. CASE RefuseRollback(p)
    <2> DEFINE r == TaskRow(req[p].task, "done", "done", "refused", FALSE)
    <2>1. req[p].task \in Tasks /\ r \in Row
      BY <1>8, RequestShape, RowTypes DEF RefuseRollback, Event, SevenStatus
    <2>2. view[p] = file /\ Effective(file, req[p].task) = "done"
      BY <1>8 DEF RefuseRollback, RollbackRefused, FlockInv
    <2>3. r.task = req[p].task /\ r.to = "done" /\ r.event = "refused"
      BY DEF TaskRow
    <2>4. log' = Append(log, r) /\ UNCHANGED file /\ pc[p] = "locked"
      BY <1>8 DEF RefuseRollback
    <2>5. file.status[req[p].task] # "absent"
      BY <2>2 DEF Effective
    <2>6. QED
      BY <2>1, <2>2, <2>3, <2>4, <2>5
  <1>9. CASE RefuseOverflow(p)
    <2> DEFINE from == Effective(view[p], req[p].task)
               r == TaskRow(req[p].task, from, from, "overflow", FALSE)
    <2>1. req[p].task \in Tasks
      BY <1>9, RequestShape DEF RefuseOverflow
    <2>2. r \in Row
      BY <2>1, EffectiveType, RowTypes DEF Event
    <2>3. view[p] = file
      BY <1>9 DEF RefuseOverflow, FlockInv
    <2>4. file.history[req[p].task] > 0
      BY <1>9, <2>1, <2>3, StoreAssumption DEF RefuseOverflow, HistoryExhausted, File
    <2>5. file.status[req[p].task] # "absent"
      BY <2>1, <2>4 DEF HistoryInv
    <2>6. r.task = req[p].task /\ r.to = from /\ r.event = "overflow"
      BY DEF TaskRow
    <2>7. log' = Append(log, r) /\ UNCHANGED file /\ pc[p] = "locked"
      BY <1>9 DEF RefuseOverflow
    <2>8. QED
      BY <2>1, <2>2, <2>3, <2>5, <2>6, <2>7
  <1>10. QED
    BY <1>1, <1>4, <1>5, <1>6, <1>7, <1>8, <1>9 DEF Step

(* Only the two writers of a status change one, each its own: an update    *)
(* writes its target, a seed turns absent into ready.                      *)
LEMMA StepStatus ==
  ASSUME StoreInv, NEW p \in Procs, Step(p), NEW t \in Tasks
  PROVE  \/ file'.status[t] = file.status[t] /\ file'.history[t] = file.history[t]
         \/ /\ WriteStatus(p) /\ t = req[p].task
            /\ file'.status[t] = Target(req[p]) /\ Target(req[p]) \in SevenStatus
         \/ /\ WriteSeeds(p) /\ t \in req[p].seeds
            /\ file.status[t] = "absent" /\ file'.status[t] = "ready"
            /\ file'.history[t] = file.history[t]
  <1> USE DEF StoreInv, TypeOK, At, Goto, disk
  <1>1. CASE Acquire(p) \/ Refuse(p) \/ RefuseRollback(p) \/ RefuseOverflow(p) \/ CloseAgain(p)
             \/ Render(p) \/ Emit(p) \/ WriteMarker(p) \/ AuditClosed(p) \/ EmitResync(p)
    BY <1>1 DEF Acquire, Refuse, RefuseRollback, RefuseOverflow, CloseAgain, Render, Emit,
                WriteMarker, AuditClosed, EmitResync, AdvisoryRow
  <1>2. pc[p] = "locked" => view[p] = file /\ file \in File
    BY DEF FlockInv
  <1>3. CASE WriteLifecycle(p)
    BY <1>2, <1>3 DEF WriteLifecycle, File
  <1>4. CASE WriteRetries(p)
    BY <1>2, <1>4 DEF WriteRetries, File
  <1>5. CASE WriteSeeds(p)
    BY <1>2, <1>5 DEF WriteSeeds, File, Seeded
  <1>6. CASE WriteStatus(p)
    <2>1. req[p].task \in Tasks /\ Target(req[p]) \in SevenStatus
      BY <1>6, RequestShape DEF WriteStatus, Allowed
    <2>2. file' = [file EXCEPT !.status[req[p].task] = Target(req[p]),
                               !.history = Revised(file, req[p])]
      BY <1>2, <1>6 DEF WriteStatus
    <2>3. CASE t = req[p].task
      BY <1>2, <1>6, <2>1, <2>2, <2>3 DEF File
    <2>4. CASE t # req[p].task
      <3>1. Revised(file, req[p])[t] = file.history[t]
        BY <1>2, <2>1, <2>4 DEF Revised, File
      <3>2. QED
        BY <1>2, <2>1, <2>2, <2>4, <3>1 DEF File
    <2>5. QED
      BY <2>3, <2>4
  <1>7. QED
    BY <1>1, <1>3, <1>4, <1>5, <1>6 DEF Step

(* Leaving out p, nobody is inside the flock when p is, and p's step moves *)
(* nobody else.                                                            *)
LEMMA StepAlone ==
  ASSUME StoreInv, NEW p \in Procs, Step(p), NEW q \in Procs, q # p
  PROVE  /\ pc'[q] = pc[q] /\ req'[q] = req[q] /\ view'[q] = view[q]
         /\ pc[p] = "waiting" \/ (pc[p] \in Critical /\ pc[q] \notin Critical)
         /\ UNCHANGED <<ops, crashes>>
  <1> USE DEF StoreInv, TypeOK, At, Goto, disk
  <1>1. pc'[q] = pc[q] /\ req'[q] = req[q] /\ view'[q] = view[q] /\ UNCHANGED <<ops, crashes>>
    <2>1. ASSUME Return(p) PROVE pc'[q] = pc[q] /\ req'[q] = req[q] /\ view'[q] = view[q]
      BY <2>1 DEF Return, Forget
    <2>2. CASE Acquire(p)
      BY <2>2 DEF Acquire
    <2>3. CASE WriteStatus(p) \/ Render(p) \/ WriteLifecycle(p) \/ WriteMarker(p) \/ WriteSeeds(p)
      BY <2>3 DEF WriteStatus, Render, WriteLifecycle, WriteMarker, WriteSeeds
    <2>4. CASE Emit(p) \/ Refuse(p) \/ RefuseRollback(p) \/ RefuseOverflow(p) \/ CloseAgain(p)
      BY <2>1, <2>4 DEF Emit, Refuse, RefuseRollback, RefuseOverflow, CloseAgain
    <2>5. CASE AuditClosed(p) \/ EmitResync(p) \/ WriteRetries(p)
      BY <2>1, <2>5 DEF AuditClosed, EmitResync, AdvisoryRow, WriteRetries
    <2>6. QED
      BY <2>2, <2>3, <2>4, <2>5 DEF Step
  <1>2. pc[p] = "waiting" \/ pc[p] \in Critical
    BY DEF Step, Acquire, WriteStatus, Render, Emit, Refuse, RefuseRollback, RefuseOverflow,
           CloseAgain, WriteLifecycle, WriteMarker, AuditClosed, WriteSeeds, EmitResync,
           AdvisoryRow, WriteRetries, Critical
  <1>3. pc[p] \in Critical => pc[q] \notin Critical
    BY DEF FlockInv
  <1>4. UNCHANGED <<ops, crashes>>
    BY <1>1
  <1>5. pc[p] = "waiting" \/ (pc[p] \in Critical /\ pc[q] \notin Critical)
    BY <1>2, <1>3
  <1>6. QED
    BY <1>1, <1>4, <1>5

-----------------------------------------------------------------------------
(* The other conjuncts of the invariant, each kept by a step *)

(* Closing: the marker is written after the field, the row after both.     *)
LEMMA StepCloserInv ==
  ASSUME StoreInv, NEW p \in Procs, Step(p)
  PROVE  CloserInv'
  <1> USE DEF StoreInv, TypeOK, At, Goto, disk
  <1>1. ASSUME UNCHANGED marker, file'.lifecycle = file.lifecycle,
               pc'[p] \notin {"closing", "marked"},
               ~AuditClosed(p)
        PROVE  CloserInv'
    <2>1. \A i \in DOMAIN log' : log'[i].event = "closed" => i \in DOMAIN log /\ log[i].event = "closed"
      <3>1. CASE log' = log
        BY <3>1
      <3>2. CASE \E r \in Row : log' = Append(log, r) /\ r.event # "closed"
        <4>1. PICK r \in Row : log' = Append(log, r) /\ r.event # "closed"
          BY <3>2
        <4>2. QED
          BY <4>1
      <3>3. QED
        BY <1>1, <3>1, <3>2, StepLog
    <2>2. \A i \in DOMAIN log' : i \in DOMAIN log => log'[i] = log[i]
      BY StepLog, SMTT(30)
    <2>3. \A q \in Procs : pc'[q] \in {"closing", "marked"} => pc[q] = pc'[q]
      BY <1>1, StepAlone
    <2>4. QED
      BY <1>1, <2>1, <2>2, <2>3 DEF CloserInv, OneClosedRow
  <1>2. pc[p] = "locked" => view[p] = file
    BY DEF FlockInv
  <1>3. \A q \in Procs : q # p /\ pc[p] \in Critical => pc'[q] \notin {"closing", "marked"}
    BY StepAlone DEF Critical
  <1>4. CASE Acquire(p) \/ Refuse(p) \/ RefuseRollback(p) \/ RefuseOverflow(p) \/ CloseAgain(p)
             \/ Render(p) \/ Emit(p) \/ EmitResync(p)
    <2>1. UNCHANGED <<marker, file>> /\ pc'[p] \notin {"closing", "marked"} /\ pc[p] # "marked"
      BY <1>4 DEF Acquire, Refuse, RefuseRollback, RefuseOverflow, CloseAgain, Render, Emit,
                  EmitResync, AdvisoryRow, Return, Forget
    <2>2. QED
      BY <1>1, <2>1 DEF AuditClosed
  <1>5. CASE WriteStatus(p) \/ WriteSeeds(p) \/ WriteRetries(p)
    <2>1. UNCHANGED marker /\ pc'[p] \notin {"closing", "marked"} /\ pc[p] # "marked"
      BY <1>5 DEF WriteStatus, WriteSeeds, WriteRetries, Return, Forget
    <2>2. file'.lifecycle = file.lifecycle
      <3>1. view[p] = file /\ file \in File
        BY <1>2, <1>5 DEF WriteStatus, WriteSeeds, WriteRetries
      <3>2. CASE WriteStatus(p)
        BY <3>1, <3>2 DEF WriteStatus, File
      <3>3. CASE WriteSeeds(p)
        BY <3>1, <3>3 DEF WriteSeeds, File
      <3>4. CASE WriteRetries(p)
        BY <3>1, <3>4 DEF WriteRetries, File
      <3>5. QED
        BY <1>5, <3>2, <3>3, <3>4
    <2>3. QED
      BY <1>1, <2>1, <2>2 DEF AuditClosed
  <1>6. CASE WriteLifecycle(p)
    <2>1. file'.lifecycle = "closed" /\ pc'[p] = "closing" /\ UNCHANGED <<marker, log>> /\ ~marker
      BY <1>6 DEF WriteLifecycle, File
    <2>2. pc[p] \in Critical
      BY <1>6 DEF WriteLifecycle, Critical
    <2>3. QED
      BY <1>3, <2>1, <2>2 DEF CloserInv, OneClosedRow
  <1>7. CASE WriteMarker(p)
    <2>1. marker' = TRUE /\ pc'[p] = "marked" /\ UNCHANGED <<file, log>> /\ pc[p] = "closing"
      BY <1>7 DEF WriteMarker
    <2>2. ~marker /\ file.lifecycle = "closed" /\ \A i \in DOMAIN log : log[i].event # "closed"
      BY <2>1 DEF CloserInv
    <2>3. QED
      BY <1>3, <2>1, <2>2 DEF CloserInv, OneClosedRow, Critical
  <1>8. CASE AuditClosed(p)
    <2>1. /\ pc[p] = "marked" /\ pc'[p] = "idle" /\ UNCHANGED <<marker, file>>
          /\ log' = log \/ \E r \in Row : log' = Append(log, r)
      BY <1>8, StepLog DEF AuditClosed, AdvisoryRow, Return, Forget
    <2>2. marker /\ file.lifecycle = "closed" /\ \A i \in DOMAIN log : log[i].event # "closed"
      BY <2>1 DEF CloserInv
    <2>3. \A i \in DOMAIN log' : i \in DOMAIN log \/ i = Len(log) + 1
      BY <2>1
    <2>4. \A i \in DOMAIN log' : i \in DOMAIN log => log'[i] = log[i]
      BY <2>1
    <2>5. OneClosedRow'
      BY <2>2, <2>3, <2>4 DEF OneClosedRow
    <2>6. QED
      BY <1>3, <2>1, <2>2, <2>5 DEF CloserInv, Critical
  <1>9. QED
    BY <1>4, <1>5, <1>6, <1>7, <1>8 DEF Step

(* A revision gives its task a status in the same write, and every append  *)
(* keeps a last row.                                                       *)
LEMMA StepHistoryInv ==
  ASSUME StoreInv, NEW p \in Procs, Step(p)
  PROVE  HistoryInv'
  <1> USE DEF StoreInv, TypeOK
  <1>1. \A t \in Tasks : file'.history[t] > 0 => file'.status[t] # "absent"
    <2> SUFFICES ASSUME NEW t \in Tasks, file'.history[t] > 0
                 PROVE  file'.status[t] # "absent"
      OBVIOUS
    <2>1. "ready" # "absent" /\ "absent" \notin SevenStatus
      BY DEF SevenStatus
    <2>2. QED
      BY <2>1, StepStatus DEF HistoryInv
  <1>2. \A t \in Tasks : HasLast(log', t)
    <2> SUFFICES ASSUME NEW t \in Tasks PROVE HasLast(log', t)
      OBVIOUS
    <2>1. HasLast(log, t)
      BY DEF HistoryInv, HasLast
    <2>2. CASE log' = log
      BY <2>1, <2>2
    <2>3. CASE \E r \in Row : log' = Append(log, r)
      BY <2>1, <2>3, AppendHasLast
    <2>4. QED
      BY <2>2, <2>3, StepLog
  <1>3. QED
    BY <1>1, <1>2 DEF HistoryInv, HasLast

\* A task's row is on its way, or it is a seed that has not moved, or the log
\* and the file agree about it.
Settled(t) == InFlight(t) \/ LooksSeeded(t) \/ ~Diverged(t)

(* No step of a command unsettles a task.                                  *)
LEMMA StepSettled ==
  ASSUME StoreInv, NEW p \in Procs, Step(p), NEW t \in Tasks, Settled(t)
  PROVE  Settled(t)'
  <1> USE DEF StoreInv, TypeOK
  <1>1. HasLast(log, t)
    BY DEF HistoryInv, HasLast
  <1>2. SUFFICES (InFlight(t) \/ LooksSeeded(t) \/ ~Diverged(t))'
    BY DEF Settled
  <1>3. InFlight(t) \/ LooksSeeded(t) \/ ~Diverged(t)
    BY DEF Settled
  <1>4. CASE \E r \in Row : log' = Append(log, r) /\ r.task = t
    <2>1. PICK r \in Row : /\ log' = Append(log, r) /\ r.task = t
                           /\ r.to = Effective(file', t)
                           /\ file.status[t] # "absent" /\ UNCHANGED file
      BY <1>4, StepLog
    <2>2. Replayed(log', t) = r.to
      BY <1>1, <2>1, ReplayAppend
    <2>3. r.to = file'.status[t]
      BY <2>1 DEF Effective
    <2>4. QED
      BY <2>2, <2>3 DEF Diverged
  <1>5. CASE ~ \E r \in Row : log' = Append(log, r) /\ r.task = t
    <2>1. Replayed(log', t) = Replayed(log, t) /\ Rows(log', t) = Rows(log, t)
      <3>1. CASE log' = log
        BY <3>1
      <3>2. CASE \E r \in Row : log' = Append(log, r) /\ r.task # t
        BY <1>1, <3>2, ReplayAppend, AppendRows
      <3>3. QED
        BY <1>5, <3>1, <3>2, StepLog
    <2>2. ASSUME file'.status[t] = file.status[t]
          PROVE  (InFlight(t) \/ LooksSeeded(t) \/ ~Diverged(t))'
      <3>1. CASE InFlight(t)
        <4>1. PICK q \in Procs : pc[q] \in {"written", "rendered"} /\ req[q].task = t
          BY <3>1 DEF InFlight
        <4>2. CASE q # p
          <5>1. pc'[q] = pc[q] /\ req'[q] = req[q]
            BY <4>2, StepAlone
          <5>2. QED
            BY <4>1, <5>1 DEF InFlight
        <4>3. CASE q = p
          <5>1. pc[p] # "rendered"
            BY <1>5, <4>1, <4>3, StepLog
          <5>2. Render(p)
            BY <4>1, <4>3, <5>1
               DEF Step, Acquire, WriteStatus, Render, Emit, Refuse, RefuseRollback,
                   RefuseOverflow, CloseAgain, WriteLifecycle, WriteMarker, AuditClosed,
                   WriteSeeds, EmitResync, WriteRetries, At
          <5>3. pc'[p] = "rendered" /\ req'[p] = req[p]
            BY <5>2 DEF Render, Goto
          <5>4. QED
            BY <4>1, <4>3, <5>3 DEF InFlight
        <4>4. QED
          BY <4>2, <4>3
      <3>2. CASE LooksSeeded(t) \/ ~Diverged(t)
        BY <2>1, <2>2, <3>2 DEF LooksSeeded, Diverged
      <3>3. QED
        BY <1>3, <3>1, <3>2
    <2>3. CASE WriteStatus(p) /\ t = req[p].task
      <3>1. pc'[p] = "written" /\ req'[p] = req[p]
        BY <2>3 DEF WriteStatus, Goto
      <3>2. QED
        BY <2>3, <3>1 DEF InFlight
    <2>4. CASE WriteSeeds(p) /\ file.status[t] = "absent" /\ file'.status[t] = "ready"
      <3>1. pc[p] = "locked"
        BY <2>4 DEF WriteSeeds, At
      <3>2. ~InFlight(t)
        <4> SUFFICES ASSUME NEW q \in Procs, pc[q] \in {"written", "rendered"}
                     PROVE  FALSE
          BY DEF InFlight
        <4>1. q # p /\ pc[q] \in Critical /\ pc[p] \in Critical
          BY <3>1 DEF Critical
        <4>2. QED
          BY <4>1 DEF FlockInv
      <3>3. Replayed(log, t) = "absent"
        BY <1>3, <2>4, <3>2 DEF LooksSeeded, Diverged
      <3>4. Rows(log, t) = {}
        BY <1>1, <3>3, ReplayType DEF SevenStatus
      <3>5. QED
        BY <2>1, <2>4, <3>4 DEF LooksSeeded
    <2>5. QED
      BY <2>2, <2>3, <2>4, StepStatus
  <1>6. QED
    BY <1>4, <1>5

(* Without a crash a task's row is on its way, or the log already agrees.  *)
LEMMA StepAgreementInv ==
  ASSUME StoreInv, NEW p \in Procs, Step(p)
  PROVE  AgreementInv'
  <1> SUFFICES ASSUME crashes' = 0, NEW t \in Tasks
               PROVE  (InFlight(t) \/ LooksSeeded(t) \/ ~Diverged(t))'
    BY DEF AgreementInv
  <1>1. crashes = 0
    BY DEF Step, Acquire, WriteStatus, Render, Emit, Refuse, RefuseRollback, RefuseOverflow,
           CloseAgain, WriteLifecycle, WriteMarker, AuditClosed, WriteSeeds, EmitResync,
           AdvisoryRow, WriteRetries
  <1>2. Settled(t)
    BY <1>1 DEF StoreInv, AgreementInv, Settled
  <1>3. QED
    BY <1>2, StepSettled DEF Settled

(* The page rendered inside the flock still shows the file.                *)
LEMMA StepRenderedMatchesFile ==
  ASSUME StoreInv, NEW p \in Procs, Step(p)
  PROVE  RenderedMatchesFile'
  <1> USE DEF StoreInv, TypeOK, At, Goto, disk
  <1> SUFFICES ASSUME NEW q \in Procs, pc'[q] = "rendered", log'[Len(log')].event = "rendered"
               PROVE  md' = file'.status
    BY DEF RenderedMatchesFile
  <1>1. CASE q # p
    <2>1. pc[q] = "rendered" /\ pc[p] = "waiting"
      BY <1>1, StepAlone DEF Critical
    <2>2. Acquire(p)
      BY <2>1 DEF Step, Acquire, WriteStatus, Render, Emit, Refuse, RefuseRollback,
                  RefuseOverflow, CloseAgain, WriteLifecycle, WriteMarker, AuditClosed,
                  WriteSeeds, EmitResync, WriteRetries
    <2>3. UNCHANGED <<log, md, file>>
      BY <2>2 DEF Acquire
    <2>4. QED
      BY <2>1, <2>3 DEF RenderedMatchesFile
  <1>2. CASE q = p
    <2>1. Render(p)
      BY <1>2 DEF Step, Acquire, WriteStatus, Render, Emit, Refuse, RefuseRollback,
                  RefuseOverflow, CloseAgain, WriteLifecycle, WriteMarker, AuditClosed,
                  WriteSeeds, EmitResync, AdvisoryRow, WriteRetries, Return, Forget
    <2>2. ASSUME log' = Append(log, PlanRow("render_failed")) PROVE FALSE
      <3>1. PlanRow("render_failed") \in Row
        BY RowTypes DEF Event
      <3>2. log'[Len(log')] = PlanRow("render_failed")
        BY <2>2, <3>1
      <3>3. QED
        BY <3>2 DEF PlanRow, TaskRow
    <2>3. QED
      BY <2>1, <2>2 DEF Render
  <1>3. QED
    BY <1>1, <1>2

-----------------------------------------------------------------------------
(* Commands that start, die, or do nothing, and the invariant as a whole   *)

(* A command that starts waits for the flock: nothing on disk has moved.   *)
LEMMA BeginStoreInv ==
  ASSUME StoreInv, NEW p \in Procs, NEW r \in Request \cup {AutoClose},
         pc[p] = "idle", pc' = [pc EXCEPT ![p] = "waiting"],
         req' = [req EXCEPT ![p] = r], ops' = ops + 1,
         UNCHANGED <<disk, lock, view, crashes>>
  PROVE  StoreInv'
  <1> USE DEF StoreInv, TypeOK, disk
  <1>1. TypeOK'
    BY DEF PC
  <1>2. \A q \in Procs : /\ pc'[q] \in Critical <=> pc[q] \in Critical
                         /\ pc[q] \in Critical => q # p /\ pc'[q] = pc[q] /\ req'[q] = req[q]
    BY DEF Critical
  <1>3. FlockInv'
    <2>1. \A q \in Procs : pc'[q] = "locked" => pc[q] = "locked"
      BY <1>2 DEF Critical
    <2>2. QED
      BY <1>2, <2>1 DEF FlockInv
  <1>4. WriterInv' /\ CloserInv' /\ RenderedMatchesFile'
    BY <1>2 DEF WriterInv, CloserInv, OneClosedRow, RenderedMatchesFile, Critical
  <1>5. HistoryInv'
    BY DEF HistoryInv, Rows
  <1>6. AgreementInv'
    <2>1. \A t \in Tasks : InFlight(t) => InFlight(t)'
      BY <1>2 DEF InFlight, Critical
    <2>2. \A t \in Tasks : /\ LooksSeeded(t)' <=> LooksSeeded(t)
                           /\ Diverged(t)' <=> Diverged(t)
      BY DEF LooksSeeded, Diverged, Rows, Replayed
    <2>3. QED
      BY <2>1, <2>2 DEF AgreementInv
  <1>7. QED
    BY <1>1, <1>3, <1>4, <1>5, <1>6

(* A crash leaves the disk as it is and drops the flock of the dead.       *)
LEMMA CrashStoreInv ==
  ASSUME StoreInv, NEW p \in Procs, Crash(p)
  PROVE  StoreInv'
  <1> USE DEF StoreInv, TypeOK, disk
  <1>1. TypeOK'
    BY EmptyFileType DEF Crash, Forget, Goto, PC
  <1>2. /\ UNCHANGED disk
        /\ pc'[p] = "idle"
        /\ \A q \in Procs : q # p => pc'[q] = pc[q] /\ req'[q] = req[q] /\ view'[q] = view[q]
    BY DEF Crash, Forget, Goto
  <1>3. FlockInv'
    <2>1. lock' = IF lock = p THEN NoProc ELSE lock
      BY DEF Crash
    <2> SUFFICES ASSUME NEW q \in Procs
                 PROVE  (/\ pc[q] \in Critical <=> lock = q
                         /\ pc[q] = "locked" => view[q] = file)'
      BY DEF FlockInv
    <2>2. CASE q = p
      <3>1. lock' # p
        BY <2>1, StoreAssumption
      <3>2. QED
        BY <1>2, <2>2, <3>1 DEF Critical
    <2>3. CASE q # p
      <3>1. (lock' = q <=> lock = q) /\ pc'[q] = pc[q] /\ view'[q] = view[q] /\ file' = file
        BY <1>2, <2>1, <2>3, StoreAssumption
      <3>2. QED
        BY <3>1 DEF FlockInv
    <2>4. QED
      BY <2>2, <2>3
  <1>4. WriterInv' /\ CloserInv' /\ RenderedMatchesFile'
    BY <1>2 DEF WriterInv, CloserInv, OneClosedRow, RenderedMatchesFile
  <1>5. HistoryInv'
    BY <1>2 DEF HistoryInv, Rows
  <1>6. AgreementInv'
    BY DEF AgreementInv, Crash
  <1>7. QED
    BY <1>1, <1>3, <1>4, <1>5, <1>6

(* A step that changes nothing keeps the invariant.                        *)
LEMMA StutterStoreInv ==
  ASSUME StoreInv, UNCHANGED vars
  PROVE  StoreInv'
  <1> USE DEF vars
  <1>1. TypeOK' /\ FlockInv' /\ WriterInv' /\ CloserInv'
    BY DEF StoreInv, TypeOK, FlockInv, WriterInv, CloserInv, OneClosedRow
  <1>2. HistoryInv'
    BY DEF StoreInv, HistoryInv, Rows
  <1>3. AgreementInv'
    BY SMTT(30) DEF StoreInv, AgreementInv, InFlight, LooksSeeded, Diverged, Replayed, Rows
  <1>4. RenderedMatchesFile'
    BY DEF StoreInv, RenderedMatchesFile
  <1>5. QED
    BY <1>1, <1>2, <1>3, <1>4 DEF StoreInv

(* The invariant is inductive: whoever moves, and wherever a process dies. *)
LEMMA NextStoreInv ==
  ASSUME StoreInv, [Next]_vars
  PROVE  StoreInv'
  <1>1. ASSUME NEW p \in Procs, NEW r \in Requests, Start(p, r)
        PROVE  StoreInv'
    <2>1. r \in Request \cup {AutoClose}
      BY RequestsAssumption
    <2>2. QED
      BY <1>1, <2>1, BeginStoreInv DEF Start, Goto
  <1>2. ASSUME NEW p \in Procs, Pick(p)
        PROVE  StoreInv'
    BY <1>2, BeginStoreInv DEF Pick, Goto
  <1>3. ASSUME NEW p \in Procs, Step(p)
        PROVE  StoreInv'
    BY <1>3, StepTypeOK, StepFlockInv, StepWriterInv, StepCloserInv, StepHistoryInv,
       StepAgreementInv, StepRenderedMatchesFile DEF StoreInv
  <1>4. ASSUME NEW p \in Procs, Crash(p)
        PROVE  StoreInv'
    BY <1>4, CrashStoreInv
  <1>5. CASE Quiet \/ UNCHANGED vars
    BY <1>5, StutterStoreInv DEF Quiet
  <1>6. QED
    BY <1>1, <1>2, <1>3, <1>4, <1>5 DEF Next, Work

-----------------------------------------------------------------------------
(* Safety of every instance *)

(* The inductive invariant holds of every behaviour of the store.          *)
THEOREM StoreInvariant == Spec => []StoreInv
  <1>1. Init => StoreInv
    BY InitStoreInv
  <1>2. StoreInv /\ [Next]_vars => StoreInv'
    BY NextStoreInv
  <1>3. QED
    BY <1>1, <1>2, PTL DEF Spec

(* Type correctness: no status outside the enum and no history past its    *)
(* sentinel ever reaches a file.                                           *)
THEOREM TypeCorrect == Spec => []TypeOK
  <1>1. StoreInv => TypeOK
    BY DEF StoreInv
  <1>2. QED
    BY <1>1, StoreInvariant, PTL

(* Mutual exclusion and freshness: a process inside the flock is alone,    *)
(* and the copy of _state.json it is about to write back is current.       *)
THEOREM FlockProtectsSnapshot == Spec => []SnapshotIsCurrent
  <1>1. StoreInv => SnapshotIsCurrent
    BY DEF StoreInv, FlockInv, SnapshotIsCurrent
  <1>2. QED
    BY <1>1, StoreInvariant, PTL

(* Without a crash the log replays to the file whenever the flock is free, *)
(* but for seeded tasks that have not moved.                               *)
THEOREM LogAgrees == Spec => []LogAgreesWithState
  <1>1. StoreInv => LogAgreesWithState
    <2> SUFFICES ASSUME StoreInv, crashes = 0, lock = NoProc, NEW t \in Tasks, Diverged(t)
                 PROVE  LooksSeeded(t)
      BY DEF LogAgreesWithState
    <2>1. ~InFlight(t)
      BY StoreAssumption DEF InFlight, StoreInv, FlockInv, Critical
    <2>2. QED
      BY <2>1 DEF StoreInv, AgreementInv
  <1>2. QED
    BY <1>1, StoreInvariant, PTL

(* The marker implies the lifecycle field, against every later writer.     *)
THEOREM MarkerImpliesClosed == Spec => []MarkerMeansClosed
  <1>1. StoreInv => MarkerMeansClosed
    BY DEF StoreInv, CloserInv, MarkerMeansClosed
  <1>2. QED
    BY <1>1, StoreInvariant, PTL

(* The closed row is appended at most once, crashes included.              *)
THEOREM ClosedRowOnce == Spec => []OneClosedRow
  <1>1. StoreInv => OneClosedRow
    BY DEF StoreInv, CloserInv
  <1>2. QED
    BY <1>1, StoreInvariant, PTL

(* A successful render shows the file until the flock is dropped.          *)
THEOREM RenderIsFaithful == Spec => []RenderedMatchesFile
  <1>1. StoreInv => RenderedMatchesFile
    BY DEF StoreInv
  <1>2. QED
    BY <1>1, StoreInvariant, PTL

-----------------------------------------------------------------------------
(* What a step may never do *)

(* Outside Step nothing on disk changes.                                   *)
LEMMA DiskChanges ==
  ASSUME [Next]_vars
  PROVE  UNCHANGED disk \/ \E p \in Procs : Step(p)
  BY DEF Next, Work, Start, Pick, Crash, Quiet, vars, disk

(* A task's row always ends in the status the file holds as it is          *)
(* appended.                                                               *)
THEOREM RowsTellTheFile == Spec => RowTellsTheFile
  <1>1. ASSUME StoreInv, [Next]_vars, log' # log,
               log'[Len(log')].task \in Tasks
        PROVE  log'[Len(log')].to = Effective(file', log'[Len(log')].task)
    <2>1. PICK p \in Procs : Step(p)
      BY <1>1, DiskChanges DEF disk
    <2>2. PICK r \in Row : /\ log' = Append(log, r)
                           /\ r.task \in Tasks => r.to = Effective(file', r.task)
      BY <1>1, <2>1, StepLog
    <2>3. log'[Len(log')] = r
      BY <1>1, <2>2 DEF StoreInv, TypeOK
    <2>4. QED
      BY <1>1, <2>2, <2>3
  <1>2. StoreInv /\ [Next]_vars =>
          [log' # log =>
             LET row == log'[Len(log')]
             IN  row.task \in Tasks => row.to = Effective(file', row.task)]_vars
    BY <1>1
  <1>3. QED
    BY <1>2, StoreInvariant, PTL DEF Spec, RowTellsTheFile

(* done goes back to wip only with the operator's override.                *)
THEOREM RollbacksAreOverridden == Spec => RollbackNeedsOverride
  <1>1. ASSUME StoreInv, [Next]_vars, NEW t \in Tasks,
               file.status[t] = "done", file'.status[t] = "wip"
        PROVE  \E p \in Procs : /\ pc[p] = "locked" /\ pc'[p] = "written"
                                /\ req[p].task = t /\ req[p].override
    <2>1. PICK p \in Procs : Step(p)
      BY <1>1, DiskChanges DEF disk
    <2>2. WriteStatus(p) /\ t = req[p].task /\ Target(req[p]) = "wip"
      BY <1>1, <2>1, StepStatus
    <2>3. view[p] = file /\ pc[p] = "locked" /\ pc'[p] = "written"
      BY <1>1, <2>2 DEF WriteStatus, At, Goto, StoreInv, FlockInv, TypeOK
    <2>4. ~RollbackRefused(Effective(file, t), req[p])
      BY <2>2, <2>3 DEF WriteStatus, Allowed
    <2>5. req[p].override
      BY <1>1, <2>2, <2>4 DEF RollbackRefused, Effective
    <2>6. QED
      BY <2>2, <2>3, <2>5
  <1>2. StoreInv /\ [Next]_vars =>
          [\A t \in Tasks :
             file.status[t] = "done" /\ file'.status[t] = "wip" =>
               \E p \in Procs : /\ pc[p] = "locked" /\ pc'[p] = "written"
                                /\ req[p].task = t /\ req[p].override]_vars
    BY <1>1
  <1>3. QED
    BY <1>2, StoreInvariant, PTL DEF Spec, RollbackNeedsOverride

-----------------------------------------------------------------------------
(* What a crash costs: the divergences and the revisions, counted *)

\* The tasks whose row will not come any more.
Stale == {t \in Tasks : ~Settled(t)}

StaleInv == IsFiniteSet(Stale) /\ Cardinality(Stale) <= crashes

\* The revision rows of a task, and the one that is still on its way.
Logged(t) == {i \in Rows(log, t) : log[i].event = "revision"}

Owing(t) ==
  \E p \in Procs : /\ pc[p] \in {"written", "rendered"}
                   /\ req[p].task = t /\ IsRevision(req[p])

Owed(t) == IF Owing(t) THEN 1 ELSE 0

CountInv ==
  \A t \in Tasks :
    /\ Cardinality(Logged(t)) + Owed(t) <= file.history[t]
    /\ file.history[t] <= Cardinality(Logged(t)) + Owed(t) + crashes

\* Only a resync leaves the state that WriteSeeds goes to.
SeederInv == \A p \in Procs : pc[p] = "seeded" => req[p].op = "resync"

(* A finite set that gains one element at most.                            *)
LEMMA OneMore ==
  ASSUME NEW S, IsFiniteSet(S), NEW x, NEW T, T \subseteq S \cup {x}
  PROVE  /\ IsFiniteSet(T) /\ Cardinality(T) \in Nat /\ Cardinality(S) \in Nat
         /\ Cardinality(T) <= Cardinality(S) + 1
  <1>1. Cardinality(S) \in Nat
    BY FS_CardinalityType
  <1>2. /\ IsFiniteSet(S \cup {x})
        /\ Cardinality(S \cup {x}) = IF x \in S THEN Cardinality(S) ELSE Cardinality(S) + 1
    BY FS_AddElement
  <1>3. IsFiniteSet(T) /\ Cardinality(T) <= Cardinality(S \cup {x})
    BY <1>2, FS_Subset
  <1>4. Cardinality(T) \in Nat
    BY <1>3, FS_CardinalityType
  <1>5. QED
    BY <1>1, <1>2, <1>3, <1>4

(* Outside Step and Crash nothing moves but a process that begins to wait. *)
LEMMA OtherSteps ==
  ASSUME StoreInv, [Next]_vars, ~ \E p \in Procs : Step(p) \/ Crash(p)
  PROVE  /\ UNCHANGED <<disk, lock, view, crashes>>
         /\ \A p \in Procs : \/ pc'[p] = pc[p] /\ req'[p] = req[p]
                             \/ pc[p] = "idle" /\ pc'[p] = "waiting"
  <1>1. CASE Quiet \/ UNCHANGED vars
    BY <1>1 DEF Quiet, vars, disk
  <1>2. ASSUME NEW p \in Procs, NEW r \in Requests, Start(p, r)
        PROVE  /\ UNCHANGED <<disk, lock, view, crashes>>
               /\ \A q \in Procs : \/ pc'[q] = pc[q] /\ req'[q] = req[q]
                                   \/ pc[q] = "idle" /\ pc'[q] = "waiting"
    BY <1>2 DEF Start, Goto, StoreInv, TypeOK
  <1>3. ASSUME NEW p \in Procs, Pick(p)
        PROVE  /\ UNCHANGED <<disk, lock, view, crashes>>
               /\ \A q \in Procs : \/ pc'[q] = pc[q] /\ req'[q] = req[q]
                                   \/ pc[q] = "idle" /\ pc'[q] = "waiting"
    BY <1>3 DEF Pick, Goto, StoreInv, TypeOK
  <1>4. QED
    BY <1>1, <1>2, <1>3 DEF Next, Work

(* A crash moves the dead process only, and nothing on disk.               *)
LEMMA CrashShape ==
  ASSUME StoreInv, NEW p \in Procs, Crash(p)
  PROVE  /\ UNCHANGED disk /\ crashes' = crashes + 1
         /\ pc'[p] = "idle"
         /\ \A q \in Procs \ {p} : pc'[q] = pc[q] /\ req'[q] = req[q]
  BY DEF Crash, Forget, Goto, StoreInv, TypeOK

(* A crash leaves one task at most without its row.                        *)
LEMMA NextStaleInv ==
  ASSUME StoreInv, StaleInv, [Next]_vars
  PROVE  StaleInv'
  <1>1. crashes \in Nat /\ IsFiniteSet(Stale) /\ Cardinality(Stale) \in Nat
    BY FS_CardinalityType DEF StoreInv, TypeOK, StaleInv
  <1>2. ASSUME \A t \in Tasks : Settled(t) => Settled(t)', crashes' = crashes
        PROVE  StaleInv'
    <2>1. Stale' \in SUBSET Stale
      BY <1>2 DEF Stale
    <2>2. IsFiniteSet(Stale') /\ Cardinality(Stale') <= Cardinality(Stale)
      BY <1>1, <2>1, FS_Subset
    <2>3. Cardinality(Stale') \in Nat
      BY <2>2, FS_CardinalityType
    <2>4. QED
      BY <1>1, <1>2, <2>2, <2>3 DEF StaleInv
  <1>3. UNCHANGED disk => \A t \in Tasks : /\ LooksSeeded(t)' <=> LooksSeeded(t)
                                           /\ Diverged(t)' <=> Diverged(t)
    BY DEF LooksSeeded, Diverged, Rows, Replayed, disk
  <1>4. CASE \E p \in Procs : Step(p)
    <2>1. PICK p \in Procs : Step(p)
      BY <1>4
    <2>2. crashes' = crashes
      BY <2>1 DEF Step, Acquire, WriteStatus, Render, Emit, Refuse, RefuseRollback, RefuseOverflow,
             CloseAgain, WriteLifecycle, WriteMarker, AuditClosed, WriteSeeds, EmitResync,
             AdvisoryRow, WriteRetries
    <2>3. QED
      BY <1>2, <2>1, <2>2, StepSettled
  <1>5. CASE \E p \in Procs : Crash(p)
    <2>1. PICK p \in Procs : Crash(p)
      BY <1>5
    <2>2. ASSUME NEW t \in Tasks, Settled(t), t # req[p].task PROVE Settled(t)'
      <3>1. InFlight(t) => InFlight(t)'
        BY <2>1, <2>2, CrashShape DEF InFlight
      <3>2. QED
        BY <1>3, <2>1, <2>2, <3>1, CrashShape DEF Settled
    <2>3. Stale' \subseteq Stale \cup {req[p].task}
      BY <2>2 DEF Stale
    <2>4. /\ IsFiniteSet(Stale') /\ Cardinality(Stale') \in Nat
          /\ Cardinality(Stale') <= Cardinality(Stale) + 1
      BY <1>1, <2>3, OneMore
    <2>5. QED
      BY <1>1, <2>1, <2>4, CrashShape DEF StaleInv
  <1>6. CASE ~ \E p \in Procs : Step(p) \/ Crash(p)
    <2>1. /\ UNCHANGED <<disk, crashes>>
          /\ \A q \in Procs : \/ pc'[q] = pc[q] /\ req'[q] = req[q]
                              \/ pc[q] = "idle" /\ pc'[q] = "waiting"
      BY <1>6, OtherSteps
    <2>2. \A t \in Tasks : InFlight(t) => InFlight(t)'
      BY <2>1 DEF InFlight
    <2>3. QED
      BY <1>2, <1>3, <2>1, <2>2 DEF Settled
  <1>7. QED
    BY <1>4, <1>5, <1>6

(* A crash costs at most the row of the one task that was being written:   *)
(* the tasks on which the log and the file disagree never outnumber the    *)
(* crashes (set_task_status first, emit_transition last).                  *)
THEOREM DivergenceIsBounded == Spec => []DivergenceBoundedByCrashes
  <1>1. Init => StaleInv
    <2> SUFFICES ASSUME Init PROVE StaleInv
      OBVIOUS
    <2>1. \A t \in Tasks : ~Diverged(t)
      BY DEF Init, Diverged, Replayed, Rows, EmptyFile
    <2>2. Stale = {}
      BY <2>1 DEF Stale, Settled
    <2>3. QED
      BY <2>2, FS_EmptySet DEF StaleInv, Init
  <1>2. StoreInv /\ StaleInv /\ [Next]_vars => StaleInv'
    BY NextStaleInv
  <1>3. StoreInv /\ StaleInv => DivergenceBoundedByCrashes
    <2> SUFFICES ASSUME StoreInv, StaleInv, lock = NoProc
                 PROVE  Cardinality({t \in Tasks : Diverged(t) /\ ~LooksSeeded(t)}) <= crashes
      BY DEF DivergenceBoundedByCrashes
    <2>1. \A t \in Tasks : ~InFlight(t)
      BY StoreAssumption DEF InFlight, StoreInv, FlockInv, Critical
    <2>2. {t \in Tasks : Diverged(t) /\ ~LooksSeeded(t)} = Stale
      BY <2>1 DEF Stale, Settled
    <2>3. QED
      BY <2>2 DEF StaleInv
  <1>4. QED
    BY <1>1, <1>2, <1>3, StoreInvariant, PTL DEF Spec

(* The revision rows are finitely many.                                    *)
LEMMA LoggedFinite ==
  ASSUME StoreInv, NEW t \in Tasks
  PROVE  IsFiniteSet(Logged(t)) /\ Cardinality(Logged(t)) \in Nat
  <1>1. Logged(t) \subseteq 1 .. Len(log) /\ Len(log) \in Nat
    BY DEF Logged, Rows, StoreInv, TypeOK
  <1>2. IsFiniteSet(1 .. Len(log))
    BY <1>1, FS_Interval
  <1>3. IsFiniteSet(Logged(t))
    BY <1>1, <1>2, FS_Subset
  <1>4. QED
    BY <1>3, FS_CardinalityType

(* A revision row is gained by the last step of a revision, and by no      *)
(* other.                                                                  *)
LEMMA StepLogged ==
  ASSUME StoreInv, NEW p \in Procs, Step(p), NEW t \in Tasks
  PROVE  Logged(t)' = IF pc[p] = "rendered" /\ IsRevision(req[p]) /\ req[p].task = t
                      THEN Logged(t) \cup {Len(log) + 1} ELSE Logged(t)
  <1> USE DEF StoreInv, TypeOK
  <1>1. CASE log' = log /\ pc[p] \notin {"written", "rendered"}
    BY <1>1 DEF Logged, Rows
  <1>2. CASE ~(log' = log /\ pc[p] \notin {"written", "rendered"})
    <2>1. PICK r \in Row :
             /\ log' = Append(log, r)
             /\ pc[p] = "rendered" => r.task = req[p].task
             /\ r.event = "revision" <=> pc[p] = "rendered" /\ IsRevision(req[p])
      BY <1>2, StepLog
    <2>2. /\ \A i \in DOMAIN log : log'[i] = log[i] /\ i < Len(log) + 1
          /\ log'[Len(log) + 1] = r
          /\ Rows(log', t) = IF r.task = t THEN Rows(log, t) \cup {Len(log) + 1} ELSE Rows(log, t)
      BY <2>1, AppendRows
    <2>3. Rows(log, t) \subseteq DOMAIN log
      BY DEF Rows
    <2>4. \A i \in Rows(log, t) : log'[i] = log[i]
      BY <2>2, <2>3
    <2>5. CASE r.task = t
      <3>1. Logged(t)' = IF r.event = "revision" THEN Logged(t) \cup {Len(log) + 1} ELSE Logged(t)
        BY <2>2, <2>4, <2>5 DEF Logged
      <3>2. QED
        BY <2>1, <2>5, <3>1
    <2>6. CASE r.task # t
      <3>1. Logged(t)' = Logged(t)
        BY <2>2, <2>4, <2>6 DEF Logged
      <3>2. QED
        BY <2>1, <2>6, <3>1
    <2>7. QED
      BY <2>5, <2>6
  <1>3. QED
    BY <1>1, <1>2

(* The revision that is on its way: none while p reads, p's own from the   *)
(* state write to the row.                                                 *)
LEMMA StepOwing ==
  ASSUME StoreInv, NEW p \in Procs, Step(p), NEW t \in Tasks
  PROVE  LET mine == IsRevision(req[p]) /\ req[p].task = t
         IN  /\ WriteStatus(p) => ~Owing(t) /\ (Owing(t)' <=> mine)
             /\ pc[p] = "rendered" => (Owing(t) <=> mine) /\ ~Owing(t)'
             /\ ~WriteStatus(p) /\ pc[p] # "rendered" => (Owing(t)' <=> Owing(t))
  <1> USE DEF StoreInv, TypeOK, At, Goto
  <1>1. \A q \in Procs \ {p} : /\ pc'[q] = pc[q] /\ req'[q] = req[q]
                               /\ pc[p] = "waiting" \/ (pc[p] \in Critical /\ pc[q] \notin Critical)
    BY StepAlone
  <1>2. pc[p] \in Critical => \A q \in Procs \ {p} : pc[q] \notin {"written", "rendered"}
    BY DEF FlockInv, Critical
  <1>3. WriteStatus(p) => pc[p] = "locked" /\ pc'[p] = "written" /\ req' = req
    BY DEF WriteStatus
  <1>4. pc[p] = "rendered" => pc'[p] = "idle"
    BY DEF Step, Acquire, WriteStatus, Render, Emit, Refuse, RefuseRollback, RefuseOverflow,
           CloseAgain, WriteLifecycle, WriteMarker, AuditClosed, WriteSeeds, EmitResync,
           AdvisoryRow, WriteRetries, Return, Forget
  <1>5. ~WriteStatus(p) /\ pc[p] # "rendered" =>
          \/ pc[p] = "written" /\ pc'[p] = "rendered" /\ req' = req
          \/ pc[p] \notin {"written", "rendered"} /\ pc'[p] \notin {"written", "rendered"}
    BY DEF Step, Acquire, Render, Emit, Refuse, RefuseRollback, RefuseOverflow,
           CloseAgain, WriteLifecycle, WriteMarker, AuditClosed, WriteSeeds, EmitResync,
           AdvisoryRow, WriteRetries, Return, Forget
  <1>6. WriteStatus(p) => ~Owing(t) /\ (Owing(t)' <=> IsRevision(req[p]) /\ req[p].task = t)
    BY <1>1, <1>2, <1>3 DEF Owing, Critical
  <1>7. pc[p] = "rendered" => (Owing(t) <=> IsRevision(req[p]) /\ req[p].task = t) /\ ~Owing(t)'
    BY <1>1, <1>2, <1>4 DEF Owing, Critical
  <1>8. ~WriteStatus(p) /\ pc[p] # "rendered" => (Owing(t)' <=> Owing(t))
    BY <1>1, <1>5 DEF Owing
  <1>9. QED
    BY <1>6, <1>7, <1>8

(* iteration_history grows by one with the state write of a revision.      *)
LEMMA StepHistory ==
  ASSUME StoreInv, NEW p \in Procs, Step(p), NEW t \in Tasks
  PROVE  /\ file.history[t] \in Nat
         /\ file'.history[t] =
              IF WriteStatus(p) /\ IsRevision(req[p]) /\ req[p].task = t
              THEN file.history[t] + 1 ELSE file.history[t]
  <1> USE DEF StoreInv, TypeOK, File
  <1>1. file.history[t] \in Nat
    BY StoreAssumption
  <1>2. CASE WriteStatus(p)
    <2>1. view[p] = file /\ req[p].task \in Tasks
      BY <1>2, RequestShape DEF FlockInv, WriteStatus, At
    <2>2. file'.history = Revised(file, req[p])
      BY <1>2, <2>1 DEF WriteStatus
    <2>3. QED
      BY <1>1, <1>2, <2>1, <2>2 DEF Revised
  <1>3. CASE ~WriteStatus(p)
    BY <1>1, <1>3, StepStatus
  <1>4. QED
    BY <1>2, <1>3

(* No step loses a revision; a crash loses the row of one at most.         *)
LEMMA NextCountInv ==
  ASSUME StoreInv, CountInv, [Next]_vars
  PROVE  CountInv'
  <1> SUFFICES ASSUME NEW t \in Tasks
               PROVE  (/\ Cardinality(Logged(t)) + Owed(t) <= file.history[t]
                       /\ file.history[t] <= Cardinality(Logged(t)) + Owed(t) + crashes)'
    BY DEF CountInv
  <1>1. /\ Cardinality(Logged(t)) + Owed(t) <= file.history[t]
        /\ file.history[t] <= Cardinality(Logged(t)) + Owed(t) + crashes
    BY DEF CountInv
  <1>2. /\ IsFiniteSet(Logged(t)) /\ Cardinality(Logged(t)) \in Nat
        /\ file.history[t] \in Nat /\ crashes \in Nat /\ Owed(t) \in {0, 1}
    BY LoggedFinite, StoreAssumption DEF StoreInv, TypeOK, File, Owed
  <1>3. UNCHANGED disk => Logged(t)' = Logged(t) /\ file' = file
    BY DEF Logged, Rows, disk
  <1>4. CASE \E p \in Procs : Step(p)
    <2>1. PICK p \in Procs : Step(p)
      BY <1>4
    <2>2. crashes' = crashes
      BY <2>1 DEF Step, Acquire, WriteStatus, Render, Emit, Refuse, RefuseRollback, RefuseOverflow,
             CloseAgain, WriteLifecycle, WriteMarker, AuditClosed, WriteSeeds, EmitResync,
             AdvisoryRow, WriteRetries
    <2> DEFINE mine == IsRevision(req[p]) /\ req[p].task = t
    <2>3. CASE WriteStatus(p)
      <3>1. Logged(t)' = Logged(t)
        BY <2>1, <2>3, StepLogged DEF WriteStatus, At
      <3>2. Owed(t) = 0 /\ Owed(t)' = IF mine THEN 1 ELSE 0
        BY <2>1, <2>3, StepOwing DEF Owed
      <3>3. file'.history[t] = IF mine THEN file.history[t] + 1 ELSE file.history[t]
        BY <2>1, <2>3, StepHistory
      <3>4. QED
        BY <1>1, <1>2, <2>2, <3>1, <3>2, <3>3
    <2>4. CASE pc[p] = "rendered"
      <3>1. ~WriteStatus(p)
        BY <2>4 DEF WriteStatus, At
      <3>2. Owed(t)' = 0 /\ Owed(t) = IF mine THEN 1 ELSE 0
        BY <2>1, <2>4, StepOwing DEF Owed
      <3>3. file'.history[t] = file.history[t]
        BY <2>1, <3>1, StepHistory
      <3>4. Logged(t)' = IF mine THEN Logged(t) \cup {Len(log) + 1} ELSE Logged(t)
        BY <2>1, <2>4, StepLogged
      <3>5. Len(log) + 1 \notin Logged(t)
        BY DEF Logged, Rows, StoreInv, TypeOK
      <3>6. Cardinality(Logged(t) \cup {Len(log) + 1}) = Cardinality(Logged(t)) + 1
        BY <1>2, <3>5, FS_AddElement
      <3>7. Cardinality(Logged(t))' = IF mine THEN Cardinality(Logged(t)) + 1
                                      ELSE Cardinality(Logged(t))
        BY <3>4, <3>6
      <3> HIDE DEF mine
      <3>8. QED
        BY <1>1, <1>2, <2>2, <3>2, <3>3, <3>7
    <2>5. CASE ~WriteStatus(p) /\ pc[p] # "rendered"
      <3>1. Logged(t)' = Logged(t) /\ file'.history[t] = file.history[t]
        BY <2>1, <2>5, StepLogged, StepHistory
      <3>2. Owed(t)' = Owed(t)
        BY <2>1, <2>5, StepOwing DEF Owed
      <3>3. QED
        BY <1>1, <2>2, <3>1, <3>2
    <2>6. QED
      BY <2>3, <2>4, <2>5
  <1>5. CASE \E p \in Procs : Crash(p)
    <2>1. PICK p \in Procs : Crash(p)
      BY <1>5
    <2>2. UNCHANGED disk /\ crashes' = crashes + 1
      BY <2>1, CrashShape
    <2>3. Owing(t)' => Owing(t)
      <3>1. \A q \in Procs : pc'[q] \in {"written", "rendered"} =>
                               pc[q] = pc'[q] /\ req[q] = req'[q]
        BY <2>1, CrashShape
      <3>2. QED
        BY <3>1 DEF Owing
    <2>4. Owed(t)' \in {0, 1} /\ Owed(t)' <= Owed(t)
      BY <2>3 DEF Owed
    <2>5. QED
      BY <1>1, <1>2, <1>3, <2>2, <2>4
  <1>6. CASE ~ \E p \in Procs : Step(p) \/ Crash(p)
    <2>1. /\ UNCHANGED <<disk, crashes>>
          /\ \A q \in Procs : \/ pc'[q] = pc[q] /\ req'[q] = req[q]
                              \/ pc[q] = "idle" /\ pc'[q] = "waiting"
      BY <1>6, OtherSteps
    <2>2. Owing(t)' <=> Owing(t)
      BY <2>1 DEF Owing
    <2>3. QED
      BY <1>1, <1>3, <2>1, <2>2 DEF Owed
  <1>7. QED
    BY <1>4, <1>5, <1>6

(* iteration_history and the log count the same revisions, but for one row *)
(* lost at most with every crash (append_iteration_row goes out with the   *)
(* state write, the revision row last).                                    *)
THEOREM HistoryAndLogAgree == Spec => []HistoryCountsRevisions
  <1>1. Init => CountInv
    <2> SUFFICES ASSUME Init, NEW t \in Tasks
                 PROVE  /\ Cardinality(Logged(t)) + Owed(t) <= file.history[t]
                        /\ file.history[t] <= Cardinality(Logged(t)) + Owed(t) + crashes
      BY DEF CountInv
    <2>1. Logged(t) = {} /\ ~Owing(t)
      BY DEF Init, Logged, Rows, Owing
    <2>2. Cardinality(Logged(t)) = 0 /\ Owed(t) = 0
      BY <2>1, FS_EmptySet DEF Owed
    <2>3. QED
      BY <2>2 DEF Init, EmptyFile
  <1>2. StoreInv /\ CountInv /\ [Next]_vars => CountInv'
    BY NextCountInv
  <1>3. StoreInv /\ CountInv => HistoryCountsRevisions
    <2> SUFFICES ASSUME StoreInv, CountInv, lock = NoProc, NEW t \in Tasks
                 PROVE  /\ Cardinality(Logged(t)) <= file.history[t]
                        /\ file.history[t] <= Cardinality(Logged(t)) + crashes
      BY DEF HistoryCountsRevisions, Logged
    <2>1. Owed(t) = 0
      BY StoreAssumption DEF Owing, Owed, StoreInv, FlockInv, Critical
    <2>2. Cardinality(Logged(t)) \in Nat /\ crashes \in Nat
      BY LoggedFinite DEF StoreInv, TypeOK
    <2>3. QED
      BY <2>1, <2>2 DEF CountInv
  <1>4. QED
    BY <1>1, <1>2, <1>3, StoreInvariant, PTL DEF Spec

-----------------------------------------------------------------------------
(* What a command may touch, and what it leaves when it returns *)

(* Each field of the file has its writers: the lifecycle a close, the      *)
(* retry counter a bump or a reset.                                        *)
LEMMA StepFields ==
  ASSUME StoreInv, NEW p \in Procs, Step(p)
  PROVE  /\ file'.lifecycle = file.lifecycle \/ WriteLifecycle(p)
         /\ file'.retries = file.retries \/ WriteRetries(p)
  <1> USE DEF StoreInv, TypeOK, At, Goto, disk, File
  <1>1. CASE Acquire(p) \/ Refuse(p) \/ RefuseRollback(p) \/ RefuseOverflow(p) \/ CloseAgain(p)
             \/ Render(p) \/ Emit(p) \/ WriteMarker(p) \/ AuditClosed(p) \/ EmitResync(p)
    BY <1>1 DEF Acquire, Refuse, RefuseRollback, RefuseOverflow, CloseAgain, Render, Emit,
                WriteMarker, AuditClosed, EmitResync, AdvisoryRow
  <1>2. pc[p] = "locked" => view[p] = file
    BY DEF FlockInv
  <1>3. CASE WriteLifecycle(p)
    BY <1>2, <1>3 DEF WriteLifecycle
  <1>4. CASE WriteRetries(p)
    BY <1>2, <1>4 DEF WriteRetries
  <1>5. CASE WriteSeeds(p)
    BY <1>2, <1>5 DEF WriteSeeds
  <1>6. CASE WriteStatus(p)
    BY <1>2, <1>6 DEF WriteStatus
  <1>7. QED
    BY <1>1, <1>3, <1>4, <1>5, <1>6 DEF Step

(* A write changes only what its command is about: the whole file goes     *)
(* out, and every other task, the lifecycle and the counter go out as they *)
(* stand; a seed leaves a task that is already there.                      *)
THEOREM WritersKeepToThemselves == Spec => WriteTouchesOnlyItsOwn
  <1> DEFINE Own(t) == \E p \in Procs :
                         /\ pc[p] = "locked" /\ pc'[p] # "locked"
                         /\ \/ req[p].op \in {"base", "develop"} /\ req[p].task = t
                            \/ req[p].op = "resync" /\ t \in req[p].seeds /\ file.status[t] = "absent"
  <1>1. ASSUME StoreInv, [Next]_vars, NEW t \in Tasks,
               file'.status[t] # file.status[t] \/ file'.history[t] # file.history[t]
        PROVE  Own(t)
    <2>1. PICK p \in Procs : Step(p)
      BY <1>1, DiskChanges DEF disk
    <2>2. CASE WriteStatus(p) /\ t = req[p].task
      BY <1>1, <2>2 DEF WriteStatus, At, Goto, StoreInv, TypeOK
    <2>3. CASE WriteSeeds(p) /\ t \in req[p].seeds /\ file.status[t] = "absent"
      BY <1>1, <2>3 DEF WriteSeeds, At, Goto, StoreInv, TypeOK
    <2>4. QED
      BY <1>1, <2>1, <2>2, <2>3, StepStatus
  <1>2. ASSUME StoreInv, [Next]_vars, file'.lifecycle # file.lifecycle
        PROVE  \E p \in Procs : pc'[p] = "closing"
    <2>1. PICK p \in Procs : Step(p)
      BY <1>2, DiskChanges DEF disk
    <2>2. WriteLifecycle(p)
      BY <1>2, <2>1, StepFields
    <2>3. QED
      BY <1>2, <2>2 DEF WriteLifecycle, Goto, StoreInv, TypeOK
  <1>3. ASSUME StoreInv, [Next]_vars, file'.retries # file.retries
        PROVE  \E p \in Procs : pc[p] = "locked" /\ req[p].op \in {"bump", "reset"}
    <2>1. PICK p \in Procs : Step(p)
      BY <1>3, DiskChanges DEF disk
    <2>2. WriteRetries(p)
      BY <1>3, <2>1, StepFields
    <2>3. QED
      BY <2>2 DEF WriteRetries, At
  <1>4. StoreInv /\ [Next]_vars =>
          [/\ \A t \in Tasks :
                file'.status[t] # file.status[t] \/ file'.history[t] # file.history[t] =>
                  \E p \in Procs :
                    /\ pc[p] = "locked" /\ pc'[p] # "locked"
                    /\ \/ req[p].op \in {"base", "develop"} /\ req[p].task = t
                       \/ req[p].op = "resync" /\ t \in req[p].seeds /\ file.status[t] = "absent"
           /\ file'.lifecycle # file.lifecycle => \E p \in Procs : pc'[p] = "closing"
           /\ file'.retries # file.retries =>
                \E p \in Procs : pc[p] = "locked" /\ req[p].op \in {"bump", "reset"}]_vars
    BY <1>1, <1>2, <1>3
  <1>5. QED
    BY <1>4, StoreInvariant, PTL DEF Spec, WriteTouchesOnlyItsOwn

(* What a process that has returned was doing: it died, or its close found *)
(* the marker or had just written it, or it was no close at all.           *)
LEMMA CloserReturns ==
  ASSUME StoreInv, SeederInv, [Next]_vars, NEW p \in Procs,
         pc[p] # "idle", pc'[p] = "idle", crashes' = crashes, ClosesPlan(p)
  PROVE  marker /\ UNCHANGED <<marker, file>>
  <1> USE DEF StoreInv, TypeOK
  <1>1. ~ \E q \in Procs : Crash(q)
    BY CrashShape
  <1>2. \E q \in Procs : Step(q)
    BY <1>1, OtherSteps
  <1>3. Step(p)
    BY <1>2, StepAlone
  <1>4. CASE Acquire(p) \/ Render(p) \/ WriteMarker(p) \/ WriteLifecycle(p)
    BY <1>4 DEF Acquire, Render, WriteMarker, WriteLifecycle, Goto
  <1>5. CASE WriteStatus(p) \/ Refuse(p) \/ RefuseRollback(p) \/ RefuseOverflow(p)
             \/ WriteSeeds(p) \/ WriteRetries(p)
    BY <1>5 DEF WriteStatus, Refuse, RefuseRollback, RefuseOverflow, WriteSeeds, WriteRetries,
                ClosesPlan
  <1>6. CASE Emit(p)
    BY <1>6 DEF Emit, At, WriterInv, ClosesPlan
  <1>7. CASE EmitResync(p)
    BY <1>7 DEF EmitResync, At, SeederInv, ClosesPlan
  <1>8. CASE CloseAgain(p)
    BY <1>8 DEF CloseAgain, disk
  <1>9. CASE AuditClosed(p)
    BY <1>9 DEF AuditClosed, AdvisoryRow, At, CloserInv
  <1>10. QED
    BY <1>3, <1>4, <1>5, <1>6, <1>7, <1>8, <1>9 DEF Step

(* A close command that returns leaves the plan closed in the file and by  *)
(* its marker, whatever an earlier close that died had written.            *)
THEOREM ClosesAreComplete == Spec => CloseReturnsClosed
  <1>1. Init => SeederInv
    BY DEF Init, SeederInv
  <1>2. StoreInv /\ SeederInv /\ [Next]_vars => SeederInv'
    <2> SUFFICES ASSUME StoreInv, SeederInv, [Next]_vars, NEW p \in Procs, pc'[p] = "seeded"
                 PROVE  req'[p].op = "resync"
      BY DEF SeederInv
    <2> USE DEF StoreInv, TypeOK
    <2>1. CASE pc[p] = "seeded" /\ req'[p] = req[p]
      BY <2>1 DEF SeederInv
    <2>2. CASE Step(p)
      BY <2>2 DEF SeederInv, Step, Acquire, WriteStatus, Render, Emit, Refuse, RefuseRollback,
                  RefuseOverflow, CloseAgain, WriteLifecycle, WriteMarker, AuditClosed, WriteSeeds,
                  EmitResync, AdvisoryRow, WriteRetries, Return, Forget, Goto, At
    <2>3. ASSUME NEW q \in Procs, Step(q), q # p PROVE pc[p] = "seeded" /\ req'[p] = req[p]
      BY <2>3, StepAlone
    <2>4. ASSUME NEW q \in Procs, Crash(q) PROVE pc[p] = "seeded" /\ req'[p] = req[p]
      BY <2>4, CrashShape
    <2>5. CASE ~ \E q \in Procs : Step(q) \/ Crash(q)
      BY <2>1, <2>5, OtherSteps
    <2>6. QED
      BY <2>1, <2>2, <2>3, <2>4, <2>5
  <1>3. StoreInv /\ SeederInv /\ [Next]_vars =>
          [\A p \in Procs :
             /\ pc[p] # "idle" /\ pc'[p] = "idle" /\ crashes' = crashes
             /\ ClosesPlan(p)
             => marker' /\ file'.lifecycle = "closed"]_vars
    <2> SUFFICES ASSUME StoreInv, SeederInv, [Next]_vars, NEW p \in Procs,
                        pc[p] # "idle", pc'[p] = "idle", crashes' = crashes, ClosesPlan(p)
                 PROVE  marker' /\ file'.lifecycle = "closed"
      OBVIOUS
    <2>1. marker /\ UNCHANGED <<marker, file>>
      BY CloserReturns
    <2>2. QED
      BY <2>1 DEF StoreInv, CloserInv
  <1>4. QED
    BY <1>1, <1>2, <1>3, StoreInvariant, PTL DEF Spec, CloseReturnsClosed

-----------------------------------------------------------------------------
(* The store implements TaskBoard *)

Told(l) == [t \in Tasks |-> Replayed(l, t)]

(* A row tells the log the status of its own task, and a row of the plan   *)
(* tells it nothing.                                                       *)
LEMMA StepTold ==
  ASSUME StoreInv, NEW p \in Procs, Step(p)
  PROVE  \/ Told(log)' = Told(log)
         \/ \E t \in Tasks : /\ Told(log)' = [Told(log) EXCEPT ![t] = file.status[t]]
                             /\ file.status[t] # "absent"
                             /\ UNCHANGED file
  <1> USE DEF StoreInv, TypeOK
  <1>1. \A t \in Tasks : HasLast(log, t)
    BY DEF HistoryInv, HasLast
  <1>2. CASE log' = log
    BY <1>2 DEF Told, Replayed, Rows
  <1>3. CASE \E r \in Row : log' = Append(log, r)
    <2>1. PICK r \in Row : /\ log' = Append(log, r)
                           /\ r.task \in Tasks => /\ r.to = Effective(file', r.task)
                                                  /\ file.status[r.task] # "absent"
                                                  /\ UNCHANGED file
      BY <1>3, StepLog
    <2>2. \A t \in Tasks : Replayed(log', t) = IF r.task = t THEN r.to ELSE Replayed(log, t)
      BY <1>1, <2>1, ReplayAppend
    <2>3. CASE r.task \in Tasks
      <3>1. r.to = file.status[r.task]
        BY <2>1, <2>3 DEF Effective
      <3>2. Told(log)' = [Told(log) EXCEPT ![r.task] = file.status[r.task]]
        BY <2>2, <2>3, <3>1 DEF Told
      <3>3. QED
        BY <2>1, <2>3, <3>2
    <2>4. CASE r.task \notin Tasks
      BY <2>2, <2>4 DEF Told
    <2>5. QED
      BY <2>3, <2>4
  <1>4. QED
    BY <1>2, <1>3, StepLog

(* Each step of a command is an operation of the board, or none.           *)
LEMMA StepImplements ==
  ASSUME StoreInv, NEW p \in Procs, Step(p)
  PROVE  [Board!Next]_(Board!bvars)
  <1> USE DEF StoreInv, TypeOK, At, Goto, disk
  <1>1. pc[p] = "locked" => view[p] = file /\ file \in File
    BY DEF FlockInv
  <1>2. Told(log) = [t \in Tasks |-> Replayed(log, t)]
        /\ Told(log)' = [t \in Tasks |-> Replayed(log, t)]'
    BY DEF Told
  <1>3. UNCHANGED log => Told(log)' = Told(log)
    BY DEF Told, Replayed, Rows
  <1>4. CASE Acquire(p) \/ Refuse(p) \/ CloseAgain(p)
    <2>1. UNCHANGED <<file, marker, log, md>>
      BY <1>4 DEF Acquire, Refuse, CloseAgain
    <2>2. QED
      BY <1>2, <1>3, <2>1 DEF Board!bvars
  <1>5. CASE WriteStatus(p)
    <2>1. req[p].task \in Tasks /\ Target(req[p]) \in SevenStatus
      BY <1>5, RequestShape DEF WriteStatus, Allowed
    <2>2. /\ UNCHANGED <<marker, log, md>>
          /\ file' = [file EXCEPT !.status[req[p].task] = Target(req[p]),
                                  !.history = Revised(file, req[p])]
          /\ ~HistoryExhausted(file, req[p])
      BY <1>1, <1>5 DEF WriteStatus, Allowed
    <2>3. /\ file'.status = [file.status EXCEPT ![req[p].task] = Target(req[p])]
          /\ file'.history = Revised(file, req[p])
          /\ file'.lifecycle = file.lifecycle /\ file'.retries = file.retries
      BY <1>1, <1>5, <2>2 DEF WriteStatus, File
    <2>4. CASE IsRevision(req[p])
      <3>1. Target(req[p]) = "wip"
        BY <2>4 DEF IsRevision, Target, Canonical
      <3>2. file.history[req[p].task] <= HistoryCap
        BY <1>1, <1>5, <2>1, <2>2, <2>4, StoreAssumption DEF HistoryExhausted, WriteStatus, File
      <3>3. file'.history = [file.history EXCEPT ![req[p].task] = @ + 1]
        BY <2>3, <2>4 DEF Revised
      <3>4. Board!Revise(req[p].task)
        BY <1>2, <1>3, <2>2, <2>3, <3>1, <3>2, <3>3 DEF Board!Revise
      <3>5. QED
        BY <2>1, <3>4 DEF Board!Next
    <2>5. CASE ~IsRevision(req[p])
      <3>1. file'.history = file.history
        BY <2>3, <2>5 DEF Revised
      <3>2. Board!Move(req[p].task, Target(req[p]))
        BY <1>2, <1>3, <2>2, <2>3, <3>1 DEF Board!Move
      <3>3. QED
        BY <2>1, <3>2 DEF Board!Next
    <2>6. QED
      BY <2>4, <2>5
  <1>6. CASE Render(p)
    <2>1. UNCHANGED <<file, marker>> /\ pc[p] = "written" /\ (md' = file.status \/ UNCHANGED md)
      BY <1>6 DEF Render
    <2>2. Told(log)' = Told(log)
      <3>1. PICK e \in {"rendered", "render_failed"} : log' = Append(log, PlanRow(e))
        BY <1>6 DEF Render
      <3>2. PlanRow(e) \in Row /\ \A t \in Tasks : PlanRow(e).task # t
        BY RowTypes, StoreAssumption DEF PlanRow, TaskRow, Event
      <3>3. \A t \in Tasks : Replayed(log', t) = Replayed(log, t)
        BY <3>1, <3>2, ReplayAppend DEF HistoryInv, HasLast
      <3>4. QED
        BY <3>3 DEF Told
    <2>3. Board!Show \/ UNCHANGED Board!bvars
      BY <1>2, <2>1, <2>2 DEF Board!Show, Board!bvars, Board!board
    <2>4. QED
      BY <2>3 DEF Board!Next
  <1>7. CASE Emit(p) \/ RefuseRollback(p) \/ RefuseOverflow(p) \/ AuditClosed(p) \/ EmitResync(p)
    <2>1. UNCHANGED <<file, marker, md>>
      BY <1>7 DEF Emit, RefuseRollback, RefuseOverflow, AuditClosed, EmitResync, AdvisoryRow
    <2>2. CASE Told(log)' = Told(log)
      BY <1>2, <2>1, <2>2 DEF Board!bvars
    <2>3. CASE \E t \in Tasks : /\ Told(log)' = [Told(log) EXCEPT ![t] = file.status[t]]
                                /\ file.status[t] # "absent"
      <3>1. PICK t \in Tasks : /\ Told(log)' = [Told(log) EXCEPT ![t] = file.status[t]]
                               /\ file.status[t] # "absent"
        BY <2>3
      <3>2. Board!Tell(t)
        BY <1>2, <2>1, <3>1 DEF Board!Tell, Board!board
      <3>3. QED
        BY <3>2 DEF Board!Next
    <2>4. QED
      BY <2>2, <2>3, StepTold
  <1>8. CASE WriteLifecycle(p)
    <2>1. /\ ~marker /\ UNCHANGED <<marker, log, md>> /\ file' = [file EXCEPT !.lifecycle = "closed"]
          /\ file \in File
      BY <1>1, <1>8 DEF WriteLifecycle
    <2>2. Board!Close
      BY <1>2, <1>3, <2>1 DEF Board!Close, File
    <2>3. QED
      BY <2>2 DEF Board!Next
  <1>9. CASE WriteMarker(p)
    <2>1. marker' = TRUE /\ UNCHANGED <<file, log, md>> /\ file.lifecycle = "closed"
      BY <1>9 DEF WriteMarker, CloserInv
    <2>2. Board!Seal
      BY <1>2, <1>3, <2>1 DEF Board!Seal, Board!board
    <2>3. QED
      BY <2>2 DEF Board!Next
  <1>10. CASE WriteSeeds(p)
    <2>1. /\ UNCHANGED <<marker, log, md>> /\ file \in File
          /\ file' = [file EXCEPT !.status = Seeded(file, req[p].seeds)]
          /\ req[p].seeds \in SUBSET Tasks
      BY <1>1, <1>10, SeedsShape DEF WriteSeeds
    <2>2. Board!Seed(req[p].seeds)
      BY <1>2, <1>3, <2>1 DEF Board!Seed, File, Seeded
    <2>3. QED
      BY <2>1, <2>2 DEF Board!Next
  <1>11. CASE WriteRetries(p)
    <2>1. UNCHANGED <<marker, log, md>> /\ file \in File
      BY <1>1, <1>11 DEF WriteRetries
    <2>2. file' = [file EXCEPT !.retries = file.retries + 1] \/ file' = [file EXCEPT !.retries = 0]
      BY <1>1, <1>11 DEF WriteRetries
    <2>3. Board!Count
      BY <1>2, <1>3, <2>1, <2>2 DEF Board!Count, File
    <2>4. QED
      BY <2>3 DEF Board!Next
  <1>12. QED
    BY <1>4, <1>5, <1>6, <1>7, <1>8, <1>9, <1>10, <1>11 DEF Step

(* The store implements the board of tasks: no interleaving, stale copy or *)
(* crash makes the files do what TaskBoard does not allow.                 *)
THEOREM StoreImplementsTaskBoard == Spec => ImplementsTaskBoard
  <1>1. Init => Board!Init
    <2> SUFFICES ASSUME Init PROVE Board!Init
      OBVIOUS
    <2>1. \A t \in Tasks : Rows(log, t) = {}
      BY DEF Init, Rows
    <2>2. [t \in Tasks |-> Replayed(log, t)] = file.status
      BY <2>1 DEF Init, Replayed, EmptyFile
    <2>3. QED
      BY <2>2 DEF Init, Board!Init, EmptyFile
  <1>2. StoreInv /\ [Next]_vars => [Board!Next]_(Board!bvars)
    <2> SUFFICES ASSUME StoreInv, [Next]_vars
                 PROVE  [Board!Next]_(Board!bvars)
      OBVIOUS
    <2>1. CASE UNCHANGED disk
      BY <2>1 DEF disk, Board!bvars, Replayed, Rows
    <2>2. CASE \E p \in Procs : Step(p)
      BY <2>2, StepImplements
    <2>3. QED
      BY <2>1, <2>2, DiskChanges
  <1>3. QED
    BY <1>1, <1>2, StoreInvariant, PTL DEF Spec, Board!Spec, ImplementsTaskBoard
=============================================================================
