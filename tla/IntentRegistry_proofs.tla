----------------------- MODULE IntentRegistry_proofs -----------------------
(***************************************************************************)
(* Proofs about IntentRegistry, for every set of sessions, of processes    *)
(* and of doctors, and every number of outages and edits.                  *)
(***************************************************************************)
EXTENDS IntentRegistry, TLAPS

(***************************************************************************)
(* What a process is at, by where it stands.                               *)
(***************************************************************************)
Registering(p, s) == At(p, "register") /\ job[p].sid = s
Marks(p, edit, s) == job[p].pc \in {"mark", "replace"} /\ job[p].sid = s /\ job[p].edit = edit
Registrar(p, s) == Registering(p, s) \/ Marks(p, "pending", s) \/ Marks(p, "blocked", s)
Barred(p, s) == Registering(p, s) \/ Marks(p, "blocked", s)
Closing(p, s) == At(p, "edit_db") /\ job[p].sid = s /\ job[p].edit = "close"

(* What a command or a hook carries, and what the doctor carries, from one *)
(* step to the next: ControlInv says so of every process.                  *)
Sweeping == {"sweep", "closing", "edit", "edit_db", "sync"}

ControlOf(j) ==
    /\ j.pc \in {"idle", "register", "mark", "replace", "edit", "edit_db", "pivot_db", "pivot"}
    /\ j.pc # "idle" => j.sid \in Sessions
    /\ j.pc = "register" => j.want \in Claims
    /\ j.pc = "mark" => j.edit \in {"pending", "blocked"}
    /\ j.pc = "replace" => j.edit \in {"pending", "blocked", "pivot"}
    /\ j.pc \in {"edit", "edit_db"} => j.edit \in {"close", "paths"}
    /\ j.pc \in {"pivot_db", "pivot"} => j.edit = "pivot"
    /\ j.edit \in {"paths", "pivot"} => j.want \in Claims

SweepOf(j) ==
    /\ j.pc \in Sweeping \cup {"idle"}
    /\ j.pc \in {"edit", "edit_db"} => j.sid \in Sessions /\ j.edit = "close"
    /\ j.pc \in Sweeping \ {"sweep"} => backend = "mysql"
    /\ j.pc = "sync" => j.todo \subseteq Pending(j.mem)

ControlInv == /\ \A p \in Procs : ControlOf(job[p])
              /\ \A d \in Doctors : SweepOf(job[d])

(* The file and every copy of it a process still holds.  A session has one *)
(* process at most that may yet mark its row; while a collision may yet    *)
(* halt it, the table has not got it and no copy is pending; and once a    *)
(* copy says halted, no copy lets the doctor insert it.                    *)
Copies == {rows} \cup UNION {{job[p].seen, job[p].base, job[p].mem} : p \in Procs \cup Doctors}
Marked(f, s) == f[s] # NoRow /\ f[s].pending
Halted(f, s) == f[s] # NoRow /\ f[s].blocked

HaltOf(s) ==
    /\ \A p, q \in Procs : Registrar(p, s) /\ Registrar(q, s) => p = q
    /\ s \notin born => \A f \in Copies : f[s] = NoRow
    /\ \A p \in Procs : Registrar(p, s) => s \in born /\ \A f \in Copies : ~Halted(f, s)
    /\ \A p \in Procs : Barred(p, s) => table[s] = NoRow /\ \A f \in Copies : ~Marked(f, s)
    /\ \A f \in Copies : Halted(f, s) =>
          table[s] = NoRow /\ \A g \in Copies : Marked(g, s) => Halted(g, s)
HaltInv == \A s \in Sessions : HaltOf(s)

(* What the doctor has made of the file it read at the start of its sweep. *)
(* It takes a mark off a row only after it has inserted it.                *)
MemOf(j) == \A s \in Sessions :
    /\ j.base[s] = NoRow <=> j.mem[s] = NoRow
    /\ j.base[s] # NoRow =>
         /\ j.mem[s].blocked = j.base[s].blocked
         /\ j.mem[s].open = (j.base[s].open /\ ~j.base[s].blocked)
         /\ j.mem[s].pending => j.base[s].pending
         /\ j.base[s].pending /\ ~j.base[s].blocked /\ ~j.mem[s].pending => table[s] # NoRow
MemInv == \A d \in Doctors : job[d].pc \in Sweeping => MemOf(job[d])

(* The doctor has inserted as open a session that has been closed in the   *)
(* file since it read it: when it settles it replaces rows it had not read.*)
Behind(d, s) == LET j == job[d] IN
    /\ At(d, "sync") /\ j.base[s] # NoRow
    /\ j.base[s].pending /\ ~j.mem[s].pending
    /\ j.base[s].open /\ ~rows[s].open

(* Only sessions that register or a hook has created are edited.           *)
Known(s) == s \in born \/ table[s] # NoRow
KnownInv == \A p \in Procs \cup Doctors :
    /\ job[p].pc \in {"edit", "edit_db"} => Known(job[p].sid)
    /\ p \in Doctors /\ job[p].pc \in {"closing", "edit", "edit_db"} =>
          \A s \in job[p].todo : Known(s)

(* How file and table may differ on a session that register has written,   *)
(* and who is about to make them agree: the registrar, a process between   *)
(* the close in the file and the close in the table, or the doctor.        *)
AgreeOf(s) ==
    /\ rows[s] # NoRow
    /\ \A d \in Doctors : ~At(d, "idle") /\ ClosedIn(job[d].base, s) => ~rows[s].open
    /\ s \notin apart =>
         /\ \A p \in Procs \cup Doctors : Closing(p, s) => ~rows[s].open
         /\ \A p \in Procs : Registering(p, s) =>
              rows[s].open \/ \E q \in Procs \cup Doctors : Closing(q, s)
         /\ table[s] = NoRow /\ rows[s].open =>
              rows[s].pending \/ \E p \in Procs : Registrar(p, s)
         /\ table[s] # NoRow =>
              \/ rows[s].open = table[s].open
              \/ \E p \in Procs \cup Doctors : Closing(p, s)
              \/ \E d \in Doctors : Behind(d, s)
AgreeInv == ~stale => \A s \in born : AgreeOf(s)

(* Of two open sessions that were checked the second has passed the first,  *)
(* and who has passed another one's claim would not find it.               *)
Checked(s) == OpenIn(table, s) /\ s \notin unchecked
PassedInv == \A s, t \in Sessions : s # t /\ Checked(s) /\ Checked(t) =>
    /\ <<s, t>> \in passed \/ <<t, s>> \in passed
    /\ <<s, t>> \in passed => t \notin Colliding(s, table[s].claim)

IntentInv == /\ TypeOK /\ ControlInv /\ KnownInv /\ HaltInv /\ MemInv
             /\ PassedInv /\ AgreeInv

-----------------------------------------------------------------------------
(* A job that fits the process it is given to.                             *)
Fits(p, j) == j \in Job /\ (p \in Procs => ControlOf(j)) /\ (p \in Doctors => SweepOf(j))

LEMMA EditedTyped ==
    ASSUME NEW f \in Rows, NEW s \in Sessions, NEW c \in Claims \cup {NoClaim},
           NEW edit \in {"close", "paths", "pivot", "pending", "blocked"},
           edit \in {"paths", "pivot"} => c \in Claims
    PROVE  Edited(f, s, edit, c) \in Rows
  <1>1. CASE f[s] = NoRow
    BY <1>1 DEF Edited
  <1>2. CASE f[s] # NoRow
    <2>1. f[s] \in LocalRow
      BY <1>2 DEF Rows
    <2>2. /\ [f[s] EXCEPT !.open = FALSE] \in LocalRow /\ [f[s] EXCEPT !.pending = TRUE] \in LocalRow
          /\ [f[s] EXCEPT !.pending = TRUE, !.blocked = TRUE] \in LocalRow
          /\ c \in Claims => [f[s] EXCEPT !.claim = c] \in LocalRow
      BY <2>1 DEF LocalRow
    <2>3. \A r \in LocalRow : [f EXCEPT ![s] = r] \in Rows
      BY DEF Rows
    <2>4. CASE edit = "close"
      BY <1>2, <2>2, <2>3, <2>4 DEF Edited
    <2>5. CASE edit \in {"paths", "pivot"}
      BY <1>2, <2>2, <2>3, <2>5 DEF Edited
    <2>6. CASE edit = "pending"
      BY <1>2, <2>2, <2>3, <2>6 DEF Edited
    <2>7. CASE edit = "blocked"
      BY <1>2, <2>2, <2>3, <2>7 DEF Edited, Rows
    <2>8. QED
      BY <2>4, <2>5, <2>6, <2>7
  <1>3. QED
    BY <1>1, <1>2

LEMMA IdleTyped == Idle \in Job /\ NoRows \in Rows
  BY DEF Idle, Job, Rows, NoRows

LEMMA IdleFits == \A p : Fits(p, Idle)
  BY IdleTyped DEF Idle, Fits, ControlOf, SweepOf, Sweeping

LEMMA ReturnFits ==
    ASSUME NEW p \in Procs \cup Doctors, job[p] \in Job, ControlInv,
           job[p].pc \in {"edit_db", "pivot_db"}
    PROVE  Fits(p, Return(p))
  <1>1. CASE p \in Doctors
    <2> DEFINE j == [job[p] EXCEPT !.pc = "closing", !.sid = NoSession, !.edit = "none",
                                   !.seen = NoRows]
    <2>1. Return(p) = j
      BY <1>1 DEF Return
    <2>2. Fits(p, j)
      BY <1>1, IdleTyped, RegistryAssumption DEF Fits, Job, ControlInv, SweepOf, Sweeping
    <2>3. QED
      BY <2>1, <2>2
  <1>2. CASE p \notin Doctors
    BY <1>2, IdleFits DEF Return
  <1>3. QED
    BY <1>1, <1>2

(* What the doctor makes of its copy.                                      *)
LEMMA CopyTyped ==
    ASSUME NEW f \in Rows
    PROVE  /\ Unblocked(f) \in Rows
           /\ \A s \in Sessions : f[s] # NoRow => [f EXCEPT ![s].pending = FALSE] \in Rows
  BY RegistryAssumption DEF Unblocked, Rows, LocalRow

LEMMA JobPut ==
    ASSUME job \in [Procs \cup Doctors -> Job], ControlInv, backend' = backend,
           NEW p \in Procs \cup Doctors, NEW j, Fits(p, j), job' = [job EXCEPT ![p] = j]
    PROVE  job' \in [Procs \cup Doctors -> Job] /\ ControlInv'
  BY DEF Fits, ControlInv, ControlOf, SweepOf

LEMMA Limits == /\ MaxFaults \in Nat /\ MaxEdits \in Nat /\ Procs \cap Doctors = {}
                /\ NoRow \notin LocalRow \cup TableRow /\ HookSessions \subseteq Sessions
                /\ Unscoped \in Claims /\ \A s \in Sessions : Wants[s] \subseteq Claims
  BY RegistryAssumption

LEMMA Held ==
    ASSUME TypeOK, ControlInv
    PROVE  /\ \A p \in Procs \cup Doctors : job[p] \in Job
           /\ \A p \in Procs : ControlOf(job[p])
           /\ \A d \in Doctors : SweepOf(job[d])
  BY DEF TypeOK, ControlInv

LEMMA PassingTyped ==
    ASSUME passed \subseteq Sessions \X Sessions, NEW s \in Sessions
    PROVE  Passing(s) \subseteq Sessions \X Sessions
  BY DEF Passing

LEMMA ShapeStep == TypeOK /\ ControlInv /\ [Next]_vars => TypeOK' /\ ControlInv'
  <1> SUFFICES ASSUME TypeOK, ControlInv, [Next]_vars PROVE TypeOK' /\ ControlInv'
    OBVIOUS
  <1> USE DEF TypeOK
  <1>1. ASSUME NEW p \in Procs, NEW s \in Sessions, NEW c \in Wants[s], NEW fast \in BOOLEAN, RegisterAppends(p, s, c, fast)
        PROVE  TypeOK' /\ ControlInv'
    <2> DEFINE j == [job[p] EXCEPT !.pc = IF fast THEN "mark" ELSE "register", !.sid = s,
                         !.want = c, !.edit = IF fast THEN "pending" ELSE "none"]
    <2>1. job' = [job EXCEPT ![p] = j]
      BY <1>1 DEF RegisterAppends
    <2>2. Fits(p, j)
      <3>1. job[p] \in Job
        BY Held
      <3>2. c \in Claims
        BY Limits
      <3>3. j \in Job
        <4>1. CASE fast
          BY <3>1, <3>2, <4>1 DEF Job
        <4>2. CASE ~fast
          BY <3>1, <3>2, <4>2 DEF Job
        <4>3. QED
          BY <4>1, <4>2
      <3>4. ControlOf(j)
        BY <1>1, Held, Limits DEF RegisterAppends, At, Job, ControlOf
      <3>5. QED
        BY <3>3, <3>4, Limits DEF Fits
    <2> HIDE DEF j
    <2>3. rows' \in Rows
      BY <1>1, Limits DEF RegisterAppends, Rows, LocalRow
    <2>4. QED
      BY <1>1, <2>1, <2>2, JobPut, <2>3 DEF RegisterAppends, Job, bounds, ghosts
  <1>2. ASSUME NEW p \in Procs, NEW s \in Sessions, NEW edit \in {"close", "paths"}, NEW c \in Claims \cup {NoClaim},
                edit = "paths" => c \in Claims, CommandReads(p, s, edit, c)
        PROVE  TypeOK' /\ ControlInv'
    <2> DEFINE j == [job[p] EXCEPT !.pc = "edit", !.sid = s, !.want = c, !.edit = edit,
                         !.seen = rows]
    <2>1. job' = [job EXCEPT ![p] = j]
      BY <1>2 DEF CommandReads
    <2>2. Fits(p, j)
      <3>1. job[p] \in Job
        BY Held
      <3>2. j \in Job
        BY <3>1 DEF Job
      <3>3. ControlOf(j)
        BY <1>2, Held DEF CommandReads, At, Job, ControlOf
      <3>4. QED
        BY <3>2, <3>3, Limits DEF Fits
    <2> HIDE DEF j
    <2>3. edits' \in 0..MaxEdits
      BY <1>2, Limits DEF CommandReads
    <2>4. QED
      BY <1>2, <2>1, <2>2, JobPut, <2>3 DEF CommandReads, Job, bounds, ghosts
  <1>3. ASSUME NEW p \in Procs, NEW s \in Sessions, NEW c \in Wants[s], Pivot(p, s, c)
        PROVE  TypeOK' /\ ControlInv'
    <2> DEFINE j == [job[p] EXCEPT !.pc = "pivot_db", !.sid = s, !.want = c, !.edit = "pivot"]
    <2>1. job' = [job EXCEPT ![p] = j]
      BY <1>3 DEF Pivot
    <2>2. Fits(p, j)
      <3>1. job[p] \in Job
        BY Held
      <3>2. c \in Claims
        BY Limits
      <3>3. j \in Job
        BY <3>1, <3>2 DEF Job
      <3>4. ControlOf(j)
        BY <1>3, Held, Limits DEF Pivot, At, Job, ControlOf
      <3>5. QED
        BY <3>3, <3>4, Limits DEF Fits
    <2> HIDE DEF j
    <2>3. edits' \in 0..MaxEdits
      BY <1>3, Limits DEF Pivot
    <2>4. QED
      BY <1>3, <2>1, <2>2, JobPut, <2>3 DEF Pivot, Job, bounds, ghosts
  <1>4. ASSUME NEW p \in Procs, RegisterInserts(p)
        PROVE  TypeOK' /\ ControlInv'
    <2>1. job' = [job EXCEPT ![p] = Idle]
      BY <1>4 DEF RegisterInserts
    <2>2. table' \in [Sessions -> TableRow \cup {NoRow}]
      BY <1>4 DEF RegisterInserts, TableRow, At, ControlInv, ControlOf, SweepOf, Sweeping
    <2>3. passed' \subseteq Sessions \X Sessions
      BY <1>4, Held, PassingTyped DEF RegisterInserts, At, ControlOf
    <2>4. QED
      BY <1>4, <2>1, JobPut, IdleFits, <2>2, <2>3 DEF RegisterInserts, Job, bounds, ghosts
  <1>5. ASSUME NEW p \in Procs, RegisterHalts(p)
        PROVE  TypeOK' /\ ControlInv'
    <2> DEFINE j == [job[p] EXCEPT !.pc = "mark", !.edit = "blocked"]
    <2>1. job' = [job EXCEPT ![p] = j]
      BY <1>5 DEF RegisterHalts
    <2>2. Fits(p, j)
      <3>1. job[p] \in Job
        BY Held
      <3>2. j \in Job
        BY <3>1 DEF Job
      <3>3. ControlOf(j)
        BY <1>5, Held DEF RegisterHalts, At, Job, ControlOf
      <3>4. QED
        BY <3>2, <3>3, Limits DEF Fits
    <2> HIDE DEF j
    <2>3. QED
      BY <1>5, <2>1, <2>2, JobPut DEF RegisterHalts, Job, bounds, ghosts
  <1>6. ASSUME NEW p \in Procs, RegisterProceeds(p)
        PROVE  TypeOK' /\ ControlInv'
    <2>1. job' = [job EXCEPT ![p] = Idle]
      BY <1>6 DEF RegisterProceeds
    <2>2. table' \in [Sessions -> TableRow \cup {NoRow}]
      BY <1>6 DEF RegisterProceeds, TableRow, At, ControlInv, ControlOf, SweepOf, Sweeping
    <2>3. unchecked' \subseteq Sessions
      BY <1>6 DEF RegisterProceeds, At, ControlInv, ControlOf, SweepOf, Sweeping
    <2>4. QED
      BY <1>6, <2>1, JobPut, IdleFits, <2>2, <2>3 DEF RegisterProceeds, Job, bounds, ghosts
  <1>7. ASSUME NEW p \in Procs, RegisterUnavailable(p)
        PROVE  TypeOK' /\ ControlInv'
    <2> DEFINE j == [job[p] EXCEPT !.pc = "mark", !.edit = "pending"]
    <2>1. job' = [job EXCEPT ![p] = j]
      BY <1>7 DEF RegisterUnavailable
    <2>2. Fits(p, j)
      <3>1. job[p] \in Job
        BY Held
      <3>2. j \in Job
        BY <3>1 DEF Job
      <3>3. ControlOf(j)
        BY <1>7, Held DEF RegisterUnavailable, At, Job, ControlOf
      <3>4. QED
        BY <3>2, <3>3, Limits DEF Fits
    <2> HIDE DEF j
    <2>3. faults' \in 0..MaxFaults
      BY <1>7, Limits DEF RegisterUnavailable, Unreachable
    <2>4. QED
      BY <1>7, <2>1, <2>2, JobPut, <2>3 DEF RegisterUnavailable, Unreachable, Job, bounds, ghosts
  <1>8. ASSUME NEW p \in Procs, MarkReads(p)
        PROVE  TypeOK' /\ ControlInv'
    <2> DEFINE j == [job[p] EXCEPT !.pc = "replace", !.seen = rows]
    <2>1. job' = [job EXCEPT ![p] = j]
      BY <1>8 DEF MarkReads
    <2>2. Fits(p, j)
      <3>1. job[p] \in Job
        BY Held
      <3>2. j \in Job
        BY <3>1 DEF Job
      <3>3. ControlOf(j)
        BY <1>8, Held DEF MarkReads, At, Job, ControlOf
      <3>4. QED
        BY <3>2, <3>3, Limits DEF Fits
    <2> HIDE DEF j
    <2>3. QED
      BY <1>8, <2>1, <2>2, JobPut DEF MarkReads, Job, bounds, ghosts
  <1>9. ASSUME NEW p \in Procs, MarkWrites(p)
        PROVE  TypeOK' /\ ControlInv'
    <2>1. job' = [job EXCEPT ![p] = Idle]
      BY <1>9 DEF MarkWrites
    <2>2. rows' \in Rows
      BY <1>9, EditedTyped DEF MarkWrites, FileReplaced, Job, At, ControlInv, ControlOf,
         SweepOf, Sweeping
    <2>3. stale' \in BOOLEAN
      BY <1>9 DEF MarkWrites, FileReplaced
    <2>4. QED
      BY <1>9, <2>1, JobPut, IdleFits, <2>2, <2>3 DEF MarkWrites, FileReplaced, Job, bounds, ghosts
  <1>10. ASSUME NEW p \in Procs, PivotRefused(p)
        PROVE  TypeOK' /\ ControlInv'
    <2> DEFINE j == Return(p)
    <2>1. job' = [job EXCEPT ![p] = j]
      BY <1>10 DEF PivotRefused, Done
    <2>2. Fits(p, j)
      BY <1>10, Held, ReturnFits DEF PivotRefused, At
    <2> HIDE DEF j
    <2>3. QED
      BY <1>10, <2>1, <2>2, JobPut DEF PivotRefused, Job, bounds, ghosts
  <1>11. ASSUME NEW p \in Procs, PivotMoves(p)
        PROVE  TypeOK' /\ ControlInv'
    <2> DEFINE j == [job[p] EXCEPT !.pc = "pivot"]
    <2>1. job' = [job EXCEPT ![p] = j]
      BY <1>11 DEF PivotMoves, Goto
    <2>2. Fits(p, j)
      <3>1. job[p] \in Job
        BY Held
      <3>2. j \in Job
        BY <3>1 DEF Job
      <3>3. ControlOf(j)
        BY <1>11, Held DEF PivotMoves, At, Job, ControlOf
      <3>4. QED
        BY <3>2, <3>3, Limits DEF Fits
    <2> HIDE DEF j
    <2>3. table' \in [Sessions -> TableRow \cup {NoRow}]
      BY <1>11 DEF PivotMoves, TableRow, At, ControlInv, ControlOf, SweepOf, Sweeping
    <2>4. unchecked' \subseteq Sessions
      BY <1>11 DEF PivotMoves, At, ControlInv, ControlOf, SweepOf, Sweeping
    <2>5. passed' \subseteq Sessions \X Sessions
      BY <1>11, Held, PassingTyped DEF PivotMoves, At, ControlOf
    <2>6. QED
      BY <1>11, <2>1, <2>2, JobPut, <2>3, <2>4, <2>5 DEF PivotMoves, Job, bounds, ghosts
  <1>12. ASSUME NEW p \in Procs, PivotUnavailable(p)
        PROVE  TypeOK' /\ ControlInv'
    <2> DEFINE j == [job[p] EXCEPT !.pc = "pivot"]
    <2>1. job' = [job EXCEPT ![p] = j]
      BY <1>12 DEF PivotUnavailable, Goto
    <2>2. Fits(p, j)
      <3>1. job[p] \in Job
        BY Held
      <3>2. j \in Job
        BY <3>1 DEF Job
      <3>3. ControlOf(j)
        BY <1>12, Held DEF PivotUnavailable, At, Job, ControlOf
      <3>4. QED
        BY <3>2, <3>3, Limits DEF Fits
    <2> HIDE DEF j
    <2>3. faults' \in 0..MaxFaults
      BY <1>12, Limits DEF PivotUnavailable, Unreachable
    <2>4. QED
      BY <1>12, <2>1, <2>2, JobPut, <2>3 DEF PivotUnavailable, Unreachable, Job, bounds, ghosts
  <1>13. ASSUME NEW p \in Procs, Dies(p)
        PROVE  TypeOK' /\ ControlInv'
    <2>1. job' = [job EXCEPT ![p] = Idle]
      BY <1>13 DEF Dies
    <2>2. faults' \in 0..MaxFaults
      BY <1>13, Limits DEF Dies
    <2>3. QED
      BY <1>13, <2>1, JobPut, IdleFits, <2>2 DEF Dies, Job, bounds, ghosts
  <1>14. ASSUME NEW p \in Procs \cup Doctors, EditWrites(p)
        PROVE  TypeOK' /\ ControlInv'
    <2> DEFINE j == [job[p] EXCEPT !.pc = "edit_db", !.seen = NoRows]
    <2>1. job' = [job EXCEPT ![p] = j]
      BY <1>14 DEF EditWrites
    <2>2. Fits(p, j)
      <3>1. j \in Job
        <4>1. job[p] \in Job
          BY Held
        <4>2. QED
          BY <4>1, IdleTyped DEF Job
      <3>2. CASE p \in Procs
        <4>1. ControlOf(j)
          BY <1>14, <3>2, Held DEF EditWrites, At, Job, ControlOf
        <4>2. QED
          BY <3>1, <3>2, <4>1, Limits DEF Fits
      <3>3. CASE p \in Doctors
        <4>1. SweepOf(j)
          BY <1>14, <3>3, Held DEF EditWrites, At, Job, SweepOf, Sweeping
        <4>2. QED
          BY <3>1, <3>3, <4>1, Limits DEF Fits
      <3>4. QED
        BY <3>2, <3>3
    <2> HIDE DEF j
    <2>3. rows' \in Rows
      BY <1>14, EditedTyped DEF EditWrites, FileReplaced, Job, At, ControlInv,
         ControlOf, SweepOf, Sweeping
    <2>4. stale' \in BOOLEAN
      BY <1>14 DEF EditWrites, FileReplaced
    <2>5. QED
      BY <1>14, <2>1, <2>2, JobPut, <2>3, <2>4 DEF EditWrites, FileReplaced, Job, bounds, ghosts
  <1>15. ASSUME NEW p \in Procs \cup Doctors, EditReachesTable(p)
        PROVE  TypeOK' /\ ControlInv'
    <2> DEFINE j == Return(p)
    <2>1. job' = [job EXCEPT ![p] = j]
      BY <1>15 DEF EditReachesTable, Done
    <2>2. Fits(p, j)
      BY <1>15, Held, ReturnFits DEF EditReachesTable, At
    <2> HIDE DEF j
    <2>3. table' \in [Sessions -> TableRow \cup {NoRow}]
      <3> DEFINE k == job[p]
      <3>1. /\ k.edit \in {"close", "paths"}
            /\ k.edit = "paths" => k.want \in Claims
        BY <1>15, Held DEF EditReachesTable, At, ControlOf, SweepOf, Sweeping
      <3>2. CASE ~OpenIn(table, k.sid)
        BY <1>15, <3>2 DEF EditReachesTable
      <3>3. CASE OpenIn(table, k.sid) /\ k.edit = "close"
        <4>1. table' = [table EXCEPT ![k.sid].open = FALSE] /\ table[k.sid] # NoRow
          BY <1>15, <3>3 DEF EditReachesTable, OpenIn
        <4>2. QED
          BY <4>1 DEF TableRow
      <3>4. CASE OpenIn(table, k.sid) /\ k.edit # "close"
        <4>1. /\ table' = [table EXCEPT ![k.sid].claim = k.want] /\ table[k.sid] # NoRow
              /\ k.want \in Claims
          BY <1>15, <3>1, <3>4 DEF EditReachesTable, OpenIn
        <4>2. QED
          BY <4>1 DEF TableRow
      <3>5. QED
        BY <3>2, <3>3, <3>4
    <2>4. unchecked' \subseteq Sessions /\ apart' \subseteq Sessions \cup {NoSession}
      BY <1>15 DEF EditReachesTable, At, ControlInv, ControlOf, SweepOf, Sweeping
    <2>5. QED
      BY <1>15, <2>1, <2>2, JobPut, <2>3, <2>4 DEF EditReachesTable, Job, bounds, ghosts
  <1>16. ASSUME NEW p \in Procs \cup Doctors, EditUnavailable(p)
        PROVE  TypeOK' /\ ControlInv'
    <2> DEFINE j == Return(p)
    <2>1. job' = [job EXCEPT ![p] = j]
      BY <1>16 DEF EditUnavailable, Done
    <2>2. Fits(p, j)
      BY <1>16, Held, ReturnFits DEF EditUnavailable, At
    <2> HIDE DEF j
    <2>3. faults' \in 0..MaxFaults
      BY <1>16, Limits DEF EditUnavailable, Unreachable
    <2>4. job[p].sid \in Sessions \cup {NoSession}
      BY Held DEF Job
    <2>5. apart' \subseteq Sessions \cup {NoSession}
      BY <1>16, <2>4 DEF EditUnavailable, TypeOK
    <2>6. QED
      BY <1>16, <2>1, <2>2, JobPut, <2>3, <2>5 DEF EditUnavailable, Unreachable, bounds, ghosts
  <1>17. ASSUME NEW p \in Procs \cup Doctors, CommandRaises(p)
        PROVE  TypeOK' /\ ControlInv'
    <2>1. job' = [job EXCEPT ![p] = Idle]
      BY <1>17 DEF CommandRaises
    <2>2. faults' \in 0..MaxFaults
      BY <1>17, Limits DEF CommandRaises, Unreachable
    <2>3. QED
      BY <1>17, <2>1, JobPut, IdleFits, <2>2 DEF CommandRaises, Unreachable, Caught,
         Job, bounds, ghosts
  <1>18. ASSUME NEW d \in Doctors, DoctorStarts(d)
        PROVE  TypeOK' /\ ControlInv'
    <2> DEFINE j == [job[d] EXCEPT !.pc = "sweep", !.base = rows, !.mem = Unblocked(rows)]
    <2>1. job' = [job EXCEPT ![d] = j]
      BY <1>18 DEF DoctorStarts
    <2>2. Fits(d, j)
      <3>1. job[d] \in Job
        BY Held
      <3>2. Unblocked(rows) \in Rows
        BY CopyTyped
      <3>3. j \in Job
        BY <3>1, <3>2 DEF Job
      <3>4. SweepOf(j)
        BY <1>18, Held DEF DoctorStarts, At, Job, SweepOf, Sweeping, Pending
      <3>5. QED
        BY <3>3, <3>4, Limits DEF Fits
    <2> HIDE DEF j
    <2>3. QED
      BY <1>18, <2>1, <2>2, JobPut DEF DoctorStarts, Job, bounds, ghosts
  <1>19. ASSUME NEW d \in Doctors, DoctorSweeps(d)
        PROVE  TypeOK' /\ ControlInv'
    <2>1. PICK met \in SUBSET Sessions :
              job' = [job EXCEPT ![d].pc = "closing", ![d].todo = met]
      BY <1>19 DEF DoctorSweeps
    <2> DEFINE j == [job[d] EXCEPT !.pc = "closing", !.todo = met]
    <2>2. job' = [job EXCEPT ![d] = j]
      BY <2>1
    <2>3. j \in Job /\ SweepOf(j)
      <3>1. job[d] \in Job /\ job[d].pc = "sweep" /\ backend = "mysql"
        BY <1>19, Held DEF DoctorSweeps, HasSchema, At
      <3>2. j \in Job
        BY <3>1 DEF Job
      <3>3. SweepOf(j)
        BY <3>1 DEF Job, SweepOf, Sweeping
      <3>4. QED
        BY <3>2, <3>3
    <2>4. Fits(d, j)
      BY <2>3, Limits DEF Fits
    <2> HIDE DEF j
    <2>5. QED
      BY <1>19, <2>2, <2>4, JobPut DEF DoctorSweeps, bounds, ghosts
  <1>20. ASSUME NEW d \in Doctors, DoctorUnavailable(d)
        PROVE  TypeOK' /\ ControlInv'
    <2> DEFINE j == [job[d] EXCEPT !.pc = "closing", !.todo = {}]
    <2>1. job' = [job EXCEPT ![d] = j]
      BY <1>20 DEF DoctorUnavailable
    <2>2. Fits(d, j)
      <3>1. job[d] \in Job
        BY Held
      <3>2. j \in Job
        BY <3>1 DEF Job
      <3>3. SweepOf(j)
        BY <1>20, Held DEF DoctorUnavailable, Caught, At, Job, SweepOf, Sweeping, Pending
      <3>4. QED
        BY <3>2, <3>3, Limits DEF Fits
    <2> HIDE DEF j
    <2>3. faults' \in 0..MaxFaults
      BY <1>20, Limits DEF DoctorUnavailable, Unreachable
    <2>4. QED
      BY <1>20, <2>1, <2>2, JobPut, <2>3 DEF DoctorUnavailable, Unreachable, Caught,
         Job, bounds, ghosts
  <1>21. ASSUME NEW d \in Doctors, DoctorRaises(d)
        PROVE  TypeOK' /\ ControlInv'
    <2>1. job' = [job EXCEPT ![d] = Idle]
      BY <1>21 DEF DoctorRaises
    <2>2. QED
      BY <1>21, <2>1, JobPut, IdleFits DEF DoctorRaises, Job, bounds, ghosts
  <1>22. ASSUME NEW d \in Doctors, NEW s \in Sessions, DoctorCompletes(d, s)
        PROVE  TypeOK' /\ ControlInv'
    <2> DEFINE j == [job[d] EXCEPT !.todo = @ \ {s}]
               k == [j EXCEPT !.pc = "edit", !.sid = s, !.edit = "close", !.seen = rows]
    <2>1. job' = [job EXCEPT ![d] = IF ClosedIn(rows, s) THEN j ELSE k]
      BY <1>22 DEF DoctorCompletes
    <2>2. j \in Job /\ k \in Job
      <3>1. job[d] \in Job
        BY Held
      <3>2. QED
        BY <3>1 DEF Job
    <2>3. SweepOf(j) /\ SweepOf(k)
      BY <1>22, Held DEF DoctorCompletes, At, Job, SweepOf, Sweeping
    <2>4. Fits(d, j) /\ Fits(d, k)
      BY <2>2, <2>3, Limits DEF Fits
    <2> HIDE DEF j, k
    <2>5. QED
      BY <1>22, <2>1, <2>4, JobPut DEF DoctorCompletes, bounds, ghosts
  <1>23. ASSUME NEW d \in Doctors, DoctorTurnsToPending(d)
        PROVE  TypeOK' /\ ControlInv'
    <2> DEFINE j == [job[d] EXCEPT !.pc = "sync", !.todo = Pending(job[d].mem)]
    <2>1. job' = [job EXCEPT ![d] = j]
      BY <1>23 DEF DoctorTurnsToPending
    <2>2. Fits(d, j)
      <3>1. job[d] \in Job
        BY Held
      <3>2. j \in Job
        BY <3>1 DEF Job, Pending
      <3>3. SweepOf(j)
        BY <1>23, Held DEF DoctorTurnsToPending, At, Job, SweepOf, Sweeping, Pending
      <3>4. QED
        BY <3>2, <3>3, Limits DEF Fits
    <2> HIDE DEF j
    <2>3. QED
      BY <1>23, <2>1, <2>2, JobPut DEF DoctorTurnsToPending, Job, bounds, ghosts
  <1>24. ASSUME NEW d \in Doctors, NEW s \in Sessions, DoctorSyncs(d, s)
        PROVE  TypeOK' /\ ControlInv'
    <2> DEFINE j == [job[d] EXCEPT !.todo = @ \ {s}, !.mem = [@ EXCEPT ![s].pending = FALSE]]
    <2>1. job' = [job EXCEPT ![d] = j]
      BY <1>24 DEF DoctorSyncs
    <2>2. Fits(d, j)
      <3>1. job[d] \in Job
        BY Held
      <3>2. [job[d].mem EXCEPT ![s].pending = FALSE] \in Rows
        <4>1. job[d].mem \in Rows /\ job[d].mem[s] # NoRow
          BY <1>24, <3>1, Held DEF DoctorSyncs, At, SweepOf, Pending, Job
        <4>2. QED
          BY <4>1, CopyTyped
      <3>3. j \in Job
        BY <3>1, <3>2 DEF Job
      <3>4. SweepOf(j)
        BY <1>24, Held DEF DoctorSyncs, At, Job, SweepOf, Sweeping, Pending, Rows
      <3>5. QED
        BY <3>3, <3>4, Limits DEF Fits
    <2> HIDE DEF j
    <2>3. table' \in [Sessions -> TableRow \cup {NoRow}]
      BY <1>24, Limits DEF DoctorSyncs, TableRow, LocalRow, Rows, Job, Pending, At,
         ControlInv, ControlOf, SweepOf, Sweeping
    <2>4. unchecked' \subseteq Sessions
      BY <1>24 DEF DoctorSyncs
    <2>5. QED
      BY <1>24, <2>1, <2>2, JobPut, <2>3, <2>4 DEF DoctorSyncs, Job, bounds, ghosts
  <1>25. ASSUME NEW d \in Doctors, NEW s \in Sessions, DoctorSyncUnavailable(d, s)
        PROVE  TypeOK' /\ ControlInv'
    <2> DEFINE j == [job[d] EXCEPT !.todo = @ \ {s}]
    <2>1. job' = [job EXCEPT ![d] = j]
      BY <1>25 DEF DoctorSyncUnavailable
    <2>2. Fits(d, j)
      <3>1. job[d] \in Job
        BY Held
      <3>2. j \in Job
        BY <3>1 DEF Job
      <3>3. SweepOf(j)
        BY <1>25, Held DEF DoctorSyncUnavailable, At, Job, SweepOf, Sweeping, Pending
      <3>4. QED
        BY <3>2, <3>3, Limits DEF Fits
    <2> HIDE DEF j
    <2>3. faults' \in 0..MaxFaults
      BY <1>25, Limits DEF DoctorSyncUnavailable, Unreachable
    <2>4. QED
      BY <1>25, <2>1, <2>2, JobPut, <2>3 DEF DoctorSyncUnavailable, Unreachable, Job, bounds, ghosts
  <1>26. ASSUME NEW d \in Doctors, DoctorSettles(d)
        PROVE  TypeOK' /\ ControlInv'
    <2>1. job' = [job EXCEPT ![d] = Idle]
      BY <1>26 DEF DoctorSettles
    <2>2. rows' \in Rows /\ stale' \in BOOLEAN
      <3>1. job[d].mem \in Rows
        BY Held DEF Job
      <3>2. CASE job[d].mem # job[d].base
        BY <1>26, <3>1, <3>2 DEF DoctorSettles
      <3>3. CASE job[d].mem = job[d].base
        BY <1>26, <3>3 DEF DoctorSettles
      <3>4. QED
        BY <3>2, <3>3
    <2>3. QED
      BY <1>26, <2>1, JobPut, IdleFits, <2>2 DEF DoctorSettles, Job, bounds, ghosts
  <1>27. ASSUME NEW s \in HookSessions, HookEnsuresRow(s)
        PROVE  TypeOK' /\ ControlInv'
    BY <1>27, Limits DEF HookEnsuresRow, OpenIn, TableRow, bounds, ghosts, ControlInv, SweepOf
  <1>28. ASSUME HookEndsSession
        PROVE  TypeOK' /\ ControlInv'
    BY <1>28, Limits DEF HookEndsSession, HookHasRow, OpenIn, TableRow, bounds, ghosts,
       ControlInv, SweepOf
  <1>29. ASSUME UNCHANGED vars PROVE TypeOK' /\ ControlInv'
    BY <1>29 DEF vars, bounds, ghosts, ControlInv, SweepOf
  <1>30. QED
    <2>1. ASSUME NEW p \in Procs, Command(p) PROVE TypeOK' /\ ControlInv'
      BY <2>1, <1>1, <1>2, <1>3, RegistryAssumption DEF Command, Update, Complete
    <2>2. ASSUME NEW p \in Procs, Step(p) PROVE TypeOK' /\ ControlInv'
      BY <2>2, <1>4, <1>5, <1>6, <1>7, <1>8, <1>9, <1>10, <1>11, <1>12, <1>14, <1>15,
         <1>16, <1>17 DEF Step
    <2>3. ASSUME NEW d \in Doctors, DoctorStep(d) PROVE TypeOK' /\ ControlInv'
      BY <2>3, <1>19, <1>20, <1>21, <1>22, <1>23, <1>24, <1>25, <1>26, <1>14, <1>15,
         <1>16, <1>17 DEF DoctorStep
    <2>4. QED
      BY <2>1, <2>2, <2>3, <1>13, <1>18, <1>27, <1>28, <1>29 DEF Next

-----------------------------------------------------------------------------
(* Which steps change the table, or what is known to have been checked.    *)
LEMMA TableWriters ==
    ASSUME [Next]_vars
    PROVE  \/ UNCHANGED <<table, unchecked, passed, backend>>
           \/ \E p \in Procs : RegisterInserts(p) \/ RegisterProceeds(p) \/ PivotMoves(p)
           \/ \E p \in Procs \cup Doctors : EditReachesTable(p)
           \/ \E d \in Doctors, s \in Sessions : DoctorSyncs(d, s)
           \/ \E s \in HookSessions : HookEnsuresRow(s)
           \/ HookEndsSession
  <1> DEFINE Same == UNCHANGED <<table, unchecked, passed, backend>>
  <1>1. ASSUME NEW p \in Procs, Command(p) PROVE Same
    <2>1. ASSUME NEW s, NEW c, NEW fast, RegisterAppends(p, s, c, fast) PROVE Same
      BY <2>1 DEF RegisterAppends, bounds
    <2>2. ASSUME NEW s, NEW c, NEW edit, CommandReads(p, s, edit, c) PROVE Same
      BY <2>2 DEF CommandReads, bounds, ghosts
    <2>3. ASSUME NEW s, NEW c, Pivot(p, s, c) PROVE Same
      BY <2>3 DEF Pivot, bounds, ghosts
    <2>4. QED
      BY <1>1, <2>1, <2>2, <2>3 DEF Command, Complete, Update
  <1>2. ASSUME NEW p \in Procs, Step(p)
        PROVE  Same \/ RegisterInserts(p) \/ RegisterProceeds(p) \/ PivotMoves(p) \/ EditReachesTable(p)
    BY <1>2 DEF Step, RegisterHalts, RegisterUnavailable, MarkReads, MarkWrites,
       EditWrites, EditUnavailable, PivotRefused, PivotUnavailable, CommandRaises,
       bounds, ghosts
  <1>3. ASSUME NEW d \in Doctors, DoctorStep(d)
        PROVE  Same \/ EditReachesTable(d) \/ \E s \in Sessions : DoctorSyncs(d, s)
    BY <1>3 DEF DoctorStep, DoctorSweeps, DoctorUnavailable, DoctorRaises,
       DoctorTurnsToPending, DoctorSettles, DoctorCompletes, DoctorSyncUnavailable,
       EditWrites, EditUnavailable, CommandRaises, bounds, ghosts
  <1>4. ASSUME NEW d \in Doctors, DoctorStarts(d) PROVE Same
    BY <1>4 DEF DoctorStarts, bounds, ghosts
  <1>5. ASSUME NEW p \in Procs, Dies(p) PROVE Same
    BY <1>5 DEF Dies
  <1>6. UNCHANGED vars => Same
    BY DEF vars, bounds, ghosts
  <1>7. QED
    BY <1>1, <1>2, <1>3, <1>4, <1>5, <1>6 DEF Next

(* A row once in the table stays there.                                    *)
LEMMA TableGrows ==
    TypeOK /\ ControlInv /\ [Next]_vars =>
        \A r \in Sessions : table[r] # NoRow => table'[r] # NoRow
  <1> SUFFICES ASSUME TypeOK, ControlInv, [Next]_vars, NEW r \in Sessions, table[r] # NoRow
               PROVE  table'[r] # NoRow
    OBVIOUS
  <1>1. \A c \in Claims, b \in BOOLEAN : [claim |-> c, open |-> b] # NoRow
    BY Limits DEF TypeOK, TableRow
  <1>2. ASSUME NEW p \in Procs, RegisterInserts(p) \/ RegisterProceeds(p) PROVE table'[r] # NoRow
    <2>1. job[p].want \in Claims
      BY <1>2, Held DEF RegisterInserts, RegisterProceeds, At, ControlOf
    <2>2. [claim |-> job[p].want, open |-> TRUE] # NoRow
      BY <1>1, <2>1
    <2>3. QED
      BY <2>2, <1>2 DEF TypeOK, RegisterInserts, RegisterProceeds
  <1>3. ASSUME NEW p \in Procs, PivotMoves(p) PROVE table'[r] # NoRow
    <2>1. job[p].want \in Claims
      BY <1>3, Held DEF TypeOK, PivotMoves, At, ControlOf
    <2>2. \A c \in Claims : [table[r] EXCEPT !.claim = c] # NoRow
      BY Limits DEF TypeOK, TableRow
    <2>3. QED
      BY <2>1, <2>2, <1>3 DEF TypeOK, PivotMoves
  <1>4. ASSUME NEW p \in Procs \cup Doctors, EditReachesTable(p) PROVE table'[r] # NoRow
    <2>1. job[p].edit # "close" => job[p].want \in Claims
      BY <1>4, Held DEF TypeOK, EditReachesTable, At, ControlOf, SweepOf, Sweeping
    <2>2. \A c \in Claims : [table[r] EXCEPT !.claim = c] # NoRow
      BY Limits DEF TypeOK, TableRow
    <2>3. [table[r] EXCEPT !.open = FALSE] # NoRow
      BY Limits DEF TypeOK, TableRow
    <2>4. QED
      BY <2>1, <2>2, <2>3, <1>4 DEF TypeOK, EditReachesTable
  <1>5. ASSUME NEW d \in Doctors, NEW s \in Sessions, DoctorSyncs(d, s) PROVE table'[r] # NoRow
    BY <1>5 DEF TypeOK, DoctorSyncs
  <1>6. ASSUME NEW s \in HookSessions, HookEnsuresRow(s) PROVE table'[r] # NoRow
    BY <1>6 DEF TypeOK, HookEnsuresRow
  <1>7. ASSUME HookEndsSession PROVE table'[r] # NoRow
    <2>1. [table[r] EXCEPT !.open = FALSE] # NoRow
      BY Limits DEF TypeOK, TableRow
    <2>2. QED
      BY <2>1, <1>7 DEF TypeOK, HookEndsSession
  <1>8. CASE table' = table
    BY <1>8
  <1>9. QED
    BY <1>2, <1>3, <1>4, <1>5, <1>6, <1>7, <1>8, TableWriters

-----------------------------------------------------------------------------
(* A step that no check belongs to keeps what has passed what, if whoever  *)
(* it leaves open and checked is as it was.                                *)
LEMMA PassedKept ==
    ASSUME PassedInv, backend' = backend, passed' = passed,
           \A s \in Sessions : OpenIn(table, s)' =>
               s \in unchecked' \/ (table'[s] = table[s] /\ s \notin unchecked)
    PROVE  PassedInv'
  <1> SUFFICES ASSUME NEW s \in Sessions, NEW t \in Sessions, s # t, Checked(s)', Checked(t)'
               PROVE  (/\ <<s, t>> \in passed \/ <<t, s>> \in passed
                       /\ <<s, t>> \in passed => t \notin Colliding(s, table[s].claim))'
    BY DEF PassedInv
  <1>1. /\ table'[s] = table[s] /\ table'[t] = table[t]
        /\ Checked(s) /\ Checked(t)
    BY DEF Checked, OpenIn
  <1>2. t \in Colliding(s, table[s].claim)' => t \in Colliding(s, table[s].claim)
    BY <1>1 DEF Colliding, Candidates, Finds, OpenIn
  <1>3. QED
    BY <1>1, <1>2 DEF PassedInv

(* A session whose check found nothing has passed all that are open.       *)
LEMMA PassedAnew ==
    ASSUME PassedInv, backend' = backend, NEW r \in Sessions, passed' = Passing(r),
           (Colliding(r, table[r].claim) = {})',
           \A s \in Sessions \ {r} : table'[s] = table[s] /\ (s \in unchecked => s \in unchecked')
    PROVE  PassedInv'
  <1> SUFFICES ASSUME NEW s \in Sessions, NEW t \in Sessions, s # t, Checked(s)', Checked(t)'
               PROVE  (/\ <<s, t>> \in passed \/ <<t, s>> \in passed
                       /\ <<s, t>> \in passed => t \notin Colliding(s, table[s].claim))'
    BY DEF PassedInv
  <1>1. \A u \in Sessions \ {r} : Checked(u)' => Checked(u) /\ table'[u] = table[u]
    BY DEF Checked, OpenIn
  <1>2. \A u, v \in Sessions :
          <<u, v>> \in passed' <=> IF u = r THEN v # r /\ OpenIn(table, v)
                                   ELSE v # r /\ <<u, v>> \in passed
    BY DEF Passing
  <1>3. CASE s = r
    <2>1. OpenIn(table, t)
      BY <1>1, <1>3 DEF Checked
    <2>2. QED
      BY <1>2, <1>3, <2>1
  <1>4. CASE t = r
    <2>1. OpenIn(table, s)
      BY <1>1, <1>4 DEF Checked
    <2>2. QED
      BY <1>2, <1>4, <2>1
  <1>5. CASE s # r /\ t # r
    <2>1. Checked(s) /\ Checked(t) /\ table'[s] = table[s] /\ table'[t] = table[t]
      BY <1>1, <1>5
    <2>2. t \in Colliding(s, table[s].claim)' => t \in Colliding(s, table[s].claim)
      BY <2>1 DEF Colliding, Candidates, Finds, OpenIn
    <2>3. QED
      BY <1>2, <1>5, <2>1, <2>2 DEF PassedInv
  <1>6. QED
    BY <1>3, <1>4, <1>5

LEMMA CollidesWithOthers ==
    ASSUME NEW s \in Sessions, NEW c, \A t \in Sessions \ {s} : table'[t] = table[t],
           backend' = backend, Colliding(s, c) = {}
    PROVE  Colliding(s, c)' = {}
  BY DEF Colliding, Candidates, Finds, OpenIn

LEMMA PassedStep ==
    TypeOK /\ ControlInv /\ PassedInv /\ [Next]_vars => PassedInv'
  <1> SUFFICES ASSUME TypeOK, ControlInv, PassedInv, [Next]_vars
               PROVE  PassedInv'
    OBVIOUS
  <1> USE DEF TypeOK
  <1>1. CASE UNCHANGED <<table, unchecked, passed, backend>>
    BY <1>1, PassedKept DEF OpenIn
  <1>2. ASSUME NEW p \in Procs, RegisterInserts(p)
        PROVE  PassedInv'
    <2>1. PICK s \in Sessions, c \in Claims : s = job[p].sid /\ c = job[p].want
      BY <1>2, Held DEF RegisterInserts, At, ControlOf
    <2>2. table' = [table EXCEPT ![s] = [claim |-> c, open |-> TRUE]]
      BY <1>2, <2>1 DEF RegisterInserts
    <2>3. Colliding(s, c)' = {}
      BY <1>2, <2>1, <2>2, CollidesWithOthers DEF RegisterInserts, bounds
    <2>4. (Colliding(s, table[s].claim) = {})'
      BY <2>2, <2>3
    <2>5. \A t \in Sessions \ {s} : table'[t] = table[t]
      BY <2>2
    <2>6. QED
      BY <1>2, <2>1, <2>4, <2>5, PassedAnew DEF RegisterInserts, bounds
  <1>3. ASSUME NEW p \in Procs, RegisterProceeds(p)
        PROVE  PassedInv'
    BY <1>3, PassedKept DEF RegisterProceeds, bounds, OpenIn
  <1>4. ASSUME NEW p \in Procs, PivotMoves(p)
        PROVE  PassedInv'
    <2>1. PICK s \in Sessions, c \in Claims : s = job[p].sid /\ c = job[p].want
      BY <1>4, Held DEF PivotMoves, At, ControlOf
    <2>2. CASE table[s] = NoRow
      BY <1>4, <2>1, <2>2, PassedKept DEF PivotMoves, bounds, OpenIn
    <2>3. CASE table[s] # NoRow
      <3>1. /\ table' = [table EXCEPT ![s].claim = c] /\ unchecked' = unchecked \ {s}
            /\ passed' = Passing(s) /\ backend' = backend
        BY <1>4, <2>1, <2>3 DEF PivotMoves, bounds
      <3>2. Colliding(s, c)' = {}
        BY <1>4, <2>1, <3>1, CollidesWithOthers DEF PivotMoves
      <3>3. (Colliding(s, table[s].claim) = {})'
        BY <2>3, <3>1, <3>2 DEF TableRow
      <3>4. \A t \in Sessions \ {s} :
                table'[t] = table[t] /\ (t \in unchecked => t \in unchecked')
        BY <3>1
      <3>5. QED
        BY <3>1, <3>3, <3>4, PassedAnew
    <2>4. QED
      BY <2>2, <2>3
  <1>5. ASSUME NEW p \in Procs \cup Doctors, EditReachesTable(p)
        PROVE  PassedInv'
    <2>1. \A s \in Sessions : OpenIn(table, s)' => s \in unchecked' \/ table'[s] = table[s]
      BY <1>5, Held DEF EditReachesTable, At, ControlOf, SweepOf, Sweeping, OpenIn, TableRow
    <2>2. unchecked \subseteq unchecked' /\ passed' = passed /\ backend' = backend
      BY <1>5 DEF EditReachesTable, bounds
    <2>3. QED
      BY <2>1, <2>2, PassedKept
  <1>6. ASSUME NEW d \in Doctors, NEW s \in Sessions, DoctorSyncs(d, s)
        PROVE  PassedInv'
    BY <1>6, PassedKept DEF DoctorSyncs, bounds, OpenIn
  <1>7. ASSUME NEW s \in HookSessions, HookEnsuresRow(s)
        PROVE  PassedInv'
    BY <1>7, PassedKept DEF HookEnsuresRow, bounds, OpenIn
  <1>8. ASSUME HookEndsSession
        PROVE  PassedInv'
    <2>1. \A s \in Sessions : OpenIn(table, s)' => table'[s] = table[s]
      BY <1>8 DEF HookEndsSession, OpenIn, TableRow
    <2>2. QED
      BY <1>8, <2>1, PassedKept DEF HookEndsSession, bounds
  <1>9. QED
    BY <1>1, <1>2, <1>3, <1>4, <1>5, <1>6, <1>7, <1>8, TableWriters

(* Two globs meet whichever is named first, and on MySQL two claims find   *)
(* each other: there the second of two checked sessions has seen the first.*)
LEMMA PassedExplains ==
    ASSUME TypeOK, PassedInv
    PROVE  OverlapIsExplained
  <1> SUFFICES ASSUME NEW s \in Sessions, OpenIn(table, s), NEW t \in Colliding(s, table[s].claim),
                      s \notin unchecked, t \notin unchecked
               PROVE  /\ backend = "sqlite" /\ <<t, s>> \in passed
                      /\ s \notin Colliding(t, table[t].claim)
    BY DEF OverlapIsExplained
  <1>1. t \in Sessions /\ s # t /\ Checked(s) /\ Checked(t)
    BY DEF Colliding, Candidates, Checked
  <1>2. <<t, s>> \in passed /\ s \notin Colliding(t, table[t].claim)
    BY <1>1 DEF PassedInv
  <1>3. ASSUME backend = "mysql" PROVE s \in Colliding(t, table[t].claim)
    <2>1. \A x, y : <<x, y>> \in Touches => <<y, x>> \in Touches
      BY RegistryAssumption
    <2>2. QED
      BY <1>1, <1>3, <2>1 DEF Colliding, Candidates, Finds
  <1>4. QED
    BY <1>2, <1>3, RegistryAssumption DEF TypeOK

-----------------------------------------------------------------------------
(* A step is one process's: the others stay where they are.                *)
LEMMA OthersWait ==
    ASSUME NEW p \in Procs \cup Doctors, job \in [Procs \cup Doctors -> Job],
           \/ p \in Procs /\ (Command(p) \/ Step(p) \/ Dies(p))
           \/ p \in Doctors /\ (DoctorStarts(p) \/ DoctorStep(p))
    PROVE  \A q \in Procs \cup Doctors : q # p => job'[q] = job[q]
  <1> DEFINE Wait == \A q \in Procs \cup Doctors : q # p => job'[q] = job[q]
  <1>1. ASSUME Command(p) PROVE Wait
    <2>1. ASSUME NEW s, NEW c, NEW fast, RegisterAppends(p, s, c, fast) PROVE Wait
      BY <2>1 DEF RegisterAppends
    <2>2. ASSUME NEW s, NEW c, NEW edit, CommandReads(p, s, edit, c) PROVE Wait
      BY <2>2 DEF CommandReads
    <2>3. ASSUME NEW s, NEW c, Pivot(p, s, c) PROVE Wait
      BY <2>3 DEF Pivot
    <2>4. QED
      BY <1>1, <2>1, <2>2, <2>3 DEF Command, Complete, Update
  <1>2. ASSUME EditWrites(p) \/ EditReachesTable(p) \/ EditUnavailable(p) \/ CommandRaises(p)
        PROVE  Wait
    BY <1>2 DEF EditWrites, EditReachesTable, EditUnavailable, CommandRaises, Done
  <1>3. ASSUME Step(p) PROVE Wait
    <2>1. ASSUME \/ RegisterInserts(p) \/ RegisterHalts(p) \/ RegisterProceeds(p)
                 \/ RegisterUnavailable(p)
          PROVE  Wait
      BY <2>1 DEF RegisterInserts, RegisterHalts, RegisterProceeds, RegisterUnavailable
    <2>2. ASSUME \/ MarkReads(p) \/ MarkWrites(p)
                 \/ PivotRefused(p) \/ PivotMoves(p) \/ PivotUnavailable(p)
          PROVE  Wait
      BY <2>2 DEF MarkReads, MarkWrites, PivotRefused, PivotMoves, PivotUnavailable, Done, Goto
    <2>3. QED
      BY <1>2, <1>3, <2>1, <2>2 DEF Step
  <1>4. ASSUME Dies(p) \/ DoctorStarts(p) PROVE Wait
    BY <1>4 DEF Dies, DoctorStarts
  <1>5. ASSUME DoctorStep(p) PROVE Wait
    <2>1. ASSUME DoctorSweeps(p) \/ DoctorUnavailable(p) \/ DoctorRaises(p) PROVE Wait
      BY <2>1 DEF DoctorSweeps, DoctorUnavailable, DoctorRaises
    <2>2. ASSUME DoctorTurnsToPending(p) \/ DoctorSettles(p) PROVE Wait
      BY <2>2 DEF DoctorTurnsToPending, DoctorSettles
    <2>3. ASSUME NEW s \in Sessions,
                 DoctorCompletes(p, s) \/ DoctorSyncs(p, s) \/ DoctorSyncUnavailable(p, s)
          PROVE  Wait
      BY <2>3 DEF DoctorCompletes, DoctorSyncs, DoctorSyncUnavailable
    <2>4. QED
      BY <1>2, <1>5, <2>1, <2>2, <2>3 DEF DoctorStep
  <1>6. QED
    BY <1>1, <1>3, <1>4, <1>5

(* The doctor's copy: what it took from the file, less what it closed and  *)
(* the marks of the rows that are in the table.                            *)
LEMMA MemStep == TypeOK /\ ControlInv /\ MemInv /\ [Next]_vars => MemInv'
  <1> SUFFICES ASSUME TypeOK, ControlInv, MemInv, [Next]_vars PROVE MemInv'
    OBVIOUS
  <1> DEFINE Keeps(d) == job'[d].pc \in Sweeping => /\ job[d].pc \in Sweeping
                                                    /\ job'[d].base = job[d].base
                                                    /\ job'[d].mem = job[d].mem
  <1>1. \A s \in Sessions : table[s] # NoRow => table'[s] # NoRow
    BY TableGrows
  <1>2. ASSUME NEW d \in Doctors, Keeps(d), job'[d].pc \in Sweeping PROVE MemOf(job[d])'
    BY <1>1, <1>2 DEF MemInv, MemOf
  <1>3. job' = job => MemInv'
    BY <1>1 DEF MemInv, MemOf
  <1>4. ASSUME NEW d \in Doctors, job'[d].pc \in Sweeping => MemOf(job[d])',
               \A q \in Procs \cup Doctors : q # d => job'[q] = job[q]
        PROVE  MemInv'
    BY <1>2, <1>4 DEF MemInv
  <1>5. ASSUME NEW p \in Procs, Command(p) \/ Step(p) \/ Dies(p) PROVE MemInv'
    <2>1. \A d \in Doctors : job'[d] = job[d]
      BY <1>5, OthersWait, Limits DEF TypeOK
    <2>2. QED
      BY <1>2, <2>1 DEF MemInv
  <1>6. ASSUME NEW d \in Doctors, DoctorStarts(d) PROVE MemInv'
    <2>1. /\ job'[d].base = rows /\ job'[d].mem = Unblocked(rows)
      BY <1>6 DEF DoctorStarts, TypeOK, Job
    <2>2. MemOf(job[d])'
      <3> SUFFICES ASSUME NEW s \in Sessions
                   PROVE  LET b == rows[s]
                              m == Unblocked(rows)[s]
                          IN  /\ b = NoRow <=> m = NoRow
                              /\ b # NoRow => /\ m.blocked = b.blocked
                                              /\ m.open = (b.open /\ ~b.blocked)
                                              /\ m.pending => b.pending
                                              /\ b.pending /\ ~b.blocked => m.pending
        BY <2>1 DEF MemOf
      <3>1. CASE rows[s] # NoRow /\ rows[s].blocked /\ rows[s].open
        BY <3>1, Limits DEF Unblocked, TypeOK, Rows, LocalRow
      <3>2. CASE ~(rows[s] # NoRow /\ rows[s].blocked /\ rows[s].open)
        BY <3>2 DEF Unblocked, TypeOK, Rows, LocalRow
      <3>3. QED
        BY <3>1, <3>2
    <2>3. QED
      BY <1>4, <1>6, <2>2, OthersWait DEF TypeOK
  <1>7. ASSUME NEW d \in Doctors, DoctorStep(d) PROVE MemInv'
    <2>1. \A q \in Procs \cup Doctors : q # d => job'[q] = job[q]
      BY <1>7, OthersWait DEF TypeOK
    <2>2. ASSUME NEW s \in Sessions, DoctorSyncs(d, s) PROVE MemOf(job[d])'
      <3> DEFINE j == job[d]
      <3>1. /\ j \in Job /\ MemOf(j) /\ s \in Pending(j.mem) /\ job[d].pc = "sync"
        BY <2>2, Held DEF DoctorSyncs, At, SweepOf, MemInv, Sweeping
      <3>2. /\ job'[d].base = j.base
            /\ job'[d].mem = [j.mem EXCEPT ![s].pending = FALSE]
        BY <2>2 DEF DoctorSyncs, TypeOK, Job
      <3>3. [j.mem EXCEPT ![s].pending = FALSE] \in Rows
        BY <3>1, CopyTyped DEF Job, Pending
      <3>4. table'[s] # NoRow
        <4>1. [claim |-> j.mem[s].claim, open |-> j.mem[s].open] \in TableRow
          BY <3>1 DEF Job, Rows, LocalRow, TableRow, Pending
        <4>2. QED
          BY <2>2, <4>1, Limits DEF DoctorSyncs, TypeOK
      <3>5. QED
        <4> SUFFICES ASSUME NEW t \in Sessions
                     PROVE  LET b == j.base[t]
                                m == job'[d].mem[t]
                            IN  /\ b = NoRow <=> m = NoRow
                                /\ b # NoRow =>
                                     /\ m.blocked = b.blocked
                                     /\ m.open = (b.open /\ ~b.blocked)
                                     /\ m.pending => b.pending
                                     /\ b.pending /\ ~b.blocked /\ ~m.pending => table'[t] # NoRow
          BY <3>2 DEF MemOf
        <4>1. CASE t # s
          <5>1. job'[d].mem[t] = j.mem[t]
            BY <3>1, <3>2, <4>1 DEF Job, Rows
          <5>2. QED
            BY <1>1, <3>1, <5>1 DEF MemOf
        <4>2. CASE t = s
          <5>1. j.mem[s] \in LocalRow /\ job'[d].mem[s] = [j.mem[s] EXCEPT !.pending = FALSE]
            BY <3>1, <3>2 DEF Job, Rows, Pending
          <5>2. job'[d].mem[s] # NoRow
            BY <5>1, Limits DEF LocalRow
          <5>3. QED
            BY <3>1, <3>4, <4>2, <5>1, <5>2 DEF MemOf, LocalRow, Pending
        <4>3. QED
          BY <4>1, <4>2
    <2>3. ASSUME EditWrites(d) \/ EditReachesTable(d) \/ EditUnavailable(d) PROVE Keeps(d)
      <3>1. CASE EditWrites(d)
        BY <3>1 DEF EditWrites, At, Sweeping, TypeOK, Job
      <3>2. CASE EditReachesTable(d) \/ EditUnavailable(d)
        <4>1. job'[d] = Return(d) /\ job[d] \in Job /\ job[d].pc \in Sweeping
          BY <3>2 DEF EditReachesTable, EditUnavailable, Done, At, Sweeping, TypeOK
        <4>2. Return(d).base = job[d].base /\ Return(d).mem = job[d].mem
          BY <4>1 DEF Return, Job
        <4>3. QED
          BY <4>1, <4>2
      <3>3. QED
        BY <2>3, <3>1, <3>2
    <2>4. ASSUME CommandRaises(d) \/ DoctorRaises(d) \/ DoctorSettles(d) PROVE Keeps(d)
      BY <2>4 DEF CommandRaises, DoctorRaises, DoctorSettles, Idle, Sweeping, TypeOK, Job
    <2>5. ASSUME DoctorSweeps(d) \/ DoctorUnavailable(d) \/ DoctorTurnsToPending(d)
          PROVE  Keeps(d)
      BY <2>5 DEF DoctorSweeps, DoctorUnavailable, DoctorTurnsToPending, At, Sweeping, TypeOK, Job
    <2>6. ASSUME NEW s \in Sessions, DoctorCompletes(d, s) \/ DoctorSyncUnavailable(d, s)
          PROVE  Keeps(d)
      <3>1. CASE DoctorCompletes(d, s)
        <4>1. CASE ClosedIn(rows, s)
          BY <3>1, <4>1 DEF DoctorCompletes, At, Sweeping, TypeOK, Job
        <4>2. CASE ~ClosedIn(rows, s)
          BY <3>1, <4>2 DEF DoctorCompletes, At, Sweeping, TypeOK, Job
        <4>3. QED
          BY <4>1, <4>2
      <3>2. CASE DoctorSyncUnavailable(d, s)
        BY <3>2 DEF DoctorSyncUnavailable, At, Sweeping, TypeOK, Job
      <3>3. QED
        BY <2>6, <3>1, <3>2
    <2>7. Keeps(d) => MemInv'
      BY <1>2, <1>4, <2>1
    <2>8. QED
      BY <1>4, <1>7, <2>1, <2>2, <2>3, <2>4, <2>5, <2>6, <2>7 DEF DoctorStep
  <1>8. ASSUME (\E s \in HookSessions : HookEnsuresRow(s)) \/ HookEndsSession \/ UNCHANGED vars
        PROVE  MemInv'
    BY <1>3, <1>8 DEF HookEnsuresRow, HookEndsSession, vars
  <1>9. QED
    BY <1>5, <1>6, <1>7, <1>8 DEF Next

-----------------------------------------------------------------------------
(* A copy of the file that says of the session no more than another did.   *)
LikeAt(f, g, s) == f[s] # NoRow => /\ g[s] # NoRow /\ f[s].blocked = g[s].blocked
                                   /\ f[s].pending => g[s].pending
Old(f, s) == \E g \in Copies : LikeAt(f, g, s)

LEMMA OldCopies ==
    ASSUME NEW s \in Sessions
    PROVE  /\ Old(NoRows, s) /\ Old(rows, s)
           /\ \A p \in Procs \cup Doctors :
                 Old(job[p].seen, s) /\ Old(job[p].base, s) /\ Old(job[p].mem, s)
  <1>1. \A g \in Copies : Old(g, s)
    BY DEF Old, LikeAt
  <1>2. rows \in Copies
    BY DEF Copies
  <1>3. \A p \in Procs \cup Doctors : {job[p].seen, job[p].base, job[p].mem} \subseteq Copies
    BY DEF Copies
  <1>4. Old(NoRows, s)
    BY <1>2 DEF Old, LikeAt, NoRows
  <1>5. QED
    BY <1>1, <1>2, <1>3, <1>4

(* What a step may do to the copies of a session without halting it anew.  *)
LEMMA HaltKept ==
    ASSUME NEW p \in Procs \cup Doctors, NEW s \in Sessions, HaltOf(s),
           \A q \in Procs \cup Doctors : q # p => job'[q] = job[q],
           s \in born => s \in born',
           Old(rows', s), Old(job'[p].seen, s), Old(job'[p].base, s), Old(job'[p].mem, s),
           p \in Procs => /\ Registrar(p, s)' => Registrar(p, s)
                          /\ Barred(p, s)' => Barred(p, s),
           table[s] = NoRow =>
               \/ table'[s] = NoRow
               \/ /\ \A f \in Copies : ~Halted(f, s)
                  /\ \A q \in Procs : ~Barred(q, s)'
    PROVE  HaltOf(s)'
  <1>1. \A f \in Copies' : Old(f, s)
    <2>1. ASSUME NEW q \in Procs \cup Doctors, q # p
          PROVE  Old(job'[q].seen, s) /\ Old(job'[q].base, s) /\ Old(job'[q].mem, s)
      BY <2>1, OldCopies
    <2>2. QED
      BY <2>1 DEF Copies
  <1>2. \A q \in Procs : /\ Registrar(q, s)' => Registrar(q, s)
                         /\ Barred(q, s)' => Barred(q, s)
    <2>1. ASSUME NEW q \in Procs, q # p
          PROVE  /\ Registrar(q, s)' => Registrar(q, s)
                 /\ Barred(q, s)' => Barred(q, s)
      BY <2>1 DEF Registrar, Barred, Registering, Marks, At
    <2>2. QED
      BY <2>1
  <1>3. \A f \in Copies' : \E g \in Copies :
            /\ f[s] # NoRow => g[s] # NoRow
            /\ Halted(f, s) => Halted(g, s)
            /\ Marked(f, s) => Marked(g, s)
            /\ f[s] # NoRow /\ Halted(g, s) => Halted(f, s)
    BY <1>1 DEF Old, LikeAt, Halted, Marked
  <1>4. \A f \in Copies' : Marked(f, s) => f[s] # NoRow
    BY DEF Marked
  <1>5. (\A q, r \in Procs : Registrar(q, s) /\ Registrar(r, s) => q = r)'
    BY <1>2 DEF HaltOf
  <1>6. (s \notin born => \A f \in Copies : f[s] = NoRow)'
    BY <1>3 DEF HaltOf
  <1>7. (\A q \in Procs : Registrar(q, s) => s \in born /\ \A f \in Copies : ~Halted(f, s))'
    BY <1>2, <1>3 DEF HaltOf
  <1>8. (\A q \in Procs : Barred(q, s) => table[s] = NoRow /\ \A f \in Copies : ~Marked(f, s))'
    BY <1>2, <1>3 DEF HaltOf
  <1>9. (\A f \in Copies : Halted(f, s) =>
           table[s] = NoRow /\ \A g \in Copies : Marked(g, s) => Halted(g, s))'
    BY <1>3, <1>4 DEF HaltOf
  <1>10. QED
    BY <1>5, <1>6, <1>7, <1>8, <1>9 DEF HaltOf

(* An edit that marks nothing, and a copy of the doctor's.                 *)
LEMMA EditedLike ==
    ASSUME NEW f \in Rows, NEW s \in Sessions, NEW c, NEW t \in Sessions
    PROVE  /\ \A edit \in {"close", "paths", "pivot"} : LikeAt(Edited(f, s, edit, c), f, t)
           /\ \A edit \in {"pending", "blocked"} : t # s => LikeAt(Edited(f, s, edit, c), f, t)
  <1>1. CASE t # s
    BY <1>1 DEF Edited, LikeAt, Rows
  <1>2. CASE t = s
    BY <1>2 DEF Edited, LikeAt, Rows, LocalRow
  <1>3. QED
    BY <1>1, <1>2

LEMMA CopyLike ==
    ASSUME NEW f \in Rows, NEW t \in Sessions
    PROVE  /\ LikeAt(Unblocked(f), f, t)
           /\ \A s \in Sessions : f[s] # NoRow => LikeAt([f EXCEPT ![s].pending = FALSE], f, t)
  <1>1. LikeAt(Unblocked(f), f, t)
    BY DEF LikeAt, Unblocked, Rows, LocalRow
  <1>2. ASSUME NEW s \in Sessions, f[s] # NoRow
        PROVE  LikeAt([f EXCEPT ![s].pending = FALSE], f, t)
    <2>1. CASE t = s
      BY <1>2, <2>1 DEF LikeAt, Rows, LocalRow
    <2>2. CASE t # s
      BY <1>2, <2>2 DEF LikeAt, Rows
    <2>3. QED
      BY <2>1, <2>2
  <1>3. QED
    BY <1>1, <1>2

LEMMA HaltStep == TypeOK /\ ControlInv /\ HaltInv /\ [Next]_vars => HaltInv'
  <1> SUFFICES ASSUME TypeOK, ControlInv, HaltInv, [Next]_vars, NEW r \in Sessions
               PROVE  HaltOf(r)'
    BY DEF HaltInv
  <1> DEFINE Safe(p) == Old(job'[p].seen, r) /\ Old(job'[p].base, r) /\ Old(job'[p].mem, r)
             Tame(p) == p \in Procs => /\ Registrar(p, r)' => Registrar(p, r)
                                       /\ Barred(p, r)' => Barred(p, r)
             Wait(p) == \A q \in Procs \cup Doctors : q # p => job'[q] = job[q]
             Free == table[r] = NoRow =>
                         \/ table'[r] = NoRow
                         \/ /\ \A f \in Copies : ~Halted(f, r)
                            /\ \A q \in Procs : ~Barred(q, r)'
             Goal == HaltOf(r)'
  <1>1. HaltOf(r)
    BY DEF HaltInv
  <1>2. ASSUME NEW p \in Procs \cup Doctors, Wait(p), Safe(p), Tame(p), Old(rows', r), Free,
               r \in born => r \in born'
        PROVE  Goal
    BY <1>1, <1>2, HaltKept
  <1>3. Old(rows, r)
    BY OldCopies
  <1>4. ASSUME NEW p \in Procs \cup Doctors, job'[p] = Idle PROVE Safe(p) /\ Tame(p)
    BY <1>4, OldCopies DEF Idle, Registrar, Barred, Registering, Marks, At
  <1> HIDE DEF Goal, Safe, Tame, Wait, Free
  <1> DEFINE Quiet(p) == Wait(p) /\ rows' = rows /\ table' = table /\ born' = born
  <1>5. ASSUME NEW p \in Procs \cup Doctors, Quiet(p), Safe(p), Tame(p) PROVE Goal
    BY <1>2, <1>3, <1>5 DEF Free
  <1> HIDE DEF Quiet
  <1>6. ASSUME NEW p \in Procs, NEW s \in Sessions, NEW c \in Wants[s], NEW fast \in BOOLEAN,
               RegisterAppends(p, s, c, fast), Wait(p)
        PROVE  Goal
    <2>1. /\ job[p] \in Job /\ job'[p].seen = job[p].seen /\ job'[p].base = job[p].base
          /\ job'[p].mem = job[p].mem /\ job'[p].sid = s
          /\ ~fast => job'[p].pc = "register" /\ job'[p].edit = "none"
          /\ fast => job'[p].pc = "mark" /\ job'[p].edit = "pending"
      BY <1>6 DEF RegisterAppends, TypeOK, Job
    <2>2. Safe(p)
      BY <2>1, OldCopies DEF Safe
    <2>3. CASE r # s
      <3>1. Tame(p)
        BY <2>1, <2>3 DEF Tame, Registrar, Barred, Registering, Marks, At
      <3>2. LikeAt(rows', rows, r) /\ rows \in Copies
        BY <1>6, <2>3 DEF RegisterAppends, LikeAt, Copies, TypeOK, Rows
      <3>3. QED
        BY <1>2, <1>6, <2>2, <3>1, <3>2 DEF RegisterAppends, Free, Old
    <2>4. CASE r = s
      <3>1. /\ \A f \in Copies : f[r] = NoRow
            /\ \A q \in Procs : ~Registrar(q, r)
            /\ table'[r] = NoRow /\ r \in born'
        BY <1>1, <1>6, <2>4 DEF RegisterAppends, HaltOf
      <3>2. \A f \in Copies' : f = rows' \/ f[r] = NoRow
        <4>1. ASSUME NEW q \in Procs \cup Doctors
              PROVE  /\ job'[q].seen = job[q].seen /\ job'[q].base = job[q].base
                     /\ job'[q].mem = job[q].mem
          BY <1>6, <2>1 DEF Wait
        <4>2. Copies' \subseteq {rows'} \cup Copies
          BY <4>1 DEF Copies
        <4>3. QED
          BY <3>1, <4>2
      <3>3. ~Halted(rows', r) /\ ~Marked(rows', r)
        BY <1>6, <2>4 DEF RegisterAppends, Halted, Marked, TypeOK, Rows
      <3>4. \A f \in Copies' : ~Halted(f, r) /\ ~Marked(f, r)
        BY <3>2, <3>3 DEF Halted, Marked
      <3>5. \A q \in Procs : Registrar(q, r)' => q = p
        BY <1>6, <3>1 DEF Wait, Registrar, Registering, Marks, At
      <3>6. QED
        BY <3>1, <3>4, <3>5 DEF Goal, HaltOf
    <2>5. QED
      BY <2>3, <2>4
  <1>7. ASSUME NEW p \in Procs, NEW s \in Sessions, NEW c, NEW edit \in {"close", "paths"},
               CommandReads(p, s, edit, c), Wait(p)
        PROVE  Goal
    <2>1. /\ job'[p].seen = rows /\ job'[p].base = job[p].base /\ job'[p].mem = job[p].mem
          /\ job'[p].pc = "edit"
      BY <1>7 DEF CommandReads, TypeOK, Job
    <2>2. Safe(p) /\ Tame(p)
      BY <2>1, OldCopies DEF Safe, Tame, Registrar, Barred, Registering, Marks, At
    <2>3. QED
      BY <1>5, <1>7, <2>2 DEF Quiet, CommandReads, ghosts
  <1>8. ASSUME NEW p \in Procs, NEW s \in Sessions, NEW c, Pivot(p, s, c), Wait(p) PROVE Goal
    <2>1. /\ job'[p].seen = job[p].seen /\ job'[p].base = job[p].base
          /\ job'[p].mem = job[p].mem /\ job'[p].pc = "pivot_db"
      BY <1>8 DEF Pivot, TypeOK, Job
    <2>2. Safe(p) /\ Tame(p)
      BY <2>1, OldCopies DEF Safe, Tame, Registrar, Barred, Registering, Marks, At
    <2>3. QED
      BY <1>5, <1>8, <2>2 DEF Quiet, Pivot, ghosts
  <1>9. ASSUME NEW p \in Procs, RegisterInserts(p) \/ RegisterProceeds(p), Wait(p) PROVE Goal
    <2>1. job'[p] = Idle /\ Registrar(p, job[p].sid) /\ job[p].sid \in Sessions
      BY <1>9, Held DEF RegisterInserts, RegisterProceeds, TypeOK, Registrar, Registering, At,
                        ControlOf
    <2>2. Free
      <3>1. CASE r # job[p].sid
        BY <1>9, <3>1 DEF Free, RegisterInserts, RegisterProceeds, TypeOK
      <3>2. CASE r = job[p].sid
        <4>1. \A f \in Copies : ~Halted(f, r)
          BY <1>1, <2>1, <3>2 DEF HaltOf
        <4>2. ASSUME NEW q \in Procs, Barred(q, r)' PROVE FALSE
          <5>1. q # p
            BY <2>1, <4>2 DEF Barred, Registering, Marks, At, Idle
          <5>2. Registrar(q, r)
            BY <1>9, <4>2, <5>1 DEF Wait, Barred, Registrar, Registering, Marks, At
          <5>3. QED
            BY <1>1, <2>1, <3>2, <5>1, <5>2 DEF HaltOf
        <4>3. QED
          BY <4>1, <4>2 DEF Free
      <3>3. QED
        BY <3>1, <3>2
    <2>3. QED
      BY <1>2, <1>3, <1>4, <1>9, <2>1, <2>2 DEF RegisterInserts, RegisterProceeds, ghosts
  <1>10. ASSUME NEW p \in Procs, RegisterHalts(p) \/ RegisterUnavailable(p), Wait(p) PROVE Goal
    <2>1. /\ job'[p].seen = job[p].seen /\ job'[p].base = job[p].base
          /\ job'[p].mem = job[p].mem /\ job'[p].sid = job[p].sid
          /\ job[p].pc = "register" /\ job'[p].pc = "mark"
      BY <1>10 DEF RegisterHalts, RegisterUnavailable, TypeOK, Job, At
    <2>2. Safe(p) /\ Tame(p)
      BY <2>1, OldCopies DEF Safe, Tame, Registrar, Barred, Registering, Marks, At
    <2>3. QED
      BY <1>5, <1>10, <2>2 DEF Quiet, RegisterHalts, RegisterUnavailable, ghosts
  <1>11. ASSUME NEW p \in Procs, MarkReads(p), Wait(p) PROVE Goal
    <2>1. /\ job'[p].seen = rows /\ job'[p].base = job[p].base /\ job'[p].mem = job[p].mem
          /\ job'[p].sid = job[p].sid /\ job'[p].edit = job[p].edit
          /\ job'[p].pc = "replace" /\ (job[p].pc = "mark" \/ job[p].edit = "pivot")
      BY <1>11, Held DEF MarkReads, TypeOK, Job, At, ControlOf
    <2>2. Safe(p) /\ Tame(p)
      BY <2>1, OldCopies DEF Safe, Tame, Registrar, Barred, Registering, Marks, At
    <2>3. QED
      BY <1>5, <1>11, <2>2 DEF Quiet, MarkReads, ghosts
  <1>12. ASSUME NEW p \in Procs, MarkWrites(p), Wait(p) PROVE Goal
    <2> DEFINE j == job[p]
    <2>1. /\ j \in Job /\ j.sid \in Sessions /\ j.edit \in {"pending", "blocked", "pivot"}
          /\ j.seen \in Copies /\ j.seen \in Rows
          /\ rows' = Edited(j.seen, j.sid, j.edit, j.want) /\ job'[p] = Idle
          /\ table' = table /\ born' = born
      BY <1>12, Held DEF MarkWrites, FileReplaced, At, ControlOf, Copies, TypeOK, Job
    <2>2. CASE r # j.sid \/ j.edit = "pivot"
      <3>1. LikeAt(Edited(j.seen, j.sid, j.edit, j.want), j.seen, r)
        <4>1. CASE j.edit = "pivot"
          BY <2>1, <4>1, EditedLike
        <4>2. CASE j.edit # "pivot"
          BY <2>1, <2>2, <4>2, EditedLike
        <4>3. QED
          BY <4>1, <4>2
      <3>2. QED
        BY <1>2, <1>4, <1>12, <2>1, <3>1 DEF Free, Old
    <2>3. CASE r = j.sid /\ j.edit \in {"pending", "blocked"}
      <3>1. Registrar(p, r) /\ (j.edit = "blocked" => Barred(p, r))
        BY <1>12, <2>3 DEF MarkWrites, Registrar, Barred, Marks, At
      <3>2. Copies' \subseteq {rows', NoRows} \cup Copies
        <4>1. \A q \in Procs \cup Doctors :
                 {job'[q].seen, job'[q].base, job'[q].mem} \subseteq {NoRows} \cup Copies
          <5>1. ASSUME NEW q \in Procs \cup Doctors, q # p
                PROVE  {job'[q].seen, job'[q].base, job'[q].mem} \subseteq Copies
            BY <1>12, <5>1 DEF Wait, Copies
          <5>2. QED
            BY <2>1, <5>1 DEF Idle
        <4>2. QED
          BY <4>1 DEF Copies
      <3>3. ~Halted(NoRows, r) /\ ~Marked(NoRows, r)
        BY DEF NoRows, Halted, Marked
      <3>4. \A f \in Copies : ~Halted(f, r)
        BY <1>1, <3>1 DEF HaltOf
      <3>5. \A q \in Procs : ~Registrar(q, r)' /\ ~Barred(q, r)'
        <4>1. ~Registrar(p, r)'
          BY <2>1 DEF Idle, Registrar, Registering, Marks, At
        <4>2. ASSUME NEW q \in Procs, q # p PROVE ~Registrar(q, r)'
          BY <1>1, <1>12, <3>1, <4>2 DEF HaltOf, Wait, Registrar, Registering, Marks, At
        <4>3. QED
          BY <4>1, <4>2 DEF Registrar, Barred
      <3>6. r \in born'
        BY <1>1, <2>1, <3>1 DEF HaltOf
      <3>7. CASE j.edit = "pending"
        <4>1. ~Halted(rows', r)
          BY <2>1, <2>3, <3>4, <3>7 DEF Edited, Halted, Rows, LocalRow
        <4>2. \A f \in Copies' : ~Halted(f, r)
          BY <3>2, <3>3, <3>4, <4>1
        <4>3. QED
          BY <3>5, <3>6, <4>2 DEF Goal, HaltOf
      <3>8. CASE j.edit = "blocked"
        <4>1. table'[r] = NoRow /\ \A f \in Copies : ~Marked(f, r)
          BY <1>1, <2>1, <3>1, <3>8 DEF HaltOf
        <4>2. Marked(rows', r) => Halted(rows', r)
          BY <2>1, <2>3, <3>8 DEF Edited, Halted, Marked, Rows, LocalRow
        <4>3. \A f \in Copies' : Marked(f, r) => Halted(f, r)
          BY <3>2, <3>3, <4>1, <4>2
        <4>4. QED
          BY <3>5, <3>6, <4>1, <4>3 DEF Goal, HaltOf
      <3>9. QED
        BY <2>3, <3>7, <3>8
    <2>4. QED
      BY <2>1, <2>2, <2>3
  <1>13. ASSUME NEW p \in Procs \cup Doctors, EditWrites(p), Wait(p) PROVE Goal
    <2> DEFINE j == job[p]
    <2>1. /\ j.sid \in Sessions /\ j.edit \in {"close", "paths"}
          /\ j.seen \in Copies /\ j.seen \in Rows
      BY <1>13, Held DEF EditWrites, At, ControlOf, SweepOf, Sweeping, Copies, Job
    <2>2. /\ rows' = Edited(j.seen, j.sid, j.edit, j.want) /\ table' = table /\ born' = born
          /\ job'[p].seen = NoRows /\ job'[p].base = j.base /\ job'[p].mem = j.mem
          /\ job'[p].pc = "edit_db"
      BY <1>13 DEF EditWrites, FileReplaced, TypeOK, Job
    <2>3. LikeAt(Edited(j.seen, j.sid, j.edit, j.want), j.seen, r)
      BY <2>1, EditedLike
    <2>4. Safe(p) /\ Tame(p)
      BY <2>2, OldCopies DEF Safe, Tame, Registrar, Barred, Registering, Marks, At
    <2>5. QED
      BY <1>2, <1>13, <2>1, <2>2, <2>3, <2>4 DEF Free, Old
  <1>14. ASSUME NEW p \in Procs \cup Doctors, Wait(p),
                EditReachesTable(p) \/ EditUnavailable(p) \/ PivotRefused(p)
         PROVE  Goal
    <2>1. job'[p] = Return(p) /\ job[p] \in Job
      BY <1>14 DEF EditReachesTable, EditUnavailable, PivotRefused, Done, TypeOK
    <2>2. /\ job'[p].seen = NoRows /\ job'[p].base \in {NoRows, job[p].base}
          /\ job'[p].mem \in {NoRows, job[p].mem} /\ job'[p].pc \in {"closing", "idle"}
      <3>1. CASE p \in Doctors
        BY <2>1, <3>1 DEF Return, Job
      <3>2. CASE p \notin Doctors
        BY <2>1, <3>2 DEF Return, Idle
      <3>3. QED
        BY <3>1, <3>2
    <2>3. Safe(p) /\ Tame(p)
      BY <2>2, OldCopies DEF Safe, Tame, Registrar, Barred, Registering, Marks, At
    <2>4. Free
      BY <1>14 DEF EditReachesTable, EditUnavailable, PivotRefused, OpenIn, TypeOK, Free
    <2>5. QED
      BY <1>2, <1>3, <1>14, <2>3, <2>4 DEF EditReachesTable, EditUnavailable, PivotRefused, ghosts
  <1>15. ASSUME NEW p \in Procs, PivotMoves(p) \/ PivotUnavailable(p), Wait(p) PROVE Goal
    <2>1. /\ job'[p].seen = job[p].seen /\ job'[p].base = job[p].base
          /\ job'[p].mem = job[p].mem /\ job'[p].pc = "pivot"
      BY <1>15 DEF PivotMoves, PivotUnavailable, Goto, TypeOK, Job
    <2>2. Safe(p) /\ Tame(p)
      BY <2>1, OldCopies DEF Safe, Tame, Registrar, Barred, Registering, Marks, At
    <2>3. Free
      BY <1>15 DEF PivotMoves, PivotUnavailable, TypeOK, Free
    <2>4. QED
      BY <1>2, <1>3, <1>15, <2>2, <2>3 DEF PivotMoves, PivotUnavailable, ghosts
  <1>16. ASSUME NEW p \in Procs \cup Doctors, Wait(p), CommandRaises(p) \/ DoctorRaises(p) \/ Dies(p)
         PROVE  Goal
    BY <1>4, <1>5, <1>16 DEF Quiet, CommandRaises, DoctorRaises, Dies, TypeOK, ghosts
  <1>17. ASSUME NEW d \in Doctors, DoctorStarts(d), Wait(d) PROVE Goal
    <2>1. /\ job'[d].seen = job[d].seen /\ job'[d].base = rows /\ job'[d].mem = Unblocked(rows)
          /\ job'[d].pc = "sweep"
      BY <1>17 DEF DoctorStarts, TypeOK, Job
    <2>2. Old(Unblocked(rows), r)
      BY CopyLike DEF Old, Copies, TypeOK
    <2>3. Safe(d) /\ Tame(d)
      BY <2>1, <2>2, OldCopies DEF Safe, Tame, Registrar, Barred, Registering, Marks, At
    <2>4. QED
      BY <1>5, <1>17, <2>3 DEF Quiet, DoctorStarts, ghosts
  <1>18. ASSUME NEW d \in Doctors, Wait(d),
                DoctorSweeps(d) \/ DoctorUnavailable(d) \/ DoctorTurnsToPending(d)
         PROVE  Goal
    <2>1. /\ job'[d].seen = job[d].seen /\ job'[d].base = job[d].base
          /\ job'[d].mem = job[d].mem /\ job'[d].pc \in {"closing", "sync"}
      BY <1>18 DEF DoctorSweeps, DoctorUnavailable, DoctorTurnsToPending, TypeOK, Job
    <2>2. Safe(d) /\ Tame(d)
      BY <2>1, OldCopies DEF Safe, Tame, Registrar, Barred, Registering, Marks, At
    <2>3. QED
      BY <1>5, <1>18, <2>2 DEF Quiet, DoctorSweeps, DoctorUnavailable, DoctorTurnsToPending, ghosts
  <1>19. ASSUME NEW d \in Doctors, NEW s \in Sessions, Wait(d),
                DoctorCompletes(d, s) \/ DoctorSyncUnavailable(d, s)
         PROVE  Goal
    <2>1. /\ job'[d].seen \in {rows, job[d].seen} /\ job'[d].base = job[d].base
          /\ job'[d].mem = job[d].mem
      <3>1. CASE DoctorSyncUnavailable(d, s)
        BY <3>1 DEF DoctorSyncUnavailable, TypeOK, Job
      <3>2. CASE DoctorCompletes(d, s) /\ ClosedIn(rows, s)
        BY <3>2 DEF DoctorCompletes, TypeOK, Job
      <3>3. CASE DoctorCompletes(d, s) /\ ~ClosedIn(rows, s)
        BY <3>3 DEF DoctorCompletes, TypeOK, Job
      <3>4. QED
        BY <1>19, <3>1, <3>2, <3>3
    <2>2. Safe(d) /\ Tame(d)
      BY <2>1, OldCopies, Limits DEF Safe, Tame
    <2>3. QED
      BY <1>5, <1>19, <2>2 DEF Quiet, DoctorCompletes, DoctorSyncUnavailable, ghosts
  <1>20. ASSUME NEW d \in Doctors, NEW s \in Sessions, DoctorSyncs(d, s), Wait(d) PROVE Goal
    <2> DEFINE j == job[d]
    <2>1. /\ j \in Job /\ s \in Pending(j.mem) /\ j.mem \in Rows /\ j.mem \in Copies
      BY <1>20, Held DEF DoctorSyncs, At, SweepOf, Job, Copies
    <2>2. /\ job'[d].seen = j.seen /\ job'[d].base = j.base
          /\ job'[d].mem = [j.mem EXCEPT ![s].pending = FALSE]
      BY <1>20 DEF DoctorSyncs, TypeOK, Job
    <2>3. LikeAt(job'[d].mem, j.mem, r)
      <3>1. j.mem[s] # NoRow
        BY <2>1 DEF Pending
      <3>2. j.mem \in Rows /\ r \in Sessions
        BY <2>1
      <3>3. LikeAt([j.mem EXCEPT ![s].pending = FALSE], j.mem, r)
        BY <3>1, <3>2, CopyLike
      <3>4. QED
        BY <2>2, <3>3
    <2>4. Safe(d) /\ Tame(d)
      BY <2>1, <2>2, <2>3, OldCopies, Limits DEF Safe, Tame, Old
    <2>5. Free
      <3>1. CASE r # s
        BY <1>20, <3>1 DEF DoctorSyncs, Free, TypeOK
      <3>2. CASE r = s
        <4>1. Marked(j.mem, r) /\ ~Halted(j.mem, r)
          BY <2>1, <3>2 DEF Pending, Marked, Halted
        <4>2. \A f \in Copies : ~Halted(f, r)
          BY <1>1, <2>1, <4>1 DEF HaltOf
        <4>3. \A q \in Procs : ~Barred(q, r)
          BY <1>1, <2>1, <4>1 DEF HaltOf
        <4>4. \A q \in Procs : job'[q] = job[q]
          BY <1>20, Limits DEF Wait
        <4>5. \A q \in Procs : ~Barred(q, r)'
          BY <4>3, <4>4 DEF Barred, Registering, Marks, At
        <4>6. QED
          BY <4>2, <4>5 DEF Free
      <3>3. QED
        BY <3>1, <3>2
    <2>6. QED
      BY <1>2, <1>3, <1>20, <2>4, <2>5 DEF DoctorSyncs
  <1>21. ASSUME NEW d \in Doctors, DoctorSettles(d), Wait(d) PROVE Goal
    <2>1. Old(rows', r)
      BY <1>3, <1>21, OldCopies DEF DoctorSettles
    <2>2. QED
      BY <1>2, <1>4, <1>21, <2>1 DEF DoctorSettles, Free, TypeOK
  <1>22. ASSUME job' = job, rows' = rows, born' = born, Free PROVE Goal
    <2>1. Copies' = Copies
      BY <1>22 DEF Copies
    <2>2. \A q \in Procs : /\ Registrar(q, r)' <=> Registrar(q, r)
                           /\ Barred(q, r)' <=> Barred(q, r)
      BY <1>22 DEF Registrar, Barred, Registering, Marks, At
    <2>3. (\A f \in Copies : Halted(f, r) =>
             table[r] = NoRow /\ \A g \in Copies : Marked(g, r) => Halted(g, r))'
      BY <1>1, <1>22, <2>1 DEF HaltOf, Free
    <2>4. (\A q \in Procs : Barred(q, r) => table[r] = NoRow /\ \A f \in Copies : ~Marked(f, r))'
      BY <1>1, <1>22, <2>1, <2>2 DEF HaltOf, Free
    <2>5. QED
      BY <1>1, <1>22, <2>1, <2>2, <2>3, <2>4 DEF Goal, HaltOf
  <1>23. ASSUME NEW s \in HookSessions, HookEnsuresRow(s) PROVE Goal
    <2>1. Free
      <3>1. CASE r # s
        BY <1>23, <3>1 DEF HookEnsuresRow, Free, TypeOK
      <3>2. CASE r = s
        <4>1. (\A f \in Copies : ~Halted(f, r)) /\ \A q \in Procs : ~Barred(q, r)
          BY <1>1, <1>23, <3>2 DEF HookEnsuresRow, HaltOf, Halted, Registrar, Barred
        <4>2. \A q \in Procs : ~Barred(q, r)'
          BY <1>23, <4>1 DEF HookEnsuresRow, Barred, Registering, Marks, At
        <4>3. QED
          BY <4>1, <4>2 DEF Free
      <3>3. QED
        BY <3>1, <3>2
    <2>2. QED
      BY <1>22, <1>23, <2>1 DEF HookEnsuresRow
  <1>24. ASSUME HookEndsSession \/ UNCHANGED vars PROVE Goal
    <2>1. Free
      BY <1>24 DEF HookEndsSession, Free, OpenIn, vars
    <2>2. QED
      BY <1>22, <1>24, <2>1 DEF HookEndsSession, vars, ghosts
  <1>25. QED
    <2>1. ASSUME NEW p \in Procs, Command(p) \/ Step(p) \/ Dies(p) PROVE Goal
      <3>1. Wait(p)
        BY <2>1, OthersWait DEF Wait, TypeOK
      <3>2. ASSUME Command(p) PROVE Goal
        BY <1>6, <1>7, <1>8, <3>1, <3>2 DEF Command, Complete, Update
      <3>3. ASSUME Step(p) PROVE Goal
        BY <1>9, <1>10, <1>11, <1>12, <1>13, <1>14, <1>15, <1>16, <3>1, <3>3 DEF Step
      <3>4. QED
        BY <1>16, <2>1, <3>1, <3>2, <3>3
    <2>2. ASSUME NEW d \in Doctors, DoctorStarts(d) \/ DoctorStep(d) PROVE Goal
      <3>1. Wait(d)
        BY <2>2, OthersWait DEF Wait, TypeOK
      <3>2. ASSUME DoctorStep(d) PROVE Goal
        BY <1>13, <1>14, <1>16, <1>18, <1>19, <1>20, <1>21, <3>1, <3>2 DEF DoctorStep
      <3>3. QED
        BY <1>17, <2>2, <3>1, <3>2
    <2>3. QED
      BY <1>23, <1>24, <2>1, <2>2 DEF Next, Goal

-----------------------------------------------------------------------------
(* A session a command works on is one register wrote or the table knows.  *)
LEMMA KnownStep == TypeOK /\ ControlInv /\ KnownInv /\ [Next]_vars => KnownInv'
  <1> SUFFICES ASSUME TypeOK, ControlInv, KnownInv, [Next]_vars PROVE KnownInv'
    OBVIOUS
  <1> DEFINE Wait(p) == \A q \in Procs \cup Doctors : q # p => job'[q] = job[q]
             Aims(p) == /\ job'[p].pc \in {"edit", "edit_db"} => Known(job'[p].sid)
                        /\ p \in Doctors /\ job'[p].pc \in {"closing", "edit", "edit_db"} =>
                              \A s \in job'[p].todo : Known(s)
  <1>1. born \subseteq born'
    <2>1. ASSUME NEW p, NEW s, NEW c, NEW fast, RegisterAppends(p, s, c, fast)
          PROVE  born \subseteq born'
      BY <2>1 DEF RegisterAppends
    <2>2. ASSUME NEW p, NEW s, NEW c, NEW edit, CommandReads(p, s, edit, c) PROVE born' = born
      BY <2>2 DEF CommandReads, ghosts
    <2>3. ASSUME NEW p, NEW s, NEW c, Pivot(p, s, c) PROVE born' = born
      BY <2>3 DEF Pivot, ghosts
    <2>4. ASSUME NEW p \in Procs, Command(p) PROVE born \subseteq born'
      BY <2>1, <2>2, <2>3, <2>4 DEF Command, Complete, Update
    <2>5. ASSUME NEW p \in Procs, Step(p) PROVE born' = born
      BY <2>5 DEF Step, RegisterInserts, RegisterHalts, RegisterProceeds, RegisterUnavailable,
                  MarkReads, MarkWrites, EditWrites, EditReachesTable, EditUnavailable,
                  PivotRefused, PivotMoves, PivotUnavailable, CommandRaises, ghosts
    <2>6. ASSUME NEW d \in Doctors, DoctorStep(d) PROVE born' = born
      BY <2>6 DEF DoctorStep, DoctorSweeps, DoctorUnavailable, DoctorRaises,
                  DoctorTurnsToPending, DoctorSettles, DoctorCompletes, DoctorSyncs,
                  DoctorSyncUnavailable, EditWrites, EditReachesTable, EditUnavailable,
                  CommandRaises, ghosts
    <2>7. QED
      BY <2>4, <2>5, <2>6 DEF Next, Dies, DoctorStarts, HookEnsuresRow, HookEndsSession,
         vars, ghosts
  <1>2. \A s \in Sessions : Known(s) => Known(s)'
    BY <1>1, TableGrows DEF Known
  <1>3. ASSUME job' = job PROVE KnownInv'
    <2>1. \A q \in Procs \cup Doctors : job[q] \in Job
      BY Held
    <2>2. ASSUME NEW q \in Procs \cup Doctors, job[q].pc \in {"edit", "edit_db"}
          PROVE  job[q].sid \in Sessions
      BY <2>2, Held DEF ControlOf, SweepOf
    <2>3. QED
      BY <1>2, <1>3, <2>1, <2>2 DEF KnownInv, Job
  <1>4. ASSUME NEW p \in Procs \cup Doctors, Wait(p), Aims(p), job'[p] \in Job,
               job'[p].pc \in {"edit", "edit_db"} => job'[p].sid \in Sessions
        PROVE  KnownInv'
    <2>1. ASSUME NEW q \in Procs \cup Doctors, job[q].pc \in {"edit", "edit_db"}
          PROVE  job[q].sid \in Sessions
      BY <2>1, Held DEF ControlOf, SweepOf
    <2>2. \A q \in Procs \cup Doctors : job[q].todo \subseteq Sessions
      BY Held DEF Job
    <2>3. job'[p].todo \subseteq Sessions
      BY <1>4 DEF Job
    <2>4. QED
      BY <1>2, <1>4, <2>1, <2>2, <2>3 DEF KnownInv
  <1>5. TypeOK' /\ ControlInv'
    BY ShapeStep
  <1>6. ASSUME NEW p \in Procs \cup Doctors, Wait(p), Aims(p) PROVE KnownInv'
    <2>1. /\ job'[p] \in Job
          /\ p \in Procs => ControlOf(job[p])'
          /\ p \in Doctors => SweepOf(job[p])'
      BY <1>5 DEF TypeOK, ControlInv
    <2>2. job'[p].pc \in {"edit", "edit_db"} => job'[p].sid \in Sessions
      BY <2>1 DEF ControlOf, SweepOf
    <2>3. QED
      BY <1>4, <1>6, <2>1, <2>2
  <1>7. ASSUME NEW p \in Procs, Command(p) PROVE Aims(p)
    <2>1. ASSUME NEW s, NEW c, NEW fast, RegisterAppends(p, s, c, fast) PROVE Aims(p)
      BY <2>1, Limits DEF RegisterAppends, TypeOK, Job
    <2>2. ASSUME NEW s, NEW c, NEW edit, CommandReads(p, s, edit, c) PROVE Aims(p)
      BY <2>2, Limits DEF CommandReads, TypeOK, Job, Known
    <2>3. ASSUME NEW s, NEW c, Pivot(p, s, c) PROVE Aims(p)
      BY <2>3, Limits DEF Pivot, TypeOK, Job
    <2>4. QED
      BY <1>7, <2>1, <2>2, <2>3 DEF Command, Complete, Update
  <1>8. ASSUME NEW p \in Procs \cup Doctors,
               EditWrites(p) \/ EditReachesTable(p) \/ EditUnavailable(p) \/ CommandRaises(p)
        PROVE  Aims(p)
    <2>1. job[p] \in Job
      BY Held
    <2>2. CASE EditWrites(p)
      BY <2>2 DEF EditWrites, At, KnownInv, TypeOK, Job
    <2>3. CASE EditReachesTable(p) \/ EditUnavailable(p)
      <3>1. job'[p] = Return(p) /\ job[p].pc = "edit_db"
        BY <2>3 DEF EditReachesTable, EditUnavailable, Done, At, TypeOK
      <3>2. CASE p \in Doctors
        BY <2>1, <3>1, <3>2 DEF Return, Job, KnownInv
      <3>3. CASE p \notin Doctors
        BY <3>1, <3>3 DEF Return, Idle
      <3>4. QED
        BY <3>2, <3>3
    <2>4. CASE CommandRaises(p)
      BY <2>4 DEF CommandRaises, Idle, TypeOK
    <2>5. QED
      BY <1>8, <2>2, <2>3, <2>4
  <1>9. ASSUME NEW p \in Procs, Step(p) PROVE Aims(p)
    <2>1. ASSUME RegisterInserts(p) \/ RegisterProceeds(p) \/ MarkWrites(p) PROVE Aims(p)
      BY <2>1, Limits DEF RegisterInserts, RegisterProceeds, MarkWrites, Idle, TypeOK
    <2>2. ASSUME RegisterHalts(p) \/ RegisterUnavailable(p) \/ MarkReads(p) PROVE Aims(p)
      BY <2>2, Limits DEF RegisterHalts, RegisterUnavailable, MarkReads, TypeOK, Job
    <2>3. ASSUME PivotMoves(p) \/ PivotUnavailable(p) PROVE Aims(p)
      BY <2>3, Limits DEF PivotMoves, PivotUnavailable, Goto, TypeOK, Job
    <2>4. ASSUME PivotRefused(p) PROVE Aims(p)
      BY <2>4, Limits DEF PivotRefused, Done, Return, Idle, TypeOK
    <2>5. QED
      BY <1>8, <1>9, <2>1, <2>2, <2>3, <2>4 DEF Step
  <1>10. ASSUME NEW d \in Doctors, DoctorStep(d) PROVE Aims(d)
    <2>1. ASSUME DoctorSweeps(d) PROVE Aims(d)
      BY <2>1 DEF DoctorSweeps, TypeOK, Job, Known, OpenIn
    <2>2. ASSUME DoctorUnavailable(d) \/ DoctorTurnsToPending(d) PROVE Aims(d)
      BY <2>2 DEF DoctorUnavailable, DoctorTurnsToPending, TypeOK, Job
    <2>3. ASSUME DoctorRaises(d) \/ DoctorSettles(d) PROVE Aims(d)
      BY <2>3 DEF DoctorRaises, DoctorSettles, Idle, TypeOK
    <2>4. ASSUME NEW s \in Sessions, DoctorCompletes(d, s) PROVE Aims(d)
      <3>1. \A t \in job[d].todo : Known(t)
        BY <2>4 DEF DoctorCompletes, At, KnownInv
      <3>2. CASE ClosedIn(rows, s)
        BY <2>4, <3>1, <3>2 DEF DoctorCompletes, At, TypeOK, Job
      <3>3. CASE ~ClosedIn(rows, s)
        BY <2>4, <3>1, <3>3 DEF DoctorCompletes, At, TypeOK, Job
      <3>4. QED
        BY <3>2, <3>3
    <2>5. ASSUME NEW s \in Sessions, DoctorSyncs(d, s) \/ DoctorSyncUnavailable(d, s)
          PROVE  Aims(d)
      BY <2>5 DEF DoctorSyncs, DoctorSyncUnavailable, At, TypeOK, Job
    <2>6. QED
      BY <1>8, <1>10, <2>1, <2>2, <2>3, <2>4, <2>5 DEF DoctorStep
  <1>11. ASSUME NEW p \in Procs, Dies(p) PROVE Aims(p)
    BY <1>11, Limits DEF Dies, Idle, TypeOK
  <1>12. ASSUME NEW d \in Doctors, DoctorStarts(d) PROVE Aims(d)
    BY <1>12 DEF DoctorStarts, TypeOK, Job
  <1>13. ASSUME (\E s \in HookSessions : HookEnsuresRow(s)) \/ HookEndsSession \/ UNCHANGED vars
         PROVE  job' = job
    BY <1>13 DEF HookEnsuresRow, HookEndsSession, vars
  <1> HIDE DEF Aims
  <1>14. ASSUME NEW p \in Procs, Command(p) \/ Step(p) \/ Dies(p) PROVE KnownInv'
    <2>1. Wait(p)
      BY <1>14, OthersWait DEF TypeOK
    <2>2. QED
      BY <1>6, <1>7, <1>9, <1>11, <1>14, <2>1
  <1>15. ASSUME NEW d \in Doctors, DoctorStarts(d) \/ DoctorStep(d) PROVE KnownInv'
    <2>1. Wait(d)
      BY <1>15, OthersWait DEF TypeOK
    <2>2. QED
      BY <1>6, <1>10, <1>12, <1>15, <2>1
  <1>16. QED
    BY <1>3, <1>13, <1>14, <1>15 DEF Next

-----------------------------------------------------------------------------
(* The step of one process that leaves a session's rows as open as they    *)
(* were keeps them in agreement if it abandons nothing: a close that has   *)
(* reached the file, a registration, a row the doctor has just inserted.   *)
Calm(s) ==
    /\ rows'[s] # NoRow /\ rows'[s].open = rows[s].open
    /\ rows[s].pending => rows'[s].pending
    /\ table'[s] = NoRow <=> table[s] = NoRow
    /\ table[s] # NoRow => table'[s].open = table[s].open

Minds(p, s) ==
    /\ p \in Doctors /\ ~At(p, "idle")' /\ ClosedIn(job'[p].base, s) =>
          (~At(p, "idle") /\ ClosedIn(job[p].base, s)) \/ ~rows[s].open
    /\ s \notin apart' =>
         /\ Closing(p, s)' <=> Closing(p, s)
         /\ p \in Procs => /\ Registering(p, s)' => Registering(p, s)
                           /\ Registrar(p, s) => Registrar(p, s)' \/ rows'[s].pending
         /\ p \in Doctors => (Behind(p, s) => Behind(p, s)')

LEMMA AgreeKept ==
    ASSUME NEW p \in Procs \cup Doctors, NEW s \in Sessions, AgreeOf(s),
           \A q \in Procs \cup Doctors : q # p => job'[q] = job[q],
           s \notin apart' => s \notin apart, Calm(s), Minds(p, s)
    PROVE  AgreeOf(s)'
  <1>1. ASSUME NEW q \in Procs \cup Doctors, q # p
        PROVE  /\ Closing(q, s)' <=> Closing(q, s)
               /\ Registering(q, s)' <=> Registering(q, s)
               /\ Registrar(q, s)' <=> Registrar(q, s)
               /\ At(q, "idle")' <=> At(q, "idle")
               /\ ClosedIn(job'[q].base, s) <=> ClosedIn(job[q].base, s)
               /\ Behind(q, s)' <=> Behind(q, s)
    BY <1>1 DEF Closing, Registering, Registrar, Marks, At, ClosedIn, Behind, Calm
  <1>2. (rows[s] # NoRow)'
    BY DEF Calm
  <1>3. (\A d \in Doctors : ~At(d, "idle") /\ ClosedIn(job[d].base, s) => ~rows[s].open)'
    <2> SUFFICES ASSUME NEW d \in Doctors, ~At(d, "idle")', ClosedIn(job'[d].base, s)
                 PROVE  ~rows'[s].open
      OBVIOUS
    <2>1. (~At(d, "idle") /\ ClosedIn(job[d].base, s)) \/ ~rows[s].open
      BY <1>1 DEF Minds
    <2>2. QED
      BY <2>1 DEF AgreeOf, Calm
  <1>4. ASSUME s \notin apart'
        PROVE  /\ (\A q \in Procs \cup Doctors : Closing(q, s) => ~rows[s].open)'
               /\ (\A q \in Procs : Registering(q, s) =>
                      rows[s].open \/ \E r \in Procs \cup Doctors : Closing(r, s))'
               /\ (table[s] = NoRow /\ rows[s].open =>
                      rows[s].pending \/ \E q \in Procs : Registrar(q, s))'
               /\ (table[s] # NoRow =>
                      \/ rows[s].open = table[s].open
                      \/ \E q \in Procs \cup Doctors : Closing(q, s)
                      \/ \E d \in Doctors : Behind(d, s))'
    <2>1. \A q \in Procs \cup Doctors : Closing(q, s)' <=> Closing(q, s)
      BY <1>1, <1>4 DEF Minds
    <2>2. \A q \in Procs : /\ Registering(q, s)' => Registering(q, s)
                           /\ Registrar(q, s) => Registrar(q, s)' \/ rows'[s].pending
      BY <1>1, <1>4 DEF Minds
    <2>3. \A d \in Doctors : Behind(d, s) => Behind(d, s)'
      BY <1>1, <1>4 DEF Minds
    <2>4. QED
      BY <1>4, <2>1, <2>2, <2>3 DEF AgreeOf, Calm
  <1>5. QED
    BY <1>2, <1>3, <1>4 DEF AgreeOf

LEMMA AgreeStep ==
    /\ TypeOK /\ ControlInv /\ KnownInv /\ HaltInv /\ MemInv /\ AgreeInv
    /\ [Next]_vars
    => AgreeInv'
  <1> SUFFICES ASSUME TypeOK, ControlInv, KnownInv, HaltInv, MemInv, AgreeInv, [Next]_vars
               PROVE  AgreeInv'
    OBVIOUS
  <1>0. TypeOK'
    BY ShapeStep
  <1> SUFFICES ASSUME ~stale', NEW r \in Sessions, r \in born'
               PROVE  AgreeOf(r)'
    BY <1>0 DEF AgreeInv, TypeOK
  <1> DEFINE Goal == AgreeOf(r)'
             Wait(p) == \A q \in Procs \cup Doctors : q # p => job'[q] = job[q]
  <1>1. ~stale /\ r \in born => AgreeOf(r)
    BY DEF AgreeInv
  <1>2. HaltOf(r)
    BY DEF HaltInv
  <1>3. ASSUME NEW p \in Procs \cup Doctors, Wait(p), ~stale, r \in born,
               r \notin apart' => r \notin apart, Calm(r), Minds(p, r)
        PROVE  Goal
    BY <1>1, <1>3, AgreeKept
  <1>4. ASSUME rows' = rows, table' = table, ~stale, r \in born PROVE Calm(r)
    BY <1>1, <1>4 DEF Calm, AgreeOf
  <1> HIDE DEF Goal, Wait
  <1>5. ASSUME NEW p \in Procs \cup Doctors, Wait(p), rows' = rows, table' = table,
               born' = born, stale' = stale, apart \subseteq apart', Minds(p, r)
        PROVE  Goal
    BY <1>3, <1>4, <1>5
  <1>6. ASSUME NEW p \in Procs, NEW s \in Sessions, NEW c \in Wants[s], NEW fast \in BOOLEAN,
               RegisterAppends(p, s, c, fast), Wait(p)
        PROVE  Goal
    <2>1. /\ job[p].pc = "idle" /\ job'[p].sid = s
          /\ IF fast THEN job'[p].pc = "mark" /\ job'[p].edit = "pending"
                     ELSE job'[p].pc = "register"
          /\ ~stale /\ apart' = apart /\ table' = table /\ born' = born \cup {s}
      BY <1>6 DEF RegisterAppends, TypeOK, Job, At
    <2>2. CASE r # s
      <3>1. Minds(p, r)
        BY <2>1, <2>2, Limits DEF Minds, Closing, Registering, Registrar, Marks, At
      <3>2. Calm(r)
        BY <1>1, <1>6, <2>1, <2>2 DEF Calm, AgreeOf, RegisterAppends, TypeOK, Rows
      <3>3. QED
        BY <1>3, <1>6, <2>1, <2>2, <3>1, <3>2
    <2>3. CASE r = s
      <3>1. r \notin born /\ table'[r] = NoRow
        BY <1>6, <2>1, <2>3 DEF RegisterAppends
      <3>2. rows'[r] \in LocalRow /\ rows'[r].open
        <4>1. c \in Claims
          BY Limits
        <4>2. QED
          BY <1>6, <2>3, <4>1 DEF RegisterAppends, TypeOK, Rows, LocalRow
      <3>3. \A d \in Doctors : ~ClosedIn(job'[d].base, r)
        BY <1>2, <1>6, <3>1, Limits DEF HaltOf, Copies, ClosedIn, Wait
      <3>4. \A q \in Procs \cup Doctors : ~Closing(q, r)'
        <4>1. ~Closing(p, r)'
          BY <2>1 DEF Closing, At
        <4>2. ASSUME NEW q \in Procs \cup Doctors, q # p PROVE ~Closing(q, r)
          BY <2>1, <3>1 DEF KnownInv, Known, Closing, At
        <4>3. QED
          BY <1>6, <4>1, <4>2 DEF Wait, Closing, At
      <3>5. Registrar(p, r)'
        BY <2>1, <2>3 DEF Registrar, Registering, Marks, At
      <3>6. QED
        BY <3>1, <3>2, <3>3, <3>4, <3>5, Limits DEF Goal, AgreeOf
    <2>4. QED
      BY <2>2, <2>3
  <1>7. ASSUME NEW p \in Procs, NEW s \in Sessions, NEW c, Wait(p),
               Pivot(p, s, c) \/ \E edit \in {"close", "paths"} : CommandReads(p, s, edit, c)
        PROVE  Goal
    <2>1. job[p].pc = "idle" /\ job'[p].pc \in {"edit", "pivot_db"}
      BY <1>7 DEF CommandReads, Pivot, TypeOK, Job, At
    <2>2. Minds(p, r)
      BY <2>1, Limits DEF Minds, Closing, Registering, Registrar, Marks, At
    <2>3. QED
      BY <1>5, <1>7, <2>2 DEF CommandReads, Pivot, ghosts
  <1>8. ASSUME NEW p \in Procs, RegisterInserts(p) \/ RegisterProceeds(p), Wait(p) PROVE Goal
    <2> DEFINE s == job[p].sid
    <2>1. /\ job[p].pc = "register" /\ job'[p] = Idle /\ s \in Sessions
          /\ ~stale /\ rows' = rows /\ apart' = apart /\ r \in born /\ Registering(p, s)
          /\ table' = [table EXCEPT ![s] = [claim |-> job[p].want, open |-> TRUE]]
      BY <1>8, Held DEF RegisterInserts, RegisterProceeds, TypeOK, ControlOf, At, Registering,
                        ghosts
    <2>2. CASE r # s
      <3>1. Minds(p, r)
        BY <2>1, <2>2, Limits DEF Minds, Closing, Registering, Registrar, Marks, At, Idle
      <3>2. Calm(r)
        BY <1>1, <2>1, <2>2 DEF Calm, AgreeOf
      <3>3. QED
        BY <1>3, <1>8, <2>1, <3>1, <3>2
    <2>3. CASE r = s
      <3>1. table'[r] # NoRow /\ table'[r].open = TRUE
        <4>1. job[p].want \in Claims
          BY <2>1, Held DEF ControlOf
        <4>2. \A c \in Claims, b \in BOOLEAN : [claim |-> c, open |-> b] # NoRow
          BY Limits DEF TableRow
        <4>3. QED
          BY <2>1, <2>3, <4>1, <4>2 DEF TypeOK
      <3>2. /\ AgreeOf(r) /\ rows[r] \in LocalRow
        BY <1>1, <2>1 DEF TypeOK, Rows, AgreeOf
      <3>3. \A q \in Procs \cup Doctors : Closing(q, r)' <=> Closing(q, r)
        <4>1. ~Closing(p, r)' /\ ~Closing(p, r)
          BY <2>1 DEF Closing, At, Idle
        <4>2. ASSUME NEW q \in Procs \cup Doctors, q # p PROVE Closing(q, r)' <=> Closing(q, r)
          BY <1>8, <4>2 DEF Wait, Closing, At
        <4>3. QED
          BY <4>1, <4>2
      <3>4. \A q \in Procs : ~Registering(q, r)'
        <4>1. ~Registering(p, r)'
          BY <2>1 DEF Registering, At, Idle
        <4>2. ASSUME NEW q \in Procs, q # p PROVE ~Registering(q, r)'
          <5>1. ~Registering(q, r)
            BY <1>2, <2>1, <2>3, <4>2 DEF HaltOf, Registrar
          <5>2. QED
            BY <1>8, <4>2, <5>1 DEF Wait, Registering, At
        <4>3. QED
          BY <4>1, <4>2
      <3>5. (\A d \in Doctors : ~At(d, "idle") /\ ClosedIn(job[d].base, r) => ~rows[r].open)'
        <4>1. \A d \in Doctors : job'[d] = job[d]
          BY <1>8, Limits DEF Wait
        <4>2. QED
          BY <2>1, <3>2, <4>1 DEF AgreeOf, At
      <3>6. r \notin apart =>
              \/ rows[r].open = TRUE
              \/ \E q \in Procs \cup Doctors : Closing(q, r)
        BY <2>1, <2>3, <3>2 DEF AgreeOf, LocalRow
      <3>7. (r \notin apart => \A q \in Procs \cup Doctors : Closing(q, r) => ~rows[r].open)'
        BY <2>1, <3>2, <3>3 DEF AgreeOf
      <3>8. QED
        BY <2>1, <3>1, <3>2, <3>3, <3>4, <3>5, <3>6, <3>7 DEF Goal, AgreeOf
    <2>4. QED
      BY <2>2, <2>3
  <1>9. ASSUME NEW p \in Procs, RegisterHalts(p) \/ RegisterUnavailable(p), Wait(p) PROVE Goal
    <2>1. /\ job[p].pc = "register" /\ job'[p].pc = "mark" /\ job'[p].sid = job[p].sid
          /\ job'[p].edit \in {"pending", "blocked"}
      BY <1>9 DEF RegisterHalts, RegisterUnavailable, TypeOK, Job, At
    <2>2. Minds(p, r)
      BY <2>1, Limits DEF Minds, Closing, Registering, Registrar, Marks, At
    <2>3. QED
      BY <1>5, <1>9, <2>2 DEF RegisterHalts, RegisterUnavailable, ghosts
  <1>10. ASSUME NEW p \in Procs, MarkReads(p), Wait(p) PROVE Goal
    <2>1. /\ job[p].pc \in {"mark", "pivot"} /\ job'[p].pc = "replace"
          /\ job'[p].sid = job[p].sid /\ job'[p].edit = job[p].edit
      BY <1>10 DEF MarkReads, TypeOK, Job
    <2>2. Minds(p, r)
      BY <2>1, Limits DEF Minds, Closing, Registering, Registrar, Marks, At
    <2>3. QED
      BY <1>5, <1>10, <2>2 DEF MarkReads, ghosts
  <1>11. ASSUME NEW p \in Procs, MarkWrites(p), Wait(p) PROVE Goal
    <2> DEFINE j == job[p]
    <2>1. /\ j.sid \in Sessions /\ j.edit \in {"pending", "blocked", "pivot"}
          /\ j.edit = "pivot" => j.want \in Claims
          /\ rows' = Edited(rows, j.sid, j.edit, j.want) /\ ~stale
          /\ job'[p] = Idle /\ j.pc = "replace"
          /\ table' = table /\ born' = born /\ apart' = apart
      BY <1>11, Held DEF MarkWrites, FileReplaced, At, ControlOf, TypeOK
    <2>2. rows[r] \in LocalRow
      BY <1>1, <2>1 DEF TypeOK, Rows, AgreeOf
    <2>3. /\ rows'[r] # NoRow /\ rows'[r].open = rows[r].open
          /\ rows[r].pending => rows'[r].pending
          /\ r = j.sid /\ j.edit \in {"pending", "blocked"} => rows'[r].pending
      <3>1. CASE r = j.sid
        <4>1. rows' \in Rows /\ rows[r] # NoRow
          BY <1>0, <2>2, Limits DEF TypeOK
        <4>2. CASE j.edit = "pivot"
          <5>1. rows'[r] = [rows[r] EXCEPT !.claim = j.want]
            BY <2>1, <3>1, <4>1, <4>2 DEF Edited, TypeOK, Rows
          <5>2. rows'[r] \in LocalRow
            BY <2>1, <2>2, <4>2, <5>1 DEF LocalRow
          <5>3. QED
            BY <2>2, <4>2, <5>1, <5>2, Limits DEF LocalRow
        <4>3. CASE j.edit = "pending"
          <5>1. rows'[r] = [rows[r] EXCEPT !.pending = TRUE]
            BY <2>1, <3>1, <4>1, <4>3 DEF Edited, TypeOK, Rows
          <5>2. rows'[r] \in LocalRow
            BY <2>2, <5>1 DEF LocalRow
          <5>3. QED
            BY <2>2, <5>1, <5>2, Limits DEF LocalRow
        <4>4. CASE j.edit = "blocked"
          <5>1. rows'[r] = [rows[r] EXCEPT !.pending = TRUE, !.blocked = TRUE]
            BY <2>1, <3>1, <4>1, <4>4 DEF Edited, TypeOK, Rows
          <5>2. rows'[r] \in LocalRow
            BY <2>2, <5>1 DEF LocalRow
          <5>3. QED
            BY <2>2, <5>1, <5>2, Limits DEF LocalRow
        <4>5. QED
          BY <2>1, <4>2, <4>3, <4>4
      <3>2. CASE r # j.sid
        <4>1. rows'[r] = rows[r]
          BY <2>1, <3>2 DEF Edited, TypeOK, Rows
        <4>2. QED
          BY <2>2, <3>2, <4>1, Limits
      <3>3. QED
        BY <3>1, <3>2
    <2>4. Minds(p, r)
      BY <2>1, <2>3, Limits DEF Minds, Closing, Registering, Registrar, Marks, At, Idle
    <2>5. QED
      BY <1>3, <1>11, <2>1, <2>3, <2>4 DEF Calm
  <1>12. ASSUME NEW p \in Procs \cup Doctors, EditWrites(p), Wait(p) PROVE Goal
    <2> DEFINE j == job[p]
    <2>1. /\ j.sid \in Sessions /\ j.edit \in {"close", "paths"}
          /\ j.edit = "paths" => j.want \in Claims
          /\ rows' = Edited(rows, j.sid, j.edit, j.want) /\ ~stale
          /\ j.pc = "edit" /\ job'[p].pc = "edit_db" /\ job'[p].sid = j.sid
          /\ job'[p].edit = j.edit /\ job'[p].base = j.base
          /\ table' = table /\ born' = born /\ apart' = apart
      <3>1. /\ j.sid \in Sessions /\ j.edit \in {"close", "paths"}
            /\ j.edit = "paths" => j.want \in Claims
        BY <1>12, Held DEF EditWrites, At, ControlOf, SweepOf, Sweeping
      <3>2. /\ rows' = Edited(rows, j.sid, j.edit, j.want) /\ ~stale /\ j.pc = "edit"
            /\ table' = table /\ born' = born /\ apart' = apart
        BY <1>12 DEF EditWrites, FileReplaced, At
      <3>3. /\ job'[p].pc = "edit_db" /\ job'[p].sid = j.sid
            /\ job'[p].edit = j.edit /\ job'[p].base = j.base
        BY <1>12 DEF EditWrites, TypeOK, Job
      <3>4. QED
        BY <3>1, <3>2, <3>3
    <2>2. AgreeOf(r) /\ rows[r] \in LocalRow
      BY <1>1, <2>1 DEF TypeOK, Rows, AgreeOf
    <2>3. CASE r # j.sid \/ j.edit = "paths"
      <3>1. Calm(r)
        <4>1. CASE r # j.sid
          <5>1. rows'[r] = rows[r]
            BY <2>1, <4>1 DEF Edited, TypeOK, Rows
          <5>2. QED
            BY <2>1, <2>2, <5>1 DEF Calm, AgreeOf
        <4>2. CASE r = j.sid /\ j.edit = "paths"
          <5>1. rows' = [rows EXCEPT ![r].claim = j.want]
            BY <2>1, <2>2, <4>2 DEF Edited, AgreeOf
          <5>2. rows'[r] = [rows[r] EXCEPT !.claim = j.want]
            BY <5>1 DEF TypeOK, Rows
          <5>3. rows'[r] \in LocalRow
            BY <2>1, <2>2, <4>2, <5>2 DEF LocalRow
          <5>4. QED
            BY <2>1, <2>2, <5>2, <5>3, Limits DEF Calm, AgreeOf, LocalRow
        <4>3. QED
          BY <2>1, <2>3, <4>1, <4>2
      <3>2. Minds(p, r)
        BY <2>1, <2>3 DEF Minds, Closing, Registering, Registrar, Marks, At, Behind
      <3>3. QED
        BY <1>3, <1>12, <2>1, <3>1, <3>2
    <2>4. CASE r = j.sid /\ j.edit = "close"
      <3>1. rows'[r] = [rows[r] EXCEPT !.open = FALSE]
        BY <2>1, <2>2, <2>4 DEF Edited, AgreeOf, TypeOK, Rows
      <3>2. rows'[r] # NoRow /\ ~rows'[r].open
        BY <2>2, <3>1, Limits DEF LocalRow
      <3>3. Closing(p, r)'
        BY <2>1, <2>4 DEF Closing, At
      <3>4. QED
        BY <3>2, <3>3 DEF Goal, AgreeOf
    <2>5. QED
      BY <2>1, <2>3, <2>4
  <1>13. ASSUME NEW p \in Procs \cup Doctors, EditReachesTable(p), Wait(p) PROVE Goal
    <2> DEFINE j == job[p]
    <2>1. /\ j.pc = "edit_db" /\ j.edit \in {"close", "paths"} /\ j.sid \in Sessions
          /\ rows' = rows /\ born' = born /\ ~stale /\ apart \subseteq apart'
      BY <1>13, Held DEF EditReachesTable, At, ControlOf, SweepOf, Sweeping, bounds
    <2>2. /\ job'[p].pc \in {"idle", "closing"}
          /\ p \in Doctors => job'[p].base = j.base
      <3>1. job'[p] = Return(p) /\ j \in Job
        BY <1>13 DEF EditReachesTable, Done, TypeOK
      <3>2. QED
        BY <3>1 DEF Return, Idle, Job
    <2>3. AgreeOf(r) /\ rows[r] \in LocalRow
      BY <1>1, <2>1 DEF TypeOK, Rows, AgreeOf
    <2>4. CASE r # j.sid \/ j.edit = "paths"
      <3>1. table'[r] = NoRow <=> table[r] = NoRow
        <4>1. table[r] # NoRow => table'[r] # NoRow
          BY TableGrows
        <4>2. table[r] = NoRow => table'[r] = NoRow
          BY <1>13 DEF EditReachesTable, OpenIn, TypeOK
        <4>3. QED
          BY <4>1, <4>2
      <3>2. table[r] # NoRow => table'[r].open = table[r].open
        <4>1. CASE r # j.sid
          BY <1>13, <4>1 DEF EditReachesTable, TypeOK
        <4>2. CASE r = j.sid /\ j.edit = "paths" /\ OpenIn(table, r)
          <5>1. table'[r] = [table[r] EXCEPT !.claim = j.want] /\ table[r] \in TableRow
            BY <1>13, <4>2 DEF EditReachesTable, OpenIn, TypeOK
          <5>2. QED
            BY <5>1 DEF TableRow
        <4>3. CASE r = j.sid /\ ~OpenIn(table, r)
          BY <1>13, <4>3 DEF EditReachesTable
        <4>4. QED
          BY <2>4, <4>1, <4>2, <4>3
      <3>3. Calm(r)
        BY <2>1, <2>3, <3>1, <3>2 DEF Calm, AgreeOf
      <3>4. Minds(p, r)
        BY <2>1, <2>2, <2>4 DEF Minds, Closing, Registering, Registrar, Marks, At, Behind
      <3>5. QED
        BY <1>3, <1>13, <2>1, <3>3, <3>4
    <2>5. CASE r = j.sid /\ j.edit = "close"
      <3>1. \A d \in Doctors : ~At(d, "idle")' /\ ClosedIn(job'[d].base, r) =>
                                   ~At(d, "idle") /\ ClosedIn(job[d].base, r)
        <4>1. ASSUME NEW d \in Doctors, d # p
              PROVE  (At(d, "idle")' <=> At(d, "idle")) /\ job'[d].base = job[d].base
          BY <1>13, <4>1 DEF Wait, At
        <4>2. QED
          BY <2>1, <2>2, <4>1 DEF At
      <3>2. (\A d \in Doctors : ~At(d, "idle") /\ ClosedIn(job[d].base, r) => ~rows[r].open)'
        BY <2>1, <2>3, <3>1 DEF AgreeOf
      <3>3. CASE table[r] = NoRow
        <4>1. r \in apart'
          BY <1>13, <2>5, <3>3 DEF EditReachesTable
        <4>2. QED
          BY <2>1, <2>3, <3>2, <4>1 DEF Goal, AgreeOf
      <3>4. CASE table[r] # NoRow /\ r \in apart'
        BY <2>1, <2>3, <3>2, <3>4 DEF Goal, AgreeOf
      <3>5. CASE table[r] # NoRow /\ r \notin apart'
        <4>1. table'[r] # NoRow
          BY <3>5, TableGrows
        <4>2. table'[r].open = FALSE
          <5>1. CASE OpenIn(table, r)
            <6>1. table'[r] = [table[r] EXCEPT !.open = FALSE] /\ table[r] \in TableRow
              BY <1>13, <2>5, <5>1 DEF EditReachesTable, OpenIn, TypeOK
            <6>2. QED
              BY <6>1 DEF TableRow
          <5>2. CASE ~OpenIn(table, r)
            <6>1. table'[r] = table[r] /\ table[r] \in TableRow
              BY <1>13, <2>5, <3>5, <5>2 DEF EditReachesTable, TypeOK
            <6>2. QED
              BY <3>5, <5>2, <6>1 DEF OpenIn, TableRow
          <5>3. QED
            BY <5>1, <5>2
        <4>3. Closing(p, r)
          BY <2>1, <2>5 DEF Closing, At
        <4>4. rows[r].open = FALSE
          BY <2>1, <2>3, <3>5, <4>3 DEF AgreeOf, LocalRow
        <4>5. \A q \in Procs : ~Registering(q, r)'
          <5>1. \A q \in Procs : ~Registering(q, r)
            BY <1>2, <3>5 DEF HaltOf, Barred
          <5>2. ~Registering(p, r)'
            BY <2>2 DEF Registering, At
          <5>3. QED
            BY <1>13, <5>1, <5>2 DEF Wait, Registering, At
        <4>6. QED
          BY <2>1, <2>3, <3>2, <4>1, <4>2, <4>4, <4>5 DEF Goal, AgreeOf
      <3>6. QED
        BY <3>3, <3>4, <3>5
    <2>6. QED
      BY <2>1, <2>4, <2>5
  <1>14. ASSUME NEW p \in Procs \cup Doctors, EditUnavailable(p), Wait(p) PROVE Goal
    <2>1. job'[p] = Return(p) /\ job[p] \in Job /\ job[p].pc = "edit_db" /\ job[p].sid \in apart'
      BY <1>14 DEF EditUnavailable, Done, At, TypeOK
    <2>2. /\ job'[p].pc \in {"idle", "closing"}
          /\ p \in Doctors => job'[p].base = job[p].base
      BY <2>1 DEF Return, Idle, Job
    <2>3. Minds(p, r)
      BY <2>1, <2>2 DEF Minds, Closing, Registering, Registrar, Marks, At, Behind
    <2>4. QED
      BY <1>5, <1>14, <2>3 DEF EditUnavailable
  <1>15. ASSUME NEW p \in Procs, PivotRefused(p), Wait(p) PROVE Goal
    <2>1. job'[p] = Idle /\ job[p].pc = "pivot_db"
      BY <1>15, Limits DEF PivotRefused, Done, Return, At, TypeOK
    <2>2. Minds(p, r)
      BY <2>1, Limits DEF Minds, Closing, Registering, Registrar, Marks, At, Idle
    <2>3. QED
      BY <1>5, <1>15, <2>2 DEF PivotRefused, ghosts
  <1>16. ASSUME NEW p \in Procs, PivotMoves(p) \/ PivotUnavailable(p), Wait(p) PROVE Goal
    <2>1. /\ job[p].pc = "pivot_db" /\ job'[p].pc = "pivot"
          /\ rows' = rows /\ born' = born /\ ~stale /\ apart' = apart
      BY <1>16 DEF PivotMoves, PivotUnavailable, Goto, At, TypeOK, Job, ghosts
    <2>2. Minds(p, r)
      BY <2>1, Limits DEF Minds, Closing, Registering, Registrar, Marks, At
    <2>3. Calm(r)
      <3>1. CASE table' = table
        BY <1>4, <2>1, <3>1
      <3>2. CASE PivotMoves(p) /\ table' # table
        <4>1. /\ table' = [table EXCEPT ![job[p].sid].claim = job[p].want]
              /\ table[job[p].sid] # NoRow
          BY <3>2 DEF PivotMoves
        <4>2. table[r] # NoRow => table'[r] # NoRow
          BY TableGrows
        <4>3. table[r] # NoRow => table'[r].open = table[r].open
          BY <4>1 DEF TypeOK, TableRow
        <4>4. table[r] = NoRow => table'[r] = NoRow
          BY <4>1 DEF TypeOK
        <4>5. QED
          BY <1>1, <2>1, <4>2, <4>3, <4>4 DEF Calm, AgreeOf
      <3>3. QED
        BY <1>16, <3>1, <3>2 DEF PivotUnavailable
    <2>4. QED
      BY <1>3, <1>16, <2>1, <2>2, <2>3
  <1>17. ASSUME NEW p \in Procs \cup Doctors, CommandRaises(p) \/ (p \in Procs /\ Dies(p)), Wait(p)
         PROVE  Goal
    <2>1. job'[p] = Idle /\ job[p].sid \in apart'
      BY <1>17 DEF CommandRaises, Dies, TypeOK
    <2>2. p \in Doctors => ~At(p, "sync")
      BY <1>17, Held, Limits DEF CommandRaises, Caught, SweepOf, Sweeping, At
    <2>3. Minds(p, r)
      BY <2>1, <2>2, Limits DEF Minds, Closing, Registering, Registrar, Marks, At, Idle, Behind
    <2>4. QED
      BY <1>5, <1>17, <2>3 DEF CommandRaises, Dies
  <1>18. ASSUME NEW d \in Doctors, DoctorStarts(d), Wait(d) PROVE Goal
    <2>1. /\ job[d].pc = "idle" /\ job'[d].pc = "sweep" /\ job'[d].base = rows
      BY <1>18 DEF DoctorStarts, At, TypeOK, Job
    <2>2. Minds(d, r)
      BY <2>1, Limits DEF Minds, Closing, ClosedIn, At, Behind
    <2>3. QED
      BY <1>5, <1>18, <2>2 DEF DoctorStarts, ghosts
  <1>19. ASSUME NEW d \in Doctors, Wait(d),
                DoctorSweeps(d) \/ DoctorUnavailable(d) \/ DoctorTurnsToPending(d)
         PROVE  Goal
    <2>1. /\ job[d].pc \in {"sweep", "closing"} /\ job'[d].pc \in {"closing", "sync"}
          /\ job'[d].base = job[d].base
      BY <1>19 DEF DoctorSweeps, DoctorUnavailable, DoctorTurnsToPending, At, TypeOK, Job
    <2>2. Minds(d, r)
      BY <2>1, Limits DEF Minds, Closing, At, Behind
    <2>3. QED
      BY <1>5, <1>19, <2>2 DEF DoctorSweeps, DoctorUnavailable, DoctorTurnsToPending, ghosts
  <1>20. ASSUME NEW d \in Doctors, DoctorRaises(d), Wait(d) PROVE Goal
    <2>1. job[d].pc = "sweep" /\ job'[d] = Idle
      BY <1>20 DEF DoctorRaises, At, TypeOK
    <2>2. Minds(d, r)
      BY <2>1, Limits DEF Minds, Closing, At, Idle, Behind
    <2>3. QED
      BY <1>5, <1>20, <2>2 DEF DoctorRaises, ghosts
  <1>21. ASSUME NEW d \in Doctors, NEW s \in Sessions, DoctorCompletes(d, s), Wait(d) PROVE Goal
    <2>1. /\ job[d].pc = "closing" /\ job'[d].pc \in {"closing", "edit"}
          /\ job'[d].base = job[d].base
      <3>1. CASE ClosedIn(rows, s)
        BY <1>21, <3>1 DEF DoctorCompletes, At, TypeOK, Job
      <3>2. CASE ~ClosedIn(rows, s)
        BY <1>21, <3>2 DEF DoctorCompletes, At, TypeOK, Job
      <3>3. QED
        BY <3>1, <3>2
    <2>2. Minds(d, r)
      BY <2>1, Limits DEF Minds, Closing, At, Behind
    <2>3. QED
      BY <1>5, <1>21, <2>2 DEF DoctorCompletes, ghosts
  <1>22. ASSUME NEW d \in Doctors, NEW s \in Sessions, DoctorSyncUnavailable(d, s), Wait(d)
         PROVE  Goal
    <2>1. /\ job[d].pc = "sync" /\ job'[d].pc = "sync"
          /\ job'[d].base = job[d].base /\ job'[d].mem = job[d].mem
      BY <1>22 DEF DoctorSyncUnavailable, At, TypeOK, Job
    <2>2. rows' = rows
      BY <1>22 DEF DoctorSyncUnavailable
    <2>3. Minds(d, r)
      BY <2>1, <2>2, Limits DEF Minds, Closing, At, Behind
    <2>4. QED
      BY <1>5, <1>22, <2>3 DEF DoctorSyncUnavailable, ghosts
  <1>23. ASSUME NEW d \in Doctors, NEW s \in Sessions, DoctorSyncs(d, s), Wait(d) PROVE Goal
    <2> DEFINE j == job[d]
    <2>1. /\ j \in Job /\ j.pc = "sync" /\ s \in Pending(j.mem) /\ MemOf(j)
          /\ job'[d].pc = "sync" /\ job'[d].base = j.base
          /\ job'[d].mem = [j.mem EXCEPT ![s].pending = FALSE]
          /\ rows' = rows /\ born' = born /\ apart' = apart /\ ~stale
      BY <1>23, Held DEF DoctorSyncs, At, SweepOf, MemInv, Sweeping, TypeOK, Job, bounds
    <2>2. AgreeOf(r) /\ rows[r] \in LocalRow
      BY <1>1, <2>1 DEF TypeOK, Rows, AgreeOf
    <2>3. CASE r # s \/ table[s] # NoRow
      <3>1. table'[r] = table[r]
        BY <1>23, <2>3 DEF DoctorSyncs, TypeOK
      <3>2. Calm(r)
        BY <2>1, <2>2, <3>1 DEF Calm, AgreeOf
      <3>3. Behind(d, r) => Behind(d, r)'
        <4>1. j.mem \in Rows /\ j.mem[s] # NoRow
          BY <2>1 DEF Job, Pending
        <4>2. ~j.mem[r].pending => ~job'[d].mem[r].pending
          BY <2>1, <4>1 DEF Rows, LocalRow
        <4>3. QED
          BY <2>1, <4>2 DEF Behind, At
      <3>4. Minds(d, r)
        BY <2>1, <3>3, Limits DEF Minds, Closing, At
      <3>5. QED
        BY <1>3, <1>23, <2>1, <3>2, <3>4
    <2>4. CASE r = s /\ table[s] = NoRow
      <3>1. /\ j.mem[r] \in LocalRow /\ j.mem[r].pending /\ ~j.mem[r].blocked
            /\ j.base[r] \in LocalRow
        BY <2>1, <2>4 DEF Job, Rows, Pending, MemOf
      <3>2. j.mem[r].open = j.base[r].open /\ j.base[r].pending
        BY <2>1, <3>1, Limits DEF MemOf, LocalRow
      <3>3. table'[r] # NoRow /\ table'[r].open = j.mem[r].open
        <4>1. table'[r] = [claim |-> j.mem[r].claim, open |-> j.mem[r].open]
          BY <1>23, <2>4 DEF DoctorSyncs, TypeOK
        <4>2. table'[r] \in TableRow
          BY <3>1, <4>1 DEF LocalRow, TableRow
        <4>3. QED
          BY <4>1, <4>2, Limits
      <3>4. \A q \in Procs : ~Registering(q, r)'
        <4>1. j.mem \in Copies /\ Marked(j.mem, r)
          BY <2>1, <2>4 DEF Copies, Marked, Pending
        <4>2. \A q \in Procs : ~Registering(q, r)
          BY <1>2, <4>1 DEF HaltOf, Barred
        <4>3. \A q \in Procs : job'[q] = job[q]
          BY <1>23, Limits DEF Wait
        <4>4. QED
          BY <4>2, <4>3 DEF Registering, At
      <3>5. \A q \in Procs \cup Doctors : Closing(q, r)' <=> Closing(q, r)
        <4>1. ~Closing(d, r) /\ ~Closing(d, r)'
          BY <2>1 DEF Closing, At
        <4>2. QED
          BY <1>23, <4>1 DEF Wait, Closing, At
      <3>6. \A e \in Doctors : /\ At(e, "idle")' <=> At(e, "idle")
                               /\ job'[e].base = job[e].base
        BY <1>23, <2>1 DEF Wait, At
      <3>7. (\A e \in Doctors : ~At(e, "idle") /\ ClosedIn(job[e].base, r) => ~rows[r].open)'
        BY <2>1, <2>2, <3>6 DEF AgreeOf
      <3>8. (\/ rows[r].open = table[r].open
             \/ \E e \in Doctors : Behind(e, r))'
        <4>1. CASE ~j.base[r].open
          <5>1. ~rows[r].open
            BY <2>1, <2>2, <3>1, <4>1, Limits DEF AgreeOf, At, ClosedIn
          <5>2. QED
            BY <2>1, <2>2, <3>1, <3>2, <3>3, <4>1, <5>1 DEF LocalRow
        <4>2. CASE j.base[r].open /\ rows[r].open
          BY <2>1, <2>2, <3>1, <3>2, <3>3, <4>2 DEF LocalRow
        <4>3. CASE j.base[r].open /\ ~rows[r].open
          <5>1. job'[d].mem[r].pending = FALSE
            BY <2>1, <2>4, <3>1 DEF Job, Rows, LocalRow
          <5>2. Behind(d, r)'
            BY <2>1, <3>1, <3>2, <4>3, <5>1, Limits DEF Behind, At
          <5>3. QED
            BY <5>2
        <4>4. QED
          BY <4>1, <4>2, <4>3
      <3>9. QED
        BY <2>1, <2>2, <3>3, <3>4, <3>5, <3>7, <3>8 DEF Goal, AgreeOf
    <2>5. QED
      BY <2>3, <2>4
  <1>24. ASSUME NEW d \in Doctors, DoctorSettles(d), Wait(d) PROVE Goal
    <2> DEFINE j == job[d]
    <2>1. /\ j \in Job /\ j.pc = "sync" /\ MemOf(j) /\ job'[d] = Idle /\ ~stale
          /\ table' = table /\ born' = born /\ apart' = apart
          /\ j.mem # j.base => rows' = j.mem /\ rows = j.base
          /\ j.mem = j.base => rows' = rows
      BY <1>24, Held DEF DoctorSettles, At, MemInv, Sweeping, TypeOK
    <2>2. AgreeOf(r) /\ rows[r] \in LocalRow
      BY <1>1, <2>1 DEF TypeOK, Rows, AgreeOf
    <2>3. CASE j.mem = j.base
      <3>1. ~Behind(d, r)
        BY <2>3 DEF Behind
      <3>2. Minds(d, r)
        BY <2>1, <3>1, Limits DEF Minds, Closing, At, Idle
      <3>3. QED
        BY <1>3, <1>4, <1>24, <2>1, <2>3, <3>2
    <2>4. CASE j.mem # j.base
      <3>1. /\ rows'[r] = j.mem[r] /\ rows[r] = j.base[r] /\ rows'[r] \in LocalRow
            /\ rows'[r] # NoRow
        BY <2>1, <2>2, <2>4, Limits DEF MemOf, Job, Rows
      <3>2. /\ rows'[r].open = (rows[r].open /\ ~rows[r].blocked)
            /\ rows[r].pending /\ ~rows[r].blocked /\ ~rows'[r].pending => table[r] # NoRow
        BY <2>1, <2>2, <3>1, Limits DEF MemOf
      <3>3. CASE ~rows[r].blocked
        <4>1. ~Behind(d, r)
          BY <3>1 DEF Behind
        <4>2. CASE rows[r].pending => rows'[r].pending
          <5>1. Calm(r)
            BY <2>1, <2>2, <3>1, <3>2, <3>3, <4>2 DEF Calm, LocalRow
          <5>2. Minds(d, r)
            BY <2>1, <4>1, Limits DEF Minds, Closing, At, Idle
          <5>3. QED
            BY <1>3, <1>24, <2>1, <5>1, <5>2
        <4>3. CASE rows[r].pending /\ ~rows'[r].pending
          <5>1. table'[r] # NoRow /\ rows'[r].open = rows[r].open
            BY <2>1, <2>2, <3>1, <3>2, <3>3, <4>3 DEF LocalRow
          <5>2. \A q \in Procs \cup Doctors : Closing(q, r)' <=> Closing(q, r)
            <6>1. ~Closing(d, r) /\ ~Closing(d, r)'
              BY <2>1 DEF Closing, At, Idle
            <6>2. QED
              BY <1>24, <6>1 DEF Wait, Closing, At
          <5>3. \A q \in Procs : Registering(q, r)' <=> Registering(q, r)
            BY <1>24, Limits DEF Wait, Registering, At
          <5>4. \A e \in Doctors : Behind(e, r) => Behind(e, r)'
            BY <1>24, <4>1, <5>1 DEF Wait, Behind, At
          <5>5. \A e \in Doctors : ~At(e, "idle")' => job'[e] = job[e] /\ ~At(e, "idle")
            BY <1>24, <2>1 DEF Wait, At, Idle
          <5>6. (\A e \in Doctors : ~At(e, "idle") /\ ClosedIn(job[e].base, r) => ~rows[r].open)'
            BY <2>2, <5>1, <5>5 DEF AgreeOf
          <5>7. QED
            BY <2>1, <2>2, <3>1, <5>1, <5>2, <5>3, <5>4, <5>6 DEF Goal, AgreeOf
        <4>4. QED
          BY <4>2, <4>3
      <3>4. CASE rows[r].blocked
        <4>1. Halted(rows, r) /\ rows \in Copies
          BY <2>2, <3>4, Limits DEF Halted, Copies, AgreeOf
        <4>2. table[r] = NoRow /\ \A q \in Procs : ~Registrar(q, r)
          BY <1>2, <4>1 DEF HaltOf
        <4>3. ~rows'[r].open
          BY <3>2, <3>4
        <4>4. \A q \in Procs : ~Registering(q, r)'
          BY <1>24, <4>2, Limits DEF Wait, Registrar, Registering, At
        <4>5. QED
          BY <2>1, <3>1, <4>2, <4>3, <4>4 DEF Goal, AgreeOf
      <3>5. QED
        BY <3>3, <3>4
    <2>5. QED
      BY <2>3, <2>4
  <1>25. ASSUME job' = job, rows' = rows, born' = born, ~stale, apart \subseteq apart',
                r \notin apart' => table'[r] = table[r]
         PROVE  Goal
    <2>1. \A q \in Procs \cup Doctors : /\ Closing(q, r)' <=> Closing(q, r)
                                        /\ Registering(q, r)' <=> Registering(q, r)
                                        /\ Registrar(q, r)' <=> Registrar(q, r)
                                        /\ At(q, "idle")' <=> At(q, "idle")
                                        /\ Behind(q, r)' <=> Behind(q, r)
      BY <1>25 DEF Closing, Registering, Registrar, Marks, At, Behind
    <2>2. QED
      BY <1>1, <1>25, <2>1 DEF Goal, AgreeOf
  <1>26. ASSUME NEW s \in HookSessions, HookEnsuresRow(s) PROVE Goal
    BY <1>25, <1>26 DEF HookEnsuresRow, bounds, TypeOK
  <1>27. ASSUME HookEndsSession \/ UNCHANGED vars PROVE Goal
    BY <1>25, <1>27 DEF HookEndsSession, vars, bounds, ghosts, TypeOK
  <1>28. QED
    <2>1. ASSUME NEW p \in Procs, Command(p) \/ Step(p) \/ Dies(p) PROVE Goal
      <3>1. Wait(p)
        BY <2>1, OthersWait DEF Wait, TypeOK
      <3>2. ASSUME Command(p) PROVE Goal
        BY <1>6, <1>7, <3>1, <3>2 DEF Command, Complete, Update
      <3>3. ASSUME Step(p) PROVE Goal
        BY <1>8, <1>9, <1>10, <1>11, <1>12, <1>13, <1>14, <1>15, <1>16, <1>17, <3>1, <3>3 DEF Step
      <3>4. QED
        BY <1>17, <2>1, <3>1, <3>2, <3>3
    <2>2. ASSUME NEW d \in Doctors, DoctorStarts(d) \/ DoctorStep(d) PROVE Goal
      <3>1. Wait(d)
        BY <2>2, OthersWait DEF Wait, TypeOK
      <3>2. ASSUME DoctorStep(d) PROVE Goal
        BY <1>12, <1>13, <1>14, <1>17, <1>19, <1>20, <1>21, <1>22, <1>23, <1>24, <3>1, <3>2
           DEF DoctorStep
      <3>3. QED
        BY <1>18, <2>2, <3>1, <3>2
    <2>3. QED
      BY <1>26, <1>27, <2>1, <2>2 DEF Next, Goal

-----------------------------------------------------------------------------
LEMMA InitHolds == Init => IntentInv
  <1> SUFFICES ASSUME Init PROVE IntentInv
    OBVIOUS
  <1>1. TypeOK
    <2>1. rows \in Rows /\ table \in [Sessions -> TableRow \cup {NoRow}]
      BY DEF Init, Rows, NoRows
    <2>2. job \in [Procs \cup Doctors -> Job]
      BY IdleTyped DEF Init
    <2>3. /\ backend \in Backends /\ born = {} /\ unchecked = {} /\ passed = {} /\ apart = {} /\ stale = FALSE
          /\ faults = 0 /\ edits = 0
      BY DEF Init
    <2>4. 0 \in 0..MaxFaults /\ 0 \in 0..MaxEdits
      BY Limits
    <2>5. QED
      BY <2>1, <2>2, <2>3, <2>4 DEF TypeOK
  <1>2. \A p \in Procs \cup Doctors : job[p] = Idle
    BY DEF Init
  <1>3. ControlInv /\ KnownInv /\ MemInv
    BY <1>2 DEF ControlInv, ControlOf, SweepOf, Sweeping, KnownInv, MemInv, Idle
  <1>4. HaltInv
    <2>1. Copies \subseteq {NoRows}
      BY <1>2 DEF Init, Copies, Idle
    <2>2. \A p \in Procs, s \in Sessions : ~Registrar(p, s) /\ ~Barred(p, s)
      BY <1>2 DEF Idle, Registrar, Barred, Registering, Marks, At
    <2>3. \A s \in Sessions : NoRows[s] = NoRow
      BY DEF NoRows
    <2>4. QED
      BY <2>1, <2>2, <2>3 DEF HaltInv, HaltOf, Halted, Marked
  <1>5. PassedInv /\ AgreeInv
    BY DEF Init, PassedInv, Checked, OpenIn, NoRows, AgreeInv
  <1>6. QED
    BY <1>1, <1>3, <1>4, <1>5 DEF IntentInv

LEMMA InvImplies == IntentInv => RegistryInv
  <1> SUFFICES ASSUME IntentInv PROVE RegistryInv
    OBVIOUS
  <1> USE DEF IntentInv
  <1>1. HaltedStaysOut
    BY DEF HaltedStaysOut, HaltInv, HaltOf, Halted, Copies
  <1>2. RowsOutliveRewrites
    BY DEF RowsOutliveRewrites, AgreeInv, AgreeOf, TypeOK
  <1>3. StoresAgree
    <2> SUFFICES ASSUME \A p \in Procs \cup Doctors : At(p, "idle"), ~stale,
                        NEW s \in born \ apart
                 PROVE  IF table[s] = NoRow THEN rows[s].open => rows[s].pending
                        ELSE rows[s].open = table[s].open
      BY DEF StoresAgree
    <2>1. AgreeOf(s)
      BY DEF AgreeInv
    <2>2. /\ \A p \in Procs \cup Doctors : ~Closing(p, s)
          /\ \A p \in Procs : ~Registrar(p, s)
          /\ \A d \in Doctors : ~Behind(d, s)
      BY DEF Closing, Registrar, Registering, Marks, Behind, At
    <2>3. QED
      BY <2>1, <2>2 DEF AgreeOf
  <1>4. QED
    BY <1>1, <1>2, <1>3, PassedExplains DEF RegistryInv

(* The inductive invariant holds in every reachable state.                 *)
THEOREM RegistryCorrect == Spec => []IntentInv
  <1>1. IntentInv /\ [Next]_vars => IntentInv'
    BY ShapeStep, KnownStep, HaltStep, MemStep, PassedStep, AgreeStep DEF IntentInv
  <1>2. QED
    BY InitHolds, <1>1, PTL DEF Spec

(* Open areas overlap only where the check was passed over or, on SQLite,  *)
(* where the second one's could not see the first, a session that a        *)
(* collision halted stays out of the table, no row vanishes but by a       *)
(* rewrite of rows not read, and but for those the stores agree at rest.   *)
THEOREM RegistryIsKept == Spec => []RegistryInv
  BY RegistryCorrect, InvImplies, PTL
=============================================================================
