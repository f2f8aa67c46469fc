--------------------------- MODULE IntentRegistry ---------------------------
(***************************************************************************)
(* bin/intent: which agent session works on which area of the tree.        *)
(*                                                                         *)
(* A session is written twice: in intent_local.jsonl, a file every command *)
(* of the host reads and replaces, and in the agent_sessions table.  The   *)
(* table is changed in serializable transactions.  The file is not: an     *)
(* append holds the flock over its read and its write, but every other     *)
(* command reads the rows without it and then replaces the whole file, so  *)
(* what was written in between is undone.                                  *)
(*                                                                         *)
(* A job of a process is one command: register, update, complete, pivot,   *)
(* or the doctor, which runs complete for the sessions whose trigger is    *)
(* met and inserts the rows the table has missed.                          *)
(***************************************************************************)
EXTENDS Naturals, FiniteSets

CONSTANTS
    Sessions,       \* session ids, each issued once
    HookSessions,   \* those that belong to the one Claude session with hooks
    Claims,         \* what a session may ask for: [area, paths]
    Wants,          \* the claims each session may ask for
    Unscoped,       \* the claim of a row the hooks insert
    Touches,        \* pairs of path globs that _globs_overlap finds to meet
    Within,         \* <<x, paths>>: the JSON text of the list paths has x as a part
    Procs,          \* processes that run the operator's commands
    Doctors,        \* processes that run bin/intent doctor
    Backends,       \* those of "mysql" and "sqlite" the host may be set to
    MaxFaults,      \* how often the database is out of reach or a command is killed
    MaxEdits,       \* how often update, complete and pivot are called
    GoOn,           \* whether commands begin after a rewrite has undone another
    NoRow, NoSession, NoClaim

LocalRow == [claim : Claims, open : BOOLEAN, pending : BOOLEAN, blocked : BOOLEAN]
TableRow == [claim : Claims, open : BOOLEAN]

ASSUME RegistryAssumption ==
    /\ Touches \subseteq (UNION {c.paths : c \in Claims}) \X (UNION {c.paths : c \in Claims})
    /\ \A t \in Touches : <<t[2], t[1]>> \in Touches
    /\ \A c \in Claims : \A x \in c.paths : <<x, x>> \in Touches
    /\ Within \subseteq (UNION {c.paths : c \in Claims}) \X {c.paths : c \in Claims}
    /\ Unscoped \in Claims /\ Wants \in [Sessions -> SUBSET Claims]
    /\ Backends \subseteq {"mysql", "sqlite"}
    /\ HookSessions \subseteq Sessions /\ Procs \cap Doctors = {}
    /\ MaxFaults \in Nat /\ MaxEdits \in Nat /\ GoOn \in BOOLEAN
    /\ NoRow \notin LocalRow \cup TableRow

VARIABLES
    rows,       \* intent_local.jsonl: the row of each session
    table,      \* agent_sessions: the row of each session
    job,        \* what each process is doing
    backend,    \* SPLOCK_INTENT_BACKEND
    faults, edits,
    born,       \* ghost: sessions bin/intent register has written
    unchecked,  \* ghost: sessions let in without the check, or over what it found
    passed,     \* ghost: <<s, t>>: the check let s's claim in beside the open one of t
    apart,      \* ghost: sessions one store of which a command did not reach
    stale       \* ghost: a rewrite has replaced rows it had not read

ghosts == <<born, unchecked, passed, apart, stale>>
bounds == <<backend, faults, edits>>
vars == <<rows, table, job, bounds, ghosts>>

Rows == [Sessions -> LocalRow \cup {NoRow}]
NoRows == [s \in Sessions |-> NoRow]

Idle == [pc |-> "idle", sid |-> NoSession, want |-> NoClaim, edit |-> "none",
         seen |-> NoRows, base |-> NoRows, mem |-> NoRows, todo |-> {}]

Job == [pc : {"idle", "register", "mark", "replace", "edit", "edit_db", "pivot_db",
              "pivot", "sweep", "closing", "sync", "settle"},
        sid : Sessions \cup {NoSession}, want : Claims \cup {NoClaim},
        edit : {"none", "close", "paths", "pending", "blocked", "pivot"},
        seen : Rows, base : Rows, mem : Rows, todo : SUBSET Sessions]

Init ==
    /\ rows = NoRows /\ table = NoRows
    /\ job = [p \in Procs \cup Doctors |-> Idle]
    /\ backend \in Backends /\ faults = 0 /\ edits = 0
    /\ born = {} /\ unchecked = {} /\ passed = {} /\ apart = {} /\ stale = FALSE

OpenIn(store, s) == store[s] # NoRow /\ store[s].open
ClosedIn(store, s) == store[s] # NoRow /\ ~store[s].open

(* A command that ends; a doctor's complete goes back to the doctor.       *)
Return(p) == IF p \in Doctors
             THEN [job[p] EXCEPT !.pc = "closing", !.sid = NoSession, !.edit = "none",
                                 !.seen = NoRows]
             ELSE Idle

(* The bound on histories whose file has already lost something.           *)
Begins == GoOn \/ ~stale

At(p, pc) == job[p].pc = pc
Goto(p, pc) == job' = [job EXCEPT ![p].pc = pc]
Done(p) == job' = [job EXCEPT ![p] = Return(p)]

(***************************************************************************)
(* The database.                                                           *)
(***************************************************************************)

(* Which lists of paths the query finds for a claim: on MySQL those that   *)
(* share a path with it, on SQLite those whose text has one of its paths   *)
(* (but not the empty one) as a part, be it of a longer path.              *)
Finds(c, paths) == IF backend = "mysql" THEN paths \cap c.paths # {}
                   ELSE \E x \in c.paths : <<x, paths>> \in Within

(* The open sessions whose area is the claim's or whose paths are found,   *)
(* kept when one of their globs meets one of the claim's.                  *)
Candidates(s, c) ==
    {t \in Sessions \ {s} : /\ OpenIn(table, t)
                            /\ \/ table[t].claim.area = c.area
                               \/ Finds(c, table[t].claim.paths)}

Colliding(s, c) ==
    {t \in Candidates(s, c) : \E x \in table[t].claim.paths, y \in c.paths : <<x, y>> \in Touches}

(* Who has passed whom, once s has come in by the check.                   *)
Passing(s) == {pair \in passed : pair[1] # s /\ pair[2] # s}
              \cup {<<s, t>> : t \in {u \in Sessions \ {s} : OpenIn(table, u)}}

(* No connection, or no write lock in time.  The first is MySQLUnavailable,*)
(* which every command catches; SQLiteBusy is no subclass of it and ends   *)
(* the command.                                                            *)
Unreachable == faults < MaxFaults /\ faults' = faults + 1
Caught == backend = "mysql"

CommandRaises(p) ==
    /\ job[p].pc \in {"register", "edit_db", "pivot_db", "sync"}
    /\ ~Caught /\ Unreachable
    /\ job' = [job EXCEPT ![p] = Idle]
    /\ apart' = apart \cup {job[p].sid}
    /\ UNCHANGED <<rows, table, backend, edits, born, unchecked, passed, stale>>

(* The doctor's sweep and the hooks name the table extraction.agent_sessions:*)
(* SQLite has no such schema.                                              *)
HasSchema == backend = "mysql"

(***************************************************************************)
(* register                                                                *)
(***************************************************************************)

(* The local row first, under the flock; with the fast path the database   *)
(* is left to the doctor.                                                  *)
RegisterAppends(p, s, c, fast) ==
    /\ At(p, "idle") /\ p \in Procs /\ Begins
    /\ s \notin born /\ table[s] = NoRow
    /\ rows' = [rows EXCEPT ![s] = [claim |-> c, open |-> TRUE, pending |-> FALSE,
                                    blocked |-> FALSE]]
    /\ born' = born \cup {s}
    /\ job' = [job EXCEPT ![p].pc = IF fast THEN "mark" ELSE "register", ![p].sid = s,
                          ![p].want = c, ![p].edit = IF fast THEN "pending" ELSE "none"]
    /\ UNCHANGED <<table, bounds, unchecked, passed, apart, stale>>

RegisterInserts(p) ==
    /\ At(p, "register") /\ Colliding(job[p].sid, job[p].want) = {}
    /\ table' = [table EXCEPT ![job[p].sid] = [claim |-> job[p].want, open |-> TRUE]]
    /\ job' = [job EXCEPT ![p] = Idle]
    /\ passed' = Passing(job[p].sid)
    /\ UNCHANGED <<rows, bounds, born, unchecked, apart, stale>>

(* A collision with the halt action: a collision row, no session row.      *)
RegisterHalts(p) ==
    /\ At(p, "register") /\ Colliding(job[p].sid, job[p].want) # {}
    /\ job' = [job EXCEPT ![p].pc = "mark", ![p].edit = "blocked"]
    /\ UNCHANGED <<rows, table, bounds, ghosts>>

(* With warn or log_only, or when both sides carry the sentinel area, the  *)
(* session is inserted beside the collision row.                           *)
RegisterProceeds(p) ==
    /\ At(p, "register") /\ Colliding(job[p].sid, job[p].want) # {}
    /\ table' = [table EXCEPT ![job[p].sid] = [claim |-> job[p].want, open |-> TRUE]]
    /\ unchecked' = unchecked \cup {job[p].sid}
    /\ job' = [job EXCEPT ![p] = Idle]
    /\ UNCHANGED <<rows, bounds, born, passed, apart, stale>>

RegisterUnavailable(p) ==
    /\ At(p, "register") /\ Caught /\ Unreachable
    /\ job' = [job EXCEPT ![p].pc = "mark", ![p].edit = "pending"]
    /\ UNCHANGED <<rows, table, backend, edits, ghosts>>

(***************************************************************************)
(* Edits of the file: read without the flock, replace with it.             *)
(***************************************************************************)

(* What a command changes in the row of its session.                       *)
Edited(file, s, edit, c) ==
    IF file[s] = NoRow THEN file
    ELSE CASE edit = "close"   -> [file EXCEPT ![s].open = FALSE]
           [] edit = "paths"   -> [file EXCEPT ![s].claim = c]
           [] edit = "pivot"   -> [file EXCEPT ![s].claim = c]
           [] edit = "pending" -> [file EXCEPT ![s].pending = TRUE]
           [] edit = "blocked" -> [file EXCEPT ![s].pending = TRUE, ![s].blocked = TRUE]

(* complete and update refuse a session the file shows closed.             *)
CommandReads(p, s, edit, c) ==
    /\ At(p, "idle") /\ p \in Procs /\ Begins /\ s \in born
    /\ ~ClosedIn(rows, s)
    /\ edits < MaxEdits /\ edits' = edits + 1
    /\ job' = [job EXCEPT ![p].pc = "edit", ![p].sid = s, ![p].want = c, ![p].edit = edit,
                          ![p].seen = rows]
    /\ UNCHANGED <<rows, table, backend, faults, ghosts>>

Complete(p, s) == CommandReads(p, s, "close", NoClaim)
Update(p, s, c) == CommandReads(p, s, "paths", c)

(* The marks of register, and pivot's local step, read when they come to it.*)
MarkReads(p) ==
    /\ job[p].pc \in {"mark", "pivot"}
    /\ job' = [job EXCEPT ![p].pc = "replace", ![p].seen = rows]
    /\ UNCHANGED <<rows, table, bounds, ghosts>>

FileReplaced(p) ==
    LET j == job[p] IN
    /\ rows' = Edited(j.seen, j.sid, j.edit, j.want)
    /\ stale' = (stale \/ j.seen # rows)

MarkWrites(p) ==
    /\ At(p, "replace") /\ FileReplaced(p)
    /\ job' = [job EXCEPT ![p] = Idle]
    /\ UNCHANGED <<table, bounds, born, unchecked, passed, apart>>

EditWrites(p) ==
    /\ At(p, "edit") /\ FileReplaced(p)
    /\ job' = [job EXCEPT ![p].pc = "edit_db", ![p].seen = NoRows]
    /\ UNCHANGED <<table, bounds, born, unchecked, passed, apart>>

(* Then the table: a row found closed is refused, a row not found leaves   *)
(* the file's word alone.  An update of the paths is not checked against   *)
(* the other sessions.                                                     *)
EditReachesTable(p) ==
    LET j == job[p] IN
    /\ At(p, "edit_db")
    /\ table' = IF ~OpenIn(table, j.sid) THEN table
                ELSE IF j.edit = "close" THEN [table EXCEPT ![j.sid].open = FALSE]
                ELSE [table EXCEPT ![j.sid].claim = j.want]
    /\ unchecked' = unchecked \cup (IF j.edit = "paths" THEN {j.sid} ELSE {})
    /\ apart' = apart \cup (IF j.edit = "close" /\ table[j.sid] = NoRow THEN {j.sid} ELSE {})
    /\ Done(p)
    /\ UNCHANGED <<rows, bounds, born, passed, stale>>

EditUnavailable(p) ==
    /\ At(p, "edit_db") /\ Caught /\ Unreachable
    /\ apart' = apart \cup {job[p].sid}
    /\ Done(p)
    /\ UNCHANGED <<rows, table, backend, edits, born, unchecked, passed, stale>>

(***************************************************************************)
(* pivot                                                                   *)
(***************************************************************************)

(* A session neither store knows is refused; the file is not asked whether *)
(* the session is closed.                                                  *)
Pivot(p, s, c) ==
    /\ At(p, "idle") /\ p \in Procs /\ Begins
    /\ rows[s] # NoRow \/ table[s] # NoRow
    /\ edits < MaxEdits /\ edits' = edits + 1
    /\ job' = [job EXCEPT ![p].pc = "pivot_db", ![p].sid = s, ![p].want = c,
                          ![p].edit = "pivot"]
    /\ UNCHANGED <<rows, table, backend, faults, ghosts>>

PivotRefused(p) ==
    /\ At(p, "pivot_db")
    /\ \/ ClosedIn(table, job[p].sid)
       \/ Colliding(job[p].sid, job[p].want) # {}
    /\ Done(p)
    /\ UNCHANGED <<rows, table, bounds, ghosts>>

PivotMoves(p) ==
    LET j == job[p] IN
    /\ At(p, "pivot_db")
    /\ ~ClosedIn(table, j.sid) /\ Colliding(j.sid, j.want) = {}
    /\ table' = IF table[j.sid] = NoRow THEN table ELSE [table EXCEPT ![j.sid].claim = j.want]
    /\ unchecked' = IF table[j.sid] = NoRow THEN unchecked ELSE unchecked \ {j.sid}
    /\ passed' = IF table[j.sid] = NoRow THEN passed ELSE Passing(j.sid)
    /\ Goto(p, "pivot")
    /\ UNCHANGED <<rows, bounds, born, apart, stale>>

PivotUnavailable(p) ==
    /\ At(p, "pivot_db") /\ Caught /\ Unreachable
    /\ Goto(p, "pivot")
    /\ UNCHANGED <<rows, table, backend, edits, ghosts>>

(***************************************************************************)
(* doctor                                                                  *)
(***************************************************************************)

(* Step A, in memory: the rows a collision blocked are closed.             *)
Unblocked(file) ==
    [s \in Sessions |-> IF file[s] # NoRow /\ file[s].blocked /\ file[s].open
                        THEN [file[s] EXCEPT !.open = FALSE, !.pending = FALSE] ELSE file[s]]

(* By hand, or forked after a registration or a session's start, then at   *)
(* most once an interval.                                                  *)
DoctorStarts(d) ==
    /\ At(d, "idle") /\ d \in Doctors /\ Begins
    /\ job' = [job EXCEPT ![d].pc = "sweep", ![d].base = rows, ![d].mem = Unblocked(rows)]
    /\ UNCHANGED <<rows, table, bounds, ghosts>>

PendingWithBlocked(file) == {s \in Sessions : file[s] # NoRow /\ file[s].pending} \* (wrong)

Pending(file) == {s \in Sessions : file[s] # NoRow /\ file[s].pending /\ ~file[s].blocked}

(* Step B: the open sessions of the table, of which some meet their        *)
(* closure trigger.                                                        *)
DoctorSweeps(d) ==
    /\ At(d, "sweep") /\ HasSchema
    /\ \E met \in SUBSET {s \in Sessions : OpenIn(table, s)} :
          job' = [job EXCEPT ![d].pc = "closing", ![d].todo = met]
    /\ UNCHANGED <<rows, table, bounds, ghosts>>

DoctorUnavailable(d) ==
    /\ At(d, "sweep") /\ Caught /\ Unreachable
    /\ job' = [job EXCEPT ![d].pc = "closing", ![d].todo = {}]
    /\ UNCHANGED <<rows, table, backend, edits, ghosts>>

DoctorRaises(d) ==
    /\ At(d, "sweep") /\ ~HasSchema
    /\ job' = [job EXCEPT ![d] = Idle]
    /\ UNCHANGED <<rows, table, bounds, ghosts>>

(* One `bin/intent complete` after the other, each a process of its own.   *)
DoctorCompletes(d, s) ==
    /\ At(d, "closing") /\ s \in job[d].todo
    /\ LET left == [job[d] EXCEPT !.todo = @ \ {s}] IN
       job' = [job EXCEPT ![d] = IF ClosedIn(rows, s) THEN left
                                 ELSE [left EXCEPT !.pc = "edit", !.sid = s, !.edit = "close",
                                                   !.seen = rows]]
    /\ UNCHANGED <<rows, table, bounds, ghosts>>

DoctorTurnsToOpen(d) == \* (wrong: a session closed while it waited is left out)
    /\ At(d, "closing") /\ job[d].todo = {}
    /\ job' = [job EXCEPT ![d].pc = "sync",
                          ![d].todo = {s \in Pending(job[d].mem) : job[d].mem[s].open}]
    /\ UNCHANGED <<rows, table, bounds, ghosts>>

(* Step C: every pending row of the copy it has held since step A.         *)
DoctorTurnsToPending(d) ==
    /\ At(d, "closing") /\ job[d].todo = {}
    /\ job' = [job EXCEPT ![d].pc = "sync", ![d].todo = Pending(job[d].mem)]
    /\ UNCHANGED <<rows, table, bounds, ghosts>>

DoctorSyncs(d, s) ==
    LET r == job[d].mem[s] IN
    /\ At(d, "sync") /\ s \in job[d].todo
    /\ IF table[s] = NoRow
       THEN /\ table' = [table EXCEPT ![s] = [claim |-> r.claim, open |-> r.open]]
            /\ unchecked' = unchecked \cup {s}
       ELSE UNCHANGED <<table, unchecked>>
    /\ job' = [job EXCEPT ![d].todo = @ \ {s}, ![d].mem = [@ EXCEPT ![s].pending = FALSE]]
    /\ UNCHANGED <<rows, bounds, born, passed, apart, stale>>

DoctorSyncUnavailable(d, s) ==
    /\ At(d, "sync") /\ s \in job[d].todo /\ Caught /\ Unreachable
    /\ job' = [job EXCEPT ![d].todo = @ \ {s}]
    /\ UNCHANGED <<rows, table, backend, edits, ghosts>>

(* The copy replaces the file when the doctor changed it.                  *)
DoctorSettles(d) ==
    LET j == job[d] IN
    /\ At(d, "sync") /\ j.todo = {}
    /\ IF j.mem # j.base
       THEN rows' = j.mem /\ stale' = (stale \/ j.base # rows)
       ELSE UNCHANGED <<rows, stale>>
    /\ job' = [job EXCEPT ![d] = Idle]
    /\ UNCHANGED <<table, bounds, born, unchecked, passed, apart>>

(***************************************************************************)
(* The hooks of a Claude session write the table only.                     *)
(***************************************************************************)

HookHasRow == \E s \in HookSessions : OpenIn(table, s)

(* Every prompt makes sure of an open row, whatever claims are open.       *)
HookEnsuresRow(s) ==
    /\ HasSchema /\ Begins /\ s \in HookSessions /\ ~HookHasRow
    /\ s \notin born /\ table[s] = NoRow
    /\ table' = [table EXCEPT ![s] = [claim |-> Unscoped, open |-> TRUE]]
    /\ unchecked' = unchecked \cup {s}
    /\ UNCHANGED <<rows, job, bounds, born, passed, apart, stale>>

(* The end of the session closes all its rows; the file keeps them open.   *)
HookEndsSession ==
    /\ HasSchema /\ Begins /\ HookHasRow
    /\ table' = [s \in Sessions |-> IF s \in HookSessions /\ OpenIn(table, s)
                                    THEN [table[s] EXCEPT !.open = FALSE] ELSE table[s]]
    /\ apart' = apart \cup {s \in HookSessions : OpenIn(table, s)}
    /\ UNCHANGED <<rows, job, bounds, born, unchecked, passed, stale>>

(* A command is killed between two of its steps.                           *)
Dies(p) ==
    /\ ~At(p, "idle") /\ p \in Procs /\ faults < MaxFaults
    /\ faults' = faults + 1
    /\ apart' = apart \cup {job[p].sid}
    /\ job' = [job EXCEPT ![p] = Idle]
    /\ UNCHANGED <<rows, table, backend, edits, born, unchecked, passed, stale>>

(***************************************************************************)
(* The system.                                                             *)
(***************************************************************************)

Command(p) ==
    \E s \in Sessions :
        \/ \E c \in Wants[s] : \/ \E fast \in BOOLEAN : RegisterAppends(p, s, c, fast)
                               \/ Update(p, s, c)
                               \/ Pivot(p, s, c)
        \/ Complete(p, s)

Step(p) ==
    \/ RegisterInserts(p) \/ RegisterHalts(p) \/ RegisterProceeds(p) \/ RegisterUnavailable(p)
    \/ MarkReads(p) \/ MarkWrites(p)
    \/ EditWrites(p) \/ EditReachesTable(p) \/ EditUnavailable(p)
    \/ PivotRefused(p) \/ PivotMoves(p) \/ PivotUnavailable(p)
    \/ CommandRaises(p)

DoctorStep(d) ==
    \/ DoctorSweeps(d) \/ DoctorUnavailable(d) \/ DoctorRaises(d)
    \/ DoctorTurnsToPending(d) \/ DoctorSettles(d)
    \/ \E s \in Sessions : DoctorCompletes(d, s) \/ DoctorSyncs(d, s)
                           \/ DoctorSyncUnavailable(d, s)
    \/ EditWrites(d) \/ EditReachesTable(d) \/ EditUnavailable(d) \/ CommandRaises(d)

Next ==
    \/ \E p \in Procs : Command(p) \/ Step(p) \/ Dies(p)
    \/ \E d \in Doctors : DoctorStarts(d) \/ DoctorStep(d)
    \/ \E s \in HookSessions : HookEnsuresRow(s)
    \/ HookEndsSession

(* A started command takes its next step, and activity on the host (a      *)
(* session start, a registration, a manual call) runs the doctor again.    *)
Fairness ==
    /\ \A p \in Procs : WF_vars(Step(p))
    /\ \A d \in Doctors : WF_vars(DoctorStarts(d) \/ DoctorStep(d))

Spec == Init /\ [][Next]_vars /\ Fairness

(***************************************************************************)
(* What the registry promises.                                             *)
(***************************************************************************)

TypeOK ==
    /\ rows \in Rows /\ table \in [Sessions -> TableRow \cup {NoRow}]
    /\ job \in [Procs \cup Doctors -> Job]
    /\ backend \in Backends /\ faults \in 0..MaxFaults /\ edits \in 0..MaxEdits
    /\ born \subseteq Sessions /\ unchecked \subseteq Sessions /\ passed \subseteq Sessions \X Sessions
    /\ apart \subseteq Sessions \cup {NoSession} /\ stale \in BOOLEAN

(* An open session that another one's check would find is there because one*)
(* of the two entered without the check: over a recorded collision (warn,  *)
(* log_only), by the doctor, by a hook, or by an update of its paths; or,  *)
(* on SQLite, because it came second and its own check, which looks for its*)
(* paths in the text of the first one's, could not see the first.          *)
OverlapIsExplained ==
    \A s \in Sessions : OpenIn(table, s) =>
        \A t \in Colliding(s, table[s].claim) :
            \/ {s, t} \cap unchecked # {}
            \/ backend = "sqlite" /\ <<t, s>> \in passed /\ s \notin Colliding(t, table[t].claim)

(* A session a collision has halted never reaches the table.               *)
HaltedStaysOut == \A s \in Sessions : rows[s] # NoRow /\ rows[s].blocked => table[s] = NoRow

(* Nothing vanishes from the file unless a rewrite met rows it had not     *)
(* read, and then only: a session the table took from register has its row.*)
RowsOutliveRewrites == \A s \in born : rows[s] = NoRow => stale

(* At rest, and but for such a rewrite, the two stores agree on every      *)
(* session a command has not left apart: open in one is open in the other, *)
(* and an open row the table lacks is marked for the doctor.               *)
StoresAgree ==
    (\A p \in Procs \cup Doctors : At(p, "idle")) /\ ~stale =>
        \A s \in born \ apart :
            IF table[s] = NoRow THEN rows[s].open => rows[s].pending
            ELSE rows[s].open = table[s].open

(* The registry's state is well typed, and all of the above.               *)
RegistryInv ==
    /\ TypeOK
    /\ OverlapIsExplained /\ HaltedStaysOut /\ RowsOutliveRewrites /\ StoresAgree

(* A session that waits for the doctor reaches the table of a MySQL        *)
(* backend, unless a stale rewrite takes the row or its mark away.         *)
PendingReachesTable ==
    \A s \in Sessions :
        (backend = "mysql" /\ s \in Pending(rows)) ~> (table[s] # NoRow \/ stale)
=============================================================================
