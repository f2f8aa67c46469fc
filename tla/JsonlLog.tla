------------------------------ MODULE JsonlLog ------------------------------
(***************************************************************************)
(* The append-only log of one plan (src/bin/_jsonl_log): the bytes of      *)
(* _orchestrator_log.jsonl, written by append_row under an exclusive flock *)
(* of its own, after a repair of the last line, and read without any lock. *)
(* A writer that also changes _state.json holds that file's flock first.   *)
(* The bytes of a row reach the file in order, so a process that dies, a   *)
(* full disk or a power cut leaves a prefix of them: nothing, an           *)
(* unparseable part, the whole object without its newline, or all of it.   *)
(***************************************************************************)
EXTENDS Integers, FiniteSets, SequencesExt

CONSTANTS
  Writers,     \* processes that append
  Rows,        \* the rows they append, each of them once
  Compound,    \* rows appended inside the state flock of OrchestratorStore
  Invalid,     \* rows the JSON schema rejects
  MaxCrashes,  \* bound
  NoOne, NoRow

ASSUME LogAssumption ==
  /\ Compound \subseteq Rows /\ Invalid \subseteq Rows
  /\ NoOne \notin Writers /\ NoRow \notin Rows
  /\ MaxCrashes \in Nat

(* A piece is the bytes of one object: a row, or the audit row of a repair *)
(* with the rows whose bytes it records.  A strict prefix of an object     *)
(* never parses, and neither do two objects on one line.                   *)
Piece == [rows : SUBSET Rows, audit : BOOLEAN, whole : BOOLEAN]

RowPiece(r)   == [rows |-> {r}, audit |-> FALSE, whole |-> FALSE]
AuditPiece(R) == [rows |-> R, audit |-> TRUE, whole |-> FALSE]

VARIABLES
  lines,      \* the newline-terminated lines, each a sequence of pieces
  tail,       \* the pieces after the last newline
  logLock,    \* the holder of the flock on _orchestrator_log.jsonl.lock
  stateLock,  \* the holder of the flock on _state.json.lock
  pc, row,    \* per writer: control, and the row it appends
  salvage,    \* per writer: the rows of the bytes its repair cut off
  called,     \* rows whose append_row has been called
  begun,      \* rows of which a byte has been written
  acked,      \* rows whose append_row has returned
  crashes

bytes == <<lines, tail>>
locks == <<logLock, stateLock>>
vars == <<lines, tail, logLock, stateLock, pc, row, salvage, begun, called, acked, crashes>>

Parses(line) == Len(line) = 1 /\ line[1].whole

At(w, at) == pc[w] = at

Goto(w, at) == pc' = [pc EXCEPT ![w] = at]

Init ==
  /\ lines = <<>> /\ tail = <<>>
  /\ logLock = NoOne /\ stateLock = NoOne
  /\ pc = [w \in Writers |-> "idle"]
  /\ row = [w \in Writers |-> NoRow]
  /\ salvage = [w \in Writers |-> {}]
  /\ called = {} /\ begun = {} /\ acked = {}
  /\ crashes = 0

-----------------------------------------------------------------------------
(* append_row: the locks, then the repair, then the row *)

Call(w, r) ==
  /\ At(w, "idle")
  /\ r \notin called
  /\ called' = called \cup {r}
  /\ row' = [row EXCEPT ![w] = r]
  /\ Goto(w, IF r \in Compound THEN "outside" ELSE "waiting")
  /\ UNCHANGED <<bytes, locks, salvage, begun, acked, crashes>>

\* (wrong) some caller takes the log's flock first and the state's after it
TakeStateAnyOrder(w) ==
  /\ At(w, "outside")
  /\ \/ stateLock = NoOne /\ stateLock' = w /\ UNCHANGED logLock
        /\ Goto(w, IF logLock = w THEN "locked" ELSE "waiting")
     \/ logLock = NoOne /\ logLock' = w /\ UNCHANGED <<stateLock, pc>>
  /\ UNCHANGED <<bytes, row, salvage, begun, called, acked, crashes>>

TakeState(w) ==
  /\ At(w, "outside")
  /\ stateLock = NoOne
  /\ stateLock' = w
  /\ Goto(w, "waiting")
  /\ UNCHANGED <<bytes, logLock, row, salvage, begun, called, acked, crashes>>

\* (wrong) the flock is shared
TakeLogShared(w) ==
  /\ At(w, "waiting")
  /\ logLock' = w
  /\ Goto(w, "locked")
  /\ UNCHANGED <<bytes, stateLock, row, salvage, begun, called, acked, crashes>>

TakeLog(w) ==
  /\ At(w, "waiting")
  /\ logLock = NoOne
  /\ logLock' = w
  /\ Goto(w, "locked")
  /\ UNCHANGED <<bytes, stateLock, row, salvage, begun, called, acked, crashes>>

\* _validate_or_truncate_last_line: nothing after the last newline, or
\* something that parses
LeaveTail(w) ==
  /\ At(w, "locked")
  /\ tail = <<>> \/ Parses(tail)
  /\ Goto(w, "checked")
  /\ UNCHANGED <<bytes, locks, row, salvage, begun, called, acked, crashes>>

\* the rows a hex dump of these pieces gives back
Recorded(line) ==
  UNION {line[i].rows : i \in {j \in DOMAIN line : ~line[j].audit \/ line[j].whole}}

\* (wrong) the file is cut at the start of the line before
TruncateOneMore(w) ==
  /\ At(w, "locked")
  /\ tail # <<>> /\ ~Parses(tail)
  /\ tail' = <<>>
  /\ lines' = IF lines = <<>> THEN lines ELSE Front(lines)
  /\ salvage' = [salvage EXCEPT ![w] = Recorded(tail)]
  /\ Goto(w, "cut")
  /\ UNCHANGED <<locks, row, begun, called, acked, crashes>>

Truncate(w) ==
  /\ At(w, "locked")
  /\ tail # <<>> /\ ~Parses(tail)
  /\ tail' = <<>>
  /\ salvage' = [salvage EXCEPT ![w] = Recorded(tail)]
  /\ Goto(w, "cut")
  /\ UNCHANGED <<lines, locks, row, begun, called, acked, crashes>>

\* validate_row raises after the repair, and the with-block drops the flock
Reject(w) ==
  /\ At(w, "checked")
  /\ row[w] \in Invalid
  /\ logLock' = NoOne
  /\ Goto(w, "done")
  /\ UNCHANGED <<bytes, stateLock, row, salvage, begun, called, acked, crashes>>

\* _append_one_row_unlocked, for the audit row and for the row: the first
\* bytes, the rest of the object, the newline
Begin(w) ==
  /\ \/ /\ At(w, "cut")
        /\ tail' = Append(tail, AuditPiece(salvage[w]))
        /\ Goto(w, "auditing")
        /\ UNCHANGED begun
     \/ /\ At(w, "checked")
        /\ row[w] \notin Invalid
        /\ tail' = Append(tail, RowPiece(row[w]))
        /\ Goto(w, "writing")
        /\ begun' = begun \cup {row[w]}
  /\ UNCHANGED <<lines, locks, row, salvage, called, acked, crashes>>

Fill(w) ==
  /\ pc[w] \in {"auditing", "writing"}
  /\ tail' = [tail EXCEPT ![Len(tail)].whole = TRUE]
  /\ Goto(w, IF pc[w] = "auditing" THEN "audited" ELSE "written")
  /\ UNCHANGED <<lines, locks, row, salvage, begun, called, acked, crashes>>

EndAudit(w) ==
  /\ At(w, "audited")
  /\ lines' = Append(lines, tail)
  /\ tail' = <<>>
  /\ salvage' = [salvage EXCEPT ![w] = {}]
  /\ Goto(w, "checked")
  /\ UNCHANGED <<locks, row, begun, called, acked, crashes>>

EndRow(w) ==
  /\ At(w, "written")
  /\ lines' = Append(lines, tail)
  /\ tail' = <<>>
  /\ acked' = acked \cup {row[w]}
  /\ logLock' = NoOne
  /\ Goto(w, "done")
  /\ UNCHANGED <<stateLock, row, salvage, begun, called, crashes>>

\* the caller's own with-block ends
Return(w) ==
  /\ At(w, "done")
  /\ stateLock' = IF stateLock = w THEN NoOne ELSE stateLock
  /\ row' = [row EXCEPT ![w] = NoRow]
  /\ Goto(w, "idle")
  /\ UNCHANGED <<bytes, logLock, salvage, begun, called, acked, crashes>>

Crash(w) ==
  /\ pc[w] # "idle"
  /\ crashes < MaxCrashes
  /\ crashes' = crashes + 1
  /\ logLock' = IF logLock = w THEN NoOne ELSE logLock
  /\ stateLock' = IF stateLock = w THEN NoOne ELSE stateLock
  /\ row' = [row EXCEPT ![w] = NoRow]
  /\ salvage' = [salvage EXCEPT ![w] = {}]
  /\ Goto(w, "idle")
  /\ UNCHANGED <<bytes, begun, called, acked>>

Step(w) ==
  \/ TakeState(w) \/ TakeLog(w)
  \/ LeaveTail(w) \/ Truncate(w) \/ Reject(w)
  \/ Begin(w) \/ Fill(w) \/ EndAudit(w) \/ EndRow(w) \/ Return(w)

Work == \E w \in Writers : (\E r \in Rows : Call(w, r)) \/ Step(w) \/ Crash(w)

Quiet == (\A w \in Writers : pc[w] = "idle") /\ UNCHANGED vars

Next == Work \/ Quiet

Spec == Init /\ [][Next]_vars

\* A writer goes on; the flocks are granted in the end, since each is held
\* over finitely many steps and the rows are finitely many.
FairSpec == Spec /\ \A w \in Writers : WF_vars(Step(w))

-----------------------------------------------------------------------------
(* iter_rows: the lines that a reader without the lock finds *)

AllLines == IF tail = <<>> THEN lines ELSE Append(lines, tail)

Readable == {i \in DOMAIN AllLines : Parses(AllLines[i])}

\* replay() halts on the first corrupt line
Halts == \E i \in DOMAIN AllLines : ~Parses(AllLines[i])

ReadRows == {r \in Rows : \E i \in Readable :
                            ~AllLines[i][1].audit /\ r \in AllLines[i][1].rows}

Traced(r) ==
  \/ \E i \in DOMAIN AllLines : r \in Recorded(AllLines[i])
  \/ \E w \in Writers : r \in salvage[w]

Busy == {"locked", "checked", "cut", "auditing", "writing", "audited", "written"}
PC == {"idle", "outside", "waiting", "done"} \cup Busy

(***************************************************************************)
(* Properties                                                              *)
(***************************************************************************)

(* Every variable keeps its type, and what follows the last newline is at  *)
(* most two objects, of which only the last may be torn: a repair sees     *)
(* every torn tail before anything else is written after it.               *)
TypeOK ==
  /\ lines \in Seq(Seq(Piece)) /\ tail \in Seq(Piece)
  /\ logLock \in Writers \cup {NoOne} /\ stateLock \in Writers \cup {NoOne}
  /\ pc \in [Writers -> PC]
  /\ row \in [Writers -> Rows \cup {NoRow}]
  /\ salvage \in [Writers -> SUBSET Rows]
  /\ called \subseteq Rows /\ begun \subseteq Rows /\ acked \subseteq Rows
  /\ crashes \in Nat
  /\ Len(tail) <= 2
  /\ Len(tail) = 2 => tail[1].whole

(* A complete line is never rewritten, and without a crash what a reader   *)
(* has parsed it will always parse again, at the same place.               *)
AppendOnly ==
  [][/\ IsPrefix(lines, lines')
     /\ crashes' = 0 =>
          \A i \in Readable : i \in Readable' /\ AllLines'[i] = AllLines[i]]_vars

(* A crash spoils at most one line, with two objects on it: the object it  *)
(* left without a newline and the next row, which was acknowledged.        *)
CrashCostsOneLine ==
  LET spoilt == {i \in DOMAIN lines : ~Parses(lines[i])}
  IN  /\ Cardinality(spoilt) <= crashes
      /\ \A i \in spoilt : Len(lines[i]) = 2 /\ lines[i][1].whole /\ lines[i][2].whole

(* An acknowledged row is found by every later reader, but for at most one *)
(* row per crash.                                                          *)
AcknowledgedRowsAreRead ==
  Cardinality(acked \ ReadRows) <= crashes

(* The bytes a repair cuts off are in its audit row: it takes a second     *)
(* crash, inside the repair, for a row to disappear without a trace.       *)
NothingVanishes ==
  LET vanished == {r \in begun : ~Traced(r)}
  IN  vanished = {} \/ Cardinality(vanished) < crashes

(* A reader halts on a corrupt line only while a row is being written or   *)
(* after a crash.                                                          *)
HaltHasACause ==
  Halts => crashes > 0 \/ \E w \in Writers : pc[w] = "writing"

(* What holds of the log at every moment: the types, what a crash costs,   *)
(* that acknowledged rows are read, that nothing vanishes without a trace  *)
(* and that a reader does not halt without a cause.                        *)
LogInv ==
  /\ TypeOK /\ CrashCostsOneLine /\ AcknowledgedRowsAreRead
  /\ NothingVanishes /\ HaltHasACause

(* Every append that is called returns: the two flocks are always taken in *)
(* the same order.                                                         *)
EveryAppendReturns ==
  \A w \in Writers : pc[w] # "idle" ~> pc[w] = "idle"
=============================================================================
