----------------------------- MODULE Logs_proofs -----------------------------
(***************************************************************************)
(* Proofs about the log of a plan, in three parts: JsonlLog, how rows come *)
(* to be in the file, for every set of writers and of rows and every       *)
(* number of crashes; LogMerge, what git's merges leave of them, for any   *)
(* number of rows, seconds, tasks, statuses and merges; and ChainRecord,   *)
(* what the rows of a chain and its other records say, for any set of      *)
(* drivers, any phases, cap and number of faults, kills and pauses.  The   *)
(* modules have no names in common and the parts do not cite each other.   *)
(***************************************************************************)
EXTENDS JsonlLog, LogMerge, ChainRecord, TLAPS, FiniteSetTheorems, SequenceTheorems,
        WellFoundedInduction

-----------------------------------------------------------------------------
(* Part 1. JsonlLog                                                        *)

-----------------------------------------------------------------------------
(* The inductive invariant *)

Repairing == {"cut", "auditing", "audited"}
Objects   == {"auditing", "audited", "writing", "written"}

\* One writer has the log's flock, and a writer that is not idle has a row.
ControlInv ==
  /\ \A w \in Writers : pc[w] \in Busy <=> logLock = w
  /\ \A w \in Writers : pc[w] # "idle" => row[w] \in Rows

\* The object that w has begun: the audit row of its repair, or its row.
Mine(w) ==
  IF pc[w] \in {"auditing", "audited"}
    THEN [rows |-> salvage[w], audit |-> TRUE, whole |-> pc[w] = "audited"]
    ELSE [rows |-> {row[w]}, audit |-> FALSE, whole |-> pc[w] = "written"]

\* What follows the last newline, by what the holder of the flock does.
TailInv ==
  \A w \in Writers :
    /\ pc[w] = "cut" => tail = <<>>
    /\ pc[w] = "checked" => tail = <<>> \/ Parses(tail)
    /\ pc[w] \in {"auditing", "audited"} => tail = <<Mine(w)>>
    /\ pc[w] \in {"writing", "written"} =>
         tail = <<Mine(w)>> \/ (Len(tail) = 2 /\ tail[1].whole /\ tail[2] = Mine(w))
    /\ pc[w] \notin Repairing => salvage[w] = {}

\* An object that a crash has left without a newline, one at most: the next
\* row goes on the same line, unless a repair cuts it off before.
Leftover ==
  \/ Len(tail) = 2
  \/ Len(tail) = 1 /\ \A w \in Writers : pc[w] \notin Objects

Owed == IF Leftover THEN 1 ELSE 0

Spoilt == {i \in DOMAIN lines : ~Parses(lines[i])}

\* Every spoilt line, and the object that would spoil the next one, cost a
\* crash of their own.
SpoiltInv ==
  /\ Cardinality(Spoilt) + Owed <= crashes
  /\ \A i \in Spoilt : Len(lines[i]) = 2 /\ lines[i][1].whole /\ lines[i][2].whole
  /\ \A w \in Writers : pc[w] \in Repairing => crashes > 0

Holds(line, r) == Parses(line) /\ ~line[1].audit /\ r \in line[1].rows

Lost == {r \in acked : \A i \in DOMAIN lines : ~Holds(lines[i], r)}

LostInv ==
  /\ IsFiniteSet(acked)
  /\ Cardinality(Lost) + Owed <= crashes

\* A row is safe from the repairs once it is on a complete line, and while
\* the writer that appends it has the flock.
Safe(r) ==
  \/ \E i \in DOMAIN lines : r \in Recorded(lines[i])
  \/ \E w \in Writers : pc[w] \in {"writing", "written"} /\ row[w] = r

AtRisk == {r \in begun : ~Safe(r)}

Vanished == {r \in begun : ~Traced(r)}

\* A crash puts one row at risk, and a second one is needed to lose it.
RiskInv ==
  /\ IsFiniteSet(begun)
  /\ Cardinality(AtRisk) <= crashes
  /\ Vanished # {} => Cardinality(AtRisk) < crashes

IInv ==
  /\ TypeOK /\ ControlInv /\ TailInv
  /\ SpoiltInv /\ LostInv /\ RiskInv

-----------------------------------------------------------------------------
(* Facts about the operators *)

(* What Append does, index by index.                                       *)
LEMMA Appended ==
  ASSUME NEW S, NEW s \in Seq(S), NEW e \in S
  PROVE  /\ Append(s, e) \in Seq(S)
         /\ Len(s) \in Nat /\ DOMAIN s = 1 .. Len(s)
         /\ Len(Append(s, e)) = Len(s) + 1
         /\ DOMAIN Append(s, e) = DOMAIN s \cup {Len(s) + 1}
         /\ Len(s) + 1 \notin DOMAIN s
         /\ \A i \in DOMAIN s : Append(s, e)[i] = s[i]
         /\ Append(s, e)[Len(s) + 1] = e
  OBVIOUS

(* The pieces that the model builds are pieces.                            *)
LEMMA PieceTypes ==
  /\ \A r \in Rows, b \in BOOLEAN : [rows |-> {r}, audit |-> FALSE, whole |-> b] \in Piece
  /\ \A R \in SUBSET Rows, b \in BOOLEAN : [rows |-> R, audit |-> TRUE, whole |-> b] \in Piece
  /\ \A r \in Rows : RowPiece(r) = [rows |-> {r}, audit |-> FALSE, whole |-> FALSE]
  /\ \A R \in SUBSET Rows : AuditPiece(R) = [rows |-> R, audit |-> TRUE, whole |-> FALSE]
  BY DEF RowPiece, AuditPiece, Piece

(* A piece is its three fields.                                            *)
LEMMA SamePiece ==
  ASSUME NEW p \in Piece, NEW q \in Piece,
         p.rows = q.rows, p.audit = q.audit, p.whole = q.whole
  PROVE  p = q
  BY DEF Piece

(* The rest of an object is written: the last piece becomes whole.         *)
LEMMA Filled ==
  ASSUME NEW line \in Seq(Piece), Len(line) > 0,
         NEW full, full = [line EXCEPT ![Len(line)].whole = TRUE]
  PROVE  /\ full \in Seq(Piece) /\ Len(full) = Len(line) /\ DOMAIN full = DOMAIN line
         /\ full[Len(line)] = [rows |-> line[Len(line)].rows, audit |-> line[Len(line)].audit,
                               whole |-> TRUE]
         /\ \A i \in DOMAIN line : i # Len(line) => full[i] = line[i]
  <1> DEFINE n == Len(line)
             q == [line[n] EXCEPT !.whole = TRUE]
  <1>1. n \in DOMAIN line /\ line[n] \in Piece
    OBVIOUS
  <1>2. q = [rows |-> line[n].rows, audit |-> line[n].audit, whole |-> TRUE]
    <2> DEFINE f == [rows |-> line[n].rows, audit |-> line[n].audit, whole |-> TRUE]
    <2>1. q \in Piece /\ f \in Piece
      BY <1>1 DEF Piece
    <2>2. q.rows = f.rows /\ q.audit = f.audit /\ q.whole = f.whole
      BY <1>1 DEF Piece
    <2>3. QED
      BY <2>1, <2>2, SamePiece
  <1>3. q \in Piece
    BY <1>1 DEF Piece
  <1>4. full = [line EXCEPT ![n] = q]
    OBVIOUS
  <1>5. full \in Seq(Piece) /\ Len(full) = n /\ DOMAIN full = DOMAIN line
    BY <1>1, <1>3, <1>4, ExceptSeq
  <1>6. full[n] = q /\ \A i \in DOMAIN line : i # n => full[i] = line[i]
    BY <1>1, <1>4
  <1>7. QED
    BY <1>2, <1>3, <1>5, <1>6

(* The rows that a hex dump of a line gives back: those of its pieces, but *)
(* for a torn audit row.                                                   *)
LEMMA RecordedMember ==
  ASSUME NEW line \in Seq(Piece), NEW r
  PROVE  r \in Recorded(line) <=>
           \E i \in DOMAIN line : (~line[i].audit \/ line[i].whole) /\ r \in line[i].rows
  BY DEF Recorded

(* What is recorded is rows.                                               *)
LEMMA RecordedType ==
  ASSUME NEW line \in Seq(Piece)
  PROVE  Recorded(line) \in SUBSET Rows
  <1>1. \A i \in DOMAIN line : line[i].rows \in SUBSET Rows
    <2>1. \A i \in DOMAIN line : line[i] \in Piece
      OBVIOUS
    <2>2. QED
      BY <2>1 DEF Piece
  <1>2. QED
    BY <1>1 DEF Recorded

(* Nothing is lost from a line by writing on it.                           *)
LEMMA RecordedAppend ==
  ASSUME NEW line \in Seq(Piece), NEW p \in Piece
  PROVE  /\ Recorded(line) \subseteq Recorded(Append(line, p))
         /\ (~p.audit \/ p.whole) => p.rows \subseteq Recorded(Append(line, p))
  <1> DEFINE longer == Append(line, p)
  <1>1. /\ longer \in Seq(Piece)
        /\ DOMAIN longer = DOMAIN line \cup {Len(line) + 1}
        /\ \A i \in DOMAIN line : longer[i] = line[i]
        /\ longer[Len(line) + 1] = p
    BY Appended
  <1> HIDE DEF longer
  <1>2. ASSUME NEW r \in Recorded(line)
        PROVE  r \in Recorded(longer)
    <2>1. PICK i \in DOMAIN line : (~line[i].audit \/ line[i].whole) /\ r \in line[i].rows
      BY RecordedMember
    <2>2. i \in DOMAIN longer /\ longer[i] = line[i]
      BY <1>1
    <2>3. QED
      BY <1>1, <2>1, <2>2, RecordedMember
  <1>3. ASSUME ~p.audit \/ p.whole, NEW r \in p.rows
        PROVE  r \in Recorded(longer)
    <2>1. Len(line) + 1 \in DOMAIN longer /\ longer[Len(line) + 1] = p
      BY <1>1
    <2>2. QED
      BY <1>1, <1>3, <2>1, RecordedMember
  <1> USE DEF longer
  <1>4. QED
    BY <1>2, <1>3

(* The empty line holds nothing and does not parse.                        *)
LEMMA EmptyLine ==
  /\ Recorded(<<>>) = {}
  /\ ~Parses(<<>>)
  /\ <<>> \in Seq(Piece) /\ Len(<<>>) = 0
  BY DEF Recorded, Parses

(* A line of one piece.                                                    *)
LEMMA OnePiece ==
  ASSUME NEW p \in Piece
  PROVE  /\ <<p>> \in Seq(Piece) /\ Len(<<p>>) = 1 /\ <<p>>[1] = p /\ DOMAIN <<p>> = {1}
         /\ Parses(<<p>>) <=> p.whole
         /\ <<p>> # <<>>
         /\ Append(<<>>, p) = <<p>>
  BY DEF Parses

\* AllLines, of any complete lines l and any bytes t after them.
Found(l, t) == IF t = <<>> THEN l ELSE Append(l, t)

(* The lines a reader finds: the complete ones, and what follows them.     *)
LEMMA ReaderLines ==
  ASSUME NEW l \in Seq(Seq(Piece)), NEW t \in Seq(Piece)
  PROVE  /\ Found(l, t) \in Seq(Seq(Piece))
         /\ DOMAIN l = 1 .. Len(l) /\ Len(l) \in Nat
         /\ DOMAIN Found(l, t) = DOMAIN l \cup (IF t = <<>> THEN {} ELSE {Len(l) + 1})
         /\ \A i \in DOMAIN l : Found(l, t)[i] = l[i]
         /\ t # <<>> => Found(l, t)[Len(l) + 1] = t
  BY Appended DEF Found

(* A row is in the file on a complete line or after the last newline.      *)
LEMMA TraceParts ==
  ASSUME NEW l \in Seq(Seq(Piece)), NEW t \in Seq(Piece), NEW r
  PROVE  (\E i \in DOMAIN Found(l, t) : r \in Recorded(Found(l, t)[i])) <=>
           (\E i \in DOMAIN l : r \in Recorded(l[i])) \/ r \in Recorded(t)
  <1>1. /\ DOMAIN Found(l, t) = DOMAIN l \cup (IF t = <<>> THEN {} ELSE {Len(l) + 1})
        /\ \A i \in DOMAIN l : Found(l, t)[i] = l[i]
        /\ t # <<>> => Found(l, t)[Len(l) + 1] = t
    BY ReaderLines
  <1>2. CASE t = <<>>
    BY <1>1, <1>2, EmptyLine
  <1>3. CASE t # <<>>
    BY <1>1, <1>3
  <1>4. QED
    BY <1>2, <1>3

-----------------------------------------------------------------------------
(* What a step does to the bytes *)

\* The steps that write nothing.
Silent(w) ==
  \/ \E r \in Rows : Call(w, r)
  \/ TakeState(w) \/ TakeLog(w) \/ LeaveTail(w) \/ Reject(w) \/ Return(w)

(* Every step is one of a writer, or changes nothing.                      *)
LEMMA StepCases ==
  ASSUME [Next]_vars
  PROVE  \/ UNCHANGED vars
         \/ \E w \in Writers :
              Silent(w) \/ Truncate(w) \/ Begin(w) \/ Fill(w) \/ EndAudit(w) \/ EndRow(w) \/ Crash(w)
  BY DEF Next, Work, Quiet, Step, Silent

(* A silent step leaves the writer without an object and without a repair, *)
(* and only an appendable last line is left as it is.                      *)
LEMMA SilentShape ==
  ASSUME TypeOK, ControlInv, NEW w \in Writers, Silent(w)
  PROVE  /\ UNCHANGED <<lines, tail, salvage, begun, acked, crashes>>
         /\ pc[w] \notin Repairing \cup Objects
         /\ pc' \in [Writers -> PC]
         /\ pc'[w] \notin Repairing \cup Objects
         /\ \A v \in Writers \ {w} : pc'[v] = pc[v] /\ row'[v] = row[v]
         /\ pc'[w] = "checked" => tail = <<>> \/ Parses(tail)
  <1>1. CASE \E r \in Rows : Call(w, r)
    BY <1>1 DEF Call, TypeOK, PC, Busy, At, Goto, bytes, Repairing, Objects
  <1>2. CASE TakeState(w)
    BY <1>2 DEF TakeState, TypeOK, PC, Busy, At, Goto, bytes, Repairing, Objects
  <1>3. CASE TakeLog(w)
    BY <1>3 DEF TakeLog, TypeOK, PC, Busy, At, Goto, bytes, Repairing, Objects
  <1>4. CASE LeaveTail(w)
    BY <1>4 DEF LeaveTail, TypeOK, PC, Busy, At, Goto, bytes, Repairing, Objects
  <1>5. CASE Reject(w)
    BY <1>5 DEF Reject, TypeOK, PC, Busy, At, Goto, bytes, Repairing, Objects
  <1>6. CASE Return(w)
    BY <1>6 DEF Return, TypeOK, PC, Busy, At, Goto, bytes, Repairing, Objects
  <1>7. QED
    BY <1>1, <1>2, <1>3, <1>4, <1>5, <1>6 DEF Silent

(* The first bytes of an object: the audit row goes on an empty line, a    *)
(* row also behind an object that parses.                                  *)
LEMMA BeginShape ==
  ASSUME TypeOK, ControlInv, TailInv, NEW w \in Writers, Begin(w)
  PROVE  /\ tail' \in Seq(Piece) /\ Len(tail') \in 1 .. 2
         /\ Len(tail') = 2 => tail'[1].whole
         /\ begun' \subseteq Rows
         /\ UNCHANGED <<lines, row, salvage, acked, crashes>>
         /\ \/ /\ pc[w] = "cut" /\ pc' = [pc EXCEPT ![w] = "auditing"]
               /\ AuditPiece(salvage[w]) \in Piece
               /\ tail = <<>> /\ tail' = <<AuditPiece(salvage[w])>>
               /\ begun' = begun
            \/ /\ pc[w] = "checked" /\ pc' = [pc EXCEPT ![w] = "writing"]
               /\ row[w] \in Rows /\ RowPiece(row[w]) \in Piece
               /\ tail' = Append(tail, RowPiece(row[w]))
               /\ \/ tail = <<>> /\ tail' = <<RowPiece(row[w])>>
                  \/ /\ Len(tail) = 1 /\ tail[1].whole /\ Parses(tail)
                     /\ Len(tail') = 2 /\ tail'[1] = tail[1] /\ tail'[2] = RowPiece(row[w])
               /\ begun' = begun \cup {row[w]}
  <1>1. UNCHANGED <<lines, row, salvage, acked, crashes>>
    BY DEF Begin
  <1>2. CASE pc[w] = "cut"
    <2>1. pc' = [pc EXCEPT ![w] = "auditing"] /\ begun' = begun
      BY <1>2 DEF Begin, At, Goto
    <2>2. salvage[w] \in SUBSET Rows /\ begun \subseteq Rows
      BY DEF TypeOK
    <2>3. AuditPiece(salvage[w]) \in Piece
      BY <2>2, PieceTypes
    <2>4. tail = <<>>
      BY <1>2 DEF TailInv
    <2>5. tail' = <<AuditPiece(salvage[w])>>
      BY <1>2, <2>3, <2>4, OnePiece DEF Begin, At
    <2>6. tail' \in Seq(Piece) /\ Len(tail') = 1
      BY <2>3, <2>5, OnePiece
    <2>7. QED
      BY <1>1, <1>2, <2>1, <2>2, <2>3, <2>4, <2>5, <2>6
  <1>3. CASE pc[w] = "checked"
    <2>1. pc' = [pc EXCEPT ![w] = "writing"] /\ begun' = begun \cup {row[w]}
      BY <1>3 DEF Begin, At, Goto
    <2>2. row[w] \in Rows /\ begun \subseteq Rows
      BY <1>3 DEF ControlInv, TypeOK
    <2>3. RowPiece(row[w]) \in Piece
      BY <2>2, PieceTypes
    <2>4. tail' = Append(tail, RowPiece(row[w]))
      BY <1>3 DEF Begin, At
    <2>5. CASE tail = <<>>
      <3>1. tail' = <<RowPiece(row[w])>>
        BY <2>3, <2>4, <2>5, OnePiece
      <3>2. tail' \in Seq(Piece) /\ Len(tail') = 1
        BY <2>3, <3>1, OnePiece
      <3>3. QED
        BY <1>1, <1>3, <2>1, <2>2, <2>3, <2>4, <2>5, <3>1, <3>2
    <2>6. CASE tail # <<>>
      <3>1. Parses(tail) /\ tail \in Seq(Piece)
        BY <1>3, <2>6 DEF TailInv, TypeOK
      <3>2. Len(tail) = 1 /\ tail[1].whole
        BY <3>1 DEF Parses
      <3>3. tail' \in Seq(Piece) /\ Len(tail') = 2 /\ tail'[1] = tail[1] /\ tail'[2] = RowPiece(row[w])
        <4>1. DOMAIN tail = 1 .. 1
          BY <3>1, <3>2
        <4>2. /\ tail' \in Seq(Piece) /\ Len(tail') = Len(tail) + 1
              /\ \A i \in DOMAIN tail : tail'[i] = tail[i]
              /\ tail'[Len(tail) + 1] = RowPiece(row[w])
          BY <2>3, <2>4, <3>1, Appended
        <4>3. QED
          BY <3>2, <4>1, <4>2
      <3>4. QED
        BY <1>1, <1>3, <2>1, <2>2, <2>3, <2>4, <3>1, <3>2, <3>3
    <2>7. QED
      BY <2>5, <2>6
  <1>4. QED
    BY <1>2, <1>3 DEF Begin, At

(* The rest of an object.                                                  *)
LEMMA FillShape ==
  ASSUME TypeOK, ControlInv, TailInv, NEW w \in Writers, Fill(w)
  PROVE  /\ pc[w] \in {"auditing", "writing"}
         /\ pc' = [pc EXCEPT ![w] = IF pc[w] = "auditing" THEN "audited" ELSE "written"]
         /\ tail' \in Seq(Piece) /\ Len(tail') = Len(tail) /\ Len(tail) \in 1 .. 2
         /\ DOMAIN tail' = DOMAIN tail
         /\ ~tail[Len(tail)].whole
         /\ tail'[Len(tail)] = [rows |-> tail[Len(tail)].rows, audit |-> tail[Len(tail)].audit,
                                whole |-> TRUE]
         /\ Len(tail) = 2 => tail'[1] = tail[1]
         /\ Len(tail) = 2 => pc[w] = "writing"
         /\ tail[Len(tail)] = Mine(w)
         /\ tail'[Len(tail)] = Mine(w)'
  <1>1. /\ pc[w] \in {"auditing", "writing"}
        /\ pc' = [pc EXCEPT ![w] = IF pc[w] = "auditing" THEN "audited" ELSE "written"]
        /\ salvage' = salvage /\ row' = row
    BY DEF Fill, Goto
  <1>2. tail \in Seq(Piece) /\ pc \in [Writers -> PC]
    BY DEF TypeOK
  <1>3. /\ Len(tail) \in 1 .. 2 /\ tail[Len(tail)] = Mine(w)
        /\ Len(tail) = 2 => pc[w] = "writing"
    <2>1. CASE tail = <<Mine(w)>>
      BY <2>1
    <2>2. CASE tail # <<Mine(w)>>
      BY <1>1, <2>2 DEF TailInv
    <2>3. QED
      BY <2>1, <2>2
  <1>4. ~Mine(w).whole
    BY <1>1 DEF Mine
  <1>5. tail' = [tail EXCEPT ![Len(tail)].whole = TRUE]
    BY DEF Fill
  <1>6. /\ tail' \in Seq(Piece) /\ Len(tail') = Len(tail) /\ DOMAIN tail' = DOMAIN tail
        /\ tail'[Len(tail)] = [rows |-> tail[Len(tail)].rows, audit |-> tail[Len(tail)].audit,
                               whole |-> TRUE]
        /\ \A i \in DOMAIN tail : i # Len(tail) => tail'[i] = tail[i]
    <2>1. Len(tail) > 0
      BY <1>3
    <2>2. QED
      BY <1>2, <1>5, <2>1, Filled
  <1>7. Len(tail) = 2 => tail'[1] = tail[1]
    BY <1>2, <1>6
  <1>8. [rows |-> Mine(w).rows, audit |-> Mine(w).audit, whole |-> TRUE] = Mine(w)'
    <2>1. CASE pc[w] = "auditing"
      <3>1. pc'[w] = "audited"
        BY <1>1, <1>2, <2>1
      <3>2. QED
        BY <1>1, <2>1, <3>1 DEF Mine
    <2>2. CASE pc[w] = "writing"
      <3>1. pc'[w] = "written"
        BY <1>1, <1>2, <2>2
      <3>2. QED
        BY <1>1, <2>2, <3>1 DEF Mine
    <2>3. QED
      BY <1>1, <2>1, <2>2
  <1>9. QED
    BY <1>1, <1>3, <1>4, <1>6, <1>7, <1>8

(* A newline ends the line, which holds the writer's whole object, and     *)
(* before it whatever a crash had left there.                              *)
LEMMA EndShape ==
  ASSUME TypeOK, ControlInv, TailInv, NEW w \in Writers, EndAudit(w) \/ EndRow(w)
  PROVE  /\ lines' = Append(lines, tail) /\ tail' = <<>> /\ tail # <<>>
         /\ UNCHANGED <<begun, crashes>>
         /\ lines' \in Seq(Seq(Piece)) /\ tail \in Seq(Piece)
         /\ Len(lines) \in Nat /\ Len(lines) + 1 \notin DOMAIN lines
         /\ DOMAIN lines' = DOMAIN lines \cup {Len(lines) + 1}
         /\ \A i \in DOMAIN lines : lines'[i] = lines[i]
         /\ lines'[Len(lines) + 1] = tail
         /\ Len(tail) \in 1 .. 2 /\ tail[Len(tail)] = Mine(w)
         /\ Mine(w).whole
         /\ Len(tail) = 2 => tail[1].whole /\ pc[w] = "written"
         /\ Parses(tail) <=> Len(tail) = 1
  <1>1. lines' = Append(lines, tail) /\ tail' = <<>> /\ pc[w] \in {"audited", "written"}
    BY DEF EndAudit, EndRow, At
  <1>2. lines \in Seq(Seq(Piece)) /\ tail \in Seq(Piece)
    BY DEF TypeOK
  <1>3. /\ Len(tail) \in 1 .. 2 /\ tail[Len(tail)] = Mine(w)
        /\ Len(tail) = 2 => tail[1].whole /\ pc[w] = "written"
    <2>1. CASE tail = <<Mine(w)>>
      BY <2>1
    <2>2. CASE tail # <<Mine(w)>>
      BY <1>1, <2>2 DEF TailInv
    <2>3. QED
      BY <2>1, <2>2
  <1>4. Mine(w).whole
    BY <1>1 DEF Mine
  <1>5. Parses(tail) <=> Len(tail) = 1
    BY <1>3, <1>4 DEF Parses
  <1>6. tail # <<>>
    BY <1>3
  <1>7. UNCHANGED <<begun, crashes>>
    BY DEF EndAudit, EndRow
  <1>8. /\ lines' \in Seq(Seq(Piece))
        /\ Len(lines) \in Nat /\ Len(lines) + 1 \notin DOMAIN lines
        /\ DOMAIN lines' = DOMAIN lines \cup {Len(lines) + 1}
        /\ \A i \in DOMAIN lines : lines'[i] = lines[i]
        /\ lines'[Len(lines) + 1] = tail
    BY <1>1, <1>2, Appended
  <1>9. QED
    BY <1>1, <1>2, <1>3, <1>4, <1>5, <1>6, <1>7, <1>8

-----------------------------------------------------------------------------
(* The invariant holds initially and every step keeps it *)

(* Nothing is written yet.                                                 *)
LEMMA InitIInv == Init => IInv
  <1> SUFFICES ASSUME Init PROVE IInv
    OBVIOUS
  <1>1. TypeOK
    BY LogAssumption DEF Init, TypeOK, PC, Busy
  <1>2. ControlInv /\ TailInv
    BY LogAssumption DEF Init, ControlInv, TailInv, Busy, Repairing
  <1>3. ~Leftover /\ Spoilt = {} /\ Lost = {} /\ AtRisk = {} /\ Vanished = {}
    BY DEF Init, Leftover, Spoilt, Lost, AtRisk, Vanished
  <1>4. SpoiltInv
    BY <1>3, FS_EmptySet DEF Init, SpoiltInv, Owed, Repairing
  <1>5. LostInv /\ RiskInv
    BY <1>3, FS_EmptySet DEF Init, LostInv, RiskInv, Owed
  <1>6. QED
    BY <1>1, <1>2, <1>4, <1>5 DEF IInv

(* The types.                                                              *)
LEMMA TypeStep ==
  ASSUME TypeOK, ControlInv, TailInv, [Next]_vars
  PROVE  TypeOK'
  <1>1. CASE UNCHANGED vars
    BY <1>1 DEF TypeOK, vars, bytes, locks
  <1>2. ASSUME NEW w \in Writers, NEW r \in Rows, Call(w, r) PROVE TypeOK'
    BY <1>2 DEF Call, TypeOK, PC, Busy, At, Goto, bytes, locks
  <1>3. ASSUME NEW w \in Writers, TakeState(w) PROVE TypeOK'
    BY <1>3 DEF TakeState, TypeOK, PC, Busy, At, Goto, bytes
  <1>4. ASSUME NEW w \in Writers, TakeLog(w) PROVE TypeOK'
    BY <1>4 DEF TakeLog, TypeOK, PC, Busy, At, Goto, bytes
  <1>5. ASSUME NEW w \in Writers, LeaveTail(w) PROVE TypeOK'
    BY <1>5 DEF LeaveTail, TypeOK, PC, Busy, At, Goto, bytes, locks
  <1>6. ASSUME NEW w \in Writers, Reject(w) PROVE TypeOK'
    BY <1>6 DEF Reject, TypeOK, PC, Busy, At, Goto, bytes
  <1>7. ASSUME NEW w \in Writers, Return(w) PROVE TypeOK'
    BY <1>7 DEF Return, TypeOK, PC, Busy, At, Goto, bytes
  <1>8. ASSUME NEW w \in Writers, Crash(w) PROVE TypeOK'
    BY <1>8 DEF Crash, TypeOK, PC, Busy, Goto, bytes
  <1>9. ASSUME NEW w \in Writers, Truncate(w) PROVE TypeOK'
    <2>1. tail' = <<>> /\ salvage' = [salvage EXCEPT ![w] = Recorded(tail)]
      BY <1>9 DEF Truncate
    <2>2. Recorded(tail) \in SUBSET Rows
      BY RecordedType DEF TypeOK
    <2>3. salvage' \in [Writers -> SUBSET Rows]
      BY <2>1, <2>2 DEF TypeOK
    <2>4. tail' \in Seq(Piece) /\ Len(tail') = 0
      BY <2>1, EmptyLine
    <2>5. pc' \in [Writers -> PC]
      BY <1>9 DEF Truncate, TypeOK, Goto, PC, Busy
    <2>6. QED
      BY <1>9, <2>3, <2>4, <2>5 DEF Truncate, TypeOK, locks
  <1>10. ASSUME NEW w \in Writers, Begin(w) PROVE TypeOK'
    <2>1. /\ tail' \in Seq(Piece) /\ Len(tail') <= 2
          /\ Len(tail') = 2 => tail'[1].whole
          /\ begun' \subseteq Rows
      <3>1. /\ tail' \in Seq(Piece) /\ Len(tail') \in 1 .. 2
            /\ Len(tail') = 2 => tail'[1].whole
            /\ begun' \subseteq Rows
        BY <1>10, BeginShape, Zenon
      <3>2. QED
        BY <3>1
    <2>2. pc' \in [Writers -> PC]
      BY <1>10 DEF Begin, TypeOK, Goto, PC, Busy
    <2>3. QED
      BY <1>10, <2>1, <2>2 DEF Begin, TypeOK, locks
  <1>11. ASSUME NEW w \in Writers, Fill(w) PROVE TypeOK'
    <2>1. /\ tail' \in Seq(Piece) /\ Len(tail') <= 2
          /\ Len(tail') = 2 => tail'[1].whole
      BY <1>11, FillShape DEF TypeOK
    <2>2. pc' \in [Writers -> PC]
      BY <1>11 DEF Fill, TypeOK, Goto, PC, Busy
    <2>3. QED
      BY <1>11, <2>1, <2>2 DEF Fill, TypeOK, locks
  <1>12. ASSUME NEW w \in Writers, EndAudit(w) PROVE TypeOK'
    <2>1. lines' \in Seq(Seq(Piece)) /\ tail' \in Seq(Piece) /\ Len(tail') = 0
      BY <1>12, EndShape, EmptyLine
    <2>2. pc' \in [Writers -> PC] /\ salvage' \in [Writers -> SUBSET Rows]
      BY <1>12 DEF EndAudit, TypeOK, Goto, PC, Busy
    <2>3. QED
      BY <1>12, <2>1, <2>2 DEF EndAudit, TypeOK, locks
  <1>13. ASSUME NEW w \in Writers, EndRow(w) PROVE TypeOK'
    <2>1. lines' \in Seq(Seq(Piece)) /\ tail' \in Seq(Piece) /\ Len(tail') = 0
      BY <1>13, EndShape, EmptyLine
    <2>2. pc' \in [Writers -> PC]
      BY <1>13 DEF EndRow, TypeOK, Goto, PC, Busy
    <2>3. row[w] \in Rows
      BY <1>13 DEF EndRow, At, ControlInv
    <2>4. QED
      BY <1>13, <2>1, <2>2, <2>3 DEF EndRow, TypeOK
  <1>14. QED
    BY <1>1, <1>2, <1>3, <1>4, <1>5, <1>6, <1>7, <1>8, <1>9, <1>10, <1>11, <1>12, <1>13,
       StepCases DEF Silent

(* One holder of the flock, and a row for every writer at work.            *)
LEMMA ControlStep ==
  ASSUME TypeOK, ControlInv, [Next]_vars
  PROVE  ControlInv'
  <1> USE LogAssumption
  <1>1. CASE UNCHANGED vars
    BY <1>1 DEF ControlInv, vars, bytes, locks
  <1>2. ASSUME NEW w \in Writers, NEW r \in Rows, Call(w, r) PROVE ControlInv'
    BY <1>2 DEF Call, TypeOK, ControlInv, Busy, At, Goto, locks
  <1>3. ASSUME NEW w \in Writers, TakeState(w) PROVE ControlInv'
    BY <1>3 DEF TakeState, TypeOK, ControlInv, Busy, At, Goto
  <1>4. ASSUME NEW w \in Writers, TakeLog(w) PROVE ControlInv'
    BY <1>4 DEF TakeLog, TypeOK, ControlInv, Busy, At, Goto
  <1>5. ASSUME NEW w \in Writers, LeaveTail(w) PROVE ControlInv'
    BY <1>5 DEF LeaveTail, TypeOK, ControlInv, Busy, At, Goto, locks
  <1>6. ASSUME NEW w \in Writers, Reject(w) PROVE ControlInv'
    BY <1>6 DEF Reject, TypeOK, ControlInv, Busy, At, Goto
  <1>7. ASSUME NEW w \in Writers, Return(w) PROVE ControlInv'
    BY <1>7 DEF Return, TypeOK, ControlInv, Busy, At, Goto
  <1>8. ASSUME NEW w \in Writers, Crash(w) PROVE ControlInv'
    BY <1>8 DEF Crash, TypeOK, ControlInv, Busy, Goto
  <1>9. ASSUME NEW w \in Writers, Truncate(w) PROVE ControlInv'
    BY <1>9 DEF Truncate, TypeOK, ControlInv, Busy, At, Goto, locks
  <1>10. ASSUME NEW w \in Writers, Begin(w) PROVE ControlInv'
    BY <1>10 DEF Begin, TypeOK, ControlInv, Busy, At, Goto, locks
  <1>11. ASSUME NEW w \in Writers, Fill(w) PROVE ControlInv'
    BY <1>11 DEF Fill, TypeOK, ControlInv, Busy, At, Goto, locks
  <1>12. ASSUME NEW w \in Writers, EndAudit(w) PROVE ControlInv'
    BY <1>12 DEF EndAudit, TypeOK, ControlInv, Busy, At, Goto, locks
  <1>13. ASSUME NEW w \in Writers, EndRow(w) PROVE ControlInv'
    BY <1>13 DEF EndRow, TypeOK, ControlInv, Busy, At, Goto
  <1>14. QED
    BY <1>1, <1>2, <1>3, <1>4, <1>5, <1>6, <1>7, <1>8, <1>9, <1>10, <1>11, <1>12, <1>13,
       StepCases DEF Silent

(* While one writer has the flock, no other is past it.                    *)
LEMMA OneWriter ==
  ASSUME ControlInv, NEW w \in Writers, pc[w] \in Busy
  PROVE  \A v \in Writers \ {w} : pc[v] \notin Busy
  BY DEF ControlInv

\* TailInv, writer by writer.
TailOf(w) ==
  /\ pc[w] = "cut" => tail = <<>>
  /\ pc[w] = "checked" => tail = <<>> \/ Parses(tail)
  /\ pc[w] \in {"auditing", "audited"} => tail = <<Mine(w)>>
  /\ pc[w] \in {"writing", "written"} =>
       tail = <<Mine(w)>> \/ (Len(tail) = 2 /\ tail[1].whole /\ tail[2] = Mine(w))
  /\ pc[w] \notin Repairing => salvage[w] = {}

(* What another writer does with the flock leaves a writer without it as   *)
(* it was.                                                                 *)
LEMMA TailOfOther ==
  ASSUME TailInv, NEW v \in Writers, pc'[v] = pc[v], pc[v] \notin Busy, salvage'[v] = salvage[v]
  PROVE  TailOf(v)'
  BY DEF TailInv, TailOf, Busy

(* What follows the last newline is what its writer means it to be.        *)
LEMMA TailStep ==
  ASSUME TypeOK, ControlInv, TailInv, [Next]_vars
  PROVE  TailInv'
  <1>1. CASE UNCHANGED vars
    BY <1>1 DEF TailInv, vars, bytes, locks, Mine, Parses
  <1>2. ASSUME NEW w \in Writers, Silent(w) PROVE \A v \in Writers : TailOf(v)'
    <2>1. /\ UNCHANGED <<lines, tail, salvage>>
          /\ pc[w] \notin Repairing \cup Objects
          /\ pc'[w] \notin Repairing \cup Objects
          /\ \A v \in Writers \ {w} : pc'[v] = pc[v] /\ row'[v] = row[v]
          /\ pc'[w] = "checked" => tail = <<>> \/ Parses(tail)
      BY <1>2, SilentShape
    <2>2. TailOf(w)'
      BY <2>1 DEF TailOf, TailInv, Repairing, Objects, Parses
    <2>3. ASSUME NEW v \in Writers \ {w} PROVE TailOf(v)'
      <3>1. Mine(v)' = Mine(v) /\ pc'[v] = pc[v]
        BY <2>1 DEF Mine
      <3>2. QED
        BY <2>1, <3>1 DEF TailOf, TailInv, Parses
    <2>4. QED
      BY <2>2, <2>3
  <1>3. ASSUME NEW w \in Writers, Truncate(w) PROVE \A v \in Writers : TailOf(v)'
    <2>1. /\ pc[w] = "locked" /\ pc' = [pc EXCEPT ![w] = "cut"] /\ tail' = <<>>
          /\ salvage' = [salvage EXCEPT ![w] = Recorded(tail)]
      BY <1>3 DEF Truncate, At, Goto
    <2>2. pc'[w] = "cut" /\ \A v \in Writers \ {w} : pc'[v] = pc[v] /\ salvage'[v] = salvage[v]
      BY <2>1 DEF TypeOK
    <2>3. TailOf(w)'
      BY <2>1, <2>2 DEF TailOf, Repairing
    <2>4. \A v \in Writers \ {w} : TailOf(v)'
      BY <2>1, <2>2, OneWriter, TailOfOther DEF Busy
    <2>5. QED
      BY <2>3, <2>4
  <1>4. ASSUME NEW w \in Writers, Begin(w) PROVE \A v \in Writers : TailOf(v)'
    <2>1. /\ pc[w] \in Busy /\ row' = row /\ salvage' = salvage
          /\ \A v \in Writers \ {w} : pc'[v] = pc[v]
      BY <1>4, BeginShape DEF TypeOK, Busy
    <2>2. TailOf(w)'
      <3>1. CASE pc[w] = "cut"
        <4>1. pc'[w] = "auditing" /\ tail' = <<AuditPiece(salvage[w])>>
          BY <1>4, <3>1, BeginShape DEF TypeOK
        <4>2. Mine(w)' = AuditPiece(salvage[w])
          BY <2>1, <4>1 DEF Mine, AuditPiece
        <4>3. QED
          BY <4>1, <4>2 DEF TailOf, Repairing
      <3>2. CASE pc[w] # "cut"
        <4>1. /\ pc'[w] = "writing" /\ pc[w] = "checked"
              /\ \/ tail' = <<RowPiece(row[w])>>
                 \/ Len(tail') = 2 /\ tail'[1].whole /\ tail'[2] = RowPiece(row[w])
          BY <1>4, <3>2, BeginShape DEF TypeOK
        <4>2. Mine(w)' = RowPiece(row[w])
          BY <2>1, <4>1 DEF Mine, RowPiece
        <4>3. salvage[w] = {}
          BY <4>1 DEF TailInv, Repairing
        <4>4. QED
          BY <2>1, <4>1, <4>2, <4>3 DEF TailOf
      <3>3. QED
        BY <3>1, <3>2
    <2>3. \A v \in Writers \ {w} : TailOf(v)'
      BY <2>1, OneWriter, TailOfOther
    <2>4. QED
      BY <2>2, <2>3
  <1>5. ASSUME NEW w \in Writers, Fill(w) PROVE \A v \in Writers : TailOf(v)'
    <2>1. /\ pc[w] \in {"auditing", "writing"} /\ salvage' = salvage
          /\ pc'[w] = IF pc[w] = "auditing" THEN "audited" ELSE "written"
          /\ \A v \in Writers \ {w} : pc'[v] = pc[v]
      BY <1>5, FillShape DEF Fill, TypeOK
    <2>2. TailOf(w)'
      <3>1. /\ Len(tail') \in 1 .. 2 /\ tail'[Len(tail')] = Mine(w)' /\ tail' \in Seq(Piece)
            /\ Len(tail') = 2 => pc[w] = "writing" /\ tail'[1] = tail[1]
        BY <1>5, FillShape
      <3>2. CASE Len(tail') = 1
        <4>1. tail' = <<Mine(w)'>>
          BY <3>1, <3>2
        <4>2. QED
          BY <2>1, <4>1 DEF TailOf, TailInv, Repairing
      <3>3. CASE Len(tail') = 2
        <4>1. Len(tail) = 2 /\ tail[1].whole
          BY <1>5, <3>3, FillShape DEF TypeOK
        <4>2. QED
          BY <2>1, <3>1, <3>3, <4>1 DEF TailOf, TailInv, Repairing
      <3>4. QED
        BY <3>1, <3>2, <3>3
    <2>3. \A v \in Writers \ {w} : TailOf(v)'
      BY <2>1, OneWriter, TailOfOther DEF Busy
    <2>4. QED
      BY <2>2, <2>3
  <1>6. ASSUME NEW w \in Writers, EndAudit(w) \/ EndRow(w) PROVE \A v \in Writers : TailOf(v)'
    <2>1. /\ pc[w] \in {"audited", "written"} /\ tail' = <<>>
          /\ pc'[w] \in {"checked", "done"}
          /\ salvage'[w] = {}
          /\ \A v \in Writers \ {w} : pc'[v] = pc[v] /\ salvage'[v] = salvage[v]
      BY <1>6 DEF EndAudit, EndRow, At, Goto, TypeOK, TailInv, Repairing
    <2>2. TailOf(w)'
      BY <2>1 DEF TailOf
    <2>3. \A v \in Writers \ {w} : TailOf(v)'
      BY <2>1, OneWriter, TailOfOther DEF Busy
    <2>4. QED
      BY <2>2, <2>3
  <1>7. ASSUME NEW w \in Writers, Crash(w) PROVE \A v \in Writers : TailOf(v)'
    <2>1. /\ UNCHANGED <<lines, tail>> /\ pc'[w] = "idle" /\ salvage'[w] = {}
          /\ \A v \in Writers \ {w} : pc'[v] = pc[v] /\ row'[v] = row[v] /\ salvage'[v] = salvage[v]
      BY <1>7 DEF Crash, bytes, Goto, TypeOK
    <2>2. TailOf(w)'
      BY <2>1 DEF TailOf
    <2>3. ASSUME NEW v \in Writers \ {w} PROVE TailOf(v)'
      <3>1. Mine(v)' = Mine(v) /\ pc'[v] = pc[v] /\ salvage'[v] = salvage[v]
        BY <2>1 DEF Mine
      <3>2. QED
        BY <2>1, <3>1 DEF TailOf, TailInv, Parses
    <2>4. QED
      BY <2>2, <2>3
  <1>8. (\A v \in Writers : TailOf(v)') => TailInv'
    BY DEF TailOf, TailInv
  <1>9. QED
    BY <1>1, <1>2, <1>3, <1>4, <1>5, <1>6, <1>7, <1>8, StepCases

(* What a crash has left behind the last newline: nothing new is left      *)
(* there but by a crash, and the end of a line takes it away.              *)
LEMMA OwedStep ==
  ASSUME TypeOK, ControlInv, TailInv, NEW w \in Writers
  PROVE  /\ Owed \in 0 .. 1 /\ Owed' \in 0 .. 1
         /\ Silent(w) \/ Truncate(w) \/ Begin(w) \/ Fill(w) => Owed' <= Owed
         /\ EndAudit(w) \/ EndRow(w) => Owed' = 0 /\ (Len(tail) = 2 => Owed = 1)
  <1>1. Owed \in 0 .. 1 /\ Owed' \in 0 .. 1
    BY DEF Owed
  <1>2. ASSUME Silent(w) PROVE Leftover' => Leftover
    <2>1. /\ UNCHANGED tail
          /\ pc[w] \notin Objects
          /\ \A v \in Writers \ {w} : pc'[v] = pc[v]
      BY <1>2, SilentShape
    <2>2. QED
      BY <2>1 DEF Leftover
  <1>3. ASSUME Truncate(w) PROVE ~Leftover'
    BY <1>3 DEF Truncate, Leftover
  <1>4. ASSUME Begin(w) PROVE Leftover' => Leftover
    <2>1. \A v \in Writers \ {w} : pc'[v] = pc[v] /\ pc[v] \notin Objects
      BY <1>4, BeginShape, OneWriter DEF Busy, Objects, TypeOK
    <2>2. pc[w] \in {"cut", "checked"} /\ pc'[w] \in Objects
      BY <1>4, BeginShape DEF Objects, TypeOK
    <2>3. Leftover' => Len(tail') = 2
      BY <2>2 DEF Leftover
    <2>4. Len(tail') = 2 => Len(tail) = 1
      <3>1. ASSUME NEW p, tail' = <<p>> PROVE Len(tail') # 2
        BY <3>1
      <3>2. (\E p : tail' = <<p>>) \/ Len(tail) = 1
        BY <1>4, BeginShape, Zenon
      <3>3. QED
        BY <3>1, <3>2
    <2>5. QED
      BY <2>1, <2>2, <2>3, <2>4 DEF Leftover, Objects
  <1>5. ASSUME Fill(w) PROVE Leftover' => Leftover
    <2>1. pc'[w] \in Objects /\ Len(tail') = Len(tail)
      BY <1>5, FillShape DEF Objects, TypeOK
    <2>2. QED
      BY <2>1 DEF Leftover
  <1>6. ASSUME EndAudit(w) \/ EndRow(w) PROVE ~Leftover' /\ (Len(tail) = 2 => Leftover)
    <2>1. tail' = <<>>
      BY <1>6, EndShape
    <2>2. QED
      BY <2>1 DEF Leftover
  <1>7. QED
    BY <1>1, <1>2, <1>3, <1>4, <1>5, <1>6 DEF Owed

(* A finite set that gains one element at most.                            *)
LEMMA OneMore ==
  ASSUME NEW S, IsFiniteSet(S), NEW x, NEW T, T \subseteq S \cup {x}
  PROVE  /\ IsFiniteSet(T) /\ Cardinality(T) \in Nat /\ Cardinality(S) \in Nat
         /\ Cardinality(T) <= Cardinality(S) + 1
  <1>1. Cardinality(S) \in Nat
    BY FS_CardinalityType
  <1>2. /\ IsFiniteSet(S \cup {x})
        /\ Cardinality(S \cup {x}) = IF x \in S THEN Cardinality(S) ELSE Cardinality(S) + 1
    BY FS_AddElement
  <1>3. IsFiniteSet(T) /\ Cardinality(T) <= Cardinality(S \cup {x})
    BY <1>2, FS_Subset
  <1>4. Cardinality(T) \in Nat
    BY <1>3, FS_CardinalityType
  <1>5. QED
    BY <1>1, <1>2, <1>3, <1>4

(* The spoilt lines are finitely many.                                     *)
LEMMA SpoiltFinite ==
  ASSUME NEW l \in Seq(Seq(Piece)), NEW T \in SUBSET DOMAIN l
  PROVE  IsFiniteSet(T) /\ Cardinality(T) \in Nat
  <1>1. DOMAIN l = 1 .. Len(l) /\ Len(l) \in Nat
    OBVIOUS
  <1>2. IsFiniteSet(1 .. Len(l))
    BY <1>1, FS_Interval
  <1>3. QED
    BY <1>1, <1>2, FS_Subset, FS_CardinalityType

(* A line is spoilt only at the cost of what a crash had left before it.   *)
LEMMA SpoiltStep ==
  ASSUME TypeOK, ControlInv, TailInv, SpoiltInv, TypeOK', [Next]_vars
  PROVE  SpoiltInv'
  <1>1. /\ IsFiniteSet(Spoilt) /\ Cardinality(Spoilt) \in Nat
        /\ crashes \in Nat /\ Owed \in 0 .. 1 /\ Cardinality(Spoilt) + Owed <= crashes
    BY SpoiltFinite DEF Spoilt, TypeOK, Owed, SpoiltInv
  <1>2. CASE UNCHANGED vars
    BY <1>2 DEF SpoiltInv, Spoilt, Owed, Leftover, vars, bytes, locks, Parses
  <1>3. ASSUME NEW w \in Writers, Silent(w) PROVE SpoiltInv'
    <2>1. /\ UNCHANGED <<lines, crashes>> /\ pc'[w] \notin Repairing
          /\ \A v \in Writers \ {w} : pc'[v] = pc[v]
      BY <1>3, SilentShape
    <2>2. Spoilt' = Spoilt
      BY <2>1 DEF Spoilt, Parses
    <2>3. Owed' \in 0 .. 1 /\ Owed' <= Owed
      BY <1>3, OwedStep
    <2>4. Cardinality(Spoilt') + Owed' <= crashes'
      BY <1>1, <2>1, <2>2, <2>3
    <2>5. \A v \in Writers : pc'[v] \in Repairing => crashes' > 0
      BY <2>1 DEF SpoiltInv
    <2>6. QED
      BY <2>1, <2>2, <2>4, <2>5 DEF SpoiltInv
  <1>4. ASSUME NEW w \in Writers, Truncate(w) PROVE SpoiltInv'
    <2>1. /\ UNCHANGED <<lines, crashes>> /\ pc[w] = "locked" /\ tail # <<>> /\ ~Parses(tail)
          /\ \A v \in Writers \ {w} : pc'[v] = pc[v]
      BY <1>4 DEF Truncate, At, Goto, TypeOK
    <2>2. Spoilt' = Spoilt
      BY <2>1 DEF Spoilt, Parses
    <2>3. Owed' \in 0 .. 1 /\ Owed' <= Owed
      BY <1>4, OwedStep
    <2>4. Cardinality(Spoilt') + Owed' <= crashes'
      BY <1>1, <2>1, <2>2, <2>3
    <2>5. Leftover
      <3>1. \A v \in Writers : pc[v] \notin Objects
        BY <2>1, OneWriter DEF Busy, Objects
      <3>2. Len(tail) = 1 \/ Len(tail) = 2
        <4> DEFINE k == Len(tail)
        <4>1. tail \in Seq(Piece) /\ tail # <<>> /\ k <= 2
          BY <2>1 DEF TypeOK
        <4>2. k \in Nat /\ k # 0
          BY <4>1, EmptySeq
        <4>3. k <= 2
          BY <4>1
        <4> HIDE DEF k
        <4>4. k = 1 \/ k = 2
          BY <4>2, <4>3
        <4>5. QED
          BY <4>4 DEF k
      <3>3. QED
        BY <3>1, <3>2 DEF Leftover
    <2>6. crashes' > 0
      BY <1>1, <2>1, <2>5 DEF Owed
    <2>7. QED
      BY <2>1, <2>2, <2>4, <2>6 DEF SpoiltInv
  <1>5. ASSUME NEW w \in Writers, Begin(w) PROVE SpoiltInv'
    <2>1. /\ UNCHANGED <<lines, crashes>> /\ pc' \in [Writers -> PC]
          /\ pc'[w] \in Repairing => pc[w] \in Repairing
          /\ \A v \in Writers \ {w} : pc'[v] = pc[v]
      BY <1>5, BeginShape DEF TypeOK, Repairing
    <2>2. Spoilt' = Spoilt
      BY <2>1 DEF Spoilt, Parses
    <2>3. Owed' \in 0 .. 1 /\ Owed' <= Owed
      BY <1>5, OwedStep
    <2>4. Cardinality(Spoilt') + Owed' <= crashes'
      BY <1>1, <2>1, <2>2, <2>3
    <2>5. \A v \in Writers : pc'[v] \in Repairing => crashes' > 0
      BY <2>1 DEF SpoiltInv
    <2>6. QED
      BY <2>1, <2>2, <2>4, <2>5 DEF SpoiltInv
  <1>6. ASSUME NEW w \in Writers, Fill(w) PROVE SpoiltInv'
    <2>1. /\ UNCHANGED <<lines, crashes>>
          /\ pc'[w] \in Repairing => pc[w] \in Repairing
          /\ \A v \in Writers \ {w} : pc'[v] = pc[v]
      BY <1>6, FillShape DEF Fill, TypeOK, Repairing
    <2>2. Spoilt' = Spoilt
      BY <2>1 DEF Spoilt, Parses
    <2>3. Owed' \in 0 .. 1 /\ Owed' <= Owed
      BY <1>6, OwedStep
    <2>4. Cardinality(Spoilt') + Owed' <= crashes'
      BY <1>1, <2>1, <2>2, <2>3
    <2>5. \A v \in Writers : pc'[v] \in Repairing => crashes' > 0
      BY <2>1 DEF SpoiltInv
    <2>6. QED
      BY <2>1, <2>2, <2>4, <2>5 DEF SpoiltInv
  <1>7. ASSUME NEW w \in Writers, EndAudit(w) \/ EndRow(w) PROVE SpoiltInv'
    <2> DEFINE n == Len(lines) + 1
    <2>1. /\ crashes' = crashes /\ DOMAIN lines' = DOMAIN lines \cup {n} /\ n \notin DOMAIN lines
          /\ \A i \in DOMAIN lines : lines'[i] = lines[i]
          /\ lines'[n] = tail
          /\ Len(tail) \in 1 .. 2 /\ tail[Len(tail)].whole
          /\ Len(tail) = 2 => tail[1].whole
          /\ Parses(tail) <=> Len(tail) = 1
      BY <1>7, EndShape
    <2> HIDE DEF n
    <2>2. \A i \in DOMAIN lines' : i \in Spoilt' <=> (i \in Spoilt \/ (i = n /\ Len(tail) = 2))
      BY <2>1 DEF Spoilt, Parses
    <2>3. Owed' = 0 /\ (Len(tail) = 2 => Owed = 1)
      BY <1>7, OwedStep
    <2>4. Cardinality(Spoilt') + Owed' <= crashes'
      <3>1. CASE Len(tail) = 1
        <4>1. Spoilt' = Spoilt
          BY <2>1, <2>2, <3>1 DEF Spoilt
        <4>2. QED
          BY <1>1, <2>1, <2>3, <4>1
      <3>2. CASE Len(tail) = 2
        <4>1. Spoilt' = Spoilt \cup {n}
          BY <2>1, <2>2, <3>2 DEF Spoilt
        <4>2. Cardinality(Spoilt') <= Cardinality(Spoilt) + 1
          BY <1>1, <4>1, FS_AddElement
        <4>3. Cardinality(Spoilt') \in Nat
          BY SpoiltFinite DEF Spoilt, TypeOK
        <4>4. QED
          BY <1>1, <2>1, <2>3, <3>2, <4>2, <4>3
      <3>3. QED
        BY <2>1, <3>1, <3>2
    <2>5. ASSUME NEW i \in Spoilt'
          PROVE  Len(lines'[i]) = 2 /\ lines'[i][1].whole /\ lines'[i][2].whole
      <3>1. i \in DOMAIN lines'
        BY DEF Spoilt
      <3>2. CASE i \in Spoilt
        BY <2>1, <3>2 DEF SpoiltInv, Spoilt
      <3>3. CASE i = n /\ Len(tail) = 2
        BY <2>1, <3>3
      <3>4. QED
        BY <2>2, <3>1, <3>2, <3>3
    <2>6. pc'[w] \notin Repairing /\ \A v \in Writers \ {w} : pc'[v] = pc[v]
      BY <1>7 DEF EndAudit, EndRow, Goto, TypeOK, Repairing
    <2>7. QED
      BY <2>1, <2>4, <2>5, <2>6 DEF SpoiltInv
  <1>8. ASSUME NEW w \in Writers, Crash(w) PROVE SpoiltInv'
    <2>1. UNCHANGED <<lines, tail>> /\ crashes' = crashes + 1
      BY <1>8 DEF Crash, bytes
    <2>2. Spoilt' = Spoilt
      BY <2>1 DEF Spoilt, Parses
    <2>3. Owed' \in 0 .. 1
      BY DEF Owed
    <2>4. Cardinality(Spoilt') + Owed' <= crashes' /\ crashes' > 0
      BY <1>1, <2>1, <2>2, <2>3
    <2>5. QED
      BY <2>1, <2>2, <2>4 DEF SpoiltInv
  <1>9. QED
    BY <1>2, <1>3, <1>4, <1>5, <1>6, <1>7, <1>8, StepCases

(* An acknowledged row is on a line that parses, or a crash paid for it.   *)
LEMMA LostStep ==
  ASSUME TypeOK, ControlInv, TailInv, SpoiltInv, LostInv, [Next]_vars
  PROVE  LostInv'
  <1>1. /\ IsFiniteSet(acked) /\ IsFiniteSet(Lost) /\ Cardinality(Lost) \in Nat
        /\ crashes \in Nat /\ Owed \in 0 .. 1 /\ Cardinality(Lost) + Owed <= crashes
    <2>1. IsFiniteSet(acked) /\ Lost \in SUBSET acked
      BY DEF LostInv, Lost
    <2>2. IsFiniteSet(Lost) /\ Cardinality(Lost) \in Nat
      BY <2>1, FS_Subset, FS_CardinalityType
    <2>3. QED
      BY <2>1, <2>2 DEF LostInv, TypeOK, Owed
  <1>2. CASE UNCHANGED vars
    BY <1>2 DEF LostInv, Lost, Holds, Owed, Leftover, vars, bytes, locks, Parses
  <1>3. ASSUME NEW w \in Writers, Silent(w) \/ Truncate(w) \/ Begin(w) \/ Fill(w) PROVE LostInv'
    <2>1. UNCHANGED <<lines, acked, crashes>>
      BY <1>3, SilentShape, BeginShape DEF Truncate, Fill
    <2>2. Lost' = Lost
      BY <2>1 DEF Lost, Holds, Parses
    <2>3. Owed' \in 0 .. 1 /\ Owed' <= Owed
      BY <1>3, OwedStep
    <2>4. QED
      BY <1>1, <2>1, <2>2, <2>3 DEF LostInv
  <1>4. ASSUME NEW w \in Writers, EndAudit(w) PROVE LostInv'
    <2>1. /\ UNCHANGED <<acked, crashes>> /\ DOMAIN lines \subseteq DOMAIN lines'
          /\ \A i \in DOMAIN lines : lines'[i] = lines[i]
      BY <1>4, EndShape DEF EndAudit
    <2>2. Lost' \in SUBSET Lost
      BY <2>1 DEF Lost, Holds, Parses
    <2>3. IsFiniteSet(Lost') /\ Cardinality(Lost') \in Nat /\ Cardinality(Lost') <= Cardinality(Lost)
      BY <1>1, <2>2, FS_Subset, FS_CardinalityType
    <2>4. Owed' = 0
      BY <1>4, OwedStep
    <2>5. QED
      BY <1>1, <2>1, <2>3, <2>4 DEF LostInv
  <1>5. ASSUME NEW w \in Writers, EndRow(w) PROVE LostInv'
    <2> DEFINE n == Len(lines) + 1
    <2>1. /\ crashes' = crashes /\ DOMAIN lines' = DOMAIN lines \cup {n}
          /\ \A i \in DOMAIN lines : lines'[i] = lines[i]
          /\ lines'[n] = tail
          /\ Len(tail) \in 1 .. 2 /\ tail[Len(tail)] = Mine(w)
          /\ Parses(tail) <=> Len(tail) = 1
      BY <1>5, EndShape
    <2> HIDE DEF n
    <2>2. acked' = acked \cup {row[w]} /\ pc[w] = "written"
      BY <1>5 DEF EndRow, At
    <2>3. IsFiniteSet(acked')
      BY <1>1, <2>2, FS_AddElement
    <2>4. Owed' = 0 /\ (Len(tail) = 2 => Owed = 1)
      BY <1>5, OwedStep
    <2>5. Lost' \subseteq Lost \cup {row[w]}
      BY <2>1, <2>2 DEF Lost, Holds, Parses
    <2>6. CASE Len(tail) = 1
      <3>1. Mine(w).rows = {row[w]} /\ ~Mine(w).audit
        BY <2>2 DEF Mine
      <3>2. Holds(lines'[n], row[w])
        BY <2>1, <2>6, <3>1 DEF Holds
      <3>3. row[w] \notin Lost'
        BY <2>1, <3>2 DEF Lost, Holds, Parses
      <3>4. Lost' \in SUBSET Lost
        BY <2>5, <3>3
      <3>5. Cardinality(Lost') \in Nat /\ Cardinality(Lost') <= Cardinality(Lost)
        BY <1>1, <3>4, FS_Subset, FS_CardinalityType
      <3>6. QED
        BY <1>1, <2>1, <2>3, <2>4, <3>5 DEF LostInv
    <2>7. CASE Len(tail) = 2
      <3>1. Cardinality(Lost') \in Nat /\ Cardinality(Lost') <= Cardinality(Lost) + 1
        BY <1>1, <2>5, OneMore
      <3>2. QED
        BY <1>1, <2>1, <2>3, <2>4, <2>7, <3>1 DEF LostInv
    <2>8. QED
      BY <2>1, <2>6, <2>7
  <1>6. ASSUME NEW w \in Writers, Crash(w) PROVE LostInv'
    <2>1. UNCHANGED <<lines, acked>> /\ crashes' = crashes + 1
      BY <1>6 DEF Crash, bytes
    <2>2. Lost' = Lost
      BY <2>1 DEF Lost, Holds, Parses
    <2>3. Owed' \in 0 .. 1
      BY DEF Owed
    <2>4. QED
      BY <1>1, <2>1, <2>2, <2>3 DEF LostInv
  <1>7. QED
    BY <1>2, <1>3, <1>4, <1>5, <1>6, StepCases

OnDisk(r) ==
  (\E i \in DOMAIN lines : r \in Recorded(lines[i])) \/ r \in Recorded(tail)

(* A row is traced when it is in the file or in the memory of a repair.    *)
LEMMA TracedIs ==
  ASSUME TypeOK, NEW r
  PROVE  Traced(r) <=> OnDisk(r) \/ \E w \in Writers : r \in salvage[w]
  <1>1. AllLines = Found(lines, tail)
    BY DEF AllLines, Found
  <1>2. lines \in Seq(Seq(Piece)) /\ tail \in Seq(Piece)
    BY DEF TypeOK
  <1>3. (\E i \in DOMAIN Found(lines, tail) : r \in Recorded(Found(lines, tail)[i])) <=>
          (\E i \in DOMAIN lines : r \in Recorded(lines[i])) \/ r \in Recorded(tail)
    BY <1>2, TraceParts, Zenon
  <1>4. QED
    BY <1>1, <1>3 DEF Traced, OnDisk

(* The same after a step.                                                  *)
LEMMA TracedIsNext ==
  ASSUME TypeOK', NEW r
  PROVE  Traced(r)' <=> OnDisk(r)' \/ \E w \in Writers : r \in salvage'[w]
  <1>1. AllLines' = Found(lines', tail')
    BY DEF AllLines, Found
  <1>2. lines' \in Seq(Seq(Piece)) /\ tail' \in Seq(Piece)
    BY DEF TypeOK
  <1>3. (\E i \in DOMAIN Found(lines', tail') : r \in Recorded(Found(lines', tail')[i])) <=>
          (\E i \in DOMAIN lines' : r \in Recorded(lines'[i])) \/ r \in Recorded(tail')
    BY <1>2, TraceParts, Zenon
  <1>4. QED
    BY <1>1, <1>3 DEF Traced, OnDisk

(* A step that puts no row at risk and lets none vanish.                   *)
LEMMA RiskKept ==
  ASSUME TypeOK, RiskInv, IsFiniteSet(begun'), crashes' = crashes,
         \A r \in begun' : r \in begun \/ Safe(r)',
         \A r \in begun : Safe(r) => Safe(r)',
         \A r \in begun' : r \in begun \/ Traced(r)',
         \A r \in begun : Traced(r) => Traced(r)'
  PROVE  RiskInv'
  <1>1. AtRisk' \in SUBSET AtRisk
    BY DEF AtRisk
  <1>2. Vanished' # {} => Vanished # {}
    BY DEF Vanished
  <1>3. IsFiniteSet(AtRisk)
    BY FS_Subset DEF RiskInv, AtRisk
  <1>4. /\ Cardinality(AtRisk') \in Nat /\ Cardinality(AtRisk) \in Nat
        /\ Cardinality(AtRisk') <= Cardinality(AtRisk)
    BY <1>1, <1>3, FS_Subset, FS_CardinalityType
  <1>5. QED
    BY <1>2, <1>4 DEF RiskInv, TypeOK

(* A row is at risk only after a crash, and lost only after a second one.  *)
LEMMA RiskStep ==
  ASSUME TypeOK, ControlInv, TailInv, RiskInv, TypeOK', [Next]_vars
  PROVE  RiskInv'
  <1>1. CASE UNCHANGED vars
    <2>1. \A r : (Safe(r)' <=> Safe(r)) /\ (Traced(r)' <=> Traced(r))
      BY <1>1 DEF Safe, Traced, AllLines, Recorded, vars, bytes, locks
    <2>2. begun' = begun /\ crashes' = crashes
      BY <1>1 DEF vars
    <2>3. QED
      BY <2>1, <2>2, RiskKept DEF RiskInv
  <1>2. ASSUME NEW w \in Writers, Silent(w) PROVE RiskInv'
    <2>1. /\ UNCHANGED <<lines, tail, salvage, begun, crashes>>
          /\ pc[w] \notin Objects
          /\ \A v \in Writers \ {w} : pc'[v] = pc[v] /\ row'[v] = row[v]
      BY <1>2, SilentShape
    <2>2. \A r : Safe(r) => Safe(r)'
      BY <2>1 DEF Safe, Objects, Recorded
    <2>3. \A r : Traced(r) => Traced(r)'
      BY <2>1 DEF Traced, AllLines, Recorded
    <2>4. QED
      BY <2>1, <2>2, <2>3, RiskKept DEF RiskInv
  <1>3. ASSUME NEW w \in Writers, Truncate(w) PROVE RiskInv'
    <2>1. /\ UNCHANGED <<lines, row, begun, crashes>> /\ pc[w] = "locked"
          /\ salvage' = [salvage EXCEPT ![w] = Recorded(tail)]
          /\ \A v \in Writers \ {w} : pc'[v] = pc[v]
      BY <1>3 DEF Truncate, At, Goto, TypeOK
    <2>2. \A r : Safe(r) => Safe(r)'
      BY <2>1 DEF Safe, Recorded
    <2>3. salvage[w] = {}
      BY <2>1 DEF TailInv, Repairing
    <2>4. salvage'[w] = Recorded(tail) /\ \A v \in Writers \ {w} : salvage'[v] = salvage[v]
      BY <2>1 DEF TypeOK
    <2>5. ASSUME NEW r, Traced(r) PROVE Traced(r)'
      <3>1. OnDisk(r) \/ \E v \in Writers : r \in salvage[v]
        BY <2>5, TracedIs
      <3>2. CASE \E i \in DOMAIN lines : r \in Recorded(lines[i])
        <4>1. OnDisk(r)'
          BY <2>1, <3>2 DEF OnDisk, Recorded
        <4>2. QED
          BY <4>1, TracedIsNext
      <3>3. CASE r \in Recorded(tail) \/ \E v \in Writers : r \in salvage[v]
        <4>1. \E v \in Writers : r \in salvage'[v]
          BY <2>3, <2>4, <3>3
        <4>2. QED
          BY <4>1, TracedIsNext
      <3>4. QED
        BY <3>1, <3>2, <3>3 DEF OnDisk
    <2>6. QED
      BY <2>1, <2>2, <2>5, RiskKept DEF RiskInv
  <1>4. ASSUME NEW w \in Writers, Begin(w) PROVE RiskInv'
    <2>1. /\ UNCHANGED <<lines, row, salvage, crashes>> /\ pc' \in [Writers -> PC]
          /\ pc[w] \in {"cut", "checked"}
          /\ \A v \in Writers \ {w} : pc'[v] = pc[v]
          /\ begun' = begun \/ (begun' = begun \cup {row[w]} /\ pc'[w] = "writing")
      BY <1>4, BeginShape DEF TypeOK
    <2>2. \A r : Safe(r) => Safe(r)'
      BY <2>1 DEF Safe, Recorded
    <2>3. \A r \in begun' : r \in begun \/ Safe(r)'
      BY <2>1 DEF Safe
    <2>4. Recorded(tail) \subseteq Recorded(tail')
      <3>1. CASE tail = <<>>
        BY <3>1, EmptyLine
      <3>2. CASE tail # <<>>
        <4>1. tail' = Append(tail, RowPiece(row[w])) /\ RowPiece(row[w]) \in Piece
          BY <1>4, <3>2, BeginShape
        <4>2. QED
          BY <4>1, RecordedAppend DEF TypeOK
      <3>3. QED
        BY <3>1, <3>2
    <2>5. \A r : Traced(r) => Traced(r)'
      <3>1. \A r : OnDisk(r) => OnDisk(r)'
        BY <2>1, <2>4 DEF OnDisk, Recorded
      <3>2. QED
        BY <2>1, <3>1, TracedIs, TracedIsNext
    <2>6. \A r \in begun' : r \in begun \/ Traced(r)'
      <3>1. ASSUME begun' = begun \cup {row[w]}, begun' # begun PROVE row[w] \in Recorded(tail')
        <4>1. /\ tail' = Append(tail, RowPiece(row[w])) /\ RowPiece(row[w]) \in Piece
              /\ row[w] \in Rows
          BY <1>4, <3>1, BeginShape
        <4>2. ~RowPiece(row[w]).audit /\ RowPiece(row[w]).rows = {row[w]}
          BY DEF RowPiece
        <4>3. QED
          BY <4>1, <4>2, RecordedAppend DEF TypeOK
      <3>2. ASSUME begun' = begun \cup {row[w]}, begun' # begun PROVE Traced(row[w])'
        <4>1. OnDisk(row[w])'
          BY <2>1, <3>1, <3>2 DEF OnDisk
        <4>2. QED
          BY <2>1, <4>1, TracedIsNext
      <3>3. QED
        BY <2>1, <3>2
    <2>7. IsFiniteSet(begun')
      BY <2>1, FS_AddElement DEF RiskInv
    <2>8. QED
      BY <2>1, <2>2, <2>3, <2>5, <2>6, <2>7, RiskKept
  <1>5. ASSUME NEW w \in Writers, Fill(w) PROVE RiskInv'
    <2>1. /\ UNCHANGED <<lines, row, salvage, begun, crashes>>
          /\ pc[w] \in {"auditing", "writing"} /\ pc'[w] = (IF pc[w] = "auditing" THEN "audited" ELSE "written")
          /\ \A v \in Writers \ {w} : pc'[v] = pc[v]
      BY <1>5, FillShape DEF Fill, TypeOK
    <2>2. \A r : Safe(r) => Safe(r)'
      BY <2>1 DEF Safe, Recorded
    <2>3. Recorded(tail) \subseteq Recorded(tail')
      <3> DEFINE n == Len(tail)
      <3>1. /\ tail \in Seq(Piece) /\ tail' \in Seq(Piece) /\ DOMAIN tail' = DOMAIN tail
            /\ tail'[n].rows = tail[n].rows /\ tail'[n].whole
            /\ \A i \in DOMAIN tail : i # n => tail'[i] = tail[i]
        <4>1. \A i \in DOMAIN tail : i # n => i = 1 /\ n = 2
          BY <1>5, FillShape DEF TypeOK
        <4>2. QED
          BY <1>5, <4>1, FillShape DEF TypeOK
      <3> HIDE DEF n
      <3>2. ASSUME NEW r \in Recorded(tail) PROVE r \in Recorded(tail')
        <4>1. PICK i \in DOMAIN tail : (~tail[i].audit \/ tail[i].whole) /\ r \in tail[i].rows
          BY <3>1, RecordedMember
        <4>2. (~tail'[i].audit \/ tail'[i].whole) /\ r \in tail'[i].rows
          BY <3>1, <4>1
        <4>3. QED
          BY <3>1, <4>1, <4>2, RecordedMember
      <3>3. QED
        BY <3>2
    <2>4. \A r : Traced(r) => Traced(r)'
      <3>1. \A r : OnDisk(r) => OnDisk(r)'
        BY <2>1, <2>3 DEF OnDisk, Recorded
      <3>2. QED
        BY <2>1, <3>1, TracedIs, TracedIsNext
    <2>5. QED
      BY <2>1, <2>2, <2>4, RiskKept DEF RiskInv
  <1>6. ASSUME NEW w \in Writers, EndAudit(w) \/ EndRow(w) PROVE RiskInv'
    <2> DEFINE n == Len(lines) + 1
    <2>1. /\ UNCHANGED <<begun, crashes>> /\ DOMAIN lines' = DOMAIN lines \cup {n}
          /\ \A i \in DOMAIN lines : lines'[i] = lines[i]
          /\ lines'[n] = tail /\ tail \in Seq(Piece)
          /\ Len(tail) \in 1 .. 2 /\ tail[Len(tail)] = Mine(w)
          /\ Mine(w).whole
      BY <1>6, EndShape
    <2> HIDE DEF n
    <2>2. \A r : OnDisk(r) => \E i \in DOMAIN lines' : r \in Recorded(lines'[i])
      BY <2>1 DEF OnDisk, Recorded
    <2>3. Mine(w).rows \subseteq Recorded(tail)
      <3>1. Len(tail) \in DOMAIN tail
        BY <2>1
      <3>2. QED
        BY <2>1, <3>1, RecordedMember
    <2>4. /\ pc[w] \in {"audited", "written"} /\ row' = row
          /\ \A v \in Writers \ {w} : pc'[v] = pc[v] /\ salvage'[v] = salvage[v]
      BY <1>6 DEF EndAudit, EndRow, At, Goto, TypeOK
    <2>5. /\ pc[w] = "written" => Mine(w).rows = {row[w]}
          /\ pc[w] = "written" => salvage[w] = {}
          /\ pc[w] = "audited" => Mine(w).rows = salvage[w]
      BY DEF Mine, TailInv, Repairing
    <2>6. ASSUME NEW r, Safe(r) PROVE Safe(r)'
      <3>1. CASE \E i \in DOMAIN lines : r \in Recorded(lines[i])
        BY <2>2, <3>1 DEF OnDisk, Safe
      <3>2. CASE pc[w] = "written" /\ row[w] = r
        <4>1. OnDisk(r)
          BY <2>3, <2>5, <3>2 DEF OnDisk
        <4>2. QED
          BY <2>2, <4>1 DEF Safe
      <3>3. CASE \E v \in Writers \ {w} : pc[v] \in {"writing", "written"} /\ row[v] = r
        BY <2>4, <3>3 DEF Safe
      <3>4. QED
        BY <2>4, <2>6, <3>1, <3>2, <3>3 DEF Safe
    <2>7. ASSUME NEW r, Traced(r) PROVE Traced(r)'
      <3>1. OnDisk(r) \/ \E v \in Writers : r \in salvage[v]
        BY <2>7, TracedIs
      <3>2. CASE OnDisk(r)
        BY <2>2, <3>2, TracedIsNext DEF OnDisk
      <3>3. CASE r \in salvage[w]
        <4>1. OnDisk(r)
          BY <2>3, <2>4, <2>5, <3>3 DEF OnDisk
        <4>2. QED
          BY <2>2, <4>1, TracedIsNext DEF OnDisk
      <3>4. CASE \E v \in Writers \ {w} : r \in salvage[v]
        BY <2>4, <3>4, TracedIsNext
      <3>5. QED
        BY <3>1, <3>2, <3>3, <3>4
    <2>8. QED
      BY <2>1, <2>6, <2>7, RiskKept DEF RiskInv
  <1>7. ASSUME NEW w \in Writers, Crash(w) PROVE RiskInv'
    <2>1. /\ UNCHANGED <<lines, tail, begun>> /\ crashes' = crashes + 1
          /\ salvage'[w] = {}
          /\ \A v \in Writers \ {w} : pc'[v] = pc[v] /\ row'[v] = row[v] /\ salvage'[v] = salvage[v]
      BY <1>7 DEF Crash, bytes, Goto, TypeOK
    <2>2. /\ IsFiniteSet(begun) /\ IsFiniteSet(AtRisk) /\ Cardinality(AtRisk) \in Nat
          /\ crashes \in Nat /\ Cardinality(AtRisk) <= crashes
      <3>1. IsFiniteSet(begun) /\ AtRisk \in SUBSET begun
        BY DEF RiskInv, AtRisk
      <3>2. IsFiniteSet(AtRisk) /\ Cardinality(AtRisk) \in Nat
        BY <3>1, FS_Subset, FS_CardinalityType
      <3>3. QED
        BY <3>1, <3>2 DEF RiskInv, TypeOK
    <2>3. CASE pc[w] \in {"writing", "written"}
      <3>1. \A r : Safe(r) => Safe(r)' \/ r = row[w]
        BY <2>1 DEF Safe, Recorded
      <3>2. AtRisk' \in SUBSET (AtRisk \cup {row[w]})
        BY <2>1, <3>1 DEF AtRisk
      <3>4. Cardinality(AtRisk') <= Cardinality(AtRisk) + 1 /\ Cardinality(AtRisk') \in Nat
        BY <2>2, <3>2, OneMore
      <3>5. salvage[w] = {}
        BY <2>3 DEF TailInv, Repairing
      <3>6. \A r : Traced(r) => Traced(r)'
        <4>1. \A r : OnDisk(r) => OnDisk(r)'
          BY <2>1 DEF OnDisk, Recorded
        <4>2. \A r : (\E v \in Writers : r \in salvage[v]) => \E v \in Writers : r \in salvage'[v]
          BY <2>1, <3>5
        <4>3. QED
          BY <4>1, <4>2, TracedIs, TracedIsNext
      <3>7. Vanished' # {} => Vanished # {}
        BY <2>1, <3>6 DEF Vanished
      <3>8. QED
        BY <2>1, <2>2, <3>4, <3>7 DEF RiskInv
    <2>4. CASE pc[w] \notin {"writing", "written"}
      <3>1. \A r : Safe(r) => Safe(r)'
        BY <2>1, <2>4 DEF Safe, Recorded
      <3>2. AtRisk' \in SUBSET AtRisk
        BY <2>1, <3>1 DEF AtRisk
      <3>3. Cardinality(AtRisk') <= Cardinality(AtRisk) /\ Cardinality(AtRisk') \in Nat
        BY <2>2, <3>2, FS_Subset, FS_CardinalityType
      <3>4. QED
        BY <2>1, <2>2, <3>3 DEF RiskInv
    <2>5. QED
      BY <2>3, <2>4
  <1>8. QED
    BY <1>1, <1>2, <1>3, <1>4, <1>5, <1>6, <1>7, StepCases

-----------------------------------------------------------------------------
(* Theorems *)

(* The inductive invariant holds of every behaviour.                       *)
THEOREM IInvHolds == Spec => []IInv
  <1>1. IInv /\ [Next]_vars => IInv'
    <2> SUFFICES ASSUME IInv, [Next]_vars PROVE IInv'
      OBVIOUS
    <2>1. TypeOK /\ ControlInv /\ TailInv /\ SpoiltInv /\ LostInv /\ RiskInv
      BY DEF IInv
    <2>2. TypeOK'
      BY <2>1, TypeStep
    <2>3. ControlInv' /\ TailInv'
      BY <2>1, ControlStep, TailStep
    <2>4. SpoiltInv' /\ LostInv' /\ RiskInv'
      BY <2>1, <2>2, SpoiltStep, LostStep, RiskStep
    <2>5. QED
      BY <2>2, <2>3, <2>4 DEF IInv
  <1>2. QED
    BY InitIInv, <1>1, PTL DEF Spec

(* A row that a reader does not find is on no line that parses.            *)
LEMMA ReadersFind ==
  ASSUME TypeOK
  PROVE  acked \ ReadRows \subseteq Lost
  <1>1. /\ DOMAIN lines \subseteq DOMAIN AllLines
        /\ \A i \in DOMAIN lines : AllLines[i] = lines[i]
    <2>1. lines \in Seq(Seq(Piece)) /\ tail \in Seq(Piece) /\ AllLines = Found(lines, tail)
      BY DEF TypeOK, AllLines, Found
    <2>2. QED
      BY <2>1, ReaderLines
  <1>2. ASSUME NEW r \in acked, NEW i \in DOMAIN lines, Holds(lines[i], r) PROVE r \in ReadRows
    <2>1. i \in DOMAIN AllLines /\ AllLines[i] = lines[i]
      BY <1>1
    <2>2. Parses(AllLines[i]) /\ ~AllLines[i][1].audit /\ r \in AllLines[i][1].rows
      BY <1>2, <2>1 DEF Holds
    <2>3. i \in Readable
      BY <2>1, <2>2 DEF Readable
    <2>4. r \in Rows
      BY DEF TypeOK
    <2>5. QED
      BY <2>2, <2>3, <2>4 DEF ReadRows
  <1>3. QED
    BY <1>2 DEF Lost

(* A vanished row is at risk.                                              *)
LEMMA VanishedAtRisk ==
  ASSUME TypeOK, TailInv
  PROVE  Vanished \subseteq AtRisk
  <1>1. ASSUME NEW r, Safe(r) PROVE Traced(r)
    <2>1. CASE \E i \in DOMAIN lines : r \in Recorded(lines[i])
      BY <2>1, TracedIs DEF OnDisk
    <2>2. ASSUME NEW w \in Writers, pc[w] \in {"writing", "written"}, row[w] = r
          PROVE  Traced(r)
      <3>1. tail \in Seq(Piece) /\ \E i \in DOMAIN tail : tail[i] = Mine(w)
        BY <2>2 DEF TailInv, TypeOK
      <3>2. Mine(w).rows = {r} /\ ~Mine(w).audit
        BY <2>2 DEF Mine
      <3>3. r \in Recorded(tail)
        BY <3>1, <3>2, RecordedMember
      <3>4. QED
        BY <3>3, TracedIs DEF OnDisk
    <2>3. QED
      BY <1>1, <2>1, <2>2 DEF Safe
  <1>2. QED
    BY <1>1 DEF Vanished, AtRisk

(* A reader does not halt without a cause.                                 *)
LEMMA HaltCause ==
  ASSUME TypeOK, TailInv, SpoiltInv
  PROVE  HaltHasACause
  <1> SUFFICES ASSUME crashes = 0, \A w \in Writers : pc[w] # "writing",
                      NEW i \in DOMAIN AllLines
               PROVE  Parses(AllLines[i])
    BY DEF HaltHasACause, Halts, TypeOK
  <1>1. Cardinality(Spoilt) = 0 /\ ~Leftover /\ \A w \in Writers : pc[w] \notin Repairing
    <2>1. Cardinality(Spoilt) \in Nat /\ Cardinality(Spoilt) + Owed <= 0 /\ Owed \in 0 .. 1
      BY SpoiltFinite DEF SpoiltInv, Spoilt, Owed, TypeOK
    <2>2. QED
      BY <2>1 DEF Owed, SpoiltInv
  <1>2. Spoilt = {}
    BY <1>1, SpoiltFinite, FS_EmptySet DEF Spoilt, TypeOK
  <1>3. /\ lines \in Seq(Seq(Piece)) /\ tail \in Seq(Piece) /\ AllLines = Found(lines, tail)
    BY DEF TypeOK, AllLines, Found
  <1>4. CASE i \in DOMAIN lines
    BY <1>2, <1>3, <1>4, ReaderLines DEF Spoilt
  <1>5. CASE i \notin DOMAIN lines
    <2>1. tail # <<>> /\ AllLines[i] = tail
      <3>1. /\ DOMAIN AllLines = DOMAIN lines \cup (IF tail = <<>> THEN {} ELSE {Len(lines) + 1})
            /\ tail # <<>> => AllLines[Len(lines) + 1] = tail
        BY <1>3, ReaderLines, Zenon
      <3>2. QED
        BY <1>5, <3>1
    <2>2. Len(tail) # 2 /\ Len(tail) = 1
      <3> DEFINE k == Len(tail)
      <3>1. k \in Nat \ {0}
        BY <1>3, <2>1, EmptySeq
      <3>2. k <= 2
        BY DEF TypeOK
      <3>3. k # 2
        BY <1>1 DEF Leftover
      <3> HIDE DEF k
      <3>4. k = 1
        BY <3>1, <3>2, <3>3
      <3>5. QED
        BY <3>3, <3>4 DEF k
    <2>3. \E w \in Writers : pc[w] \in Objects
      BY <1>1, <2>2 DEF Leftover
    <2>4. PICK w \in Writers : pc[w] = "written"
      BY <1>1, <2>3 DEF Objects, Repairing
    <2>5. tail = <<Mine(w)>> /\ Mine(w).whole
      BY <1>1, <2>4 DEF TailInv, Mine, Leftover
    <2>6. QED
      BY <2>1, <2>5 DEF Parses
  <1>6. QED
    BY <1>4, <1>5

(* The log is what its readers and its writers take it for: a crash spoils *)
(* one line at most and hides one acknowledged row at most, it takes two   *)
(* crashes for a row to disappear without a trace, and a reader halts only *)
(* while a row is being written or after a crash (append_row, its repair   *)
(* of the last line, iter_rows).                                           *)
THEOREM LogIsKept == Spec => []LogInv
  <1>1. ASSUME IInv PROVE LogInv
    <2>1. TypeOK /\ ControlInv /\ TailInv /\ SpoiltInv /\ LostInv /\ RiskInv
      BY <1>1 DEF IInv
    <2>2. crashes \in Nat /\ Owed \in 0 .. 1
      BY <2>1 DEF TypeOK, Owed
    <2>3. CrashCostsOneLine
      <3>1. Cardinality(Spoilt) \in Nat
        BY <2>1, SpoiltFinite DEF Spoilt, TypeOK
      <3>2. Cardinality(Spoilt) <= crashes
        BY <2>1, <2>2, <3>1 DEF SpoiltInv
      <3>3. QED
        BY <2>1, <3>2 DEF SpoiltInv, CrashCostsOneLine, Spoilt
    <2>4. AcknowledgedRowsAreRead
      <3>1. IsFiniteSet(Lost) /\ Cardinality(Lost) \in Nat
        BY <2>1, FS_Subset, FS_CardinalityType DEF LostInv, Lost
      <3>2. Cardinality(Lost) <= crashes
        BY <2>1, <2>2, <3>1 DEF LostInv
      <3>3. /\ Cardinality(acked \ ReadRows) \in Nat
            /\ Cardinality(acked \ ReadRows) <= Cardinality(Lost)
        BY <2>1, <3>1, ReadersFind, FS_Subset, FS_CardinalityType
      <3>4. QED
        BY <2>2, <3>1, <3>2, <3>3 DEF AcknowledgedRowsAreRead
    <2>5. NothingVanishes
      <3>1. IsFiniteSet(AtRisk) /\ Cardinality(AtRisk) \in Nat
        BY <2>1, FS_Subset, FS_CardinalityType DEF RiskInv, AtRisk
      <3>2. /\ Cardinality(Vanished) \in Nat
            /\ Cardinality(Vanished) <= Cardinality(AtRisk)
        BY <2>1, <3>1, VanishedAtRisk, FS_Subset, FS_CardinalityType
      <3>3. Vanished = {} \/ Cardinality(Vanished) < crashes
        BY <2>1, <2>2, <3>1, <3>2 DEF RiskInv
      <3>4. QED
        BY <3>3 DEF NothingVanishes, Vanished
    <2>6. HaltHasACause
      BY <2>1, HaltCause
    <2>7. QED
      BY <2>1, <2>3, <2>4, <2>5, <2>6 DEF LogInv
  <1>2. QED
    BY IInvHolds, <1>1, PTL

(* A sequence is a prefix of itself and of what is appended to it.         *)
LEMMA PrefixAppend ==
  ASSUME NEW S, NEW s \in Seq(S), NEW e \in S
  PROVE  IsPrefix(s, s) /\ IsPrefix(s, Append(s, e))
  BY DEF IsPrefix

(* Without a crash, what parses behind the last newline is the row of a    *)
(* writer that is about to end it.                                         *)
LEMMA ParsedTail ==
  ASSUME IInv, crashes = 0, Parses(tail)
  PROVE  \E w \in Writers : pc[w] \in Objects
  <1>1. Owed = 0
    <2>1. Cardinality(Spoilt) \in Nat /\ Cardinality(Spoilt) + Owed <= 0 /\ Owed \in 0 .. 1
      BY SpoiltFinite DEF IInv, SpoiltInv, Spoilt, Owed, TypeOK
    <2>2. QED
      BY <2>1
  <1>2. QED
    BY <1>1 DEF Owed, Leftover, Parses

\* What a step may do to the file: complete lines stay, and so does a last
\* line that parses, which the newline may complete.
Keeps ==
  /\ lines' = lines \/ lines' = Append(lines, tail)
  /\ crashes' = 0 /\ Parses(tail) => (lines' = lines /\ tail' = tail) \/ (lines' = Append(lines, tail) /\ tail' = <<>>)

(* Every step keeps them.                                                  *)
LEMMA KeepsStep ==
  ASSUME IInv, [Next]_vars
  PROVE  Keeps
  <1>1. TypeOK /\ ControlInv /\ TailInv /\ crashes \in Nat
    BY DEF IInv, TypeOK
  <1>2. CASE UNCHANGED vars
    BY <1>2 DEF Keeps, vars, bytes
  <1>3. ASSUME NEW w \in Writers, Silent(w) PROVE Keeps
    BY <1>1, <1>3, SilentShape DEF Keeps
  <1>4. ASSUME NEW w \in Writers, Truncate(w) PROVE Keeps
    BY <1>4 DEF Keeps, Truncate
  <1>5. ASSUME NEW w \in Writers, Begin(w) PROVE Keeps
    <2>1. UNCHANGED <<lines, crashes>> /\ pc[w] \in Busy /\ pc[w] \notin Objects
      BY <1>1, <1>5, BeginShape DEF Busy, Objects
    <2>2. \A v \in Writers : pc[v] \notin Objects
      BY <1>1, <2>1, OneWriter DEF Busy, Objects
    <2>3. ~(crashes' = 0 /\ Parses(tail))
      BY <2>1, <2>2, ParsedTail
    <2>4. QED
      BY <2>1, <2>3 DEF Keeps
  <1>6. ASSUME NEW w \in Writers, Fill(w) PROVE Keeps
    <2>1. ~Parses(tail)
      BY <1>1, <1>6, FillShape DEF Parses
    <2>2. QED
      BY <1>6, <2>1 DEF Keeps, Fill
  <1>7. ASSUME NEW w \in Writers, EndAudit(w) \/ EndRow(w) PROVE Keeps
    BY <1>1, <1>7, EndShape DEF Keeps
  <1>8. ASSUME NEW w \in Writers, Crash(w) PROVE Keeps
    BY <1>8 DEF Keeps, Crash, bytes
  <1>9. QED
    BY <1>2, <1>3, <1>4, <1>5, <1>6, <1>7, <1>8, StepCases

(* A line that a reader parses is complete, or it is the last one.         *)
LEMMA ReadableParts ==
  ASSUME NEW l \in Seq(Seq(Piece)), NEW t \in Seq(Piece), NEW i
  PROVE  /\ i \in DOMAIN Found(l, t) /\ Parses(Found(l, t)[i]) <=>
              (i \in DOMAIN l /\ Parses(l[i])) \/ (i = Len(l) + 1 /\ Parses(t))
         /\ i \in DOMAIN l => Found(l, t)[i] = l[i]
         /\ i = Len(l) + 1 /\ Parses(t) => Found(l, t)[i] = t
  <1>1. /\ DOMAIN l = 1 .. Len(l) /\ Len(l) \in Nat
        /\ DOMAIN Found(l, t) = DOMAIN l \cup (IF t = <<>> THEN {} ELSE {Len(l) + 1})
        /\ \A k \in DOMAIN l : Found(l, t)[k] = l[k]
        /\ t # <<>> => Found(l, t)[Len(l) + 1] = t
    BY ReaderLines, Zenon
  <1>2. Parses(t) => t # <<>>
    BY EmptyLine
  <1>3. Len(l) + 1 \notin DOMAIN l
    BY <1>1
  <1>4. QED
    BY <1>1, <1>2, <1>3

(* What a reader parses it will find again.                                *)
LEMMA ReadAgain ==
  ASSUME NEW l \in Seq(Seq(Piece)), NEW t \in Seq(Piece),
         NEW m \in Seq(Seq(Piece)), NEW u \in Seq(Piece), NEW i,
         m = l \/ m = Append(l, t),
         Parses(t) => (m = l /\ u = t) \/ (m = Append(l, t) /\ u = <<>>),
         i \in DOMAIN Found(l, t), Parses(Found(l, t)[i])
  PROVE  /\ i \in DOMAIN Found(m, u) /\ Parses(Found(m, u)[i])
         /\ Found(m, u)[i] = Found(l, t)[i]
  <1>1. /\ DOMAIN l \subseteq DOMAIN m /\ \A k \in DOMAIN l : m[k] = l[k]
        /\ m = Append(l, t) => Len(l) + 1 \in DOMAIN m /\ m[Len(l) + 1] = t
    <2>1. CASE m = l
      <3>1. l # Append(l, t)
        BY Appended
      <3>2. QED
        BY <2>1, <3>1
    <2>2. CASE m = Append(l, t)
      BY <2>2, Appended
    <2>3. QED
      BY <2>1, <2>2
  <1>2. CASE i \in DOMAIN l /\ Parses(l[i])
    <2>1. i \in DOMAIN m /\ Parses(m[i]) /\ m[i] = l[i]
      BY <1>1, <1>2
    <2>2. Found(m, u)[i] = m[i] /\ Found(l, t)[i] = l[i]
      BY <1>2, <2>1, ReadableParts
    <2>3. i \in DOMAIN Found(m, u) /\ Parses(Found(m, u)[i])
      BY <2>1, ReadableParts
    <2>4. QED
      BY <2>1, <2>2, <2>3
  <1>3. CASE i = Len(l) + 1 /\ Parses(t)
    <2>1. Found(l, t)[i] = t
      BY <1>3, ReadableParts
    <2>2. CASE m = l /\ u = t
      BY <2>2
    <2>3. CASE m = Append(l, t)
      <3>1. i \in DOMAIN m /\ Parses(m[i]) /\ m[i] = t
        BY <1>1, <1>3, <2>3
      <3>2. i \in DOMAIN Found(m, u) /\ Parses(Found(m, u)[i]) /\ Found(m, u)[i] = m[i]
        BY <3>1, ReadableParts
      <3>3. QED
        BY <2>1, <3>1, <3>2
    <2>4. QED
      BY <1>3, <2>2, <2>3
  <1>4. QED
    BY <1>2, <1>3, ReadableParts

(* The log is append-only: no step rewrites a complete line, and without a *)
(* crash a line that a reader without the lock has parsed stays there      *)
(* (the truncation of _validate_or_truncate_last_line, iter_rows).         *)
THEOREM LogIsAppendOnly == Spec => AppendOnly
  <1>1. ASSUME IInv, IInv', [Next]_vars
        PROVE  /\ IsPrefix(lines, lines')
               /\ crashes' = 0 =>
                    \A i \in Readable : i \in Readable' /\ AllLines'[i] = AllLines[i]
    <2>1. /\ lines \in Seq(Seq(Piece)) /\ tail \in Seq(Piece)
          /\ lines' \in Seq(Seq(Piece)) /\ tail' \in Seq(Piece)
          /\ AllLines = Found(lines, tail) /\ AllLines' = Found(lines', tail')
      BY <1>1 DEF IInv, TypeOK, AllLines, Found
    <2>2. Keeps
      BY <1>1, KeepsStep
    <2>3. IsPrefix(lines, lines')
      BY <2>1, <2>2, PrefixAppend DEF Keeps
    <2>4. ASSUME crashes' = 0, NEW i \in Readable
          PROVE  i \in Readable' /\ AllLines'[i] = AllLines[i]
      <3>1. i \in DOMAIN Found(lines, tail) /\ Parses(Found(lines, tail)[i])
        BY <2>1 DEF Readable
      <3>2. /\ i \in DOMAIN Found(lines', tail') /\ Parses(Found(lines', tail')[i])
            /\ Found(lines', tail')[i] = Found(lines, tail)[i]
        <4>1. /\ lines' = lines \/ lines' = Append(lines, tail)
              /\ Parses(tail) => \/ lines' = lines /\ tail' = tail
                                 \/ lines' = Append(lines, tail) /\ tail' = <<>>
          BY <2>2, <2>4 DEF Keeps
        <4>2. QED
          BY <2>1, <3>1, <4>1, ReadAgain
      <3>3. QED
        BY <2>1, <3>2 DEF Readable, Parses
    <2>5. QED
      BY <2>3, <2>4
  <1>2. QED
    BY IInvHolds, <1>1, PTL DEF Spec, AppendOnly

-----------------------------------------------------------------------------
(* Part 2. LogMerge                                                        *)

-----------------------------------------------------------------------------
(* Least and greatest numbers *)

(* A set of natural numbers that is not empty has a least one.             *)
LEMMA NatMin ==
  ASSUME NEW T, T \subseteq Nat, T # {}
  PROVE  \E m \in T : \A n \in T : m <= n
  <1> DEFINE R == OpToRel(<, Nat)
  <1>1. \A x, y \in Nat : x < y => <<x, y>> \in R
    BY DEF OpToRel
  <1>2. IsWellFoundedOn(R, Nat)
    BY NatLessThanWellFounded
  <1> HIDE DEF R
  <1>3. PICK m \in T : \A n \in T : ~(<<n, m>> \in R)
    BY <1>2, WFMin
  <1>4. \A n \in T : ~(n < m)
    BY <1>1, <1>3
  <1>5. QED
    BY <1>4

(* A bounded one has a greatest.                                           *)
LEMMA NatMax ==
  ASSUME NEW k \in Nat, NEW T, T \subseteq 0..k, T # {}
  PROVE  \E m \in T : \A n \in T : n <= m
  <1> DEFINE U == {k - n : n \in T}
  <1>0. \A n \in T : n \in 0..k /\ k - n \in Nat
    OBVIOUS
  <1>1. U \subseteq Nat /\ U # {}
    BY <1>0
  <1>2. PICK u \in U : \A n \in U : u <= n
    BY <1>1, NatMin
  <1>3. PICK m \in T : u = k - m
    OBVIOUS
  <1>4. \A n \in T : k - m <= k - n
    BY <1>2, <1>3
  <1>5. QED
    BY <1>0, <1>4

-----------------------------------------------------------------------------
(* Places in a log *)

(* A row of a log has one first place.                                     *)
LEMMA PlaceIs ==
  ASSUME NEW a \in Seq(Row), NEW r \in ToSet(a)
  PROVE  /\ Place(r, a) \in 1..Len(a) /\ a[Place(r, a)] = r
         /\ \A j \in 1..Len(a) : a[j] = r => Place(r, a) <= j
  <1> DEFINE T == {i \in 1..Len(a) : a[i] = r}
  <1>1. Len(a) \in Nat /\ DOMAIN a = 1..Len(a)
    OBVIOUS
  <1>2. T \subseteq Nat /\ T # {}
    BY <1>1 DEF ToSet
  <1>3. PICK m \in T : \A n \in T : m <= n
    BY <1>2, NatMin
  <1>4. a[m] = r /\ \A j \in 1..(m - 1) : a[j] # r
    BY <1>1, <1>3
  <1>5. Place(r, a) \in DOMAIN a /\ a[Place(r, a)] = r
        /\ \A j \in 1..(Place(r, a) - 1) : a[j] # r
    BY <1>1, <1>4 DEF Place
  <1>6. QED
    BY <1>1, <1>5

(* What has these properties is the place.                                 *)
LEMMA PlaceUnique ==
  ASSUME NEW a \in Seq(Row), NEW n \in 1..Len(a), NEW r \in Row, a[n] = r,
         \A j \in 1..Len(a) : a[j] = r => n <= j
  PROVE  r \in ToSet(a) /\ Place(r, a) = n
  <1>1. r \in ToSet(a)
    BY DEF ToSet
  <1>2. QED
    BY <1>1, PlaceIs

(* The rows of two logs one after the other, and where they are met.       *)
LEMMA ConcatRows ==
  ASSUME NEW a \in Seq(Row), NEW b \in Seq(Row)
  PROVE  /\ a \o b \in Seq(Row)
         /\ ToSet(a \o b) = ToSet(a) \cup ToSet(b)
  <1>1. a \o b \in Seq(Row)
    OBVIOUS
  <1>2. /\ Len(a \o b) = Len(a) + Len(b) /\ Len(a) \in Nat /\ Len(b) \in Nat
        /\ \A i \in 1..Len(a) : (a \o b)[i] = a[i]
        /\ \A i \in 1..Len(b) : (a \o b)[Len(a) + i] = b[i]
    OBVIOUS
  <1>3. \A i \in 1..Len(a \o b) : i \in 1..Len(a) \/ \E j \in 1..Len(b) : i = Len(a) + j
    <2> TAKE i \in 1..Len(a \o b)
    <2>1. CASE i <= Len(a)
      BY <2>1
    <2>2. CASE i > Len(a)
      <3>1. i - Len(a) \in 1..Len(b) /\ i = Len(a) + (i - Len(a))
        BY <1>2, <2>2
      <3>2. QED
        BY <3>1
    <2>3. QED
      BY <1>2, <2>1, <2>2
  <1>4. DOMAIN (a \o b) = 1..Len(a \o b) /\ DOMAIN a = 1..Len(a) /\ DOMAIN b = 1..Len(b)
    OBVIOUS
  <1>5. ToSet(a \o b) \subseteq ToSet(a) \cup ToSet(b)
    BY <1>2, <1>3, <1>4 DEF ToSet
  <1>6. ToSet(a) \subseteq ToSet(a \o b)
    <2>1. \A i \in 1..Len(a) : i \in 1..Len(a \o b)
      BY <1>2
    <2>2. QED
      BY <1>2, <1>4, <2>1 DEF ToSet
  <1>7. ToSet(b) \subseteq ToSet(a \o b)
    <2>1. \A i \in 1..Len(b) : Len(a) + i \in 1..Len(a \o b)
      BY <1>2
    <2>2. QED
      BY <1>2, <1>4, <2>1 DEF ToSet
  <1>8. QED
    BY <1>1, <1>5, <1>6, <1>7

LEMMA PlaceInFirst ==
  ASSUME NEW a \in Seq(Row), NEW b \in Seq(Row), NEW r \in ToSet(a)
  PROVE  Place(r, a \o b) = Place(r, a)
  <1> DEFINE n == Place(r, a)
  <1>1. /\ n \in 1..Len(a) /\ a[n] = r
        /\ \A j \in 1..Len(a) : a[j] = r => n <= j
    BY PlaceIs
  <1>2. r \in Row
    BY <1>1
  <1>3. n \in 1..Len(a \o b) /\ (a \o b)[n] = r
    BY <1>1
  <1>4. \A j \in 1..Len(a \o b) : (a \o b)[j] = r => n <= j
    <2> SUFFICES ASSUME NEW j \in 1..Len(a \o b), (a \o b)[j] = r, j < n
                 PROVE  FALSE
      BY <1>1
    <2>1. j \in 1..Len(a) /\ a[j] = r
      BY <1>1
    <2>2. QED
      BY <1>1, <2>1
  <1>5. a \o b \in Seq(Row)
    OBVIOUS
  <1> HIDE DEF n
  <1>6. Place(r, a \o b) = n
    BY <1>2, <1>3, <1>4, <1>5, PlaceUnique
  <1>7. QED
    BY <1>6 DEF n

LEMMA PlaceInSecond ==
  ASSUME NEW a \in Seq(Row), NEW b \in Seq(Row), NEW r \in ToSet(b), r \notin ToSet(a)
  PROVE  Place(r, a \o b) = Len(a) + Place(r, b)
  <1> DEFINE n == Place(r, b)
             k == Len(a) + n
  <1>1. /\ n \in 1..Len(b) /\ b[n] = r
        /\ \A j \in 1..Len(b) : b[j] = r => n <= j
    BY PlaceIs
  <1>2. r \in Row /\ Len(a) \in Nat
    BY <1>1
  <1>3. k \in 1..Len(a \o b) /\ (a \o b)[k] = r
    BY <1>1
  <1>4. \A j \in 1..Len(a \o b) : (a \o b)[j] = r => k <= j
    <2> SUFFICES ASSUME NEW j \in 1..Len(a \o b), (a \o b)[j] = r
                 PROVE  k <= j
      OBVIOUS
    <2>1. j \notin 1..Len(a)
      <3> SUFFICES ASSUME j \in 1..Len(a) PROVE FALSE
        OBVIOUS
      <3>1. a[j] = r /\ j \in DOMAIN a
        OBVIOUS
      <3>2. QED
        BY <3>1 DEF ToSet
    <2>2. j - Len(a) \in 1..Len(b) /\ b[j - Len(a)] = r
      BY <2>1
    <2>3. QED
      BY <1>1, <1>2, <2>2
  <1>5. a \o b \in Seq(Row)
    OBVIOUS
  <1> HIDE DEF k
  <1>6. Place(r, a \o b) = k
    BY <1>2, <1>3, <1>4, <1>5, PlaceUnique
  <1>7. QED
    BY <1>6 DEF k

-----------------------------------------------------------------------------
(* Sorting *)

\* no two rows have the same canonical JSON
Apart(S) == \A r, q \in S : r.json = q.json => r = q

ListsRows(list, S) ==
  /\ list \in [1..Cardinality(S) -> S]
  /\ \A i, j \in 1..Cardinality(S) : i < j => Before(list[i], list[j])

LEMMA RowFields ==
  ASSUME NEW r \in Row
  PROVE  r.ts \in Nat /\ r.json \in Nat /\ r.full \in {0, 1}
  BY MergeAssumption DEF Row

(* One of the rows comes before all the others.                            *)
LEMMA OldestRow ==
  ASSUME NEW S, S \subseteq Row, S # {}, Apart(S)
  PROVE  \E m \in S : \A q \in S \ {m} : Before(m, q)
  <1> DEFINE T == {r.ts : r \in S}
  <1>1. T \subseteq Nat /\ T # {}
    BY RowFields
  <1>2. PICK ts \in T : \A n \in T : ts <= n
    BY <1>1, NatMin
  <1> DEFINE J == {r.json : r \in {q \in S : q.ts = ts}}
  <1>3. J \subseteq Nat /\ J # {}
    BY RowFields
  <1>4. PICK json \in J : \A n \in J : json <= n
    BY <1>3, NatMin
  <1>5. PICK m \in S : m.ts = ts /\ m.json = json
    OBVIOUS
  <1>6. \A q \in S : /\ m.ts <= q.ts /\ (q.ts = m.ts => m.json <= q.json)
                      /\ m.ts \in Nat /\ q.ts \in Nat /\ m.json \in Nat /\ q.json \in Nat
    BY <1>2, <1>4, <1>5, RowFields
  <1>7. \A q \in S \ {m} : m.json # q.json
    BY DEF Apart
  <1>8. QED
    BY <1>5, <1>6, <1>7 DEF Before

(* The rest in order, and before it the oldest row.                        *)
LEMMA SortedWithOldest ==
  ASSUME NEW S, S \subseteq Row, IsFiniteSet(S), NEW m \in S, \A q \in S \ {m} : Before(m, q),
         NEW rest, ListsRows(rest, S \ {m})
  PROVE  \E list : ListsRows(list, S)
  <1> DEFINE n == Cardinality(S)
             list == [i \in 1..n |-> IF i = 1 THEN m ELSE rest[i - 1]]
  <1>1. n \in Nat /\ Cardinality(S \ {m}) = n - 1 /\ n - 1 \in Nat
    <2>1. IsFiniteSet(S \ {m}) /\ Cardinality(S \ {m}) = n - 1
      BY FS_RemoveElement
    <2>2. n \in Nat /\ Cardinality(S \ {m}) \in Nat
      BY <2>1, FS_CardinalityType
    <2>3. QED
      BY <2>1, <2>2
  <1>2. /\ rest \in [1..(n - 1) -> S \ {m}]
        /\ \A i, j \in 1..(n - 1) : i < j => Before(rest[i], rest[j])
    BY <1>1 DEF ListsRows
  <1>3. \A i \in 1..n : i # 1 => i - 1 \in 1..(n - 1)
    BY <1>1
  <1>4. list \in [1..n -> S]
    BY <1>2, <1>3
  <1>5. ASSUME NEW i \in 1..n, NEW j \in 1..n, i < j PROVE Before(list[i], list[j])
    <2>1. j # 1 /\ list[j] = rest[j - 1]
      BY <1>1, <1>5
    <2>2. CASE i = 1
      <3>1. rest[j - 1] \in S \ {m} /\ list[i] = m
        BY <1>2, <1>3, <2>1, <2>2
      <3>2. QED
        BY <2>1, <3>1
    <2>3. CASE i # 1
      <3>1. i - 1 < j - 1 /\ list[i] = rest[i - 1]
        BY <1>1, <1>5, <2>3
      <3>2. QED
        BY <1>2, <1>3, <2>1, <2>3, <3>1
    <2>4. QED
      BY <2>2, <2>3
  <1> HIDE DEF list
  <1>6. ListsRows(list, S)
    BY <1>4, <1>5 DEF ListsRows
  <1>7. QED
    BY <1>6

(* Rows that can be told apart can be sorted.                              *)
LEMMA SortExists ==
  ASSUME NEW S, S \subseteq Row, IsFiniteSet(S), Apart(S)
  PROVE  \E list : ListsRows(list, S)
  <1> DEFINE Fits(U) == U \subseteq Row /\ IsFiniteSet(U) /\ Apart(U)
             Bad == {n \in Nat : \E U : /\ Fits(U) /\ Cardinality(U) = n
                                         /\ ~ \E list : ListsRows(list, U)}
  <1> SUFFICES ASSUME ~ \E list : ListsRows(list, S)
               PROVE  FALSE
    OBVIOUS
  <1>1. Bad \subseteq Nat /\ Bad # {}
    <2>1. Cardinality(S) \in Nat
      BY FS_CardinalityType
    <2>2. QED
      BY <2>1
  <1>2. PICK n \in Bad : \A k \in Bad : n <= k
    BY <1>1, NatMin
  <1>3. PICK U : Fits(U) /\ Cardinality(U) = n /\ ~ \E list : ListsRows(list, U)
    BY <1>2
  <1>4. CASE U = {}
    <2>1. Cardinality(U) = 0
      BY <1>4, FS_EmptySet
    <2>2. ListsRows(<<>>, U)
      BY <1>4, <2>1 DEF ListsRows
    <2>3. QED
      BY <1>3, <2>2
  <1>5. CASE U # {}
    <2>1. PICK m \in U : \A q \in U \ {m} : Before(m, q)
      BY <1>3, <1>5, OldestRow
    <2>2. /\ IsFiniteSet(U \ {m}) /\ Cardinality(U \ {m}) = n - 1
          /\ n - 1 \in Nat
      <3>1. IsFiniteSet(U \ {m}) /\ Cardinality(U \ {m}) = n - 1
        BY <1>3, <2>1, FS_RemoveElement
      <3>2. QED
        BY <3>1, FS_CardinalityType
    <2>3. Fits(U \ {m})
      BY <1>3, <2>2 DEF Apart
    <2>4. n - 1 \notin Bad
      BY <1>1, <1>2, <2>2
    <2>5. PICK rest : ListsRows(rest, U \ {m})
      BY <2>2, <2>3, <2>4
    <2>6. QED
      BY <1>3, <2>1, <2>5, SortedWithOldest
  <1>6. QED
    BY <1>4, <1>5

(* Sorted(S) lists the rows of S, each once and each after the older ones. *)
LEMMA SortedIs ==
  ASSUME NEW S, S \subseteq Row, IsFiniteSet(S), Apart(S)
  PROVE  /\ Sorted(S) \in Seq(Row) /\ ToSet(Sorted(S)) = S /\ IsInjective(Sorted(S))
         /\ \A i, j \in 1..Len(Sorted(S)) : i < j => Before(Sorted(S)[i], Sorted(S)[j])
  <1> DEFINE l == Sorted(S)
             n == Cardinality(S)
  <1>1. n \in Nat
    BY FS_CardinalityType
  <1>2. ListsRows(l, S)
    <2>1. PICK list : ListsRows(list, S)
      BY SortExists
    <2>2. QED
      BY <2>1 DEF ListsRows, Sorted
  <1> HIDE DEF l
  <1>3. l \in [1..n -> S] /\ \A i, j \in 1..n : i < j => Before(l[i], l[j])
    BY <1>2 DEF ListsRows
  <1>4. l \in Seq(Row) /\ Len(l) = n /\ DOMAIN l = 1..n
    <2>1. l \in [1..n -> Row]
      BY <1>3
    <2>2. QED
      BY <1>1, <2>1
  <1>5. \A i, j \in 1..n : i < j => l[i] # l[j]
    <2> SUFFICES ASSUME NEW i \in 1..n, NEW j \in 1..n, i < j, l[i] = l[j] PROVE FALSE
      OBVIOUS
    <2>1. l[i] \in Row
      BY <1>3
    <2>2. QED
      BY <1>3, <2>1, RowFields DEF Before
  <1>6. IsInjective(l)
    <2>1. \A i, j \in 1..n : l[i] = l[j] => i = j
      BY <1>1, <1>5
    <2>2. QED
      BY <1>4, <2>1 DEF IsInjective
  <1>7. ToSet(l) = S
    <2>1. l \in Injection(1..n, S)
      BY <1>3, <1>6 DEF Injection
    <2>2. IsFiniteSet(1..n) /\ Cardinality(1..n) = n
      BY <1>1, FS_Interval
    <2>3. l \in Surjection(1..n, S)
      BY <2>1, <2>2, FS_Injection
    <2>4. \A r \in S : \E i \in 1..n : l[i] = r
      BY <2>3 DEF Surjection
    <2>5. QED
      BY <1>3, <1>4, <2>4 DEF ToSet
  <1>8. QED
    BY <1>3, <1>4, <1>6, <1>7 DEF l

-----------------------------------------------------------------------------
(* Which rows a merge keeps *)

LEMMA TwinsAlike ==
  /\ \A r : Twins(r, r)
  /\ \A r, q : Twins(r, q) => Twins(q, r)
  /\ \A r, q, x : Twins(r, q) /\ Twins(q, x) => Twins(r, x)
  BY DEF Twins

\* the same in each order, and no two at once
Better(r, q, ours) ==
  \/ r.full > q.full
  \/ r.full = q.full /\ (q \in ToSet(ours) => r \in ToSet(ours))

(* Of two rows only one beats the other.                                   *)
LEMMA BeatsOneWay ==
  ASSUME NEW arrival \in Seq(Row), NEW ours,
         NEW r \in ToSet(arrival), NEW q \in ToSet(arrival),
         Beats(r, q, ours, arrival)
  PROVE  ~Beats(q, r, ours, arrival) /\ Better(r, q, ours)
  <1>1. r \in Row /\ q \in Row
    BY DEF ToSet
  <1>2. Place(r, arrival) \in Nat /\ Place(q, arrival) \in Nat
    BY PlaceIs
  <1>3. r.full \in Nat /\ q.full \in Nat
    BY <1>1, RowFields
  <1>4. QED
    BY <1>2, <1>3 DEF Beats, Better

(* Every row that comes in has a twin, or itself, that beats all the       *)
(* others and is no worse.                                                 *)
LEMMA WinnerExists ==
  ASSUME NEW arrival \in Seq(Row), NEW ours, NEW r \in ToSet(arrival)
  PROVE  \E w \in Resolved(arrival, ours) : Twins(w, r) /\ Better(w, r, ours)
  <1> DEFINE C == {q \in ToSet(arrival) : Twins(q, r)}
             K == {1 - q.full : q \in C}
  <1>1. \A q \in ToSet(arrival) : /\ q \in Row /\ q.full \in {0, 1}
                                  /\ Place(q, arrival) \in Nat
                                  /\ arrival[Place(q, arrival)] = q
    <2>1. \A q \in ToSet(arrival) : q \in Row
      BY DEF ToSet
    <2>2. QED
      BY <2>1, RowFields, PlaceIs
  <1>2. r \in C
    BY TwinsAlike
  <1>3. K \subseteq Nat /\ K # {}
    BY <1>1, <1>2
  <1>4. PICK k \in K : \A n \in K : k <= n
    BY <1>3, NatMin
  <1> DEFINE C1 == {q \in C : 1 - q.full = k}
             C2 == IF C1 \cap ToSet(ours) # {} THEN C1 \cap ToSet(ours) ELSE C1
             P  == {Place(q, arrival) : q \in C2}
  <1>5. C1 # {} /\ C2 # {} /\ C2 \subseteq C1
    OBVIOUS
  <1>6. P \subseteq Nat /\ P # {}
    BY <1>1, <1>5
  <1>7. PICK n \in P : \A m \in P : n <= m
    BY <1>6, NatMin
  <1>8. PICK w \in C2 : n = Place(w, arrival)
    OBVIOUS
  <1>9. /\ w \in ToSet(arrival) /\ Twins(w, r) /\ 1 - w.full = k
        /\ \A q \in C : 1 - w.full <= 1 - q.full
        /\ \A q \in C : q.full = w.full =>
              /\ q \in ToSet(ours) => w \in ToSet(ours)
              /\ (q \in ToSet(ours) <=> w \in ToSet(ours)) => Place(w, arrival) <= Place(q, arrival)
    <2>1. w \in C1
      BY <1>5, <1>8
    <2>2. \A q \in C : 1 - w.full <= 1 - q.full
      BY <1>4, <2>1
    <2>3. ASSUME NEW q \in C, q.full = w.full
          PROVE  /\ q \in ToSet(ours) => w \in ToSet(ours)
                 /\ (q \in ToSet(ours) <=> w \in ToSet(ours)) => Place(w, arrival) <= Place(q, arrival)
      <3>1. q \in C1
        BY <2>1, <2>3
      <3>2. q \in ToSet(ours) => w \in ToSet(ours)
        BY <1>8, <3>1
      <3>3. (q \in ToSet(ours) <=> w \in ToSet(ours)) => q \in C2
        BY <1>8, <3>1
      <3>4. q \in C2 => Place(w, arrival) <= Place(q, arrival)
        BY <1>7, <1>8
      <3>5. QED
        BY <3>2, <3>3, <3>4
    <2>4. QED
      BY <2>1, <2>2, <2>3
  <1> HIDE DEF C1, C2, P, K
  <1>10. ASSUME NEW q \in C, q # w PROVE Beats(w, q, ours, arrival)
    <2>1. Place(w, arrival) # Place(q, arrival)
      BY <1>1, <1>9, <1>10
    <2>2. w.full \in {0, 1} /\ q.full \in {0, 1}
          /\ Place(w, arrival) \in Nat /\ Place(q, arrival) \in Nat
      BY <1>1, <1>9
    <2>3. 1 - w.full <= 1 - q.full
      BY <1>9
    <2>4. q.full = w.full =>
              /\ q \in ToSet(ours) => w \in ToSet(ours)
              /\ (q \in ToSet(ours) <=> w \in ToSet(ours)) => Place(w, arrival) <= Place(q, arrival)
      BY <1>9
    <2>5. CASE q.full = w.full
      BY <2>1, <2>2, <2>4, <2>5 DEF Beats
    <2>6. CASE q.full # w.full
      BY <2>2, <2>3, <2>6 DEF Beats
    <2>7. QED
      BY <2>5, <2>6
  <1>11. w \in Resolved(arrival, ours)
    <2>1. \A q \in ToSet(arrival) : Twins(q, w) => q \in C
      BY <1>9, TwinsAlike
    <2>2. QED
      BY <1>9, <1>10, <2>1 DEF Resolved
  <1>12. Better(w, r, ours)
    <2>1. CASE w = r
      BY <1>1, <2>1 DEF Better
    <2>2. CASE w # r
      BY <1>2, <1>9, <1>10, <2>2, BeatsOneWay
    <2>3. QED
      BY <2>1, <2>2
  <1>13. QED
    BY <1>9, <1>11, <1>12

(* Of each second and transition one row is kept.                          *)
LEMMA OneOfTwins ==
  ASSUME NEW arrival \in Seq(Row), NEW ours,
         NEW r \in Resolved(arrival, ours), NEW q \in Resolved(arrival, ours), Twins(r, q)
  PROVE  r = q
  <1> SUFFICES ASSUME r # q PROVE FALSE
    OBVIOUS
  <1>1. r \in ToSet(arrival) /\ q \in ToSet(arrival) /\ Twins(q, r)
    BY TwinsAlike DEF Resolved
  <1>2. Beats(r, q, ours, arrival) /\ Beats(q, r, ours, arrival)
    BY <1>1 DEF Resolved
  <1>3. QED
    BY <1>1, <1>2, BeatsOneWay

-----------------------------------------------------------------------------
(* A merge as a whole *)

LEMMA LogFinite ==
  ASSUME NEW a \in Seq(Row)
  PROVE  IsFiniteSet(ToSet(a))
  <1>1. DOMAIN a = 1..Len(a) /\ Len(a) \in Nat /\ a \in [1..Len(a) -> Row]
    OBVIOUS
  <1>2. IsFiniteSet(1..Len(a))
    BY <1>1, FS_Interval
  <1>3. a \in Surjection(1..Len(a), ToSet(a))
    BY <1>1 DEF Surjection, ToSet
  <1>4. QED
    BY <1>2, <1>3, FS_Surjection

(* What every merge returns: rows that came in, no two twins, each once    *)
(* and in order, and for every row that came in one that is no worse.      *)
LEMMA MergeIs ==
  ASSUME NEW a \in Seq(Row), NEW o \in Seq(Row), NEW t \in Seq(Row),
         Apart(ToSet(a) \cup ToSet(o) \cup ToSet(t))
  PROVE  /\ a \o o \o t \in Seq(Row)
         /\ ToSet(a \o o \o t) = ToSet(a) \cup ToSet(o) \cup ToSet(t)
         /\ Merge(a, o, t) \in Seq(Row) /\ IsInjective(Merge(a, o, t))
         /\ ToSet(Merge(a, o, t)) = Resolved(a \o o \o t, o)
         /\ ToSet(Merge(a, o, t)) \subseteq ToSet(a) \cup ToSet(o) \cup ToSet(t)
         /\ \A i, j \in 1..Len(Merge(a, o, t)) :
              i < j => Before(Merge(a, o, t)[i], Merge(a, o, t)[j])
         /\ \A r \in ToSet(a) \cup ToSet(o) \cup ToSet(t) :
              \E w \in ToSet(Merge(a, o, t)) : Twins(w, r) /\ Better(w, r, o)
         /\ \A r, q \in ToSet(Merge(a, o, t)) : Twins(r, q) => r = q
  <1> DEFINE arrival == a \o o \o t
             kept == Resolved(arrival, o)
  <1>1. /\ arrival \in Seq(Row)
        /\ ToSet(arrival) = ToSet(a) \cup ToSet(o) \cup ToSet(t)
    <2>1. a \o o \in Seq(Row) /\ ToSet(a \o o) = ToSet(a) \cup ToSet(o)
      BY ConcatRows
    <2>2. (a \o o) \o t \in Seq(Row) /\ ToSet((a \o o) \o t) = ToSet(a \o o) \cup ToSet(t)
      BY <2>1, ConcatRows
    <2>3. QED
      BY <2>1, <2>2
  <1> HIDE DEF arrival
  <1>2. kept \subseteq ToSet(arrival)
    BY DEF Resolved
  <1>3. ToSet(arrival) \subseteq Row
    BY <1>1 DEF ToSet
  <1>4. IsFiniteSet(kept) /\ kept \subseteq Row /\ Apart(kept)
    <2>1. IsFiniteSet(ToSet(arrival))
      BY <1>1, LogFinite
    <2>2. IsFiniteSet(kept)
      BY <1>2, <2>1, FS_Subset
    <2>3. QED
      BY <1>1, <1>2, <1>3, <2>2 DEF Apart
  <1>5. Merge(a, o, t) = Sorted(kept)
    BY DEF Merge, arrival
  <1>6. \A r \in ToSet(arrival) : \E w \in kept : Twins(w, r) /\ Better(w, r, o)
    BY <1>1, WinnerExists
  <1>7. \A r, q \in kept : Twins(r, q) => r = q
    BY <1>1, OneOfTwins
  <1> HIDE DEF kept
  <1> DEFINE l == Sorted(kept)
  <1>8. /\ l \in Seq(Row) /\ ToSet(l) = kept /\ IsInjective(l)
        /\ \A i, j \in 1..Len(l) : i < j => Before(l[i], l[j])
    BY <1>4, SortedIs
  <1>9. l = Merge(a, o, t)
    BY <1>5
  <1> HIDE DEF l
  <1>10. /\ ToSet(l) \subseteq ToSet(arrival)
         /\ \A r \in ToSet(arrival) : \E w \in ToSet(l) : Twins(w, r) /\ Better(w, r, o)
         /\ \A r, q \in ToSet(l) : Twins(r, q) => r = q
    BY <1>2, <1>6, <1>7, <1>8
  <1>11. ToSet(l) = Resolved(a \o o \o t, o)
    BY <1>8 DEF kept, arrival
  <1>12. arrival = a \o o \o t
    BY DEF arrival
  <1>13. QED
    BY <1>1, <1>8, <1>9, <1>10, <1>11, <1>12

-----------------------------------------------------------------------------
(* The branches: what every merge and every cherry-pick keeps *)

\* each row of S, or a twin that is no less complete, is in the log
Covers(l, S) == \A r \in S : \E q \in ToSet(l) : Twins(q, r) /\ q.full >= r.full

LogsInv ==
  /\ MergeTypeOK
  /\ Apart(EverRecorded)
  /\ \A s \in Sides :
       /\ ToSet(log[s]) \cup ToSet(parent[s]) \cup ToSet(base) \subseteq known[s]
       /\ Covers(log[s], known[s])
       /\ IsInjective(log[s])

(* There are two branches.                                                 *)
LEMMA OtherSide ==
  ASSUME NEW s \in Sides
  PROVE  Other(s) \in Sides /\ Other(s) # s /\ Sides = {s, Other(s)}
  <1>1. IsFiniteSet(Sides \ {s}) /\ Cardinality(Sides \ {s}) = 1
    BY MergeAssumption, FS_RemoveElement
  <1>2. PICK o : Sides \ {s} = {o}
    BY <1>1, FS_Singleton
  <1>3. Other(s) = o
    BY <1>2 DEF Other
  <1>4. QED
    BY <1>2, <1>3

LEMMA AppendRow ==
  ASSUME NEW l \in Seq(Row), NEW r \in Row
  PROVE  /\ Append(l, r) \in Seq(Row) /\ ToSet(Append(l, r)) = ToSet(l) \cup {r}
         /\ IsInjective(l) /\ r \notin ToSet(l) => IsInjective(Append(l, r))
  <1>1. /\ Append(l, r) \in Seq(Row)
        /\ DOMAIN Append(l, r) = DOMAIN l \cup {Len(l) + 1}
        /\ \A i \in DOMAIN l : Append(l, r)[i] = l[i] /\ i # Len(l) + 1
        /\ Append(l, r)[Len(l) + 1] = r
    OBVIOUS
  <1>2. ToSet(Append(l, r)) = ToSet(l) \cup {r}
    BY <1>1 DEF ToSet
  <1>3. IsInjective(l) /\ r \notin ToSet(l) => IsInjective(Append(l, r))
    BY <1>1 DEF ToSet, IsInjective
  <1>4. QED
    BY <1>1, <1>2, <1>3

(* The status of a task after a replay: that of its last row.              *)
LEMMA ReplayIs ==
  ASSUME NEW l \in Seq(Row), NEW t \in Tasks
  PROVE  \/ (\A i \in DOMAIN l : l[i].task # t) /\ Replay(l)[t] = Pending
         \/ \E i \in DOMAIN l : /\ l[i].task = t /\ Replay(l)[t] = l[i].to
                               /\ \A j \in DOMAIN l : l[j].task = t => j <= i
  <1> DEFINE own == {i \in DOMAIN l : l[i].task = t}
             last == CHOOSE i \in own : \A j \in own : j <= i
  <1>1. Replay(l)[t] = IF own = {} THEN Pending ELSE l[last].to
    BY DEF Replay
  <1>2. CASE own = {}
    BY <1>1, <1>2
  <1>3. CASE own # {}
    <2>1. own \subseteq 0..Len(l) /\ Len(l) \in Nat
      OBVIOUS
    <2>2. \E i \in own : \A j \in own : j <= i
      BY <1>3, <2>1, NatMax
    <2>3. last \in own /\ \A j \in own : j <= last
      BY <2>2
    <2>4. QED
      BY <1>1, <1>3, <2>3
  <1>4. QED
    BY <1>2, <1>3

LEMMA InitLogsInv == MergeInit => LogsInv
  <1> SUFFICES ASSUME MergeInit PROVE LogsInv
    OBVIOUS
  <1>1. <<>> \in Seq(Row) /\ ToSet(<<>>) = {} /\ IsInjective(<<>>)
    BY DEF ToSet, IsInjective
  <1>2. 0 \in 0..MaxSyncs
    BY MergeAssumption
  <1>3. MergeTypeOK
    BY <1>1, <1>2 DEF MergeInit, MergeTypeOK
  <1>4. EverRecorded = {}
    BY DEF MergeInit, EverRecorded
  <1>5. QED
    BY <1>1, <1>3, <1>4 DEF MergeInit, LogsInv, Apart, Covers

(* A row that is recorded is unlike any other.                             *)
LEMMA RecordLogsInv ==
  ASSUME LogsInv, NEW s \in Sides, NEW t \in Tasks, NEW to \in Status \ {Pending},
         Record(s, t, to)
  PROVE  LogsInv'
  <1>1. PICK ts \in 1..MaxTime, full \in 0..1, json \in 1..MaxRows :
          LET r == [ts |-> ts, task |-> t, from |-> Replay(log[s])[t], to |-> to,
                    full |-> full, json |-> json]
          IN  /\ \A q \in EverRecorded : q.json # json
              /\ log' = [log EXCEPT ![s] = Append(@, r)]
              /\ known' = [known EXCEPT ![s] = @ \cup {r}]
    BY DEF Record
  <1> DEFINE r == [ts |-> ts, task |-> t, from |-> Replay(log[s])[t], to |-> to,
                   full |-> full, json |-> json]
  <1>2. /\ log \in [Sides -> Seq(Row)] /\ parent \in [Sides -> Seq(Row)]
        /\ base \in Seq(Row) /\ known \in [Sides -> SUBSET Row]
    BY DEF LogsInv, MergeTypeOK
  <1>3. r \in Row /\ r.json = json
    <2>1. Replay(log[s])[t] \in Status
      <3>1. \A i \in DOMAIN log[s] : log[s][i].to \in Status
        <4>1. log[s] \in Seq(Row)
          BY <1>2
        <4>2. \A i \in DOMAIN log[s] : log[s][i] \in Row
          BY <4>1
        <4>3. QED
          BY <4>2 DEF Row
      <3>2. log[s] \in Seq(Row) /\ Pending \in Status
        BY <1>2, MergeAssumption
      <3>3. \/ Replay(log[s])[t] = Pending
            \/ \E i \in DOMAIN log[s] : Replay(log[s])[t] = log[s][i].to
        BY <3>2, ReplayIs
      <3>4. QED
        BY <3>1, <3>2, <3>3
    <2>2. QED
      BY <2>1 DEF Row
  <1> HIDE DEF r
  <1>4. /\ \A q \in EverRecorded : q.json # r.json
        /\ log' = [log EXCEPT ![s] = Append(log[s], r)]
        /\ known' = [known EXCEPT ![s] = known[s] \cup {r}]
        /\ parent' = [parent EXCEPT ![s] = log[s]]
        /\ base' = base /\ syncs' = syncs
    BY <1>1, <1>3 DEF Record, r
  <1>5. /\ Append(log[s], r) \in Seq(Row)
        /\ ToSet(Append(log[s], r)) = ToSet(log[s]) \cup {r}
        /\ IsInjective(log[s]) /\ r \notin ToSet(log[s]) => IsInjective(Append(log[s], r))
    BY <1>2, <1>3, AppendRow
  <1>6. MergeTypeOK'
    BY <1>2, <1>3, <1>4, <1>5 DEF LogsInv, MergeTypeOK
  <1>7. Apart(EverRecorded')
    <2>1. EverRecorded' \subseteq EverRecorded \cup {r}
      BY <1>2, <1>4 DEF EverRecorded
    <2>2. QED
      BY <1>4, <2>1 DEF LogsInv, Apart
  <1>8. ASSUME NEW x \in Sides
        PROVE  /\ ToSet(log'[x]) \cup ToSet(parent'[x]) \cup ToSet(base') \subseteq known'[x]
               /\ Covers(log'[x], known'[x])
               /\ IsInjective(log'[x])
    <2>1. /\ ToSet(log[x]) \cup ToSet(parent[x]) \cup ToSet(base) \subseteq known[x]
          /\ Covers(log[x], known[x])
          /\ IsInjective(log[x])
      BY DEF LogsInv
    <2>2. CASE x # s
      BY <1>2, <1>4, <2>1, <2>2
    <2>3. CASE x = s
      <3>1. log'[x] = Append(log[s], r) /\ parent'[x] = log[s] /\ known'[x] = known[s] \cup {r}
        BY <1>2, <1>4, <2>3
      <3>2. r \notin ToSet(log[s])
        <4>1. ToSet(log[s]) \subseteq EverRecorded
          BY <2>1, <2>3 DEF EverRecorded
        <4>2. QED
          BY <1>4, <4>1
      <3>3. Covers(log'[x], known'[x])
        <4>1. r.full >= r.full /\ Twins(r, r)
          BY <1>3, RowFields, TwinsAlike
        <4>2. QED
          BY <1>5, <2>1, <2>3, <3>1, <4>1 DEF Covers
      <3>4. QED
        BY <1>4, <1>5, <2>1, <2>3, <3>1, <3>2, <3>3
    <2>4. QED
      BY <2>2, <2>3
  <1>9. QED
    BY <1>6, <1>7, <1>8 DEF LogsInv

(* A merge, a pick or a copy: whatever ancestor git takes out of the other *)
(* branch's past, the result covers both branches.                         *)
LEMMA IncorporateCovers ==
  ASSUME LogsInv, NEW s \in Sides, NEW ancestor \in Seq(Row),
         ToSet(ancestor) \subseteq known[Other(s)], Incorporate(s, ancestor)
  PROVE  /\ log' \in [Sides -> Seq(Row)] /\ parent' \in [Sides -> Seq(Row)]
         /\ known' \in [Sides -> SUBSET Row] /\ syncs' \in 0..MaxSyncs
         /\ EverRecorded' \subseteq EverRecorded
         /\ \A x \in Sides :
              /\ ToSet(log'[x]) \cup ToSet(parent'[x]) \subseteq known'[x]
              /\ known[x] \subseteq known'[x]
              /\ ToSet(log[Other(s)]) \subseteq known'[x]
              /\ Covers(log'[x], known'[x])
              /\ IsInjective(log'[x])
  <1> DEFINE o == Other(s)
  <1>1. o \in Sides /\ o # s /\ Sides = {s, o}
    BY OtherSide
  <1> HIDE DEF o
  <1>2. /\ log \in [Sides -> Seq(Row)] /\ parent \in [Sides -> Seq(Row)]
        /\ base \in Seq(Row) /\ known \in [Sides -> SUBSET Row] /\ syncs \in 0..MaxSyncs
    BY DEF LogsInv, MergeTypeOK
  <1>3. /\ syncs < MaxSyncs /\ syncs' = syncs + 1
        /\ parent' = [parent EXCEPT ![s] = log[s]]
        /\ known' = [known EXCEPT ![s] = known[s] \cup known[o]]
    BY <1>2 DEF Incorporate, o
  <1>4. PICK l : /\ log' = [log EXCEPT ![s] = l]
                 /\ \/ log[s] = ancestor /\ l = log[o]
                    \/ l = Merge(ancestor, log[s], log[o])
    BY DEF Incorporate, o
  <1>5. \A x \in Sides : /\ ToSet(log[x]) \cup ToSet(parent[x]) \cup ToSet(base) \subseteq known[x]
                         /\ Covers(log[x], known[x])
                         /\ IsInjective(log[x])
    BY DEF LogsInv
  <1>6. ToSet(ancestor) \subseteq known[o]
    BY DEF o
  <1>7. /\ l \in Seq(Row) /\ IsInjective(l)
        /\ ToSet(l) \subseteq known[s] \cup known[o]
        /\ Covers(l, known[s] \cup known[o])
    <2>1. CASE log[s] = ancestor /\ l = log[o]
      <3>1. Covers(l, known[s])
        <4> SUFFICES ASSUME NEW r \in known[s]
                     PROVE  \E q \in ToSet(l) : Twins(q, r) /\ q.full >= r.full
          BY DEF Covers
        <4>1. PICK q \in ToSet(log[s]) : Twins(q, r) /\ q.full >= r.full
          BY <1>5 DEF Covers
        <4>2. q \in known[o]
          BY <1>6, <2>1
        <4>3. PICK w \in ToSet(l) : Twins(w, q) /\ w.full >= q.full
          BY <1>1, <1>5, <2>1, <4>2 DEF Covers
        <4>4. Twins(w, r)
          BY <4>1, <4>3, TwinsAlike
        <4>5. r.full \in Nat /\ q.full \in Nat /\ w.full \in Nat
          <5>1. r \in Row /\ q \in Row /\ w \in Row
            BY <1>1, <1>2, <2>1, <4>2 DEF ToSet
          <5>2. QED
            BY <5>1, RowFields
        <4>6. QED
          BY <4>1, <4>3, <4>4, <4>5
      <3>2. QED
        BY <1>1, <1>2, <1>5, <2>1, <3>1 DEF Covers
    <2>2. CASE l = Merge(ancestor, log[s], log[o])
      <3> DEFINE union == ToSet(ancestor) \cup ToSet(log[s]) \cup ToSet(log[o])
      <3>1. union \subseteq known[s] \cup known[o]
        BY <1>1, <1>5, <1>6
      <3>2. Apart(union)
        <4>1. union \subseteq EverRecorded
          BY <1>1, <3>1 DEF EverRecorded
        <4>2. QED
          BY <4>1 DEF Apart, LogsInv
      <3>3. /\ l \in Seq(Row) /\ IsInjective(l) /\ ToSet(l) \subseteq union
            /\ \A r \in union : \E w \in ToSet(l) : Twins(w, r) /\ Better(w, r, log[s])
        BY <1>1, <1>2, <2>2, <3>2, MergeIs
      <3>4. Covers(l, known[s] \cup known[o])
        <4> SUFFICES ASSUME NEW r \in known[s] \cup known[o]
                     PROVE  \E q \in ToSet(l) : Twins(q, r) /\ q.full >= r.full
          BY DEF Covers
        <4>1. PICK q \in union : Twins(q, r) /\ q.full >= r.full
          BY <1>1, <1>5 DEF Covers
        <4>2. PICK w \in ToSet(l) : Twins(w, q) /\ Better(w, q, log[s])
          BY <3>3
        <4>3. Twins(w, r)
          BY <4>1, <4>2, TwinsAlike
        <4>4. r.full \in Nat /\ q.full \in Nat /\ w.full \in Nat
          <5>1. r \in Row /\ q \in Row /\ w \in Row
            BY <1>1, <1>2, <3>1, <3>3
          <5>2. QED
            BY <5>1, RowFields
        <4>5. QED
          BY <4>1, <4>2, <4>3, <4>4 DEF Better
      <3>5. QED
        BY <3>1, <3>3, <3>4
    <2>3. QED
      BY <1>4, <2>1, <2>2
  <1>8. /\ log'[s] = l /\ log'[o] = log[o] /\ parent'[s] = log[s] /\ parent'[o] = parent[o]
        /\ known'[s] = known[s] \cup known[o] /\ known'[o] = known[o]
    BY <1>1, <1>2, <1>3, <1>4
  <1>9. ASSUME NEW x \in Sides
        PROVE  /\ ToSet(log'[x]) \cup ToSet(parent'[x]) \subseteq known'[x]
               /\ known[x] \subseteq known'[x]
               /\ ToSet(log[o]) \subseteq known'[x]
               /\ Covers(log'[x], known'[x])
               /\ IsInjective(log'[x])
    <2>1. CASE x = s
      BY <1>1, <1>5, <1>7, <1>8, <2>1
    <2>2. CASE x = o
      BY <1>1, <1>5, <1>8, <2>2
    <2>3. QED
      BY <1>1, <2>1, <2>2
  <1>10. /\ log' \in [Sides -> Seq(Row)] /\ parent' \in [Sides -> Seq(Row)]
         /\ known' \in [Sides -> SUBSET Row] /\ syncs' \in 0..MaxSyncs
    BY <1>1, <1>2, <1>3, <1>4, <1>7, MergeAssumption
  <1>11. EverRecorded' \subseteq EverRecorded
    BY <1>1, <1>8 DEF EverRecorded
  <1>12. QED
    BY <1>9, <1>10, <1>11 DEF o

LEMMA NextLogsInv == LogsInv /\ [MergeNext]_mergeVars => LogsInv'
  <1> SUFFICES ASSUME LogsInv, [MergeNext]_mergeVars PROVE LogsInv'
    OBVIOUS
  <1>1. ASSUME NEW s \in Sides, NEW ancestor \in Seq(Row), ToSet(ancestor) \subseteq known[Other(s)],
               Incorporate(s, ancestor), base' = base \/ base' = log[Other(s)]
        PROVE  LogsInv'
    <2>1. /\ log' \in [Sides -> Seq(Row)] /\ parent' \in [Sides -> Seq(Row)]
          /\ known' \in [Sides -> SUBSET Row] /\ syncs' \in 0..MaxSyncs
          /\ EverRecorded' \subseteq EverRecorded
          /\ \A x \in Sides :
               /\ ToSet(log'[x]) \cup ToSet(parent'[x]) \subseteq known'[x]
               /\ known[x] \subseteq known'[x]
               /\ ToSet(log[Other(s)]) \subseteq known'[x]
               /\ Covers(log'[x], known'[x])
               /\ IsInjective(log'[x])
      BY <1>1, IncorporateCovers
    <2>2. base' \in Seq(Row)
      BY <1>1, OtherSide DEF LogsInv, MergeTypeOK
    <2>3. MergeTypeOK'
      BY <2>1, <2>2 DEF MergeTypeOK
    <2>4. Apart(EverRecorded')
      BY <2>1 DEF Apart, LogsInv
    <2>5. \A x \in Sides : ToSet(base') \subseteq known'[x]
      <3>1. \A x \in Sides : ToSet(base) \subseteq known[x]
        BY DEF LogsInv
      <3>2. QED
        BY <1>1, <2>1, <3>1
    <2>6. QED
      BY <2>1, <2>3, <2>4, <2>5 DEF LogsInv
  <1>2. ASSUME NEW s \in Sides, GitMerge(s) PROVE LogsInv'
    BY <1>1, <1>2, OtherSide DEF GitMerge, LogsInv, MergeTypeOK
  <1>3. ASSUME NEW s \in Sides, CherryPick(s) PROVE LogsInv'
    <2>1. /\ parent[Other(s)] \in Seq(Row)
          /\ ToSet(parent[Other(s)]) \subseteq known[Other(s)]
      BY OtherSide DEF LogsInv, MergeTypeOK
    <2>2. QED
      BY <1>1, <1>3, <2>1 DEF CherryPick
  <1>4. CASE UNCHANGED mergeVars
    BY <1>4 DEF mergeVars, LogsInv, MergeTypeOK, EverRecorded
  <1>5. QED
    BY <1>2, <1>3, <1>4, RecordLogsInv DEF MergeNext

(* The inductive invariant: a branch's log covers all the branch has ever  *)
(* recorded or been handed, and what git can take for an ancestor is among *)
(* it.                                                                     *)
THEOREM LogsInvariant == MergeSpec => []LogsInv
  <1>1. QED
    BY InitLogsInv, NextLogsInv, PTL DEF MergeSpec

(* The "no-loss" of the merge driver: whatever merges, fast-forwards and   *)
(* cherry-picks a branch goes through, each row it recorded or was handed  *)
(* is in its log, or a twin that is no less complete; and it has nothing   *)
(* else and nothing twice (merge in _git_merge_jsonl/merge.py).            *)
THEOREM NothingIsLost == MergeSpec => []EveryEventSurvives
  <1>1. LogsInv => EveryEventSurvives
    BY DEF LogsInv, Covers, Twins, EveryEventSurvives
  <1>2. QED
    BY <1>1, LogsInvariant, PTL

(* A merge or pick takes a row from our log only for a fuller one of the   *)
(* same second and transition, or for another of our own, unless git       *)
(* merely copies the other's file.                                         *)
THEOREM OursIsPreferred == MergeSpec => OursKeepsItsRows
  <1> DEFINE Gone(s, r) == \/ log'[s] = log[Other(s)]
                           \/ \E q \in ToSet(log'[s]) :
                                /\ Twins(q, r)
                                /\ q.full > r.full \/ q \in ToSet(log[s])
  <1>1. ASSUME LogsInv, NEW x \in Sides, NEW ancestor \in Seq(Row),
               ToSet(ancestor) \subseteq known[Other(x)], Incorporate(x, ancestor),
               NEW s \in Sides, NEW r \in ToSet(log[s]) \ ToSet(log'[s])
        PROVE  Gone(s, r)
    <2>1. log \in [Sides -> Seq(Row)]
      BY <1>1 DEF LogsInv, MergeTypeOK
    <2>2. PICK l : /\ log' = [log EXCEPT ![x] = l]
                   /\ l = log[Other(x)] \/ l = Merge(ancestor, log[x], log[Other(x)])
      BY <1>1 DEF Incorporate
    <2>3. s = x /\ log'[s] = l
      BY <1>1, <2>1, <2>2
    <2>4. CASE l = Merge(ancestor, log[x], log[Other(x)])
      <3>1. Other(x) \in Sides
        BY OtherSide
      <3>2. ToSet(ancestor) \cup ToSet(log[x]) \cup ToSet(log[Other(x)]) \subseteq EverRecorded
        BY <1>1, <3>1 DEF LogsInv, EverRecorded
      <3>3. Apart(ToSet(ancestor) \cup ToSet(log[x]) \cup ToSet(log[Other(x)]))
        BY <1>1, <3>2 DEF LogsInv, Apart
      <3>4. \A y \in ToSet(log[x]) : \E w \in ToSet(l) : Twins(w, y) /\ Better(w, y, log[x])
        BY <2>1, <2>4, <3>1, <3>3, MergeIs
      <3>5. PICK w \in ToSet(l) : Twins(w, r) /\ Better(w, r, log[x])
        BY <1>1, <2>3, <3>4
      <3>6. w.full > r.full \/ w \in ToSet(log[s])
        BY <1>1, <2>3, <3>5 DEF Better
      <3>7. QED
        BY <2>3, <3>5, <3>6
    <2>5. QED
      BY <2>2, <2>3, <2>4
  <1>2. ASSUME LogsInv, [MergeNext]_mergeVars, NEW s \in Sides, NEW r \in ToSet(log[s]) \ ToSet(log'[s])
        PROVE  Gone(s, r)
    <2>1. ASSUME NEW x \in Sides, GitMerge(x) PROVE Gone(s, r)
      BY <1>1, <1>2, <2>1, OtherSide DEF GitMerge, LogsInv, MergeTypeOK
    <2>2. ASSUME NEW x \in Sides, CherryPick(x) PROVE Gone(s, r)
      <3>1. /\ parent[Other(x)] \in Seq(Row)
            /\ ToSet(parent[Other(x)]) \subseteq known[Other(x)]
        BY <1>2, OtherSide DEF LogsInv, MergeTypeOK
      <3>2. QED
        BY <1>1, <1>2, <2>2, <3>1 DEF CherryPick
    <2>3. ASSUME NEW x \in Sides, NEW t \in Tasks, NEW to \in Status \ {Pending}, Record(x, t, to)
          PROVE  FALSE
      <3>1. log \in [Sides -> Seq(Row)] /\ log' \in [Sides -> Seq(Row)]
        BY <1>2, NextLogsInv DEF LogsInv, MergeTypeOK
      <3>2. PICK q : log' = [log EXCEPT ![x] = Append(log[x], q)]
        BY <2>3 DEF Record
      <3>3. CASE s = x
        <4>1. log'[s] = Append(log[s], q)
          BY <3>1, <3>2, <3>3
        <4>2. PICK i \in DOMAIN log[s] : log[s][i] = r
          BY <1>2 DEF ToSet
        <4>3. Append(log[s], q)[i] = r /\ i \in DOMAIN Append(log[s], q)
          BY <3>1, <4>2
        <4>4. QED
          BY <1>2, <4>1, <4>3 DEF ToSet
      <3>4. CASE s # x
        BY <1>2, <3>1, <3>2, <3>4
      <3>5. QED
        BY <3>3, <3>4
    <2>4. CASE UNCHANGED mergeVars
      BY <1>2, <2>4 DEF mergeVars
    <2>5. QED
      BY <1>2, <2>1, <2>2, <2>3, <2>4 DEF MergeNext
  <1>3. LogsInv /\ [MergeNext]_mergeVars =>
          [\A s \in Sides : \A r \in ToSet(log[s]) \ ToSet(log'[s]) :
             log'[s] = log[Other(s)] \/ \E q \in ToSet(log'[s]) :
               /\ Twins(q, r)
               /\ q.full > r.full \/ q \in ToSet(log[s])]_mergeVars
    BY <1>2
  <1>4. QED
    BY <1>3, LogsInvariant, PTL DEF MergeSpec, OursKeepsItsRows

-----------------------------------------------------------------------------
(* Merging again, and replaying what was merged *)

(* When the winners of one arrival win in another, and no one else can,    *)
(* they are the winners there.                                             *)
LEMMA SameWinners ==
  ASSUME NEW W, NEW arrival \in Seq(Row), NEW ours,
         \A w \in W : w \in Resolved(arrival, ours),
         \A r \in ToSet(arrival) : \E w \in W : Twins(w, r)
  PROVE  Resolved(arrival, ours) = W
  <1>1. ASSUME NEW r \in Resolved(arrival, ours) PROVE r \in W
    <2>1. r \in ToSet(arrival)
      BY DEF Resolved
    <2>2. PICK w \in W : Twins(w, r)
      BY <2>1
    <2>3. QED
      BY <2>2, OneOfTwins
  <1>2. QED
    BY <1>1

(* A winner is no worse than a twin that came in with it.                  *)
LEMMA WinnerIsBetter ==
  ASSUME NEW arrival \in Seq(Row), NEW ours, NEW w \in Resolved(arrival, ours),
         NEW q \in ToSet(arrival), q # w, Twins(q, w)
  PROVE  w \in ToSet(arrival) /\ Beats(w, q, ours, arrival) /\ w.full >= q.full
  <1>1. w \in ToSet(arrival) /\ Beats(w, q, ours, arrival)
    BY DEF Resolved
  <1>2. w \in Row /\ q \in Row
    BY <1>1 DEF ToSet
  <1>3. w.full >= q.full
    BY <1>1, <1>2, RowFields DEF Beats
  <1>4. QED
    BY <1>1, <1>3

(* A merged log absorbs the logs it came from, on either side, and itself. *)
LEMMA Absorption ==
  ASSUME NEW a \in Seq(Row), NEW o \in Seq(Row), NEW t \in Seq(Row),
         Apart(ToSet(a) \cup ToSet(o) \cup ToSet(t))
  PROVE  LET m == Merge(a, o, t)
         IN  /\ Merge(m, m, m) = m
             /\ Merge(a, m, t) = m
             /\ Merge(a, o, m) = m
  <1> DEFINE m == Merge(a, o, t)
             union == ToSet(a) \cup ToSet(o) \cup ToSet(t)
             first == a \o o \o t
             W == Resolved(first, o)
  <1>1. /\ first \in Seq(Row) /\ ToSet(first) = union
        /\ m \in Seq(Row) /\ ToSet(m) = W /\ W \subseteq union
        /\ \A r \in union : \E w \in W : Twins(w, r) /\ Better(w, r, o)
        /\ \A r, q \in W : Twins(r, q) => r = q
    <2>1. first \in Seq(Row) /\ ToSet(first) = union
      <3>1. a \o o \in Seq(Row) /\ ToSet(a \o o) = ToSet(a) \cup ToSet(o)
        BY ConcatRows
      <3>2. (a \o o) \o t \in Seq(Row) /\ ToSet((a \o o) \o t) = ToSet(a \o o) \cup ToSet(t)
        BY <3>1, ConcatRows
      <3>3. QED
        BY <3>1, <3>2
    <2>2. m \in Seq(Row) /\ ToSet(m) = W /\ ToSet(m) \subseteq union
      BY MergeIs
    <2>3. /\ \A r \in ToSet(first) : \E w \in W : Twins(w, r) /\ Better(w, r, o)
          /\ \A r, q \in W : Twins(r, q) => r = q
      <3> HIDE DEF first
      <3>1. QED
        BY <2>1, WinnerExists, OneOfTwins
    <2> HIDE DEF m, W, first, union
    <2>4. QED
      BY <2>1, <2>2, <2>3
  <1>2. m = Sorted(W)
    BY DEF Merge
  <1>3. \A w \in W, q \in union : q # w /\ Twins(q, w) =>
           /\ Beats(w, q, o, first) /\ w.full >= q.full /\ q \notin W
           /\ w.full \in {0, 1} /\ q.full \in {0, 1}
    <2> SUFFICES ASSUME NEW w \in W, NEW q \in union, q # w, Twins(q, w)
                 PROVE  /\ Beats(w, q, o, first) /\ w.full >= q.full /\ q \notin W
                        /\ w.full \in {0, 1} /\ q.full \in {0, 1}
      OBVIOUS
    <2>1. Beats(w, q, o, first) /\ w.full >= q.full
      BY <1>1, WinnerIsBetter
    <2>2. w \in Row /\ q \in Row
      BY <1>1 DEF ToSet
    <2>3. QED
      BY <1>1, <2>1, <2>2, RowFields
  <1> HIDE DEF m, W, first
  <1>4. Merge(m, m, m) = m
    <2> DEFINE arrival == m \o m \o m
    <2>1. arrival \in Seq(Row) /\ ToSet(arrival) = W
      <3>1. m \o m \in Seq(Row) /\ ToSet(m \o m) = W
        <4>1. m \o m \in Seq(Row) /\ ToSet(m \o m) = ToSet(m) \cup ToSet(m)
          BY <1>1, ConcatRows, Zenon
        <4>2. QED
          BY <1>1, <4>1
      <3>2. (m \o m) \o m \in Seq(Row) /\ ToSet((m \o m) \o m) = ToSet(m \o m) \cup ToSet(m)
        BY <1>1, <3>1, ConcatRows
      <3>3. QED
        BY <1>1, <3>1, <3>2
    <2> HIDE DEF arrival
    <2>2. \A w \in W : w \in Resolved(arrival, m)
      BY <1>1, <2>1 DEF Resolved
    <2>3. \A r \in ToSet(arrival) : \E w \in W : Twins(w, r)
      BY <2>1, TwinsAlike
    <2>4. Resolved(arrival, m) = W
      BY <2>1, <2>2, <2>3, SameWinners
    <2>5. QED
      BY <1>2, <2>4 DEF Merge, arrival
  <1>5. Merge(a, m, t) = m
    <2> DEFINE arrival == a \o m \o t
    <2>1. arrival \in Seq(Row) /\ ToSet(arrival) = ToSet(a) \cup W \cup ToSet(t)
      <3>1. a \o m \in Seq(Row) /\ ToSet(a \o m) = ToSet(a) \cup W
        BY <1>1, ConcatRows
      <3>2. (a \o m) \o t \in Seq(Row) /\ ToSet((a \o m) \o t) = ToSet(a \o m) \cup ToSet(t)
        BY <3>1, ConcatRows
      <3>3. QED
        BY <3>1, <3>2
    <2> HIDE DEF arrival
    <2>2. ToSet(arrival) \subseteq union
      BY <1>1, <2>1
    <2>3. ASSUME NEW w \in W PROVE w \in Resolved(arrival, m)
      <3>1. ASSUME NEW q \in ToSet(arrival), q # w, Twins(q, w)
            PROVE  Beats(w, q, m, arrival)
        <4>1. w.full >= q.full /\ q \notin W /\ w.full \in {0, 1} /\ q.full \in {0, 1}
          BY <1>3, <2>2, <3>1
        <4>2. QED
          BY <1>1, <4>1 DEF Beats
      <3>2. QED
        BY <2>1, <3>1 DEF Resolved
    <2>4. \A r \in ToSet(arrival) : \E w \in W : Twins(w, r)
      BY <1>1, <2>2
    <2>5. Resolved(arrival, m) = W
      BY <2>1, <2>3, <2>4, SameWinners
    <2>6. QED
      BY <1>2, <2>5 DEF Merge, arrival
  <1>6. Merge(a, o, m) = m
    <2> DEFINE b == a \o o
               arrival == b \o m
    <2>1. b \in Seq(Row) /\ ToSet(b) = ToSet(a) \cup ToSet(o) /\ first = b \o t
      BY ConcatRows DEF first
    <2> HIDE DEF b
    <2>2. arrival \in Seq(Row) /\ ToSet(arrival) = ToSet(b) \cup W
      BY <1>1, <2>1, ConcatRows
    <2> HIDE DEF arrival
    <2>3. ToSet(arrival) \subseteq union
      BY <1>1, <2>1, <2>2
    <2>4. ASSUME NEW w \in W PROVE w \in Resolved(arrival, o)
      <3>1. ASSUME NEW q \in ToSet(arrival), q # w, Twins(q, w)
            PROVE  Beats(w, q, o, arrival)
        <4>1. Beats(w, q, o, first) /\ q \notin W
          BY <1>3, <2>3, <3>1
        <4>2. q \in ToSet(b)
          BY <2>2, <4>1
        <4>3. Place(q, arrival) = Place(q, b) /\ Place(q, first) = Place(q, b)
          BY <1>1, <2>1, <4>2, PlaceInFirst DEF arrival
        <4>4. CASE w \in ToSet(b)
          <5>1. Place(w, arrival) = Place(w, b) /\ Place(w, first) = Place(w, b)
            BY <1>1, <2>1, <4>4, PlaceInFirst DEF arrival
          <5>2. QED
            BY <4>1, <4>3, <5>1 DEF Beats
        <4>5. CASE w \notin ToSet(b)
          <5>1. w \in ToSet(t)
            BY <1>1, <2>1, <4>5
          <5>2. Place(w, first) = Len(b) + Place(w, t)
            BY <2>1, <4>5, <5>1, PlaceInSecond
          <5>3. Place(w, t) \in Nat /\ Place(q, b) \in 1..Len(b) /\ Len(b) \in Nat
            BY <2>1, <4>2, <5>1, PlaceIs
          <5>4. ~(Place(w, first) < Place(q, first))
            BY <4>3, <5>2, <5>3
          <5>5. QED
            BY <4>1, <5>4 DEF Beats
        <4>6. QED
          BY <4>4, <4>5
      <3>2. QED
        BY <2>2, <3>1 DEF Resolved
    <2>5. \A r \in ToSet(arrival) : \E w \in W : Twins(w, r)
      BY <1>1, <2>3
    <2>6. Resolved(arrival, o) = W
      BY <2>2, <2>4, <2>5, SameWinners
    <2>7. QED
      BY <1>2, <2>6 DEF Merge, arrival, b
  <1>7. QED
    BY <1>4, <1>5, <1>6 DEF m

(* A replay of a merged log ends, for each task, in a status recorded in   *)
(* the last second in which anything was recorded of the task.             *)
LEMMA ReplayMerged ==
  ASSUME NEW a \in Seq(Row), NEW o \in Seq(Row), NEW t \in Seq(Row),
         Apart(ToSet(a) \cup ToSet(o) \cup ToSet(t)), NEW task \in Tasks,
         NEW x \in ToSet(a) \cup ToSet(o) \cup ToSet(t), x.task = task
  PROVE  \E r \in ToSet(a) \cup ToSet(o) \cup ToSet(t) :
           /\ r.task = task /\ Replay(Merge(a, o, t))[task] = r.to
           /\ \A q \in ToSet(a) \cup ToSet(o) \cup ToSet(t) : q.task = task => q.ts <= r.ts
  <1> DEFINE m == Merge(a, o, t)
             union == ToSet(a) \cup ToSet(o) \cup ToSet(t)
  <1>1. /\ m \in Seq(Row) /\ ToSet(m) \subseteq union
        /\ \A r \in union : \E w \in ToSet(m) : Twins(w, r) /\ Better(w, r, o)
        /\ \A i, j \in 1..Len(m) : i < j => Before(m[i], m[j])
    BY MergeIs
  <1> HIDE DEF m
  <1>2. \A r \in union : r.task = task => \E j \in DOMAIN m : m[j].task = task /\ m[j].ts = r.ts
    <2> SUFFICES ASSUME NEW r \in union, r.task = task
                 PROVE  \E j \in DOMAIN m : m[j].task = task /\ m[j].ts = r.ts
      OBVIOUS
    <2>1. PICK w \in ToSet(m) : Twins(w, r)
      BY <1>1
    <2>2. PICK j \in DOMAIN m : m[j] = w
      BY DEF ToSet
    <2>3. QED
      BY <2>1, <2>2 DEF Twins
  <1>3. PICK i \in DOMAIN m : /\ m[i].task = task /\ Replay(m)[task] = m[i].to
                              /\ \A j \in DOMAIN m : m[j].task = task => j <= i
    <2>1. ~ \A j \in DOMAIN m : m[j].task # task
      BY <1>2
    <2>2. QED
      BY <1>1, <2>1, ReplayIs
  <1>4. m[i] \in union
    BY <1>1 DEF ToSet
  <1>5. ASSUME NEW q \in union, q.task = task PROVE q.ts <= m[i].ts
    <2>1. PICK j \in DOMAIN m : m[j].task = task /\ m[j].ts = q.ts
      BY <1>2, <1>5
    <2>2. i \in 1..Len(m) /\ j \in 1..Len(m) /\ j <= i /\ m[i] \in Row /\ m[j] \in Row
      BY <1>1, <1>3, <2>1
    <2>3. m[i].ts \in Nat /\ m[j].ts \in Nat
      BY <2>2, RowFields
    <2>4. CASE j = i
      BY <2>1, <2>3, <2>4
    <2>5. CASE j < i
      <3>1. Before(m[j], m[i])
        BY <1>1, <2>2, <2>5
      <3>2. QED
        BY <2>1, <2>3, <3>1 DEF Before
    <2>6. QED
      BY <2>2, <2>4, <2>5
  <1>6. QED
    BY <1>3, <1>4, <1>5 DEF m

LEMMA LogsInvMerges ==
  ASSUME LogsInv
  PROVE  MergeInv
  <1>1. EveryEventSurvives /\ MergeTypeOK
    BY DEF LogsInv, Covers, Twins, EveryEventSurvives
  <1>2. ASSUME NEW s \in Sides
        PROVE  /\ base \in Seq(Row) /\ log[s] \in Seq(Row) /\ log[Other(s)] \in Seq(Row)
               /\ Apart(ToSet(base) \cup ToSet(log[s]) \cup ToSet(log[Other(s)]))
    <2>1. Other(s) \in Sides
      BY OtherSide
    <2>2. ToSet(base) \cup ToSet(log[s]) \cup ToSet(log[Other(s)]) \subseteq EverRecorded
      BY <2>1 DEF LogsInv, EverRecorded
    <2>3. QED
      BY <2>1, <2>2 DEF LogsInv, MergeTypeOK, Apart
  <1>3. MergeAbsorbs
    BY <1>2, Absorption DEF MergeAbsorbs
  <1>4. LatestSecondWins
    <2> SUFFICES ASSUME NEW s \in Sides, NEW t \in Tasks,
                        NEW x \in ToSet(base \o log[s] \o log[Other(s)]), x.task = t
                 PROVE  \E r \in ToSet(base \o log[s] \o log[Other(s)]) :
                          /\ r.task = t /\ Replay(Merge(base, log[s], log[Other(s)]))[t] = r.to
                          /\ \A q \in ToSet(base \o log[s] \o log[Other(s)]) :
                               q.task = t => q.ts <= r.ts
      BY DEF LatestSecondWins
    <2>1. ToSet(base \o log[s] \o log[Other(s)])
            = ToSet(base) \cup ToSet(log[s]) \cup ToSet(log[Other(s)])
      BY <1>2, MergeIs
    <2>2. /\ x \in ToSet(base) \cup ToSet(log[s]) \cup ToSet(log[Other(s)])
          /\ Apart(ToSet(base) \cup ToSet(log[s]) \cup ToSet(log[Other(s)]))
          /\ base \in Seq(Row) /\ log[s] \in Seq(Row) /\ log[Other(s)] \in Seq(Row)
      BY <1>2, <2>1
    <2>3. \E r \in ToSet(base) \cup ToSet(log[s]) \cup ToSet(log[Other(s)]) :
            /\ r.task = t /\ Replay(Merge(base, log[s], log[Other(s)]))[t] = r.to
            /\ \A q \in ToSet(base) \cup ToSet(log[s]) \cup ToSet(log[Other(s)]) :
                 q.task = t => q.ts <= r.ts
      BY <2>2, ReplayMerged
    <2>4. QED
      BY <2>1, <2>3
  <1>5. QED
    BY <1>1, <1>3, <1>4 DEF MergeInv

(* What is true of every merge that can be made of the branches: no loss,  *)
(* absorption, and the status of the last second.                          *)
THEOREM EveryMerge == MergeSpec => []MergeInv
  <1>1. LogsInv => MergeInv
    BY LogsInvMerges
  <1>2. QED
    BY <1>1, LogsInvariant, PTL

-----------------------------------------------------------------------------
(* The order of merges *)

\* the winners when no side is preferred
Winners(x) == Resolved(x, x)

(* With no ancestor our rows are met first: preferring them changes        *)
(* nothing.                                                                *)
LEMMA JoinIs ==
  ASSUME NEW a \in Seq(Row), NEW b \in Seq(Row)
  PROVE  Merge(<<>>, a, b) = Sorted(Winners(a \o b))
  <1> DEFINE x == a \o b
  <1>1. x \in Seq(Row) /\ ToSet(x) = ToSet(a) \cup ToSet(b)
    BY ConcatRows
  <1>2. <<>> \o a = a
    OBVIOUS
  <1>3. \A r \in ToSet(x) : /\ r \in ToSet(a) => Place(r, x) \in 1..Len(a)
                            /\ r \notin ToSet(a) => Place(r, x) > Len(a)
                            /\ Place(r, x) \in Nat
    <2> SUFFICES ASSUME NEW r \in ToSet(x)
                 PROVE  /\ r \in ToSet(a) => Place(r, x) \in 1..Len(a)
                        /\ r \notin ToSet(a) => Place(r, x) > Len(a)
                        /\ Place(r, x) \in Nat
      OBVIOUS
    <2>1. CASE r \in ToSet(a)
      BY <2>1, PlaceInFirst, PlaceIs
    <2>2. CASE r \notin ToSet(a)
      <3>1. r \in ToSet(b) /\ Place(r, x) = Len(a) + Place(r, b)
        BY <1>1, <2>2, PlaceInSecond
      <3>2. Place(r, b) \in 1..Len(b) /\ Len(a) \in Nat /\ Len(b) \in Nat
        BY <3>1, PlaceIs
      <3>3. QED
        BY <2>2, <3>1, <3>2
    <2>3. QED
      BY <2>1, <2>2
  <1>4. Len(a) \in Nat
    OBVIOUS
  <1> HIDE DEF x
  <1>5. \A r, q \in ToSet(x) : Beats(r, q, a, x) <=> Beats(r, q, x, x)
    BY <1>3, <1>4 DEF Beats
  <1>6. Resolved(x, a) = Resolved(x, x)
    BY <1>5 DEF Resolved
  <1>7. QED
    BY <1>2, <1>6 DEF Merge, Winners, x

LEMMA WinnersListed ==
  ASSUME NEW a \in Seq(Row), Apart(ToSet(a))
  PROVE  /\ Sorted(Winners(a)) \in Seq(Row)
         /\ ToSet(Sorted(Winners(a))) = Winners(a) /\ Winners(a) \subseteq ToSet(a)
         /\ \A r, q \in Winners(a) : Twins(r, q) => r = q
  <1>1. Winners(a) \subseteq ToSet(a) /\ ToSet(a) \subseteq Row
    BY DEF Winners, Resolved, ToSet
  <1>2. IsFiniteSet(Winners(a))
    BY <1>1, LogFinite, FS_Subset
  <1>3. Apart(Winners(a))
    BY <1>1 DEF Apart
  <1>4. \A r, q \in Winners(a) : Twins(r, q) => r = q
    BY OneOfTwins DEF Winners
  <1>5. QED
    BY <1>1, <1>2, <1>3, <1>4, SortedIs

\* when no side is preferred, the fuller one and then the first met
LEMMA BeatsIs ==
  ASSUME NEW x \in Seq(Row), NEW r \in ToSet(x), NEW q \in ToSet(x)
  PROVE  /\ Beats(r, q, x, x) <=>
              (r.full > q.full \/ (r.full = q.full /\ Place(r, x) < Place(q, x)))
         /\ r.full \in {0, 1} /\ q.full \in {0, 1}
         /\ Place(r, x) \in 1..Len(x) /\ Place(q, x) \in 1..Len(x) /\ Len(x) \in Nat
  <1>1. r \in Row /\ q \in Row
    BY DEF ToSet
  <1>2. r.full \in {0, 1} /\ q.full \in {0, 1}
    BY <1>1, RowFields
  <1>3. Place(r, x) \in 1..Len(x) /\ Place(q, x) \in 1..Len(x) /\ Len(x) \in Nat
    BY PlaceIs
  <1>4. Beats(r, q, x, x) <=> IF r.full # q.full THEN r.full > q.full
                              ELSE Place(r, x) < Place(q, x)
    BY DEF Beats
  <1>5. QED
    BY <1>2, <1>3, <1>4

(* Leaving the losers of the first of two logs out changes no winner.      *)
LEMMA WinnersOfFirst ==
  ASSUME NEW a \in Seq(Row), NEW b \in Seq(Row), Apart(ToSet(a))
  PROVE  Winners(Sorted(Winners(a)) \o b) = Winners(a \o b)
  <1> DEFINE l == Sorted(Winners(a))
             x == a \o b
             y == l \o b
             W == Winners(x)
  <1>1. /\ l \in Seq(Row) /\ ToSet(l) = Winners(a) /\ Winners(a) \subseteq ToSet(a)
        /\ \A r, q \in ToSet(l) : Twins(r, q) => r = q
    BY WinnersListed
  <1> HIDE DEF l
  <1>2. /\ x \in Seq(Row) /\ ToSet(x) = ToSet(a) \cup ToSet(b)
        /\ y \in Seq(Row) /\ ToSet(y) = ToSet(l) \cup ToSet(b)
    BY <1>1, ConcatRows
  <1> HIDE DEF x, y
  <1>3. ToSet(y) \subseteq ToSet(x)
    BY <1>1, <1>2
  <1>4. \A r \in ToSet(a) : Place(r, x) = Place(r, a) /\ Place(r, a) \in 1..Len(a)
    BY PlaceInFirst, PlaceIs DEF x
  <1>5. \A r \in ToSet(b) : r \notin ToSet(a) =>
          Place(r, x) = Len(a) + Place(r, b) /\ Place(r, b) \in 1..Len(b)
    BY PlaceInSecond, PlaceIs DEF x
  <1>6. \A r \in ToSet(l) : Place(r, y) = Place(r, l) /\ Place(r, l) \in 1..Len(l)
    BY <1>1, PlaceInFirst, PlaceIs DEF y
  <1>7. \A r \in ToSet(b) : r \notin ToSet(l) =>
          Place(r, y) = Len(l) + Place(r, b) /\ Place(r, b) \in 1..Len(b)
    BY <1>1, PlaceInSecond, PlaceIs DEF y
  <1>8. Len(a) \in Nat /\ Len(b) \in Nat /\ Len(l) \in Nat
    BY <1>1
  <1>9. ASSUME NEW w \in W PROVE w \in Resolved(y, y)
    <2>1. w \in ToSet(x) /\ \A q \in ToSet(x) : q # w /\ Twins(q, w) => Beats(w, q, x, x)
      BY DEF Winners, Resolved
    <2>2. w \in ToSet(a) => w \in ToSet(l)
      <3> SUFFICES ASSUME w \in ToSet(a) PROVE w \in Resolved(a, a)
        BY <1>1 DEF Winners
      <3>1. ASSUME NEW q \in ToSet(a), q # w, Twins(q, w) PROVE Beats(w, q, a, a)
        <4>1. q \in ToSet(x) /\ Beats(w, q, x, x)
          BY <1>2, <2>1, <3>1
        <4>2. Place(w, x) = Place(w, a) /\ Place(q, x) = Place(q, a)
          BY <1>4
        <4>3. QED
          BY <1>2, <2>1, <4>1, <4>2, BeatsIs
      <3>2. QED
        BY <3>1 DEF Resolved
    <2>3. w \in ToSet(y)
      BY <1>2, <2>1, <2>2
    <2>4. ASSUME NEW q \in ToSet(y), q # w, Twins(q, w) PROVE Beats(w, q, y, y)
      <3>1. q \in ToSet(x) /\ Beats(w, q, x, x)
        BY <1>3, <2>1, <2>4
      <3>2. CASE w.full > q.full
        BY <1>2, <2>3, <3>2, BeatsIs
      <3>3. CASE ~(w.full > q.full)
        <4>1. w.full = q.full /\ Place(w, x) < Place(q, x)
          BY <1>2, <2>1, <3>1, <3>3, BeatsIs
        <4>2. q \notin ToSet(l)
          <5>1. CASE w \in ToSet(a)
            BY <1>1, <2>2, <2>4, <5>1
          <5>2. CASE w \notin ToSet(a)
            <6>1. w \in ToSet(b) /\ Place(w, x) > Len(a)
              BY <1>2, <1>5, <1>8, <2>1, <5>2
            <6>2. q \in ToSet(a) => Place(q, x) <= Len(a)
              BY <1>4, <1>8
            <6>3. q \notin ToSet(a)
              <7> SUFFICES ASSUME q \in ToSet(a) PROVE FALSE
                OBVIOUS
              <7>1. Place(q, x) \in Nat /\ Place(w, x) \in Nat
                BY <1>4, <1>5, <1>8, <5>2, <6>1
              <7>2. QED
                BY <1>8, <4>1, <6>1, <6>2, <7>1
            <6>4. QED
              BY <1>1, <6>3
          <5>3. QED
            BY <5>1, <5>2
        <4>3. q \in ToSet(b) /\ Place(q, y) = Len(l) + Place(q, b) /\ Place(q, b) \in 1..Len(b)
          BY <1>2, <1>7, <4>2
        <4>4. Place(w, y) < Place(q, y)
          <5>1. CASE w \in ToSet(l)
            BY <1>6, <1>8, <4>3, <5>1
          <5>2. CASE w \notin ToSet(l)
            <6>1. w \in ToSet(b) /\ w \notin ToSet(a)
              BY <1>2, <2>1, <2>2, <5>2
            <6>2. /\ Place(w, y) = Len(l) + Place(w, b) /\ Place(w, b) \in 1..Len(b)
                  /\ Place(w, x) = Len(a) + Place(w, b)
              BY <1>5, <1>7, <5>2, <6>1
            <6>3. CASE q \in ToSet(a)
              BY <1>4, <1>8, <4>1, <6>2, <6>3
            <6>4. CASE q \notin ToSet(a)
              BY <1>5, <1>8, <4>1, <4>3, <6>2, <6>4
            <6>5. QED
              BY <6>3, <6>4
          <5>3. QED
            BY <5>1, <5>2
        <4>5. QED
          BY <1>2, <2>3, <4>1, <4>4, BeatsIs
      <3>4. QED
        BY <3>2, <3>3
    <2>5. QED
      BY <2>3, <2>4 DEF Resolved
  <1>10. \A r \in ToSet(y) : \E w \in W : Twins(w, r)
    BY <1>2, <1>3, WinnerExists DEF Winners
  <1> HIDE DEF W
  <1>11. Resolved(y, y) = W
    BY <1>2, <1>9, <1>10, SameWinners
  <1>12. QED
    BY <1>11 DEF Winners, W, l, x, y

(* Nor does leaving out those of the second.                               *)
LEMMA WinnersOfSecond ==
  ASSUME NEW a \in Seq(Row), NEW b \in Seq(Row), Apart(ToSet(b))
  PROVE  Winners(a \o Sorted(Winners(b))) = Winners(a \o b)
  <1> DEFINE l == Sorted(Winners(b))
             x == a \o b
             y == a \o l
             W == Winners(x)
  <1>1. /\ l \in Seq(Row) /\ ToSet(l) = Winners(b) /\ Winners(b) \subseteq ToSet(b)
        /\ \A r, q \in ToSet(l) : Twins(r, q) => r = q
    BY WinnersListed
  <1> HIDE DEF l
  <1>2. /\ x \in Seq(Row) /\ ToSet(x) = ToSet(a) \cup ToSet(b)
        /\ y \in Seq(Row) /\ ToSet(y) = ToSet(a) \cup ToSet(l)
    BY <1>1, ConcatRows
  <1> HIDE DEF x, y
  <1>3. ToSet(y) \subseteq ToSet(x)
    BY <1>1, <1>2
  <1>4. \A r \in ToSet(a) : /\ Place(r, x) = Place(r, a) /\ Place(r, y) = Place(r, a)
                            /\ Place(r, a) \in 1..Len(a)
    BY <1>1, PlaceInFirst, PlaceIs DEF x, y
  <1>5. \A r \in ToSet(b) : r \notin ToSet(a) =>
          Place(r, x) = Len(a) + Place(r, b) /\ Place(r, b) \in 1..Len(b)
    BY PlaceInSecond, PlaceIs DEF x
  <1>6. \A r \in ToSet(l) : r \notin ToSet(a) =>
          Place(r, y) = Len(a) + Place(r, l) /\ Place(r, l) \in 1..Len(l)
    BY <1>1, PlaceInSecond, PlaceIs DEF y
  <1>7. Len(a) \in Nat /\ Len(b) \in Nat /\ Len(l) \in Nat
    BY <1>1
  <1>8. ASSUME NEW w \in W PROVE w \in Resolved(y, y)
    <2>1. w \in ToSet(x) /\ \A q \in ToSet(x) : q # w /\ Twins(q, w) => Beats(w, q, x, x)
      BY DEF Winners, Resolved
    <2>2. ASSUME NEW q \in ToSet(a), Place(w, x) < Place(q, x) PROVE w \in ToSet(a)
      <3> SUFFICES ASSUME w \notin ToSet(a) PROVE FALSE
        OBVIOUS
      <3>1. w \in ToSet(b) /\ Place(w, x) = Len(a) + Place(w, b) /\ Place(w, b) \in 1..Len(b)
        BY <1>2, <1>5, <2>1
      <3>2. Place(q, x) \in 1..Len(a)
        BY <1>4
      <3>3. QED
        BY <1>7, <2>2, <3>1, <3>2
    <2>3. w \notin ToSet(a) => w \in ToSet(l)
      <3> SUFFICES ASSUME w \notin ToSet(a) PROVE w \in Resolved(b, b)
        BY <1>1 DEF Winners
      <3>1. w \in ToSet(b)
        BY <1>2, <2>1
      <3>2. ASSUME NEW q \in ToSet(b), q # w, Twins(q, w) PROVE Beats(w, q, b, b)
        <4>1. q \in ToSet(x) /\ Beats(w, q, x, x)
          BY <1>2, <2>1, <3>2
        <4>2. CASE w.full > q.full
          BY <3>1, <4>2, BeatsIs
        <4>3. CASE ~(w.full > q.full)
          <5>1. w.full = q.full /\ Place(w, x) < Place(q, x)
            BY <1>2, <2>1, <4>1, <4>3, BeatsIs
          <5>2. q \notin ToSet(a)
            BY <2>2, <5>1
          <5>3. /\ Place(w, x) = Len(a) + Place(w, b) /\ Place(w, b) \in 1..Len(b)
                /\ Place(q, x) = Len(a) + Place(q, b) /\ Place(q, b) \in 1..Len(b)
            BY <1>5, <3>1, <5>2
          <5>4. Place(w, b) < Place(q, b)
            BY <1>7, <5>1, <5>3
          <5>5. QED
            BY <3>1, <5>1, <5>4, BeatsIs
        <4>4. QED
          BY <4>2, <4>3
      <3>3. QED
        BY <3>1, <3>2 DEF Resolved
    <2>4. w \in ToSet(y)
      BY <1>2, <2>3
    <2>5. ASSUME NEW q \in ToSet(y), q # w, Twins(q, w) PROVE Beats(w, q, y, y)
      <3>1. q \in ToSet(x) /\ Beats(w, q, x, x)
        BY <1>3, <2>1, <2>5
      <3>2. CASE w.full > q.full
        BY <1>2, <2>4, <3>2, BeatsIs
      <3>3. CASE ~(w.full > q.full)
        <4>1. w.full = q.full /\ Place(w, x) < Place(q, x)
          BY <1>2, <2>1, <3>1, <3>3, BeatsIs
        <4>2. w \in ToSet(a)
          <5>1. q \in ToSet(a) => w \in ToSet(a)
            BY <2>2, <4>1
          <5>2. q \in ToSet(l) => w \in ToSet(a)
            BY <1>1, <2>3, <2>5
          <5>3. QED
            BY <1>2, <5>1, <5>2
        <4>3. Place(w, y) < Place(q, y)
          <5>1. CASE q \in ToSet(a)
            BY <1>4, <4>1, <4>2, <5>1
          <5>2. CASE q \notin ToSet(a)
            <6>1. Place(q, y) = Len(a) + Place(q, l) /\ Place(q, l) \in 1..Len(l)
              BY <1>2, <1>6, <5>2
            <6>2. Place(w, y) \in 1..Len(a)
              BY <1>4, <4>2
            <6>3. QED
              BY <1>7, <6>1, <6>2
          <5>3. QED
            BY <5>1, <5>2
        <4>4. QED
          BY <1>2, <2>4, <4>1, <4>3, BeatsIs
      <3>4. QED
        BY <3>2, <3>3
    <2>6. QED
      BY <2>4, <2>5 DEF Resolved
  <1>9. \A r \in ToSet(y) : \E w \in W : Twins(w, r)
    BY <1>2, <1>3, WinnerExists DEF Winners
  <1> HIDE DEF W
  <1>10. Resolved(y, y) = W
    BY <1>2, <1>8, <1>9, SameWinners
  <1>11. QED
    BY <1>10 DEF Winners, W, l, x, y

(* Three logs give the same log however they are paired.                   *)
LEMMA JoinAssociates ==
  ASSUME NEW a \in Seq(Row), NEW b \in Seq(Row), NEW c \in Seq(Row),
         Apart(ToSet(a) \cup ToSet(b) \cup ToSet(c))
  PROVE  Merge(<<>>, Merge(<<>>, a, b), c) = Merge(<<>>, a, Merge(<<>>, b, c))
  <1> DEFINE ab == Sorted(Winners(a \o b))
             bc == Sorted(Winners(b \o c))
  <1>1. /\ a \o b \in Seq(Row) /\ ToSet(a \o b) = ToSet(a) \cup ToSet(b)
        /\ b \o c \in Seq(Row) /\ ToSet(b \o c) = ToSet(b) \cup ToSet(c)
    BY ConcatRows
  <1>2. Apart(ToSet(a \o b)) /\ Apart(ToSet(b \o c))
    BY <1>1 DEF Apart
  <1>3. ab \in Seq(Row) /\ bc \in Seq(Row)
    BY <1>1, <1>2, WinnersListed
  <1>4. Merge(<<>>, a, b) = ab /\ Merge(<<>>, b, c) = bc
    BY JoinIs
  <1>5. Winners(ab \o c) = Winners((a \o b) \o c)
    BY <1>1, <1>2, WinnersOfFirst
  <1>6. Winners(a \o bc) = Winners(a \o (b \o c))
    BY <1>1, <1>2, WinnersOfSecond
  <1>7. (a \o b) \o c = a \o (b \o c)
    OBVIOUS
  <1> HIDE DEF ab, bc
  <1>8. Merge(<<>>, ab, c) = Sorted(Winners(ab \o c)) /\ Merge(<<>>, a, bc) = Sorted(Winners(a \o bc))
    BY <1>3, JoinIs
  <1>9. QED
    BY <1>4, <1>5, <1>6, <1>7, <1>8

\* the rows but for what tells twins of one completeness apart
Events(l) == {[r EXCEPT !.json = 0] : r \in ToSet(l)}

LEMMA SameEvent ==
  ASSUME NEW r \in Row, NEW q \in Row, Twins(r, q), r.full = q.full
  PROVE  [r EXCEPT !.json = 0] = [q EXCEPT !.json = 0]
  <1>1. /\ r = [ts |-> r.ts, task |-> r.task, from |-> r.from, to |-> r.to,
                full |-> r.full, json |-> r.json]
        /\ q = [ts |-> q.ts, task |-> q.task, from |-> q.from, to |-> q.to,
                full |-> q.full, json |-> q.json]
    BY DEF Row
  <1>2. /\ r.ts = q.ts /\ r.task = q.task /\ r.from = q.from /\ r.to = q.to
    BY DEF Twins
  <1>3. QED
    BY <1>1, <1>2

(* Swapping the sides can only exchange a row for an equally complete twin.*)
LEMMA SidesSwap ==
  ASSUME NEW a \in Seq(Row), NEW o \in Seq(Row), NEW t \in Seq(Row),
         Apart(ToSet(a) \cup ToSet(o) \cup ToSet(t))
  PROVE  Events(Merge(a, o, t)) \subseteq Events(Merge(a, t, o))
  <1> DEFINE m == Merge(a, o, t)
             n == Merge(a, t, o)
             union == ToSet(a) \cup ToSet(o) \cup ToSet(t)
  <1>1. /\ ToSet(m) \subseteq union
        /\ \A r \in union : \E w \in ToSet(m) : Twins(w, r) /\ Better(w, r, o)
        /\ \A r, q \in ToSet(m) : Twins(r, q) => r = q
    <2>1. Apart(union)
      OBVIOUS
    <2>2. /\ ToSet(m) \subseteq union
          /\ \A r \in union : \E w \in ToSet(m) : Twins(w, r) /\ Better(w, r, o)
      BY <2>1, MergeIs
    <2>3. \A r, q \in ToSet(m) : Twins(r, q) => r = q
      BY <2>1, MergeIs
    <2>4. QED
      BY <2>2, <2>3
  <1>2. /\ ToSet(n) \subseteq union
        /\ \A r \in union : \E w \in ToSet(n) : Twins(w, r) /\ Better(w, r, t)
    <2>1. Apart(ToSet(a) \cup ToSet(t) \cup ToSet(o))
      BY DEF Apart
    <2>2. /\ ToSet(n) \subseteq ToSet(a) \cup ToSet(t) \cup ToSet(o)
          /\ \A r \in ToSet(a) \cup ToSet(t) \cup ToSet(o) :
               \E w \in ToSet(n) : Twins(w, r) /\ Better(w, r, t)
      BY <2>1, MergeIs
    <2>3. QED
      BY <2>2
  <1>3. union \subseteq Row
    BY DEF ToSet
  <1> HIDE DEF m, n, union
  <1>4. ASSUME NEW r \in ToSet(m)
        PROVE  \E q \in ToSet(n) : [r EXCEPT !.json = 0] = [q EXCEPT !.json = 0]
    <2>1. PICK q \in ToSet(n) : Twins(q, r) /\ Better(q, r, t)
      BY <1>1, <1>2
    <2>2. PICK w \in ToSet(m) : Twins(w, q) /\ Better(w, q, o)
      BY <1>1, <1>2
    <2>3. w = r
      BY <1>1, <2>1, <2>2, TwinsAlike
    <2>4. r \in Row /\ q \in Row
      BY <1>1, <1>2, <1>3
    <2>5. r.full = q.full /\ Twins(r, q)
      BY <2>1, <2>2, <2>3, <2>4, RowFields DEF Better
    <2>6. QED
      BY <2>4, <2>5, SameEvent
  <1>5. QED
    BY <1>4 DEF Events, m, n

LEMMA LogsInvOrders ==
  ASSUME LogsInv
  PROVE  MergeOrderIsIrrelevant
  <1> SUFFICES
        ASSUME NEW s \in Sides
        PROVE  LET ours   == log[s]
                   theirs == log[Other(s)]
               IN  /\ Merge(<<>>, Merge(<<>>, base, ours), theirs)
                         = Merge(<<>>, base, Merge(<<>>, ours, theirs))
                   /\ Merge(<<>>, Merge(<<>>, ours, theirs), base)
                         = Merge(<<>>, ours, Merge(<<>>, theirs, base))
                   /\ Events(Merge(base, ours, theirs)) = Events(Merge(base, theirs, ours))
    BY DEF MergeOrderIsIrrelevant, Events
  <1> DEFINE ours   == log[s]
             theirs == log[Other(s)]
  <1>1. /\ base \in Seq(Row) /\ ours \in Seq(Row) /\ theirs \in Seq(Row)
        /\ ToSet(base) \cup ToSet(ours) \cup ToSet(theirs) \subseteq EverRecorded
    BY OtherSide DEF LogsInv, MergeTypeOK, EverRecorded
  <1> HIDE DEF ours, theirs
  <1>2. /\ Apart(ToSet(base) \cup ToSet(ours) \cup ToSet(theirs))
        /\ Apart(ToSet(ours) \cup ToSet(theirs) \cup ToSet(base))
        /\ Apart(ToSet(base) \cup ToSet(theirs) \cup ToSet(ours))
    BY <1>1 DEF LogsInv, Apart
  <1>3. Merge(<<>>, Merge(<<>>, base, ours), theirs) = Merge(<<>>, base, Merge(<<>>, ours, theirs))
    BY <1>1, <1>2, JoinAssociates
  <1>4. Merge(<<>>, Merge(<<>>, ours, theirs), base) = Merge(<<>>, ours, Merge(<<>>, theirs, base))
    BY <1>1, <1>2, JoinAssociates
  <1>5. /\ Events(Merge(base, ours, theirs)) \subseteq Events(Merge(base, theirs, ours))
        /\ Events(Merge(base, theirs, ours)) \subseteq Events(Merge(base, ours, theirs))
    BY <1>1, <1>2, SidesSwap
  <1>6. QED
    BY <1>3, <1>4, <1>5 DEF ours, theirs

(* The order in which branches are merged does not matter: three logs give *)
(* the same log however they are paired, and swapping the sides exchanges  *)
(* rows only for equally complete ones of their second and transition.     *)
THEOREM OrderIsIrrelevant == MergeSpec => []MergeOrderIsIrrelevant
  <1>1. LogsInv => MergeOrderIsIrrelevant
    BY LogsInvOrders
  <1>2. QED
    BY <1>1, LogsInvariant, PTL

-----------------------------------------------------------------------------
(* Part 3. ChainRecord                                                     *)

-----------------------------------------------------------------------------
(* The inductive invariant *)

Born(c) == c \in Drivers /\ ~Stands(c, "unborn")

\* One driver is alive, the one in the sentinel; a chain is named only after
\* the driver that began it was launched.
Alone ==
  /\ \A d \in Drivers :
       /\ Alive(d) => lock = d
       /\ Stands(d, "unborn") => run[d] = Driver /\ d \notin manifest.of
       /\ Born(d) => Born(run[d].chain)
  /\ lock # None => Born(lock)
  /\ manifest.chain # None => Born(manifest.chain)
  /\ pause.chain # None => Born(pause.chain)
  /\ asked.chain # None => Born(asked.chain)

\* The results in hand lag behind what happened at "exit" only; every phase
\* but the one that has just ended passed.
Ended(d) == run[d].pc \in {"exit", "boundary"}
Past(d) == Len(run[d].happened) - (IF Ended(d) THEN 1 ELSE 0)
Latest(d) == [phase |-> run[d].phase, verdict |-> run[d].verdict]

CourseOf(d) ==
  LET r == run[d]
  IN  /\ r.clean => IF r.pc = "exit" THEN r.happened = Append(r.results, Latest(d))
                                     ELSE r.happened = r.results
      /\ Ended(d) => /\ r.happened # <<>> /\ r.happened[Len(r.happened)] = Latest(d)
                     /\ r.verdict \in Verdicts(r.phase)
      /\ r.pc = "complete" =>
           /\ r.happened # <<>>
           /\ r.happened[Len(r.happened)] = [phase |-> LastPhase, verdict |-> "passed"]
      /\ r.pc = "stamp" => r.happened = <<>>
      /\ r.pc \in InTry => \A k \in 1 .. Past(d) : r.happened[k].verdict = "passed"
Course == \A d \in Drivers : CourseOf(d)

\* The rows of a driver that nothing has disturbed recount its past; one
\* that says "done" is of a driver whose last phase passed.
EndSaid(d) == [k \in EndRows(d) |-> Told(rows[k])]
Finished(d) ==
  /\ run[d].pc \in {"flush", "release", "gone"} /\ run[d].happened # <<>>
  /\ run[d].happened[Len(run[d].happened)] = [phase |-> LastPhase, verdict |-> "passed"]

RowHolds(k) == Born(rows[k].by) /\ (rows[k].to = "done" => Finished(rows[k].by))

RowsFollow ==
  /\ \A k \in DOMAIN rows : RowHolds(k)
  /\ \A d \in Drivers : run[d].clean => Recounts(EndSaid(d), run[d].happened, Past(d))

\* phase_success is in hand at the end only of a chain that was told to be
\* done; the summary says what its driver had in hand.
Earned(d) == /\ RowsOf(d, {"complete"}) # {}
             /\ \A k \in DOMAIN run[d].results : run[d].results[k].verdict = "passed"

SummaryFollows ==
  /\ \A d \in Drivers :
       /\ run[d].clean /\ run[d].pc \in {"flush", "release"} /\ run[d].halt = "phase_success"
            => Earned(d)
       /\ run[d].clean /\ (Stands(d, "release") \/ (Stands(d, "gone") /\ RowsOf(d, {"refused"}) = {}))
            => summary[run[d].chain].by # None
  /\ \A c \in Drivers : summary[c].by # None =>
       LET d == summary[c].by
       IN  /\ run[d].pc \in {"release", "gone"} /\ run[d].chain = c
           /\ summary[c].halt = run[d].halt /\ summary[c].results = run[d].results
           /\ run[d].clean /\ run[d].halt = "phase_success" => Earned(d)

\* The entries of such a driver recount its past too: the one of the phase
\* that runs is the last of the manifest, and no other is open.
Closed(d) == {k \in Ours(d) : manifest.phases[k].verdict # "open"}
ClosedSaid(d) == [k \in Closed(d) |-> Outcome(manifest.phases[k])]
Noted(d) == Len(run[d].happened) - (IF Stands(d, "exit") THEN 1 ELSE 0)

EntriesOf(d) ==
  /\ run[d].pc \in InTry \ {"stamp"} => d \in manifest.of
  /\ d \in manifest.of => manifest.chain = run[d].chain
  /\ Ours(d) # {} => d \in manifest.of
  /\ run[d].clean =>
       /\ run[d].pc \in {"phase", "exit"} =>
            /\ manifest.phases # <<>>
            /\ manifest.phases[Len(manifest.phases)]
                 = [phase |-> run[d].phase, by |-> d, verdict |-> "open"]
       /\ \A k \in Ours(d) \ Closed(d) : run[d].pc \in {"phase", "exit"} /\ k = Len(manifest.phases)
       /\ d \in manifest.of => Recounts(ClosedSaid(d), run[d].happened, Noted(d))

\* A closed one is of a phase of its driver, unless another closed it.
ClosedIsTrue(e) ==
  \/ \E k \in DOMAIN run[e.by].happened : run[e.by].happened[k] = Outcome(e)
  \/ \E d \in Drivers : d # e.by /\ ~run[d].clean

EntriesFollow ==
  /\ \A d \in Drivers : EntriesOf(d)
  /\ \A i \in DOMAIN manifest.phases :
       manifest.phases[i].verdict # "open" => ClosedIsTrue(manifest.phases[i])

\* What the manifest and the pauses say of the chain that a driver began is
\* not ahead of it.
Ahead(d) == run[d].phase + (IF run[d].pc \in {"boundary", "complete"} THEN 1 ELSE 0)
NextOf(entry) == entry.phase + IF entry.verdict = "open" THEN 0 ELSE 1

AheadOf(d) ==
  /\ \A k \in Ours(d) : NextOf(manifest.phases[k]) <= Ahead(d)
  /\ run[d].chain = d =>
       /\ \A x \in manifest.of : run[x].chain = d => x = d
       /\ pause.chain = d => pause.next <= Ahead(d)
       /\ asked.chain = d => asked.next <= Ahead(d)

NothingAhead == \A d \in Drivers : run[d].pc \in InTry => AheadOf(d)

\* From the check of the cap to the phase no time passes.
InTime ==
  \A d \in Drivers :
    /\ run[d].pc \in {"recheck", "bootstrap"} => clock + Estimate <= run[d].began + Cap
    /\ Stands(d, "phase") => run[d].since + Estimate <= run[d].began + Cap

RecordIInv ==
  /\ RecordTypeOK /\ Alone /\ Course /\ RowsFollow /\ SummaryFollows /\ EntriesFollow
  /\ NothingAhead /\ InTime

-----------------------------------------------------------------------------
(* Recounting *)

(* The place of an index of S in S is one of the numbers up to its size.   *)
LEMMA PlaceIsIn ==
  ASSUME NEW S, S \subseteq Nat, IsFiniteSet(S), NEW k \in S
  PROVE  Rank(S, k) \in 1 .. Cardinality(S)
  <1> DEFINE B == {m \in S : m <= k}
  <1>1. IsFiniteSet(B) /\ Cardinality(B) <= Cardinality(S)
    BY FS_Subset
  <1>2. k \in B
    OBVIOUS
  <1>3. Cardinality(B) \in Nat /\ Cardinality(S) \in Nat
    BY <1>1, FS_CardinalityType
  <1>4. Cardinality(B) # 0
    BY <1>1, <1>2, FS_EmptySet
  <1>5. QED
    BY <1>1, <1>3, <1>4 DEF Rank

(* What is added to the past after its first n outcomes does not matter.   *)
LEMMA RecountsOn ==
  ASSUME NEW f, IsFiniteSet(DOMAIN f), DOMAIN f \subseteq Nat, NEW h, NEW h2, NEW n,
         Recounts(f, h, n), \A p \in 1 .. n : h2[p] = h[p]
  PROVE  Recounts(f, h2, n)
  BY PlaceIsIn DEF Recounts

(* One index more, above the others, for the next outcome.                 *)
LEMMA RecountsNext ==
  ASSUME NEW f, IsFiniteSet(DOMAIN f), DOMAIN f \subseteq Nat, NEW h, NEW n, Recounts(f, h, n),
         NEW j \in Nat, \A k \in DOMAIN f : k < j,
         NEW g, DOMAIN g = DOMAIN f \cup {j},
         \A k \in DOMAIN f : g[k] = f[k], g[j] = h[n + 1]
  PROVE  Recounts(g, h, n + 1)
  <1>1. n \in Nat /\ Cardinality(DOMAIN f) = n
    BY FS_CardinalityType DEF Recounts
  <1>2. j \notin DOMAIN f
    OBVIOUS
  <1>3. Cardinality(DOMAIN g) = n + 1
    BY <1>1, <1>2, FS_AddElement
  <1>4. ASSUME NEW k \in DOMAIN g
        PROVE  g[k] = h[Rank(DOMAIN g, k)]
    <2>1. CASE k \in DOMAIN f
      <3>1. {m \in DOMAIN g : m <= k} = {m \in DOMAIN f : m <= k}
        BY <2>1
      <3>2. QED
        BY <2>1, <3>1 DEF Recounts, Rank
    <2>2. CASE k = j
      <3>1. {m \in DOMAIN g : m <= k} = DOMAIN g
        BY <2>2
      <3>2. QED
        BY <1>3, <2>2, <3>1 DEF Rank
    <2>3. QED
      BY <1>4, <2>1, <2>2
  <1>5. QED
    BY <1>3, <1>4 DEF Recounts

-----------------------------------------------------------------------------
(* Types *)

LEMMA EmptyRecord ==
  /\ \A S : <<>> \in Seq(S)
  /\ Driver \in Runs /\ NoSummary \in Summaries /\ NoPause \in Pauses
  <1>1. \A S : <<>> \in Seq(S)
    OBVIOUS
  <1>2. 1 \in Phases /\ LastPhase \in Nat
    BY RecordAssumption DEF Phases
  <1>3. <<>> \in Seq(Outcomes)
    BY <1>1, Zenon
  <1>4. QED
    BY <1>1, <1>2, <1>3 DEF Driver, Runs, NoSummary, Summaries, NoPause, Pauses,
       Pcs, Ends, Reasons

LEMMA AppendIn ==
  ASSUME NEW S, NEW s \in Seq(S), NEW e \in S
  PROVE  /\ Append(s, e) \in Seq(S) /\ Len(Append(s, e)) = Len(s) + 1
         /\ DOMAIN Append(s, e) = DOMAIN s \cup {Len(s) + 1} /\ DOMAIN s = 1 .. Len(s)
         /\ Append(s, e)[Len(s) + 1] = e
         /\ \A k \in DOMAIN s : Append(s, e)[k] = s[k] /\ k \in Nat /\ k <= Len(s)
  BY AppendProperties

LEMMA RecordTypeInit == RecordInit => RecordTypeOK
  BY RecordAssumption, EmptyRecord DEF RecordInit, RecordTypeOK, Manifests

LEMMA PhasesPut ==
  ASSUME manifest \in Manifests, NEW s \in Seq(Entries)
  PROVE  /\ [manifest EXCEPT !.phases = s] \in Manifests
         /\ [manifest EXCEPT !.phases = s].phases = s
         /\ [manifest EXCEPT !.phases = s].chain = manifest.chain
         /\ [manifest EXCEPT !.phases = s].of = manifest.of
  BY DEF Manifests

LEMMA StampedIs ==
  ASSUME RecordTypeOK, NEW d \in Drivers
  PROVE  /\ Stamped(d) \in Seq(Entries) /\ Len(Stamped(d)) = Len(manifest.phases)
         /\ \A i \in 1 .. Len(manifest.phases) :
              Stamped(d)[i] = IF i \in OpenEntry(d)
                              THEN [manifest.phases[i] EXCEPT !.verdict = run[d].verdict]
                              ELSE manifest.phases[i]
  <1> DEFINE s == manifest.phases
             e(i) == IF i \in OpenEntry(d) THEN [s[i] EXCEPT !.verdict = run[d].verdict] ELSE s[i]
  <1>1. s \in Seq(Entries) /\ run[d].verdict \in Ends
    BY DEF RecordTypeOK, Manifests, Runs
  <1>2. Len(s) \in Nat /\ DOMAIN s = 1 .. Len(s) /\ \A i \in 1 .. Len(s) : s[i] \in Entries
    BY <1>1, LenProperties, ElementOfSeq
  <1>3. \A i \in 1 .. Len(s) : e(i) \in Entries
    BY <1>1, <1>2 DEF Entries
  <1>4. Stamped(d) = [i \in 1 .. Len(s) |-> e(i)]
    BY <1>2 DEF Stamped
  <1> HIDE DEF e, s
  <1>5. Stamped(d) \in [1 .. Len(s) -> Entries]
    BY <1>3, <1>4
  <1>6. Stamped(d) \in Seq(Entries)
    BY <1>2, <1>5, SeqDef
  <1>7. Len(Stamped(d)) = Len(s)
    BY <1>2, <1>5, <1>6, LenProperties
  <1>8. QED
    BY <1>4, <1>6, <1>7 DEF e, s

LEMMA RowIsTyped ==
  ASSUME RecordTypeOK, NEW d \in Drivers, NEW kind \in Kinds, NEW v \in Reasons,
         NEW to \in {"wip", "deferred", "blocked", "done", "cancelled"}
  PROVE  RowBy(d, kind, v, to) \in RowSet
  BY DEF RecordTypeOK, RowBy, RowSet, Runs

LEMMA VerdictsAreNames ==
  ASSUME NEW p, NEW v \in Verdicts(p)
  PROVE  v \in Ends /\ v # "open" /\ v # "phase_success" /\ v \notin CapRows
  BY DEF Verdicts, CapRows, Ends

LEMMA StatusIsName ==
  ASSUME NEW v
  PROVE  StatusOf(v) \in {"wip", "deferred", "blocked"} /\ StatusOf(v) # "done"
  BY DEF StatusOf

-----------------------------------------------------------------------------
(* What a step does to the run of its driver; the others stay as they are. *)

Stay(d) == run' \in [Drivers -> Runs] /\ \A x \in Drivers \ {d} : run'[x] = run[x]
KeepsStart(d) == run'[d].chain = run[d].chain /\ run'[d].began = run[d].began
KeepsPast(d) == run'[d].results = run[d].results /\ run'[d].happened = run[d].happened
KeepsPhase(d) == run'[d].phase = run[d].phase /\ run'[d].verdict = run[d].verdict

LEMMA Words ==
  /\ InTry \subseteq Pcs /\ {"unborn", "flush", "release", "gone"} \subseteq Pcs
  /\ Ends \subseteq Reasons /\ CapRows \subseteq Reasons
  /\ {"sealed_path_refused", "concurrent_chain_foreign", "operator_killed", "phase_success",
      "none", "passed", "wall_clock_exceeded", "concurrent_chain_refused"} \subseteq Reasons
  /\ {"stamp", "register", "start", "probe", "precheck", "recheck", "bootstrap", "phase", "exit",
      "boundary", "complete"} = InTry
  BY DEF InTry, Pcs, Ends, Reasons, CapRows

LEMMA RunPut ==
  ASSUME run \in [Drivers -> Runs], NEW d \in Drivers, NEW r \in Runs,
         run' = [run EXCEPT ![d] = r]
  PROVE  Stay(d) /\ run'[d] = r
  BY DEF Stay

LEMMA GoToRun ==
  ASSUME run \in [Drivers -> Runs], NEW d \in Drivers, NEW w \in Pcs, GoTo(d, w)
  PROVE  /\ Stay(d) /\ KeepsStart(d) /\ KeepsPast(d) /\ KeepsPhase(d)
         /\ run'[d].pc = w /\ run'[d].halt = run[d].halt /\ run'[d].since = run[d].since
         /\ run'[d].clean = run[d].clean
  <1> DEFINE r == [run[d] EXCEPT !.pc = w]
  <1>1. r \in Runs
    BY DEF Runs
  <1>2. Stay(d) /\ run'[d] = r
    BY <1>1, RunPut DEF GoTo
  <1>3. QED
    BY <1>2 DEF Runs, KeepsStart, KeepsPast, KeepsPhase

LEMMA HaltsWithRun ==
  ASSUME run \in [Drivers -> Runs], NEW d \in Drivers, NEW w \in Reasons, HaltsWith(d, w)
  PROVE  /\ Stay(d) /\ KeepsStart(d) /\ KeepsPast(d) /\ KeepsPhase(d)
         /\ run'[d].pc = "flush" /\ run'[d].halt = w /\ run'[d].since = run[d].since
         /\ run'[d].clean = run[d].clean
  <1> DEFINE r == [run[d] EXCEPT !.pc = "flush", !.halt = w]
  <1>1. r \in Runs
    BY Words DEF Runs
  <1>2. Stay(d) /\ run'[d] = r
    BY <1>1, RunPut DEF HaltsWith
  <1>3. QED
    BY <1>2 DEF Runs, KeepsStart, KeepsPast, KeepsPhase

LEMMA LaunchRun ==
  ASSUME RecordTypeOK, NEW d \in Drivers, NEW c \in Drivers, NEW first \in Phases,
         Launch(d, c, first)
  PROVE  /\ Stay(d) /\ run'[d].pc \in {"stamp", "gone"} /\ run'[d].chain = c
         /\ run'[d].phase = first /\ run'[d].results = <<>> /\ run'[d].happened = <<>>
         /\ run'[d].verdict = "none" /\ run'[d].halt = "phase_success" /\ run'[d].clean = TRUE
         /\ run[d].pc = "unborn"
         /\ \/ run'[d].pc = "stamp" /\ lock = None /\ lock' = d /\ rows' = rows
            \/ run'[d].pc = "gone" /\ lock' = lock
               /\ Emit(RowBy(d, "refused", "concurrent_chain_refused", "blocked"))
  <1> DEFINE r(w) == [[Driver EXCEPT !.chain = c, !.phase = first, !.began = clock] EXCEPT !.pc = w]
  <1>1. clock \in Nat
    BY RecordAssumption DEF RecordTypeOK
  <1>2. ASSUME NEW w \in Pcs
        PROVE  /\ r(w) \in Runs /\ r(w).pc = w /\ r(w).chain = c
               /\ r(w).phase = first /\ r(w).results = <<>> /\ r(w).happened = <<>>
               /\ r(w).verdict = "none" /\ r(w).halt = "phase_success" /\ r(w).clean = TRUE
    BY <1>1, EmptyRecord DEF Driver, Runs
  <1>3. "stamp" \in Pcs /\ "gone" \in Pcs
    BY Words
  <1>4. PICK w \in {"stamp", "gone"} : run' = [run EXCEPT ![d] = r(w)]
    BY DEF Launch
  <1>5. Stay(d) /\ run'[d] = r(w)
    BY <1>2, <1>3, <1>4, RunPut DEF RecordTypeOK
  <1>6. run[d].pc = "unborn"
    BY DEF Launch, Stands
  <1>7. \/ run'[d] = r("stamp") /\ lock = None /\ lock' = d /\ rows' = rows
        \/ run'[d] = r("gone") /\ lock' = lock
           /\ Emit(RowBy(d, "refused", "concurrent_chain_refused", "blocked"))
    BY DEF Launch, RecordTypeOK
  <1>8. QED
    BY <1>2, <1>3, <1>5, <1>6, <1>7
LEMMA AppendBootstrapRun ==
  ASSUME RecordTypeOK, NEW d \in Drivers, AppendBootstrap(d)
  PROVE  /\ Stay(d) /\ KeepsStart(d) /\ KeepsPast(d) /\ KeepsPhase(d)
         /\ run[d].pc = "bootstrap" /\ run'[d].pc = "phase" /\ run'[d].halt = run[d].halt
         /\ run'[d].since = clock
         /\ \/ /\ run'[d].clean = run[d].clean
               /\ manifest' = [manifest EXCEPT !.phases = Append(@,
                                  [phase |-> run[d].phase, by |-> d, verdict |-> "open"])]
            \/ run'[d].clean = FALSE /\ manifest' = manifest
  <1> DEFINE r(ok) == [run[d] EXCEPT !.pc = "phase", !.since = clock, !.clean = @ /\ ok]
  <1>1. clock \in Nat /\ "phase" \in Pcs /\ run[d] \in Runs
    BY RecordAssumption, Words DEF RecordTypeOK
  <1>2. ASSUME NEW ok \in BOOLEAN
        PROVE  /\ r(ok) \in Runs /\ r(ok).pc = "phase" /\ r(ok).since = clock
               /\ r(ok).clean = (run[d].clean /\ ok)
               /\ r(ok).chain = run[d].chain /\ r(ok).began = run[d].began
               /\ r(ok).phase = run[d].phase /\ r(ok).verdict = run[d].verdict
               /\ r(ok).results = run[d].results /\ r(ok).happened = run[d].happened
               /\ r(ok).halt = run[d].halt
    BY <1>1 DEF Runs
  <1>3. \/ /\ run' = [run EXCEPT ![d] = r(TRUE)]
           /\ manifest' = [manifest EXCEPT !.phases = Append(@,
                              [phase |-> run[d].phase, by |-> d, verdict |-> "open"])]
        \/ run' = [run EXCEPT ![d] = r(FALSE)] /\ manifest' = manifest
    BY DEF AppendBootstrap
  <1>4. \A ok \in BOOLEAN : run' = [run EXCEPT ![d] = r(ok)] => Stay(d) /\ run'[d] = r(ok)
    BY <1>2, RunPut DEF RecordTypeOK
  <1>5. run[d].pc = "bootstrap" /\ run[d].clean \in BOOLEAN
    BY <1>1 DEF AppendBootstrap, Stands, Runs
  <1> HIDE DEF r
  <1>6. QED
    BY <1>2, <1>3, <1>4, <1>5 DEF KeepsStart, KeepsPast, KeepsPhase

LEMMA PhaseEndsRun ==
  ASSUME RecordTypeOK, NEW d \in Drivers, NEW v \in Verdicts(run[d].phase), PhaseEnds(d, v)
  PROVE  /\ Stay(d) /\ KeepsStart(d) /\ run'[d].phase = run[d].phase
         /\ run[d].pc = "phase" /\ run'[d].pc = "exit" /\ run'[d].halt = run[d].halt
         /\ run'[d].since = run[d].since /\ run'[d].clean = run[d].clean
         /\ run'[d].verdict = v /\ run'[d].results = run[d].results
         /\ [phase |-> run[d].phase, verdict |-> v] \in Outcomes
         /\ run'[d].happened = Append(run[d].happened, [phase |-> run[d].phase, verdict |-> v])
  <1> DEFINE e == [phase |-> run[d].phase, verdict |-> v]
             r == [run[d] EXCEPT !.pc = "exit", !.verdict = v, !.happened = Append(@, e)]
  <1>1. "exit" \in Pcs /\ run[d] \in Runs /\ v \in Ends
    BY VerdictsAreNames, Words DEF RecordTypeOK
  <1>2. e \in Outcomes /\ Append(run[d].happened, e) \in Seq(Outcomes)
    BY <1>1, AppendIn DEF Runs, Outcomes
  <1>3. /\ r \in Runs /\ r.pc = "exit" /\ r.since = run[d].since /\ r.clean = run[d].clean
        /\ r.chain = run[d].chain /\ r.began = run[d].began /\ r.phase = run[d].phase
        /\ r.verdict = v /\ r.results = run[d].results /\ r.halt = run[d].halt
        /\ r.happened = Append(run[d].happened, e)
    BY <1>1, <1>2 DEF Runs
  <1>4. Stay(d) /\ run'[d] = r
    <2>1. run \in [Drivers -> Runs]
      BY DEF RecordTypeOK
    <2>2. run' = [run EXCEPT ![d] = r]
      BY <2>1 DEF PhaseEnds
    <2>3. QED
      BY <1>3, <2>1, <2>2, RunPut
  <1>5. run[d].pc = "phase"
    BY DEF PhaseEnds, Stands
  <1> HIDE DEF r
  <1>6. QED
    BY <1>2, <1>3, <1>4, <1>5 DEF KeepsStart

LEMMA StampExitRun ==
  ASSUME RecordTypeOK, NEW d \in Drivers, StampExit(d)
  PROVE  /\ Stay(d) /\ KeepsStart(d) /\ KeepsPhase(d) /\ run'[d].happened = run[d].happened
         /\ run[d].pc = "exit" /\ run'[d].pc = "boundary" /\ run'[d].halt = run[d].halt
         /\ run'[d].since = run[d].since
         /\ [phase |-> run[d].phase, verdict |-> run[d].verdict] \in Outcomes
         /\ run'[d].results =
              Append(run[d].results, [phase |-> run[d].phase, verdict |-> run[d].verdict])
         /\ \/ /\ run'[d].clean = run[d].clean
               /\ manifest' = [manifest EXCEPT !.phases = Stamped(d)]
            \/ run'[d].clean = FALSE /\ manifest' = manifest
  <1> DEFINE e == [phase |-> run[d].phase, verdict |-> run[d].verdict]
             r(ok) == [run[d] EXCEPT !.pc = "boundary", !.clean = @ /\ ok, !.results = Append(@, e)]
  <1>1. "boundary" \in Pcs /\ run[d] \in Runs
    BY Words DEF RecordTypeOK
  <1>2. e \in Outcomes /\ Append(run[d].results, e) \in Seq(Outcomes)
    BY <1>1, AppendIn DEF Runs, Outcomes
  <1>3. ASSUME NEW ok \in BOOLEAN
        PROVE  /\ r(ok) \in Runs /\ r(ok).pc = "boundary" /\ r(ok).since = run[d].since
               /\ r(ok).clean = (run[d].clean /\ ok)
               /\ r(ok).chain = run[d].chain /\ r(ok).began = run[d].began
               /\ r(ok).phase = run[d].phase /\ r(ok).verdict = run[d].verdict
               /\ r(ok).results = Append(run[d].results, e) /\ r(ok).happened = run[d].happened
               /\ r(ok).halt = run[d].halt
    BY <1>1, <1>2 DEF Runs
  <1>4. \/ /\ run' = [run EXCEPT ![d] = r(TRUE)]
           /\ manifest' = [manifest EXCEPT !.phases = Stamped(d)]
        \/ run' = [run EXCEPT ![d] = r(FALSE)] /\ manifest' = manifest
    BY DEF StampExit
  <1>5. \A ok \in BOOLEAN : run' = [run EXCEPT ![d] = r(ok)] => Stay(d) /\ run'[d] = r(ok)
    BY <1>3, RunPut DEF RecordTypeOK
  <1>6. run[d].pc = "exit" /\ run[d].clean \in BOOLEAN
    BY <1>1 DEF StampExit, Stands, Runs
  <1> HIDE DEF r
  <1>7. QED
    BY <1>2, <1>3, <1>4, <1>5, <1>6 DEF KeepsStart, KeepsPhase

LEMMA BoundaryPassesRun ==
  ASSUME RecordTypeOK, NEW d \in Drivers, BoundaryPasses(d)
  PROVE  /\ Stay(d) /\ KeepsStart(d) /\ KeepsPast(d)
         /\ run[d].pc = "boundary" /\ run'[d].halt = run[d].halt
         /\ run'[d].since = run[d].since /\ run'[d].clean = run[d].clean
         /\ \/ run'[d].pc = "probe" /\ run'[d].phase = run[d].phase + 1
            \/ run'[d].pc = "complete" /\ run'[d].phase = run[d].phase /\ run[d].phase = LastPhase
  <1>1. "probe" \in Pcs /\ "complete" \in Pcs /\ run[d] \in Runs /\ LastPhase \in Nat
    BY Words, RecordAssumption DEF RecordTypeOK
  <1>2. run[d].pc = "boundary" /\ run[d].phase \in Phases
    BY <1>1 DEF BoundaryPasses, Stands, Runs
  <1>3. CASE run[d].phase < LastPhase
    <2> DEFINE r == [run[d] EXCEPT !.pc = "probe", !.phase = @ + 1]
    <2>0. run[d].phase + 1 \in Phases
      BY <1>1, <1>2, <1>3 DEF Phases
    <2>1. r \in Runs
      BY <1>1, <2>0 DEF Runs
    <2>2. Stay(d) /\ run'[d] = r
      BY <1>3, <2>1, RunPut DEF BoundaryPasses, RecordTypeOK
    <2>3. QED
      BY <1>1, <1>2, <2>2 DEF Runs, KeepsStart, KeepsPast
  <1>4. CASE ~(run[d].phase < LastPhase)
    <2>1. GoTo(d, "complete") /\ run[d].phase = LastPhase
      BY <1>1, <1>2, <1>4 DEF BoundaryPasses, Phases
    <2>2. QED
      BY <1>1, <1>2, <2>1, GoToRun DEF RecordTypeOK, KeepsPhase
  <1>5. QED
    BY <1>3, <1>4

(* An exception, a signal or a lost summary spoils the run.                *)
Spoils(d, w) == /\ Stay(d) /\ KeepsStart(d) /\ KeepsPast(d) /\ KeepsPhase(d)
                /\ run'[d].pc = w /\ run'[d].since = run[d].since /\ run'[d].clean = FALSE

LEMMA SpoiledRun ==
  ASSUME RecordTypeOK, NEW d \in Drivers
  PROVE  /\ Raise(d) => Spoils(d, "flush") /\ run'[d].halt = run[d].halt /\ run[d].pc \in InTry
         /\ Sigterm(d) => Spoils(d, "flush") /\ run[d].pc \in InTry
         /\ Kill9(d) => Spoils(d, "gone") /\ run'[d].halt = run[d].halt /\ Alive(d)
         /\ EmitSummary(d) =>
              /\ run[d].pc = "flush" /\ run'[d].halt = run[d].halt
              /\ \/ Spoils(d, "release") /\ summary' = summary
                 \/ /\ GoTo(d, "release")
                    /\ summary' = [summary EXCEPT ![run[d].chain] =
                                     [by |-> d, halt |-> run[d].halt, results |-> run[d].results]]
  <1>1. /\ run[d] \in Runs /\ "operator_killed" \in Reasons
        /\ "flush" \in Pcs /\ "gone" \in Pcs /\ "release" \in Pcs
    BY Words DEF RecordTypeOK
  <1>2. ASSUME NEW w \in Pcs, NEW h \in Reasons,
               run' = [run EXCEPT ![d] = [run[d] EXCEPT !.pc = w, !.halt = h, !.clean = FALSE]]
        PROVE  Spoils(d, w) /\ run'[d].halt = h
    <2> DEFINE r == [run[d] EXCEPT !.pc = w, !.halt = h, !.clean = FALSE]
    <2>1. /\ r \in Runs /\ r.pc = w /\ r.since = run[d].since /\ r.clean = FALSE
          /\ r.chain = run[d].chain /\ r.began = run[d].began /\ r.phase = run[d].phase
          /\ r.verdict = run[d].verdict /\ r.results = run[d].results
          /\ r.happened = run[d].happened /\ r.halt = h
      BY <1>1 DEF Runs
    <2>2. Stay(d) /\ run'[d] = r
      BY <1>2, <2>1, RunPut DEF RecordTypeOK
    <2> HIDE DEF r
    <2>3. QED
      BY <2>1, <2>2 DEF Spoils, KeepsStart, KeepsPast, KeepsPhase
  <1>3. ASSUME NEW w \in Pcs, run' = [run EXCEPT ![d] = [run[d] EXCEPT !.pc = w, !.clean = FALSE]]
        PROVE  Spoils(d, w) /\ run'[d].halt = run[d].halt
    <2>1. /\ [run[d] EXCEPT !.pc = w, !.clean = FALSE]
               = [run[d] EXCEPT !.pc = w, !.halt = run[d].halt, !.clean = FALSE]
          /\ run[d].halt \in Reasons
      BY <1>1 DEF Runs
    <2>2. QED
      BY <1>2, <1>3, <2>1
  <1>4. Raise(d) => Spoils(d, "flush") /\ run'[d].halt = run[d].halt /\ run[d].pc \in InTry
    BY <1>1, <1>3 DEF Raise, InTry
  <1>5. Sigterm(d) => Spoils(d, "flush") /\ run[d].pc \in InTry
    <2>1. ASSUME Sigterm(d)
          PROVE  run' = [run EXCEPT ![d] = [run[d] EXCEPT !.pc = "flush", !.halt = "operator_killed",
                                                          !.clean = FALSE]]
      BY <2>1 DEF Sigterm, RecordTypeOK
    <2>2. QED
      BY <1>1, <1>2, <2>1 DEF Sigterm
  <1>6. Kill9(d) => Spoils(d, "gone") /\ run'[d].halt = run[d].halt /\ Alive(d)
    BY <1>1, <1>3 DEF Kill9
  <1>7. ASSUME EmitSummary(d)
        PROVE  /\ run[d].pc = "flush" /\ run'[d].halt = run[d].halt
               /\ \/ Spoils(d, "release") /\ summary' = summary
                  \/ /\ GoTo(d, "release")
                     /\ summary' = [summary EXCEPT ![run[d].chain] =
                                      [by |-> d, halt |-> run[d].halt, results |-> run[d].results]]
    <2>1. run[d].pc = "flush"
      BY <1>7 DEF EmitSummary, Stands
    <2>2. CASE GoTo(d, "release")
      BY <1>1, <1>3, <1>7, <2>1, <2>2, GoToRun DEF EmitSummary, RecordTypeOK
    <2>3. CASE ~GoTo(d, "release")
      BY <1>1, <1>3, <1>7, <2>1, <2>3 DEF EmitSummary
    <2>4. QED
      BY <2>2, <2>3
  <1>8. QED
    BY <1>4, <1>5, <1>6, <1>7

-----------------------------------------------------------------------------
(* Type correctness *)

LEMMA RecordTypeStep == RecordTypeOK /\ [RecordNext]_recordVars => RecordTypeOK'
  <1> SUFFICES ASSUME RecordTypeOK, [RecordNext]_recordVars PROVE RecordTypeOK'
    OBVIOUS
  <1>0. LastPhase \in Nat /\ MaxClock \in Nat /\ MaxFaults \in Nat /\ MaxKills \in Nat
    BY RecordAssumption
  <1>t. /\ lock \in Drivers \cup {None} /\ manifest \in Manifests /\ rows \in Seq(RowSet)
        /\ summary \in [Drivers -> Summaries] /\ pause \in Pauses /\ asked \in Pauses
        /\ run \in [Drivers -> Runs]
        /\ clock \in 0 .. MaxClock /\ faults \in 0 .. MaxFaults /\ kills \in 0 .. MaxKills
    BY DEF RecordTypeOK
  <1>f. /\ Fault => UNCHANGED <<clock, kills>> /\ faults' \in 0 .. MaxFaults
        /\ Killed => UNCHANGED <<clock, faults>> /\ kills' \in 0 .. MaxKills
    BY <1>0, <1>t DEF Fault, Killed
  <1>1. CASE UNCHANGED recordVars
    BY <1>1 DEF recordVars, records, world, RecordTypeOK
  <1>2. ASSUME NEW d \in Drivers, DriverStep(d)
        PROVE  RecordTypeOK'
    <2> USE DEF records, world
    <2>r. run[d] \in Runs
      BY <1>t
    <2>1. ASSUME NEW c \in Drivers, NEW first \in Phases, Launch(d, c, first)
          PROVE  RecordTypeOK'
      <3>1. run' \in [Drivers -> Runs]
        BY <2>1, LaunchRun DEF Stay
      <3>0. RowBy(d, "refused", "concurrent_chain_refused", "blocked") \in RowSet
        BY RowIsTyped, Words DEF Kinds
      <3>2. rows' \in Seq(RowSet) /\ lock' \in Drivers \cup {None}
        <4>1. CASE lock' = d /\ rows' = rows
          BY <4>1, <1>t
        <4>2. CASE lock' = lock /\ Emit(RowBy(d, "refused", "concurrent_chain_refused", "blocked"))
          BY <4>2, <3>0, <1>t, AppendIn DEF Emit
        <4>3. QED
          BY <2>1, <4>1, <4>2, LaunchRun
      <3>3. UNCHANGED <<manifest, summary, pause, asked, clock, faults, kills>>
        BY <2>1 DEF Launch
      <3>4. QED
        BY <3>1, <3>2, <3>3, <1>t DEF RecordTypeOK
    <2>2. CASE StampChainStart(d)
      <3>1. manifest' \in Manifests
        BY <2>2, <1>t, EmptyRecord, <2>r DEF StampChainStart, Manifests, Runs
      <3>2. run' \in [Drivers -> Runs]
        BY <2>2, <1>t, GoToRun, Words DEF StampChainStart, Stay
      <3>3. UNCHANGED <<lock, rows, summary, pause, asked, clock, faults, kills>>
        BY <2>2 DEF StampChainStart
      <3>4. QED
        BY <3>1, <3>2, <3>3, <1>t DEF RecordTypeOK
    <2>3. ASSUME NEW kind \in Kinds, NEW v \in Reasons, NEW to \in {"wip", "deferred", "blocked", "done"},
                 NEW w \in Pcs, NEW h \in Reasons,
                 GoTo(d, w) \/ HaltsWith(d, h), rows' = rows \/ Emit(RowBy(d, kind, v, to)),
                 UNCHANGED world \/ Fault,
                 UNCHANGED <<lock, manifest, summary, pause, asked>>
          PROVE  RecordTypeOK'
      <3>1. run' \in [Drivers -> Runs]
        BY <2>3, <1>t, GoToRun, HaltsWithRun DEF Stay
      <3>2. rows' \in Seq(RowSet)
        BY <2>3, <1>t, RowIsTyped, AppendIn DEF Emit
      <3>3. clock' \in 0 .. MaxClock /\ faults' \in 0 .. MaxFaults /\ kills' \in 0 .. MaxKills
        BY <2>3, <1>t, <1>f
      <3>4. QED
        BY <2>3, <3>1, <3>2, <3>3, <1>t DEF RecordTypeOK
    <2>4. ASSUME AutoRegister(d) \/ EmitChainStart(d) \/ Probe(d) \/ PrecheckCaps(d) \/ Recheck(d)
                 \/ BoundaryHalts(d) \/ BoundaryRefused(d) \/ EmitChainComplete(d)
          PROVE  RecordTypeOK'
      <3>1. CASE AutoRegister(d)
        BY <3>1, <2>3, Words DEF AutoRegister, Kinds
      <3>2. CASE EmitChainStart(d)
        BY <3>2, <2>3, Words DEF EmitChainStart, Kinds
      <3>3. CASE Probe(d)
        BY <3>3, <2>3, Words DEF Probe, Kinds
      <3>4. CASE PrecheckCaps(d)
        BY <3>4, <2>3, Words DEF PrecheckCaps, EmitBoundary, StatusOf, Kinds
      <3>5. CASE Recheck(d)
        BY <3>5, <2>3, Words DEF Recheck, EmitBoundary, StatusOf, Kinds
      <3>6. CASE BoundaryHalts(d)
        BY <3>6, <2>3, <2>r, StatusIsName, Words DEF BoundaryHalts, EmitBoundary, Kinds, Runs
      <3>7. CASE BoundaryRefused(d)
        BY <3>7, <2>3, Words DEF BoundaryRefused, Kinds
      <3>8. CASE EmitChainComplete(d)
        BY <3>8, <2>3, Words DEF EmitChainComplete, Kinds
      <3>9. QED
        BY <2>4, <3>1, <3>2, <3>3, <3>4, <3>5, <3>6, <3>7, <3>8
    <2>5. CASE AppendBootstrap(d)
      <3>1. run' \in [Drivers -> Runs]
        BY <2>5, AppendBootstrapRun DEF Stay
      <3>2. [phase |-> run[d].phase, by |-> d, verdict |-> "open"] \in Entries
        BY <2>r DEF Runs, Entries
      <3>3. manifest' \in Manifests
        <4>1. Append(manifest.phases, [phase |-> run[d].phase, by |-> d, verdict |-> "open"])
                \in Seq(Entries)
          BY <3>2, <1>t, AppendIn DEF Manifests
        <4>2. QED
          BY <2>5, <4>1, <1>t, AppendBootstrapRun, PhasesPut
      <3>4. UNCHANGED <<lock, rows, summary, pause, asked>> /\ (UNCHANGED world \/ Fault)
        BY <2>5 DEF AppendBootstrap
      <3>5. QED
        BY <3>1, <3>3, <3>4, <1>t, <1>f DEF RecordTypeOK
    <2>6. ASSUME NEW v \in Verdicts(run[d].phase), PhaseEnds(d, v)
          PROVE  RecordTypeOK'
      <3>1. run' \in [Drivers -> Runs]
        BY <2>6, PhaseEndsRun DEF Stay
      <3>2. QED
        BY <2>6, <3>1, <1>t DEF PhaseEnds, RecordTypeOK
    <2>7. CASE StampExit(d)
      <3>1. run' \in [Drivers -> Runs]
        BY <2>7, StampExitRun DEF Stay
      <3>2. manifest' \in Manifests
        <4>1. Stamped(d) \in Seq(Entries)
          BY StampedIs
        <4>2. manifest' = [manifest EXCEPT !.phases = Stamped(d)] \/ manifest' = manifest
          BY <2>7, StampExitRun
        <4>3. QED
          BY <4>1, <4>2, <1>t, PhasesPut
      <3>4. UNCHANGED <<lock, rows, summary, pause, asked>> /\ (UNCHANGED world \/ Fault)
        BY <2>7 DEF StampExit
      <3>5. QED
        BY <3>1, <3>2, <3>4, <1>t, <1>f DEF RecordTypeOK
    <2>8. CASE BoundaryPasses(d)
      <3>1. run' \in [Drivers -> Runs]
        BY <2>8, BoundaryPassesRun DEF Stay
      <3>2. rows' \in Seq(RowSet)
        BY <2>8, <1>t, StatusIsName, RowIsTyped, AppendIn, Words
           DEF BoundaryPasses, EmitBoundary, Emit, Kinds
      <3>3. QED
        BY <2>8, <3>1, <3>2, <1>t DEF BoundaryPasses, RecordTypeOK
    <2>9. CASE Raise(d) \/ Sigterm(d) \/ Kill9(d)
      <3>1. run' \in [Drivers -> Runs]
        BY <2>9, SpoiledRun DEF Spoils, Stay
      <3>2. QED
        BY <2>9, <3>1, <1>t, <1>f DEF Raise, Sigterm, Kill9, RecordTypeOK
    <2>10. CASE EmitSummary(d)
      <3>1. run' \in [Drivers -> Runs]
        BY <2>10, <1>t, SpoiledRun, GoToRun, Words DEF Spoils, Stay
      <3>2. [by |-> d, halt |-> run[d].halt, results |-> run[d].results] \in Summaries
        BY <2>r DEF Runs, Summaries
      <3>3. summary' \in [Drivers -> Summaries]
        BY <2>10, <3>2, <1>t, SpoiledRun
      <3>4. UNCHANGED <<lock, manifest, rows, pause, asked>> /\ (UNCHANGED world \/ Fault)
        BY <2>10 DEF EmitSummary
      <3>5. QED
        BY <3>1, <3>3, <3>4, <1>t, <1>f DEF RecordTypeOK
    <2>11. CASE ReleaseBoth(d)
      <3>1. run' \in [Drivers -> Runs]
        BY <2>11, <1>t, GoToRun, Words DEF ReleaseBoth, Stay
      <3>2. RowBy(d, "stale_cleared", "none", "wip") \in RowSet
        BY RowIsTyped, Words DEF Kinds
      <3>3. rows' \in Seq(RowSet) /\ pause' \in Pauses
        BY <2>11, <3>2, <1>t, EmptyRecord DEF ReleaseBoth, ClearPause
      <3>4. QED
        BY <2>11, <3>1, <3>3, <1>t DEF ReleaseBoth, RecordTypeOK
    <2>12. QED
      BY <1>2, <2>1, <2>2, <2>4, <2>5, <2>6, <2>7, <2>8, <2>9, <2>10, <2>11 DEF DriverStep
  <1>3. CASE ReleaseLock
    <2>1. lock \in Drivers
      BY <1>3, <1>t DEF ReleaseLock
    <2>2. /\ RowBy(lock, "stale_cleared", "none", "wip") \in RowSet
          /\ RowBy(lock, "released", "none", "cancelled") \in RowSet
      BY <2>1, RowIsTyped, Words DEF Kinds
    <2>3. rows' \in Seq(RowSet) /\ pause' \in Pauses
      BY <1>3, <2>2, <1>t, EmptyRecord DEF ReleaseLock, ClearPause
    <2>4. QED
      BY <1>3, <2>3, <1>t DEF ReleaseLock, RecordTypeOK, world
  <1>4. CASE AskPause
    <2>0. manifest.phases \in Seq(Entries)
      BY <1>t DEF Manifests
    <2>1. NextPhaseToEnter \in 0 .. LastPhase + 1
      <3>1. CASE manifest.phases = <<>>
        BY <1>0, <3>1 DEF NextPhaseToEnter
      <3>2. CASE manifest.phases # <<>>
        <4>1. Last(manifest.phases) \in Entries
          BY <2>0, <3>2 DEF Last
        <4>2. Last(manifest.phases).phase \in 1 .. LastPhase
          BY <4>1 DEF Entries, Phases
        <4>3. QED
          BY <1>0, <3>2, <4>2 DEF NextPhaseToEnter
      <3>3. QED
        BY <3>1, <3>2
    <2>2. asked' \in Pauses
      BY <1>4, <2>1, <1>t DEF AskPause, Pauses, Manifests
    <2>3. QED
      BY <1>4, <2>2, <1>t DEF AskPause, RecordTypeOK, records
  <1>5. CASE CreatePause \/ RemovePause
    BY <1>5, <1>t, EmptyRecord DEF CreatePause, RemovePause, RecordTypeOK, records, world
  <1>6. CASE Tick
    BY <1>6, <1>0, <1>t DEF Tick, RecordTypeOK, records
  <1>7. QED
    BY <1>1, <1>2, <1>3, <1>4, <1>5, <1>6 DEF RecordNext

-----------------------------------------------------------------------------
(* What any step of a driver that was launched may do *)

Closing(d) == run'[d].pc \in {"release", "gone"} /\ KeepsPast(d) /\ run'[d].halt = run[d].halt

Works(d) ==
  /\ Stay(d) /\ KeepsStart(d)
  /\ Alive(d) /\ run'[d].pc # "unborn" /\ (run'[d].clean => run[d].clean)
  /\ lock' = lock \/ (run'[d].pc = "gone" /\ lock' = None)
  /\ manifest'.of \subseteq manifest.of \cup {d}
  /\ manifest'.chain \in {manifest.chain, run[d].chain}
  /\ pause' \in {pause, NoPause} /\ asked' = asked
  /\ Len(run[d].happened) <= Len(run'[d].happened)
  /\ \A k \in DOMAIN run[d].happened : run'[d].happened[k] = run[d].happened[k]
  /\ run[d].pc \in {"flush", "release"} => Closing(d)

LEMMA StepWorks ==
  ASSUME RecordTypeOK, NEW d \in Drivers, DriverStep(d)
  PROVE  Works(d) \/ \E c \in Drivers, first \in Phases : Launch(d, c, first)
  <1> SUFFICES ASSUME ~ \E c \in Drivers, first \in Phases : Launch(d, c, first)
               PROVE  Works(d)
    OBVIOUS
  <1> USE DEF records
  <1>t. run \in [Drivers -> Runs] /\ run[d] \in Runs /\ manifest \in Manifests
    BY DEF RecordTypeOK
  <1>h. run[d].happened \in Seq(Outcomes) /\ Len(run[d].happened) \in Nat
    BY <1>t DEF Runs
  <1>1. ASSUME Stay(d), KeepsStart(d), Alive(d), run'[d].pc # "unborn",
               run'[d].clean = run[d].clean \/ run'[d].clean = FALSE,
               lock' = lock \/ (run'[d].pc = "gone" /\ lock' = None),
               manifest' = manifest, pause' \in {pause, NoPause}, asked' = asked,
               run'[d].happened = run[d].happened,
               run[d].pc \in {"flush", "release"} => Closing(d)
        PROVE  Works(d)
    BY <1>1, <1>h DEF Works
  <1>2. CASE StampChainStart(d)
    <2>1. /\ GoTo(d, "register") /\ run[d].pc = "stamp"
          /\ lock' = lock /\ pause' = pause /\ asked' = asked
      BY <1>2 DEF StampChainStart, Stands
    <2>2. manifest'.of \subseteq manifest.of \cup {d} /\ manifest'.chain \in {manifest.chain, run[d].chain}
      BY <1>2, <1>t DEF StampChainStart, Manifests
    <2>3. QED
      BY <2>1, <2>2, <1>t, <1>h, GoToRun, Words DEF Works, Alive, KeepsPast
  <1>3. CASE AutoRegister(d) \/ EmitChainStart(d) \/ Probe(d) \/ PrecheckCaps(d) \/ Recheck(d)
             \/ BoundaryHalts(d) \/ BoundaryRefused(d) \/ EmitChainComplete(d)
    <2>1. /\ \/ \E w \in {"start", "probe", "precheck", "recheck", "bootstrap"} : GoTo(d, w)
             \/ \E h \in Reasons : HaltsWith(d, h)
          /\ run[d].pc \in {"register", "start", "probe", "precheck", "recheck", "boundary", "complete"}
          /\ UNCHANGED <<lock, manifest, pause, asked>>
      BY <1>3, <1>t, Words DEF AutoRegister, EmitChainStart, Probe, PrecheckCaps, Recheck, BoundaryHalts,
         BoundaryRefused, EmitChainComplete, Stands, Runs
    <2>2. Alive(d)
      BY <2>1 DEF Alive
    <2>3. CASE \E w \in {"start", "probe", "precheck", "recheck", "bootstrap"} : GoTo(d, w)
      BY <2>1, <2>2, <2>3, <1>1, <1>t, GoToRun, Words DEF KeepsPast
    <2>4. CASE \E h \in Reasons : HaltsWith(d, h)
      BY <2>1, <2>2, <2>4, <1>1, <1>t, HaltsWithRun DEF KeepsPast
    <2>5. QED
      BY <2>1, <2>3, <2>4
  <1>4. CASE AppendBootstrap(d)
    <2>1. manifest'.of = manifest.of /\ manifest'.chain = manifest.chain
      BY <1>4, <1>t, AppendBootstrapRun DEF Manifests
    <2>2. UNCHANGED <<lock, pause, asked>>
      BY <1>4 DEF AppendBootstrap
    <2>3. /\ Stay(d) /\ KeepsStart(d) /\ run[d].pc = "bootstrap" /\ run'[d].pc = "phase"
          /\ (run'[d].clean => run[d].clean) /\ run'[d].happened = run[d].happened
      BY <1>4, AppendBootstrapRun DEF KeepsPast
    <2>4. QED
      BY <2>1, <2>2, <2>3, <1>h DEF Works, Alive
  <1>5. ASSUME NEW v \in Verdicts(run[d].phase), PhaseEnds(d, v)
        PROVE  Works(d)
    <2>1. UNCHANGED <<lock, manifest, pause, asked>>
      BY <1>5 DEF PhaseEnds
    <2>2. /\ Stay(d) /\ KeepsStart(d) /\ run[d].pc = "phase" /\ run'[d].pc = "exit"
          /\ run'[d].clean = run[d].clean
          /\ [phase |-> run[d].phase, verdict |-> v] \in Outcomes
          /\ run'[d].happened = Append(run[d].happened, [phase |-> run[d].phase, verdict |-> v])
      BY <1>5, PhaseEndsRun
    <2>3. /\ Len(run[d].happened) <= Len(run'[d].happened)
          /\ \A k \in DOMAIN run[d].happened : run'[d].happened[k] = run[d].happened[k]
      BY <1>h, <2>2, AppendIn
    <2>4. QED
      BY <2>1, <2>2, <2>3 DEF Works, Alive
  <1>6. CASE StampExit(d)
    <2>1. manifest'.of = manifest.of /\ manifest'.chain = manifest.chain
      BY <1>6, <1>t, StampExitRun DEF Manifests
    <2>2. UNCHANGED <<lock, pause, asked>>
      BY <1>6 DEF StampExit
    <2>3. /\ Stay(d) /\ KeepsStart(d) /\ run[d].pc = "exit" /\ run'[d].pc = "boundary"
          /\ (run'[d].clean => run[d].clean) /\ run'[d].happened = run[d].happened
      BY <1>6, StampExitRun
    <2>4. QED
      BY <2>1, <2>2, <2>3, <1>h DEF Works, Alive
  <1>7. CASE BoundaryPasses(d)
    <2>1. UNCHANGED <<lock, manifest, pause, asked>>
      BY <1>7 DEF BoundaryPasses
    <2>2. QED
      BY <1>7, <2>1, <1>1, BoundaryPassesRun DEF Alive, KeepsPast
  <1>8. CASE Raise(d) \/ Sigterm(d) \/ Kill9(d)
    <2>1. UNCHANGED <<lock, manifest, pause, asked>>
      BY <1>8 DEF Raise, Sigterm, Kill9
    <2>2. Spoils(d, "flush") \/ Spoils(d, "gone")
      BY <1>8, SpoiledRun
    <2>3. Alive(d)
      BY <1>8, SpoiledRun DEF Alive, InTry
    <2>4. run[d].pc \in {"flush", "release"} => Closing(d)
      BY <1>8, SpoiledRun, Words DEF Spoils, Closing
    <2>5. QED
      BY <2>1, <2>2, <2>3, <2>4, <1>1 DEF Spoils, KeepsPast
  <1>9. CASE EmitSummary(d)
    <2>1. UNCHANGED <<lock, manifest, pause, asked>>
      BY <1>9 DEF EmitSummary
    <2>2. /\ run[d].pc = "flush" /\ run'[d].halt = run[d].halt
          /\ Spoils(d, "release") \/ GoTo(d, "release")
      BY <1>9, SpoiledRun
    <2>3. QED
      BY <2>1, <2>2, <1>1, <1>t, GoToRun, Words DEF Spoils, KeepsPast, Alive, Closing
  <1>10. CASE ReleaseBoth(d)
    <2>1. /\ manifest' = manifest /\ asked' = asked /\ lock' = None /\ pause' = NoPause
          /\ GoTo(d, "gone") /\ run[d].pc = "release"
      BY <1>10 DEF ReleaseBoth, ClearPause, Stands
    <2>2. QED
      BY <2>1, <1>1, <1>t, GoToRun, Words DEF KeepsPast, Alive, Closing
  <1>11. QED
    BY <1>2, <1>3, <1>4, <1>5, <1>6, <1>7, <1>8, <1>9, <1>10 DEF DriverStep

-----------------------------------------------------------------------------
(* One driver at a time *)

LEMMA AloneInit == RecordInit => Alone
  BY RecordAssumption, EmptyRecord
     DEF RecordInit, Alone, Alive, Stands, Born, Driver, NoPause

LEMMA AloneStep ==
  ASSUME RecordTypeOK, Alone, [RecordNext]_recordVars
  PROVE  Alone'
  <1>t. run \in [Drivers -> Runs] /\ manifest \in Manifests /\ None \notin Drivers
    BY RecordAssumption DEF RecordTypeOK
  <1>1. ASSUME run' = run, lock' = lock \/ (lock' = None /\ ~Alive(lock)),
               manifest' = manifest, pause' \in {pause, asked, NoPause},
               asked'.chain \in {None, asked.chain, manifest.chain}
        PROVE  Alone'
    BY <1>1 DEF Alone, Alive, Stands, Born, NoPause
  <1>2. ASSUME NEW d \in Drivers, NEW c \in Drivers, NEW first \in Phases, Launch(d, c, first)
        PROVE  Alone'
    <2>1. /\ Stay(d) /\ run'[d].pc \in {"stamp", "gone"} /\ run'[d].chain = c
          /\ run[d].pc = "unborn"
          /\ (run'[d].pc = "stamp" /\ lock = None /\ lock' = d) \/ (run'[d].pc = "gone" /\ lock' = lock)
      BY <1>2, LaunchRun
    <2>2. /\ manifest' = manifest /\ pause' = pause /\ asked' = asked
          /\ c = d \/ Born(c)
      BY <1>2 DEF Launch, Born, Stands
    <2>3. \A x : Born(x) => Born(x)'
      BY <2>1 DEF Stay, Born, Stands
    <2>4. Born(d)' /\ Born(c)'
      BY <2>1, <2>2, <2>3 DEF Born, Stands
    <2>5. ASSUME NEW x \in Drivers
          PROVE  /\ Alive(x)' => lock' = x
                 /\ Stands(x, "unborn")' => run'[x] = Driver /\ x \notin manifest'.of
                 /\ Born(x)' => Born(run[x].chain)'
      <3>1. CASE x = d
        BY <3>1, <2>1, <2>4 DEF Alive, Stands, Born
      <3>2. CASE x # d
        BY <3>2, <1>t, <2>1, <2>2, <2>3 DEF Stay, Alone, Alive, Stands, Born
      <3>3. QED
        BY <3>1, <3>2
    <2>6. lock' # None => Born(lock)'
      BY <2>1, <2>3, <2>4 DEF Alone, Born, Stands
    <2>7. /\ manifest'.chain # None => Born(manifest.chain)'
          /\ pause'.chain # None => Born(pause.chain)'
          /\ asked'.chain # None => Born(asked.chain)'
      BY <2>2, <2>3 DEF Alone, Born, Stands
    <2>8. QED
      BY <2>5, <2>6, <2>7 DEF Alone
  <1>3. ASSUME NEW d \in Drivers, Works(d)
        PROVE  Alone'
    <2>1. \A x : Born(x) => Born(x)'
      BY <1>3 DEF Works, Stay, Born, Stands
    <2>2. Born(d) /\ lock = d /\ Born(run[d].chain)
      BY <1>3 DEF Works, Alone, Alive, Born, Stands
    <2>3. ASSUME NEW x \in Drivers
          PROVE  /\ Alive(x)' => lock' = x
                 /\ Stands(x, "unborn")' => run'[x] = Driver /\ x \notin manifest'.of
                 /\ Born(x)' => Born(run[x].chain)'
      <3>1. CASE x = d
        BY <3>1, <1>3, <2>1, <2>2 DEF Works, KeepsStart, Alive, Stands, Born
      <3>2. CASE x # d
        BY <3>2, <1>3, <1>t, <2>1, <2>2 DEF Works, Stay, Alone, Alive, Stands, Born
      <3>3. QED
        BY <3>1, <3>2
    <2>4. QED
      BY <1>3, <2>1, <2>2, <2>3 DEF Alone, Works, NoPause
  <1>4. CASE UNCHANGED recordVars
    BY <1>1, <1>4 DEF recordVars, records
  <1>5. CASE ReleaseLock
    BY <1>1, <1>5 DEF ReleaseLock, ClearPause
  <1>6. CASE AskPause
    BY <1>1, <1>6 DEF AskPause, records
  <1>7. CASE CreatePause
    BY <1>1, <1>7 DEF CreatePause, records, NoPause
  <1>8. CASE RemovePause
    BY <1>1, <1>8 DEF RemovePause, records
  <1>9. CASE Tick
    BY <1>1, <1>9 DEF Tick, records
  <1>10. QED
    BY <1>2, <1>3, <1>4, <1>5, <1>6, <1>7, <1>8, <1>9, StepWorks DEF RecordNext

-----------------------------------------------------------------------------
(* The course of a driver *)

LEMMA CourseInit == RecordInit => Course
  BY EmptyRecord DEF RecordInit, Course, CourseOf, Driver, Ended, Past, InTry

LEMMA CourseOfOthers ==
  ASSUME NEW d \in Drivers, Course, Stay(d), CourseOf(d)'
  PROVE  Course'
  BY DEF Course, CourseOf, Stay, Ended, Past, Latest

(* A driver that goes where no phase ends keeps its course.                *)
LEMMA CourseKept ==
  ASSUME RecordTypeOK, Course, NEW d \in Drivers, Stay(d), KeepsPast(d), KeepsPhase(d),
         run'[d].clean => run[d].clean /\ run[d].pc # "exit",
         run'[d].pc \notin {"stamp", "exit", "boundary", "complete"},
         run'[d].pc \in InTry => run[d].pc \in InTry /\ ~Ended(d)
  PROVE  Course'
  <1>1. CourseOf(d)
    BY DEF Course
  <1>2. CourseOf(d)'
    BY <1>1 DEF CourseOf, KeepsPast, KeepsPhase, Ended, Past, Latest
  <1>3. QED
    BY <1>2, CourseOfOthers

LEMMA CourseStep ==
  ASSUME RecordTypeOK, Course, NEW d \in Drivers, DriverStep(d)
  PROVE  Course'
  <1>t. run \in [Drivers -> Runs] /\ run[d] \in Runs
    BY DEF RecordTypeOK
  <1>h. /\ run[d].happened \in Seq(Outcomes) /\ Len(run[d].happened) \in Nat
        /\ run[d].results \in Seq(Outcomes)
    BY <1>t DEF Runs
  <1>c. CourseOf(d)
    BY DEF Course
  <1>1. ASSUME NEW c \in Drivers, NEW first \in Phases, Launch(d, c, first)
        PROVE  Course'
    <2>1. /\ Stay(d) /\ run'[d].pc \in {"stamp", "gone"} /\ run'[d].results = <<>>
          /\ run'[d].happened = <<>>
      BY <1>1, LaunchRun
    <2>2. CourseOf(d)'
      BY <2>1 DEF CourseOf, Ended, Past
    <2>3. QED
      BY <2>1, <2>2, CourseOfOthers
  <1>2. ASSUME NEW w \in {"register", "start", "probe", "precheck", "recheck", "bootstrap",
                          "release", "gone"}, GoTo(d, w),
               w \in InTry => run[d].pc \in InTry /\ ~Ended(d), run[d].pc # "exit"
        PROVE  Course'
    <2>1. /\ Stay(d) /\ KeepsPast(d) /\ KeepsPhase(d) /\ run'[d].pc = w /\ run'[d].clean = run[d].clean
      BY <1>2, <1>t, GoToRun, Words
    <2>2. QED
      BY <1>2, <2>1, CourseKept
  <1>3. ASSUME NEW h \in Reasons, HaltsWith(d, h), run[d].pc # "exit"
        PROVE  Course'
    <2>1. /\ Stay(d) /\ KeepsPast(d) /\ KeepsPhase(d) /\ run'[d].pc = "flush"
          /\ run'[d].clean = run[d].clean
      BY <1>3, <1>t, HaltsWithRun
    <2>2. QED
      BY <1>3, <2>1, CourseKept, Words
  <1>4. CASE StampChainStart(d) \/ AutoRegister(d) \/ EmitChainStart(d) \/ Probe(d)
    <2>1. /\ run[d].pc \in {"stamp", "register", "start", "probe"}
          /\ \E w \in {"register", "start", "probe", "precheck"} : GoTo(d, w)
      BY <1>4 DEF StampChainStart, AutoRegister, EmitChainStart, Probe, Stands
    <2>2. QED
      BY <2>1, <1>2, Words DEF Ended
  <1>5. CASE PrecheckCaps(d) \/ Recheck(d)
    <2>1. /\ run[d].pc \in {"precheck", "recheck"}
          /\ \/ \E w \in {"recheck", "bootstrap"} : GoTo(d, w)
             \/ \E h \in Reasons : HaltsWith(d, h)
      BY <1>5, Words DEF PrecheckCaps, Recheck, Stands
    <2>2. QED
      BY <2>1, <1>2, <1>3, Words DEF Ended
  <1>6. CASE BoundaryHalts(d) \/ BoundaryRefused(d) \/ EmitChainComplete(d)
    <2>1. /\ run[d].pc \in {"boundary", "complete"} /\ \E h \in Reasons : HaltsWith(d, h)
      BY <1>6, <1>t, Words DEF BoundaryHalts, BoundaryRefused, EmitChainComplete, Stands, Runs
    <2>2. QED
      BY <2>1, <1>3
  <1>7. CASE AppendBootstrap(d)
    <2>1. /\ Stay(d) /\ KeepsPast(d) /\ KeepsPhase(d) /\ run[d].pc = "bootstrap" /\ run'[d].pc = "phase"
          /\ (run'[d].clean => run[d].clean)
      BY <1>7, AppendBootstrapRun
    <2>2. QED
      BY <2>1, CourseKept, Words DEF Ended
  <1>8. ASSUME NEW v \in Verdicts(run[d].phase), PhaseEnds(d, v)
        PROVE  Course'
    <2> DEFINE e == [phase |-> run[d].phase, verdict |-> v]
    <2>1. /\ Stay(d) /\ run[d].pc = "phase" /\ run'[d].pc = "exit" /\ run'[d].clean = run[d].clean
          /\ run'[d].phase = run[d].phase /\ run'[d].verdict = v /\ run'[d].results = run[d].results
          /\ e \in Outcomes /\ run'[d].happened = Append(run[d].happened, e)
      BY <1>8, PhaseEndsRun
    <2>2. /\ Len(run'[d].happened) = Len(run[d].happened) + 1 /\ run'[d].happened # <<>>
          /\ run'[d].happened[Len(run[d].happened) + 1] = e
          /\ \A k \in 1 .. Len(run[d].happened) : run'[d].happened[k] = run[d].happened[k]
      BY <1>h, <2>1, AppendIn, EmptySeq
    <2>3. /\ run[d].clean => run[d].happened = run[d].results
          /\ \A k \in 1 .. Len(run[d].happened) : run[d].happened[k].verdict = "passed"
      BY <1>c, <1>h, <2>1, Words DEF CourseOf, Past, Ended
    <2>4. Latest(d)' = e /\ Past(d)' = Len(run[d].happened) /\ Ended(d)'
      BY <2>1, <2>2, <1>h DEF Latest, Past, Ended
    <2> HIDE DEF e
    <2>5. CourseOf(d)'
      BY <2>1, <2>2, <2>3, <2>4 DEF CourseOf
    <2>6. QED
      BY <2>1, <2>5, CourseOfOthers
  <1>9. CASE StampExit(d)
    <2>1. /\ Stay(d) /\ KeepsPhase(d) /\ run[d].pc = "exit" /\ run'[d].pc = "boundary"
          /\ run'[d].happened = run[d].happened /\ (run'[d].clean => run[d].clean)
          /\ run'[d].results = Append(run[d].results, Latest(d))
      BY <1>9, StampExitRun DEF Latest
    <2>2. Latest(d)' = Latest(d) /\ Past(d)' = Past(d) /\ Ended(d) /\ Ended(d)'
      BY <2>1 DEF KeepsPhase, Latest, Past, Ended
    <2>3. CourseOf(d)'
      BY <1>c, <2>1, <2>2, Words DEF CourseOf, KeepsPhase
    <2>4. QED
      BY <2>1, <2>3, CourseOfOthers
  <1>10. CASE BoundaryPasses(d)
    <2>1. /\ Stay(d) /\ KeepsPast(d) /\ run[d].pc = "boundary" /\ run'[d].clean = run[d].clean
          /\ \/ run'[d].pc = "probe"
             \/ run'[d].pc = "complete" /\ run[d].phase = LastPhase
      BY <1>10, BoundaryPassesRun
    <2>2. run[d].verdict = "passed"
      BY <1>10 DEF BoundaryPasses
    <2>e. Ended(d) /\ ~Ended(d)' /\ run[d].pc \in InTry
      BY <2>1, Words DEF Ended
    <2>p. Past(d) = Len(run[d].happened) - 1 /\ Past(d)' = Len(run[d].happened)
      BY <2>1, <2>e, <1>h DEF Past, KeepsPast
    <2>3. /\ run[d].happened # <<>>
          /\ run[d].happened[Len(run[d].happened)] = [phase |-> run[d].phase, verdict |-> "passed"]
          /\ \A k \in 1 .. Len(run[d].happened) - 1 : run[d].happened[k].verdict = "passed"
      BY <1>c, <2>1, <2>2, <2>e, <2>p DEF CourseOf, Latest
    <2>4. \A k \in 1 .. Len(run[d].happened) : run[d].happened[k].verdict = "passed"
      BY <2>3, <1>h
    <2>5. CourseOf(d)'
      BY <1>c, <2>1, <2>e, <2>p, <2>3, <2>4 DEF CourseOf, KeepsPast
    <2>6. QED
      BY <2>1, <2>5, CourseOfOthers
  <1>11. CASE Raise(d) \/ Sigterm(d) \/ Kill9(d)
    <2>1. Spoils(d, "flush") \/ Spoils(d, "gone")
      BY <1>11, SpoiledRun
    <2>2. QED
      BY <2>1, CourseKept, Words DEF Spoils
  <1>12. CASE EmitSummary(d)
    <2>1. run[d].pc = "flush" /\ (Spoils(d, "release") \/ GoTo(d, "release"))
      BY <1>12, SpoiledRun
    <2>2. QED
      BY <2>1, <1>2, CourseKept, Words DEF Spoils
  <1>13. CASE ReleaseBoth(d)
    BY <1>13, <1>2, Words DEF ReleaseBoth, Stands
  <1>14. QED
    BY <1>1, <1>4, <1>5, <1>6, <1>7, <1>8, <1>9, <1>10, <1>11, <1>12, <1>13 DEF DriverStep

-----------------------------------------------------------------------------
(* The cap *)

LEMMA InTimeInit == RecordInit => InTime
  BY DEF RecordInit, InTime, Driver, Stands

LEMMA InTimeOthers ==
  ASSUME InTime, NEW d \in Drivers, Stay(d), clock' = clock,
         run'[d].pc \notin {"recheck", "bootstrap", "phase"}
  PROVE  InTime'
  BY DEF InTime, Stay, Stands

LEMMA InTimeStep ==
  ASSUME RecordTypeOK, InTime, NEW d \in Drivers, DriverStep(d)
  PROVE  InTime'
  <1>t. run \in [Drivers -> Runs] /\ run[d] \in Runs
    BY DEF RecordTypeOK
  <1>n. /\ clock \in Nat /\ Cap \in Nat /\ Estimate \in Nat
        /\ run[d].began \in Nat
    BY <1>t, RecordAssumption DEF RecordTypeOK, Runs
  <1>k. clock' = clock
    BY DEF DriverStep, Launch, StampChainStart, AutoRegister, EmitChainStart, Probe, PrecheckCaps,
       Recheck, AppendBootstrap, PhaseEnds, StampExit, BoundaryHalts, BoundaryRefused, BoundaryPasses,
       EmitChainComplete, Raise, Sigterm, Kill9, EmitSummary, ReleaseBoth, Fault, Killed, world
  <1>1. CASE PrecheckCaps(d)
    <2>1. CASE ~Exceeds(d) /\ GoTo(d, "recheck")
      <3>1. Stay(d) /\ KeepsStart(d) /\ run'[d].pc = "recheck"
        BY <2>1, <1>t, GoToRun, Words
      <3>2. clock + Estimate <= run[d].began + Cap
        BY <2>1, <1>n DEF Exceeds
      <3>3. QED
        BY <3>1, <3>2, <1>k DEF InTime, Stay, KeepsStart, Stands
    <2>2. CASE HaltsWith(d, "wall_clock_exceeded")
      BY <2>2, <1>t, <1>k, HaltsWithRun, InTimeOthers, Words
    <2>3. QED
      BY <1>1, <2>1, <2>2 DEF PrecheckCaps
  <1>2. CASE Recheck(d)
    <2>1. CASE GoTo(d, "bootstrap")
      <3>1. Stay(d) /\ KeepsStart(d) /\ run'[d].pc = "bootstrap" /\ run[d].pc = "recheck"
        BY <2>1, <1>2, <1>t, GoToRun, Words DEF Recheck, Stands
      <3>2. QED
        BY <3>1, <1>k DEF InTime, Stay, KeepsStart, Stands
    <2>2. CASE HaltsWith(d, "concurrent_chain_foreign")
      BY <2>2, <1>t, <1>k, HaltsWithRun, InTimeOthers, Words
    <2>3. QED
      BY <1>2, <2>1, <2>2 DEF Recheck
  <1>3. CASE AppendBootstrap(d)
    <2>1. /\ Stay(d) /\ KeepsStart(d) /\ run[d].pc = "bootstrap" /\ run'[d].pc = "phase"
          /\ run'[d].since = clock
      BY <1>3, AppendBootstrapRun
    <2>2. QED
      BY <2>1, <1>k DEF InTime, Stay, KeepsStart, Stands
  <1>4. ASSUME ~PrecheckCaps(d), ~Recheck(d), ~AppendBootstrap(d)
        PROVE  Stay(d) /\ run'[d].pc \notin {"recheck", "bootstrap", "phase"}
    <2>1. ASSUME NEW c \in Drivers, NEW first \in Phases, Launch(d, c, first)
          PROVE  Stay(d) /\ run'[d].pc \notin {"recheck", "bootstrap", "phase"}
      BY <2>1, LaunchRun
    <2>2. CASE StampChainStart(d) \/ AutoRegister(d) \/ EmitChainStart(d) \/ Probe(d) \/ ReleaseBoth(d)
      BY <2>2, <1>t, GoToRun, Words DEF StampChainStart, AutoRegister, EmitChainStart, Probe, ReleaseBoth
    <2>3. CASE BoundaryHalts(d) \/ BoundaryRefused(d) \/ EmitChainComplete(d)
      <3>1. \E h \in Reasons : HaltsWith(d, h)
        BY <2>3, <1>t, Words DEF BoundaryHalts, BoundaryRefused, EmitChainComplete, Runs
      <3>2. QED
        BY <3>1, <1>t, HaltsWithRun
    <2>4. ASSUME NEW v \in Verdicts(run[d].phase), PhaseEnds(d, v)
          PROVE  Stay(d) /\ run'[d].pc \notin {"recheck", "bootstrap", "phase"}
      BY <2>4, PhaseEndsRun
    <2>5. CASE StampExit(d) \/ BoundaryPasses(d)
      BY <2>5, StampExitRun, BoundaryPassesRun
    <2>6. CASE Raise(d) \/ Sigterm(d) \/ Kill9(d) \/ EmitSummary(d)
      BY <2>6, <1>t, SpoiledRun, GoToRun, Words DEF Spoils
    <2>7. QED
      BY <1>4, <2>1, <2>2, <2>3, <2>4, <2>5, <2>6 DEF DriverStep
  <1>5. QED
    BY <1>1, <1>2, <1>3, <1>4, <1>k, InTimeOthers

LEMMA InTimeTick ==
  ASSUME RecordTypeOK, Alone, InTime, Tick
  PROVE  InTime'
  <1>1. PICK x \in Drivers : run[x].pc \in {"phase", "probe"}
    BY DEF Tick, Stands
  <1>2. \A y \in Drivers : run[y].pc \in {"recheck", "bootstrap"} => y = x
    BY <1>1 DEF Alone, Alive
  <1>3. \A y \in Drivers : run[y].pc \notin {"recheck", "bootstrap"}
    BY <1>1, <1>2
  <1>4. QED
    BY <1>3 DEF Tick, InTime, Stands

-----------------------------------------------------------------------------
(* The rows *)

\* Rows may be added that end no phase.
SaysNothing(r) == r.kind \notin {"boundary", "sealed"} \/ r.verdict \in CapRows

New == Len(rows) + 1 .. Len(rows')

Lengthens ==
  /\ Len(rows) <= Len(rows')
  /\ \A k \in 1 .. Len(rows) : rows'[k] = rows[k]
  /\ \A k \in New : RowHolds(k)'

LEMMA SeqIs ==
  ASSUME NEW S, NEW s \in Seq(S)
  PROVE  Len(s) \in Nat /\ DOMAIN s = 1 .. Len(s) /\ \A k \in 1 .. Len(s) : s[k] \in S
  BY LenProperties, ElementOfSeq

LEMMA RowsAre ==
  ASSUME RecordTypeOK
  PROVE  /\ rows \in Seq(RowSet) /\ Len(rows) \in Nat /\ DOMAIN rows = 1 .. Len(rows)
         /\ \A d : EndRows(d) \subseteq 1 .. Len(rows) /\ IsFiniteSet(EndRows(d))
  <1>1. rows \in Seq(RowSet) /\ Len(rows) \in Nat /\ DOMAIN rows = 1 .. Len(rows)
    BY SeqIs DEF RecordTypeOK
  <1>2. ASSUME NEW d
        PROVE  EndRows(d) \subseteq 1 .. Len(rows) /\ IsFiniteSet(EndRows(d))
    <2>1. EndRows(d) \subseteq 1 .. Len(rows)
      BY <1>1 DEF EndRows, RowsOf
    <2>2. IsFiniteSet(1 .. Len(rows))
      BY <1>1, FS_Interval
    <2>3. QED
      BY <2>1, <2>2, FS_Subset
  <1>3. QED
    BY <1>1, <1>2

(* What one more row means for the sets of rows.                           *)
LEMMA Appends ==
  ASSUME RecordTypeOK, NEW r \in RowSet, Emit(r)
  PROVE  /\ Len(rows') = Len(rows) + 1 /\ New = {Len(rows) + 1} /\ rows'[Len(rows) + 1] = r
         /\ \A k \in 1 .. Len(rows) : rows'[k] = rows[k]
         /\ DOMAIN rows' = 1 .. Len(rows) + 1
  <1>1. rows \in Seq(RowSet) /\ Len(rows) \in Nat
    BY RowsAre
  <1>2. Len(rows') = Len(rows) + 1 /\ DOMAIN rows' = 1 .. Len(rows) + 1
    BY <1>1, AppendProperties DEF Emit
  <1>3. QED
    BY <1>1, <1>2, AppendProperties DEF Emit, New

(* Rows that are added leave those before them where they are.             *)
LEMMA LongerRows ==
  ASSUME RecordTypeOK, RecordTypeOK', Lengthens
  PROVE  /\ DOMAIN rows = 1 .. Len(rows) /\ DOMAIN rows' = DOMAIN rows \cup New
         /\ \A d, K : RowsOf(d, K) \subseteq RowsOf(d, K)'
         /\ \A k \in DOMAIN rows : rows'[k] = rows[k]
         /\ \A k \in New : k \notin DOMAIN rows /\ k \in Nat
  <1>1. /\ Len(rows) \in Nat /\ DOMAIN rows = 1 .. Len(rows)
        /\ Len(rows') \in Nat /\ DOMAIN rows' = 1 .. Len(rows')
    BY SeqIs DEF RecordTypeOK
  <1>2. DOMAIN rows' = DOMAIN rows \cup New
    BY <1>1 DEF New, Lengthens
  <1>3. QED
    BY <1>1, <1>2 DEF Lengthens, RowsOf, New

(* SaysNothing rows leave every account of the phases as it is.                  *)
LEMMA QuietRows ==
  ASSUME RecordTypeOK, RecordTypeOK', Lengthens, \A k \in New : SaysNothing(rows'[k]), NEW d
  PROVE  EndSaid(d)' = EndSaid(d)
  <1>1. EndRows(d)' = EndRows(d)
    BY LongerRows DEF EndRows, RowsOf, SaysNothing
  <1>2. \A k \in EndRows(d) : rows'[k] = rows[k]
    BY LongerRows DEF EndRows, RowsOf
  <1>3. QED
    BY <1>1, <1>2 DEF EndSaid

LEMMA FinishedStays ==
  ASSUME RecordTypeOK, NEW d \in Drivers, Works(d) \/ (Stay(d) /\ run[d].pc = "unborn"),
         NEW x \in Drivers, Finished(x)
  PROVE  Finished(x)'
  BY DEF Finished, Works, Stay, Closing, KeepsPast, Alive

LEMMA BornStays ==
  ASSUME NEW d \in Drivers, Works(d) \/ (Stay(d) /\ run[d].pc = "unborn"), NEW x, Born(x)
  PROVE  Born(x)'
  BY DEF Born, Stands, Works, Stay

LEMMA RowsFollowInit == RecordInit => RowsFollow
  <1> SUFFICES ASSUME RecordInit PROVE RowsFollow
    OBVIOUS
  <1>1. rows = <<>> /\ DOMAIN rows = {} /\ \A d \in Drivers : run[d].happened = <<>> /\ run[d].pc = "unborn"
    BY DEF RecordInit, Driver
  <1>2. ASSUME NEW d \in Drivers
        PROVE  Recounts(EndSaid(d), run[d].happened, Past(d))
    <2>1. DOMAIN EndSaid(d) = {}
      BY <1>1 DEF EndSaid, EndRows, RowsOf
    <2>2. Past(d) = 0
      BY <1>1 DEF Past, Ended
    <2>3. QED
      BY <2>1, <2>2, FS_EmptySet DEF Recounts
  <1>3. QED
    BY <1>1, <1>2 DEF RowsFollow

LEMMA NewRowsAreOfTheBorn ==
  ASSUME RecordTypeOK, RecordTypeOK', RowsFollow, Lengthens,
         \A x \in Drivers : Finished(x) => Finished(x)', \A x : Born(x) => Born(x)',
         NEW k \in DOMAIN rows'
  PROVE  RowHolds(k)'
  <1>1. CASE k \in DOMAIN rows
    <2>1. rows'[k] = rows[k] /\ RowHolds(k)
      BY <1>1, LongerRows DEF RowsFollow
    <2>2. rows[k].by \in Drivers
      BY <2>1 DEF RowHolds, Born
    <2>3. QED
      BY <2>1, <2>2 DEF RowHolds
  <1>2. CASE k \in New
    BY <1>2 DEF Lengthens
  <1>3. QED
    BY <1>1, <1>2, LongerRows

LEMMA PastIs ==
  ASSUME RecordTypeOK, NEW d \in Drivers
  PROVE  /\ Len(run[d].happened) \in Nat /\ DOMAIN run[d].happened = 1 .. Len(run[d].happened)
         /\ Past(d) \in Int /\ Past(d) <= Len(run[d].happened)
  <1>1. run[d].happened \in Seq(Outcomes)
    BY DEF RecordTypeOK, Runs
  <1>2. Len(run[d].happened) \in Nat /\ DOMAIN run[d].happened = 1 .. Len(run[d].happened)
    BY <1>1, SeqIs
  <1>3. CASE Ended(d)
    BY <1>2, <1>3 DEF Past
  <1>4. CASE ~Ended(d)
    BY <1>2, <1>4 DEF Past
  <1>5. QED
    BY <1>2, <1>3, <1>4

LEMMA RecountsLater ==
  ASSUME RecordTypeOK, NEW d \in Drivers, Works(d) \/ run'[d].happened = run[d].happened,
         NEW f, IsFiniteSet(DOMAIN f), DOMAIN f \subseteq Nat,
         NEW n \in Int, n <= Len(run[d].happened), Recounts(f, run[d].happened, n)
  PROVE  Recounts(f, run'[d].happened, n)
  <1>1. \A p \in 1 .. n : p \in DOMAIN run[d].happened
    BY PastIs
  <1>2. \A p \in 1 .. n : run'[d].happened[p] = run[d].happened[p]
    BY <1>1 DEF Works
  <1>3. QED
    BY <1>2, RecountsOn

(* A step whose rows are quiet, if the past of its driver does not grow.   *)
LEMMA RowsFollowQuiet ==
  ASSUME RecordTypeOK, RecordTypeOK', RowsFollow, Lengthens, \A k \in New : SaysNothing(rows'[k]),
         NEW d \in Drivers,
         Works(d) \/ (Stay(d) /\ run[d].pc = "unborn" /\ run'[d].happened = run[d].happened),
         run'[d].clean => run[d].clean /\ Past(d)' = Past(d)
  PROVE  RowsFollow'
  <1>1. ASSUME NEW k \in DOMAIN rows'
        PROVE  RowHolds(k)'
    BY FinishedStays, BornStays, NewRowsAreOfTheBorn
  <1>2. ASSUME NEW x \in Drivers, run'[x].clean
        PROVE  Recounts(EndSaid(x)', run'[x].happened, Past(x)')
    <2>1. EndSaid(x)' = EndSaid(x)
      BY QuietRows
    <2>2. IsFiniteSet(DOMAIN EndSaid(x)) /\ DOMAIN EndSaid(x) \subseteq Nat
      BY RowsAre DEF EndSaid
    <2>3. CASE x = d
      <3>1. Recounts(EndSaid(x), run[x].happened, Past(x))
        BY <1>2, <2>3 DEF RowsFollow
      <3>2. Recounts(EndSaid(x), run'[x].happened, Past(x))
        BY <2>2, <2>3, <3>1, RecountsLater, PastIs
      <3>3. QED
        BY <1>2, <2>1, <2>3, <3>2
    <2>4. CASE x # d
      <3>1. run'[x] = run[x]
        BY <2>4 DEF Works, Stay
      <3>2. Past(x)' = Past(x)
        BY <3>1 DEF Past, Ended
      <3>3. QED
        BY <1>2, <2>1, <3>1, <3>2 DEF RowsFollow
    <2>5. QED
      BY <2>3, <2>4
  <1>3. QED
    BY <1>1, <1>2 DEF RowsFollow

(* The row of a phase that has just ended.                                 *)
LEMMA RowsFollowEnd ==
  ASSUME RecordTypeOK, RecordTypeOK', RowsFollow, Course, NEW d \in Drivers, Works(d),
         NEW r \in RowSet, Emit(r), r.by = d, r.kind \in {"boundary", "sealed"},
         r.verdict \notin CapRows, r.to # "done", Told(r) = Latest(d),
         Ended(d), run[d].pc = "boundary", ~Ended(d)', run'[d].happened = run[d].happened
  PROVE  RowsFollow'
  <1>0. PICK j \in Nat : j = Len(rows) + 1
    BY RowsAre
  <1>1. /\ New = {j} /\ rows'[j] = r /\ DOMAIN rows' = 1 .. j /\ Len(rows) < j
        /\ DOMAIN rows = 1 .. Len(rows) /\ \A k \in DOMAIN rows : rows'[k] = rows[k]
    BY <1>0, Appends, RowsAre
  <1>2. Born(d)'
    BY DEF Born, Works, Stands
  <1>3. Lengthens
    <2>1. RowHolds(j)'
      BY <1>1, <1>2 DEF RowHolds
    <2>2. Len(rows') = j
      BY <1>0, Appends
    <2>3. \A k \in New : RowHolds(k)'
      BY <1>1, <2>1
    <2>4. Len(rows) <= Len(rows')
      BY <1>1, <2>2, RowsAre
    <2>5. QED
      BY <1>1, <2>3, <2>4 DEF Lengthens
  <1>4. ASSUME NEW k \in DOMAIN rows'
        PROVE  RowHolds(k)'
    BY <1>3, FinishedStays, BornStays, NewRowsAreOfTheBorn
  <1>5. ASSUME NEW x \in Drivers
        PROVE  /\ EndRows(x)' = EndRows(x) \cup (IF x = d THEN {j} ELSE {})
               /\ \A k \in EndRows(x) : EndSaid(x)'[k] = EndSaid(x)[k] /\ k < j
    <2>0. DOMAIN rows' = DOMAIN rows \cup {j} /\ j \notin DOMAIN rows
      BY <1>0, <1>1, RowsAre
    <2>1. EndRows(x)' = EndRows(x) \cup (IF x = d THEN {j} ELSE {})
      <3>1. \A k \in DOMAIN rows : k \in EndRows(x)' <=> k \in EndRows(x)
        BY <1>1, <2>0 DEF EndRows, RowsOf
      <3>2. j \in EndRows(x)' <=> x = d
        BY <1>1, <2>0 DEF EndRows, RowsOf
      <3>3. EndRows(x)' \subseteq DOMAIN rows' /\ EndRows(x) \subseteq DOMAIN rows
        BY DEF EndRows, RowsOf
      <3>4. CASE x = d
        BY <2>0, <3>1, <3>2, <3>3, <3>4
      <3>5. CASE x # d
        BY <2>0, <3>1, <3>2, <3>3, <3>5
      <3>6. QED
        BY <3>4, <3>5
    <2>2. ASSUME NEW k \in EndRows(x)
          PROVE  EndSaid(x)'[k] = EndSaid(x)[k] /\ k < j
      <3>1. k \in EndRows(x)' /\ k \in DOMAIN rows /\ k < j
        BY <2>1, <1>1, RowsAre DEF EndRows, RowsOf
      <3>2. QED
        BY <3>1, <1>1 DEF EndSaid
    <2>3. QED
      BY <2>1, <2>2
  <1>6. ASSUME NEW x \in Drivers, x # d, run'[x].clean
        PROVE  Recounts(EndSaid(x)', run'[x].happened, Past(x)')
    <2>1. EndSaid(x)' = EndSaid(x)
      BY <1>5, <1>6 DEF EndSaid
    <2>2. run'[x] = run[x]
      BY <1>6 DEF Works, Stay
    <2>3. QED
      BY <1>6, <2>1, <2>2 DEF RowsFollow, Past, Ended
  <1>7. ASSUME run'[d].clean
        PROVE  Recounts(EndSaid(d)', run'[d].happened, Past(d)')
    <2>1. /\ run[d].happened # <<>> /\ run[d].happened[Len(run[d].happened)] = Latest(d)
      BY DEF Course, CourseOf
    <2>2. Past(d) = Len(run[d].happened) - 1 /\ Past(d)' = Len(run[d].happened)
      BY PastIs DEF Past
    <2>3. Recounts(EndSaid(d), run[d].happened, Past(d))
      BY <1>7 DEF RowsFollow, Works
    <2>4. IsFiniteSet(DOMAIN EndSaid(d)) /\ DOMAIN EndSaid(d) \subseteq Nat
      BY RowsAre DEF EndSaid
    <2>5. /\ DOMAIN EndSaid(d)' = DOMAIN EndSaid(d) \cup {j}
          /\ \A k \in DOMAIN EndSaid(d) : k < j /\ EndSaid(d)'[k] = EndSaid(d)[k]
          /\ EndSaid(d)'[j] = Latest(d)
      <3>1. /\ DOMAIN EndSaid(d)' = EndRows(d)' /\ DOMAIN EndSaid(d) = EndRows(d)
            /\ EndRows(d)' = EndRows(d) \cup {j} /\ j \in EndRows(d)'
        BY <1>5 DEF EndSaid
      <3>2. EndSaid(d)'[j] = Told(rows'[j])
        BY <3>1 DEF EndSaid, Told
      <3>3. QED
        BY <1>1, <1>5, <3>1, <3>2
    <2>6. Recounts(EndSaid(d)', run[d].happened, Past(d) + 1)
      <3>1. run[d].happened[Past(d) + 1] = Latest(d)
        BY <2>1, <2>2, PastIs
      <3> DEFINE f == EndSaid(d)
      <3>2. PICK g : g = EndSaid(d)'
        OBVIOUS
      <3>3. PICK n : n = Past(d)
        OBVIOUS
      <3> HIDE DEF f
      <3>4. Recounts(g, run[d].happened, n + 1)
        BY <2>3, <2>4, <2>5, <3>1, <3>2, <3>3, RecountsNext DEF f
      <3>5. QED
        BY <3>2, <3>3, <3>4
    <2>7. QED
      BY <2>2, <2>6, PastIs
  <1>8. QED
    BY <1>4, <1>6, <1>7 DEF RowsFollow

LEMMA NoMoreRows ==
  ASSUME RecordTypeOK, rows' = rows
  PROVE  Lengthens /\ New = {}
  BY RowsAre DEF Lengthens, New

LEMMA OneMoreRow ==
  ASSUME RecordTypeOK, NEW r \in RowSet, Emit(r), Born(r.by)', r.to = "done" => Finished(r.by)'
  PROVE  Lengthens /\ \A k \in New : rows'[k] = r
  <1>0. PICK j \in Nat : j = Len(rows) + 1
    BY RowsAre
  <1>1. New = {j} /\ rows'[j] = r /\ Len(rows') = j /\ \A k \in 1 .. Len(rows) : rows'[k] = rows[k]
    BY <1>0, Appends
  <1>2. RowHolds(j)'
    BY <1>1 DEF RowHolds
  <1>3. QED
    BY <1>0, <1>1, <1>2, RowsAre DEF Lengthens

(* Up to two rows at once, of one driver.                                  *)
LEMMA MoreRows ==
  ASSUME RecordTypeOK, NEW d, NEW s \in Seq(RowSet), NEW t \in Seq(RowSet), rows' = rows \o s \o t,
         Born(d)', \A i \in DOMAIN s : s[i].by = d /\ s[i].to # "done" /\ SaysNothing(s[i]),
         \A i \in DOMAIN t : t[i].by = d /\ t[i].to # "done" /\ SaysNothing(t[i])
  PROVE  Lengthens /\ \A k \in New : SaysNothing(rows'[k])
  <1>1. /\ rows \o s \in Seq(RowSet) /\ Len(rows \o s) = Len(rows) + Len(s)
        /\ \A k \in 1 .. Len(rows) : (rows \o s)[k] = rows[k]
        /\ \A k \in Len(rows) + 1 .. Len(rows) + Len(s) :
             (rows \o s)[k] = s[k - Len(rows)] /\ k - Len(rows) \in DOMAIN s
        /\ Len(rows) \in Nat /\ Len(s) \in Nat /\ Len(t) \in Nat
    BY RowsAre, ConcatProperties, SeqIs
  <1>2. PICK u : u = rows \o s
    OBVIOUS
  <1>3. /\ rows' = u \o t /\ u \in Seq(RowSet)
        /\ Len(rows') = Len(u) + Len(t)
        /\ \A k \in 1 .. Len(u) : rows'[k] = u[k]
        /\ \A k \in Len(u) + 1 .. Len(u) + Len(t) :
             rows'[k] = t[k - Len(u)] /\ k - Len(u) \in DOMAIN t
    BY <1>1, <1>2, ConcatProperties, SeqIs
  <1>4. \A k \in 1 .. Len(rows) : rows'[k] = rows[k]
    BY <1>1, <1>2, <1>3
  <1>5. ASSUME NEW k \in New
        PROVE  rows'[k].by = d /\ rows'[k].to # "done" /\ SaysNothing(rows'[k])
    <2>1. k \in Len(rows) + 1 .. Len(u) + Len(t)
      BY <1>3 DEF New
    <2>2. CASE k \in Len(rows) + 1 .. Len(rows) + Len(s)
      <3>1. rows'[k] = s[k - Len(rows)] /\ k - Len(rows) \in DOMAIN s
        BY <2>2, <1>1, <1>2, <1>3
      <3>2. QED
        BY <3>1
    <2>3. CASE k \in Len(u) + 1 .. Len(u) + Len(t)
      <3>1. rows'[k] = t[k - Len(u)] /\ k - Len(u) \in DOMAIN t
        BY <2>3, <1>3
      <3>2. QED
        BY <3>1
    <2>4. QED
      BY <2>1, <2>2, <2>3, <1>1, <1>2
  <1>6. \A k \in New : RowHolds(k)'
    BY <1>5 DEF RowHolds
  <1>7. Len(rows) <= Len(rows')
    BY <1>1, <1>2, <1>3
  <1>8. QED
    BY <1>4, <1>5, <1>6, <1>7 DEF Lengthens

LEMMA RowIs ==
  ASSUME RecordTypeOK, NEW d \in Drivers, NEW kind \in Kinds, NEW v \in Reasons,
         NEW to \in {"wip", "deferred", "blocked", "done", "cancelled"}
  PROVE  \E r \in RowSet : /\ r = RowBy(d, kind, v, to) /\ r.by = d /\ r.kind = kind
                           /\ r.phase = run[d].phase /\ r.verdict = v /\ r.to = to
  BY RowIsTyped DEF RowBy

(* A step that writes no row, or one that ends no phase.                   *)
LEMMA RowsFollowMay ==
  ASSUME RecordTypeOK, RecordTypeOK', RowsFollow, NEW d \in Drivers,
         Works(d) \/ (Stay(d) /\ run[d].pc = "unborn" /\ run'[d].happened = run[d].happened),
         run'[d].pc # "unborn",
         run'[d].clean => run[d].clean /\ Past(d)' = Past(d),
         NEW kind \in Kinds, NEW v \in Reasons,
         NEW to \in {"wip", "deferred", "blocked", "done", "cancelled"},
         rows' = rows \/ Emit(RowBy(d, kind, v, to)),
         kind \notin {"boundary", "sealed"} \/ v \in CapRows, to = "done" => Finished(d)'
  PROVE  RowsFollow'
  <1>1. CASE rows' = rows
    BY <1>1, NoMoreRows, RowsFollowQuiet
  <1>2. CASE Emit(RowBy(d, kind, v, to))
    <2>1. PICK r \in RowSet : /\ r = RowBy(d, kind, v, to) /\ r.by = d /\ r.kind = kind
                              /\ r.verdict = v /\ r.to = to
      BY RowIs
    <2>2. Lengthens /\ \A k \in New : rows'[k] = r
      BY <1>2, <2>1, OneMoreRow DEF Born, Stands
    <2>3. \A k \in New : SaysNothing(rows'[k])
      BY <2>1, <2>2 DEF SaysNothing
    <2>4. QED
      BY <2>2, <2>3, RowsFollowQuiet
  <1>3. QED
    BY <1>1, <1>2

LEMMA ClearedRows ==
  ASSUME RecordTypeOK, NEW d \in Drivers, NEW then \in Seq(RowSet), ClearPause(d, then), Born(d)',
         \A i \in DOMAIN then : then[i].by = d /\ then[i].to # "done" /\ SaysNothing(then[i])
  PROVE  Lengthens /\ \A k \in New : SaysNothing(rows'[k])
  <1>1. PICK r \in RowSet : /\ r = RowBy(d, "stale_cleared", "none", "wip") /\ r.by = d
                            /\ r.kind = "stale_cleared" /\ r.to = "wip"
    BY RowIs, Words DEF Kinds
  <1>2. PICK t : t = IF pause = NoPause THEN <<>> ELSE <<r>>
    OBVIOUS
  <1>3. t \in Seq(RowSet) /\ \A i \in DOMAIN t : t[i] = r
    BY <1>2
  <1>4. rows' = rows \o then \o t
    BY <1>1, <1>2 DEF ClearPause
  <1>5. \A i \in DOMAIN t : t[i].by = d /\ t[i].to # "done" /\ SaysNothing(t[i])
    BY <1>1, <1>3 DEF SaysNothing
  <1>6. QED
    BY <1>4, <1>3, <1>5, MoreRows

LEMMA RowsFollowStep ==
  ASSUME RecordTypeOK, RecordTypeOK', Alone, Course, RowsFollow, NEW d \in Drivers, DriverStep(d)
  PROVE  RowsFollow'
  <1>t. run \in [Drivers -> Runs] /\ run[d] \in Runs
    BY DEF RecordTypeOK
  <1>w. ASSUME run[d].pc # "unborn"
        PROVE  Works(d) /\ run'[d].pc # "unborn"
    BY <1>w, StepWorks, LaunchRun DEF Works
  <1>q. ASSUME Works(d), rows' = rows, run'[d].clean => run[d].clean /\ Past(d)' = Past(d)
        PROVE  RowsFollow'
    BY <1>q, NoMoreRows, RowsFollowQuiet
  <1>1. ASSUME NEW c \in Drivers, NEW first \in Phases, Launch(d, c, first)
        PROVE  RowsFollow'
    <2>1. /\ Stay(d) /\ run[d].pc = "unborn" /\ run'[d].pc \in {"stamp", "gone"}
          /\ run'[d].happened = <<>>
          /\ rows' = rows \/ Emit(RowBy(d, "refused", "concurrent_chain_refused", "blocked"))
      BY <1>1, LaunchRun
    <2>2. run[d].happened = <<>> /\ run[d].clean
      BY <2>1 DEF Alone, Stands, Driver
    <2>3. Past(d)' = Past(d)
      BY <2>1, <2>2 DEF Past, Ended
    <2>4. "refused" \in Kinds /\ "concurrent_chain_refused" \in Reasons
      BY Words DEF Kinds
    <2>5. QED
      BY <2>1, <2>2, <2>3, <2>4, RowsFollowMay
  <1>2. ASSUME NEW w \in Pcs, NEW h \in Reasons, GoTo(d, w) \/ HaltsWith(d, h), run[d].pc # "unborn",
               ~Ended(d), w \notin {"exit", "boundary"},
               NEW kind \in Kinds, NEW v \in Reasons,
               NEW to \in {"wip", "deferred", "blocked", "done", "cancelled"},
               rows' = rows \/ Emit(RowBy(d, kind, v, to)),
               kind \notin {"boundary", "sealed"} \/ v \in CapRows, to = "done" => Finished(d)'
        PROVE  RowsFollow'
    <2>1. KeepsPast(d) /\ run'[d].pc \in {w, "flush"} /\ run'[d].clean = run[d].clean
      BY <1>2, <1>t, GoToRun, HaltsWithRun
    <2>2. Past(d)' = Past(d)
      BY <1>2, <2>1 DEF Past, Ended, KeepsPast
    <2>3. QED
      BY <1>2, <1>w, <2>1, <2>2, RowsFollowMay
  <1>3. CASE StampChainStart(d) \/ AutoRegister(d) \/ EmitChainStart(d) \/ Probe(d)
    <2>1. run[d].pc \in {"stamp", "register", "start", "probe"}
      BY <1>3 DEF StampChainStart, AutoRegister, EmitChainStart, Probe, Stands
    <2>2. \E w \in {"register", "start", "probe", "precheck"} : GoTo(d, w)
      BY <1>3 DEF StampChainStart, AutoRegister, EmitChainStart, Probe
    <2>3. \/ rows' = rows
          \/ Emit(RowBy(d, "registered", "none", "wip"))
          \/ Emit(RowBy(d, "start", "none", "wip"))
      BY <1>3 DEF StampChainStart, AutoRegister, EmitChainStart, Probe, records
    <2>4. {"registered", "start"} \subseteq Kinds /\ "none" \in Reasons
      BY Words DEF Kinds
    <2>5. QED
      BY <1>2, <2>1, <2>2, <2>3, <2>4, Words DEF Ended
  <1>4. CASE PrecheckCaps(d) \/ Recheck(d)
    <2>1. run[d].pc \in {"precheck", "recheck"}
      BY <1>4 DEF PrecheckCaps, Recheck, Stands
    <2>2. \/ \E w \in {"recheck", "bootstrap"} : GoTo(d, w)
          \/ \E h \in Reasons : HaltsWith(d, h)
      BY <1>4, Words DEF PrecheckCaps, Recheck
    <2>3. \/ rows' = rows
          \/ \E v \in CapRows : Emit(RowBy(d, "boundary", v, StatusOf(v)))
      BY <1>4, Words DEF PrecheckCaps, Recheck, EmitBoundary, CapRows
    <2>4. "boundary" \in Kinds /\ CapRows \subseteq Reasons
      BY Words DEF Kinds
    <2>5. PICK v \in Reasons : rows' = rows \/ (v \in CapRows /\ Emit(RowBy(d, "boundary", v, StatusOf(v))))
      BY <2>3, <2>4, Words
    <2>6. PICK to \in {"wip", "deferred", "blocked"} : to = StatusOf(v)
      BY StatusIsName
    <2>7. \/ \E w \in {"recheck", "bootstrap"} : w \in Pcs /\ GoTo(d, w)
          \/ \E h \in Reasons : HaltsWith(d, h)
      BY <2>2, Words
    <2>8. ~Ended(d)
      BY <2>1 DEF Ended
    <2>9. ASSUME NEW w \in {"recheck", "bootstrap"}, NEW h \in Reasons, GoTo(d, w) \/ HaltsWith(d, h)
          PROVE  RowsFollow'
      <3>1. w \in Pcs
        BY Words
      <3>2. CASE rows' = rows
        BY <1>2, <2>1, <2>4, <2>8, <2>9, <3>1, <3>2, Words DEF Kinds
      <3>3. CASE v \in CapRows /\ Emit(RowBy(d, "boundary", v, StatusOf(v)))
        BY <1>2, <2>1, <2>4, <2>6, <2>8, <2>9, <3>1, <3>3
      <3>4. QED
        BY <2>5, <3>2, <3>3
    <2>10. "recheck" \in {"recheck", "bootstrap"} /\ "passed" \in Reasons
      BY Words
    <2>11. QED
      BY <2>7, <2>9, <2>10
  <1>5. CASE EmitChainComplete(d)
    <2>1. /\ run[d].pc = "complete" /\ HaltsWith(d, "phase_success")
          /\ Emit(RowBy(d, "complete", "none", "done"))
      BY <1>5 DEF EmitChainComplete, Stands
    <2>2. /\ run[d].happened # <<>>
          /\ run[d].happened[Len(run[d].happened)] = [phase |-> LastPhase, verdict |-> "passed"]
      BY <2>1 DEF Course, CourseOf
    <2>3. Finished(d)'
      BY <2>1, <2>2, <1>t, HaltsWithRun, Words DEF Finished, KeepsPast
    <2>4. "complete" \in Kinds /\ "none" \in Reasons /\ "phase_success" \in Reasons
      BY Words DEF Kinds
    <2>5. QED
      BY <1>2, <2>1, <2>3, <2>4, Words DEF Ended
  <1>6. CASE AppendBootstrap(d)
    <2>1. /\ KeepsPast(d) /\ run[d].pc = "bootstrap" /\ run'[d].pc = "phase"
          /\ (run'[d].clean => run[d].clean)
      BY <1>6, AppendBootstrapRun
    <2>2. Past(d)' = Past(d) /\ rows' = rows
      BY <1>6, <2>1 DEF Past, Ended, KeepsPast, AppendBootstrap
    <2>3. QED
      BY <2>1, <2>2, <1>w, <1>q
  <1>7. ASSUME NEW v \in Verdicts(run[d].phase), PhaseEnds(d, v)
        PROVE  RowsFollow'
    <2>1. /\ run[d].pc = "phase" /\ run'[d].pc = "exit" /\ run'[d].clean = run[d].clean
          /\ [phase |-> run[d].phase, verdict |-> v] \in Outcomes
          /\ run'[d].happened = Append(run[d].happened, [phase |-> run[d].phase, verdict |-> v])
      BY <1>7, PhaseEndsRun
    <2>2. run[d].happened \in Seq(Outcomes) /\ Len(run[d].happened) \in Nat
      BY <1>t DEF Runs
    <2>3. Len(run'[d].happened) = Len(run[d].happened) + 1
      BY <2>1, <2>2, AppendIn
    <2>4. Past(d) = Len(run[d].happened) /\ Past(d)' = Len(run'[d].happened) - 1
      BY <2>1, <2>2 DEF Past, Ended
    <2>5. Past(d)' = Past(d)
      BY <2>2, <2>3, <2>4
    <2>6. rows' = rows
      BY <1>7 DEF PhaseEnds, records
    <2>7. QED
      BY <2>1, <2>5, <2>6, <1>w, <1>q
  <1>8. CASE StampExit(d)
    <2>1. /\ run'[d].happened = run[d].happened /\ run[d].pc = "exit" /\ run'[d].pc = "boundary"
          /\ (run'[d].clean => run[d].clean)
      BY <1>8, StampExitRun
    <2>2. Past(d)' = Past(d) /\ rows' = rows
      BY <1>8, <2>1 DEF Past, Ended, StampExit
    <2>3. QED
      BY <2>1, <2>2, <1>w, <1>q
  <1>9. ASSUME run[d].pc = "boundary", NEW kind \in {"boundary", "sealed"}, NEW v \in Reasons \ CapRows,
               NEW to \in {"wip", "deferred", "blocked"}, Emit(RowBy(d, kind, v, to)),
               run[d].verdict = (IF kind = "sealed" THEN "passed" ELSE v),
               run'[d].pc \notin {"exit", "boundary"}, run'[d].happened = run[d].happened
        PROVE  RowsFollow'
    <2>1. kind \in Kinds
      BY DEF Kinds
    <2>2. PICK r \in RowSet : /\ r = RowBy(d, kind, v, to) /\ r.by = d /\ r.kind = kind
                              /\ r.phase = run[d].phase /\ r.verdict = v /\ r.to = to
      BY <2>1, RowIs
    <2>3. Told(r) = Latest(d)
      BY <1>9, <2>2 DEF Told, Latest
    <2>4. Ended(d) /\ ~Ended(d)'
      BY <1>9 DEF Ended
    <2>5. QED
      BY <1>9, <1>w, <2>2, <2>3, <2>4, RowsFollowEnd
  <1>10. ASSUME run[d].pc = "boundary"
         PROVE  run[d].verdict \in Reasons \ CapRows
    <2>1. run[d].verdict \in Verdicts(run[d].phase)
      BY <1>10 DEF Course, CourseOf, Ended
    <2>2. QED
      BY <2>1, VerdictsAreNames, Words
  <1>11. CASE BoundaryHalts(d)
    <2>1. /\ run[d].pc = "boundary" /\ HaltsWith(d, run[d].verdict)
          /\ Emit(RowBy(d, "boundary", run[d].verdict, StatusOf(run[d].verdict)))
      BY <1>11 DEF BoundaryHalts, EmitBoundary, Stands
    <2>2. run'[d].pc = "flush" /\ KeepsPast(d)
      BY <2>1, <1>t, <1>10, HaltsWithRun
    <2>3. QED
      BY <2>1, <2>2, <1>9, <1>10, StatusIsName DEF KeepsPast
  <1>12. CASE BoundaryRefused(d)
    <2>1. /\ run[d].pc = "boundary" /\ HaltsWith(d, "sealed_path_refused")
          /\ run[d].verdict = "passed"
          /\ Emit(RowBy(d, "sealed", "sealed_path_refused", "blocked"))
      BY <1>12 DEF BoundaryRefused, Stands
    <2>2. "sealed_path_refused" \in Reasons \ CapRows
      BY Words DEF CapRows
    <2>3. run'[d].pc = "flush" /\ KeepsPast(d)
      BY <2>1, <2>2, <1>t, HaltsWithRun
    <2>4. QED
      BY <2>1, <2>2, <2>3, <1>9 DEF KeepsPast
  <1>13. CASE BoundaryPasses(d)
    <2>1. /\ run[d].pc = "boundary" /\ run[d].verdict = "passed"
          /\ Emit(RowBy(d, "boundary", "passed", StatusOf("passed")))
      BY <1>13 DEF BoundaryPasses, EmitBoundary, Stands
    <2>2. run'[d].pc \in {"probe", "complete"} /\ KeepsPast(d)
      BY <1>13, BoundaryPassesRun
    <2>3. QED
      BY <2>1, <2>2, <1>9, <1>10, StatusIsName DEF KeepsPast
  <1>14. CASE Raise(d) \/ Sigterm(d) \/ Kill9(d)
    <2>1. run'[d].clean = FALSE /\ run[d].pc # "unborn"
      BY <1>14, SpoiledRun, Words DEF Spoils, Alive
    <2>2. rows' = rows
      BY <1>14 DEF Raise, Sigterm, Kill9, records
    <2>3. QED
      BY <2>1, <2>2, <1>w, <1>q
  <1>15. CASE EmitSummary(d)
    <2>1. /\ run[d].pc = "flush" /\ rows' = rows
          /\ GoTo(d, "release") \/ run'[d].clean = FALSE
      BY <1>15, SpoiledRun DEF Spoils, EmitSummary
    <2>2. CASE GoTo(d, "release")
      <3>1. KeepsPast(d) /\ run'[d].pc = "release" /\ run'[d].clean = run[d].clean
        BY <2>2, <1>t, GoToRun, Words
      <3>2. Past(d)' = Past(d)
        BY <2>1, <3>1 DEF Past, Ended, KeepsPast
      <3>3. QED
        BY <2>1, <3>1, <3>2, <1>w, <1>q
    <2>3. CASE run'[d].clean = FALSE
      BY <2>1, <2>3, <1>w, <1>q
    <2>4. QED
      BY <2>1, <2>2, <2>3
  <1>16. CASE ReleaseBoth(d)
    <2>1. run[d].pc = "release" /\ GoTo(d, "gone")
      BY <1>16 DEF ReleaseBoth, Stands
    <2>2. /\ KeepsPast(d) /\ run'[d].pc = "gone" /\ run'[d].clean = run[d].clean
      BY <2>1, <1>t, GoToRun, Words
    <2>3. Past(d)' = Past(d)
      BY <2>1, <2>2 DEF Past, Ended, KeepsPast
    <2>4. Lengthens /\ \A k \in New : SaysNothing(rows'[k])
      <3>1. <<>> \in Seq(RowSet) /\ DOMAIN <<>> = {}
        BY EmptyRecord
      <3>2. ClearPause(d, <<>>)
        BY <1>16 DEF ReleaseBoth
      <3>3. Born(d)'
        BY <2>2 DEF Born, Stands
      <3>4. QED
        BY <3>1, <3>2, <3>3, ClearedRows
    <2>5. QED
      BY <2>1, <2>2, <2>3, <2>4, <1>w, RowsFollowQuiet
  <1>17. QED
    BY <1>1, <1>3, <1>4, <1>5, <1>6, <1>7, <1>8, <1>11, <1>12, <1>13, <1>14, <1>15, <1>16
       DEF DriverStep

(* A step of no driver.                                                    *)
LEMMA RowsFollowIdle ==
  ASSUME RecordTypeOK, RecordTypeOK', RowsFollow, run' = run, Lengthens,
         \A k \in New : SaysNothing(rows'[k])
  PROVE  RowsFollow'
  <1>1. \A x \in Drivers : Finished(x) => Finished(x)'
    BY DEF Finished
  <1>2. \A x : Born(x) => Born(x)'
    BY DEF Born, Stands
  <1>3. ASSUME NEW k \in DOMAIN rows' PROVE RowHolds(k)'
    BY <1>1, <1>2, NewRowsAreOfTheBorn
  <1>4. ASSUME NEW x \in Drivers, run'[x].clean
        PROVE  Recounts(EndSaid(x)', run'[x].happened, Past(x)')
    <2>1. EndSaid(x)' = EndSaid(x) /\ Past(x)' = Past(x)
      BY QuietRows DEF Past, Ended
    <2>2. QED
      BY <1>4, <2>1 DEF RowsFollow
  <1>5. QED
    BY <1>3, <1>4 DEF RowsFollow

LEMMA RowsFollowRest ==
  ASSUME RecordTypeOK, RecordTypeOK', Alone, RowsFollow,
         ReleaseLock \/ AskPause \/ CreatePause \/ RemovePause \/ Tick \/ UNCHANGED recordVars
  PROVE  RowsFollow'
  <1>1. run' = run
    BY DEF ReleaseLock, AskPause, CreatePause, RemovePause, Tick, recordVars
  <1>2. CASE ReleaseLock
    <2>1. PICK d \in Drivers : d = lock /\ Born(d)
      BY <1>2 DEF ReleaseLock, Alone, Born
    <2>2. PICK r \in RowSet : /\ r = RowBy(d, "released", "none", "cancelled") /\ r.by = d
                              /\ r.kind = "released" /\ r.to = "cancelled"
      BY RowIs, Words DEF Kinds
    <2>3. PICK s : s = <<r>>
      OBVIOUS
    <2>4. s \in Seq(RowSet) /\ \A i \in DOMAIN s : s[i] = r
      BY <2>3
    <2>5. ClearPause(d, s)
      BY <1>2, <2>1, <2>2, <2>3 DEF ReleaseLock
    <2>6. Born(d)'
      BY <1>1, <2>1 DEF Born, Stands
    <2>7. \A i \in DOMAIN s : s[i].by = d /\ s[i].to # "done" /\ SaysNothing(s[i])
      BY <2>2, <2>4 DEF SaysNothing
    <2>8. Lengthens /\ \A k \in New : SaysNothing(rows'[k])
      BY <2>4, <2>5, <2>6, <2>7, ClearedRows
    <2>9. QED
      BY <1>1, <2>8, RowsFollowIdle
  <1>3. CASE ~ReleaseLock
    <2>1. rows' = rows
      BY <1>3 DEF AskPause, CreatePause, RemovePause, Tick, records, recordVars
    <2>2. QED
      BY <1>1, <2>1, NoMoreRows, RowsFollowIdle
  <1>4. QED
    BY <1>2, <1>3

-----------------------------------------------------------------------------
(* The log only grows *)

Grows == Len(rows) <= Len(rows') /\ \A k \in 1 .. Len(rows) : rows'[k] = rows[k]

LEMMA GrowsBy ==
  ASSUME RecordTypeOK
  PROVE  /\ rows' = rows => Grows
         /\ \A d \in Drivers, kind \in Kinds, v \in Reasons,
               to \in {"wip", "deferred", "blocked", "done", "cancelled"} :
              Emit(RowBy(d, kind, v, to)) => Grows
         /\ \A d \in Drivers, s \in Seq(RowSet) : ClearPause(d, s) => Grows
  <1>1. rows \in Seq(RowSet) /\ Len(rows) \in Nat
    BY RowsAre
  <1>2. rows' = rows => Grows
    BY <1>1 DEF Grows
  <1>3. ASSUME NEW d \in Drivers, NEW kind \in Kinds, NEW v \in Reasons,
               NEW to \in {"wip", "deferred", "blocked", "done", "cancelled"},
               Emit(RowBy(d, kind, v, to))
        PROVE  Grows
    <2>1. RowBy(d, kind, v, to) \in RowSet
      BY RowIsTyped
    <2>2. QED
      BY <1>1, <1>3, <2>1, AppendProperties DEF Emit, Grows
  <1>4. ASSUME NEW d \in Drivers, NEW s \in Seq(RowSet), ClearPause(d, s)
        PROVE  Grows
    <2>1. RowBy(d, "stale_cleared", "none", "wip") \in RowSet
      BY RowIsTyped, Words DEF Kinds
    <2>0. PICK t : t = IF pause = NoPause THEN <<>> ELSE <<RowBy(d, "stale_cleared", "none", "wip")>>
      OBVIOUS
    <2>2. t \in Seq(RowSet) /\ rows' = rows \o s \o t
      <3>1. t \in Seq(RowSet)
        BY <2>0, <2>1
      <3>2. QED
        BY <1>4, <2>0, <3>1 DEF ClearPause
    <2>3. rows \o s \in Seq(RowSet) /\ Len(rows \o s) = Len(rows) + Len(s) /\ Len(s) \in Nat
          /\ \A k \in 1 .. Len(rows) : (rows \o s)[k] = rows[k]
      BY <1>1, ConcatProperties, SeqIs
    <2>4. Len(rows') = Len(rows \o s) + Len(t) /\ Len(t) \in Nat
          /\ \A k \in 1 .. Len(rows \o s) : rows'[k] = (rows \o s)[k]
      BY <2>2, <2>3, ConcatProperties, SeqIs
    <2>5. QED
      BY <1>1, <2>3, <2>4 DEF Grows
  <1>5. QED
    BY <1>2, <1>3, <1>4

LEMMA RowsGrow ==
  ASSUME RecordTypeOK, [RecordNext]_recordVars
  PROVE  Grows
  <1>1. ASSUME NEW d \in Drivers, DriverStep(d)
        PROVE  Grows
    <2>k. /\ {"refused", "registered", "start", "boundary", "sealed", "complete"} \subseteq Kinds
          /\ CapRows \subseteq Reasons /\ {"none", "passed", "sealed_path_refused"} \subseteq Reasons
          /\ {"wall_clock_exceeded", "concurrent_chain_refused"} \subseteq CapRows
      BY Words DEF Kinds, CapRows
    <2>r. run[d].verdict \in Reasons
      BY Words DEF RecordTypeOK, Runs
    <2>1. ASSUME NEW c \in Drivers, NEW first \in Phases, Launch(d, c, first)
          PROVE  Grows
      BY <2>1, <2>k, LaunchRun, GrowsBy
    <2>2. CASE AutoRegister(d) \/ EmitChainStart(d) \/ BoundaryRefused(d) \/ EmitChainComplete(d)
      <3>1. \/ rows' = rows
            \/ Emit(RowBy(d, "registered", "none", "wip"))
            \/ Emit(RowBy(d, "start", "none", "wip"))
            \/ Emit(RowBy(d, "sealed", "sealed_path_refused", "blocked"))
            \/ Emit(RowBy(d, "complete", "none", "done"))
        BY <2>2 DEF AutoRegister, EmitChainStart, BoundaryRefused, EmitChainComplete
      <3>2. QED
        BY <3>1, <2>k, GrowsBy
    <2>3. CASE PrecheckCaps(d) \/ Recheck(d) \/ BoundaryHalts(d) \/ BoundaryPasses(d)
      <3>1. rows' = rows \/ \E v \in Reasons : Emit(RowBy(d, "boundary", v, StatusOf(v)))
        BY <2>3, <2>k, <2>r DEF PrecheckCaps, Recheck, BoundaryHalts, BoundaryPasses, EmitBoundary
      <3>2. QED
        BY <3>1, <2>k, GrowsBy, StatusIsName
    <2>4. CASE ReleaseBoth(d)
      BY <2>4, GrowsBy, EmptyRecord DEF ReleaseBoth
    <2>5. CASE StampChainStart(d) \/ Probe(d) \/ AppendBootstrap(d) \/ StampExit(d) \/ Raise(d)
               \/ Sigterm(d) \/ Kill9(d) \/ EmitSummary(d)
               \/ \E v \in Verdicts(run[d].phase) : PhaseEnds(d, v)
      BY <2>5, GrowsBy DEF StampChainStart, Probe, AppendBootstrap, StampExit, Raise, Sigterm, Kill9,
         EmitSummary, PhaseEnds, records
    <2>6. QED
      BY <1>1, <2>1, <2>2, <2>3, <2>4, <2>5 DEF DriverStep
  <1>2. CASE ReleaseLock
    <2>1. lock \in Drivers
      BY <1>2 DEF ReleaseLock, RecordTypeOK
    <2>2. RowBy(lock, "released", "none", "cancelled") \in RowSet
      BY <2>1, RowIsTyped, Words DEF Kinds
    <2>3. <<RowBy(lock, "released", "none", "cancelled")>> \in Seq(RowSet)
      BY <2>2
    <2>4. QED
      BY <1>2, <2>1, <2>3, GrowsBy DEF ReleaseLock
  <1>3. CASE AskPause \/ CreatePause \/ RemovePause \/ Tick \/ UNCHANGED recordVars
    BY <1>3, GrowsBy DEF AskPause, CreatePause, RemovePause, Tick, records, recordVars
  <1>4. QED
    BY <1>1, <1>2, <1>3 DEF RecordNext

LEMMA RowsOfGrows ==
  ASSUME RecordTypeOK, RecordTypeOK', Grows
  PROVE  \A d, K : RowsOf(d, K) \subseteq RowsOf(d, K)'
  <1>1. DOMAIN rows = 1 .. Len(rows) /\ DOMAIN rows' = 1 .. Len(rows')
        /\ Len(rows) \in Nat /\ Len(rows') \in Nat
    BY SeqIs DEF RecordTypeOK
  <1>2. QED
    BY <1>1 DEF Grows, RowsOf

-----------------------------------------------------------------------------
(* The summary *)

\* What the summary invariant says of one driver, and of one summary.
InHand(d) ==
  /\ run[d].clean /\ run[d].pc \in {"flush", "release"} /\ run[d].halt = "phase_success"
       => Earned(d)
  /\ run[d].clean /\ (Stands(d, "release") \/ (Stands(d, "gone") /\ RowsOf(d, {"refused"}) = {}))
       => summary[run[d].chain].by # None
Said(c) ==
  LET d == summary[c].by
  IN  /\ run[d].pc \in {"release", "gone"} /\ run[d].chain = c
      /\ summary[c].halt = run[d].halt /\ summary[c].results = run[d].results
      /\ run[d].clean /\ run[d].halt = "phase_success" => Earned(d)

LEMMA SummaryParts ==
  SummaryFollows <=> /\ \A d \in Drivers : InHand(d)
                     /\ \A c \in Drivers : summary[c].by # None => Said(c)
  BY DEF SummaryFollows, InHand, Said

LEMMA SummaryFollowsInit == RecordInit => SummaryFollows
  BY DEF RecordInit, SummaryFollows, Driver, NoSummary, Stands

(* What a driver that did not take the step has in hand.                   *)
LEMMA EarnedStays ==
  ASSUME RecordTypeOK, RecordTypeOK', Grows, NEW x, run'[x].results = run[x].results, Earned(x)
  PROVE  Earned(x)'
  BY RowsOfGrows DEF Earned

LEMMA InHandOfOthers ==
  ASSUME RecordTypeOK, RecordTypeOK', Grows, NEW x \in Drivers, run'[x] = run[x], InHand(x),
         \A c \in Drivers : summary[c].by # None => summary'[c].by # None,
         run[x].chain \in Drivers \/ run[x].pc = "unborn"
  PROVE  InHand(x)'
  <1>1. RowsOf(x, {"refused"})' = {} => RowsOf(x, {"refused"}) = {}
    BY RowsOfGrows
  <1>2. QED
    BY <1>1, EarnedStays DEF InHand, Stands

LEMMA SaidOfOthers ==
  ASSUME RecordTypeOK, RecordTypeOK', Grows, NEW c \in Drivers, summary'[c] = summary[c],
         summary[c].by # None, Said(c),
         LET x == summary[c].by
         IN  run'[x] = run[x] \/ (/\ run'[x].pc \in {"release", "gone"} /\ KeepsStart(x) /\ KeepsPast(x)
                                  /\ run'[x].halt = run[x].halt /\ (run'[x].clean => run[x].clean))
  PROVE  Said(c)'
  <1> DEFINE x == summary[c].by
  <1>1. summary'[c].by = x /\ summary'[c].halt = summary[c].halt /\ summary'[c].results = summary[c].results
    OBVIOUS
  <1>2. /\ run'[x].pc \in {"release", "gone"} /\ run'[x].chain = run[x].chain
        /\ run'[x].halt = run[x].halt /\ run'[x].results = run[x].results
        /\ (run'[x].clean => run[x].clean)
    BY DEF Said, KeepsStart, KeepsPast
  <1>3. QED
    BY <1>1, <1>2, EarnedStays DEF Said

LEMMA ChainIsNamed ==
  ASSUME Alone, NEW x \in Drivers
  PROVE  run[x].chain \in Drivers \/ run[x].pc = "unborn"
  BY DEF Alone, Born, Stands

(* A step that writes no summary.                                          *)
LEMMA SummaryKept ==
  ASSUME RecordTypeOK, RecordTypeOK', Alone, Grows, SummaryFollows, NEW d \in Drivers,
         Works(d) \/ (Stay(d) /\ run[d].pc = "unborn"), summary' = summary, InHand(d)'
  PROVE  SummaryFollows'
  <1>1. ASSUME NEW x \in Drivers
        PROVE  InHand(x)'
    <2>1. CASE x # d
      <3>1. run'[x] = run[x]
        BY <2>1 DEF Works, Stay
      <3>2. QED
        BY <3>1, InHandOfOthers, SummaryParts, ChainIsNamed
    <2>2. QED
      BY <2>1
  <1>2. ASSUME NEW c \in Drivers, summary[c].by # None
        PROVE  Said(c)'
    <2>1. Said(c)
      BY <1>2, SummaryParts
    <2>2. PICK x : x = summary[c].by
      OBVIOUS
    <2>3. x \in Drivers
      BY <1>2, <2>2 DEF RecordTypeOK, Summaries
    <2>4. CASE x # d
      <3>1. run'[x] = run[x]
        BY <2>3, <2>4 DEF Works, Stay
      <3>2. QED
        BY <1>2, <2>1, <2>2, <3>1, SaidOfOthers
    <2>5. CASE x = d
      <3>1. run[d].pc \in {"release", "gone"}
        BY <2>1, <2>2, <2>5 DEF Said
      <3>2. /\ Works(d) /\ run[d].pc = "release"
        BY <3>1 DEF Works, Alive
      <3>3. /\ run'[d].pc \in {"release", "gone"} /\ KeepsStart(d) /\ KeepsPast(d)
            /\ run'[d].halt = run[d].halt /\ (run'[d].clean => run[d].clean)
        BY <3>2 DEF Works, Closing
      <3>4. QED
        BY <1>2, <2>1, <2>2, <2>5, <3>3, SaidOfOthers
    <2>6. QED
      BY <2>4, <2>5
  <1>3. \A c \in Drivers : summary'[c].by = summary[c].by
    OBVIOUS
  <1>4. QED
    BY <1>1, <1>2, <1>3 DEF SummaryFollows, InHand, Said

LEMMA SummaryFollowsStep ==
  ASSUME RecordTypeOK, RecordTypeOK', Alone, Course, SummaryFollows, Grows,
         NEW d \in Drivers, DriverStep(d)
  PROVE  SummaryFollows'
  <1>t. run \in [Drivers -> Runs] /\ run[d] \in Runs /\ summary \in [Drivers -> Summaries]
    BY DEF RecordTypeOK
  <1>w. ASSUME run[d].pc # "unborn"
        PROVE  Works(d)
    BY <1>w, StepWorks, LaunchRun
  <1>h. InHand(d)
    BY SummaryParts
  <1>1. ASSUME NEW c \in Drivers, NEW first \in Phases, Launch(d, c, first)
        PROVE  SummaryFollows'
    <2>1. Stay(d) /\ run[d].pc = "unborn" /\ summary' = summary
      BY <1>1, LaunchRun DEF Launch
    <2>2. CASE run'[d].pc = "stamp"
      <3>1. InHand(d)'
        BY <2>2 DEF InHand, Stands
      <3>2. QED
        BY <2>1, <3>1, SummaryKept
    <2>3. CASE run'[d].pc = "gone" /\ Emit(RowBy(d, "refused", "concurrent_chain_refused", "blocked"))
      <3>1. PICK r \in RowSet : /\ r = RowBy(d, "refused", "concurrent_chain_refused", "blocked")
                                /\ r.by = d /\ r.kind = "refused"
        BY RowIs, Words DEF Kinds
      <3>2. PICK j : j = Len(rows) + 1
        OBVIOUS
      <3>3. rows'[j] = r /\ j \in DOMAIN rows'
        BY <2>3, <3>1, <3>2, Appends, RowsAre
      <3>4. j \in RowsOf(d, {"refused"})'
        BY <3>1, <3>3 DEF RowsOf
      <3>5. InHand(d)'
        BY <2>3, <3>4 DEF InHand, Stands
      <3>6. QED
        BY <2>1, <3>5, SummaryKept
    <2>4. QED
      BY <1>1, <2>2, <2>3, LaunchRun
  <1>2. ASSUME run[d].pc # "unborn", summary' = summary,
               \/ run'[d].pc \notin {"flush", "release", "gone"}
               \/ run'[d].pc = "flush" /\ run'[d].halt # "phase_success"
               \/ run'[d].clean = FALSE
        PROVE  SummaryFollows'
    <2>1. InHand(d)'
      BY <1>2 DEF InHand, Stands
    <2>2. QED
      BY <1>2, <1>w, <2>1, SummaryKept
  <1>3. CASE StampChainStart(d) \/ AutoRegister(d) \/ EmitChainStart(d) \/ Probe(d)
    <2>1. run[d].pc \in {"stamp", "register", "start", "probe"}
      BY <1>3 DEF StampChainStart, AutoRegister, EmitChainStart, Probe, Stands
    <2>2. \E w \in {"register", "start", "probe", "precheck"} : GoTo(d, w)
      BY <1>3 DEF StampChainStart, AutoRegister, EmitChainStart, Probe
    <2>3. run'[d].pc \in {"register", "start", "probe", "precheck"}
      BY <2>2, <1>t, GoToRun, Words
    <2>4. summary' = summary
      BY <1>3 DEF StampChainStart, AutoRegister, EmitChainStart, Probe, records
    <2>5. QED
      BY <1>2, <2>1, <2>3, <2>4
  <1>4. CASE PrecheckCaps(d) \/ Recheck(d)
    <2>1. run[d].pc \in {"precheck", "recheck"} /\ summary' = summary
      BY <1>4 DEF PrecheckCaps, Recheck, Stands
    <2>2. \/ \E w \in {"recheck", "bootstrap"} : GoTo(d, w)
          \/ \E h \in {"wall_clock_exceeded", "concurrent_chain_foreign"} : HaltsWith(d, h)
      BY <1>4 DEF PrecheckCaps, Recheck
    <2>3. \/ run'[d].pc \in {"recheck", "bootstrap"}
          \/ run'[d].pc = "flush" /\ run'[d].halt \in {"wall_clock_exceeded", "concurrent_chain_foreign"}
      BY <2>2, <1>t, GoToRun, HaltsWithRun, Words
    <2>4. QED
      BY <1>2, <2>1, <2>3
  <1>5. CASE BoundaryHalts(d) \/ BoundaryRefused(d)
    <2>1. run[d].pc = "boundary" /\ summary' = summary
      BY <1>5 DEF BoundaryHalts, BoundaryRefused, Stands
    <2>2. run[d].verdict \in Verdicts(run[d].phase)
      BY <2>1 DEF Course, CourseOf, Ended
    <2>3. run[d].verdict \in Reasons /\ run[d].verdict # "phase_success"
      BY <2>2, VerdictsAreNames, Words
    <2>4. \E h \in Reasons : h # "phase_success" /\ HaltsWith(d, h)
      BY <1>5, <2>3, Words DEF BoundaryHalts, BoundaryRefused
    <2>5. run'[d].pc = "flush" /\ run'[d].halt # "phase_success"
      BY <2>4, <1>t, HaltsWithRun
    <2>6. QED
      BY <1>2, <2>1, <2>5
  <1>6. CASE BoundaryPasses(d)
    <2>1. run[d].pc = "boundary" /\ run'[d].pc \in {"probe", "complete"} /\ summary' = summary
      BY <1>6, BoundaryPassesRun DEF BoundaryPasses
    <2>2. QED
      BY <1>2, <2>1
  <1>7. CASE AppendBootstrap(d) \/ StampExit(d) \/ \E v \in Verdicts(run[d].phase) : PhaseEnds(d, v)
    <2>1. summary' = summary
      BY <1>7 DEF AppendBootstrap, StampExit, PhaseEnds, records
    <2>2. run[d].pc # "unborn" /\ run'[d].pc \in {"phase", "exit", "boundary"}
      BY <1>7, AppendBootstrapRun, StampExitRun, PhaseEndsRun
    <2>3. QED
      BY <1>2, <2>1, <2>2
  <1>8. CASE Raise(d) \/ Sigterm(d) \/ Kill9(d)
    <2>1. summary' = summary
      BY <1>8 DEF Raise, Sigterm, Kill9, records
    <2>2. run'[d].clean = FALSE /\ run[d].pc # "unborn"
      BY <1>8, SpoiledRun, Words DEF Spoils, Alive
    <2>3. QED
      BY <1>2, <2>1, <2>2
  <1>9. CASE EmitChainComplete(d)
    <2>1. /\ run[d].pc = "complete" /\ HaltsWith(d, "phase_success") /\ summary' = summary
          /\ Emit(RowBy(d, "complete", "none", "done"))
      BY <1>9 DEF EmitChainComplete, Stands
    <2>2. /\ run'[d].pc = "flush" /\ KeepsPast(d) /\ run'[d].clean = run[d].clean
      BY <2>1, <1>t, HaltsWithRun, Words
    <2>3. ASSUME run[d].clean
          PROVE  \A k \in DOMAIN run[d].results : run[d].results[k].verdict = "passed"
      <3>1. Past(d) = Len(run[d].happened) /\ DOMAIN run[d].happened = 1 .. Len(run[d].happened)
        BY <2>1, PastIs DEF Past, Ended
      <3>2. /\ run[d].happened = run[d].results
            /\ \A k \in 1 .. Past(d) : run[d].happened[k].verdict = "passed"
        BY <2>1, <2>3, Words DEF Course, CourseOf
      <3>3. QED
        BY <3>1, <3>2
    <2>4. PICK r \in RowSet : r = RowBy(d, "complete", "none", "done") /\ r.by = d /\ r.kind = "complete"
      BY RowIs, Words DEF Kinds
    <2>5. PICK j : j = Len(rows) + 1
      OBVIOUS
    <2>6. rows'[j] = r /\ j \in DOMAIN rows'
      BY <2>1, <2>4, <2>5, Appends, RowsAre
    <2>7. j \in RowsOf(d, {"complete"})'
      BY <2>4, <2>6 DEF RowsOf
    <2>8. run[d].clean => Earned(d)'
      BY <2>2, <2>3, <2>7 DEF Earned, KeepsPast
    <2>9. InHand(d)'
      BY <2>2, <2>8 DEF InHand, Stands
    <2>10. QED
      BY <2>1, <2>9, <1>w, SummaryKept
  <1>10. CASE EmitSummary(d)
    <2>1. run[d].pc = "flush" /\ run'[d].halt = run[d].halt
      BY <1>10, SpoiledRun
    <2>2. CASE Spoils(d, "release") /\ summary' = summary
      BY <1>2, <2>1, <2>2 DEF Spoils
    <2>3. ASSUME GoTo(d, "release"),
                 summary' = [summary EXCEPT ![run[d].chain] =
                               [by |-> d, halt |-> run[d].halt, results |-> run[d].results]]
          PROVE  SummaryFollows'
      <3>1. /\ Stay(d) /\ KeepsStart(d) /\ KeepsPast(d) /\ run'[d].pc = "release"
            /\ run'[d].clean = run[d].clean
        BY <2>3, <1>t, GoToRun, Words
      <3>2. run[d].chain \in Drivers
        BY <2>1, ChainIsNamed
      <3>3. /\ summary'[run[d].chain] = [by |-> d, halt |-> run[d].halt, results |-> run[d].results]
            /\ \A c \in Drivers \ {run[d].chain} : summary'[c] = summary[c]
        BY <2>3, <3>2, <1>t
      <3>4. d # None
        BY RecordAssumption
      <3>5. run'[d].clean /\ run'[d].halt = "phase_success" => Earned(d)'
        BY <2>1, <3>1, <1>h, EarnedStays DEF InHand, KeepsPast
      <3>6. InHand(d)'
        BY <3>1, <3>3, <3>4, <3>5 DEF InHand, Stands, KeepsStart
      <3>7. ASSUME NEW c \in Drivers, c = run[d].chain
            PROVE  Said(c)'
        <4>2. /\ summary'[c].by = d /\ summary'[c].halt = run[d].halt
              /\ summary'[c].results = run[d].results
          BY <3>3, <3>7
        <4>3. /\ run'[d].pc = "release" /\ run'[d].chain = c /\ run'[d].halt = run[d].halt
              /\ run'[d].results = run[d].results
          BY <2>1, <3>1, <3>7 DEF KeepsStart, KeepsPast
        <4>4. QED
          BY <3>5, <4>2, <4>3 DEF Said
      <3>8. ASSUME NEW x \in Drivers PROVE InHand(x)'
        <4>1. CASE x # d
          <5>1. run'[x] = run[x]
            BY <3>1, <4>1 DEF Stay
          <5>2. \A c \in Drivers : summary[c].by # None => summary'[c].by # None
            BY <3>3, <3>4
          <5>3. QED
            BY <5>1, <5>2, InHandOfOthers, SummaryParts, ChainIsNamed
        <4>2. QED
          BY <3>6, <4>1
      <3>9. ASSUME NEW c \in Drivers, summary'[c].by # None PROVE Said(c)'
        <4>1. CASE c # run[d].chain
          <5>1. summary'[c] = summary[c] /\ Said(c)
            BY <3>3, <3>9, <4>1, SummaryParts
          <5>2. summary[c].by \in Drivers /\ summary[c].by # d
            BY <2>1, <3>9, <5>1, <1>t DEF Said, Summaries
          <5>3. run'[summary[c].by] = run[summary[c].by]
            BY <3>1, <5>2 DEF Stay
          <5>4. QED
            BY <3>9, <5>1, <5>3, SaidOfOthers
        <4>2. CASE c = run[d].chain
          BY <3>7, <4>2
        <4>3. QED
          BY <4>1, <4>2
      <3>10. QED
        BY <3>8, <3>9 DEF SummaryFollows, InHand, Said
    <2>4. QED
      BY <1>10, <2>2, <2>3, SpoiledRun
  <1>11. CASE ReleaseBoth(d)
    <2>1. run[d].pc = "release" /\ GoTo(d, "gone") /\ summary' = summary
      BY <1>11 DEF ReleaseBoth, Stands
    <2>2. run'[d].pc = "gone" /\ KeepsStart(d) /\ run'[d].clean = run[d].clean
      BY <2>1, <1>t, GoToRun, Words
    <2>3. InHand(d)'
      BY <2>1, <2>2, <1>h DEF InHand, Stands, KeepsStart
    <2>4. QED
      BY <2>1, <2>3, <1>w, SummaryKept
  <1>12. QED
    BY <1>1, <1>3, <1>4, <1>5, <1>6, <1>7, <1>8, <1>9, <1>10, <1>11 DEF DriverStep

LEMMA SummaryFollowsRest ==
  ASSUME RecordTypeOK, RecordTypeOK', Alone, Grows, SummaryFollows,
         ReleaseLock \/ AskPause \/ CreatePause \/ RemovePause \/ Tick \/ UNCHANGED recordVars
  PROVE  SummaryFollows'
  <1>1. run' = run /\ summary' = summary
    BY DEF ReleaseLock, AskPause, CreatePause, RemovePause, Tick, recordVars, records
  <1>2. ASSUME NEW x \in Drivers PROVE InHand(x)'
    BY <1>1, InHandOfOthers, SummaryParts, ChainIsNamed
  <1>3. ASSUME NEW c \in Drivers, summary'[c].by # None PROVE Said(c)'
    BY <1>1, <1>3, SaidOfOthers, SummaryParts
  <1>4. QED
    BY <1>2, <1>3 DEF SummaryFollows, InHand, Said

-----------------------------------------------------------------------------
(* The entries of the manifest *)

LEMMA EntriesAre ==
  ASSUME RecordTypeOK
  PROVE  /\ manifest.phases \in Seq(Entries) /\ Len(manifest.phases) \in Nat
         /\ DOMAIN manifest.phases = 1 .. Len(manifest.phases)
         /\ \A k \in 1 .. Len(manifest.phases) : manifest.phases[k] \in Entries
         /\ \A d : Ours(d) \subseteq 1 .. Len(manifest.phases)
         /\ \A d : Closed(d) \subseteq Ours(d) /\ DOMAIN ClosedSaid(d) = Closed(d)
         /\ \A d : IsFiniteSet(Closed(d)) /\ Closed(d) \subseteq Nat
  <1>1. manifest.phases \in Seq(Entries)
    BY DEF RecordTypeOK, Manifests
  <1>2. /\ Len(manifest.phases) \in Nat /\ DOMAIN manifest.phases = 1 .. Len(manifest.phases)
        /\ \A k \in 1 .. Len(manifest.phases) : manifest.phases[k] \in Entries
    BY <1>1, SeqIs
  <1>3. ASSUME NEW d
        PROVE  /\ Ours(d) \subseteq 1 .. Len(manifest.phases)
               /\ Closed(d) \subseteq Ours(d) /\ DOMAIN ClosedSaid(d) = Closed(d)
               /\ IsFiniteSet(Closed(d)) /\ Closed(d) \subseteq Nat
    <2>1. Ours(d) \subseteq 1 .. Len(manifest.phases) /\ Closed(d) \subseteq Ours(d)
      BY <1>2 DEF Ours, Closed
    <2>2. IsFiniteSet(1 .. Len(manifest.phases))
      <3>1. PICK n \in Nat : n = Len(manifest.phases)
        BY <1>2
      <3>2. IsFiniteSet(1 .. n)
        BY FS_Interval
      <3>3. QED
        BY <3>1, <3>2
    <2>3. IsFiniteSet(Closed(d))
      BY <2>1, <2>2, FS_Subset
    <2>4. QED
      BY <2>1, <2>3 DEF ClosedSaid
  <1>4. QED
    BY <1>1, <1>2, <1>3

LEMMA EntriesFollowInit == RecordInit => EntriesFollow
  <1> SUFFICES ASSUME RecordInit PROVE EntriesFollow
    OBVIOUS
  <1>1. DOMAIN manifest.phases = {} /\ manifest.of = {}
    BY DEF RecordInit
  <1>2. ASSUME NEW d \in Drivers PROVE EntriesOf(d)
    <2>1. run[d].pc = "unborn"
      BY DEF RecordInit, Driver
    <2>2. Ours(d) = {} /\ Closed(d) = {}
      BY <1>1 DEF Ours, Closed
    <2>3. QED
      BY <1>1, <2>1, <2>2, Words DEF EntriesOf, InTry
  <1>3. QED
    BY <1>1, <1>2 DEF EntriesFollow

(* What any step leaves true of an entry that is closed.                   *)
LEMMA ClosedStaysTrue ==
  ASSUME RecordTypeOK, NEW e \in Entries, ClosedIsTrue(e),
         \A x \in Drivers : /\ \A k \in DOMAIN run[x].happened : /\ k \in DOMAIN run'[x].happened
                                                                 /\ run'[x].happened[k] = run[x].happened[k]
                            /\ run'[x].clean => run[x].clean
  PROVE  ClosedIsTrue(e)'
  <1>1. e.by \in Drivers
    BY DEF Entries
  <1>2. QED
    BY <1>1 DEF ClosedIsTrue, Outcome

LEMMA PastStays ==
  ASSUME RecordTypeOK, RecordTypeOK', Alone, NEW d \in Drivers, DriverStep(d), NEW x \in Drivers
  PROVE  /\ \A k \in DOMAIN run[x].happened : /\ k \in DOMAIN run'[x].happened
                                              /\ run'[x].happened[k] = run[x].happened[k]
         /\ run'[x].clean => run[x].clean
  <1>1. CASE x # d
    BY <1>1, StepWorks, LaunchRun DEF Works, Stay
  <1>2. CASE x = d /\ run[d].pc = "unborn"
    <2>1. run[d] = Driver
      BY <1>2 DEF Alone, Stands
    <2>2. run[d].happened = <<>> /\ run[d].clean
      BY <2>1 DEF Driver
    <2>3. QED
      BY <1>2, <2>2
  <1>3. CASE x = d /\ run[d].pc # "unborn"
    <2>1. Works(d)
      BY <1>3, StepWorks, LaunchRun
    <2>2. /\ Len(run[d].happened) \in Nat /\ Len(run'[d].happened) \in Nat
          /\ DOMAIN run[d].happened = 1 .. Len(run[d].happened)
          /\ DOMAIN run'[d].happened = 1 .. Len(run'[d].happened)
      BY SeqIs DEF RecordTypeOK, Runs
    <2>3. QED
      BY <1>3, <2>1, <2>2 DEF Works
  <1>4. QED
    BY <1>1, <1>2, <1>3

LEMMA NotedIs ==
  ASSUME RecordTypeOK, NEW d \in Drivers
  PROVE  /\ Stands(d, "exit") => Noted(d) = Len(run[d].happened) - 1
         /\ ~Stands(d, "exit") => Noted(d) = Len(run[d].happened)
         /\ Noted(d) \in Int /\ Noted(d) <= Len(run[d].happened)
  <1>1. Len(run[d].happened) \in Nat
    BY PastIs
  <1>2. CASE Stands(d, "exit")
    BY <1>1, <1>2 DEF Noted
  <1>3. CASE ~Stands(d, "exit")
    BY <1>1, <1>3 DEF Noted
  <1>4. QED
    BY <1>1, <1>2, <1>3

(* The entries of a driver, if nothing happens to them or to it.           *)
LEMMA EntriesOfOthers ==
  ASSUME NEW x, EntriesOf(x), run'[x] = run[x], manifest' = manifest
  PROVE  EntriesOf(x)'
  BY DEF EntriesOf, Ours, Closed, ClosedSaid, Noted, Stands, Outcome

LEMMA EntriesKept ==
  ASSUME RecordTypeOK, RecordTypeOK', Alone, EntriesFollow, NEW d \in Drivers, DriverStep(d),
         run[d].pc # "unborn", manifest' = manifest,
         run[d].pc = "stamp" => ~run'[d].clean /\ run'[d].pc \notin InTry,
         run'[d].pc \in InTry => run[d].pc \in InTry,
         run'[d].pc # "stamp",
         run'[d].clean =>
           \/ run[d].pc = "phase" /\ run'[d].pc = "exit" /\ run'[d].phase = run[d].phase
              /\ Len(run'[d].happened) = Len(run[d].happened) + 1
           \/ run[d].pc \notin {"phase", "exit"} /\ run'[d].pc \notin {"phase", "exit"}
              /\ run'[d].happened = run[d].happened
  PROVE  EntriesFollow'
  <1>w. Works(d)
    BY StepWorks, LaunchRun
  <1>1. EntriesOf(d)'
    <2>0. EntriesOf(d) /\ run'[d].chain = run[d].chain /\ (run'[d].clean => run[d].clean)
      BY <1>w DEF EntriesFollow, Works, KeepsStart
    <2>1. Ours(d)' = Ours(d) /\ Closed(d)' = Closed(d) /\ ClosedSaid(d)' = ClosedSaid(d)
      BY DEF Ours, Closed, ClosedSaid
    <2>2. /\ run'[d].pc \in InTry \ {"stamp"} => d \in manifest'.of
          /\ d \in manifest'.of => manifest'.chain = run'[d].chain
          /\ Ours(d)' # {} => d \in manifest'.of
      BY <2>0, <2>1 DEF EntriesOf
    <2>3. ASSUME run'[d].clean
          PROVE  /\ run'[d].pc \in {"phase", "exit"} =>
                      /\ manifest'.phases # <<>>
                      /\ manifest'.phases[Len(manifest'.phases)]
                           = [phase |-> run'[d].phase, by |-> d, verdict |-> "open"]
                 /\ \A k \in Ours(d)' \ Closed(d)' :
                      run'[d].pc \in {"phase", "exit"} /\ k = Len(manifest'.phases)
      BY <2>0, <2>1, <2>3 DEF EntriesOf
    <2>4. ASSUME run'[d].clean, d \in manifest.of
          PROVE  Recounts(ClosedSaid(d)', run'[d].happened, Noted(d)')
      <3>1. Recounts(ClosedSaid(d), run[d].happened, Noted(d))
        BY <2>0, <2>4 DEF EntriesOf
      <3>2. Recounts(ClosedSaid(d), run'[d].happened, Noted(d))
        BY <1>w, <3>1, RecountsLater, EntriesAre, NotedIs
      <3>3. Len(run[d].happened) \in Nat /\ Len(run'[d].happened) \in Nat
        BY SeqIs DEF RecordTypeOK, Runs
      <3>4. Noted(d)' = Noted(d)
        <4>1. CASE run[d].pc = "phase"
          <5>0. run'[d].pc = "exit" /\ Len(run'[d].happened) = Len(run[d].happened) + 1
            BY <2>4, <4>1
          <5>1. Noted(d) = Len(run[d].happened)
            BY <4>1, NotedIs DEF Stands
          <5>2. Noted(d)' = Len(run'[d].happened) - 1
            BY <5>0 DEF Noted, Stands
          <5>3. QED
            BY <3>3, <5>0, <5>1, <5>2
        <4>2. CASE run[d].pc # "phase"
          BY <2>4, <4>2 DEF Noted, Stands
        <4>3. QED
          BY <4>1, <4>2
      <3>5. QED
        BY <2>1, <3>2, <3>4
    <2>5. QED
      BY <2>2, <2>3, <2>4 DEF EntriesOf
  <1>2. ASSUME NEW x \in Drivers PROVE EntriesOf(x)'
    <2>1. CASE x # d
      BY <1>w, <2>1, EntriesOfOthers DEF EntriesFollow, Works, Stay
    <2>2. QED
      BY <1>1, <2>1
  <1>3. ASSUME NEW i \in DOMAIN manifest'.phases, manifest'.phases[i].verdict # "open"
        PROVE  ClosedIsTrue(manifest.phases[i])'
    <2>1. PICK e \in Entries : e = manifest.phases[i]
      BY EntriesAre
    <2>2. ClosedIsTrue(e)
      BY <1>3, <2>1 DEF EntriesFollow
    <2>3. ClosedIsTrue(e)'
      BY <2>2, ClosedStaysTrue, PastStays
    <2>4. QED
      BY <2>1, <2>3
  <1>4. QED
    BY <1>2, <1>3 DEF EntriesFollow

LEMMA StampChainStartEntries ==
  ASSUME RecordTypeOK, RecordTypeOK', Alone, Course, EntriesFollow, NEW d \in Drivers, StampChainStart(d)
  PROVE  EntriesFollow'
  <1>t. run \in [Drivers -> Runs] /\ manifest \in Manifests /\ run[d].pc = "stamp"
    BY DEF RecordTypeOK, StampChainStart, Stands
  <1>r. /\ Stay(d) /\ KeepsStart(d) /\ KeepsPast(d) /\ run'[d].pc = "register"
        /\ run'[d].clean = run[d].clean
    BY <1>t, GoToRun, Words DEF StampChainStart
  <1>h. run[d].happened = <<>> /\ Len(run[d].happened) = 0
    BY <1>t DEF Course, CourseOf
  <1>n. Noted(d)' = 0
    BY <1>h, <1>r DEF Noted, Stands, KeepsPast
  <1>o. \A x \in Drivers \ {d} : run'[x] = run[x] /\ run[x].pc \notin InTry
    BY <1>t, <1>r, Words DEF Alone, Alive, Stay
  <1>1. CASE manifest.chain = run[d].chain
    <2>1. manifest'.phases = manifest.phases /\ manifest'.of = manifest.of \cup {d}
          /\ manifest'.chain = manifest.chain
      BY <1>1, <1>t DEF StampChainStart, Manifests
    <2>2. \A x : /\ Ours(x)' = Ours(x) /\ Closed(x)' = Closed(x) /\ ClosedSaid(x)' = ClosedSaid(x)
      BY <2>1 DEF Ours, Closed, ClosedSaid
    <2>3. ASSUME NEW x \in Drivers \ {d} PROVE EntriesOf(x)'
      <3>1. Noted(x)' = Noted(x) /\ EntriesOf(x)
        BY <1>o DEF Noted, Stands, EntriesFollow
      <3>2. QED
        BY <1>o, <2>1, <2>2, <3>1 DEF EntriesOf
    <2>4. EntriesOf(d)'
      <3>1. EntriesOf(d)
        BY DEF EntriesFollow
      <3>2. ASSUME run[d].clean PROVE Recounts(ClosedSaid(d), <<>>, 0)
        <4>1. CASE d \in manifest.of
          <5>1. Noted(d) = 0
            BY <1>t, <1>h DEF Noted, Stands
          <5>2. QED
            BY <1>h, <3>1, <3>2, <4>1, <5>1 DEF EntriesOf
        <4>2. CASE d \notin manifest.of
          <5>1. Closed(d) = {}
            BY <3>1, <4>2, EntriesAre DEF EntriesOf
          <5>2. DOMAIN ClosedSaid(d) = {}
            BY <5>1, EntriesAre
          <5>3. QED
            BY <5>2, FS_EmptySet DEF Recounts
        <4>3. QED
          BY <4>1, <4>2
      <3>3. Ours(d) \ Closed(d) = {} \/ ~run[d].clean
        BY <1>t, <3>1 DEF EntriesOf
      <3>4. ASSUME run'[d].clean PROVE Recounts(ClosedSaid(d)', run'[d].happened, Noted(d)')
        BY <3>4, <1>h, <1>n, <1>r, <2>2, <3>2 DEF KeepsPast
      <3>5. QED
        BY <1>1, <1>r, <2>1, <2>2, <3>3, <3>4 DEF EntriesOf, KeepsStart
    <2>5. ASSUME NEW i \in DOMAIN manifest'.phases, manifest'.phases[i].verdict # "open"
          PROVE  ClosedIsTrue(manifest.phases[i])'
      <3>1. PICK e \in Entries : e = manifest.phases[i]
        BY <2>1, EntriesAre
      <3>2. ClosedIsTrue(e)
        BY <2>1, <2>5, <3>1 DEF EntriesFollow
      <3>3. ClosedIsTrue(e)'
        BY <1>o, <1>r, <3>2, ClosedStaysTrue DEF KeepsPast
      <3>4. manifest'.phases[i] = e
        BY <2>1, <3>1
      <3>5. QED
        BY <3>3, <3>4
    <2>6. QED
      BY <2>3, <2>4, <2>5 DEF EntriesFollow
  <1>2. CASE manifest.chain # run[d].chain
    <2>1. manifest'.phases = <<>> /\ manifest'.of = {d} /\ manifest'.chain = run[d].chain
      BY <1>2, <1>t DEF StampChainStart
    <2>2. \A x : Ours(x)' = {} /\ Closed(x)' = {} /\ DOMAIN ClosedSaid(x)' = {}
      BY <2>1 DEF Ours, Closed, ClosedSaid
    <2>3. Recounts(ClosedSaid(d)', run'[d].happened, 0)
      BY <2>2, FS_EmptySet DEF Recounts
    <2>4. EntriesOf(d)'
      BY <1>r, <1>n, <2>1, <2>2, <2>3 DEF EntriesOf, KeepsStart
    <2>5. ASSUME NEW x \in Drivers \ {d} PROVE EntriesOf(x)'
      BY <1>o, <2>1, <2>2, Words DEF EntriesOf
    <2>6. QED
      BY <2>1, <2>4, <2>5 DEF EntriesFollow
  <1>3. QED
    BY <1>1, <1>2

LEMMA AppendBootstrapEntries ==
  ASSUME RecordTypeOK, RecordTypeOK', Alone, Course, EntriesFollow, NEW d \in Drivers,
         DriverStep(d), AppendBootstrap(d),
         manifest' = [manifest EXCEPT !.phases = Append(@,
                        [phase |-> run[d].phase, by |-> d, verdict |-> "open"])]
  PROVE  EntriesFollow'
  <1>t. run \in [Drivers -> Runs] /\ manifest \in Manifests
    BY DEF RecordTypeOK
  <1>r. /\ Stay(d) /\ KeepsStart(d) /\ KeepsPast(d) /\ KeepsPhase(d) /\ run[d].pc = "bootstrap"
        /\ run'[d].pc = "phase" /\ (run'[d].clean => run[d].clean)
    BY AppendBootstrapRun, PastStays
  <1>o. \A x \in Drivers \ {d} : run'[x] = run[x] /\ run[x].pc \notin InTry
    BY <1>r, Words DEF Alone, Alive, Stay
  <1>0. PICK e \in Entries : e = [phase |-> run[d].phase, by |-> d, verdict |-> "open"]
    BY <1>t DEF Runs, Entries
  <1>1. PICK s \in Seq(Entries) : s = manifest.phases
    BY EntriesAre
  <1>2. PICK n \in Nat : n = Len(s)
    BY <1>1, EntriesAre
  <1>3. /\ manifest'.phases = Append(s, e) /\ manifest'.of = manifest.of
        /\ manifest'.chain = manifest.chain
    BY <1>0, <1>1, <1>t DEF Manifests
  <1>4. /\ Len(manifest'.phases) = n + 1 /\ manifest'.phases[n + 1] = e
        /\ DOMAIN manifest'.phases = (1 .. n) \cup {n + 1} /\ DOMAIN s = 1 .. n
        /\ \A k \in 1 .. n : manifest'.phases[k] = s[k]
    BY <1>1, <1>2, <1>3, AppendIn
  <1>5. /\ \A x : Closed(x)' = Closed(x)
        /\ \A x : x # d => Ours(x)' = Ours(x)
        /\ Ours(d)' = Ours(d) \cup {n + 1}
    BY <1>0, <1>1, <1>4 DEF Ours, Closed
  <1>6. ASSUME NEW x PROVE ClosedSaid(x)' = ClosedSaid(x)
    <2>1. \A k \in Closed(x) : k \in 1 .. n
      BY <1>1, <1>4 DEF Closed, Ours
    <2>2. QED
      BY <2>1, <1>1, <1>4, <1>5 DEF ClosedSaid
  <1>7. ASSUME NEW x \in Drivers \ {d} PROVE EntriesOf(x)'
    <2>1. Noted(x)' = Noted(x) /\ EntriesOf(x) /\ run[x].pc \notin {"phase", "exit"}
      BY <1>o, Words DEF Noted, Stands, EntriesFollow
    <2>2. QED
      BY <1>o, <1>3, <1>5, <1>6, <2>1 DEF EntriesOf
  <1>8. EntriesOf(d)'
    <2>0. EntriesOf(d)
      BY DEF EntriesFollow
    <2>1. Noted(d)' = Noted(d)
      BY <1>r DEF Noted, Stands, KeepsPast
    <2>2. run'[d].clean => Ours(d) \ Closed(d) = {}
      BY <1>r, <2>0 DEF EntriesOf
    <2>3. d \in manifest.of /\ manifest.chain = run'[d].chain
      BY <1>r, <2>0, Words DEF EntriesOf, KeepsStart
    <2>4. manifest'.phases[Len(manifest'.phases)]
            = [phase |-> run'[d].phase, by |-> d, verdict |-> "open"]
      BY <1>0, <1>r, <1>4 DEF KeepsPhase
    <2>5. manifest'.phases # <<>>
      BY <1>4
    <2>6. run'[d].clean => Recounts(ClosedSaid(d)', run'[d].happened, Noted(d)')
      BY <1>r, <1>6, <2>0, <2>1, <2>3 DEF EntriesOf, KeepsPast
    <2>7. run'[d].clean => \A k \in Ours(d)' \ Closed(d)' : k = n + 1
      BY <1>5, <2>2
    <2>8. QED
      BY <1>r, <1>3, <1>4, <2>3, <2>4, <2>5, <2>6, <2>7 DEF EntriesOf
  <1>9. ASSUME NEW i \in DOMAIN manifest'.phases, manifest'.phases[i].verdict # "open"
        PROVE  ClosedIsTrue(manifest.phases[i])'
    <2>1. i \in 1 .. n /\ manifest'.phases[i] = s[i]
      BY <1>0, <1>4, <1>9
    <2>2. PICK c \in Entries : c = s[i]
      BY <2>1, <1>1, <1>2, EntriesAre
    <2>3. ClosedIsTrue(c)
      BY <1>1, <1>4, <1>9, <2>1, <2>2 DEF EntriesFollow
    <2>4. ClosedIsTrue(c)'
      BY <2>3, ClosedStaysTrue, PastStays
    <2>5. manifest'.phases[i] = c
      BY <2>1, <2>2
    <2>6. QED
      BY <2>4, <2>5
  <1>10. QED
    BY <1>7, <1>8, <1>9 DEF EntriesFollow

(* A driver that nothing disturbed closes its own entry, the last one.     *)
LEMMA OpenEntryIs ==
  ASSUME RecordTypeOK, EntriesFollow, NEW d \in Drivers, run[d].pc = "exit", run[d].clean
  PROVE  /\ OpenEntry(d) = {Len(manifest.phases)}
         /\ Len(manifest.phases) \in DOMAIN manifest.phases
         /\ manifest.phases[Len(manifest.phases)]
              = [phase |-> run[d].phase, by |-> d, verdict |-> "open"]
  <1>1. /\ manifest.phases # <<>>
        /\ manifest.phases[Len(manifest.phases)]
             = [phase |-> run[d].phase, by |-> d, verdict |-> "open"]
    BY DEF EntriesFollow, EntriesOf
  <1>2. PICK n \in Nat : n = Len(manifest.phases)
    BY EntriesAre
  <1>3. DOMAIN manifest.phases = 1 .. n /\ n \in 1 .. n
    BY <1>1, <1>2, EntriesAre, EmptySeq
  <1>4. QED
    BY <1>1, <1>2, <1>3 DEF OpenEntry

LEMMA StampExitEntries ==
  ASSUME RecordTypeOK, RecordTypeOK', Alone, Course, EntriesFollow, NEW d \in Drivers,
         DriverStep(d), StampExit(d), manifest' = [manifest EXCEPT !.phases = Stamped(d)]
  PROVE  EntriesFollow'
  <1>t. run \in [Drivers -> Runs] /\ manifest \in Manifests /\ run[d] \in Runs
    BY DEF RecordTypeOK
  <1>r. /\ Stay(d) /\ KeepsStart(d) /\ KeepsPhase(d) /\ run'[d].happened = run[d].happened
        /\ run[d].pc = "exit" /\ run'[d].pc = "boundary" /\ (run'[d].clean => run[d].clean)
    BY StampExitRun, PastStays
  <1>o. \A x \in Drivers \ {d} : run'[x] = run[x] /\ run[x].pc \notin InTry
    BY <1>r, Words DEF Alone, Alive, Stay
  <1>v. /\ run[d].happened # <<>> /\ run[d].happened[Len(run[d].happened)] = Latest(d)
        /\ run[d].verdict # "open"
    BY <1>r, VerdictsAreNames DEF Course, CourseOf, Ended
  <1>l. Len(run[d].happened) \in DOMAIN run[d].happened
    <2>1. run[d].happened \in Seq(Outcomes)
      BY <1>t DEF Runs
    <2>2. QED
      BY <1>v, <2>1, SeqIs, EmptySeq
  <1> DEFINE s == manifest.phases
  <1>1. /\ manifest'.phases = Stamped(d) /\ manifest'.of = manifest.of
        /\ manifest'.chain = manifest.chain
    BY <1>t, StampedIs, PhasesPut
  <1>2. PICK n \in Nat : n = Len(s)
    BY EntriesAre
  <1>3. DOMAIN s = 1 .. n /\ \A k \in 1 .. n : s[k] \in Entries
    BY <1>2, EntriesAre
  <1>4. /\ Len(manifest'.phases) = n /\ DOMAIN manifest'.phases = 1 .. n
        /\ \A k \in 1 .. n : manifest'.phases[k] = IF k \in OpenEntry(d)
                                                   THEN [s[k] EXCEPT !.verdict = run[d].verdict]
                                                   ELSE s[k]
    BY <1>1, <1>2, StampedIs, SeqIs
  <1>5. \A k \in 1 .. n : /\ manifest'.phases[k].by = s[k].by /\ manifest'.phases[k].phase = s[k].phase
                          /\ manifest'.phases[k].verdict
                               = IF k \in OpenEntry(d) THEN run[d].verdict ELSE s[k].verdict
    BY <1>3, <1>4 DEF Entries
  <1>6. OpenEntry(d) \subseteq 1 .. n
        /\ \A k \in OpenEntry(d) : s[k].verdict = "open" /\ s[k].phase = run[d].phase
    BY <1>3 DEF OpenEntry
  <1> HIDE DEF s
  <1>7. \A x : Ours(x)' = Ours(x) /\ Closed(x)' = Closed(x) \cup (Ours(x) \cap OpenEntry(d))
    <2>1. ASSUME NEW x PROVE Ours(x)' = Ours(x)
      BY <1>3, <1>4, <1>5 DEF Ours, s
    <2>2. ASSUME NEW x PROVE Closed(x)' = Closed(x) \cup (Ours(x) \cap OpenEntry(d))
      <3>1. Ours(x) \subseteq 1 .. n
        BY <1>3 DEF Ours, s
      <3>2. \A k \in Ours(x) : k \in Closed(x)' <=> k \in Closed(x) \/ k \in OpenEntry(d)
        BY <1>v, <1>5, <2>1, <3>1 DEF Closed, s
      <3>3. Closed(x)' \subseteq Ours(x) /\ Closed(x) \subseteq Ours(x)
        BY <2>1 DEF Closed
      <3>4. QED
        BY <3>2, <3>3
    <2>3. QED
      BY <2>1, <2>2
  <1>8. ASSUME NEW x \in Drivers \ {d} PROVE EntriesOf(x)'
    <2>1. Noted(x)' = Noted(x) /\ EntriesOf(x) /\ run[x].pc \notin {"phase", "exit"}
      BY <1>o, Words DEF Noted, Stands, EntriesFollow
    <2>2. ASSUME run[x].clean
          PROVE  Closed(x)' = Closed(x) /\ ClosedSaid(x)' = ClosedSaid(x) /\ Ours(x) \ Closed(x) = {}
      <3>1. Ours(x) \ Closed(x) = {}
        BY <2>1, <2>2 DEF EntriesOf
      <3>2. \A k \in Ours(x) : k \in 1 .. n /\ k \notin OpenEntry(d)
        BY <1>6, <1>3, <3>1 DEF Ours, Closed, s
      <3>3. Closed(x)' = Closed(x)
        BY <1>7, <3>2
      <3>4. \A k \in Closed(x) : k \in 1 .. n /\ k \notin OpenEntry(d)
        BY <3>2, EntriesAre
      <3>5. ClosedSaid(x)' = ClosedSaid(x)
        BY <1>4, <3>3, <3>4 DEF ClosedSaid, s
      <3>6. QED
        BY <3>1, <3>3, <3>5
    <2>3. QED
      BY <1>o, <1>1, <1>7, <2>1, <2>2 DEF EntriesOf
  <1>9. EntriesOf(d)'
    <2>0. EntriesOf(d)
      BY DEF EntriesFollow
    <2>1. d \in manifest.of /\ manifest.chain = run'[d].chain
      BY <1>r, <2>0, Words DEF EntriesOf, KeepsStart
    <2>2. ASSUME run'[d].clean
          PROVE  Ours(d)' \ Closed(d)' = {} /\ Recounts(ClosedSaid(d)', run'[d].happened, Noted(d)')
      <3>1. OpenEntry(d) = {n} /\ n \in 1 .. n /\ s[n] = [phase |-> run[d].phase, by |-> d, verdict |-> "open"]
        BY <1>r, <1>2, <1>3, <2>2, OpenEntryIs DEF s
      <3>2. n \in Ours(d) /\ n \notin Closed(d)
        BY <1>3, <3>1 DEF Ours, Closed, s
      <3>3. Ours(d) \ Closed(d) \subseteq {n}
        BY <1>r, <1>2, <2>0, <2>2 DEF EntriesOf, s
      <3>4. Closed(d)' = Closed(d) \cup {n}
        BY <1>7, <3>1, <3>2
      <3>5. \A k \in Closed(d) : k < n /\ ClosedSaid(d)'[k] = ClosedSaid(d)[k]
        <4>1. ASSUME NEW k \in Closed(d) PROVE k \in 1 .. n /\ k # n
          BY <1>3, <3>2 DEF Closed, Ours, s
        <4>2. \A k \in Closed(d) : manifest'.phases[k] = s[k]
          BY <1>4, <3>1, <4>1
        <4>3. QED
          BY <3>4, <4>1, <4>2 DEF ClosedSaid, s
      <3>6. ClosedSaid(d)'[n] = Latest(d)
        <4>1. manifest'.phases[n].phase = run[d].phase /\ manifest'.phases[n].verdict = run[d].verdict
          BY <1>5, <3>1
        <4>2. n \in Closed(d)'
          BY <3>4
        <4>3. ClosedSaid(d)'[n] = Outcome(manifest'.phases[n])
          BY <4>2 DEF ClosedSaid, Outcome
        <4>4. QED
          BY <4>1, <4>3 DEF Outcome, Latest
      <3>7. DOMAIN ClosedSaid(d)' = Closed(d)' /\ DOMAIN ClosedSaid(d) = Closed(d)
        BY DEF ClosedSaid
      <3>8. Recounts(ClosedSaid(d), run[d].happened, Noted(d))
        BY <1>r, <2>0, <2>1, <2>2 DEF EntriesOf
      <3>9. PICK m : m = Noted(d)
        OBVIOUS
      <3>10. run[d].happened[m + 1] = Latest(d) /\ m + 1 = Len(run[d].happened)
        <4>1. m = Len(run[d].happened) - 1 /\ Len(run[d].happened) \in Nat
          BY <1>r, <3>9, NotedIs, PastIs DEF Stands
        <4>2. m + 1 = Len(run[d].happened)
          BY <4>1
        <4>3. QED
          BY <1>v, <4>2
      <3>11. PICK g : g = ClosedSaid(d)'
        OBVIOUS
      <3>12. PICK f : f = ClosedSaid(d)
        OBVIOUS
      <3>13. IsFiniteSet(DOMAIN f) /\ DOMAIN f \subseteq Nat
        BY <3>7, <3>12, EntriesAre
      <3>14. Recounts(g, run[d].happened, m + 1)
        BY <3>4, <3>5, <3>6, <3>7, <3>8, <3>9, <3>10, <3>11, <3>12, <3>13, RecountsNext
      <3>15. Noted(d)' = m + 1
        BY <1>r, <3>10 DEF Noted, Stands
      <3>16. QED
        BY <1>r, <1>7, <3>3, <3>4, <3>11, <3>14, <3>15
    <2>3. QED
      BY <1>r, <1>1, <1>7, <2>0, <2>1, <2>2 DEF EntriesOf
  <1>10. ASSUME NEW i \in DOMAIN manifest'.phases, manifest'.phases[i].verdict # "open"
         PROVE  ClosedIsTrue(manifest.phases[i])'
    <2>0. i \in 1 .. n
      BY <1>4
    <2>1. PICK c \in Entries : c = s[i]
      BY <1>3, <2>0
    <2>2. PICK e : e = manifest'.phases[i]
      OBVIOUS
    <2>3. CASE i \notin OpenEntry(d)
      <3>1. e = c /\ ClosedIsTrue(c)
        BY <1>3, <1>4, <1>10, <2>0, <2>1, <2>2, <2>3 DEF EntriesFollow, s
      <3>2. ClosedIsTrue(c)'
        BY <3>1, ClosedStaysTrue, PastStays
      <3>3. QED
        BY <2>2, <3>1, <3>2
    <2>4. CASE i \in OpenEntry(d)
      <3>1. e.by = c.by /\ e.phase = run[d].phase /\ e.verdict = run[d].verdict /\ c.by \in Drivers
        BY <1>5, <1>6, <2>0, <2>1, <2>2, <2>4 DEF Entries
      <3>2. CASE c.by = d
        <4>1. run'[d].happened[Len(run[d].happened)] = Outcome(e)
              /\ Len(run[d].happened) \in DOMAIN run'[d].happened
          BY <1>r, <1>v, <1>l, <3>1 DEF Outcome, Latest
        <4>2. ClosedIsTrue(e)'
          BY <3>1, <3>2, <4>1 DEF ClosedIsTrue, Outcome
        <4>3. QED
          BY <2>2, <4>2
      <3>3. CASE c.by # d
        <4>1. ~run[d].clean
          <5>1. SUFFICES ASSUME run[d].clean PROVE FALSE
            OBVIOUS
          <5>a. run[d].pc = "exit"
            BY <1>r
          <5>b. /\ OpenEntry(d) = {Len(manifest.phases)}
                /\ manifest.phases[Len(manifest.phases)]
                     = [phase |-> run[d].phase, by |-> d, verdict |-> "open"]
            BY <5>a, <5>1, OpenEntryIs
          <5>2. OpenEntry(d) = {Len(s)} /\ s[Len(s)].by = d
            BY <5>b DEF s
          <5>3. i = Len(s)
            BY <2>4, <5>2
          <5>4. QED
            BY <2>1, <3>3, <5>2, <5>3
        <4>2. ~run'[d].clean
          BY <1>r, <4>1
        <4>3. ClosedIsTrue(e)'
          BY <3>1, <3>3, <4>2 DEF ClosedIsTrue
        <4>4. QED
          BY <2>2, <4>3
      <3>4. QED
        BY <3>2, <3>3
    <2>5. QED
      BY <2>3, <2>4
  <1>11. QED
    BY <1>8, <1>9, <1>10 DEF EntriesFollow

LEMMA EntriesFollowStep ==
  ASSUME RecordTypeOK, RecordTypeOK', Alone, Course, EntriesFollow, NEW d \in Drivers, DriverStep(d)
  PROVE  EntriesFollow'
  <1>t. run \in [Drivers -> Runs] /\ run[d] \in Runs
    BY DEF RecordTypeOK
  <1>1. ASSUME NEW c \in Drivers, NEW first \in Phases, Launch(d, c, first)
        PROVE  EntriesFollow'
    <2>1. /\ Stay(d) /\ run[d].pc = "unborn" /\ run'[d].pc \in {"stamp", "gone"}
          /\ run'[d].happened = <<>> /\ manifest' = manifest
      BY <1>1, LaunchRun DEF Launch
    <2>2. EntriesOf(d) /\ d \notin manifest.of
      BY <2>1 DEF EntriesFollow, Alone, Stands
    <2>3. Ours(d)' = Ours(d) /\ Ours(d) = {} /\ Closed(d)' = {}
      BY <2>1, <2>2 DEF EntriesOf, Ours, Closed
    <2>4. EntriesOf(d)'
      BY <2>1, <2>2, <2>3, Words DEF EntriesOf, InTry
    <2>5. \A x \in Drivers : EntriesOf(x)'
      BY <2>1, <2>4, EntriesOfOthers DEF EntriesFollow, Stay
    <2>6. ASSUME NEW i \in DOMAIN manifest'.phases, manifest'.phases[i].verdict # "open"
          PROVE  ClosedIsTrue(manifest.phases[i])'
      <3>1. PICK e \in Entries : e = manifest.phases[i]
        BY <2>1, EntriesAre
      <3>2. ClosedIsTrue(e)
        BY <2>1, <2>6, <3>1 DEF EntriesFollow
      <3>3. ClosedIsTrue(e)'
        BY <3>2, ClosedStaysTrue, PastStays
      <3>4. QED
        BY <2>1, <3>1, <3>3
    <2>7. QED
      BY <2>5, <2>6 DEF EntriesFollow
  <1>2. CASE StampChainStart(d)
    BY <1>2, StampChainStartEntries
  <1>3. ASSUME NEW w \in Pcs, NEW h \in Reasons, GoTo(d, w) \/ HaltsWith(d, h), manifest' = manifest,
               run[d].pc \notin {"unborn", "stamp", "phase", "exit"}, w \notin {"stamp", "phase", "exit"},
               w \in InTry => run[d].pc \in InTry
        PROVE  EntriesFollow'
    <2>1. KeepsPast(d) /\ run'[d].pc \in {w, "flush"} /\ (run'[d].pc = w \/ run'[d].pc = "flush")
      BY <1>3, <1>t, GoToRun, HaltsWithRun
    <2>2. "flush" \notin InTry
      BY DEF InTry
    <2>3. QED
      BY <1>3, <2>1, <2>2, EntriesKept DEF KeepsPast
  <1>4. CASE AutoRegister(d) \/ EmitChainStart(d) \/ Probe(d)
    <2>1. run[d].pc \in {"register", "start", "probe"} /\ manifest' = manifest
      BY <1>4 DEF AutoRegister, EmitChainStart, Probe, Stands, records
    <2>2. \E w \in {"start", "probe", "precheck"} : GoTo(d, w)
      BY <1>4 DEF AutoRegister, EmitChainStart, Probe
    <2>3. QED
      BY <1>3, <2>1, <2>2, Words
  <1>5. CASE PrecheckCaps(d) \/ Recheck(d) \/ BoundaryHalts(d) \/ BoundaryRefused(d) \/ EmitChainComplete(d)
    <2>1. run[d].pc \in {"precheck", "recheck", "boundary", "complete"} /\ manifest' = manifest
      BY <1>5 DEF PrecheckCaps, Recheck, BoundaryHalts, BoundaryRefused, EmitChainComplete, Stands
    <2>2. \/ \E w \in {"recheck", "bootstrap"} : GoTo(d, w)
          \/ \E h \in Reasons : HaltsWith(d, h)
      BY <1>5, <1>t, Words DEF PrecheckCaps, Recheck, BoundaryHalts, BoundaryRefused, EmitChainComplete, Runs
    <2>3. QED
      BY <1>3, <2>1, <2>2, Words
  <1>6. CASE AppendBootstrap(d)
    <2>1. /\ run[d].pc = "bootstrap" /\ run'[d].pc = "phase"
          /\ \/ manifest' = [manifest EXCEPT !.phases = Append(@,
                               [phase |-> run[d].phase, by |-> d, verdict |-> "open"])]
             \/ run'[d].clean = FALSE /\ manifest' = manifest
      BY <1>6, AppendBootstrapRun
    <2>2. CASE manifest' = [manifest EXCEPT !.phases = Append(@,
                               [phase |-> run[d].phase, by |-> d, verdict |-> "open"])]
      BY <1>6, <2>2, AppendBootstrapEntries
    <2>3. CASE run'[d].clean = FALSE /\ manifest' = manifest
      BY <2>1, <2>3, EntriesKept, Words
    <2>4. QED
      BY <2>1, <2>2, <2>3
  <1>7. ASSUME NEW v \in Verdicts(run[d].phase), PhaseEnds(d, v)
        PROVE  EntriesFollow'
    <2>1. /\ run[d].pc = "phase" /\ run'[d].pc = "exit" /\ run'[d].phase = run[d].phase
          /\ run[d].happened \in Seq(Outcomes)
          /\ [phase |-> run[d].phase, verdict |-> v] \in Outcomes
          /\ run'[d].happened = Append(run[d].happened, [phase |-> run[d].phase, verdict |-> v])
      BY <1>7, <1>t, PhaseEndsRun DEF Runs
    <2>2. Len(run'[d].happened) = Len(run[d].happened) + 1
      BY <2>1, AppendIn
    <2>3. manifest' = manifest
      BY <1>7 DEF PhaseEnds, records
    <2>4. QED
      BY <2>1, <2>2, <2>3, EntriesKept, Words
  <1>8. CASE StampExit(d)
    <2>1. /\ run[d].pc = "exit" /\ run'[d].pc = "boundary"
          /\ \/ manifest' = [manifest EXCEPT !.phases = Stamped(d)]
             \/ run'[d].clean = FALSE /\ manifest' = manifest
      BY <1>8, StampExitRun
    <2>2. QED
      BY <1>8, <2>1, StampExitEntries, EntriesKept, Words
  <1>9. CASE BoundaryPasses(d)
    <2>1. /\ run[d].pc = "boundary" /\ run'[d].pc \in {"probe", "complete"} /\ KeepsPast(d)
          /\ manifest' = manifest
      BY <1>9, BoundaryPassesRun DEF BoundaryPasses
    <2>2. QED
      BY <2>1, EntriesKept, Words DEF KeepsPast
  <1>10. CASE Raise(d) \/ Sigterm(d) \/ Kill9(d)
    <2>1. manifest' = manifest
      BY <1>10 DEF Raise, Sigterm, Kill9, records
    <2>2. /\ run'[d].clean = FALSE /\ run[d].pc # "unborn"
          /\ run'[d].pc \notin InTry
      BY <1>10, SpoiledRun DEF Spoils, Alive, InTry
    <2>3. QED
      BY <2>1, <2>2, EntriesKept, Words
  <1>11. CASE EmitSummary(d)
    <2>1. /\ run[d].pc = "flush" /\ manifest' = manifest
          /\ GoTo(d, "release") \/ Spoils(d, "release")
      BY <1>11, SpoiledRun DEF EmitSummary
    <2>2. CASE GoTo(d, "release")
      BY <1>3, <2>1, <2>2, Words DEF InTry
    <2>3. CASE Spoils(d, "release")
      BY <2>1, <2>3, EntriesKept DEF Spoils, InTry
    <2>4. QED
      BY <2>1, <2>2, <2>3
  <1>12. CASE ReleaseBoth(d)
    BY <1>12, <1>3, Words DEF ReleaseBoth, Stands, InTry
  <1>13. QED
    BY <1>1, <1>2, <1>4, <1>5, <1>6, <1>7, <1>8, <1>9, <1>10, <1>11, <1>12 DEF DriverStep

LEMMA EntriesFollowRest ==
  ASSUME EntriesFollow, run' = run, manifest' = manifest
  PROVE  EntriesFollow'
  <1>1. \A x \in Drivers : EntriesOf(x)'
    BY EntriesOfOthers DEF EntriesFollow
  <1>2. \A i \in DOMAIN manifest'.phases :
          manifest'.phases[i].verdict # "open" => ClosedIsTrue(manifest.phases[i])'
    BY DEF EntriesFollow, ClosedIsTrue, Outcome
  <1>3. QED
    BY <1>1, <1>2 DEF EntriesFollow

-----------------------------------------------------------------------------
(* What a pause names *)

LEMMA NothingAheadInit == RecordInit => NothingAhead
  BY DEF RecordInit, NothingAhead, Driver, InTry

LEMMA AheadIs ==
  ASSUME RecordTypeOK, NEW d \in Drivers
  PROVE  /\ run[d].phase \in Nat /\ run[d].phase >= 1 /\ Ahead(d) \in Nat /\ run[d].phase <= Ahead(d)
         /\ run[d].pc \in {"boundary", "complete"} => Ahead(d) = run[d].phase + 1
         /\ run[d].pc \notin {"boundary", "complete"} => Ahead(d) = run[d].phase
         /\ pause.next \in Nat /\ asked.next \in Nat
         /\ \A k \in Ours(d) : /\ NextOf(manifest.phases[k]) \in Nat
                               /\ manifest.phases[k].phase \in Nat
  <1>1. run[d].phase \in Nat /\ run[d].phase >= 1
    BY RecordAssumption DEF RecordTypeOK, Runs, Phases
  <1>2. pause.next \in Nat /\ asked.next \in Nat
    BY RecordAssumption DEF RecordTypeOK, Pauses
  <1>3. ASSUME NEW k \in Ours(d)
        PROVE  NextOf(manifest.phases[k]) \in Nat /\ manifest.phases[k].phase \in Nat
    <2>1. manifest.phases[k] \in Entries
      BY EntriesAre
    <2>2. manifest.phases[k].phase \in Nat
      BY <2>1, RecordAssumption DEF Entries, Phases
    <2>3. CASE manifest.phases[k].verdict = "open"
      BY <2>2, <2>3 DEF NextOf
    <2>4. CASE manifest.phases[k].verdict # "open"
      BY <2>2, <2>4 DEF NextOf
    <2>5. QED
      BY <2>3, <2>4
  <1>4. CASE run[d].pc \in {"boundary", "complete"}
    <2>1. Ahead(d) = run[d].phase + 1
      BY <1>4 DEF Ahead
    <2>2. QED
      BY <1>1, <1>2, <1>3, <1>4, <2>1
  <1>5. CASE run[d].pc \notin {"boundary", "complete"}
    <2>1. Ahead(d) = run[d].phase
      BY <1>1, <1>5 DEF Ahead
    <2>2. QED
      BY <1>1, <1>2, <1>3, <1>5, <2>1
  <1>6. QED
    BY <1>4, <1>5

LEMMA AheadGrows ==
  ASSUME RecordTypeOK, RecordTypeOK', NEW d \in Drivers,
         \/ run'[d].phase = run[d].phase /\ run[d].pc \notin {"boundary", "complete"}
         \/ run[d].pc = "boundary" /\ run'[d].pc = "probe" /\ run'[d].phase = run[d].phase + 1
         \/ run[d].pc = "boundary" /\ run'[d].pc = "complete" /\ run'[d].phase = run[d].phase
  PROVE  Ahead(d) <= Ahead(d)' /\ Ahead(d)' \in Nat
  <1>0. Phases \subseteq Nat
    BY RecordAssumption DEF Phases
  <1>1. run[d].phase \in Nat /\ run'[d].phase \in Nat
    BY <1>0 DEF RecordTypeOK, Runs
  <1>2. CASE run[d].pc \notin {"boundary", "complete"}
    <2>1. Ahead(d) = run[d].phase /\ run'[d].phase = run[d].phase
      BY <1>1, <1>2 DEF Ahead
    <2>2. CASE run'[d].pc \in {"boundary", "complete"}
      <3>1. Ahead(d)' = run'[d].phase + 1
        BY <2>2 DEF Ahead
      <3>2. QED
        BY <1>1, <2>1, <3>1
    <2>3. CASE run'[d].pc \notin {"boundary", "complete"}
      <3>1. Ahead(d)' = run'[d].phase
        BY <1>1, <2>3 DEF Ahead
      <3>2. QED
        BY <1>1, <2>1, <3>1
    <2>4. QED
      BY <2>2, <2>3
  <1>3. CASE run[d].pc = "boundary" /\ run'[d].pc = "probe" /\ run'[d].phase = run[d].phase + 1
    <2>1. Ahead(d) = run[d].phase + 1
      BY <1>3 DEF Ahead
    <2>2. Ahead(d)' = run'[d].phase
      BY <1>1, <1>3 DEF Ahead
    <2>3. QED
      BY <1>1, <1>3, <2>1, <2>2
  <1>4. CASE run[d].pc = "boundary" /\ run'[d].pc = "complete" /\ run'[d].phase = run[d].phase
    <2>1. Ahead(d) = run[d].phase + 1
      BY <1>4 DEF Ahead
    <2>2. Ahead(d)' = run'[d].phase + 1
      BY <1>4 DEF Ahead
    <2>3. QED
      BY <1>1, <1>4, <2>1, <2>2
  <1>5. QED
    BY <1>2, <1>3, <1>4

(* Only the driver that takes the step can be in its try block.            *)
LEMMA NothingAheadBy ==
  ASSUME Alone, NEW d \in Drivers, Works(d), run'[d].pc \in InTry => AheadOf(d)'
  PROVE  NothingAhead'
  <1>1. ASSUME NEW x \in Drivers \ {d} PROVE run'[x].pc \notin InTry
    BY Words DEF Works, Stay, Alone, Alive
  <1>2. QED
    BY <1>1 DEF NothingAhead

LEMMA InTryBefore ==
  ASSUME RecordTypeOK, NEW d \in Drivers, Works(d), run'[d].pc \in InTry
  PROVE  run[d].pc \in InTry
  <1>1. run[d].pc \in Pcs
    BY DEF RecordTypeOK, Runs
  <1>2. "release" \notin InTry /\ "gone" \notin InTry
    BY DEF InTry
  <1>3. QED
    BY <1>1, <1>2 DEF Works, Closing, Alive, Pcs

(* A step that leaves the entries of its driver no further ahead.          *)
LEMMA AheadKept ==
  ASSUME RecordTypeOK, RecordTypeOK', Alone, NothingAhead, NEW d \in Drivers, Works(d),
         run'[d].pc \in InTry =>
           /\ Ahead(d) <= Ahead(d)' /\ Ahead(d)' \in Nat
           /\ \A k \in Ours(d)' : (k \in Ours(d) /\ NextOf(manifest'.phases[k]) = NextOf(manifest.phases[k]))
                                  \/ NextOf(manifest'.phases[k]) <= Ahead(d)'
  PROVE  NothingAhead'
  <1>1. ASSUME run'[d].pc \in InTry PROVE AheadOf(d)'
    <2>0. AheadOf(d)
      BY <1>1, InTryBefore DEF NothingAhead
    <2>1. /\ Ahead(d) \in Nat /\ pause.next \in Nat /\ asked.next \in Nat
          /\ \A k \in Ours(d) : NextOf(manifest.phases[k]) \in Nat
      BY AheadIs
    <2>2. ASSUME NEW k \in Ours(d)' PROVE NextOf(manifest'.phases[k]) <= Ahead(d)'
      BY <1>1, <2>0, <2>1 DEF AheadOf
    <2>3. run'[d].chain = run[d].chain /\ \A x \in Drivers : run'[x].chain = run[x].chain
      BY DEF Works, Stay, KeepsStart
    <2>4. ASSUME run[d].chain = d
          PROVE  /\ \A x \in manifest'.of : run'[x].chain = d => x = d
                 /\ pause'.chain = d => pause'.next <= Ahead(d)'
                 /\ asked'.chain = d => asked'.next <= Ahead(d)'
      <3>1. \A x \in manifest'.of : run'[x].chain = d => x = d
        <4>1. manifest.of \subseteq Drivers
          BY DEF RecordTypeOK, Manifests
        <4>2. QED
          BY <2>0, <2>3, <2>4, <4>1 DEF AheadOf, Works
      <3>2. pause'.chain = d => pause' = pause
        BY RecordAssumption DEF Works, NoPause
      <3>3. pause.chain = d => pause.next <= Ahead(d)
        BY <2>0, <2>4 DEF AheadOf
      <3>4. asked.chain = d => asked.next <= Ahead(d)
        BY <2>0, <2>4 DEF AheadOf
      <3>5. asked' = asked
        BY DEF Works
      <3>6. pause'.chain = d => pause'.next <= Ahead(d)'
        BY <1>1, <2>1, <3>2, <3>3
      <3>7. QED
        BY <1>1, <2>1, <3>1, <3>4, <3>5, <3>6
    <2>5. QED
      BY <2>2, <2>3, <2>4 DEF AheadOf
  <1>2. QED
    BY <1>1, NothingAheadBy

LEMMA NothingAheadStep ==
  ASSUME RecordTypeOK, RecordTypeOK', Alone, EntriesFollow, NothingAhead, NEW d \in Drivers, DriverStep(d)
  PROVE  NothingAhead'
  <1>t. run \in [Drivers -> Runs] /\ run[d] \in Runs /\ manifest \in Manifests
    BY DEF RecordTypeOK
  <1>w. ASSUME run[d].pc # "unborn" PROVE Works(d)
    BY <1>w, StepWorks, LaunchRun
  <1>k. ASSUME manifest' = manifest, NEW k \in Ours(d)'
        PROVE  k \in Ours(d) /\ NextOf(manifest'.phases[k]) = NextOf(manifest.phases[k])
    BY <1>k DEF Ours, NextOf
  <1>1. ASSUME NEW c \in Drivers, NEW first \in Phases, Launch(d, c, first)
        PROVE  NothingAhead'
    <2>1. /\ Stay(d) /\ run[d].pc = "unborn" /\ manifest' = manifest /\ pause' = pause /\ asked' = asked
      BY <1>1, LaunchRun DEF Launch
    <2>2. d \notin manifest.of /\ ~Born(d) /\ manifest.of \subseteq Drivers /\ \A x \in Drivers : x \in manifest.of => Born(x)
      BY <2>1, <1>t DEF Alone, Stands, Born, Manifests
    <2>3. ASSUME NEW x \in Drivers \ {d}, run'[x].pc \in InTry
          PROVE  AheadOf(x)'
      <3>1. run'[x] = run[x] /\ AheadOf(x)
        BY <2>1, <2>3 DEF Stay, NothingAhead
      <3>2. \A y \in manifest.of : run'[y] = run[y]
        BY <2>1, <2>2 DEF Stay
      <3>3. Ahead(x)' = Ahead(x)
        BY <3>1 DEF Ahead
      <3>4. QED
        BY <2>1, <3>1, <3>2, <3>3 DEF AheadOf, Ours, NextOf
    <2>4. AheadOf(d)'
      <3>1. Ours(d) = {}
        BY <2>2 DEF EntriesFollow, EntriesOf
      <3>2. Ours(d)' = {}
        BY <2>1, <3>1 DEF Ours
      <3>3. \A x \in manifest.of : run'[x].chain # d
        BY <2>1, <2>2 DEF Alone, Born, Stay
      <3>4. pause.chain # d /\ asked.chain # d
        BY <2>2, RecordAssumption DEF Alone
      <3>5. QED
        BY <2>1, <3>2, <3>3, <3>4 DEF AheadOf
    <2>5. QED
      BY <2>3, <2>4 DEF NothingAhead
  <1>2. ASSUME run[d].pc # "unborn", manifest' = manifest, run'[d].pc \notin InTry
        PROVE  NothingAhead'
    BY <1>2, <1>w, AheadKept
  <1>3. ASSUME run[d].pc # "unborn", manifest' = manifest,
               run[d].pc \notin {"boundary", "complete"}, run'[d].phase = run[d].phase
        PROVE  NothingAhead'
    BY <1>3, <1>w, <1>k, AheadGrows, AheadKept
  <1>4. CASE StampChainStart(d)
    <2>1. /\ run[d].pc = "stamp" /\ run'[d].pc = "register" /\ KeepsPhase(d)
      BY <1>4, <1>t, GoToRun, Words DEF StampChainStart, Stands
    <2>2. manifest'.phases = manifest.phases \/ manifest'.phases = <<>>
      BY <1>4, <1>t DEF StampChainStart, Manifests
    <2>3. ASSUME NEW k \in Ours(d)'
          PROVE  k \in Ours(d) /\ NextOf(manifest'.phases[k]) = NextOf(manifest.phases[k])
      <3>1. manifest'.phases = manifest.phases
        BY <2>2 DEF Ours
      <3>2. QED
        BY <3>1 DEF Ours, NextOf
    <2>4. Ahead(d) <= Ahead(d)' /\ Ahead(d)' \in Nat
      BY <2>1, AheadGrows DEF KeepsPhase
    <2>5. QED
      BY <2>1, <2>3, <2>4, <1>w, AheadKept
  <1>5. CASE AutoRegister(d) \/ EmitChainStart(d) \/ Probe(d)
    <2>1. run[d].pc \in {"register", "start", "probe"} /\ manifest' = manifest
      BY <1>5 DEF AutoRegister, EmitChainStart, Probe, Stands, records
    <2>2. \E w \in {"start", "probe", "precheck"} : GoTo(d, w)
      BY <1>5 DEF AutoRegister, EmitChainStart, Probe
    <2>3. run'[d].phase = run[d].phase
      BY <2>2, <1>t, GoToRun, Words DEF KeepsPhase
    <2>4. QED
      BY <1>3, <2>1, <2>3
  <1>6. CASE PrecheckCaps(d) \/ Recheck(d)
    <2>1. run[d].pc \in {"precheck", "recheck"} /\ manifest' = manifest
      BY <1>6 DEF PrecheckCaps, Recheck, Stands
    <2>2. \/ \E w \in {"recheck", "bootstrap"} : GoTo(d, w)
          \/ \E h \in Reasons : HaltsWith(d, h)
      BY <1>6, Words DEF PrecheckCaps, Recheck
    <2>3. run'[d].phase = run[d].phase
      BY <2>2, <1>t, GoToRun, HaltsWithRun, Words DEF KeepsPhase
    <2>4. QED
      BY <1>3, <2>1, <2>3
  <1>7. CASE BoundaryHalts(d) \/ BoundaryRefused(d) \/ EmitChainComplete(d)
    <2>1. run[d].pc \in {"boundary", "complete"} /\ manifest' = manifest
      BY <1>7 DEF BoundaryHalts, BoundaryRefused, EmitChainComplete, Stands
    <2>2. \E h \in Reasons : HaltsWith(d, h)
      BY <1>7, <1>t, Words DEF BoundaryHalts, BoundaryRefused, EmitChainComplete, Runs
    <2>3. run'[d].pc \notin InTry
      BY <2>2, <1>t, HaltsWithRun DEF InTry
    <2>4. QED
      BY <1>2, <2>1, <2>3
  <1>8. CASE AppendBootstrap(d)
    <2>1. /\ run[d].pc = "bootstrap" /\ run'[d].pc = "phase" /\ KeepsPhase(d)
      BY <1>8, AppendBootstrapRun
    <2>2. CASE manifest' = manifest
      BY <1>3, <2>1, <2>2 DEF KeepsPhase
    <2>3. CASE manifest' = [manifest EXCEPT !.phases = Append(@,
                              [phase |-> run[d].phase, by |-> d, verdict |-> "open"])]
      <3>0. PICK e \in Entries : e = [phase |-> run[d].phase, by |-> d, verdict |-> "open"]
        BY <1>t DEF Runs, Entries
      <3>1. PICK s \in Seq(Entries) : s = manifest.phases
        BY EntriesAre
      <3>2. PICK n \in Nat : n = Len(s)
        BY <3>1, EntriesAre
      <3>3. manifest'.phases = Append(s, e)
        BY <2>3, <3>0, <3>1, <1>t DEF Manifests
      <3>4. /\ manifest'.phases[n + 1] = e /\ DOMAIN s = 1 .. n
            /\ DOMAIN manifest'.phases = (1 .. n) \cup {n + 1}
            /\ \A k \in 1 .. n : manifest'.phases[k] = s[k]
        BY <3>1, <3>2, <3>3, AppendIn
      <3>5. Ahead(d) <= Ahead(d)' /\ Ahead(d)' \in Nat /\ Ahead(d)' = run[d].phase
        <4>1. Ahead(d) <= Ahead(d)' /\ Ahead(d)' \in Nat
          BY <2>1, AheadGrows DEF KeepsPhase
        <4>2. Ahead(d)' = run'[d].phase
          <5>1. run'[d].phase = run[d].phase /\ run[d].phase \in Nat
            BY <2>1, AheadIs DEF KeepsPhase
          <5>2. QED
            BY <2>1, <5>1 DEF Ahead
        <4>3. QED
          BY <2>1, <4>1, <4>2 DEF KeepsPhase
      <3>6. ASSUME NEW k \in Ours(d)'
            PROVE  (k \in Ours(d) /\ NextOf(manifest'.phases[k]) = NextOf(manifest.phases[k]))
                   \/ NextOf(manifest'.phases[k]) <= Ahead(d)'
        <4>1. CASE k \in 1 .. n
          BY <3>1, <3>4, <4>1 DEF Ours, NextOf
        <4>2. CASE k = n + 1
          <5>1. NextOf(e) = run[d].phase
            BY <3>0, AheadIs DEF NextOf
          <5>2. manifest'.phases[k] = e
            BY <3>4, <4>2
          <5>3. QED
            BY <3>5, <5>1, <5>2, AheadIs
        <4>3. QED
          BY <3>4, <4>1, <4>2 DEF Ours
      <3>7. QED
        BY <2>1, <3>5, <3>6, <1>w, AheadKept
    <2>4. QED
      BY <1>8, <2>2, <2>3, AppendBootstrapRun
  <1>9. ASSUME NEW v \in Verdicts(run[d].phase), PhaseEnds(d, v)
        PROVE  NothingAhead'
    <2>1. run[d].pc = "phase" /\ run'[d].phase = run[d].phase /\ manifest' = manifest
      BY <1>9, PhaseEndsRun DEF PhaseEnds, records
    <2>2. QED
      BY <1>3, <2>1
  <1>10. CASE StampExit(d)
    <2>1. /\ run[d].pc = "exit" /\ run'[d].pc = "boundary" /\ KeepsPhase(d)
      BY <1>10, StampExitRun
    <2>2. CASE manifest' = manifest
      BY <1>3, <2>1, <2>2 DEF KeepsPhase
    <2>3. CASE manifest' = [manifest EXCEPT !.phases = Stamped(d)]
      <3>1. Ahead(d) <= Ahead(d)' /\ Ahead(d)' \in Nat /\ Ahead(d)' = run[d].phase + 1
        <4>1. Ahead(d) <= Ahead(d)' /\ Ahead(d)' \in Nat
          BY <2>1, AheadGrows DEF KeepsPhase
        <4>2. Ahead(d)' = run'[d].phase + 1
          BY <2>1 DEF Ahead
        <4>3. QED
          BY <2>1, <4>1, <4>2 DEF KeepsPhase
      <3>2. ASSUME NEW k \in Ours(d)'
            PROVE  (k \in Ours(d) /\ NextOf(manifest'.phases[k]) = NextOf(manifest.phases[k]))
                   \/ NextOf(manifest'.phases[k]) <= Ahead(d)'
        <4>0. manifest'.phases = Stamped(d) /\ DOMAIN Stamped(d) = DOMAIN manifest.phases
          BY <2>3, <1>t, StampedIs, PhasesPut, EntriesAre, SeqIs
        <4>1. /\ k \in DOMAIN manifest.phases /\ manifest.phases[k] \in Entries
              /\ manifest'.phases[k] = IF k \in OpenEntry(d)
                                       THEN [manifest.phases[k] EXCEPT !.verdict = run[d].verdict]
                                       ELSE manifest.phases[k]
          <5>1. k \in DOMAIN manifest'.phases
            BY DEF Ours
          <5>2. k \in 1 .. Len(manifest.phases)
            BY <4>0, <5>1, EntriesAre
          <5>3. manifest.phases[k] \in Entries
            BY <5>2, EntriesAre
          <5>4. manifest'.phases[k] = Stamped(d)[k]
            BY <4>0
          <5>5. QED
            BY <4>0, <5>1, <5>2, <5>3, <5>4, StampedIs
        <4>2. CASE k \notin OpenEntry(d)
          BY <4>1, <4>2 DEF Ours, NextOf
        <4>3. CASE k \in OpenEntry(d)
          <5>1. manifest.phases[k].phase = run[d].phase
            BY <4>3 DEF OpenEntry
          <5>2. manifest'.phases[k].phase = run[d].phase
            BY <4>1, <4>3, <5>1 DEF Entries
          <5>3. run[d].phase \in Nat
            BY AheadIs
          <5>4. CASE manifest'.phases[k].verdict = "open"
            <6>1. NextOf(manifest'.phases[k]) = run[d].phase
              BY <5>2, <5>3, <5>4 DEF NextOf
            <6>2. QED
              BY <3>1, <5>3, <6>1
          <5>5. CASE manifest'.phases[k].verdict # "open"
            <6>1. NextOf(manifest'.phases[k]) = run[d].phase + 1
              BY <5>2, <5>5 DEF NextOf
            <6>2. QED
              BY <3>1, <5>3, <6>1
          <5>6. QED
            BY <5>4, <5>5
        <4>4. QED
          BY <4>2, <4>3
      <3>3. QED
        BY <2>1, <3>1, <3>2, <1>w, AheadKept
    <2>4. QED
      BY <1>10, <2>2, <2>3, StampExitRun
  <1>11. CASE BoundaryPasses(d)
    <2>1. /\ run[d].pc = "boundary" /\ manifest' = manifest
          /\ \/ run'[d].pc = "probe" /\ run'[d].phase = run[d].phase + 1
             \/ run'[d].pc = "complete" /\ run'[d].phase = run[d].phase
      BY <1>11, BoundaryPassesRun DEF BoundaryPasses
    <2>2. QED
      BY <2>1, <1>w, <1>k, AheadGrows, AheadKept
  <1>12. CASE Raise(d) \/ Sigterm(d) \/ Kill9(d)
    <2>1. manifest' = manifest
      BY <1>12 DEF Raise, Sigterm, Kill9, records
    <2>2. run[d].pc # "unborn" /\ run'[d].pc \notin InTry
      BY <1>12, SpoiledRun DEF Spoils, Alive, InTry
    <2>3. QED
      BY <1>2, <2>1, <2>2
  <1>13. CASE EmitSummary(d)
    <2>1. /\ run[d].pc = "flush" /\ manifest' = manifest
          /\ GoTo(d, "release") \/ Spoils(d, "release")
      BY <1>13, SpoiledRun DEF EmitSummary
    <2>2. run'[d].pc = "release"
      BY <2>1, <1>t, GoToRun, Words DEF Spoils
    <2>3. QED
      BY <1>2, <2>1, <2>2 DEF InTry
  <1>14. CASE ReleaseBoth(d)
    <2>1. run[d].pc = "release" /\ manifest' = manifest /\ run'[d].pc = "gone"
      BY <1>14, <1>t, GoToRun, Words DEF ReleaseBoth, Stands
    <2>2. QED
      BY <1>2, <2>1 DEF InTry
  <1>15. QED
    BY <1>1, <1>4, <1>5, <1>6, <1>7, <1>8, <1>9, <1>10, <1>11, <1>12, <1>13, <1>14 DEF DriverStep

(* chain-pause names the phase after the last entry, or that of an open one. *)
LEMMA NothingAheadRest ==
  ASSUME RecordTypeOK, RecordTypeOK', Alone, EntriesFollow, NothingAhead,
         ReleaseLock \/ AskPause \/ CreatePause \/ RemovePause \/ Tick \/ UNCHANGED recordVars
  PROVE  NothingAhead'
  <1>1. run' = run /\ manifest' = manifest
    BY DEF ReleaseLock, AskPause, CreatePause, RemovePause, Tick, records, recordVars
  <1>2. pause' \in {pause, asked, NoPause}
    BY DEF ReleaseLock, ClearPause, AskPause, CreatePause, RemovePause, Tick, records, recordVars
  <1>3. \/ asked' \in {asked, NoPause}
        \/ /\ manifest.chain # None
           /\ asked' = [next |-> NextPhaseToEnter, chain |-> manifest.chain]
    BY DEF ReleaseLock, AskPause, CreatePause, RemovePause, Tick, records, recordVars
  <1>4. ASSUME NEW d \in Drivers, run[d].pc \in InTry, run[d].chain = d, manifest.chain = d
        PROVE  NextPhaseToEnter <= Ahead(d)
    <2>1. AheadOf(d)
      BY <1>4 DEF NothingAhead
    <2>2. CASE manifest.phases = <<>>
      <3>1. NextPhaseToEnter = 1
        BY <2>2 DEF NextPhaseToEnter
      <3>2. QED
        BY <3>1, AheadIs
    <2>3. CASE manifest.phases # <<>>
      <3>1. PICK n \in Nat : n = Len(manifest.phases)
        BY EntriesAre
      <3>2. n \in DOMAIN manifest.phases /\ manifest.phases[n] \in Entries
        BY <2>3, <3>1, EntriesAre, EmptySeq
      <3>3. PICK x \in Drivers : x = manifest.phases[n].by
        BY <3>2 DEF Entries
      <3>4. n \in Ours(x)
        BY <3>2, <3>3 DEF Ours
      <3>5. x \in manifest.of /\ run[x].chain = d
        BY <1>4, <3>4 DEF EntriesFollow, EntriesOf
      <3>6. x = d
        BY <1>4, <2>1, <3>5 DEF AheadOf
      <3>7. NextPhaseToEnter = NextOf(manifest.phases[n])
        BY <2>3, <3>1 DEF NextPhaseToEnter, NextOf, Last
      <3>8. QED
        BY <2>1, <3>4, <3>6, <3>7 DEF AheadOf
    <2>4. QED
      BY <2>2, <2>3
  <1>5. ASSUME NEW d \in Drivers, run[d].pc \in InTry
        PROVE  AheadOf(d)'
    <2>1. AheadOf(d) /\ d # None
      BY <1>5, RecordAssumption DEF NothingAhead
    <2>2. Ours(d)' = Ours(d) /\ Ahead(d)' = Ahead(d)
      BY <1>1 DEF Ours, Ahead
    <2>3. \A k \in Ours(d)' : NextOf(manifest'.phases[k]) <= Ahead(d)'
      BY <1>1, <2>1, <2>2 DEF AheadOf
    <2>4. ASSUME run[d].chain = d, pause'.chain = d PROVE pause'.next <= Ahead(d)'
      BY <1>2, <2>1, <2>2, <2>4 DEF AheadOf, NoPause
    <2>5. ASSUME run[d].chain = d, asked'.chain = d PROVE asked'.next <= Ahead(d)'
      BY <1>3, <1>4, <1>5, <2>1, <2>2, <2>5 DEF AheadOf, NoPause
    <2>6. run[d].chain = d => \A x \in manifest'.of : run'[x].chain = d => x = d
      BY <1>1, <2>1 DEF AheadOf
    <2>7. QED
      BY <1>1, <2>3, <2>4, <2>5, <2>6 DEF AheadOf
  <1>6. QED
    BY <1>1, <1>5 DEF NothingAhead

-----------------------------------------------------------------------------
(* The theorems *)

LEMMA RecordIInvInit == RecordInit => RecordIInv
  BY RecordTypeInit, AloneInit, CourseInit, RowsFollowInit, SummaryFollowsInit, EntriesFollowInit,
     NothingAheadInit, InTimeInit DEF RecordIInv

LEMMA RecordIInvStep == RecordIInv /\ [RecordNext]_recordVars => RecordIInv'
  <1> SUFFICES ASSUME RecordIInv, [RecordNext]_recordVars PROVE RecordIInv'
    OBVIOUS
  <1>t. /\ RecordTypeOK /\ Alone /\ Course /\ RowsFollow /\ SummaryFollows /\ EntriesFollow
        /\ NothingAhead /\ InTime
    BY DEF RecordIInv
  <1>1. RecordTypeOK' /\ Alone' /\ Grows
    BY <1>t, RecordTypeStep, AloneStep, RowsGrow
  <1>2. ASSUME NEW d \in Drivers, DriverStep(d)
        PROVE  RecordIInv'
    <2>1. Course' /\ InTime'
      BY <1>t, <1>2, CourseStep, InTimeStep
    <2>2. RowsFollow' /\ SummaryFollows'
      BY <1>t, <1>1, <1>2, RowsFollowStep, SummaryFollowsStep
    <2>3. EntriesFollow' /\ NothingAhead'
      BY <1>t, <1>1, <1>2, EntriesFollowStep, NothingAheadStep
    <2>4. QED
      BY <1>1, <2>1, <2>2, <2>3 DEF RecordIInv
  <1>3. ASSUME ReleaseLock \/ AskPause \/ CreatePause \/ RemovePause \/ Tick \/ UNCHANGED recordVars
        PROVE  RecordIInv'
    <2>1. run' = run /\ manifest' = manifest
      BY <1>3 DEF ReleaseLock, AskPause, CreatePause, RemovePause, Tick, records, recordVars
    <2>2. Course'
      BY <1>t, <2>1 DEF Course, CourseOf, Ended, Past, Latest
    <2>3. InTime'
      <3>1. CASE Tick
        BY <1>t, <3>1, InTimeTick
      <3>2. CASE ~Tick
        <4>1. clock' = clock
          BY <1>3, <3>2 DEF ReleaseLock, AskPause, CreatePause, RemovePause, recordVars, world
        <4>2. QED
          BY <1>t, <2>1, <4>1 DEF InTime, Stands
      <3>3. QED
        BY <3>1, <3>2
    <2>4. RowsFollow' /\ SummaryFollows'
      BY <1>t, <1>1, <1>3, RowsFollowRest, SummaryFollowsRest
    <2>5. EntriesFollow' /\ NothingAhead'
      BY <1>t, <1>1, <1>3, <2>1, EntriesFollowRest, NothingAheadRest
    <2>6. QED
      BY <1>1, <2>2, <2>3, <2>4, <2>5 DEF RecordIInv
  <1>4. QED
    BY <1>2, <1>3 DEF RecordNext

(* The inductive invariant holds.                                          *)
THEOREM RecordIInvHolds == RecordSpec => []RecordIInv
  BY RecordIInvInit, RecordIInvStep, PTL DEF RecordSpec

(* Every variable of the record keeps its type.                            *)
THEOREM RecordTypeCorrect == RecordSpec => []RecordTypeOK
  BY RecordIInvHolds, PTL DEF RecordIInv

LEMMA AccountsFollow == RecordIInv => AccountsAgree
  <1> SUFFICES ASSUME RecordIInv PROVE AccountsAgree
    OBVIOUS
  <1>t. RecordTypeOK /\ Course /\ RowsFollow /\ SummaryFollows /\ EntriesFollow
    BY DEF RecordIInv
  <1>1. ASSUME NEW d \in Drivers, run[d].clean, Stands(d, "gone"), RowsOf(d, {"refused"}) = {}
        PROVE  /\ Recounts([k \in EndRows(d) |-> Told(rows[k])], run[d].happened, Len(run[d].happened))
               /\ d \in manifest.of =>
                    /\ manifest.chain = run[d].chain
                    /\ Recounts([k \in Ours(d) |-> Outcome(manifest.phases[k])], run[d].happened,
                                Len(run[d].happened))
               /\ summary[run[d].chain].by # None
               /\ summary[run[d].chain].by = d => summary[run[d].chain].results = run[d].happened
    <2>0. run[d].pc = "gone"
      BY <1>1 DEF Stands
    <2>1. Past(d) = Len(run[d].happened) /\ Noted(d) = Len(run[d].happened)
      <3>1. Len(run[d].happened) \in Nat
        BY <1>t, PastIs
      <3>2. Past(d) = Len(run[d].happened)
        BY <2>0, <3>1 DEF Past, Ended
      <3>3. Noted(d) = Len(run[d].happened)
        BY <1>t, <2>0, NotedIs DEF Stands
      <3>4. QED
        BY <3>2, <3>3
    <2>2. Recounts(EndSaid(d), run[d].happened, Len(run[d].happened))
      BY <1>t, <1>1, <2>1 DEF RowsFollow
    <2>3. ASSUME d \in manifest.of
          PROVE  /\ manifest.chain = run[d].chain
                 /\ Recounts([k \in Ours(d) |-> Outcome(manifest.phases[k])], run[d].happened,
                             Len(run[d].happened))
      <3>1. EntriesOf(d)
        BY <1>t DEF EntriesFollow
      <3>2. Closed(d) = Ours(d)
        BY <1>t, <1>1, <2>0, <3>1, EntriesAre DEF EntriesOf
      <3>3. Recounts(ClosedSaid(d), run[d].happened, Len(run[d].happened))
        BY <1>1, <2>1, <2>3, <3>1 DEF EntriesOf
      <3>4. ClosedSaid(d) = [k \in Ours(d) |-> Outcome(manifest.phases[k])]
        BY <3>2 DEF ClosedSaid
      <3>5. QED
        BY <2>3, <3>1, <3>3, <3>4 DEF EntriesOf
    <2>4. InHand(d) /\ \A c \in Drivers : summary[c].by # None => Said(c)
      BY <1>t, SummaryParts
    <2>5. summary[run[d].chain].by # None
      BY <1>1, <2>4 DEF InHand
    <2>6. run[d].chain \in Drivers
      BY <2>0, ChainIsNamed DEF RecordIInv
    <2>7. run[d].happened = run[d].results
      BY <1>t, <1>1, <2>0 DEF Course, CourseOf
    <2>8. summary[run[d].chain].by = d => summary[run[d].chain].results = run[d].happened
      BY <2>4, <2>5, <2>6, <2>7 DEF Said
    <2>9. QED
      BY <2>2, <2>3, <2>5, <2>8 DEF EndSaid
  <1>2. QED
    BY <1>1 DEF AccountsAgree

LEMMA OthersFollow == RecordIInv => EntriesAreTrue /\ SuccessIsEarned /\ CapIsKept /\ PauseNamesNoLaterPhase
  <1> SUFFICES ASSUME RecordIInv
               PROVE  EntriesAreTrue /\ SuccessIsEarned /\ CapIsKept /\ PauseNamesNoLaterPhase
    OBVIOUS
  <1>t. RecordTypeOK /\ RowsFollow /\ SummaryFollows /\ EntriesFollow /\ NothingAhead /\ InTime
    BY DEF RecordIInv
  <1>1. EntriesAreTrue
    <2>1. ASSUME NEW i \in DOMAIN manifest.phases, manifest.phases[i].verdict = "open"
          PROVE  run[manifest.phases[i].by].pc \in {"phase", "exit"} \/ ~run[manifest.phases[i].by].clean
      <3>1. PICK d \in Drivers : d = manifest.phases[i].by
        BY <1>t, EntriesAre DEF Entries
      <3>2. i \in Ours(d) \ Closed(d) /\ EntriesOf(d)
        BY <1>t, <2>1, <3>1 DEF Ours, Closed, EntriesFollow
      <3>3. QED
        BY <3>1, <3>2 DEF EntriesOf
    <2>2. ASSUME NEW i \in DOMAIN manifest.phases, manifest.phases[i].verdict # "open"
          PROVE  ClosedIsTrue(manifest.phases[i])
      BY <1>t, <2>2 DEF EntriesFollow
    <2>3. QED
      BY <2>1, <2>2 DEF EntriesAreTrue, ClosedIsTrue, Outcome
  <1>2. SuccessIsEarned
    <2>1. ASSUME NEW i \in DOMAIN rows, rows[i].to = "done"
          PROVE  Last(run[rows[i].by].happened) = [phase |-> LastPhase, verdict |-> "passed"]
      BY <1>t, <2>1 DEF RowsFollow, RowHolds, Finished, Last
    <2>2. ASSUME NEW c \in Drivers, summary[c].by # None, summary[c].halt = "phase_success",
                 run[summary[c].by].clean
          PROVE  /\ RowsOf(summary[c].by, {"complete"}) # {}
                 /\ \A k \in DOMAIN summary[c].results : summary[c].results[k].verdict = "passed"
      <3>1. Said(c)
        BY <1>t, <2>2, SummaryParts
      <3>2. QED
        BY <2>2, <3>1 DEF Said, Earned
    <2>3. QED
      BY <2>1, <2>2 DEF SuccessIsEarned
  <1>3. CapIsKept
    BY <1>t DEF InTime, CapIsKept
  <1>4. PauseNamesNoLaterPhase
    <2>1. ASSUME NEW d \in Drivers, Stands(d, "probe"), pause.chain = d, run[d].chain = d
          PROVE  pause.next <= run[d].phase
      <3>1. AheadOf(d)
        BY <1>t, <2>1, Words DEF NothingAhead, Stands
      <3>2. Ahead(d) = run[d].phase
        BY <1>t, <2>1, AheadIs DEF Stands
      <3>3. QED
        BY <2>1, <3>1, <3>2 DEF AheadOf
    <2>2. QED
      BY <2>1 DEF PauseNamesNoLaterPhase
  <1>5. QED
    BY <1>1, <1>2, <1>3, <1>4

(* The accounts of a driver that ended by itself agree, entries and        *)
(* success are true, no phase starts that the cap leaves no time for, and  *)
(* no pause names a phase ahead of the driver it parks.                    *)
THEOREM RecordIsTrue == RecordSpec => []RecordInv
  <1>1. RecordIInv => RecordInv
    BY AccountsFollow, OthersFollow DEF RecordIInv, RecordInv
  <1>2. QED
    BY <1>1, RecordIInvHolds, PTL

LEMMA PrefixIs ==
  ASSUME RecordTypeOK, RecordTypeOK', Grows
  PROVE  IsPrefix(rows, rows')
  <1>1. rows \in Seq(RowSet) /\ rows' \in Seq(RowSet) /\ Len(rows) \in Nat /\ Len(rows') \in Nat
    BY SeqIs DEF RecordTypeOK
  <1>2. PICK s \in Seq(RowSet) : s = rows
    BY <1>1
  <1>3. PICK t \in Seq(RowSet) : t = rows'
    BY <1>1
  <1>4. PICK n \in Nat : n = Len(s)
    BY <1>1, <1>2
  <1>5. n <= Len(t) /\ \A k \in 1 .. n : t[k] = s[k]
    BY <1>2, <1>3, <1>4 DEF Grows
  <1>6. SubSeq(s, 1, n) = SubSeq(t, 1, n)
    BY <1>4, <1>5
  <1>7. QED
    BY <1>2, <1>3, <1>4, <1>5, <1>6 DEF IsPrefix

\* What RecordsStay says of the manifest and of the summaries.
EntriesStay ==
  manifest'.chain = manifest.chain =>
    \A i \in DOMAIN manifest.phases :
      /\ i \in DOMAIN manifest'.phases
      /\ manifest'.phases[i].by = manifest.phases[i].by
      /\ manifest.phases[i].verdict # "open" => manifest'.phases[i] = manifest.phases[i]
SummariesStay ==
  \A c \in Drivers : summary[c].by # None /\ summary'[c] # summary[c] => summary'[c].by # summary[c].by

LEMMA ManifestStays ==
  ASSUME RecordTypeOK, [RecordNext]_recordVars
  PROVE  EntriesStay
  <1>t. manifest \in Manifests /\ run \in [Drivers -> Runs]
    BY DEF RecordTypeOK
  <1>1. CASE manifest' = manifest
    BY <1>1 DEF EntriesStay
  <1>2. ASSUME NEW d \in Drivers, DriverStep(d), manifest' # manifest
        PROVE  EntriesStay
    <2>1. StampChainStart(d) \/ AppendBootstrap(d) \/ StampExit(d)
      BY <1>2 DEF DriverStep, Launch, AutoRegister, EmitChainStart, Probe, PrecheckCaps, Recheck,
         PhaseEnds, BoundaryHalts, BoundaryRefused, BoundaryPasses, EmitChainComplete, Raise,
         Sigterm, Kill9, EmitSummary, ReleaseBoth, records
    <2>2. CASE StampChainStart(d)
      <3>1. manifest'.phases = manifest.phases \/ manifest'.chain # manifest.chain
        BY <2>2, <1>t DEF StampChainStart, Manifests
      <3>2. QED
        BY <3>1 DEF EntriesStay
    <2>3. CASE AppendBootstrap(d)
      <3>1. PICK e \in Entries : manifest' = [manifest EXCEPT !.phases = Append(@, e)]
        <4>1. [phase |-> run[d].phase, by |-> d, verdict |-> "open"] \in Entries
          BY <1>t DEF Runs, Entries
        <4>2. QED
          BY <1>2, <2>3, <4>1, AppendBootstrapRun
      <3>2. PICK s \in Seq(Entries) : s = manifest.phases
        BY EntriesAre
      <3>3. manifest'.phases = Append(s, e)
        BY <3>1, <3>2, <1>t DEF Manifests
      <3>4. QED
        BY <3>2, <3>3, AppendIn DEF EntriesStay
    <2>4. CASE StampExit(d)
      <3>1. manifest'.phases = Stamped(d)
        BY <1>2, <2>4, <1>t, StampExitRun, StampedIs, PhasesPut
      <3>2. DOMAIN Stamped(d) = DOMAIN manifest.phases
        BY StampedIs, EntriesAre, SeqIs
      <3>3. ASSUME NEW i \in DOMAIN manifest.phases
            PROVE  /\ Stamped(d)[i].by = manifest.phases[i].by
                   /\ manifest.phases[i].verdict # "open" => Stamped(d)[i] = manifest.phases[i]
        <4>1. /\ manifest.phases[i] \in Entries
              /\ Stamped(d)[i] = IF i \in OpenEntry(d)
                                 THEN [manifest.phases[i] EXCEPT !.verdict = run[d].verdict]
                                 ELSE manifest.phases[i]
          BY EntriesAre, StampedIs
        <4>2. i \in OpenEntry(d) => manifest.phases[i].verdict = "open"
          BY DEF OpenEntry
        <4>3. QED
          BY <4>1, <4>2 DEF Entries
      <3>4. QED
        BY <3>1, <3>2, <3>3 DEF EntriesStay
    <2>5. QED
      BY <2>1, <2>2, <2>3, <2>4
  <1>3. CASE ReleaseLock \/ AskPause \/ CreatePause \/ RemovePause \/ Tick \/ UNCHANGED recordVars
    BY <1>1, <1>3 DEF ReleaseLock, AskPause, CreatePause, RemovePause, Tick, records, recordVars
  <1>4. QED
    BY <1>1, <1>2, <1>3 DEF RecordNext

LEMMA SummaryStays ==
  ASSUME RecordTypeOK, SummaryFollows, [RecordNext]_recordVars
  PROVE  SummariesStay
  <1>1. ASSUME NEW d \in Drivers, EmitSummary(d)
        PROVE  SummariesStay
    <2>1. /\ run[d].pc = "flush"
          /\ \/ summary' = summary
             \/ summary' = [summary EXCEPT ![run[d].chain] =
                              [by |-> d, halt |-> run[d].halt, results |-> run[d].results]]
      BY <1>1, SpoiledRun
    <2>2. ASSUME NEW c \in Drivers, summary[c].by # None, summary'[c] # summary[c]
          PROVE  summary'[c].by # summary[c].by
      <3>1. summary'[c].by = d
        BY <2>1, <2>2 DEF RecordTypeOK
      <3>2. Said(c)
        BY <2>2, SummaryParts
      <3>3. summary[c].by # d
        BY <2>1, <3>2 DEF Said
      <3>4. QED
        BY <3>1, <3>3
    <2>3. QED
      BY <2>2 DEF SummariesStay
  <1>2. ASSUME ~ \E d \in Drivers : EmitSummary(d)
        PROVE  summary' = summary
    BY <1>2 DEF RecordNext, DriverStep, Launch, StampChainStart, AutoRegister, EmitChainStart, Probe,
       PrecheckCaps, Recheck, AppendBootstrap, PhaseEnds, StampExit, BoundaryHalts, BoundaryRefused,
       BoundaryPasses, EmitChainComplete, Raise, Sigterm, Kill9, ReleaseBoth, ReleaseLock, AskPause,
       CreatePause, RemovePause, Tick, records, recordVars
  <1>3. QED
    BY <1>1, <1>2 DEF SummariesStay

(* What is written stays: the log only grows, the entries of a chain keep  *)
(* their place and are closed once, a summary is replaced by another       *)
(* driver's only.                                                          *)
THEOREM RecordsStayThere == RecordSpec => RecordsStay
  <1>1. RecordIInv /\ [RecordNext]_recordVars =>
          [/\ IsPrefix(rows, rows')
           /\ manifest'.chain = manifest.chain =>
                \A i \in DOMAIN manifest.phases :
                  /\ i \in DOMAIN manifest'.phases
                  /\ manifest'.phases[i].by = manifest.phases[i].by
                  /\ manifest.phases[i].verdict # "open" => manifest'.phases[i] = manifest.phases[i]
           /\ \A c \in Drivers : summary[c].by # None /\ summary'[c] # summary[c]
                                   => summary'[c].by # summary[c].by]_recordVars
    <2>1. ASSUME RecordIInv, [RecordNext]_recordVars
          PROVE  IsPrefix(rows, rows') /\ EntriesStay /\ SummariesStay
      BY <2>1, RecordTypeStep, RowsGrow, PrefixIs, ManifestStays, SummaryStays DEF RecordIInv
    <2>2. QED
      BY <2>1 DEF EntriesStay, SummariesStay
  <1>2. QED
    BY <1>1, RecordIInvHolds, PTL DEF RecordSpec, RecordsStay
=============================================================================
