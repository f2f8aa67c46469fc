------------------------------ MODULE LogMerge ------------------------------
(***************************************************************************)
(* The git merge driver of the transition log (src/bin/_git_merge_jsonl).  *)
(* Two branches of one repository record rows in their own copies of       *)
(* _orchestrator_log.jsonl; git calls the driver on the three versions of  *)
(* the file whenever both sides differ from their common ancestor.  The    *)
(* driver keeps the union of the rows, one row for each second and         *)
(* transition, sorted by second.  When one of the three versions does not  *)
(* parse it exits 1 and changes nothing; such versions are left out.       *)
(***************************************************************************)
EXTENDS Integers, FiniteSets, SequencesExt

CONSTANTS
  Tasks, Status, Pending,  \* task ids and statuses, and the one a task starts in
  Sides,                   \* the two branches
  MaxRows, MaxTime, MaxSyncs  \* bounds: rows recorded, seconds, merges and picks

ASSUME MergeAssumption ==
  /\ IsFiniteSet(Sides) /\ Cardinality(Sides) = 2
  /\ Pending \in Status
  /\ {MaxRows, MaxTime, MaxSyncs} \subseteq Nat

(* A row: the second it is stamped with, by a wall clock that neither the  *)
(* other branch's machine nor the row before need agree with; its task and *)
(* transition; how many optional fields it has; and its place in the order *)
(* of canonical JSON, which tells any two rows apart (they differ in pid,  *)
(* reason, ...).  All rows have the session id of a command that runs      *)
(* without CLAUDE_SESSION_ID; rows without a task merge like any others.   *)
Row == [ts : 1..MaxTime, task : Tasks, from : Status, to : Status,
        full : 0..1, json : 1..MaxRows]

VARIABLES
  log,     \* per side: the rows of its file, in order
  parent,  \* per side: the same one commit earlier
  base,    \* the same at the merge base of the branches
  known,   \* per side: every row it recorded or was handed by git
  syncs

mergeVars == <<log, parent, base, known, syncs>>

Other(s) == CHOOSE o \in Sides : o # s

-----------------------------------------------------------------------------
(* The merge algorithm *)

Twins(r, q) ==
  /\ r.ts = q.ts /\ r.task = q.task
  /\ r.from = q.from /\ r.to = q.to

\* where the row is first met
Place(r, arrival) == CHOOSE i \in DOMAIN arrival :
  arrival[i] = r /\ \A j \in 1..(i - 1) : arrival[j] # r

\* (wrong) our side is preferred before completeness
BeatsOursFirst(r, q, ours, arrival) ==
  IF (r \in ToSet(ours)) # (q \in ToSet(ours)) THEN r \in ToSet(ours)
  ELSE r.full > q.full \/ (r.full = q.full /\ Place(r, arrival) < Place(q, arrival))

\* (wrong) ties fall to their side
BeatsTheirsFirst(r, q, ours, arrival) ==
  IF r.full # q.full THEN r.full > q.full
  ELSE IF (r \in ToSet(ours)) # (q \in ToSet(ours)) THEN q \in ToSet(ours)
  ELSE Place(r, arrival) < Place(q, arrival)

\* of two twins the fuller one, then the one on our side, then the first met
Beats(r, q, ours, arrival) ==
  IF r.full # q.full THEN r.full > q.full
  ELSE IF (r \in ToSet(ours)) # (q \in ToSet(ours)) THEN r \in ToSet(ours)
  ELSE Place(r, arrival) < Place(q, arrival)

\* (wrong) the final sort looks at the canonical JSON only
BeforeByJson(r, q) == r.json < q.json

Before(r, q) == r.ts < q.ts \/ (r.ts = q.ts /\ r.json < q.json)

\* the rows of S from the oldest second to the newest
Sorted(S) == CHOOSE rows \in [1..Cardinality(S) -> S] :
  \A i, j \in 1..Cardinality(S) : i < j => Before(rows[i], rows[j])

\* of the rows of each second and transition the one that beats the others
Resolved(arrival, ours) ==
  LET union == ToSet(arrival)
  IN  {r \in union : \A q \in union : q # r /\ Twins(q, r) => Beats(r, q, ours, arrival)}

Merge(ancestor, ours, theirs) == Sorted(Resolved(ancestor \o ours \o theirs, ours))

-----------------------------------------------------------------------------
(* The branches *)

MergeInit ==
  /\ log = [s \in Sides |-> <<>>]
  /\ parent = [s \in Sides |-> <<>>]
  /\ base = <<>>
  /\ known = [s \in Sides |-> {}]
  /\ syncs = 0

EverRecorded == UNION {known[s] : s \in Sides}

\* the status each task has after a replay of the rows (_state_divergence)
Replay(rows) == [t \in Tasks |->
  LET own == {i \in DOMAIN rows : rows[i].task = t}
  IN  IF own = {} THEN Pending
      ELSE rows[CHOOSE i \in own : \A j \in own : j <= i].to]

\* emit_transition: append_row adds a row that is unlike any other
Record(s, t, to) ==
  /\ Cardinality(EverRecorded) < MaxRows
  /\ \E ts \in 1..MaxTime, full \in 0..1, json \in 1..MaxRows :
       LET r == [ts |-> ts, task |-> t, from |-> Replay(log[s])[t], to |-> to,
                 full |-> full, json |-> json]
       IN  /\ \A q \in EverRecorded : q.json # json
           /\ log' = [log EXCEPT ![s] = Append(@, r)]
           /\ known' = [known EXCEPT ![s] = @ \cup {r}]
  /\ parent' = [parent EXCEPT ![s] = log[s]]
  /\ UNCHANGED <<base, syncs>>

\* side s gets what the other has since `ancestor`: git copies the file when
\* s has not touched it, and calls the driver when both have
Incorporate(s, ancestor) ==
  LET o == Other(s) IN
  /\ syncs < MaxSyncs
  /\ syncs' = syncs + 1
  /\ log[o] # ancestor
  /\ \/ /\ log[s] = ancestor
        /\ log' = [log EXCEPT ![s] = log[o]]
     \/ /\ log[s] # ancestor
        /\ log' = [log EXCEPT ![s] = Merge(ancestor, log[s], log[o])]
  /\ parent' = [parent EXCEPT ![s] = log[s]]
  /\ known' = [known EXCEPT ![s] = @ \cup known[o]]

\* git merge: the other's tip is the merge base from now on
GitMerge(s) ==
  /\ Incorporate(s, base)
  /\ base' = log[Other(s)]

\* git cherry-pick of the other's last commit, or one step of a rebase
CherryPick(s) ==
  /\ Incorporate(s, parent[Other(s)])
  /\ UNCHANGED base

MergeNext == \E s \in Sides :
  \/ \E t \in Tasks, to \in Status \ {Pending} : Record(s, t, to)
  \/ GitMerge(s)
  \/ CherryPick(s)

MergeSpec == MergeInit /\ [][MergeNext]_mergeVars

-----------------------------------------------------------------------------
(* Properties *)

\* Types of the variables.
MergeTypeOK ==
  /\ {log, parent} \subseteq [Sides -> Seq(Row)]
  /\ base \in Seq(Row)
  /\ known \in [Sides -> SUBSET Row]
  /\ syncs \in 0..MaxSyncs

\* What "no-loss" comes to: whatever merges and cherry-picks a branch went
\* through, of each row it ever recorded or was handed its log has that row
\* or one of the same second and transition that is no less complete, and
\* it has nothing else and nothing twice.
EveryEventSurvives == \A s \in Sides :
  /\ \A r \in known[s] : \E q \in ToSet(log[s]) :
       q.full >= r.full /\ q.ts = r.ts
         /\ <<q.task, q.from, q.to>> = <<r.task, r.from, r.to>>
  /\ ToSet(log[s]) \subseteq known[s]
  /\ IsInjective(log[s])

\* Merging again changes nothing: a merged log absorbs either of the logs it
\* came from, on whichever side, and itself.
MergeAbsorbs == \A s \in Sides :
  LET ours   == log[s]
      theirs == log[Other(s)]
      merged == Merge(base, ours, theirs)
  IN  /\ Merge(merged, merged, merged) = merged
      /\ Merge(base, merged, theirs) = merged
      /\ Merge(base, ours, merged) = merged

\* The order in which branches are merged does not matter: three logs give
\* the same log however they are paired, and swapping the sides can only
\* exchange a row for an equally complete one of its second and transition.
MergeOrderIsIrrelevant == \A s \in Sides :
  LET ours       == log[s]
      theirs     == log[Other(s)]
      Join(a, b) == Merge(<<>>, a, b)
      Events(l)  == {[r EXCEPT !.json = 0] : r \in ToSet(l)}
  IN  /\ Join(Join(base, ours), theirs) = Join(base, Join(ours, theirs))
      /\ Join(Join(ours, theirs), base) = Join(ours, Join(theirs, base))
      /\ Events(Merge(base, ours, theirs)) = Events(Merge(base, theirs, ours))

\* A replay of a merged log (the divergence check) gives every task a status
\* recorded in the last second anything was recorded of it on either side.
LatestSecondWins == \A s \in Sides :
  LET rows   == ToSet(base \o log[s] \o log[Other(s)])
      merged == Replay(Merge(base, log[s], log[Other(s)]))
      Of(t)  == {r \in rows : r.task = t}
  IN  \A t \in Tasks : Of(t) # {} =>
        \E r \in Of(t) : merged[t] = r.to /\ \A q \in Of(t) : q.ts <= r.ts

\* Of every merge that can be made: no loss, absorption and the last status.
MergeInv == MergeTypeOK /\ EveryEventSurvives /\ MergeAbsorbs /\ LatestSecondWins

\* A merge or pick takes a row from our log only for a fuller one of the same
\* second and transition, or for another of our own, unless git merely copies
\* the other's file.
OursKeepsItsRows == [][
  \A s \in Sides : \A r \in ToSet(log[s]) \ ToSet(log'[s]) :
    log'[s] = log[Other(s)] \/ \E q \in ToSet(log'[s]) :
      /\ Twins(q, r)
      /\ q.full > r.full \/ q \in ToSet(log[s])]_mergeVars
=============================================================================
