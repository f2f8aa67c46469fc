------------------------ MODULE MorningQueue_proofs ------------------------
(***************************************************************************)
(* Proofs about MorningQueue, for any plans and tasks, any finite set of   *)
(* processes and any number of blocks, commands and kills.                 *)
(***************************************************************************)
EXTENDS MorningQueue, FiniteSetTheorems, NaturalsInduction, WellFoundedInduction, TLAPS

(***************************************************************************)
(* The inductive invariant.  QueueInv speaks of the files; what happens to *)
(* them depends on the copies the processes hold.  So it is strengthened   *)
(* with what the copies may contain: a block of a copy is one a file has   *)
(* or had (SectionInv), the holder of a flock writes back every entry that *)
(* is in the file (HeldInv), and an entry that could still be written as   *)
(* pending while a closed version of it is around was set back by a halt   *)
(* section (ReopenInv).                                                    *)
(***************************************************************************)
IsOpen(b) == IsEntry(b) /\ b.mirror = "pending"
IsClosed(b) == IsEntry(b) /\ b.mirror # "pending"

(* A block that a file of the plan or a copy of one has.                   *)
Version(p, b) ==
    \/ b \in Blocks(daily[p]) \cup Blocks(archive[p])
    \/ \E i \in Procs : Plan(i) = p /\ b \in ToSet(cmd[i].copy)

(* One that today's file has, or that the holder of its flock has read.    *)
Live(p, b) ==
    \/ b \in Blocks(daily[p])
    \/ \E i \in Procs : Plan(i) = p /\ cmd[i].at \in {"entry", "write"} /\ b \in ToSet(cmd[i].copy)

(* The blocks that are in the archive or were dropped, or are in a file.   *)
Past(p) == Ids(Blocks(archive[p])) \cup lost
Accounted(p) == Ids(Blocks(daily[p])) \cup Past(p)

Inside == {"header", "entry", "write"}
Base(i) == IF At(i, "header") THEN {} ELSE Ids(ToSet(cmd[i].copy))

Distinct(s) == \A m, n \in DOMAIN s : s[m].id = s[n].id => m = n

Succeeded(p, t, m) ==
    \E d \in did : /\ d[1] # "mint" /\ MirrorOf[d[1]] = m /\ d[3] = t
                   /\ d[2] = p \/ d[1] = "route-marker"

(* The mirror that is about to be set tells of a command that succeeded.   *)
Backed(i) == cmd[i].at \in {"mirror", "write"} =>
    /\ cmd[i].how \in Gestures \cup {"mark-deferred"}
    /\ Succeeded(Plan(i), cmd[i].task, MirrorOf[cmd[i].how])

HolderInv == \A i \in Procs : cmd[i].at \in Inside => lock[Plan(i)] = i

(* A gesture and a collision are about a task.                             *)
GestureStages == {"lookup", "mint", "effect", "mirror", "write", "row"}
Tasked(i) == cmd[i].at \in GestureStages \/ cmd[i].how = "collide" => cmd[i].task \in Tasks
TaskInv == \A i \in Procs : Tasked(i)

RoomInv == born + Cardinality(Writers) <= MaxBlocks

StageInv == \A i \in Procs :
    /\ At(i, "entry") => cmd[i].how = "collide"
    /\ At(i, "section") => cmd[i].how = "halt"
    /\ At(i, "write") => Found(cmd[i].copy, cmd[i].task)
    /\ At(i, "move") => \A b \in ToSet(cmd[i].copy) : ~IsOpen(b)
    /\ Backed(i)

DistinctInv ==
    /\ \A p \in Plans : Distinct(Content(daily[p])) /\ Distinct(Content(archive[p]))
    /\ \A i \in Procs : Distinct(cmd[i].copy)

FreshInv == \A p \in Plans : \A b : Version(p, b) => b.id <= born
KindInv == \A p \in Plans : \A a, b :
    Version(p, a) /\ Version(p, b) /\ a.id = b.id => a.kind = b.kind
ToldInv == \A p \in Plans : \A b : Version(p, b) /\ IsClosed(b) => Succeeded(p, b.task, b.mirror)
VersionInv == FreshInv /\ KindInv /\ ToldInv

ReopenInv == \A p \in Plans : \A a, b :
    Live(p, a) /\ IsOpen(a) /\ Version(p, b) /\ IsClosed(b) /\ a.id = b.id => a.id \in reopened

SectionInv == \A j \in Procs : At(j, "section") => Ids(ToSet(cmd[j].copy)) \subseteq Accounted(Plan(j))

HeldInv == \A i \in Procs : cmd[i].at \in Inside =>
    /\ Ids(Entries(File(i))) \subseteq Base(i) \cup Past(Plan(i))
    /\ \A j \in Procs : At(j, "section") /\ Plan(j) = Plan(i) =>
         Ids(Entries(cmd[j].copy)) \subseteq Base(i) \cup Past(Plan(i))

IInv ==
    /\ TypeOK /\ LockIsHeldInside /\ HolderInv /\ TaskInv /\ RoomInv /\ StageInv /\ DistinctInv
    /\ VersionInv /\ ReopenInv /\ SectionInv /\ HeldInv
    /\ LostOnlyWithoutTheLock /\ ArchivedIsClosed

-----------------------------------------------------------------------------
(* Files as sequences of blocks *)

(* A file that is there is its own content.                                *)
LEMMA FileIs ==
  ASSUME NEW f \in Seq(Block)
  PROVE  f # Absent /\ Content(f) = f /\ Blocks(f) = ToSet(f) /\ ToSet(f) \subseteq Block
  <1>1. f # Absent
    BY AbsentAssumption
  <1>2. \A n \in DOMAIN f : f[n] \in Block
    OBVIOUS
  <1>3. QED
    BY <1>1, <1>2 DEF Content, Blocks, ToSet

LEMMA EmptyFile ==
  /\ <<>> \in Seq(Block) /\ <<>> # Absent /\ ToSet(<<>>) = {} /\ Blocks(<<>>) = {}
  /\ Blocks(Absent) = {} /\ Content(Absent) = <<>> /\ Distinct(<<>>) /\ Content(<<>>) = <<>>
  <1>1. <<>> \in Seq(Block) /\ DOMAIN <<>> = {}
    OBVIOUS
  <1>2. ToSet(<<>>) = {}
    BY <1>1 DEF ToSet
  <1>3. QED
    BY <1>1, <1>2, AbsentAssumption DEF Blocks, Content, Distinct

(* Any file's content is a sequence of the file's blocks.                  *)
LEMMA ContentIs ==
  ASSUME NEW f \in Seq(Block) \cup {Absent}
  PROVE  Content(f) \in Seq(Block) /\ ToSet(Content(f)) = Blocks(f) /\ Blocks(f) \subseteq Block
         /\ Blocks(Content(f)) = Blocks(f) /\ Content(Content(f)) = Content(f)
  <1>1. CASE f = Absent
    BY <1>1, EmptyFile
  <1>2. CASE f \in Seq(Block)
    BY <1>2, FileIs
  <1>3. QED
    BY <1>1, <1>2

(* A block of a new id is appended.                                        *)
LEMMA Appending ==
  ASSUME NEW s \in Seq(Block), NEW b \in Block
  PROVE  /\ Append(s, b) \in Seq(Block)
         /\ ToSet(Append(s, b)) = ToSet(s) \cup {b}
         /\ Ids(ToSet(Append(s, b))) = Ids(ToSet(s)) \cup {b.id}
         /\ Distinct(s) /\ (\A a \in ToSet(s) : a.id # b.id) => Distinct(Append(s, b))
  <1> DEFINE f == Append(s, b)
  <1>1. f \in Seq(Block) /\ DOMAIN f = 1..Len(s) + 1 /\ DOMAIN s = 1..Len(s) /\ Len(s) \in Nat
        /\ (\A n \in 1..Len(s) : f[n] = s[n]) /\ f[Len(s) + 1] = b
    OBVIOUS
  <1> HIDE DEF f
  <1>2. ToSet(f) = ToSet(s) \cup {b}
    <2>1. \A n \in 1..Len(s) + 1 : n \in 1..Len(s) \/ n = Len(s) + 1
      BY <1>1
    <2>2. ToSet(f) \subseteq ToSet(s) \cup {b}
      BY <1>1, <2>1 DEF ToSet
    <2>3. 1..Len(s) \subseteq 1..Len(s) + 1 /\ Len(s) + 1 \in 1..Len(s) + 1
      BY <1>1
    <2>4. \A a \in ToSet(s) : a \in ToSet(f)
      BY <1>1, <2>3 DEF ToSet
    <2>5. b \in ToSet(f)
      BY <1>1, <2>3 DEF ToSet
    <2>6. QED
      BY <2>2, <2>4, <2>5
  <1>3. Ids(ToSet(f)) = Ids(ToSet(s)) \cup {b.id}
    BY <1>2 DEF Ids
  <1>4. ASSUME Distinct(s), \A a \in ToSet(s) : a.id # b.id
        PROVE  Distinct(f)
    <2>1. \A n \in 1..Len(s) : s[n].id # b.id
      BY <1>1, <1>4 DEF ToSet
    <2>2. \A n \in 1..Len(s) + 1 : n \in 1..Len(s) \/ n = Len(s) + 1
      BY <1>1
    <2>3. SUFFICES ASSUME NEW m \in 1..Len(s) + 1, NEW n \in 1..Len(s) + 1, f[m].id = f[n].id
                   PROVE  m = n
      BY <1>1 DEF Distinct
    <2>4. CASE m \in 1..Len(s) /\ n \in 1..Len(s)
      BY <1>1, <1>4, <2>3, <2>4 DEF Distinct
    <2>5. QED
      BY <1>1, <2>1, <2>2, <2>3, <2>4
  <1>5. QED
    BY <1>1, <1>2, <1>3, <1>4 DEF f

(* A nonempty set of naturals has a least.                                 *)
LEMMA NatMin ==
  ASSUME NEW T, T \subseteq Nat, T # {}
  PROVE  \E m \in T : \A n \in T : m <= n
  <1> DEFINE R == OpToRel(<, Nat)
  <1>1. \A x, y \in Nat : x < y => <<x, y>> \in R
    BY DEF OpToRel
  <1>2. IsWellFoundedOn(R, Nat)
    BY NatLessThanWellFounded
  <1> HIDE DEF R
  <1>3. PICK m \in T : \A n \in T : ~(<<n, m>> \in R)
    BY <1>2, WFMin
  <1>4. \A n \in T : ~(n < m)
    BY <1>1, <1>3
  <1>5. QED
    BY <1>4

(* An entry that is found has a first place.                               *)
LEMMA FirstIs ==
  ASSUME NEW f \in Seq(Block), NEW t, Found(f, t)
  PROVE  First(f, t) \in DOMAIN f /\ IsEntry(f[First(f, t)]) /\ f[First(f, t)].task = t
  <1>1. Content(f) = f /\ DOMAIN f \subseteq Nat
    BY FileIs
  <1>2. Places(f, t) \subseteq Nat /\ Places(f, t) # {}
    BY <1>1 DEF Places, Found
  <1>3. PICK m \in Places(f, t) : \A n \in Places(f, t) : m <= n
    BY <1>2, NatMin
  <1>4. First(f, t) \in Places(f, t)
    BY <1>3 DEF First
  <1>5. QED
    BY <1>1, <1>4 DEF Places

(* Setting a mirror changes the mirror of one entry, found by its task.    *)
LEMMA Mirrored ==
  ASSUME NEW f \in Seq(Block), NEW t, NEW m \in Terminal, Found(f, t), Distinct(f)
  PROVE  /\ WithMirror(f, t, m) \in Seq(Block)
         /\ Distinct(WithMirror(f, t, m))
         /\ Ids(ToSet(WithMirror(f, t, m))) = Ids(ToSet(f))
         /\ \E e \in ToSet(f) : /\ IsEntry(e) /\ e.task = t
              /\ \A b \in ToSet(WithMirror(f, t, m)) :
                   \/ b \in ToSet(f) /\ b.id # e.id
                   \/ b = [e EXCEPT !.mirror = m]
  <1> DEFINE k == First(f, t)
             e == f[k]
             c == [e EXCEPT !.mirror = m]
             g == WithMirror(f, t, m)
  <1>1. k \in DOMAIN f /\ IsEntry(e) /\ e.task = t /\ e \in Block
    BY FirstIs
  <1>2. c \in Block /\ c.id = e.id
    <2> HIDE DEF e
    <2>1. e \in [id : 1..MaxBlocks, kind : {"entry"}, task : Tasks, mirror : Terminal \cup {"pending"}]
      BY <1>1 DEF Block, IsEntry
    <2>2. c = [id |-> e.id, kind |-> "entry", task |-> e.task, mirror |-> m]
      BY <2>1
    <2>3. QED
      BY <2>1, <2>2 DEF Block
  <1>3. g = [f EXCEPT ![k] = c]
    BY DEF WithMirror
  <1> HIDE DEF k, g, c
  <1>4. g \in Seq(Block) /\ DOMAIN g = DOMAIN f
        /\ \A n \in DOMAIN f : g[n] = IF n = k THEN c ELSE f[n]
    BY <1>1, <1>2, <1>3
  <1>5. \A n \in DOMAIN f : g[n].id = f[n].id
    BY <1>2, <1>4
  <1>6. Distinct(g)
    BY <1>4, <1>5 DEF Distinct
  <1>7. Ids(ToSet(g)) = Ids(ToSet(f))
    <2>1. \A x : x \in Ids(ToSet(g)) <=> \E n \in DOMAIN f : x = g[n].id
      BY <1>4 DEF Ids, ToSet
    <2>2. \A x : x \in Ids(ToSet(f)) <=> \E n \in DOMAIN f : x = f[n].id
      BY DEF Ids, ToSet
    <2>3. QED
      BY <1>5, <2>1, <2>2
  <1>8. e \in ToSet(f)
    BY <1>1 DEF ToSet
  <1>9. \A b \in ToSet(g) : (b \in ToSet(f) /\ b.id # e.id) \/ b = c
    BY <1>1, <1>4 DEF ToSet, Distinct
  <1>10. QED
    BY <1>1, <1>4, <1>6, <1>7, <1>8, <1>9 DEF g, c

-----------------------------------------------------------------------------
(* What the steps do to the commands *)

Only(i) == \A j \in Procs \ {i} : cmd'[j] = cmd[j]
Typed(i) == cmd' \in [Procs -> Command] /\ Only(i)
SamePlace(i) == cmd'[i].how = cmd[i].how /\ cmd'[i].plan = cmd[i].plan /\ cmd'[i].task = cmd[i].task

LEMMA CommandIs ==
  ASSUME TypeOK, NEW i \in Procs
  PROVE  /\ cmd \in [Procs -> Command] /\ cmd[i] \in Command /\ cmd[i].copy \in Seq(Block)
         /\ cmd[i].plan \in Plans \cup {Nobody} /\ cmd[i].task \in Tasks \cup {NoTask}
         /\ cmd[i].at # "idle" => Plan(i) \in Plans
  <1>1. cmd[i] \in Command
    BY DEF TypeOK
  <1>2. QED
    BY <1>1 DEF TypeOK, Command, At, Plan

LEMMA GotoIs ==
  ASSUME TypeOK, NEW i \in Procs, NEW at \in Stages, Goto(i, at)
  PROVE  Typed(i) /\ SamePlace(i) /\ cmd'[i].at = at /\ cmd'[i].copy = cmd[i].copy
  <1>1. cmd \in [Procs -> Command] /\ cmd[i] \in Command
    BY CommandIs
  <1>2. [cmd[i] EXCEPT !.at = at] \in Command
    BY <1>1 DEF Command
  <1>3. cmd' = [cmd EXCEPT ![i] = [cmd[i] EXCEPT !.at = at]]
    BY DEF Goto
  <1>4. cmd'[i] = [cmd[i] EXCEPT !.at = at]
    BY <1>1, <1>3
  <1>5. Typed(i)
    BY <1>1, <1>2, <1>3 DEF Typed, Only
  <1>6. QED
    BY <1>1, <1>4, <1>5 DEF SamePlace, Command

LEMMA GotoWithIs ==
  ASSUME TypeOK, NEW i \in Procs, NEW at \in Stages, NEW copy \in Seq(Block), GotoWith(i, at, copy)
  PROVE  Typed(i) /\ SamePlace(i) /\ cmd'[i].at = at /\ cmd'[i].copy = copy
  <1>1. cmd \in [Procs -> Command] /\ cmd[i] \in Command
    BY CommandIs
  <1> DEFINE c == [cmd[i] EXCEPT !.at = at, !.copy = copy]
  <1>2. c \in Command
    BY <1>1 DEF Command
  <1>3. cmd' = [cmd EXCEPT ![i] = c]
    BY DEF GotoWith
  <1>4. c.at = at /\ c.copy = copy /\ c.how = cmd[i].how /\ c.plan = cmd[i].plan /\ c.task = cmd[i].task
    BY <1>1 DEF Command
  <1> HIDE DEF c
  <1>5. Typed(i) /\ cmd'[i] = c
    BY <1>1, <1>2, <1>3 DEF Typed, Only
  <1>6. QED
    BY <1>4, <1>5 DEF SamePlace

LEMMA ReturnIs ==
  ASSUME TypeOK, NEW i \in Procs, Return(i)
  PROVE  Typed(i) /\ cmd'[i] = Idle /\ cmd'[i].at = "idle" /\ cmd'[i].how = "none"
         /\ cmd'[i].copy = <<>> /\ cmd'[i].plan = Nobody
  <1>1. cmd \in [Procs -> Command]
    BY CommandIs
  <1>2. Idle \in Command
    BY EmptyFile DEF Idle, Command, Stages
  <1>3. cmd' = [cmd EXCEPT ![i] = Idle]
    BY DEF Return
  <1>4. Typed(i) /\ cmd'[i] = Idle
    BY <1>1, <1>2, <1>3 DEF Typed, Only
  <1>5. QED
    BY <1>4 DEF Idle

LEMMA BeginIs ==
  ASSUME TypeOK, NEW i \in Procs, NEW at \in Stages,
         NEW how \in Gestures \cup {"collide", "halt", "mark-deferred", "gc"},
         NEW p \in Plans, NEW t \in Tasks \cup {NoTask}, Begin(i, at, how, p, t)
  PROVE  /\ Typed(i) /\ cmd[i].at = "idle" /\ cmd'[i].at = at /\ cmd'[i].how = how
         /\ cmd'[i].plan = p /\ cmd'[i].task = t /\ cmd'[i].copy = <<>>
  <1> DEFINE c == [at |-> at, how |-> how, plan |-> p, task |-> t, copy |-> <<>>]
  <1>1. cmd \in [Procs -> Command]
    BY CommandIs
  <1>2. c \in Command
    BY EmptyFile DEF Command
  <1>3. cmd' = [cmd EXCEPT ![i] = c] /\ cmd[i].at = "idle"
    BY DEF Begin, At
  <1>4. c.at = at /\ c.how = how /\ c.plan = p /\ c.task = t /\ c.copy = <<>>
    OBVIOUS
  <1> HIDE DEF c
  <1>5. Typed(i) /\ cmd'[i] = c
    BY <1>1, <1>2, <1>3 DEF Typed, Only
  <1>6. QED
    BY <1>3, <1>4, <1>5

-----------------------------------------------------------------------------
(* The steps that neither read nor write a file: a command begins, ends or  *)
(* goes on with no more than it had read, and if it goes on to set a mirror *)
(* its gesture has succeeded.                                              *)
SameFiles == UNCHANGED <<files, born, ghosts>>

Quiet(i) ==
    /\ SameFiles /\ Typed(i)
    /\ cmd'[i].copy = <<>> \/ (cmd'[i].copy = cmd[i].copy /\ cmd'[i].plan = cmd[i].plan)
    /\ cmd'[i].at \notin Inside \cup {"section", "move"}
    /\ cmd'[i].at = "idle" \/ cmd'[i].plan \in Plans
    /\ Backed(i)' /\ Tasked(i)'
    /\ cmd'[i].how \in {"collide", "halt"} => cmd'[i].how = cmd[i].how \/ Room
    /\ \/ lock' = lock /\ cmd[i].at \notin Inside
       \/ lock' = [p \in Plans |-> IF lock[p] = i THEN Nobody ELSE lock[p]]
    /\ did \subseteq did'

Goes(i) ==
    \/ BootSees(i) \/ BootDone(i) \/ LookupRefuses(i) \/ LookupFinds(i) \/ RouteMints(i)
    \/ GestureUpdates(i) \/ GestureFails(i) \/ AbandonStops(i) \/ MarkerCreated(i)
    \/ MirrorAbsent(i) \/ RowEmitted(i) \/ IndexRegenerated(i) \/ Dies(i)
    \/ ArchiveChecks(i) /\ ~AllClosed(File(i))
    \/ ArchiveMoves(i) /\ File(i) = Absent

Begins(i) ==
    \E p \in Plans :
      \/ Halt(i, p) \/ Gc(i, p)
      \/ \E t \in Tasks : \/ Collide(i, p, t) \/ MarkDeferred(i, p, t)
                          \/ \E g \in Gestures : Triage(i, p, t, g)

(* A command that goes on to a stage where it holds nothing is quiet.      *)
LEMMA QuietGoto ==
  ASSUME TypeOK, TaskInv, NEW i \in Procs, SameFiles, lock' = lock, did \subseteq did',
         cmd[i].at \notin Inside \cup {"idle"},
         NEW at \in Stages, at \notin Inside \cup {"section", "move", "mirror"}, Goto(i, at),
         at \in GestureStages => cmd[i].at \in GestureStages
  PROVE  Quiet(i)
  BY GotoIs, CommandIs DEF Quiet, SamePlace, Plan, Backed, Inside, Tasked, TaskInv

LEMMA QuietReturn ==
  ASSUME TypeOK, NEW i \in Procs, SameFiles, did \subseteq did', Return(i),
         \/ lock' = lock /\ cmd[i].at \notin Inside
         \/ lock' = [p \in Plans |-> IF lock[p] = i THEN Nobody ELSE lock[p]]
  PROVE  Quiet(i)
  BY ReturnIs DEF Quiet, Inside, Backed, Tasked, GestureStages

(* Where the gesture's command has succeeded, it goes on to the mirror.    *)
LEMMA QuietMirror ==
  ASSUME TypeOK, TaskInv, NEW i \in Procs, SameFiles, lock' = lock, Did(i), Goto(i, "mirror"),
         cmd[i].at = "effect",
         cmd[i].how \in {"reactivate", "route-outstanding", "route-marker"}
  PROVE  Quiet(i)
  <1> DEFINE d == <<cmd[i].how, Plan(i), cmd[i].task>>
  <1>1. Typed(i) /\ SamePlace(i) /\ cmd'[i].at = "mirror" /\ cmd'[i].copy = cmd[i].copy
        /\ Plan(i) \in Plans
    BY GotoIs, CommandIs DEF Stages
  <1>2. d \in did' /\ did \subseteq did' /\ d[1] = cmd[i].how /\ d[2] = Plan(i) /\ d[3] = cmd[i].task
    BY DEF Did
  <1>3. Backed(i)'
    <2>1. d[1] # "mint" /\ MirrorOf[d[1]] = MirrorOf[cmd'[i].how] /\ d[3] = cmd'[i].task /\ d[2] = cmd'[i].plan
      BY <1>1, <1>2 DEF SamePlace, Plan
    <2>2. QED
      BY <1>1, <1>2, <2>1 DEF Backed, Succeeded, Plan, SamePlace, Gestures
  <1>4. Tasked(i)'
    BY <1>1 DEF Tasked, TaskInv, GestureStages, SamePlace
  <1>5. QED
    BY <1>1, <1>2, <1>3, <1>4 DEF Quiet, Inside, SamePlace, Plan

LEMMA GoesIsQuiet ==
  ASSUME TypeOK, TaskInv, NEW i \in Procs, Goes(i)
  PROVE  Quiet(i)
  <1> USE DEF SameFiles, files, effects, views, bounds, ghosts, At, Inside, Stages, GestureStages
  <1>1. CASE BootSees(i)
    BY <1>1, QuietGoto DEF BootSees
  <1>2. CASE BootDone(i)
    BY <1>2, QuietGoto DEF BootDone
  <1>3. CASE LookupRefuses(i)
    BY <1>3, QuietReturn DEF LookupRefuses
  <1>4. CASE LookupFinds(i)
    BY <1>4, QuietGoto DEF LookupFinds
  <1>5. CASE RouteMints(i)
    BY <1>5, QuietGoto DEF RouteMints
  <1>6. CASE GestureUpdates(i)
    <2>1. CASE Did(i) /\ Goto(i, "mirror")
      BY <1>6, <2>1, QuietMirror DEF GestureUpdates
    <2>2. CASE UNCHANGED did /\ Return(i)
      BY <1>6, <2>2, QuietReturn DEF GestureUpdates
    <2>3. QED
      BY <1>6, <2>1, <2>2 DEF GestureUpdates
  <1>7. CASE GestureFails(i)
    BY <1>7, QuietReturn DEF GestureFails
  <1>8. CASE AbandonStops(i)
    BY <1>8, QuietReturn DEF AbandonStops
  <1>9. CASE MarkerCreated(i)
    BY <1>9, QuietMirror DEF MarkerCreated
  <1>10. CASE MirrorAbsent(i)
    BY <1>10, QuietReturn DEF MirrorAbsent
  <1>11. CASE RowEmitted(i)
    BY <1>11, QuietReturn, QuietGoto DEF RowEmitted
  <1>12. CASE IndexRegenerated(i)
    BY <1>12, QuietReturn DEF IndexRegenerated
  <1>13. CASE Dies(i)
    BY <1>13, QuietReturn DEF Dies
  <1>14. CASE ArchiveChecks(i) /\ ~AllClosed(File(i))
    BY <1>14, QuietReturn, QuietGoto DEF ArchiveChecks
  <1>15. CASE ArchiveMoves(i) /\ File(i) = Absent
    <2>1. SameFiles /\ lock' = lock /\ did' = did /\ cmd[i].at = "move"
          /\ (Return(i) \/ GotoWith(i, "regen", <<>>))
      BY <1>15 DEF ArchiveMoves
    <2>2. CASE GotoWith(i, "regen", <<>>)
      BY <2>1, <2>2, GotoWithIs, CommandIs, EmptyFile 
         DEF Quiet, SamePlace, Plan, Backed, Tasked, TaskInv
    <2>3. QED
      BY <2>1, <2>2, QuietReturn
  <1>16. QED
    BY <1>1, <1>2, <1>3, <1>4, <1>5, <1>6, <1>7, <1>8, <1>9, <1>10, <1>11, <1>12, <1>13, <1>14, <1>15
       DEF Goes

LEMMA BeginsIsQuiet ==
  ASSUME TypeOK, NEW i \in Procs, Begins(i)
  PROVE  Quiet(i)
  <1> USE DEF SameFiles, files, effects, views, bounds, ghosts, Inside, Stages
  <1>1. ASSUME NEW at \in {"boot", "lookup", "check"},
               NEW how \in Gestures \cup {"collide", "halt", "mark-deferred", "gc"},
               NEW p \in Plans, NEW t \in Tasks \cup {NoTask}, Begin(i, at, how, p, t), UNCHANGED born,
               (at # "lookup" /\ how # "collide") \/ t \in Tasks,
               how \in {"collide", "halt"} => Room
        PROVE  Quiet(i)
    <2>1. Typed(i) /\ cmd[i].at = "idle" /\ cmd'[i].at = at /\ cmd'[i].plan = p /\ cmd'[i].copy = <<>>
          /\ cmd'[i].how = how /\ cmd'[i].task = t
      BY <1>1, BeginIs
    <2>2. SameFiles /\ lock' = lock /\ did' = did
      BY <1>1 DEF Begin
    <2>3. QED
      BY <1>1, <2>1, <2>2 DEF Quiet, Backed, Tasked, GestureStages
  <1>2. PICK p \in Plans : \/ Halt(i, p) \/ Gc(i, p)
             \/ \E t \in Tasks : \/ Collide(i, p, t) \/ MarkDeferred(i, p, t)
                                 \/ \E g \in Gestures : Triage(i, p, t, g)
    BY DEF Begins
  <1>3. CASE Halt(i, p)
    BY <1>1, <1>3 DEF Halt
  <1>4. CASE Gc(i, p)
    BY <1>1, <1>4 DEF Gc
  <1>5. ASSUME NEW t \in Tasks, Collide(i, p, t)
        PROVE  Quiet(i)
    BY <1>1, <1>5 DEF Collide
  <1>6. ASSUME NEW t \in Tasks, NEW g \in Gestures, Triage(i, p, t, g)
        PROVE  Quiet(i)
    <2>1. Begin(i, "lookup", g, p, t) /\ UNCHANGED born /\ g \notin {"collide", "halt"}
      BY <1>6 DEF Triage, Gestures
    <2>2. QED
      BY <1>1, <1>6, <2>1
  <1>7. ASSUME NEW t \in Tasks, MarkDeferred(i, p, t)
        PROVE  Quiet(i)
    <2>1. Begin(i, "mirror", "mark-deferred", p, t) /\ UNCHANGED born
          /\ \E q \in Plans : <<"route-marker", q, t>> \in did
      BY <1>7 DEF MarkDeferred
    <2>2. Typed(i) /\ cmd[i].at = "idle" /\ cmd'[i].at = "mirror" /\ cmd'[i].plan = p
          /\ cmd'[i].copy = <<>> /\ cmd'[i].how = "mark-deferred" /\ cmd'[i].task = t
      BY <2>1, BeginIs
    <2>3. SameFiles /\ lock' = lock /\ did' = did
      BY <2>1 DEF Begin
    <2>4. MirrorOf["mark-deferred"] = MirrorOf["route-marker"]
      BY DEF MirrorOf, Gestures
    <2>5. Backed(i)'
      <3>1. PICK q \in Plans : <<"route-marker", q, t>> \in did
        BY <2>1
      <3> DEFINE d == <<"route-marker", q, t>>
      <3>2. d[1] # "mint" /\ MirrorOf[d[1]] = MirrorOf[cmd'[i].how] /\ d[3] = cmd'[i].task
            /\ d[1] = "route-marker" /\ d \in did'
        BY <2>2, <2>3, <2>4, <3>1
      <3> HIDE DEF d
      <3>3. QED
        BY <2>2, <3>2 DEF Backed, Succeeded
    <2>6. QED
      BY <2>2, <2>3, <2>5 DEF Quiet, Tasked
  <1>8. QED
    BY <1>2, <1>3, <1>4, <1>5, <1>6, <1>7

-----------------------------------------------------------------------------
(* The steps that read a file, and the steps that write one *)

Reads(i) ==
    \/ BootAgain(i) \/ EntryReads(i) \/ HaltReads(i) \/ MirrorReads(i)
    \/ ArchiveChecks(i) /\ AllClosed(File(i))

Looks(i) ==
    /\ SameFiles /\ Typed(i) /\ SamePlace(i) /\ did' = did
    /\ Plan(i) \in Plans /\ cmd[i].at \notin Inside
    /\ \/ cmd'[i].at = "header" /\ cmd'[i].copy = cmd[i].copy /\ File(i) = Absent
       \/ cmd'[i].at \in {"entry", "section", "write", "move"} /\ cmd'[i].copy = Content(File(i))
    /\ cmd'[i].at \in Inside => TakeLock(i)
    /\ cmd'[i].at \in {"section", "move"} => lock' = lock
    /\ cmd'[i].at = "entry" => cmd[i].how = "collide"
    /\ cmd'[i].at = "section" => cmd[i].how = "halt"
    /\ cmd'[i].at = "write" => cmd[i].at = "mirror" /\ Found(Content(File(i)), cmd[i].task)
    /\ cmd'[i].at = "move" => AllClosed(File(i))

LEMMA FileTyped ==
  ASSUME TypeOK, NEW p \in Plans
  PROVE  daily[p] \in Seq(Block) \cup {Absent} /\ archive[p] \in Seq(Block) \cup {Absent}
  BY DEF TypeOK

(* A file in which an entry is found is there.                             *)
LEMMA FoundIsThere ==
  ASSUME NEW f \in Seq(Block) \cup {Absent}, NEW t, Found(f, t)
  PROVE  f \in Seq(Block) /\ Content(f) = f
  <1>1. CASE f = Absent
    <2>1. Content(f) = <<>>
      BY <1>1 DEF Content
    <2>2. DOMAIN Content(f) = {}
      BY <2>1
    <2>3. QED
      BY <2>2 DEF Found, Places
  <1>2. CASE f \in Seq(Block)
    BY <1>2, FileIs
  <1>3. QED
    BY <1>1, <1>2

LEMMA ReadsLook ==
  ASSUME TypeOK, NEW i \in Procs, Reads(i)
  PROVE  Looks(i)
  <1> USE DEF SameFiles, files, effects, views, bounds, ghosts, At, Inside, Stages
  <1>1. cmd[i].at # "idle" => Plan(i) \in Plans /\ File(i) \in Seq(Block) \cup {Absent}
    BY CommandIs, FileTyped DEF File
  <1>2. CASE BootAgain(i)
    BY <1>1, <1>2, GotoIs DEF BootAgain, Looks
  <1>3. ASSUME NEW at \in {"entry", "section", "write", "move"},
               GotoWith(i, at, Content(File(i))), cmd[i].at # "idle"
        PROVE  Typed(i) /\ SamePlace(i) /\ cmd'[i].at = at /\ cmd'[i].copy = Content(File(i))
    <2>1. Content(File(i)) \in Seq(Block)
      BY <1>1, <1>3, ContentIs
    <2>2. QED
      BY <1>3, <2>1, GotoWithIs
  <1>4. CASE EntryReads(i)
    <2>1. /\ cmd[i].at = "append" /\ cmd[i].how = "collide" /\ TakeLock(i) /\ SameFiles /\ did' = did
          /\ GotoWith(i, "entry", Content(File(i)))
      BY <1>4 DEF EntryReads
    <2>2. Typed(i) /\ SamePlace(i) /\ cmd'[i].at = "entry" /\ cmd'[i].copy = Content(File(i))
      BY <1>3, <2>1
    <2>3. QED
      BY <1>1, <2>1, <2>2 DEF Looks
  <1>5. CASE HaltReads(i)
    <2>1. /\ cmd[i].at = "append" /\ cmd[i].how = "halt" /\ lock' = lock /\ SameFiles /\ did' = did
          /\ GotoWith(i, "section", Content(File(i)))
      BY <1>5 DEF HaltReads
    <2>2. Typed(i) /\ SamePlace(i) /\ cmd'[i].at = "section" /\ cmd'[i].copy = Content(File(i))
      BY <1>3, <2>1
    <2>3. QED
      BY <1>1, <2>1, <2>2 DEF Looks
  <1>6. CASE MirrorReads(i)
    <2>1. /\ cmd[i].at = "mirror" /\ TakeLock(i) /\ SameFiles /\ did' = did
          /\ Found(File(i), cmd[i].task) /\ GotoWith(i, "write", File(i))
      BY <1>6 DEF MirrorReads
    <2>2. Content(File(i)) = File(i)
      BY <1>1, <2>1, FoundIsThere
    <2>3. Typed(i) /\ SamePlace(i) /\ cmd'[i].at = "write" /\ cmd'[i].copy = Content(File(i))
      BY <1>3, <2>1, <2>2
    <2>4. QED
      BY <1>1, <2>1, <2>2, <2>3 DEF Looks
  <1>7. CASE ArchiveChecks(i) /\ AllClosed(File(i))
    <2>1. /\ cmd[i].at = "check" /\ lock' = lock /\ SameFiles /\ did' = did
          /\ GotoWith(i, "move", File(i))
      BY <1>7 DEF ArchiveChecks
    <2>2. File(i) # Absent
      BY <1>7, EmptyFile DEF AllClosed, Entries
    <2>3. Content(File(i)) = File(i)
      BY <2>2 DEF Content
    <2>4. Typed(i) /\ SamePlace(i) /\ cmd'[i].at = "move" /\ cmd'[i].copy = Content(File(i))
      BY <1>3, <2>1, <2>3
    <2>5. QED
      BY <1>1, <1>7, <2>1, <2>4 DEF Looks
  <1>8. QED
    BY <1>2, <1>4, <1>5, <1>6, <1>7 DEF Reads

(* Process i replaces the file with f and holds nothing any more.          *)
Puts(i, f) ==
    /\ f \in Seq(Block) /\ Plan(i) \in Plans
    /\ Write(i, f) /\ archive' = archive /\ did' = did /\ unseen' = unseen
    /\ Typed(i) /\ cmd'[i].at \in {"idle", "append", "row"}
    /\ (cmd'[i].at = "idle" /\ cmd'[i].how = "none") \/ SamePlace(i)
    /\ cmd'[i].at = "row" => cmd[i].at = "write"
    /\ cmd'[i].copy = <<>> \/ (cmd'[i].copy = cmd[i].copy /\ cmd'[i].plan = cmd[i].plan)
    /\ \/ cmd[i].at \in Inside /\ FreeLock(i) /\ lost' = lost \cup DroppedByHand(i, f)
       \/ cmd[i].at \notin Inside /\ lock' = lock /\ lost' = lost \cup Dropped(i, f)

LEMMA NewBlockIs ==
  ASSUME born \in 0..MaxBlocks, born < MaxBlocks, NEW t \in Tasks \cup {NoTask}, NEW kind,
         (kind = "entry" /\ t \in Tasks) \/ kind \in {"halt", "report", "note"}
  PROVE  /\ NewBlock(kind, t) \in Block /\ NewBlock(kind, t).id = born + 1
         /\ ~IsClosed(NewBlock(kind, t)) /\ (IsEntry(NewBlock(kind, t)) <=> kind = "entry")
  <1>1. MaxBlocks \in Nat /\ born + 1 \in 1..MaxBlocks
    BY QueueAssumption
  <1>2. CASE kind = "entry" /\ t \in Tasks
    BY <1>1, <1>2 DEF NewBlock, Block, IsClosed, IsEntry
  <1>3. CASE kind \in {"halt", "report", "note"}
    BY <1>1, <1>3 DEF NewBlock, Block, IsClosed, IsEntry
  <1>4. QED
    BY <1>2, <1>3

(* A writer that has begun has room for its block.                         *)
LEMMA WriterHasRoom ==
  ASSUME TypeOK, RoomInv, NEW i \in Procs, cmd[i].how \in {"collide", "halt"}
  PROVE  born < MaxBlocks
  <1>1. IsFiniteSet(Writers) /\ i \in Writers
    BY QueueAssumption, FS_Subset DEF Writers
  <1>2. Cardinality(Writers) \in Nat /\ Cardinality(Writers) # 0
    BY <1>1, FS_CardinalityType, FS_EmptySet
  <1>3. QED
    BY <1>2, QueueAssumption DEF RoomInv, TypeOK

LEMMA BootPuts ==
  ASSUME TypeOK, NEW i \in Procs, BootWrites(i) \/ ShellWritten(i)
  PROVE  Puts(i, <<>>) /\ born' = born /\ reopened' = reopened
  <1> USE DEF files, effects, views, bounds, ghosts, At, Stages
  <1>1. /\ cmd[i].at \in {"header", "missing"} /\ Write(i, <<>>) /\ archive' = archive /\ did' = did
        /\ unseen' = unseen /\ Goto(i, "append") /\ born' = born /\ reopened' = reopened
        /\ \/ cmd[i].at = "header" /\ FreeLock(i) /\ lost' = lost \cup DroppedByHand(i, <<>>)
           \/ cmd[i].at = "missing" /\ lock' = lock /\ lost' = lost \cup Dropped(i, <<>>)
    BY DEF BootWrites, ShellWritten
  <1>2. Plan(i) \in Plans /\ Typed(i) /\ SamePlace(i) /\ cmd'[i].at = "append"
        /\ cmd'[i].copy = cmd[i].copy
    BY <1>1, CommandIs, GotoIs
  <1>3. QED
    BY <1>1, <1>2, EmptyFile DEF Puts, Inside, SamePlace

LEMMA EntryPuts ==
  ASSUME TypeOK, TaskInv, RoomInv, StageInv, NEW i \in Procs, EntryWrites(i)
  PROVE  /\ Puts(i, Append(cmd[i].copy, NewBlock("entry", cmd[i].task)))
         /\ NewBlock("entry", cmd[i].task) \in Block
         /\ cmd[i].at = "entry" /\ cmd[i].how = "collide" /\ cmd'[i].at = "idle" /\ cmd'[i].how = "none"
         /\ born' = born + 1 /\ born < MaxBlocks /\ reopened' = reopened
  <1> USE DEF files, effects, views, bounds, ghosts, At
  <1> DEFINE f == Append(cmd[i].copy, NewBlock("entry", cmd[i].task))
  <1>1. /\ cmd[i].at = "entry" /\ Write(i, f) /\ archive' = archive /\ did' = did
        /\ unseen' = unseen /\ Return(i) /\ born' = born + 1 /\ reopened' = reopened
        /\ FreeLock(i) /\ lost' = lost \cup DroppedByHand(i, f)
    BY DEF EntryWrites
  <1>2. cmd[i].how = "collide" /\ cmd[i].task \in Tasks
    BY <1>1 DEF StageInv, TaskInv, Tasked
  <1>3. born < MaxBlocks /\ born \in 0..MaxBlocks
    BY <1>2, WriterHasRoom DEF TypeOK
  <1>4. NewBlock("entry", cmd[i].task) \in Block
    BY <1>2, <1>3, NewBlockIs
  <1>5. f \in Seq(Block)
    BY <1>4, CommandIs, Appending
  <1>6. Plan(i) \in Plans /\ Typed(i) /\ cmd'[i].at = "idle" /\ cmd'[i].how = "none"
        /\ cmd'[i].copy = <<>>
    BY <1>1, CommandIs, ReturnIs
  <1> HIDE DEF f
  <1>7. Puts(i, f)
    BY <1>1, <1>5, <1>6 DEF Puts, Inside
  <1>8. QED
    BY <1>1, <1>2, <1>3, <1>4, <1>6, <1>7 DEF f

LEMMA HaltPuts ==
  ASSUME TypeOK, RoomInv, StageInv, NEW i \in Procs, HaltWrites(i)
  PROVE  /\ Puts(i, Append(cmd[i].copy, HaltSection)) /\ HaltSection \in Block
         /\ cmd[i].at = "section" /\ cmd[i].how = "halt" /\ cmd'[i].at = "idle" /\ cmd'[i].how = "none"
         /\ born' = born + 1 /\ born < MaxBlocks
         /\ reopened' = reopened \cup (Ids(Pending(Append(cmd[i].copy, HaltSection)))
                                         \ Ids(Pending(File(i))))
  <1> USE DEF files, effects, views, bounds, ghosts, At
  <1> DEFINE f == Append(cmd[i].copy, HaltSection)
  <1>1. /\ cmd[i].at = "section" /\ Write(i, f) /\ archive' = archive /\ did' = did
        /\ unseen' = unseen /\ Return(i) /\ born' = born + 1
        /\ reopened' = reopened \cup (Ids(Pending(f)) \ Ids(Pending(File(i))))
        /\ lock' = lock /\ lost' = lost \cup Dropped(i, f)
    BY DEF HaltWrites
  <1>2. cmd[i].how = "halt"
    BY <1>1 DEF StageInv
  <1>3. born < MaxBlocks /\ born \in 0..MaxBlocks
    BY <1>2, WriterHasRoom DEF TypeOK
  <1>4. HaltSection \in Block
    BY <1>3, NewBlockIs DEF HaltSection
  <1>5. f \in Seq(Block)
    BY <1>4, CommandIs, Appending
  <1>6. Plan(i) \in Plans /\ Typed(i) /\ cmd'[i].at = "idle" /\ cmd'[i].how = "none"
        /\ cmd'[i].copy = <<>>
    BY <1>1, CommandIs, ReturnIs
  <1> HIDE DEF f
  <1>7. Puts(i, f)
    BY <1>1, <1>5, <1>6 DEF Puts, Inside
  <1>8. QED
    BY <1>1, <1>2, <1>3, <1>4, <1>6, <1>7 DEF f

(* The mirrors gestures set are terminal.                                  *)
LEMMA MirrorIsTerminal ==
  ASSUME NEW h \in Gestures \cup {"mark-deferred"}
  PROVE  MirrorOf[h] \in Terminal
  BY DEF MirrorOf, Gestures, Terminal

LEMMA MirrorPuts ==
  ASSUME TypeOK, StageInv, DistinctInv, NEW i \in Procs, MirrorWrites(i)
  PROVE  /\ Puts(i, WithMirror(cmd[i].copy, cmd[i].task, MirrorOf[cmd[i].how]))
         /\ MirrorOf[cmd[i].how] \in Terminal
         /\ cmd[i].at = "write" /\ cmd'[i].at = "row" /\ SamePlace(i) /\ cmd'[i].copy = <<>>
         /\ born' = born /\ reopened' = reopened
  <1> USE DEF files, effects, views, bounds, ghosts, At, Stages
  <1> DEFINE f == WithMirror(cmd[i].copy, cmd[i].task, MirrorOf[cmd[i].how])
  <1>1. /\ cmd[i].at = "write" /\ Write(i, f) /\ archive' = archive /\ did' = did
        /\ unseen' = unseen /\ GotoWith(i, "row", <<>>) /\ born' = born /\ reopened' = reopened
        /\ FreeLock(i) /\ lost' = lost \cup DroppedByHand(i, f)
    BY DEF MirrorWrites
  <1>2. cmd[i].how \in Gestures \cup {"mark-deferred"} /\ Found(cmd[i].copy, cmd[i].task)
    BY <1>1 DEF StageInv, Backed
  <1>3. MirrorOf[cmd[i].how] \in Terminal
    BY <1>2, MirrorIsTerminal
  <1>4. f \in Seq(Block)
    BY <1>2, <1>3, CommandIs, Mirrored DEF DistinctInv
  <1>5. Plan(i) \in Plans /\ Typed(i) /\ SamePlace(i) /\ cmd'[i].at = "row" /\ cmd'[i].copy = <<>>
    BY <1>1, CommandIs, GotoWithIs, EmptyFile
  <1> HIDE DEF f
  <1>6. Puts(i, f)
    BY <1>1, <1>4, <1>5 DEF Puts, Inside
  <1>7. QED
    BY <1>1, <1>3, <1>5, <1>6 DEF f

Adds(p) == Report(p) \/ \E t \in Tasks : OperatorNotes(p, t)

(* A block that is no entry is added to the plan's file.                   *)
Gains(p, b) ==
    /\ Room /\ b \in Block /\ ~IsEntry(b) /\ b.id = born + 1 /\ born' = born + 1 /\ born < MaxBlocks
    /\ daily' = [daily EXCEPT ![p] = Append(Content(daily[p]), b)]
    /\ UNCHANGED <<archive, lock, cmd, did, ghosts>>

LEMMA AddsGains ==
  ASSUME TypeOK, NEW p \in Plans, Adds(p)
  PROVE  \E b : Gains(p, b)
  <1>1. PICK kind \in {"report", "note"}, t \in Tasks \cup {NoTask} : Appended(p, kind, t)
    BY DEF Adds, Report, OperatorNotes
  <1>2. IsFiniteSet(Writers)
    BY QueueAssumption, FS_Subset DEF Writers
  <1>3. Cardinality(Writers) \in Nat
    BY <1>2, FS_CardinalityType
  <1>4. born < MaxBlocks /\ born \in 0..MaxBlocks
    BY <1>1, <1>3, QueueAssumption DEF Appended, Room, TypeOK
  <1>5. NewBlock(kind, t) \in Block /\ NewBlock(kind, t).id = born + 1 /\ ~IsEntry(NewBlock(kind, t))
    BY <1>4, NewBlockIs
  <1>6. daily' = [daily EXCEPT ![p] = Append(Content(daily[p]), NewBlock(kind, t))]
    BY <1>1 DEF Appended
  <1>7. Gains(p, NewBlock(kind, t))
    BY <1>1, <1>4, <1>5, <1>6 DEF Appended, Gains, effects
  <1>8. QED
    BY <1>7

(* The file goes to the archive, over what was there.                      *)
Archives(i) ==
    /\ cmd[i].at = "move" /\ Plan(i) \in Plans /\ File(i) # Absent
    /\ archive' = [archive EXCEPT ![Plan(i)] = File(i)] /\ Write(i, Absent)
    /\ lost' = lost \cup (Ids(Blocks(archive[Plan(i)])) \ Ids(Blocks(File(i))))
    /\ unseen' = unseen \cup (Ids(Pending(File(i))) \ Ids(ToSet(cmd[i].copy)))
    /\ Typed(i) /\ cmd'[i].at \in {"idle", "regen"} /\ cmd'[i].copy = <<>>
    /\ (cmd'[i].at = "idle" /\ cmd'[i].how = "none") \/ SamePlace(i)
    /\ UNCHANGED <<lock, did, born, reopened>>

LEMMA MovesArchives ==
  ASSUME TypeOK, NEW i \in Procs, ArchiveMoves(i), File(i) # Absent
  PROVE  Archives(i)
  <1>1. /\ cmd[i].at = "move" /\ UNCHANGED <<lock, did, born, reopened>>
        /\ Return(i) \/ GotoWith(i, "regen", <<>>)
    BY DEF ArchiveMoves, At, effects, views, bounds
  <1>2. Typed(i) /\ cmd'[i].at \in {"idle", "regen"} /\ cmd'[i].copy = <<>>
        /\ ((cmd'[i].at = "idle" /\ cmd'[i].how = "none") \/ SamePlace(i))
    BY <1>1, ReturnIs, GotoWithIs, EmptyFile DEF Stages
  <1>3. Plan(i) \in Plans
    BY <1>1, CommandIs
  <1>4. QED
    BY <1>1, <1>2, <1>3 DEF ArchiveMoves, Archives

(* Every step is one of these.                                             *)
Puttings(i) ==
    \/ (BootWrites(i) \/ ShellWritten(i)) /\ Puts(i, <<>>)
    \/ EntryWrites(i) /\ Puts(i, Append(cmd[i].copy, NewBlock("entry", cmd[i].task)))
    \/ HaltWrites(i) /\ Puts(i, Append(cmd[i].copy, HaltSection))
    \/ MirrorWrites(i) /\ Puts(i, WithMirror(cmd[i].copy, cmd[i].task, MirrorOf[cmd[i].how]))

LEMMA NextIs ==
  ASSUME IInv, Next
  PROVE  \/ \E i \in Procs : Quiet(i) \/ Looks(i) \/ Puttings(i) \/ Archives(i)
         \/ \E p \in Plans : \E b : Gains(p, b)
  <1>1. \/ \E i \in Procs : \/ Goes(i) \/ Begins(i) \/ Reads(i) \/ BootWrites(i) \/ ShellWritten(i)
                            \/ EntryWrites(i) \/ HaltWrites(i) \/ MirrorWrites(i)
                            \/ ArchiveMoves(i) /\ File(i) # Absent
        \/ \E p \in Plans : Adds(p)
    <2>1. ASSUME NEW i \in Procs, Step(i) \/ Dies(i)
          PROVE  \/ Goes(i) \/ Reads(i) \/ BootWrites(i) \/ ShellWritten(i)
                 \/ EntryWrites(i) \/ HaltWrites(i) \/ MirrorWrites(i)
                 \/ ArchiveMoves(i) /\ File(i) # Absent
      BY <2>1 DEF Step, Goes, Reads
    <2>2. ASSUME NEW i \in Procs, NEW p \in Plans,
                 \/ Halt(i, p) \/ Gc(i, p)
                 \/ \E t \in Tasks : \/ Collide(i, p, t) \/ MarkDeferred(i, p, t)
                                     \/ \E g \in Gestures : Triage(i, p, t, g)
          PROVE  Begins(i)
      BY <2>2 DEF Begins
    <2>3. ASSUME NEW p \in Plans, Report(p) \/ \E t \in Tasks : OperatorNotes(p, t)
          PROVE  Adds(p)
      BY <2>3 DEF Adds
    <2>4. \/ \E i \in Procs : Step(i) \/ Dies(i)
          \/ \E i \in Procs, p \in Plans :
               \/ Halt(i, p) \/ Gc(i, p)
               \/ \E t \in Tasks : \/ Collide(i, p, t) \/ MarkDeferred(i, p, t)
                                   \/ \E g \in Gestures : Triage(i, p, t, g)
          \/ \E p \in Plans : Report(p) \/ \E t \in Tasks : OperatorNotes(p, t)
      BY DEF Next
    <2>5. QED
      BY <2>1, <2>2, <2>3, <2>4
  <1>2. TypeOK /\ TaskInv /\ RoomInv /\ StageInv /\ DistinctInv
    BY DEF IInv
  <1>3. ASSUME NEW i \in Procs, Goes(i) \/ Begins(i)
        PROVE  Quiet(i)
    BY <1>2, <1>3, GoesIsQuiet, BeginsIsQuiet
  <1>4. ASSUME NEW i \in Procs, Reads(i)
        PROVE  Looks(i)
    BY <1>2, <1>4, ReadsLook
  <1>5. ASSUME NEW i \in Procs, BootWrites(i) \/ ShellWritten(i)
        PROVE  Puttings(i)
    BY <1>2, <1>5, BootPuts DEF Puttings
  <1>6. ASSUME NEW i \in Procs, EntryWrites(i)
        PROVE  Puttings(i)
    BY <1>2, <1>6, EntryPuts DEF Puttings
  <1>7. ASSUME NEW i \in Procs, HaltWrites(i)
        PROVE  Puttings(i)
    BY <1>2, <1>7, HaltPuts DEF Puttings
  <1>8. ASSUME NEW i \in Procs, MirrorWrites(i)
        PROVE  Puttings(i)
    BY <1>2, <1>8, MirrorPuts DEF Puttings
  <1>9. ASSUME NEW i \in Procs, ArchiveMoves(i), File(i) # Absent
        PROVE  Archives(i)
    BY <1>2, <1>9, MovesArchives
  <1>10. ASSUME NEW p \in Plans, Adds(p)
         PROVE  \E b : Gains(p, b)
    BY <1>2, <1>10, AddsGains
  <1>11. QED
    BY <1>1, <1>3, <1>4, <1>5, <1>6, <1>7, <1>8, <1>9, <1>10

-----------------------------------------------------------------------------
(* The flock *)

LockOK == LockIsHeldInside /\ HolderInv

LEMMA QuietKeepsLocks ==
  ASSUME TypeOK, LockOK, NEW i \in Procs, Quiet(i)
  PROVE  LockOK'
  <1> USE DEF LockOK, LockIsHeldInside, HolderInv, Plan, Inside
  <1>1. lock \in [Plans -> Procs \cup {Nobody}] /\ Nobody \notin Procs
        /\ (\A j \in Procs : j # i => cmd'[j] = cmd[j])
        /\ cmd'[i].at \notin Inside
        /\ (\A j \in Procs : cmd[j].at \in Inside => cmd[j].plan \in Plans)
    BY QueueAssumption DEF TypeOK, Quiet, Typed, Only, At
  <1>2. CASE lock' = lock /\ cmd[i].at \notin Inside
    BY <1>1, <1>2
  <1>3. CASE lock' = [p \in Plans |-> IF lock[p] = i THEN Nobody ELSE lock[p]]
    <2>1. \A p \in Plans : lock'[p] = IF lock[p] = i THEN Nobody ELSE lock[p]
      BY <1>3
    <2>2. LockIsHeldInside'
      BY <1>1, <2>1
    <2>3. HolderInv'
      BY <1>1, <2>1
    <2>4. QED
      BY <2>2, <2>3
  <1>4. QED
    BY <1>2, <1>3 DEF Quiet

LEMMA LooksKeepsLocks ==
  ASSUME TypeOK, LockOK, NEW i \in Procs, Looks(i)
  PROVE  LockOK'
  <1> USE DEF LockOK, LockIsHeldInside, HolderInv, Plan, Inside
  <1>1. lock \in [Plans -> Procs \cup {Nobody}] /\ Nobody \notin Procs
        /\ (\A j \in Procs : j # i => cmd'[j] = cmd[j])
        /\ cmd[i].at \notin Inside /\ cmd[i].plan \in Plans /\ cmd'[i].plan = cmd[i].plan
        /\ (\A j \in Procs : cmd[j].at \in Inside => cmd[j].plan \in Plans)
    BY QueueAssumption DEF TypeOK, Looks, Typed, Only, At, SamePlace
  <1>2. CASE cmd'[i].at \in Inside
    <2>1. lock[cmd[i].plan] = Nobody /\ lock' = [lock EXCEPT ![cmd[i].plan] = i]
      BY <1>2 DEF Looks, TakeLock
    <2>2. \A p \in Plans : lock'[p] = IF p = cmd[i].plan THEN i ELSE lock[p]
      BY <1>1, <2>1
    <2>3. LockIsHeldInside'
      BY <1>1, <1>2, <2>2
    <2>4. HolderInv'
      BY <1>1, <1>2, <2>1, <2>2
    <2>5. QED
      BY <2>3, <2>4
  <1>3. CASE cmd'[i].at \notin Inside
    <2>1. lock' = lock
      BY <1>3 DEF Looks
    <2>2. QED
      BY <1>1, <1>3, <2>1
  <1>4. QED
    BY <1>2, <1>3

LEMMA PutsKeepsLocks ==
  ASSUME TypeOK, LockOK, NEW i \in Procs, NEW f, Puts(i, f)
  PROVE  LockOK'
  <1> USE DEF LockOK, LockIsHeldInside, HolderInv, Plan, Inside
  <1>1. lock \in [Plans -> Procs \cup {Nobody}] /\ Nobody \notin Procs
        /\ (\A j \in Procs : j # i => cmd'[j] = cmd[j])
        /\ cmd'[i].at \notin Inside /\ cmd[i].plan \in Plans
        /\ (\A j \in Procs : cmd[j].at \in Inside => cmd[j].plan \in Plans)
    BY QueueAssumption DEF TypeOK, Puts, Typed, Only, At
  <1>2. CASE cmd[i].at \in Inside /\ FreeLock(i)
    <2>1. \A p \in Plans : lock'[p] = IF p = cmd[i].plan THEN Nobody ELSE lock[p]
      BY <1>1, <1>2 DEF FreeLock
    <2>2. LockIsHeldInside'
      BY <1>1, <1>2, <2>1
    <2>3. HolderInv'
      BY <1>1, <1>2, <2>1
    <2>4. QED
      BY <2>2, <2>3
  <1>3. CASE cmd[i].at \notin Inside /\ lock' = lock
    BY <1>1, <1>3
  <1>4. QED
    BY <1>2, <1>3 DEF Puts

LEMMA LocksStep ==
  ASSUME IInv, [Next]_vars
  PROVE  LockOK'
  <1>1. TypeOK /\ LockOK
    BY DEF IInv, LockOK
  <1>2. ASSUME NEW i \in Procs, Puttings(i)
        PROVE  LockOK'
    BY <1>1, <1>2, PutsKeepsLocks DEF Puttings
  <1>3. ASSUME NEW i \in Procs, Archives(i)
        PROVE  LockOK'
    <2>1. /\ lock' = lock /\ cmd[i].at = "move" /\ cmd'[i].at \in {"idle", "regen"}
          /\ \A j \in Procs : j # i => cmd'[j] = cmd[j]
      BY <1>3 DEF Archives, Typed, Only
    <2>2. lock \in [Plans -> Procs \cup {Nobody}]
      BY <1>1 DEF TypeOK
    <2>3. QED
      BY <1>1, <2>1, <2>2 DEF LockOK, LockIsHeldInside, HolderInv, Plan, Inside
  <1>4. ASSUME NEW p \in Plans, NEW b, Gains(p, b)
        PROVE  LockOK'
    BY <1>1, <1>4 DEF Gains, LockOK, LockIsHeldInside, HolderInv, Plan
  <1>5. CASE UNCHANGED vars
    BY <1>1, <1>5 DEF vars, LockOK, LockIsHeldInside, HolderInv, Plan
  <1>6. QED
    BY <1>1, <1>2, <1>3, <1>4, <1>5, NextIs, QuietKeepsLocks, LooksKeepsLocks

-----------------------------------------------------------------------------
(* Types, tasks, stages and room *)

(* What the triage rows and the index name are tasks.                      *)
ViewsTyped ==
    /\ known \in [Plans -> SUBSET Tasks]
    /\ closed \in [Plans -> SUBSET Tasks] /\ index \in [Plans -> SUBSET Tasks]

LEMMA ViewsStep ==
  ASSUME IInv, [Next]_vars
  PROVE  ViewsTyped'
  <1>1. TypeOK /\ TaskInv /\ known \in [Plans -> SUBSET Tasks]
        /\ closed \in [Plans -> SUBSET Tasks] /\ index \in [Plans -> SUBSET Tasks]
    BY DEF IInv, TypeOK
  <1>2. CASE UNCHANGED <<known, closed, index>>
    BY <1>1, <1>2 DEF ViewsTyped
  <1>3. ASSUME NEW i \in Procs, GestureUpdates(i)
        PROVE  ViewsTyped'
    <2>1. cmd[i].task \in Tasks /\ Plan(i) \in Plans
      BY <1>1, <1>3, CommandIs DEF GestureUpdates, At, TaskInv, Tasked, GestureStages
    <2>2. UNCHANGED <<closed, index>> /\ known' = [known EXCEPT ![Plan(i)] = @ \cup {cmd[i].task}]
      BY <1>3 DEF GestureUpdates, Updated, views
    <2>3. QED
      BY <1>1, <2>1, <2>2 DEF ViewsTyped
  <1>4. ASSUME NEW i \in Procs, RowEmitted(i)
        PROVE  ViewsTyped'
    <2>1. cmd[i].task \in Tasks /\ Plan(i) \in Plans
      BY <1>1, <1>4, CommandIs DEF RowEmitted, At, TaskInv, Tasked, GestureStages
    <2>2. /\ UNCHANGED <<known, index>>
          /\ closed' = closed \/ closed' = [closed EXCEPT ![Plan(i)] = @ \cup {cmd[i].task}]
      BY <1>4 DEF RowEmitted, effects
    <2>3. QED
      BY <1>1, <2>1, <2>2 DEF ViewsTyped
  <1>5. ASSUME NEW i \in Procs, IndexRegenerated(i)
        PROVE  ViewsTyped'
    <2>1. Plan(i) \in Plans /\ Blocks(File(i)) \subseteq Block
      BY <1>1, <1>5, CommandIs, FileTyped, ContentIs DEF IndexRegenerated, At, File
    <2>2. \A b \in Pending(File(i)) : b.task \in Tasks
      BY <2>1 DEF Pending, Entries, IsEntry, Block
    <2>3. UNCHANGED <<known, closed>>
          /\ index' = [index EXCEPT ![Plan(i)] = {b.task : b \in Pending(File(i))} \ closed[Plan(i)]]
      BY <1>5 DEF IndexRegenerated, effects
    <2>4. QED
      BY <1>1, <2>1, <2>2, <2>3 DEF ViewsTyped
  <1>6. ASSUME NEW i \in Procs, Step(i) \/ Dies(i)
        PROVE  \/ UNCHANGED <<known, closed, index>>
               \/ GestureUpdates(i) \/ RowEmitted(i) \/ IndexRegenerated(i)
    <2> USE DEF effects, views
    <2>1. CASE BootSees(i) \/ BootAgain(i) \/ BootDone(i) \/ BootWrites(i) \/ ShellWritten(i)
      BY <2>1 DEF BootSees, BootAgain, BootDone, BootWrites, ShellWritten
    <2>2. CASE EntryReads(i) \/ EntryWrites(i) \/ HaltReads(i) \/ HaltWrites(i)
      BY <2>2 DEF EntryReads, EntryWrites, HaltReads, HaltWrites
    <2>3. CASE LookupRefuses(i) \/ LookupFinds(i) \/ RouteMints(i) \/ GestureFails(i)
               \/ AbandonStops(i) \/ MarkerCreated(i)
      BY <2>3 DEF LookupRefuses, LookupFinds, RouteMints, GestureFails, AbandonStops, MarkerCreated
    <2>4. CASE MirrorReads(i) \/ MirrorAbsent(i) \/ MirrorWrites(i) \/ ArchiveChecks(i)
               \/ ArchiveMoves(i) \/ Dies(i)
      BY <2>4 DEF MirrorReads, MirrorAbsent, MirrorWrites, ArchiveChecks, ArchiveMoves, Dies
    <2>5. QED
      BY <1>6, <2>1, <2>2, <2>3, <2>4 DEF Step
  <1>7. ASSUME NEW i \in Procs, Begins(i)
        PROVE  UNCHANGED <<known, closed, index>>
    BY <1>7 DEF Begins, Begin, Halt, Gc, Collide, MarkDeferred, Triage, effects, views
  <1>8. ASSUME NEW p \in Plans, Adds(p)
        PROVE  UNCHANGED <<known, closed, index>>
    BY <1>8 DEF Adds, Report, OperatorNotes, Appended, effects, views
  <1>9. CASE UNCHANGED vars
    BY <1>2, <1>9 DEF vars, effects, views
  <1>10. CASE \E i \in Procs : Step(i) \/ Dies(i)
    BY <1>2, <1>3, <1>4, <1>5, <1>6, <1>10
  <1>11. CASE \E i \in Procs, p \in Plans :
                \/ Halt(i, p) \/ Gc(i, p)
                \/ \E t \in Tasks : \/ Collide(i, p, t) \/ MarkDeferred(i, p, t)
                                    \/ \E g \in Gestures : Triage(i, p, t, g)
    <2>1. PICK i \in Procs : Begins(i)
      BY <1>11 DEF Begins
    <2>2. QED
      BY <1>2, <1>7, <2>1
  <1>12. CASE \E p \in Plans : Report(p) \/ \E t \in Tasks : OperatorNotes(p, t)
    <2>1. PICK p \in Plans : Adds(p)
      BY <1>12 DEF Adds
    <2>2. QED
      BY <1>2, <1>8, <2>1
  <1>13. QED
    BY <1>9, <1>10, <1>11, <1>12 DEF Next

LEMMA IdsTyped ==
  ASSUME NEW f \in Seq(Block) \cup {Absent}
  PROVE  Ids(Blocks(f)) \subseteq 1..MaxBlocks
  <1>1. Blocks(f) \subseteq Block
    BY ContentIs
  <1>2. \A b \in Block : b.id \in 1..MaxBlocks
    BY DEF Block
  <1>3. QED
    BY <1>1, <1>2 DEF Ids

(* What a step writes has the counts and the types of a file.              *)
LEMMA PuttingsBorn ==
  ASSUME IInv, NEW i \in Procs, Puttings(i)
  PROVE  \E f : Puts(i, f) /\ \/ born' = born
                              \/ /\ born' = born + 1 /\ born < MaxBlocks
                                 /\ cmd[i].how \in {"collide", "halt"} /\ cmd'[i].how = "none"
  <1>1. TypeOK /\ TaskInv /\ RoomInv /\ StageInv /\ DistinctInv
    BY DEF IInv
  <1>2. CASE BootWrites(i) \/ ShellWritten(i)
    BY <1>1, <1>2, BootPuts
  <1>3. CASE EntryWrites(i)
    BY <1>1, <1>3, EntryPuts DEF Puts, SamePlace
  <1>4. CASE HaltWrites(i)
    BY <1>1, <1>4, HaltPuts DEF Puts
  <1>5. CASE MirrorWrites(i)
    BY <1>1, <1>5, MirrorPuts
  <1>6. QED
    BY <1>2, <1>3, <1>4, <1>5 DEF Puttings

LEMMA TypeStep ==
  ASSUME IInv, [Next]_vars
  PROVE  TypeOK'
  <1> USE DEF At, Plan
  <1>1. TypeOK
    BY DEF IInv
  <1>2. ViewsTyped'
    BY ViewsStep
  <1> DEFINE Files == Seq(Block) \cup {Absent}
  <1>3. /\ daily \in [Plans -> Files] /\ archive \in [Plans -> Files]
        /\ lock \in [Plans -> Procs \cup {Nobody}] /\ cmd \in [Procs -> Command]
        /\ (\A i \in Procs : cmd[i].at = "idle" \/ cmd[i].plan \in Plans)
        /\ born \in 0..MaxBlocks /\ lost \subseteq 1..MaxBlocks /\ MaxBlocks \in Nat
    BY <1>1, QueueAssumption DEF TypeOK
  <1>4. ASSUME NEW i \in Procs, Quiet(i)
        PROVE  TypeOK'
    <2>1. /\ daily' = daily /\ archive' = archive /\ born' = born /\ lost' = lost
          /\ cmd' \in [Procs -> Command]
          /\ (\A j \in Procs : j # i => cmd'[j] = cmd[j])
          /\ cmd'[i].at = "idle" \/ cmd'[i].plan \in Plans
      BY <1>4 DEF Quiet, SameFiles, files, ghosts, Typed, Only
    <2>2. lock' \in [Plans -> Procs \cup {Nobody}]
      BY <1>3, <1>4 DEF Quiet
    <2>3. \A j \in Procs : cmd'[j].at = "idle" \/ cmd'[j].plan \in Plans
      BY <1>3, <2>1
    <2>4. QED
      BY <1>2, <1>3, <2>1, <2>2, <2>3 DEF TypeOK, ViewsTyped
  <1>5. ASSUME NEW i \in Procs, Looks(i)
        PROVE  TypeOK'
    <2>1. /\ daily' = daily /\ archive' = archive /\ born' = born /\ lost' = lost
          /\ cmd' \in [Procs -> Command]
          /\ (\A j \in Procs : j # i => cmd'[j] = cmd[j])
          /\ cmd'[i].plan \in Plans
      BY <1>5 DEF Looks, SameFiles, files, ghosts, Typed, Only, SamePlace
    <2>2. lock' \in [Plans -> Procs \cup {Nobody}]
      <3>1. lock' = lock \/ lock' = [lock EXCEPT ![cmd[i].plan] = i]
        BY <1>5 DEF Looks, TakeLock, Inside
      <3>2. QED
        BY <1>3, <3>1
    <2>3. \A j \in Procs : cmd'[j].at = "idle" \/ cmd'[j].plan \in Plans
      BY <1>3, <2>1
    <2>4. QED
      BY <1>2, <1>3, <2>1, <2>2, <2>3 DEF TypeOK, ViewsTyped
  <1>6. ASSUME NEW i \in Procs, Puttings(i)
        PROVE  TypeOK'
    <2>1. PICK f : Puts(i, f) /\ (born' = born \/ (born' = born + 1 /\ born < MaxBlocks))
      BY <1>6, PuttingsBorn
    <2>2. /\ f \in Seq(Block) /\ cmd[i].plan \in Plans /\ archive' = archive
          /\ daily' = [daily EXCEPT ![cmd[i].plan] = f]
          /\ cmd' \in [Procs -> Command]
          /\ (\A j \in Procs : j # i => cmd'[j] = cmd[j])
          /\ cmd'[i].at = "idle" \/ cmd'[i].plan \in Plans
      BY <2>1 DEF Puts, Write, Typed, Only, SamePlace
    <2>3. lock' \in [Plans -> Procs \cup {Nobody}]
      <3>1. lock' = lock \/ lock' = [lock EXCEPT ![cmd[i].plan] = Nobody]
        BY <2>1 DEF Puts, FreeLock
      <3>2. QED
        BY <1>3, <3>1
    <2>4. \A j \in Procs : cmd'[j].at = "idle" \/ cmd'[j].plan \in Plans
      BY <1>3, <2>2
    <2>5. lost' \subseteq 1..MaxBlocks
      <3>1. Ids(Blocks(File(i))) \subseteq 1..MaxBlocks
        BY <1>3, <2>2, IdsTyped DEF File
      <3>2. lost' = lost \cup DroppedByHand(i, f) \/ lost' = lost \cup Dropped(i, f)
        BY <2>1 DEF Puts
      <3>3. QED
        BY <1>3, <3>1, <3>2 DEF Dropped, DroppedByHand
    <2>6. born' \in 0..MaxBlocks
      BY <1>3, <2>1
    <2>7. daily' \in [Plans -> Files]
      BY <1>3, <2>2
    <2>8. QED
      BY <1>2, <1>3, <2>2, <2>3, <2>4, <2>5, <2>6, <2>7 DEF TypeOK, ViewsTyped
  <1>7. ASSUME NEW i \in Procs, Archives(i)
        PROVE  TypeOK'
    <2>1. /\ cmd[i].plan \in Plans /\ File(i) \in Files
          /\ daily' = [daily EXCEPT ![cmd[i].plan] = Absent]
          /\ archive' = [archive EXCEPT ![cmd[i].plan] = File(i)]
          /\ cmd' \in [Procs -> Command] /\ lock' = lock /\ born' = born
          /\ (\A j \in Procs : j # i => cmd'[j] = cmd[j])
          /\ cmd'[i].at = "idle" \/ cmd'[i].plan \in Plans
      BY <1>3, <1>7 DEF Archives, Write, Typed, Only, SamePlace, File
    <2>2. \A j \in Procs : cmd'[j].at = "idle" \/ cmd'[j].plan \in Plans
      BY <1>3, <2>1
    <2>3. lost' \subseteq 1..MaxBlocks
      <3>1. Ids(Blocks(archive[Plan(i)])) \subseteq 1..MaxBlocks
        BY <1>3, <2>1, IdsTyped
      <3>2. QED
        BY <1>3, <1>7, <3>1 DEF Archives
    <2>4. daily' \in [Plans -> Files] /\ archive' \in [Plans -> Files]
      BY <1>3, <2>1
    <2>5. QED
      BY <1>2, <1>3, <2>1, <2>2, <2>3, <2>4 DEF TypeOK, ViewsTyped
  <1>8. ASSUME NEW p \in Plans, NEW b, Gains(p, b)
        PROVE  TypeOK'
    <2>1. Content(daily[p]) \in Seq(Block)
      BY <1>3, ContentIs
    <2>2. Append(Content(daily[p]), b) \in Seq(Block)
      BY <1>8, <2>1, Appending DEF Gains
    <2>3. daily' \in [Plans -> Files]
      BY <1>3, <1>8, <2>2 DEF Gains
    <2>4. UNCHANGED <<archive, lock, cmd, lost>> /\ born' \in 0..MaxBlocks
      BY <1>3, <1>8 DEF Gains, ghosts
    <2>5. QED
      BY <1>2, <1>3, <2>3, <2>4 DEF TypeOK, ViewsTyped
  <1>9. CASE UNCHANGED vars
    BY <1>2, <1>3, <1>9 DEF vars, files, ghosts, TypeOK, ViewsTyped
  <1>10. QED
    BY <1>4, <1>5, <1>6, <1>7, <1>8, <1>9, NextIs

LEMMA TaskStep ==
  ASSUME IInv, [Next]_vars
  PROVE  TaskInv'
  <1> USE DEF TaskInv, Tasked, SamePlace, GestureStages
  <1>1. TaskInv
    BY DEF IInv
  <1>2. ASSUME NEW i \in Procs, Quiet(i)
        PROVE  TaskInv'
    BY <1>1, <1>2 DEF Quiet, Typed, Only
  <1>3. ASSUME NEW i \in Procs, Looks(i)
        PROVE  TaskInv'
    BY <1>1, <1>3 DEF Looks, Typed, Only
  <1>4. ASSUME NEW i \in Procs, Puttings(i)
        PROVE  TaskInv'
    <2>1. PICK f : Puts(i, f)
      BY <1>4 DEF Puttings
    <2>2. QED
      BY <1>1, <2>1 DEF Puts, Typed, Only
  <1>5. ASSUME NEW i \in Procs, Archives(i)
        PROVE  TaskInv'
    BY <1>1, <1>5 DEF Archives, Typed, Only
  <1>6. ASSUME NEW p \in Plans, NEW b, Gains(p, b)
        PROVE  TaskInv'
    BY <1>1, <1>6 DEF Gains
  <1>7. CASE UNCHANGED vars
    BY <1>1, <1>7 DEF vars
  <1>8. QED
    BY <1>2, <1>3, <1>4, <1>5, <1>6, <1>7, NextIs

(* What gestures have done stays done.                                     *)
LEMMA DidStays ==
  ASSUME IInv, [Next]_vars
  PROVE  did \subseteq did'
  <1>1. ASSUME NEW i \in Procs, Puttings(i)
        PROVE  did' = did
    BY <1>1 DEF Puttings, Puts
  <1>2. CASE UNCHANGED vars
    BY <1>2 DEF vars, effects
  <1>3. QED
    BY <1>1, <1>2, NextIs DEF Quiet, Looks, Archives, Gains

LEMMA SucceededStays ==
  ASSUME did \subseteq did', NEW p, NEW t, NEW m, Succeeded(p, t, m)
  PROVE  Succeeded(p, t, m)'
  BY DEF Succeeded

Staged(i) ==
    /\ At(i, "entry") => cmd[i].how = "collide"
    /\ At(i, "section") => cmd[i].how = "halt"
    /\ At(i, "write") => Found(cmd[i].copy, cmd[i].task)
    /\ At(i, "move") => \A b \in ToSet(cmd[i].copy) : ~IsOpen(b)
    /\ Backed(i)

LEMMA StageStep ==
  ASSUME IInv, [Next]_vars
  PROVE  StageInv'
  <1>1. TypeOK /\ \A i \in Procs : Staged(i)
    BY DEF IInv, StageInv, Staged
  <1>2. ASSUME NEW i \in Procs, cmd'[i] = cmd[i]
        PROVE  Staged(i)'
    <2>1. Backed(i)'
      BY <1>1, <1>2, DidStays, SucceededStays DEF Staged, Backed, Plan
    <2>2. QED
      BY <1>1, <1>2, <2>1 DEF Staged, At
  <1>3. ASSUME NEW i \in Procs, Only(i), Staged(i)'
        PROVE  StageInv'
    <2>1. \A j \in Procs : Staged(j)'
      BY <1>2, <1>3 DEF Only
    <2>2. QED
      BY <2>1 DEF StageInv, Staged
  <1>4. ASSUME NEW i \in Procs, Quiet(i)
        PROVE  StageInv'
    <2>1. Staged(i)' /\ Only(i)
      BY <1>4 DEF Quiet, Typed, Staged, At, Inside
    <2>2. QED
      BY <1>3, <2>1
  <1>5. ASSUME NEW i \in Procs, Looks(i)
        PROVE  StageInv'
    <2>1. Backed(i)'
      <3>1. cmd'[i].at \in {"mirror", "write"} => cmd[i].at = "mirror"
        BY <1>5 DEF Looks
      <3>2. QED
        BY <1>1, <1>5, <3>1, DidStays, SucceededStays DEF Looks, SamePlace, Staged, Backed, Plan
    <2>2. cmd'[i].at = "move" => \A b \in ToSet(cmd'[i].copy) : ~IsOpen(b)
      <3>1. SUFFICES ASSUME cmd'[i].at = "move"
                     PROVE  \A b \in ToSet(cmd'[i].copy) : ~IsOpen(b)
        OBVIOUS
      <3>2. AllClosed(File(i)) /\ cmd'[i].copy = Content(File(i)) /\ Plan(i) \in Plans
        BY <1>5, <3>1 DEF Looks
      <3>3. ToSet(cmd'[i].copy) = Blocks(File(i))
        BY <1>1, <3>2, FileTyped, ContentIs DEF File
      <3>4. QED
        BY <3>2, <3>3 DEF AllClosed, Pending, Entries, IsOpen
    <2>3. cmd'[i].at = "write" => Found(cmd'[i].copy, cmd'[i].task)
      BY <1>5 DEF Looks, SamePlace
    <2>4. /\ cmd'[i].at = "entry" => cmd'[i].how = "collide"
          /\ cmd'[i].at = "section" => cmd'[i].how = "halt"
      BY <1>5 DEF Looks, SamePlace
    <2>5. Staged(i)'
      BY <2>1, <2>2, <2>3, <2>4 DEF Staged, At
    <2>6. QED
      BY <1>3, <1>5, <2>5 DEF Looks, Typed
  <1>6. ASSUME NEW i \in Procs, Puttings(i)
        PROVE  StageInv'
    <2>1. PICK f : Puts(i, f)
      BY <1>6 DEF Puttings
    <2>2. Staged(i)' /\ Only(i)
      BY <2>1 DEF Puts, Typed, Staged, Backed, At
    <2>3. QED
      BY <1>3, <2>2
  <1>7. ASSUME NEW i \in Procs, Archives(i)
        PROVE  StageInv'
    <2>1. Staged(i)' /\ Only(i)
      BY <1>7 DEF Archives, Typed, Staged, Backed, At
    <2>2. QED
      BY <1>3, <2>1
  <1>8. CASE cmd' = cmd
    <2>1. \A j \in Procs : Staged(j)'
      BY <1>2, <1>8
    <2>2. QED
      BY <2>1 DEF StageInv, Staged
  <1>9. QED
    BY <1>4, <1>5, <1>6, <1>7, <1>8, NextIs DEF Gains, vars

(* A writer that begins finds room, and leaves it when it has written.     *)
LEMMA RoomStep ==
  ASSUME IInv, [Next]_vars
  PROVE  RoomInv'
  <1>1. TypeOK /\ RoomInv /\ IsFiniteSet(Writers) /\ MaxBlocks \in Nat /\ born \in 0..MaxBlocks
        /\ Writers \subseteq Procs
    BY QueueAssumption, FS_Subset DEF IInv, Writers, TypeOK
  <1>2. Cardinality(Writers) \in Nat
    BY <1>1, FS_CardinalityType
  <1>3. ASSUME Writers' \subseteq Writers, born' = born
        PROVE  RoomInv'
    <2>1. IsFiniteSet(Writers') /\ Cardinality(Writers') <= Cardinality(Writers)
      BY <1>1, <1>3, FS_Subset
    <2>2. Cardinality(Writers') \in Nat
      BY <2>1, FS_CardinalityType
    <2>3. QED
      BY <1>1, <1>2, <1>3, <2>1, <2>2 DEF RoomInv
  <1>4. ASSUME NEW i \in Procs, Only(i), cmd'[i].how \in {"collide", "halt"} => i \in Writers
        PROVE  Writers' \subseteq Writers
    BY <1>4 DEF Writers, Only
  <1>5. ASSUME NEW i \in Procs, Quiet(i)
        PROVE  RoomInv'
    <2>1. Only(i) /\ born' = born
      BY <1>5 DEF Quiet, Typed, SameFiles
    <2>2. CASE cmd'[i].how \in {"collide", "halt"} => i \in Writers
      BY <1>3, <1>4, <2>1, <2>2
    <2>3. CASE cmd'[i].how \in {"collide", "halt"} /\ i \notin Writers
      <3>1. Room
        BY <1>5, <2>3 DEF Quiet, Writers
      <3>2. Writers' \subseteq Writers \cup {i}
        BY <2>1 DEF Writers, Only
      <3>3. IsFiniteSet(Writers \cup {i}) /\ Cardinality(Writers \cup {i}) = Cardinality(Writers) + 1
        BY <1>1, <2>3, FS_AddElement
      <3>4. IsFiniteSet(Writers') /\ Cardinality(Writers') <= Cardinality(Writers) + 1
        BY <3>2, <3>3, FS_Subset
      <3>5. Cardinality(Writers') \in Nat
        BY <3>4, FS_CardinalityType
      <3>6. QED
        BY <1>1, <1>2, <2>1, <3>1, <3>4, <3>5 DEF Room, RoomInv
    <2>4. QED
      BY <2>2, <2>3
  <1>6. ASSUME NEW i \in Procs, Looks(i)
        PROVE  RoomInv'
    BY <1>3, <1>4, <1>6 DEF Looks, SameFiles, Typed, SamePlace, Writers
  <1>7. ASSUME NEW i \in Procs, Puttings(i)
        PROVE  RoomInv'
    <2>1. PICK f : Puts(i, f) /\ \/ born' = born
                                 \/ /\ born' = born + 1 /\ born < MaxBlocks
                                    /\ cmd[i].how \in {"collide", "halt"} /\ cmd'[i].how = "none"
      BY <1>7, PuttingsBorn
    <2>2. Only(i) /\ (cmd'[i].how \in {"collide", "halt"} => i \in Writers)
      BY <2>1 DEF Puts, Typed, SamePlace, Writers
    <2>3. CASE born' = born
      BY <1>3, <1>4, <2>2, <2>3
    <2>4. CASE born' = born + 1 /\ cmd[i].how \in {"collide", "halt"} /\ cmd'[i].how = "none"
      <3>1. i \in Writers /\ Writers' \subseteq Writers \ {i}
        BY <2>2, <2>4 DEF Writers, Only
      <3>2. IsFiniteSet(Writers \ {i}) /\ Cardinality(Writers \ {i}) = Cardinality(Writers) - 1
        BY <1>1, <3>1, FS_RemoveElement
      <3>3. IsFiniteSet(Writers') /\ Cardinality(Writers') <= Cardinality(Writers) - 1
        BY <3>1, <3>2, FS_Subset
      <3>4. Cardinality(Writers') \in Nat
        BY <3>3, FS_CardinalityType
      <3>5. QED
        BY <1>1, <1>2, <2>4, <3>3, <3>4 DEF RoomInv
    <2>5. QED
      BY <2>1, <2>3, <2>4
  <1>8. ASSUME NEW i \in Procs, Archives(i)
        PROVE  RoomInv'
    BY <1>3, <1>4, <1>8 DEF Archives, Typed, SamePlace, Writers
  <1>9. ASSUME NEW p \in Plans, NEW b, Gains(p, b)
        PROVE  RoomInv'
    <2>1. Writers' = Writers /\ born' = born + 1 /\ Room
      BY <1>9 DEF Gains, Writers
    <2>2. QED
      BY <1>1, <1>2, <2>1 DEF Room, RoomInv
  <1>10. CASE UNCHANGED vars
    BY <1>3, <1>10 DEF vars, Writers
  <1>11. QED
    BY <1>5, <1>6, <1>7, <1>8, <1>9, <1>10, NextIs

-----------------------------------------------------------------------------
(* What a writer writes: blocks of its copy, one of them perhaps with the  *)
(* mirror of a gesture that succeeded, and perhaps one new block nb.       *)
Redone(i, b) ==
    \E e \in ToSet(cmd[i].copy) :
        /\ cmd[i].at = "write" /\ e.id = b.id /\ e.kind = b.kind /\ ~IsOpen(b)
        /\ Succeeded(Plan(i), b.task, b.mirror)

Made(i, f, nb) ==
    /\ Puts(i, f) /\ Distinct(f)
    /\ \/ born' = born
       \/ born' = born + 1 /\ nb.id = born + 1 /\ ~IsClosed(nb) /\ nb \in ToSet(f)
    /\ \A b \in ToSet(f) : b \in ToSet(cmd[i].copy) \/ (b = nb /\ born' = born + 1) \/ Redone(i, b)
    /\ cmd[i].at \in Inside => Base(i) \subseteq Ids(ToSet(f))
    /\ \/ cmd[i].at \in {"entry", "write"} /\ reopened' = reopened
       \/ ToSet(f) = {} /\ reopened' = reopened
       \/ /\ cmd[i].at = "section" /\ ~IsEntry(nb)
          /\ reopened' = reopened \cup (Ids(Pending(f)) \ Ids(Pending(File(i))))

(* The blocks of a copy are older than the next one.                       *)
LEMMA CopyIsOld ==
  ASSUME IInv, NEW i \in Procs, cmd[i].at # "idle"
  PROVE  /\ Plan(i) \in Plans /\ cmd[i].copy \in Seq(Block) /\ Distinct(cmd[i].copy)
         /\ \A b \in ToSet(cmd[i].copy) : b.id # born + 1
  <1>1. TypeOK /\ DistinctInv /\ FreshInv
    BY DEF IInv, VersionInv
  <1>2. Plan(i) \in Plans /\ cmd[i].copy \in Seq(Block) /\ Distinct(cmd[i].copy)
    BY <1>1, CommandIs DEF DistinctInv
  <1>3. ASSUME NEW b \in ToSet(cmd[i].copy)
        PROVE  b.id # born + 1
    <2>1. b.id <= born /\ b \in Block /\ born \in Nat
      BY <1>1, <1>2, FileIs, QueueAssumption DEF FreshInv, Version, TypeOK
    <2>2. b.id \in Nat
      BY <2>1, QueueAssumption DEF Block
    <2>3. QED
      BY <2>1, <2>2
  <1>4. QED
    BY <1>2, <1>3

LEMMA PuttingsMake ==
  ASSUME IInv, NEW i \in Procs, Puttings(i)
  PROVE  \E f, nb : Made(i, f, nb)
  <1>1. TypeOK /\ TaskInv /\ RoomInv /\ StageInv /\ DistinctInv
    BY DEF IInv
  <1>2. ASSUME BootWrites(i) \/ ShellWritten(i)
        PROVE  \E f, nb : Made(i, f, nb)
    <2>1. Puts(i, <<>>) /\ born' = born /\ reopened' = reopened
      BY <1>1, <1>2, BootPuts
    <2>2. cmd[i].at \in Inside => At(i, "header")
      BY <1>2 DEF BootWrites, ShellWritten, At, Inside
    <2>3. Made(i, <<>>, <<>>)
      BY <2>1, <2>2, EmptyFile DEF Made, Base
    <2>4. QED
      BY <2>3
  <1>3. ASSUME EntryWrites(i)
        PROVE  \E f, nb : Made(i, f, nb)
    <2> DEFINE nb == NewBlock("entry", cmd[i].task)
               f == Append(cmd[i].copy, nb)
    <2>1. /\ Puts(i, f) /\ nb \in Block /\ cmd[i].at = "entry" /\ cmd[i].how = "collide"
          /\ born' = born + 1 /\ born < MaxBlocks /\ reopened' = reopened
      BY <1>1, <1>3, EntryPuts
    <2>2. nb.id = born + 1 /\ ~IsClosed(nb)
      BY <2>1, <1>1, NewBlockIs DEF TypeOK, TaskInv, Tasked
    <2> HIDE DEF nb
    <2>3. cmd[i].copy \in Seq(Block) /\ Distinct(cmd[i].copy)
          /\ \A b \in ToSet(cmd[i].copy) : b.id # nb.id
      BY <2>1, <2>2, CopyIsOld
    <2>4. /\ ToSet(f) = ToSet(cmd[i].copy) \cup {nb} /\ Distinct(f)
          /\ Ids(ToSet(f)) = Ids(ToSet(cmd[i].copy)) \cup {nb.id}
      BY <2>1, <2>3, Appending
    <2> HIDE DEF f
    <2>5. Made(i, f, nb)
      BY <2>1, <2>2, <2>4 DEF Made, Base, At
    <2>6. QED
      BY <2>5
  <1>4. ASSUME HaltWrites(i)
        PROVE  \E f, nb : Made(i, f, nb)
    <2> DEFINE nb == HaltSection
               f == Append(cmd[i].copy, nb)
    <2>1. /\ Puts(i, f) /\ nb \in Block /\ cmd[i].at = "section"
          /\ born' = born + 1 /\ born < MaxBlocks
          /\ reopened' = reopened \cup (Ids(Pending(f)) \ Ids(Pending(File(i))))
      BY <1>1, <1>4, HaltPuts
    <2>2. nb.id = born + 1 /\ ~IsClosed(nb) /\ ~IsEntry(nb)
      <3>1. born \in 0..MaxBlocks
        BY <1>1 DEF TypeOK
      <3>2. /\ NewBlock("halt", NoTask).id = born + 1 /\ ~IsClosed(NewBlock("halt", NoTask))
            /\ (IsEntry(NewBlock("halt", NoTask)) <=> "halt" = "entry")
        BY <2>1, <3>1, NewBlockIs
      <3>3. QED
        BY <3>2 DEF HaltSection
    <2> HIDE DEF nb
    <2>3. cmd[i].copy \in Seq(Block) /\ Distinct(cmd[i].copy)
          /\ \A b \in ToSet(cmd[i].copy) : b.id # nb.id
      BY <2>1, <2>2, CopyIsOld
    <2>4. ToSet(f) = ToSet(cmd[i].copy) \cup {nb} /\ Distinct(f)
      BY <2>1, <2>3, Appending
    <2> HIDE DEF f
    <2>5. Made(i, f, nb)
      BY <2>1, <2>2, <2>4 DEF Made, Inside
    <2>6. QED
      BY <2>5
  <1>5. ASSUME MirrorWrites(i)
        PROVE  \E f, nb : Made(i, f, nb)
    <2> DEFINE m == MirrorOf[cmd[i].how]
               f == WithMirror(cmd[i].copy, cmd[i].task, m)
    <2>1. /\ Puts(i, f) /\ m \in Terminal /\ cmd[i].at = "write"
          /\ born' = born /\ reopened' = reopened
      BY <1>1, <1>5, MirrorPuts
    <2>2. Found(cmd[i].copy, cmd[i].task) /\ Succeeded(Plan(i), cmd[i].task, m)
      BY <1>1, <2>1 DEF StageInv, Backed, At
    <2> HIDE DEF m
    <2>3. cmd[i].copy \in Seq(Block) /\ Distinct(cmd[i].copy)
      BY <2>1, CopyIsOld
    <2>4. Distinct(f) /\ Ids(ToSet(f)) = Ids(ToSet(cmd[i].copy))
      BY <2>1, <2>2, <2>3, Mirrored
    <2>5. PICK e \in ToSet(cmd[i].copy) : /\ IsEntry(e) /\ e.task = cmd[i].task
              /\ \A b \in ToSet(f) : \/ b \in ToSet(cmd[i].copy) /\ b.id # e.id
                                     \/ b = [e EXCEPT !.mirror = m]
      BY <2>1, <2>2, <2>3, Mirrored
    <2> DEFINE c == [e EXCEPT !.mirror = m]
    <2>6. e \in Block
      BY <2>3, <2>5, FileIs
    <2>7. c.id = e.id /\ c.kind = e.kind /\ c.task = e.task /\ c.mirror = m
      BY <2>6 DEF Block
    <2> HIDE DEF f, c
    <2>8. Redone(i, c)
      BY <2>1, <2>2, <2>5, <2>7 DEF Redone, IsOpen, Terminal
    <2>9. Made(i, f, c)
      BY <2>1, <2>4, <2>5, <2>8 DEF Made, Base, At, c
    <2>10. QED
      BY <2>9
  <1>6. QED
    BY <1>2, <1>3, <1>4, <1>5 DEF Puttings

-----------------------------------------------------------------------------
(* Which versions of a block there are after a step *)

(* A step that moves files and copies about makes no version.              *)
NothingNew ==
    /\ \A p \in Plans : \A b : Version(p, b)' => Version(p, b)
    /\ \A p \in Plans : \A b : Live(p, b)' => Live(p, b)

LEMMA QuietIsNothingNew ==
  ASSUME NEW i \in Procs, Quiet(i)
  PROVE  NothingNew
  <1>1. daily' = daily /\ archive' = archive /\ (\A j \in Procs : j # i => cmd'[j] = cmd[j])
        /\ cmd'[i].at \notin {"entry", "write"}
        /\ \A b : b \in ToSet(cmd'[i].copy) => b \in ToSet(cmd[i].copy) /\ cmd'[i].plan = cmd[i].plan
    BY EmptyFile DEF Quiet, SameFiles, files, Typed, Only, Inside
  <1>2. QED
    BY <1>1 DEF NothingNew, Version, Live, Plan

LEMMA LooksIsNothingNew ==
  ASSUME TypeOK, NEW i \in Procs, Looks(i)
  PROVE  NothingNew
  <1>1. daily' = daily /\ archive' = archive /\ (\A j \in Procs : j # i => cmd'[j] = cmd[j])
        /\ cmd'[i].plan = cmd[i].plan /\ Plan(i) \in Plans
    BY DEF Looks, SameFiles, files, Typed, Only, SamePlace
  <1>2. \A b : b \in ToSet(cmd'[i].copy) =>
                 \/ b \in ToSet(cmd[i].copy) /\ cmd'[i].at = "header"
                 \/ b \in Blocks(daily[Plan(i)])
    BY <1>1, FileTyped, ContentIs DEF Looks, File
  <1>3. QED
    BY <1>1, <1>2 DEF NothingNew, Version, Live, Plan

LEMMA ArchivesIsNothingNew ==
  ASSUME TypeOK, NEW i \in Procs, Archives(i)
  PROVE  NothingNew
  <1>1. (\A j \in Procs : j # i => cmd'[j] = cmd[j]) /\ ToSet(cmd'[i].copy) = {}
        /\ daily' = [daily EXCEPT ![Plan(i)] = Absent]
        /\ archive' = [archive EXCEPT ![Plan(i)] = daily[Plan(i)]] /\ Plan(i) \in Plans
    BY EmptyFile DEF Archives, Typed, Only, Write, File
  <1>2. \A p \in Plans : /\ daily'[p] = IF p = Plan(i) THEN Absent ELSE daily[p]
                         /\ archive'[p] = IF p = Plan(i) THEN daily[p] ELSE archive[p]
    BY <1>1 DEF TypeOK
  <1>3. ASSUME NEW p \in Plans
        PROVE  /\ Blocks(daily'[p]) \subseteq Blocks(daily[p])
               /\ Blocks(archive'[p]) \subseteq Blocks(daily[p]) \cup Blocks(archive[p])
    BY <1>2, EmptyFile
  <1>4. QED
    BY <1>1, <1>3 DEF NothingNew, Version, Live, Plan

(* One that writes f makes those of f.                                     *)
LEMMA PutsVersions ==
  ASSUME TypeOK, NEW i \in Procs, NEW f, Puts(i, f), NEW p \in Plans, NEW b
  PROVE  /\ Version(p, b)' => Version(p, b) \/ (p = Plan(i) /\ b \in ToSet(f))
         /\ Live(p, b)' => \/ p = Plan(i) /\ b \in ToSet(f)
                           \/ p # Plan(i) /\ Live(p, b)
                           \/ \E j \in Procs : /\ j # i /\ Plan(j) = p /\ b \in ToSet(cmd[j].copy)
                                               /\ cmd[j].at \in {"entry", "write"}
  <1>1. (\A j \in Procs : j # i => cmd'[j] = cmd[j]) /\ archive' = archive
        /\ daily' = [daily EXCEPT ![Plan(i)] = f] /\ f \in Seq(Block) /\ Plan(i) \in Plans
        /\ cmd'[i].at \notin {"entry", "write"}
    BY DEF Puts, Typed, Only, Write
  <1>2. \A x : x \in ToSet(cmd'[i].copy) => x \in ToSet(cmd[i].copy) /\ cmd'[i].plan = cmd[i].plan
    BY EmptyFile DEF Puts
  <1>3. daily'[p] = IF p = Plan(i) THEN f ELSE daily[p]
    BY <1>1 DEF TypeOK
  <1>4. p = Plan(i) => Blocks(daily'[p]) = ToSet(f)
    BY <1>1, <1>3, FileIs
  <1>5. Version(p, b)' => Version(p, b) \/ (p = Plan(i) /\ b \in ToSet(f))
    BY <1>1, <1>2, <1>3, <1>4 DEF Version, Plan
  <1>6. ASSUME Live(p, b)'
        PROVE  \/ p = Plan(i) /\ b \in ToSet(f)
               \/ p # Plan(i) /\ Live(p, b)
               \/ \E j \in Procs : /\ j # i /\ Plan(j) = p /\ b \in ToSet(cmd[j].copy)
                                   /\ cmd[j].at \in {"entry", "write"}
    <2>1. CASE b \in Blocks(daily'[p])
      BY <1>3, <1>4, <2>1 DEF Live
    <2>2. CASE \E j \in Procs : Plan(j)' = p /\ cmd'[j].at \in {"entry", "write"}
                                 /\ b \in ToSet(cmd'[j].copy)
      BY <1>1, <2>2 DEF Plan
    <2>3. QED
      BY <1>6, <2>1, <2>2 DEF Live
  <1>7. QED
    BY <1>5, <1>6

(* One that adds b makes b.                                                *)
LEMMA GainsVersions ==
  ASSUME TypeOK, NEW q \in Plans, NEW nb, Gains(q, nb), NEW p \in Plans, NEW b
  PROVE  /\ Version(p, b)' => Version(p, b) \/ b = nb
         /\ Live(p, b)' => Live(p, b) \/ b = nb
  <1>1. Content(daily[q]) \in Seq(Block) /\ ToSet(Content(daily[q])) = Blocks(daily[q])
    BY FileTyped, ContentIs
  <1> DEFINE f == Append(Content(daily[q]), nb)
  <1>2. f \in Seq(Block) /\ ToSet(f) = Blocks(daily[q]) \cup {nb}
    BY <1>1, Appending DEF Gains
  <1> HIDE DEF f
  <1>3. Blocks(f) = Blocks(daily[q]) \cup {nb}
    BY <1>2, FileIs
  <1>4. daily'[p] = IF p = q THEN f ELSE daily[p]
    BY DEF Gains, TypeOK, f
  <1>5. Blocks(daily'[p]) \subseteq Blocks(daily[p]) \cup {nb}
    BY <1>3, <1>4
  <1>6. archive' = archive /\ cmd' = cmd
    BY DEF Gains
  <1>7. QED
    BY <1>5, <1>6 DEF Version, Live, Plan

LEMMA VersionTyped ==
  ASSUME TypeOK, NEW p \in Plans, NEW b, Version(p, b)
  PROVE  b \in Block /\ b.id \in 1..MaxBlocks
  <1>1. Blocks(daily[p]) \subseteq Block /\ Blocks(archive[p]) \subseteq Block
    BY FileTyped, ContentIs
  <1>2. \A i \in Procs : ToSet(cmd[i].copy) \subseteq Block
    BY CommandIs, FileIs
  <1>3. b \in Block
    BY <1>1, <1>2 DEF Version
  <1>4. QED
    BY <1>3 DEF Block

LEMMA MadeVersions ==
  ASSUME IInv, NEW i \in Procs, NEW f, NEW nb, Made(i, f, nb), NEW p \in Plans, NEW b, Version(p, b)'
  PROVE  \/ Version(p, b)
         \/ b = nb /\ born' = born + 1
         \/ p = Plan(i) /\ b \in ToSet(f) /\ Redone(i, b)
  <1>1. TypeOK /\ Puts(i, f)
    BY DEF IInv, Made
  <1>2. Version(p, b) \/ (p = Plan(i) /\ b \in ToSet(f))
    BY <1>1, PutsVersions
  <1>3. p = Plan(i) /\ b \in ToSet(cmd[i].copy) => Version(p, b)
    BY DEF Version
  <1>4. QED
    BY <1>2, <1>3 DEF Made

(* Every version is older than the next block, of one kind per block, and  *)
(* closed only by a gesture that succeeded.                                *)
LEMMA VersionStep ==
  ASSUME IInv, [Next]_vars
  PROVE  VersionInv'
  <1>1. TypeOK /\ FreshInv /\ KindInv /\ ToldInv /\ born \in Nat
    BY QueueAssumption DEF IInv, VersionInv, TypeOK
  <1>2. \A p \in Plans : \A b : Version(p, b) => b.id \in Nat /\ b.id <= born
    BY <1>1, VersionTyped, QueueAssumption DEF FreshInv
  <1>3. ASSUME NEW p \in Plans, NEW b, Version(p, b), IsClosed(b)
        PROVE  Succeeded(p, b.task, b.mirror)'
    BY <1>1, <1>3, DidStays, SucceededStays DEF ToldInv
  <1>4. ASSUME NothingNew, born' = born
        PROVE  VersionInv'
    <2>1. FreshInv'
      BY <1>1, <1>4 DEF NothingNew, FreshInv
    <2>2. KindInv'
      BY <1>1, <1>4 DEF NothingNew, KindInv
    <2>3. ToldInv'
      BY <1>3, <1>4 DEF NothingNew, ToldInv
    <2>4. QED
      BY <2>1, <2>2, <2>3 DEF VersionInv
  <1>5. ASSUME NEW i \in Procs, NEW f, NEW nb, Made(i, f, nb)
        PROVE  VersionInv'
    <2>1. Plan(i) \in Plans
      BY <1>5 DEF Made, Puts
    <2>2. ASSUME NEW p \in Plans, NEW b, Version(p, b)'
          PROVE  \/ Version(p, b)
                 \/ b = nb /\ born' = born + 1
                 \/ p = Plan(i) /\ b \in ToSet(f) /\ Redone(i, b)
      BY <1>5, <2>2, MadeVersions
    <2>3. \A b : Redone(i, b) => \E e : /\ Version(Plan(i), e) /\ e.id = b.id /\ e.kind = b.kind
                                        /\ ~IsOpen(b) /\ Succeeded(Plan(i), b.task, b.mirror)
      BY DEF Redone, Version
    <2>4. \/ born' = born
          \/ born' = born + 1 /\ nb.id = born + 1 /\ ~IsClosed(nb)
      BY <1>5 DEF Made
    <2>5. ASSUME NEW p \in Plans, NEW b, Version(p, b)'
          PROVE  \/ \E e : Version(p, e) /\ e.id = b.id /\ e.kind = b.kind
                 \/ b = nb /\ born' = born + 1 /\ nb.id = born + 1
      BY <1>1, <2>2, <2>3, <2>4, <2>5
    <2>6. FreshInv'
      <3>1. SUFFICES ASSUME NEW p \in Plans, NEW b, Version(p, b)'
                     PROVE  b.id <= born'
        BY DEF FreshInv
      <3>2. QED
        BY <1>1, <1>2, <2>4, <2>5, <3>1
    <2>7. KindInv'
      <3>1. SUFFICES ASSUME NEW p \in Plans, NEW a, NEW b, Version(p, a)', Version(p, b)', a.id = b.id
                     PROVE  a.kind = b.kind
        BY DEF KindInv
      <3>2. CASE a = nb /\ nb.id = born + 1
        <4>1. ~ \E e : Version(p, e) /\ e.id = b.id
          BY <1>1, <1>2, <3>1, <3>2
        <4>2. QED
          BY <2>5, <3>1, <3>2, <4>1
      <3>3. CASE b = nb /\ nb.id = born + 1
        <4>1. ~ \E e : Version(p, e) /\ e.id = a.id
          BY <1>1, <1>2, <3>1, <3>3
        <4>2. QED
          BY <2>5, <3>1, <3>3, <4>1
      <3>4. CASE (\E e : Version(p, e) /\ e.id = a.id /\ e.kind = a.kind)
                 /\ (\E e : Version(p, e) /\ e.id = b.id /\ e.kind = b.kind)
        BY <1>1, <3>1, <3>4 DEF KindInv
      <3>5. QED
        BY <2>5, <3>1, <3>2, <3>3, <3>4
    <2>8. ToldInv'
      <3>1. SUFFICES ASSUME NEW p \in Plans, NEW b, Version(p, b)', IsClosed(b)
                     PROVE  Succeeded(p, b.task, b.mirror)'
        BY DEF ToldInv
      <3>2. CASE Version(p, b)
        BY <1>3, <3>1, <3>2
      <3>3. CASE p = Plan(i) /\ Redone(i, b)
        <4>1. Succeeded(p, b.task, b.mirror)
          BY <3>3 DEF Redone
        <4>2. QED
          BY <4>1, DidStays, SucceededStays
      <3>4. QED
        BY <2>2, <2>4, <3>1, <3>2, <3>3, <1>1
    <2>9. QED
      BY <2>6, <2>7, <2>8 DEF VersionInv
  <1>6. ASSUME NEW q \in Plans, NEW nb, Gains(q, nb)
        PROVE  VersionInv'
    <2>1. born' = born + 1 /\ nb.id = born + 1 /\ ~IsClosed(nb)
      BY <1>6 DEF Gains, IsClosed
    <2>2. ASSUME NEW p \in Plans, NEW b, Version(p, b)'
          PROVE  Version(p, b) \/ b = nb
      BY <1>1, <1>6, <2>2, GainsVersions
    <2>3. FreshInv'
      BY <1>1, <1>2, <2>1, <2>2 DEF FreshInv
    <2>4. KindInv'
      <3>1. SUFFICES ASSUME NEW p \in Plans, NEW a, NEW b, Version(p, a)', Version(p, b)', a.id = b.id
                     PROVE  a.kind = b.kind
        BY DEF KindInv
      <3>2. a = nb <=> b = nb
        BY <1>1, <1>2, <2>1, <2>2, <3>1
      <3>3. QED
        BY <1>1, <2>2, <3>1, <3>2 DEF KindInv
    <2>5. ToldInv'
      <3>1. SUFFICES ASSUME NEW p \in Plans, NEW b, Version(p, b)', IsClosed(b)
                     PROVE  Succeeded(p, b.task, b.mirror)'
        BY DEF ToldInv
      <3>2. QED
        BY <1>3, <2>1, <2>2, <3>1
    <2>6. QED
      BY <2>3, <2>4, <2>5 DEF VersionInv
  <1>7. CASE UNCHANGED vars
    <2>1. NothingNew /\ born' = born
      BY <1>7 DEF vars, files, NothingNew, Version, Live, Plan
    <2>2. QED
      BY <1>4, <2>1
  <1>8. ASSUME NEW i \in Procs, Quiet(i) \/ Looks(i) \/ Archives(i)
        PROVE  VersionInv'
    <2>1. NothingNew
      BY <1>1, <1>8, QuietIsNothingNew, LooksIsNothingNew, ArchivesIsNothingNew
    <2>2. born' = born
      BY <1>8 DEF Quiet, Looks, Archives, SameFiles
    <2>3. QED
      BY <1>4, <2>1, <2>2
  <1>9. ASSUME NEW i \in Procs, Puttings(i)
        PROVE  VersionInv'
    BY <1>5, <1>9, PuttingsMake
  <1>10. QED
    BY <1>6, <1>7, <1>8, <1>9, NextIs

-----------------------------------------------------------------------------
(* No block is twice in a file *)

LEMMA DistinctStep ==
  ASSUME IInv, [Next]_vars
  PROVE  DistinctInv'
  <1>1. TypeOK /\ DistinctInv /\ FreshInv /\ born \in Nat
    BY QueueAssumption DEF IInv, VersionInv, TypeOK
  <1>2. ASSUME NEW i \in Procs, Quiet(i)
        PROVE  DistinctInv'
    <2>1. daily' = daily /\ archive' = archive /\ (\A j \in Procs : j # i => cmd'[j] = cmd[j])
          /\ (cmd'[i].copy = <<>> \/ cmd'[i].copy = cmd[i].copy)
      BY <1>2 DEF Quiet, SameFiles, files, Typed, Only
    <2>2. \A j \in Procs : Distinct(cmd'[j].copy)
      BY <1>1, <2>1, EmptyFile DEF DistinctInv
    <2>3. QED
      BY <1>1, <2>1, <2>2 DEF DistinctInv, Content, Distinct
  <1>3. ASSUME NEW i \in Procs, Looks(i)
        PROVE  DistinctInv'
    <2>1. daily' = daily /\ archive' = archive /\ (\A j \in Procs : j # i => cmd'[j] = cmd[j])
          /\ Plan(i) \in Plans
          /\ (cmd'[i].copy = Content(daily[Plan(i)]) \/ cmd'[i].copy = cmd[i].copy)
      BY <1>3 DEF Looks, SameFiles, files, Typed, Only, File
    <2>2. \A j \in Procs : Distinct(cmd'[j].copy)
      BY <1>1, <2>1 DEF DistinctInv
    <2>3. QED
      BY <1>1, <2>1, <2>2 DEF DistinctInv, Content, Distinct
  <1>4. ASSUME NEW i \in Procs, Puttings(i)
        PROVE  DistinctInv'
    <2>1. PICK f, nb : Made(i, f, nb)
      BY <1>4, PuttingsMake
    <2>2. Distinct(f) /\ f \in Seq(Block) /\ archive' = archive /\ Plan(i) \in Plans
          /\ (\A j \in Procs : j # i => cmd'[j] = cmd[j])
          /\ (cmd'[i].copy = <<>> \/ cmd'[i].copy = cmd[i].copy)
          /\ daily' = [daily EXCEPT ![Plan(i)] = f]
      BY <2>1 DEF Made, Puts, Typed, Only, Write
    <2>3. \A j \in Procs : Distinct(cmd'[j].copy)
      BY <1>1, <2>2, EmptyFile DEF DistinctInv
    <2>4. ASSUME NEW p \in Plans
          PROVE  Distinct(Content(daily'[p]))
      <3>1. daily'[p] = IF p = Plan(i) THEN f ELSE daily[p]
        BY <1>1, <2>2 DEF TypeOK
      <3>2. Content(f) = f
        BY <2>2, FileIs
      <3>3. QED
        BY <1>1, <2>2, <3>1, <3>2 DEF DistinctInv
    <2>5. QED
      BY <1>1, <2>2, <2>3, <2>4 DEF DistinctInv, Content, Distinct
  <1>5. ASSUME NEW i \in Procs, Archives(i)
        PROVE  DistinctInv'
    <2>1. (\A j \in Procs : j # i => cmd'[j] = cmd[j]) /\ Plan(i) \in Plans /\ cmd'[i].copy = <<>>
          /\ daily' = [daily EXCEPT ![Plan(i)] = Absent]
          /\ archive' = [archive EXCEPT ![Plan(i)] = daily[Plan(i)]]
      BY <1>5 DEF Archives, Typed, Only, Write, File
    <2>2. \A p \in Plans : /\ daily'[p] = IF p = Plan(i) THEN Absent ELSE daily[p]
                           /\ archive'[p] = IF p = Plan(i) THEN daily[p] ELSE archive[p]
      BY <1>1, <2>1 DEF TypeOK
    <2>3. \A j \in Procs : Distinct(cmd'[j].copy)
      BY <1>1, <2>1, EmptyFile DEF DistinctInv
    <2>4. ASSUME NEW p \in Plans
          PROVE  Distinct(Content(daily'[p])) /\ Distinct(Content(archive'[p]))
      BY <1>1, <2>2, EmptyFile DEF DistinctInv
    <2>5. QED
      BY <2>3, <2>4 DEF DistinctInv, Content, Distinct
  <1>6. ASSUME NEW q \in Plans, NEW nb, Gains(q, nb)
        PROVE  DistinctInv'
    <2>1. /\ Content(daily[q]) \in Seq(Block) /\ ToSet(Content(daily[q])) = Blocks(daily[q])
          /\ Distinct(Content(daily[q]))
      BY <1>1, FileTyped, ContentIs DEF DistinctInv
    <2>2. ASSUME NEW a \in Blocks(daily[q])
          PROVE  a.id # nb.id
      <3>1. Version(q, a)
        BY DEF Version
      <3>2. a.id <= born /\ a.id \in Nat /\ nb.id = born + 1
        BY <1>1, <1>6, <3>1, VersionTyped, QueueAssumption DEF FreshInv, Gains
      <3>3. QED
        BY <1>1, <3>2
    <2> DEFINE f == Append(Content(daily[q]), nb)
    <2>3. f \in Seq(Block) /\ Distinct(f)
      BY <1>6, <2>1, <2>2, Appending DEF Gains
    <2>4. \A p \in Plans : daily'[p] = IF p = q THEN f ELSE daily[p]
      BY <1>1, <1>6 DEF Gains, TypeOK
    <2> HIDE DEF f
    <2>5. \A p \in Plans : Distinct(Content(daily'[p]))
      BY <1>1, <2>3, <2>4, FileIs DEF DistinctInv
    <2>6. cmd' = cmd /\ archive' = archive
      BY <1>6 DEF Gains
    <2>7. QED
      BY <1>1, <2>5, <2>6 DEF DistinctInv, Content, Distinct
  <1>7. CASE UNCHANGED vars
    BY <1>1, <1>7 DEF vars, files, DistinctInv, Content, Distinct
  <1>8. QED
    BY <1>2, <1>3, <1>4, <1>5, <1>6, <1>7, NextIs

-----------------------------------------------------------------------------
(* What is written of the file, and where its blocks are *)

LEMMA MadeFile ==
  ASSUME IInv, NEW i \in Procs, NEW f, NEW nb, Made(i, f, nb)
  PROVE  /\ Plan(i) \in Plans /\ f \in Seq(Block)
         /\ daily'[Plan(i)] = f /\ Blocks(f) = ToSet(f)
         /\ \A p \in Plans : p # Plan(i) => daily'[p] = daily[p]
         /\ archive' = archive /\ lost \subseteq lost' /\ unseen' = unseen
         /\ reopened \subseteq reopened'
         /\ \A j \in Procs : j # i => cmd'[j] = cmd[j]
         /\ cmd'[i].at \notin Inside \cup {"section", "move"}
  <1>1. TypeOK /\ Puts(i, f)
    BY DEF IInv, Made
  <1>2. /\ Plan(i) \in Plans /\ f \in Seq(Block) /\ archive' = archive /\ unseen' = unseen
        /\ daily' = [daily EXCEPT ![Plan(i)] = f] /\ lost \subseteq lost'
        /\ (\A j \in Procs : j # i => cmd'[j] = cmd[j])
        /\ cmd'[i].at \notin Inside \cup {"section", "move"}
    BY <1>1 DEF Puts, Write, Typed, Only, Inside
  <1>3. daily'[Plan(i)] = f /\ \A p \in Plans : p # Plan(i) => daily'[p] = daily[p]
    BY <1>1, <1>2 DEF TypeOK
  <1>4. reopened \subseteq reopened'
    BY DEF Made
  <1>5. QED
    BY <1>2, <1>3, <1>4, FileIs

LEMMA ArchivesFile ==
  ASSUME TypeOK, NEW i \in Procs, Archives(i)
  PROVE  /\ Plan(i) \in Plans
         /\ daily'[Plan(i)] = Absent /\ archive'[Plan(i)] = daily[Plan(i)]
         /\ \A p \in Plans : p # Plan(i) => daily'[p] = daily[p] /\ archive'[p] = archive[p]
         /\ lost' = lost \cup (Ids(Blocks(archive[Plan(i)])) \ Ids(Blocks(daily[Plan(i)])))
         /\ \A j \in Procs : j # i => cmd'[j] = cmd[j]
         /\ cmd'[i].at \notin Inside \cup {"section", "move"}
  BY DEF Archives, Write, File, Typed, Only, Inside, TypeOK

LEMMA GainsFile ==
  ASSUME TypeOK, NEW q \in Plans, NEW nb, Gains(q, nb)
  PROVE  /\ Blocks(daily'[q]) = Blocks(daily[q]) \cup {nb}
         /\ \A p \in Plans : p # q => daily'[p] = daily[p]
         /\ archive' = archive /\ lost' = lost /\ cmd' = cmd
  <1>1. Content(daily[q]) \in Seq(Block) /\ ToSet(Content(daily[q])) = Blocks(daily[q])
    BY FileTyped, ContentIs
  <1> DEFINE f == Append(Content(daily[q]), nb)
  <1>2. f \in Seq(Block) /\ ToSet(f) = Blocks(daily[q]) \cup {nb}
    BY <1>1, Appending DEF Gains
  <1>3. daily' = [daily EXCEPT ![q] = f]
    BY DEF Gains
  <1> HIDE DEF f
  <1>4. Blocks(f) = Blocks(daily[q]) \cup {nb}
    BY <1>2, FileIs
  <1>5. daily'[q] = f /\ \A p \in Plans : p # q => daily'[p] = daily[p]
    BY <1>3 DEF TypeOK
  <1>6. QED
    BY <1>4, <1>5 DEF Gains, ghosts

(* The process that puts a file back drops no entry unaccounted for, and   *)
(* what is in the archive stays there or is dropped over.                  *)
Keeps == \A p \in Plans : Past(p) \subseteq Past(p)' /\ Accounted(p) \subseteq Accounted(p)'

LEMMA KeepsStep ==
  ASSUME IInv, [Next]_vars
  PROVE  Keeps
  <1>1. TypeOK /\ HeldInv
    BY DEF IInv
  <1>2. ASSUME UNCHANGED <<daily, archive, lost>>
        PROVE  Keeps
    BY <1>2 DEF Keeps, Past, Accounted
  <1>3. ASSUME NEW i \in Procs, NEW f, NEW nb, Made(i, f, nb)
        PROVE  Keeps
    <2>1. /\ daily'[Plan(i)] = f /\ Blocks(f) = ToSet(f) /\ archive' = archive
          /\ lost \subseteq lost' /\ \A p \in Plans : p # Plan(i) => daily'[p] = daily[p]
      BY <1>3, MadeFile
    <2>2. \A p \in Plans : Past(p) \subseteq Past(p)'
      BY <2>1 DEF Past
    <2>3. ASSUME NEW p \in Plans, p = Plan(i), NEW n \in Ids(Blocks(daily[p])), n \notin Ids(ToSet(f))
          PROVE  n \in Past(p)'
      <3>1. n \in Dropped(i, f)
        BY <2>1, <2>3 DEF Dropped, File
      <3>2. CASE cmd[i].at \in Inside /\ lost' = lost \cup DroppedByHand(i, f)
        <4>1. CASE n \in Ids(Entries(File(i)))
          <5>1. n \in Base(i) \cup Past(p)
            BY <1>1, <2>3, <3>2, <4>1 DEF HeldInv
          <5>2. Base(i) \subseteq Ids(ToSet(f))
            BY <1>3, <3>2 DEF Made
          <5>3. QED
            BY <2>2, <2>3, <5>1, <5>2
        <4>2. CASE n \notin Ids(Entries(File(i)))
          BY <3>1, <3>2, <4>2 DEF DroppedByHand, Past
        <4>3. QED
          BY <4>1, <4>2
      <3>3. CASE lost' = lost \cup Dropped(i, f)
        BY <3>1, <3>3 DEF Past
      <3>4. QED
        BY <1>3, <3>2, <3>3 DEF Made, Puts
    <2>4. \A p \in Plans : p = Plan(i) => Accounted(p) \subseteq Accounted(p)'
      BY <2>1, <2>2, <2>3 DEF Accounted
    <2>5. \A p \in Plans : p # Plan(i) => Accounted(p) \subseteq Accounted(p)'
      BY <2>1, <2>2 DEF Accounted
    <2>6. QED
      BY <2>2, <2>4, <2>5 DEF Keeps
  <1>4. ASSUME NEW i \in Procs, Archives(i)
        PROVE  Keeps
    <2>1. /\ archive'[Plan(i)] = daily[Plan(i)]
          /\ \A p \in Plans : p # Plan(i) => daily'[p] = daily[p] /\ archive'[p] = archive[p]
          /\ lost' = lost \cup (Ids(Blocks(archive[Plan(i)])) \ Ids(Blocks(daily[Plan(i)])))
      BY <1>1, <1>4, ArchivesFile
    <2>2. \A p \in Plans : p = Plan(i) =>
              Past(p) \subseteq Past(p)' /\ Accounted(p) \subseteq Accounted(p)'
      BY <2>1 DEF Past, Accounted
    <2>3. \A p \in Plans : p # Plan(i) =>
              Past(p) \subseteq Past(p)' /\ Accounted(p) \subseteq Accounted(p)'
      BY <2>1 DEF Past, Accounted
    <2>4. QED
      BY <2>2, <2>3 DEF Keeps
  <1>5. ASSUME NEW q \in Plans, NEW nb, Gains(q, nb)
        PROVE  Keeps
    <2>1. /\ Blocks(daily'[q]) = Blocks(daily[q]) \cup {nb} /\ archive' = archive /\ lost' = lost
          /\ \A p \in Plans : p # q => daily'[p] = daily[p]
      BY <1>1, <1>5, GainsFile
    <2>2. \A p \in Plans : Ids(Blocks(daily[p])) \subseteq Ids(Blocks(daily'[p]))
      BY <2>1 DEF Ids
    <2>3. QED
      BY <2>1, <2>2 DEF Keeps, Past, Accounted
  <1>6. ASSUME NEW i \in Procs, Quiet(i) \/ Looks(i)
        PROVE  Keeps
    BY <1>2, <1>6 DEF Quiet, Looks, SameFiles, files, ghosts
  <1>7. ASSUME NEW i \in Procs, Puttings(i)
        PROVE  Keeps
    BY <1>3, <1>7, PuttingsMake
  <1>8. CASE UNCHANGED vars
    BY <1>2, <1>8 DEF vars, files, ghosts
  <1>9. QED
    BY <1>4, <1>5, <1>6, <1>7, <1>8, NextIs

(* No written block vanishes unaccounted for.                              *)
LEMMA LostStep ==
  ASSUME IInv, [Next]_vars
  PROVE  LostOnlyWithoutTheLock'
  <1>1. TypeOK /\ LostOnlyWithoutTheLock /\ born \in Nat
    BY QueueAssumption DEF IInv, TypeOK
  <1>2. \A n : n \in Kept \cup lost <=> n \in lost \/ \E p \in Plans : n \in Accounted(p)
    BY DEF Kept, Accounted, Past
  <1>3. \A n : (n \in lost' \/ \E p \in Plans : n \in Accounted(p)') => n \in Kept' \cup lost'
    BY DEF Kept, Accounted, Past
  <1>4. ASSUME lost \subseteq lost', NEW n \in 1..born
        PROVE  n \in Kept' \cup lost'
    <2>1. n \in lost \/ \E p \in Plans : n \in Accounted(p)
      BY <1>1, <1>2, <1>4 DEF LostOnlyWithoutTheLock
    <2>2. QED
      BY <1>3, <1>4, <2>1, KeepsStep DEF Keeps
  <1>5. ASSUME lost \subseteq lost', born' = born
        PROVE  LostOnlyWithoutTheLock'
    BY <1>4, <1>5 DEF LostOnlyWithoutTheLock
  <1>6. ASSUME lost \subseteq lost', born' = born + 1,
               NEW p \in Plans, born + 1 \in Ids(Blocks(daily'[p]))
        PROVE  LostOnlyWithoutTheLock'
    <2>1. born + 1 \in Accounted(p)'
      BY <1>6 DEF Accounted
    <2>2. \A n \in 1..born' : n \in 1..born \/ n = born + 1
      BY <1>1, <1>6
    <2>3. QED
      BY <1>3, <1>4, <1>6, <2>1, <2>2 DEF LostOnlyWithoutTheLock
  <1>7. ASSUME NEW i \in Procs, Puttings(i)
        PROVE  LostOnlyWithoutTheLock'
    <2>1. PICK f, nb : Made(i, f, nb)
      BY <1>7, PuttingsMake
    <2>2. /\ Plan(i) \in Plans /\ daily'[Plan(i)] = f /\ Blocks(f) = ToSet(f) /\ lost \subseteq lost'
      BY <2>1, MadeFile
    <2>3. \/ born' = born
          \/ born' = born + 1 /\ born + 1 \in Ids(Blocks(daily'[Plan(i)]))
      BY <2>1, <2>2 DEF Made, Ids
    <2>4. QED
      BY <1>5, <1>6, <2>2, <2>3
  <1>8. ASSUME NEW q \in Plans, NEW nb, Gains(q, nb)
        PROVE  LostOnlyWithoutTheLock'
    <2>1. Blocks(daily'[q]) = Blocks(daily[q]) \cup {nb} /\ lost' = lost
      BY <1>1, <1>8, GainsFile
    <2>2. born' = born + 1 /\ born + 1 \in Ids(Blocks(daily'[q]))
      BY <1>8, <2>1 DEF Gains, Ids
    <2>3. QED
      BY <1>6, <2>1, <2>2
  <1>9. ASSUME NEW i \in Procs, Quiet(i) \/ Looks(i) \/ Archives(i)
        PROVE  LostOnlyWithoutTheLock'
    BY <1>5, <1>9 DEF Quiet, Looks, Archives, SameFiles, ghosts
  <1>10. CASE UNCHANGED vars
    BY <1>5, <1>10 DEF vars, ghosts
  <1>11. QED
    BY <1>7, <1>8, <1>9, <1>10, NextIs

(* A section's copy has only blocks that are accounted for.                *)
LEMMA SectionStep ==
  ASSUME IInv, [Next]_vars
  PROVE  SectionInv'
  <1>1. TypeOK /\ SectionInv
    BY DEF IInv
  <1>2. ASSUME NEW j \in Procs, cmd'[j].at = "section"
        PROVE  cmd'[j].plan \in Plans
    BY <1>2, TypeStep DEF TypeOK, At, Plan
  <1>3. SUFFICES ASSUME NEW j \in Procs, cmd'[j].at = "section", NEW p \in Plans, p = cmd'[j].plan
                 PROVE  Ids(ToSet(cmd'[j].copy)) \subseteq Accounted(p)'
    <2>1. ASSUME NEW j \in Procs, cmd'[j].at = "section"
          PROVE  Ids(ToSet(cmd'[j].copy)) \subseteq Accounted(Plan(j))'
      <3>1. PICK p \in Plans : p = cmd'[j].plan
        BY <1>2, <2>1
      <3>2. Ids(ToSet(cmd'[j].copy)) \subseteq Accounted(p)'
        BY <1>3, <2>1, <3>1
      <3>3. QED
        BY <3>1, <3>2 DEF Accounted, Past, Plan
    <2>2. QED
      BY <2>1 DEF SectionInv, At
  <1>4. CASE cmd'[j] = cmd[j]
    <2>1. Ids(ToSet(cmd[j].copy)) \subseteq Accounted(p)
      BY <1>1, <1>3, <1>4 DEF SectionInv, At, Plan
    <2>2. Accounted(p) \subseteq Accounted(p)'
      BY KeepsStep DEF Keeps
    <2>3. QED
      BY <1>4, <2>1, <2>2
  <1>5. CASE cmd'[j] # cmd[j]
    <2>1. ASSUME NEW i \in Procs, Quiet(i) \/ Archives(i) \/ Puttings(i)
          PROVE  i # j
      BY <1>3, <2>1 DEF Quiet, Archives, Puttings, Puts, Inside
    <2>2. ASSUME NEW i \in Procs, Quiet(i) \/ Archives(i) \/ Puttings(i)
          PROVE  cmd'[j] = cmd[j]
      BY <2>1, <2>2 DEF Quiet, Archives, Puttings, Puts, Typed, Only
    <2>3. ASSUME NEW i \in Procs, Looks(i)
          PROVE  i = j
      BY <1>5, <2>3 DEF Looks, Typed, Only
    <2>4. Looks(j)
      BY <1>5, <2>2, <2>3, NextIs DEF Gains, vars
    <2>5. cmd'[j].copy = Content(daily[p]) /\ daily' = daily
      BY <1>3, <2>4 DEF Looks, SamePlace, SameFiles, files, Plan, File
    <2>6. ToSet(cmd'[j].copy) = Blocks(daily'[p])
      BY <1>1, <2>5, FileTyped, ContentIs
    <2>7. QED
      BY <2>6 DEF Accounted
  <1>6. QED
    BY <1>4, <1>5

LEMMA EntriesOfContent ==
  ASSUME NEW f \in Seq(Block) \cup {Absent}
  PROVE  Entries(Content(f)) = Entries(f)
  BY ContentIs DEF Entries

(* The holder of a flock writes back every entry its file has, now or when *)
(* a section read earlier is put in its place.                             *)
Safe(i, p, S) == Ids(S) \subseteq Base(i) \cup Past(p)

Held(i) == cmd[i].at \in Inside =>
    \A p \in Plans : p = Plan(i) =>
      /\ Safe(i, p, Entries(daily[p]))
      /\ \A j \in Procs : At(j, "section") /\ Plan(j) = p => Safe(i, p, Entries(cmd[j].copy))

LEMMA HeldIs == ASSUME TypeOK PROVE HeldInv <=> \A i \in Procs : Held(i)
  <1>1. ASSUME NEW i \in Procs, cmd[i].at \in Inside
        PROVE  Plan(i) \in Plans
    BY <1>1, CommandIs DEF Inside
  <1>2. QED
    BY <1>1 DEF HeldInv, Held, Safe, File

LEMMA SafeStays ==
  ASSUME Keeps, NEW i \in Procs, cmd'[i] = cmd[i], NEW p \in Plans, NEW S, NEW T,
         Safe(i, p, S), Ids(T) \subseteq Ids(S)
  PROVE  Ids(T) \subseteq Base(i)' \cup Past(p)'
  <1>1. Base(i)' = Base(i)
    BY DEF Base, At
  <1>2. QED
    BY <1>1 DEF Safe, Keeps

LEMMA HeldStep ==
  ASSUME IInv, [Next]_vars
  PROVE  HeldInv'
  <1>1. TypeOK /\ (\A i \in Procs : Held(i)) /\ HolderInv /\ SectionInv /\ Keeps /\ TypeOK'
    BY HeldIs, KeepsStep, TypeStep DEF IInv
  <1>2. ASSUME NEW h \in Procs, cmd'[h] = cmd[h], cmd[h].at \in Inside,
               NEW p \in Plans, p = Plan(h),
               Ids(Entries(daily'[p])) \subseteq Base(h)' \cup Past(p)',
               \A j \in Procs : cmd'[j].at = "section" /\ cmd'[j].plan = p =>
                  Ids(Entries(cmd'[j].copy)) \subseteq Base(h)' \cup Past(p)'
        PROVE  Held(h)'
    BY <1>2 DEF Held, Safe, At, Plan
  <1>3. ASSUME NEW h \in Procs, cmd[h].at \in Inside, NEW p \in Plans, p = Plan(h)
        PROVE  /\ Safe(h, p, Entries(daily[p]))
               /\ \A j \in Procs : At(j, "section") /\ Plan(j) = p => Safe(h, p, Entries(cmd[j].copy))
    BY <1>1, <1>3 DEF Held
  <1>4. ASSUME NEW h \in Procs, cmd'[h] = cmd[h], cmd[h].at \in Inside,
               NEW p \in Plans, p = Plan(h), NEW j \in Procs, cmd'[j] = cmd[j],
               cmd'[j].at = "section", cmd'[j].plan = p
        PROVE  Ids(Entries(cmd'[j].copy)) \subseteq Base(h)' \cup Past(p)'
    BY <1>1, <1>3, <1>4, SafeStays DEF At, Plan
  <1>5. ASSUME NEW h \in Procs, cmd'[h] = cmd[h], cmd[h].at \in Inside,
               NEW p \in Plans, p = Plan(h), Ids(Entries(daily'[p])) \subseteq Ids(Entries(daily[p]))
        PROVE  Ids(Entries(daily'[p])) \subseteq Base(h)' \cup Past(p)'
    BY <1>1, <1>3, <1>5, SafeStays
  (* A step of a process that goes inside nowhere and reads no section,    *)
  (* and leaves no more entries in the file.                               *)
  <1>6. ASSUME NEW i \in Procs, \A j \in Procs : j # i => cmd'[j] = cmd[j],
               cmd'[i].at \notin Inside \cup {"section"},
               NEW h \in Procs, cmd'[h].at \in Inside, NEW p \in Plans, p = cmd'[h].plan,
               Ids(Entries(daily'[p])) \subseteq Base(h)' \cup Past(p)'
        PROVE  Held(h)'
    <2>1. h # i /\ cmd'[h] = cmd[h]
      BY <1>6
    <2>2. \A j \in Procs : cmd'[j].at = "section" => cmd'[j] = cmd[j]
      BY <1>6
    <2>3. \A j \in Procs : cmd'[j].at = "section" /\ cmd'[j].plan = p =>
                  Ids(Entries(cmd'[j].copy)) \subseteq Base(h)' \cup Past(p)'
      BY <1>4, <1>6, <2>1, <2>2 DEF Plan
    <2>4. QED
      BY <1>2, <1>6, <2>1, <2>3 DEF Plan
  <1>7. ASSUME NEW i \in Procs, Quiet(i) \/ Archives(i), NEW h \in Procs, cmd'[h].at \in Inside,
               NEW p \in Plans, p = cmd'[h].plan
        PROVE  Held(h)'
    <2>1. (\A j \in Procs : j # i => cmd'[j] = cmd[j]) /\ cmd'[i].at \notin Inside \cup {"section"}
      BY <1>7 DEF Quiet, Archives, Typed, Only, Inside
    <2>2. Ids(Entries(daily'[p])) \subseteq Ids(Entries(daily[p]))
      <3>1. CASE Quiet(i)
        BY <3>1 DEF Quiet, SameFiles, files
      <3>2. CASE Archives(i)
        <4>1. daily'[p] = daily[p] \/ daily'[p] = Absent
          BY <1>1, <3>2, ArchivesFile
        <4>2. QED
          BY <4>1, EmptyFile DEF Entries, Ids
      <3>3. QED
        BY <1>7, <3>1, <3>2
    <2>3. h # i /\ cmd'[h] = cmd[h]
      BY <1>7, <2>1
    <2>4. QED
      BY <1>5, <1>6, <1>7, <2>1, <2>2, <2>3 DEF Plan
  <1>8. ASSUME NEW i \in Procs, Puttings(i), NEW h \in Procs, cmd'[h].at \in Inside,
               NEW p \in Plans, p = cmd'[h].plan
        PROVE  Held(h)'
    <2>1. PICK f, nb : Made(i, f, nb)
      BY <1>8, PuttingsMake
    <2>2. /\ daily'[Plan(i)] = f /\ Blocks(f) = ToSet(f)
          /\ (\A q \in Plans : q # Plan(i) => daily'[q] = daily[q])
          /\ (\A j \in Procs : j # i => cmd'[j] = cmd[j])
          /\ cmd'[i].at \notin Inside \cup {"section"}
      BY <2>1, MadeFile
    <2>3. h # i /\ cmd'[h] = cmd[h]
      BY <1>8, <2>2
    <2>4. Ids(Entries(daily'[p])) \subseteq Base(h)' \cup Past(p)'
      <3>1. CASE p # Plan(i)
        BY <1>5, <1>8, <2>2, <2>3, <3>1 DEF Plan
      <3>2. CASE p = Plan(i)
        <4>1. cmd[i].at \notin Inside
          BY <1>1, <1>8, <2>3, <3>2 DEF HolderInv, Plan
        <4>2. ToSet(f) = {} \/ (At(i, "section") /\ ~IsEntry(nb))
          BY <2>1, <4>1 DEF Made, Inside, At
        <4>3. CASE ToSet(f) = {}
          BY <2>2, <3>2, <4>3 DEF Entries, Ids
        <4>4. CASE At(i, "section") /\ ~IsEntry(nb)
          <5>1. \A b \in ToSet(f) : IsEntry(b) => b \in ToSet(cmd[i].copy)
            BY <2>1, <4>4 DEF Made, Redone, At
          <5>2. cmd[i].copy \in Seq(Block)
            BY <1>1, CommandIs
          <5>3. Entries(daily'[p]) \subseteq Entries(cmd[i].copy)
            BY <2>2, <3>2, <5>1, <5>2, FileIs DEF Entries
          <5>4. Ids(Entries(daily'[p])) \subseteq Ids(Entries(cmd[i].copy))
            BY <5>3 DEF Ids
          <5>5. Safe(h, p, Entries(cmd[i].copy))
            BY <1>3, <1>8, <2>3, <3>2, <4>4 DEF Plan
          <5>6. QED
            BY <1>1, <2>3, <5>4, <5>5, SafeStays
        <4>5. QED
          BY <4>2, <4>3, <4>4
      <3>3. QED
        BY <3>1, <3>2
    <2>5. QED
      BY <1>6, <1>8, <2>2, <2>4
  <1>9. ASSUME NEW i \in Procs, Looks(i), NEW h \in Procs, cmd'[h].at \in Inside,
               NEW p \in Plans, p = cmd'[h].plan
        PROVE  Held(h)'
    <2>1. /\ daily' = daily /\ archive' = archive /\ lost' = lost
          /\ (\A j \in Procs : j # i => cmd'[j] = cmd[j])
          /\ Plan(i) \in Plans /\ cmd'[i].plan = Plan(i)
      BY <1>9 DEF Looks, SameFiles, files, ghosts, Typed, Only, SamePlace, Plan
    <2>2. Blocks(daily[p]) \subseteq Block /\ ToSet(Content(daily[p])) = Blocks(daily[p])
          /\ Entries(Content(daily[p])) = Entries(daily[p])
      BY <1>1, FileTyped, ContentIs, EntriesOfContent
    <2>3. CASE h = i
      <3>1. p = Plan(i) /\ cmd'[i].at # "section"
        BY <1>9, <2>1, <2>3 DEF Inside
      <3>2. Ids(Blocks(daily[p])) \subseteq Base(h)'
        <4>1. CASE cmd'[i].at = "header"
          <5>1. daily[p] = Absent
            BY <1>9, <3>1, <4>1 DEF Looks, File
          <5>2. QED
            BY <5>1, EmptyFile DEF Ids
        <4>2. CASE cmd'[i].at # "header"
          <5>1. cmd'[i].copy = Content(daily[p])
            BY <1>9, <2>3, <3>1, <4>2 DEF Looks, File, Inside
          <5>2. QED
            BY <2>2, <2>3, <4>2, <5>1 DEF Base, At
        <4>3. QED
          BY <4>1, <4>2
      <3>3. Ids(Entries(daily'[p])) \subseteq Base(h)' \cup Past(p)'
        BY <2>1, <3>2 DEF Entries, Ids
      <3>4. ASSUME NEW j \in Procs, cmd'[j].at = "section", cmd'[j].plan = p
            PROVE  Ids(Entries(cmd'[j].copy)) \subseteq Base(h)' \cup Past(p)'
        <4>1. cmd'[j] = cmd[j]
          BY <2>1, <3>1, <3>4
        <4>2. Ids(ToSet(cmd[j].copy)) \subseteq Accounted(p)
          BY <1>1, <3>4, <4>1 DEF SectionInv, At, Plan
        <4>3. Ids(Entries(cmd[j].copy)) \subseteq Ids(ToSet(cmd[j].copy))
          <5>1. cmd[j].copy \in Seq(Block)
            BY <1>1, CommandIs
          <5>2. Blocks(cmd[j].copy) = ToSet(cmd[j].copy)
            BY <5>1, FileIs
          <5>3. QED
            BY <5>2 DEF Entries, Ids
        <4>4. Past(p)' = Past(p)
          BY <2>1 DEF Past
        <4>5. QED
          BY <3>2, <4>1, <4>2, <4>3, <4>4 DEF Accounted
      <3>5. QED
        BY <1>9, <3>3, <3>4 DEF Held, Safe, At, Plan
    <2>4. CASE h # i
      <3>1. cmd'[h] = cmd[h] /\ cmd[h].at \in Inside /\ p = Plan(h)
        BY <1>9, <2>1, <2>4 DEF Plan
      <3>2. Ids(Entries(daily'[p])) \subseteq Base(h)' \cup Past(p)'
        BY <1>5, <2>1, <3>1
      <3>3. ASSUME NEW j \in Procs, cmd'[j].at = "section", cmd'[j].plan = p
            PROVE  Ids(Entries(cmd'[j].copy)) \subseteq Base(h)' \cup Past(p)'
        <4>1. CASE j = i
          <5>1. cmd'[j].copy = Content(daily[p])
            BY <1>9, <2>1, <3>3, <4>1 DEF Looks, File, Inside
          <5>2. QED
            BY <2>1, <2>2, <3>2, <5>1
        <4>2. CASE j # i
          BY <1>4, <2>1, <3>1, <3>3, <4>2
        <4>3. QED
          BY <4>1, <4>2
      <3>4. QED
        BY <1>2, <3>1, <3>2, <3>3
    <2>5. QED
      BY <2>3, <2>4
  <1>10. ASSUME NEW q \in Plans, NEW nb, Gains(q, nb), NEW h \in Procs, cmd'[h].at \in Inside,
                NEW p \in Plans, p = cmd'[h].plan
         PROVE  Held(h)'
    <2>1. cmd' = cmd /\ ~IsEntry(nb) /\ (p # q => daily'[p] = daily[p])
          /\ Blocks(daily'[q]) = Blocks(daily[q]) \cup {nb}
      BY <1>1, <1>10, GainsFile DEF Gains
    <2>2. Entries(daily'[p]) \subseteq Entries(daily[p])
      BY <2>1 DEF Entries
    <2>3. Ids(Entries(daily'[p])) \subseteq Ids(Entries(daily[p]))
      BY <2>2 DEF Ids
    <2>4. cmd'[h] = cmd[h] /\ cmd[h].at \in Inside /\ p = Plan(h)
      BY <1>10, <2>1 DEF Plan
    <2>5. Ids(Entries(daily'[p])) \subseteq Base(h)' \cup Past(p)'
      BY <1>5, <2>3, <2>4
    <2>6. \A j \in Procs : cmd'[j].at = "section" /\ cmd'[j].plan = p =>
            Ids(Entries(cmd'[j].copy)) \subseteq Base(h)' \cup Past(p)'
      BY <1>4, <2>1, <2>4
    <2>7. QED
      BY <1>2, <2>4, <2>5, <2>6
  <1>11. ASSUME UNCHANGED vars, NEW h \in Procs
         PROVE  Held(h)'
    BY <1>1, <1>11 DEF vars, files, ghosts, Held, Safe, Base, Past, At, Plan
  <1>12. ASSUME NEW h \in Procs
         PROVE  Held(h)'
    <2>1. CASE cmd'[h].at \in Inside
      <3>1. cmd'[h].plan \in Plans
        BY <1>1, <2>1 DEF TypeOK, At, Plan, Inside
      <3>2. PICK p \in Plans : p = cmd'[h].plan
        BY <3>1
      <3>3. QED
        BY <1>7, <1>8, <1>9, <1>10, <1>11, <2>1, <3>2, NextIs
    <2>2. CASE cmd'[h].at \notin Inside
      BY <2>2 DEF Held
    <2>3. QED
      BY <2>1, <2>2
  <1>13. TypeOK' => (HeldInv' <=> \A i \in Procs : Held(i)')
    <2>1. ASSUME TypeOK', NEW i \in Procs, cmd'[i].at \in Inside
          PROVE  cmd'[i].plan \in Plans
      BY <2>1 DEF TypeOK, At, Plan, Inside
    <2>2. QED
      BY <2>1 DEF HeldInv, Held, Safe, File, Plan
  <1>14. QED
    BY <1>1, <1>12, <1>13

-----------------------------------------------------------------------------
(* Closed and pending versions *)

(* What a step makes writable as pending while a closed version of it is   *)
(* around, a halt section set back, in this step or before.                *)
LEMMA MadeReopens ==
  ASSUME IInv, NEW i \in Procs, NEW f, NEW nb, Made(i, f, nb), NEW p \in Plans, NEW a, NEW b,
         Live(p, a)', IsOpen(a), Version(p, b), IsClosed(b), a.id = b.id
  PROVE  a.id \in reopened'
  <1>1. TypeOK /\ ReopenInv /\ FreshInv /\ born \in Nat
    BY QueueAssumption DEF IInv, VersionInv, TypeOK
  <1>2. /\ Puts(i, f) /\ Blocks(f) = ToSet(f) /\ reopened \subseteq reopened'
    BY MadeFile DEF Made
  <1>3. CASE Live(p, a)
    BY <1>1, <1>2, <1>3 DEF ReopenInv
  <1>4. CASE p = Plan(i) /\ a \in ToSet(f)
    <2>1. b.id \in Nat /\ b.id <= born
      BY <1>1, VersionTyped, QueueAssumption DEF FreshInv
    <2>2. a \in ToSet(cmd[i].copy)
      <3>1. a \in ToSet(cmd[i].copy) \/ (a = nb /\ born' = born + 1) \/ Redone(i, a)
        BY <1>4 DEF Made
      <3>2. ~Redone(i, a)
        BY DEF Redone
      <3>3. ~(a = nb /\ born' = born + 1)
        BY <1>1, <2>1 DEF Made
      <3>4. QED
        BY <3>1, <3>2, <3>3
    <2>3. CASE cmd[i].at \in {"entry", "write"}
      BY <1>3, <1>4, <2>2, <2>3 DEF Live
    <2>4. CASE reopened' = reopened \cup (Ids(Pending(f)) \ Ids(Pending(File(i))))
      <3>1. a.id \in Ids(Pending(f))
        BY <1>2, <1>4 DEF Pending, Entries, Ids, IsOpen
      <3>2. CASE a.id \in Ids(Pending(File(i)))
        <4>1. PICK c \in Pending(File(i)) : c.id = a.id
          BY <3>2 DEF Ids
        <4>2. Live(p, c) /\ IsOpen(c)
          BY <1>4, <4>1 DEF Pending, Entries, Live, IsOpen, File
        <4>3. c.id \in reopened
          BY <1>1, <4>1, <4>2 DEF ReopenInv
        <4>4. QED
          BY <1>2, <4>1, <4>3
      <3>3. QED
        BY <2>4, <3>1, <3>2
    <2>5. QED
      BY <1>4, <2>3, <2>4 DEF Made
  <1>5. CASE \E j \in Procs : /\ j # i /\ Plan(j) = p /\ a \in ToSet(cmd[j].copy)
                              /\ cmd[j].at \in {"entry", "write"}
    BY <1>3, <1>5 DEF Live
  <1>6. QED
    BY <1>1, <1>2, <1>3, <1>4, <1>5, PutsVersions

LEMMA StepReopens ==
  ASSUME IInv, [Next]_vars, NEW p \in Plans, NEW a, NEW b,
         Live(p, a)', IsOpen(a), Version(p, b), IsClosed(b), a.id = b.id
  PROVE  a.id \in reopened'
  <1>1. TypeOK /\ ReopenInv
    BY DEF IInv
  <1>2. ASSUME Live(p, a), reopened' = reopened
        PROVE  a.id \in reopened'
    BY <1>1, <1>2 DEF ReopenInv
  <1>3. ASSUME NEW i \in Procs, Puttings(i)
        PROVE  a.id \in reopened'
    BY <1>3, PuttingsMake, MadeReopens
  <1>4. ASSUME NEW q \in Plans, NEW nb, Gains(q, nb)
        PROVE  a.id \in reopened'
    <2>1. ~IsOpen(nb) /\ reopened' = reopened
      BY <1>4 DEF Gains, IsOpen, ghosts
    <2>2. QED
      BY <1>1, <1>2, <1>4, <2>1, GainsVersions
  <1>5. ASSUME NEW i \in Procs, Quiet(i) \/ Looks(i) \/ Archives(i)
        PROVE  a.id \in reopened'
    <2>1. NothingNew
      BY <1>1, <1>5, QuietIsNothingNew, LooksIsNothingNew, ArchivesIsNothingNew
    <2>2. reopened' = reopened
      BY <1>5 DEF Quiet, Looks, Archives, SameFiles, ghosts
    <2>3. QED
      BY <1>2, <2>1, <2>2 DEF NothingNew
  <1>6. CASE UNCHANGED vars
    <2>1. Live(p, a) /\ reopened' = reopened
      BY <1>6 DEF vars, files, ghosts, Live, Plan
    <2>2. QED
      BY <1>2, <2>1
  <1>7. QED
    BY <1>3, <1>4, <1>5, <1>6, NextIs

(* A pending block that could be written, or is, while a closed version of *)
(* it is around was set back by a halt section.                            *)
LEMMA ReopenStep ==
  ASSUME IInv, [Next]_vars
  PROVE  ReopenInv'
  <1>1. TypeOK /\ HolderInv /\ born \in Nat
    BY QueueAssumption DEF IInv, TypeOK
  <1>2. SUFFICES ASSUME NEW p \in Plans, NEW a, NEW b,
                        Live(p, a)', IsOpen(a), Version(p, b)', IsClosed(b), a.id = b.id
                 PROVE  a.id \in reopened'
    BY DEF ReopenInv
  <1>3. CASE Version(p, b)
    BY <1>2, <1>3, StepReopens
  (* The mirror that is being set: nobody else holds the flock, and the    *)
  (* block is not twice in the file.                                       *)
  <1>4. ASSUME NEW i \in Procs, NEW f, NEW nb, Made(i, f, nb),
               p = Plan(i), b \in ToSet(f), Redone(i, b)
        PROVE  FALSE
    <2>1. Puts(i, f) /\ Distinct(f)
      BY <1>4 DEF Made
    <2>2. ~ \E j \in Procs : /\ j # i /\ Plan(j) = p /\ a \in ToSet(cmd[j].copy)
                             /\ cmd[j].at \in {"entry", "write"}
      BY <1>1, <1>4 DEF Redone, HolderInv, Inside
    <2>3. a \in ToSet(f)
      BY <1>1, <1>2, <1>4, <2>1, <2>2, PutsVersions
    <2>4. PICK m \in DOMAIN f, n \in DOMAIN f : a = f[m] /\ b = f[n]
      BY <1>4, <2>3 DEF ToSet
    <2>5. a = b
      BY <1>2, <2>1, <2>4 DEF Distinct
    <2>6. QED
      BY <1>2, <2>5 DEF IsOpen, IsClosed
  <1>5. ASSUME NEW i \in Procs, Puttings(i)
        PROVE  Version(p, b)
    <2>1. PICK f, nb : Made(i, f, nb)
      BY <1>5, PuttingsMake
    <2>2. \/ Version(p, b)
          \/ b = nb /\ born' = born + 1
          \/ p = Plan(i) /\ b \in ToSet(f) /\ Redone(i, b)
      BY <1>2, <2>1, MadeVersions
    <2>3. ~(b = nb /\ born' = born + 1)
      BY <1>1, <1>2, <2>1 DEF Made
    <2>4. QED
      BY <1>4, <2>1, <2>2, <2>3
  <1>6. ASSUME NEW q \in Plans, NEW nb, Gains(q, nb)
        PROVE  Version(p, b)
    <2>1. ~IsClosed(nb)
      BY <1>6 DEF Gains, IsClosed
    <2>2. QED
      BY <1>1, <1>2, <1>6, <2>1, GainsVersions
  <1>7. ASSUME NEW i \in Procs, Quiet(i) \/ Looks(i) \/ Archives(i)
        PROVE  Version(p, b)
    <2>1. NothingNew
      BY <1>1, <1>7, QuietIsNothingNew, LooksIsNothingNew, ArchivesIsNothingNew
    <2>2. QED
      BY <1>2, <2>1 DEF NothingNew
  <1>8. CASE UNCHANGED vars
    <2>1. Version(p, b)
      BY <1>2, <1>8 DEF vars, files, Version, Plan
    <2>2. QED
      BY <1>3, <2>1
  <1>9. QED
    BY <1>3, <1>5, <1>6, <1>7, <1>8, NextIs

LEMMA ArchivedStep ==
  ASSUME IInv, [Next]_vars
  PROVE  ArchivedIsClosed'
  <1>1. TypeOK /\ ArchivedIsClosed /\ StageInv /\ KindInv /\ ReopenInv
    BY DEF IInv, VersionInv
  <1>2. ASSUME archive' = archive, unseen \subseteq unseen', reopened \subseteq reopened'
        PROVE  ArchivedIsClosed'
    BY <1>1, <1>2 DEF ArchivedIsClosed
  <1>3. ASSUME NEW i \in Procs, Archives(i)
        PROVE  ArchivedIsClosed'
    <2>1. /\ Plan(i) \in Plans /\ archive'[Plan(i)] = File(i)
          /\ \A p \in Plans : p # Plan(i) => archive'[p] = archive[p]
      BY <1>1, <1>3, ArchivesFile DEF File
    <2>2. reopened' = reopened /\ cmd[i].at = "move"
          /\ unseen' = unseen \cup (Ids(Pending(File(i))) \ Ids(ToSet(cmd[i].copy)))
      BY <1>3 DEF Archives
    <2>3. ASSUME NEW a \in Pending(File(i)), a.id \in Ids(ToSet(cmd[i].copy))
          PROVE  a.id \in reopened
      <3>1. PICK c \in ToSet(cmd[i].copy) : c.id = a.id
        BY <2>3 DEF Ids
      <3>2. Version(Plan(i), a) /\ Live(Plan(i), a) /\ IsOpen(a)
        BY <2>3 DEF Pending, Entries, Version, Live, IsOpen, File
      <3>3. Version(Plan(i), c)
        BY <3>1 DEF Version
      <3>4. c.kind = a.kind
        BY <1>1, <2>1, <3>1, <3>2, <3>3 DEF KindInv
      <3>5. ~IsOpen(c)
        BY <1>1, <2>2, <3>1 DEF StageInv, At
      <3>6. IsClosed(c)
        BY <3>2, <3>4, <3>5 DEF IsOpen, IsClosed, IsEntry
      <3>7. QED
        BY <1>1, <2>1, <3>1, <3>2, <3>3, <3>6 DEF ReopenInv
    <2>4. Ids(Pending(File(i))) \subseteq unseen' \cup reopened'
      BY <2>2, <2>3 DEF Ids
    <2>5. QED
      BY <1>1, <2>1, <2>2, <2>4 DEF ArchivedIsClosed
  <1>4. ASSUME NEW i \in Procs, Puttings(i)
        PROVE  ArchivedIsClosed'
    <2>1. PICK f, nb : Made(i, f, nb)
      BY <1>4, PuttingsMake
    <2>2. QED
      BY <1>2, <2>1, MadeFile
  <1>5. ASSUME NEW i \in Procs, Quiet(i) \/ Looks(i)
        PROVE  ArchivedIsClosed'
    BY <1>2, <1>5 DEF Quiet, Looks, SameFiles, files, ghosts
  <1>6. ASSUME NEW q \in Plans, NEW nb, Gains(q, nb)
        PROVE  ArchivedIsClosed'
    BY <1>2, <1>6 DEF Gains, ghosts
  <1>7. CASE UNCHANGED vars
    BY <1>2, <1>7 DEF vars, files, ghosts
  <1>8. QED
    BY <1>3, <1>4, <1>5, <1>6, <1>7, NextIs

-----------------------------------------------------------------------------
(* The theorems *)

LEMMA InitIInv == Init => IInv
  <1>1. SUFFICES ASSUME Init
                 PROVE  IInv
    OBVIOUS
  <1>2. /\ daily = [p \in Plans |-> Absent] /\ archive = [p \in Plans |-> Absent]
        /\ lock = [p \in Plans |-> Nobody] /\ cmd = [i \in Procs |-> Idle]
        /\ known = [p \in Plans |-> RealTasks] /\ closed = [p \in Plans |-> {}]
        /\ index = [p \in Plans |-> {}] /\ born = 0 /\ lost = {}
    BY <1>1 DEF Init
  <1>3. /\ Idle \in Command /\ Idle.at = "idle" /\ Idle.how = "none" /\ Idle.copy = <<>>
    BY EmptyFile DEF Idle, Command, Stages
  <1>4. \A i \in Procs : cmd[i].at = "idle" /\ cmd[i].how = "none" /\ ToSet(cmd[i].copy) = {}
                         /\ cmd[i].copy = <<>>
    BY <1>2, <1>3, EmptyFile
  <1>5. \A p \in Plans : Blocks(daily[p]) = {} /\ Blocks(archive[p]) = {}
                         /\ Content(daily[p]) = <<>> /\ Content(archive[p]) = <<>>
    BY <1>2, EmptyFile
  <1>6. TypeOK
    BY <1>2, <1>3, <1>4, QueueAssumption DEF TypeOK, At
  <1>7. LockIsHeldInside /\ HolderInv /\ TaskInv /\ StageInv
    BY <1>2, <1>4 DEF LockIsHeldInside, HolderInv, TaskInv, Tasked, GestureStages, StageInv, Backed,
                      At, Inside
  <1>8. Writers = {}
    BY <1>4 DEF Writers
  <1>9. RoomInv
    BY <1>2, <1>8, FS_EmptySet, QueueAssumption DEF RoomInv
  <1>10. DistinctInv
    BY <1>4, <1>5, EmptyFile DEF DistinctInv
  <1>11. \A p \in Plans : \A b : ~Version(p, b)
    BY <1>4, <1>5 DEF Version
  <1>12. VersionInv /\ ReopenInv
    BY <1>11 DEF VersionInv, FreshInv, KindInv, ToldInv, ReopenInv
  <1>13. SectionInv /\ HeldInv
    BY <1>4 DEF SectionInv, HeldInv, Inside, At
  <1>14. LostOnlyWithoutTheLock
    BY <1>2 DEF LostOnlyWithoutTheLock
  <1>15. ArchivedIsClosed
    BY <1>5 DEF ArchivedIsClosed, Pending, Entries, Ids
  <1>16. QED
    BY <1>6, <1>7, <1>9, <1>10, <1>12, <1>13, <1>14, <1>15 DEF IInv

(* The invariant holds in every state of every run of the queue's commands.*)
THEOREM QueueInvariant == Spec => []IInv
  <1>1. IInv /\ [Next]_vars => IInv'
    <2>1. SUFFICES ASSUME IInv, [Next]_vars
                   PROVE  IInv'
      OBVIOUS
    <2>2. LockIsHeldInside' /\ HolderInv'
      BY <2>1, LocksStep DEF LockOK
    <2>3. TypeOK' /\ TaskInv' /\ RoomInv' /\ StageInv'
      BY <2>1, TypeStep, TaskStep, RoomStep, StageStep
    <2>4. DistinctInv' /\ VersionInv' /\ ReopenInv' /\ SectionInv' /\ HeldInv'
      BY <2>1, DistinctStep, VersionStep, ReopenStep, SectionStep, HeldStep
    <2>5. LostOnlyWithoutTheLock' /\ ArchivedIsClosed'
      BY <2>1, LostStep, ArchivedStep
    <2>6. QED
      BY <2>2, <2>3, <2>4, <2>5 DEF IInv
  <1>2. QED
    BY InitIInv, <1>1, PTL DEF Spec

(* Entries are never lost by the writers that take the flock, a closed     *)
(* mirror tells of a command that succeeded, and an archive has no pending *)
(* entry that its mover did not overlook or a halt section did not set     *)
(* back, whatever the sessions, halts, gestures and kills.                 *)
THEOREM QueueIsKept == Spec => []QueueInv
  <1>1. IInv => QueueInv
    <2>1. SUFFICES ASSUME IInv
                   PROVE  MirrorTellsWhatWasDone
      BY DEF IInv, QueueInv
    <2>2. SUFFICES ASSUME NEW p \in Plans, NEW b \in Entries(daily[p]) \cup Entries(archive[p]),
                          b.mirror # "pending"
                   PROVE  Succeeded(p, b.task, b.mirror)
      BY DEF MirrorTellsWhatWasDone, Succeeded
    <2>3. Version(p, b) /\ IsClosed(b)
      BY <2>2 DEF Version, Entries, IsClosed
    <2>4. QED
      BY <2>1, <2>2, <2>3 DEF IInv, VersionInv, ToldInv
  <1>2. QED
    BY <1>1, QueueInvariant, PTL

(* A mirror goes from closed to pending only for an entry that a halt      *)
(* section has set back: the writers under the flock repeat that at most.  *)
THEOREM NobodyElseReopens == Spec => OnlyHaltsReopen
  <1>1. ASSUME IInv, [Next]_vars,
               NEW p \in Plans, NEW a \in Entries(daily[p]), NEW b \in Entries(daily'[p]),
               a.id = b.id, a.mirror # "pending", b.mirror = "pending"
        PROVE  a.id \in reopened'
    <2>1. Version(p, a) /\ IsClosed(a)
      BY <1>1 DEF Entries, Version, IsClosed
    <2>2. Live(p, b)' /\ IsOpen(b)
      BY <1>1 DEF Entries, Live, IsOpen
    <2>3. b.id = a.id
      BY <1>1
    <2>4. b.id \in reopened'
      BY <1>1, <2>1, <2>2, <2>3, StepReopens
    <2>5. QED
      BY <2>3, <2>4
  <1>2. IInv /\ [Next]_vars =>
          [\A p \in Plans : \A a \in Entries(daily[p]), b \in Entries(daily'[p]) :
             a.id = b.id /\ a.mirror # "pending" /\ b.mirror = "pending" => a.id \in reopened']_vars
    BY <1>1
  <1>3. QED
    BY <1>2, QueueInvariant, PTL DEF Spec, OnlyHaltsReopen
=============================================================================
