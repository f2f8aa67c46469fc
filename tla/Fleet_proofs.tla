---------------------------- MODULE Fleet_proofs ----------------------------
(***************************************************************************)
(* Proofs about Fleet, for any plans, operators, stages and edits, any     *)
(* finite set of runs and any number of commands and faults.               *)
(***************************************************************************)
EXTENDS Fleet, FiniteSetTheorems, TLAPS

(***************************************************************************)
(* What each piece of state may hold.                                      *)
(***************************************************************************)
Event == [stage : Command \cup {"seed", "none"}, status : Status \cup {"none"}]
RunRow == [event : {"spawned", "resumed", "completed", "failed"}, run : Runs, session : BOOLEAN]
Directory == [there : BOOLEAN, st : State \cup {Nothing}, log : Seq(Event), rows : Seq(RunRow)]
Meta == [on : BOOLEAN, roster : SUBSET Slugs, closed : SUBSET Slugs, waved : SUBSET Slugs]
Views == [states : [Slugs -> State \cup {Nothing}], roster : SUBSET Slugs, closed : SUBSET Slugs,
          waved : SUBSET Slugs]
Hub == [there : BOOLEAN, zones : SUBSET Zones, view : Views \cup {Nothing}]

CloseEdit == [status |-> "closed", next |-> Bare("none")]
MintEdit == [stage |-> "seed", status |-> "ready", next |-> Bare("code")]
AllEdits == {<<>>, CloseEdit, MintEdit} \cup Edits \cup HookEdits

AJob == [do : {"none", "run", "update", "hook", "render", "init", "migrate", "seed", "close",
               "mint", "spawn", "resume"},
         at : {"idle", "load", "save", "event", "fold", "swap", "opt", "scaffold", "wire", "sow",
               "meta", "archive", "mint", "launch", "row", "work"},
         slug : Slugs \cup {Nothing}, edit : AllEdits, st : State \cup {Nothing},
         meta : Meta \cup {Nothing}, view : Views \cup {Nothing}, zones : SUBSET Zones,
         heir : Slugs \cup {Nothing}, keep : BOOLEAN, render : BOOLEAN, run : Runs \cup {Nothing}]

BaseZones == Zones \ OptionalZones

(* A close that has read the meta file and not yet written it.             *)
Closing(j) == j.do = "close" /\ j.at \in {"load", "save", "event", "meta"}

(* What a job holds at each of its steps.                                  *)
Fits(p, j) ==
    /\ p \in Runs => /\ j.do \in {"none", "run"} /\ j.at \in {"idle", "work", "fold", "swap"}
                     /\ j.at # "idle" => j.do = "run"
    /\ p \notin Runs => j.do # "run" /\ j.at # "work"
    /\ j.at \in {"load", "save", "event", "sow", "meta", "archive", "mint", "launch", "row", "work"}
          => j.slug \in Slugs
    /\ j.at \in {"save", "event", "sow"} => j.st \in State
    /\ j.at \in {"meta", "archive", "mint"} => j.do = "close"
    /\ j.at = "sow" => j.do = "seed"
    /\ j.at = "opt" => j.do = "init"
    /\ j.at = "load" /\ j.do = "close" => j.edit = CloseEdit
    /\ Closing(j) => j.meta \in Meta /\ j.meta.on
    /\ j.heir # Nothing => /\ Closing(j) \/ j.at \in {"archive", "mint"}
                           /\ j.heir # j.slug
    /\ j.at = "mint" => j.heir # Nothing
    /\ j.run # Nothing <=> j.at \in {"launch", "row"}
    /\ j.at = "swap" => BaseZones \subseteq j.zones

TypeInv ==
    /\ dir \in [Slugs -> Directory] /\ archive \in [Slugs -> Directory]
    /\ \A s \in Slugs : \A d \in {dir[s], archive[s]} : ~d.there => d = Empty
    /\ meta \in Meta /\ hub \in Hub
    /\ job \in [Actors -> AJob] /\ \A p \in Actors : Fits(p, job[p])
    /\ bounds \in [commands : 0..MaxCommands, faults : 0..MaxFaults]

(* The event that is about to be appended carries the status that the      *)
(* state has, and a seed without events was noted.                         *)
WriteInv ==
    \A p \in Actors :
        /\ At(p, "event") /\ job[p].slug \notin mixed =>
              dir[job[p].slug].st = Nothing \/ dir[job[p].slug].st.status = job[p].st.status
        /\ At(p, "sow") /\ ~job[p].keep => job[p].slug \in mixed

(* A plan that is archived, or will be.                                    *)
Gone(s) == archive[s].there \/ \E p \in Actors : At(p, "archive") /\ job[p].slug = s
Off(s, m) == s \in m.closed \ m.roster

(* Before init there is nothing but inits.  No meta file that is there or  *)
(* could be written loses an archived plan.                                *)
MetaInv ==
    /\ ~meta.on => /\ \A p \in Actors : job[p].at \in {"idle", "opt"}
                   /\ \A s \in Slugs : ~archive[s].there
    /\ "meta" \notin mixed =>
          \A s \in Slugs : Gone(s) =>
              /\ Off(s, meta)
              /\ \A p \in Actors : /\ ~At(p, "opt")
                                   /\ Closing(job[p]) => Off(s, job[p].meta) /\ s # job[p].heir

Minted(h) == \/ dir[h].there \/ archive[h].there \/ bounds.faults > 0
             \/ \E p \in Operators : job[p].heir = h
MintInv ==
    /\ \A h \in meta.roster : Minted(h)
    /\ \A p \in Actors : Closing(job[p]) => \A h \in job[p].meta.roster : Minted(h)

(* The runs with a row of their end are those that ended and were neither  *)
(* killed nor lost; no two operators start one run.                        *)
Ended(r) == \E s \in Slugs : \E d \in {dir[s], archive[s]} : \E n \in DOMAIN d.rows :
                d.rows[n].run = r /\ IsEnd(d.rows[n])
RunInv ==
    /\ \A r \in Runs : Ended(r) <=> job[r].do = "run" /\ ~At(r, "work") /\ r \notin mixed
    /\ \A r \in Runs \cap mixed : job[r].do = "run" /\ ~At(r, "work")
    /\ \A p \in Operators : At(p, "launch") => job[job[p].run].do = "none"
    /\ \A p, q \in Operators : job[p].run # Nothing /\ job[p].run = job[q].run => p = q

(* Every run that is going is counted or about to be, and one operator at  *)
(* a time is between the count and the row.                                *)
Working == {r \in Runs : At(r, "work")}
Launching == {p \in Operators : job[p].at \in {"launch", "row"}}
CapInv == "cap" \notin mixed =>
    /\ \A p, q \in Launching : p = q
    /\ \A r \in Working : \/ \E s \in Slugs : r \in Unended(s)
                          \/ \E p \in Operators : At(p, "row") /\ job[p].run = r
    /\ Cardinality(Working) <= MaxConcurrent
    /\ (\E p \in Operators : At(p, "launch")) => Cardinality(Working) < MaxConcurrent

PageInv == hub.view # Nothing => BaseZones \subseteq hub.zones

IInv == /\ TypeInv /\ WriteInv /\ StateHasItsEvent /\ MetaInv /\ MintInv
        /\ RunInv /\ CapInv /\ PageInv

-----------------------------------------------------------------------------
(* What is stored, and what an update makes of it *)

GoodEdit(e) == \E s \in State : \A f \in DOMAIN e : e[f] = s[f]

LEMMA NextsAre ==
  /\ Bare("none") \in Next_ /\ \A c \in Command : Bare(c) \in Next_
  /\ \A g \in Stages : g \in Command /\ Bare(StageNext(g)) \in Next_
  <1>1. Bare("none") \in Next_ /\ \A c \in Command : Bare(c) \in Next_
    BY DEF Bare, Next_
  <1>2. ASSUME NEW g \in Stages PROVE g \in Command /\ StageNext(g) \in Command \cup {"none"}
    BY FleetAssumption DEF StageNext, Command
  <1>3. QED
    BY <1>1, <1>2

LEMMA StatesAre ==
  /\ Blank \in State
  /\ \A g \in Command \cup {"seed", "none"}, t \in Status \cup {"none"}, n \in Next_, d \in BOOLEAN :
       [stage |-> g, status |-> t, next |-> n, directive |-> d] \in State
  BY NextsAre DEF Blank, State

(* Every edit agrees with some state where it says anything.               *)
LEMMA EditsAreGood ==
  ASSUME NEW e \in AllEdits
  PROVE  GoodEdit(e)
  <1>1. CASE e = <<>>
    BY <1>1, StatesAre DEF GoodEdit
  <1>2. CASE e \in Edits
    BY <1>2, FleetAssumption DEF GoodEdit
  <1>3. ASSUME NEW g \in Command \cup {"seed", "none"}, NEW t \in Status, NEW n \in Next_,
               NEW d \in BOOLEAN,
               \/ e = [stage |-> g, status |-> t, next |-> n]
               \/ e = [stage |-> g, status |-> t, next |-> n, directive |-> d]
               \/ e = [stage |-> g, status |-> t]
               \/ e = [status |-> t, next |-> n]
        PROVE  GoodEdit(e)
    <2> DEFINE s == [stage |-> g, status |-> t, next |-> n, directive |-> d]
    <2>1. s \in State
      BY StatesAre
    <2>2. \A f \in DOMAIN e : e[f] = s[f]
      BY <1>3
    <2>3. QED
      BY <2>1, <2>2 DEF GoodEdit
  <1>4. CASE e \in HookEdits
    <2>1. \/ \E g \in Stages : \/ e = [stage |-> g, status |-> "wip", next |-> Bare(g)]
                               \/ e = [stage |-> g, status |-> "ready", next |-> Bare(StageNext(g)),
                                       directive |-> FALSE]
                               \/ e = [stage |-> g, status |-> "blocked"]
          \/ e = [stage |-> "code", status |-> "wip", next |-> Bare("code")]
          \/ e = [status |-> "closed", next |-> Bare("none")]
      BY <1>4 DEF HookEdits, Reported
    <2>2. {"wip", "ready", "blocked", "closed"} \subseteq Status /\ "code" \in Command
      BY DEF Status, Command
    <2>3. QED
      BY <2>1, <2>2, <1>3, NextsAre
  <1>5. CASE e \in {CloseEdit, MintEdit}
    <2>1. {"ready", "closed"} \subseteq Status /\ "code" \in Command
      BY DEF Status, Command
    <2>2. QED
      BY <1>5, <2>1, <1>3, NextsAre DEF CloseEdit, MintEdit
  <1>6. QED
    BY <1>1, <1>2, <1>4, <1>5 DEF AllEdits

LEMMA MergeIs ==
  ASSUME NEW st \in State, NEW e \in AllEdits
  PROVE  Merge(st, e) \in State /\ (e = CloseEdit => Merge(st, e).status = "closed")
  <1>1. PICK s \in State : \A f \in DOMAIN e : e[f] = s[f]
    BY EditsAreGood DEF GoodEdit
  <1>2. DOMAIN st = {"stage", "status", "next", "directive"}
    BY DEF State
  <1>3. \A f \in DOMAIN st : Merge(st, e)[f] = IF f \in DOMAIN e THEN s[f] ELSE st[f]
    BY <1>1, <1>2 DEF Merge
  <1> DEFINE m == Merge(st, e)
  <1>4. m = [stage |-> m.stage, status |-> m.status, next |-> m.next, directive |-> m.directive]
    BY <1>2 DEF Merge
  <1>5. /\ m.stage \in {s.stage, st.stage} /\ m.status \in {s.status, st.status}
        /\ m.next \in {s.next, st.next} /\ m.directive \in {s.directive, st.directive}
    BY <1>2, <1>3
  <1>6. m.stage \in Command \cup {"seed", "none"} /\ m.status \in Status \cup {"none"}
        /\ m.next \in Next_ /\ m.directive \in BOOLEAN
    BY <1>5 DEF State
  <1>7. m \in State
    BY <1>4, <1>6 DEF State
  <1>8. e = CloseEdit => m.status = "closed"
    BY <1>2 DEF Merge, CloseEdit
  <1>9. QED
    BY <1>7, <1>8

LEMMA StoredIs ==
  ASSUME TypeInv, NEW s \in Slugs
  PROVE  /\ dir[s] \in Directory /\ archive[s] \in Directory /\ Stored(s) \in State
         /\ dir[s].st # Nothing => Stored(s) = dir[s].st
         /\ ~dir[s].there => dir[s] = Empty
         /\ ~archive[s].there => archive[s] = Empty
  BY StatesAre DEF TypeInv, Stored, Directory

-----------------------------------------------------------------------------
(* What the actors do next *)

Dos == {"none", "run", "update", "hook", "render", "init", "migrate", "seed", "close", "mint",
        "spawn", "resume"}
Ats == {"idle", "load", "save", "event", "fold", "swap", "opt", "scaffold", "wire", "sow", "meta",
        "archive", "mint", "launch", "row", "work"}

LEMMA IdleIs ==
  /\ Idle \in AJob
  /\ Idle.do = "none" /\ Idle.at = "idle" /\ Idle.slug = Nothing /\ Idle.edit = <<>>
  /\ Idle.st = Nothing /\ Idle.meta = Nothing /\ Idle.view = Nothing /\ Idle.zones = {}
  /\ Idle.heir = Nothing /\ ~Idle.keep /\ ~Idle.render /\ Idle.run = Nothing
  BY DEF Idle, AJob, AllEdits

LEMMA JobsAre ==
  ASSUME NEW x \in Dos, NEW a \in Ats, NEW s \in Slugs \cup {Nothing}
  PROVE  LET j == Job(x, a, s)
         IN  /\ j \in AJob /\ j.do = x /\ j.at = a /\ j.slug = s /\ j.edit = <<>> /\ j.st = Nothing
             /\ j.meta = Nothing /\ j.view = Nothing /\ j.zones = {} /\ j.heir = Nothing
             /\ j.run = Nothing
  <1> DEFINE j == Job(x, a, s)
  <1> DEFINE j1 == [Idle EXCEPT !.do = x]
             j2 == [j1 EXCEPT !.at = a]
  <1>a. j1 \in AJob
    BY IdleIs DEF AJob, Dos
  <1>b. j2 \in AJob
    <2> HIDE DEF j1
    <2> QED
      BY <1>a DEF AJob, Ats
  <1>c. [j2 EXCEPT !.slug = s] \in AJob
    <2> HIDE DEF j2
    <2> QED
      BY <1>b DEF AJob
  <1>1. j \in AJob
    BY <1>c DEF Job
  <1>2. /\ j.do = x /\ j.at = a /\ j.slug = s /\ j.edit = <<>> /\ j.st = Nothing
        /\ j.meta = Nothing /\ j.view = Nothing /\ j.zones = {} /\ j.heir = Nothing
        /\ j.run = Nothing
    BY IdleIs DEF Job, AJob
  <1>3. QED
    BY <1>1, <1>2

(* One actor moves on, and the others stay where they are.                 *)
Moves(p) == /\ job' \in [Actors -> AJob] /\ \A q \in Actors : Fits(q, job'[q])
            /\ \A q \in Actors \ {p} : job'[q] = job[q]

LEMMA MovesIs ==
  ASSUME TypeInv, NEW p \in Actors, NEW j \in AJob, Fits(p, j), job' = [job EXCEPT ![p] = j]
  PROVE  Moves(p) /\ job'[p] = j
  BY DEF TypeInv, Moves

LEMMA ReturnIs ==
  ASSUME TypeInv, NEW p \in Actors, Return(p)
  PROVE  /\ Moves(p)
         /\ job'[p] = [Idle EXCEPT !.do = IF p \in Runs THEN "run" ELSE "none"]
         /\ job'[p].at = "idle" /\ job'[p].heir = Nothing /\ job'[p].run = Nothing
         /\ job'[p].do = IF p \in Runs THEN "run" ELSE "none"
  <1> DEFINE j == [Idle EXCEPT !.do = IF p \in Runs THEN "run" ELSE "none"]
  <1>2. j \in AJob
    BY IdleIs DEF AJob
  <1>3. /\ j.at = "idle" /\ j.heir = Nothing /\ j.run = Nothing
        /\ j.do = IF p \in Runs THEN "run" ELSE "none"
    BY IdleIs DEF AJob
  <1>4. Fits(p, j)
    BY <1>3 DEF Fits, Closing
  <1>5. QED
    BY <1>2, <1>3, <1>4, MovesIs DEF Return

(* An actor that only changes its place keeps what it holds.               *)
LEMMA GotoIs ==
  ASSUME TypeInv, NEW p \in Actors, NEW a \in Ats, Goto(p, a),
         Fits(p, [job[p] EXCEPT !.at = a])
  PROVE  Moves(p) /\ job'[p] = [job[p] EXCEPT !.at = a]
  <1>1. job[p] \in AJob
    BY DEF TypeInv
  <1>2. [job[p] EXCEPT !.at = a] \in AJob
    BY <1>1 DEF AJob, Ats
  <1>3. job' = [job EXCEPT ![p] = [job[p] EXCEPT !.at = a]]
    BY DEF Goto, TypeInv
  <1>4. QED
    BY <1>2, <1>3, MovesIs

LEMMA JobAt ==
  ASSUME TypeInv, NEW p \in Actors
  PROVE  /\ job[p] \in AJob /\ Fits(p, job[p])
         /\ job[p] = [do |-> job[p].do, at |-> job[p].at, slug |-> job[p].slug,
                      edit |-> job[p].edit, st |-> job[p].st, meta |-> job[p].meta,
                      view |-> job[p].view, zones |-> job[p].zones, heir |-> job[p].heir,
                      keep |-> job[p].keep, render |-> job[p].render, run |-> job[p].run]
         /\ job[p].edit \in AllEdits /\ job[p].do \in Dos /\ job[p].at \in Ats
         /\ job[p].st \in State \cup {Nothing} /\ job[p].heir \in Slugs \cup {Nothing}
         /\ job[p].slug \in Slugs \cup {Nothing} /\ job[p].keep \in BOOLEAN
         /\ job[p].view \in Views \cup {Nothing} /\ job[p].zones \in SUBSET Zones
         /\ job[p].run \in Runs \cup {Nothing} /\ Nothing \notin Slugs \cup State \cup Runs
         /\ Closing(job[p]) => job[p].meta \in Meta /\ job[p].meta.on
         /\ p \in Operators <=> p \notin Runs
  <1>1. job[p] \in AJob /\ Fits(p, job[p])
    BY DEF TypeInv
  <1>2. p \in Operators <=> p \notin Runs
    BY FleetAssumption DEF Actors
  <1>3. Closing(job[p]) => job[p].meta \in Meta /\ job[p].meta.on
    BY <1>1 DEF Fits
  <1>4. QED
    BY <1>1, <1>2, <1>3, FleetAssumption DEF AJob, Dos, Ats

(* A command begins.                                                       *)
LEMMA BeginsIs ==
  ASSUME TypeInv, NEW p \in Actors, NEW j \in AJob, Begins(p, j), Fits(p, j)
  PROVE  /\ p \in Operators /\ p \notin Runs /\ job[p].at = "idle"
         /\ job[p].heir = Nothing /\ job[p].run = Nothing /\ ~Closing(job[p])
         /\ Moves(p) /\ job'[p] = j
         /\ bounds' \in [commands : 0..MaxCommands, faults : 0..MaxFaults]
         /\ bounds'.faults = bounds.faults
  <1>1. p \in Operators /\ job[p].at = "idle" /\ job' = [job EXCEPT ![p] = j]
    BY DEF Begins, At
  <1>2. Moves(p) /\ job'[p] = j
    BY <1>1, MovesIs
  <1>3. job[p].heir = Nothing /\ job[p].run = Nothing /\ ~Closing(job[p]) /\ p \notin Runs
    BY <1>1, JobAt DEF Fits, Closing
  <1>4. /\ bounds' \in [commands : 0..MaxCommands, faults : 0..MaxFaults]
        /\ bounds'.faults = bounds.faults
    BY FleetAssumption DEF Begins, TypeInv
  <1>5. QED
    BY <1>1, <1>2, <1>3, <1>4

-----------------------------------------------------------------------------
(* The steps, one by one *)

Bounded(b) == b \in [commands : 0..MaxCommands, faults : 0..MaxFaults]
Whole(d) == ~d.there => d = Empty

LEMMA TypesKept ==
  ASSUME TypeInv, NEW p \in Actors, Moves(p), Bounded(bounds'), meta' \in Meta, hub' \in Hub,
         dir' \in [Slugs -> Directory], archive' \in [Slugs -> Directory],
         \A s \in Slugs : Whole(dir'[s]) /\ Whole(archive'[s])
  PROVE  TypeInv'
  BY DEF TypeInv, Moves, Bounded, Whole

LEMMA FilesKept ==
  ASSUME TypeInv, NEW p \in Actors, Moves(p), Bounded(bounds'), hub' \in Hub,
         UNCHANGED <<dir, archive, meta>>
  PROVE  TypeInv'
  BY TypesKept DEF TypeInv, Whole

(* A step that leaves the files of the plans and the meta file alone, and  *)
(* moves an actor between steps the invariant says nothing about.          *)
Calm(p) ==
    /\ job[p].at = "idle" => meta.on
    /\ UNCHANGED <<dir, archive, meta, mixed>> /\ bounds'.faults = bounds.faults
    /\ Moves(p)
    /\ job[p].at \notin {"event", "archive", "opt", "launch", "row", "work"}
    /\ job'[p].at \notin {"event", "archive", "opt", "launch", "row", "work", "sow"}
    /\ Closing(job'[p]) => Closing(job[p]) /\ job'[p].meta = job[p].meta
    /\ job'[p].heir = job[p].heir /\ job[p].run = Nothing /\ job'[p].run = Nothing
    /\ p \in Runs => job[p].do = "run" /\ job[p].at # "idle" /\ job'[p].do = "run"

LEMMA NamesAre ==
  /\ {"none", "run", "update", "hook", "render", "init", "migrate", "seed", "close", "mint",
      "spawn", "resume"} \subseteq Dos
  /\ {"idle", "load", "save", "event", "fold", "swap", "opt", "scaffold", "wire", "sow", "meta",
      "archive", "mint", "launch", "row", "work"} \subseteq Ats
  BY DEF Dos, Ats

LEMMA CalmBegins ==
  ASSUME TypeInv, NEW p \in Actors, NEW j \in AJob, Begins(p, j), Fits(p, j), meta.on,
         j.at \in {"load", "fold", "wire"}, ~Closing(j),
         UNCHANGED <<dir, archive, meta, hub, mixed>>
  PROVE  TypeInv' /\ Calm(p)
  <1>1. /\ p \notin Runs /\ job[p].at = "idle" /\ job[p].heir = Nothing /\ job[p].run = Nothing
        /\ Moves(p) /\ job'[p] = j /\ Bounded(bounds') /\ bounds'.faults = bounds.faults
    BY BeginsIs DEF Bounded
  <1>2. j.heir = Nothing /\ j.run = Nothing
    BY DEF Fits
  <1>3. Calm(p)
    BY <1>1, <1>2 DEF Calm
  <1>4. hub' \in Hub
    BY DEF TypeInv
  <1>5. QED
    BY <1>1, <1>3, <1>4, FilesKept

IsUpdate(j, x, s, e) == \E r \in BOOLEAN : j = [Job(x, "load", s) EXCEPT !.edit = e, !.render = r]

LEMMA LoadJobs ==
  ASSUME NEW p \in Actors, p \notin Runs, NEW x \in Dos \ {"run", "close", "none"},
         NEW s \in Slugs, NEW e \in AllEdits, NEW j, IsUpdate(j, x, s, e)
  PROVE  j \in AJob /\ j.at = "load" /\ j.do = x /\ Fits(p, j) /\ ~Closing(j)
  <1> DEFINE j0 == Job(x, "load", s)
  <1>1. /\ j0 \in AJob /\ j0.do = x /\ j0.at = "load" /\ j0.slug = s /\ j0.heir = Nothing
        /\ j0.run = Nothing
    BY JobsAre, NamesAre
  <1>2. PICK r \in BOOLEAN : j = [j0 EXCEPT !.edit = e, !.render = r]
    BY DEF IsUpdate
  <1> HIDE DEF j0
  <1>3. /\ j \in AJob /\ j.do = x /\ j.at = "load" /\ j.slug = s /\ j.heir = Nothing
        /\ j.run = Nothing
    BY <1>1, <1>2 DEF AJob
  <1>4. Fits(p, j) /\ ~Closing(j)
    BY <1>3 DEF Fits, Closing, Dos
  <1>5. QED
    BY <1>3, <1>4

LEMMA Updates ==
  ASSUME TypeInv, NEW p \in Operators, NEW s \in Slugs,
         UpdateStarts(p, s) \/ HookStarts(p, s)
  PROVE  TypeInv' /\ Calm(p)
  <1>1. p \in Actors /\ p \notin Runs
    BY FleetAssumption DEF Actors
  <1>2. PICK x \in {"update", "hook"}, e \in AllEdits : \E j : Begins(p, j) /\ IsUpdate(j, x, s, e)
    BY DEF UpdateStarts, HookStarts, AllEdits, IsUpdate
  <1>0. PICK j : Begins(p, j) /\ IsUpdate(j, x, s, e)
    BY <1>2
  <1>3. meta.on /\ UNCHANGED <<dir, archive, meta, hub, mixed>>
    BY DEF UpdateStarts, HookStarts, Active
  <1>4. x \in Dos \ {"run", "close", "none"}
    BY NamesAre
  <1>5. j \in AJob /\ j.at = "load" /\ Fits(p, j) /\ ~Closing(j)
    BY <1>0, <1>1, <1>4, LoadJobs
  <1>6. QED
    BY <1>0, <1>1, <1>3, <1>5, CalmBegins

LEMMA Renders ==
  ASSUME TypeInv, NEW p \in Operators, RenderStarts(p)
  PROVE  TypeInv' /\ Calm(p)
  <1>1. p \in Actors /\ p \notin Runs
    BY FleetAssumption DEF Actors
  <1> DEFINE j == Job("render", "fold", Nothing)
  <1>2. j \in AJob /\ j.at = "fold" /\ j.do = "render" /\ j.heir = Nothing /\ j.run = Nothing
    BY JobsAre, NamesAre
  <1>3. /\ Begins(p, j) /\ meta.on /\ UNCHANGED <<dir, archive, meta, hub, mixed>>
    BY DEF RenderStarts
  <1> HIDE DEF j
  <1>4. Fits(p, j) /\ ~Closing(j)
    BY <1>1, <1>2 DEF Fits, Closing
  <1>5. QED
    BY <1>1, <1>2, <1>3, <1>4, CalmBegins

LEMMA Migrates ==
  ASSUME TypeInv, NEW p \in Operators, MigrateStarts(p)
  PROVE  TypeInv' /\ Calm(p)
  <1>1. p \in Actors /\ p \notin Runs
    BY FleetAssumption DEF Actors
  <1> DEFINE j0 == Job("migrate", "wire", Nothing)
             j == [j0 EXCEPT !.view = hub.view]
  <1>2. j0 \in AJob /\ j0.at = "wire" /\ j0.do = "migrate" /\ j0.heir = Nothing /\ j0.run = Nothing
    BY JobsAre, NamesAre
  <1>3. hub.view \in Views \cup {Nothing}
    BY DEF TypeInv, Hub
  <1>4. /\ Begins(p, j) /\ meta.on /\ UNCHANGED <<dir, archive, meta, hub, mixed>>
    BY DEF MigrateStarts
  <1> HIDE DEF j0
  <1>5. j \in AJob /\ j.at = "wire" /\ j.do = "migrate" /\ j.heir = Nothing /\ j.run = Nothing
    BY <1>2, <1>3 DEF AJob
  <1> HIDE DEF j
  <1>6. Fits(p, j) /\ ~Closing(j)
    BY <1>1, <1>5 DEF Fits, Closing
  <1>7. QED
    BY <1>1, <1>4, <1>5, <1>6, CalmBegins

(* An update whose plan has no status yet stops; a close's never does.     *)
LEMMA LoadsIs ==
  ASSUME TypeInv, NEW p \in Actors, Loads(p)
  PROVE  TypeInv' /\ Calm(p)
  <1> DEFINE st == Merge(Stored(job[p].slug), job[p].edit)
             j == [job[p] EXCEPT !.at = "save", !.st = st]
  <1>1. /\ job[p].at = "load" /\ job[p].slug \in Slugs /\ p \notin Runs /\ job[p].run = Nothing
        /\ UNCHANGED <<dir, archive, meta, hub, bounds, mixed>>
    BY JobAt DEF Loads, At, Fits
  <1>2. st \in State /\ (job[p].edit = CloseEdit => st.status = "closed")
    BY <1>1, JobAt, StoredIs, MergeIs
  <1>3. Bounded(bounds') /\ hub' \in Hub
    BY <1>1 DEF TypeInv, Bounded
  <1>4. CASE Return(p) /\ st.status = "none"
    <2>1. ~Closing(job[p])
      BY <1>1, <1>2, <1>4, JobAt DEF Fits, Closing
    <2>2. job[p].heir = Nothing
      BY <1>1, <2>1, JobAt DEF Fits
    <2>3. Moves(p) /\ job'[p].at = "idle" /\ job'[p].heir = Nothing /\ job'[p].run = Nothing
      BY <1>4, ReturnIs
    <2>4. Calm(p)
      BY <1>1, <2>1, <2>2, <2>3 DEF Calm, Closing
    <2>5. QED
      BY <1>1, <1>3, <2>3, <2>4, FilesKept
  <1>5. CASE job' = [job EXCEPT ![p] = j]
    <2>1. /\ job[p] \in AJob /\ Fits(p, job[p]) /\ p \in Operators /\ job[p].at = "load"
      BY <1>1, JobAt
    <2>2. /\ j \in AJob /\ j.at = "save" /\ j.st = st /\ j.do = job[p].do
          /\ j.slug = job[p].slug /\ j.heir = job[p].heir /\ j.run = job[p].run
          /\ j.meta = job[p].meta
      <3> HIDE DEF st
      <3> QED
        BY <1>2, <2>1 DEF AJob
    <2> HIDE DEF j
    <2>3. Fits(p, j)
      <3> HIDE DEF st
      <3> QED
        BY <1>1, <1>2, <2>1, <2>2 DEF Fits, Closing
    <2>4. Moves(p) /\ job'[p] = j
      BY <1>5, <2>2, <2>3, MovesIs
    <2>5. Calm(p)
      BY <1>1, <2>1, <2>2, <2>4 DEF Calm, Closing
    <2>6. QED
      BY <1>1, <1>3, <2>4, <2>5, FilesKept
  <1>6. QED
    BY <1>1, <1>4, <1>5 DEF Loads

LEMMA ViewIs ==
  ASSUME TypeInv
  PROVE  View \in Views
  <1>1. [s \in Slugs |-> dir[s].st] \in [Slugs -> State \cup {Nothing}]
    BY StoredIs DEF Directory
  <1>2. meta \in Meta
    BY DEF TypeInv
  <1>3. meta.roster \subseteq Slugs /\ meta.closed \subseteq Slugs /\ meta.waved \subseteq Slugs
    BY <1>2 DEF Meta
  <1>4. QED
    BY <1>1, <1>3 DEF View, Views

LEMMA FoldsIs ==
  ASSUME TypeInv, NEW p \in Actors, Folds(p)
  PROVE  TypeInv' /\ Calm(p)
  <1> DEFINE j == [job[p] EXCEPT !.at = "swap", !.view = View, !.zones = hub.zones]
  <1>1. /\ job[p].at = "fold" /\ UNCHANGED <<dir, archive, meta, hub, bounds, mixed>>
        /\ job[p] \in AJob /\ Fits(p, job[p])
    BY JobAt DEF Folds, At
  <1>2. /\ job[p].run = Nothing /\ job[p].heir = Nothing /\ ~Closing(job[p])
        /\ p \in Runs => job[p].do = "run"
    BY <1>1 DEF Fits, Closing
  <1>3. Bounded(bounds') /\ hub' \in Hub
    BY <1>1 DEF TypeInv, Bounded
  <1>4. CASE Return(p)
    <2>1. /\ Moves(p) /\ job'[p].at = "idle" /\ job'[p].heir = Nothing /\ job'[p].run = Nothing
          /\ p \in Runs => job'[p].do = "run"
      BY <1>4, ReturnIs
    <2>2. Calm(p)
      BY <1>1, <1>2, <2>1 DEF Calm, Closing
    <2>3. QED
      BY <1>1, <1>3, <2>1, <2>2, FilesKept
  <1>5. CASE /\ BaseZones \subseteq hub.zones
             /\ job' = [job EXCEPT ![p] = j]
    <2>1. hub.zones \in SUBSET Zones /\ View \in Views
      BY ViewIs DEF TypeInv, Hub
    <2>2. /\ j \in AJob /\ j.at = "swap" /\ j.zones = hub.zones /\ j.do = job[p].do
          /\ j.slug = job[p].slug /\ j.heir = job[p].heir /\ j.run = job[p].run
      BY <1>1, <2>1 DEF AJob
    <2> HIDE DEF j
    <2>3. Fits(p, j) /\ ~Closing(j)
      BY <1>1, <1>2, <1>5, <2>2 DEF Fits, Closing
    <2>4. Moves(p) /\ job'[p] = j
      BY <1>5, <2>2, <2>3, MovesIs
    <2>5. Calm(p)
      BY <1>1, <1>2, <2>2, <2>3, <2>4 DEF Calm
    <2>6. QED
      BY <1>1, <1>3, <2>4, <2>5, FilesKept
  <1>6. QED
    BY <1>4, <1>5 DEF Folds, BaseZones, TypeInv

(* The page is written by a render, by init or by migrate.                 *)
LEMMA PageWrites ==
  ASSUME TypeInv, NEW p \in Actors, Swaps(p) \/ Scaffolds(p) \/ Wires(p)
  PROVE  TypeInv' /\ Calm(p) /\ BaseZones \subseteq hub'.zones
  <1>1. /\ job[p].at \in {"swap", "scaffold", "wire"} /\ Return(p)
        /\ UNCHANGED <<dir, archive, meta, bounds, mixed>>
        /\ job[p] \in AJob /\ Fits(p, job[p])
    BY JobAt DEF Swaps, Scaffolds, Wires, At
  <1>2. /\ job[p].run = Nothing /\ job[p].heir = Nothing /\ ~Closing(job[p])
        /\ p \in Runs => job[p].do = "run"
    BY <1>1 DEF Fits, Closing
  <1>3. /\ Moves(p) /\ job'[p].at = "idle" /\ job'[p].heir = Nothing /\ job'[p].run = Nothing
        /\ p \in Runs => job'[p].do = "run"
    BY <1>1, ReturnIs
  <1>4. Calm(p)
    BY <1>1, <1>2, <1>3 DEF Calm, Closing
  <1>5. \E z \in SUBSET Zones, v \in Views \cup {Nothing} :
           hub' = [there |-> TRUE, zones |-> z, view |-> v] /\ BaseZones \subseteq z
    <2>1. BaseZones \subseteq Zones
      BY DEF BaseZones
    <2>2. CASE Swaps(p)
      <3>1. /\ job[p].zones \in SUBSET Zones /\ job[p].view \in Views \cup {Nothing}
            /\ BaseZones \subseteq job[p].zones
        BY <1>1, <2>2, JobAt DEF Swaps, At, Fits
      <3>2. QED
        BY <2>2, <3>1 DEF Swaps
    <2>3. CASE Scaffolds(p)
      BY <2>1, <2>3 DEF Scaffolds
    <2>4. CASE Wires(p)
      <3>1. job[p].view \in Views \cup {Nothing}
        BY JobAt
      <3>2. QED
        BY <2>1, <2>4, <3>1 DEF Wires
    <2>5. QED
      BY <2>2, <2>3, <2>4
  <1>6. hub' \in Hub /\ BaseZones \subseteq hub'.zones
    BY <1>5 DEF Hub
  <1>7. Bounded(bounds')
    BY <1>1 DEF TypeInv, Bounded
  <1>8. QED
    BY <1>1, <1>3, <1>4, <1>6, <1>7, FilesKept

(* An operator takes up a command.                                         *)
Enters(p) ==
    /\ p \in Operators /\ p \notin Runs /\ job[p].at = "idle"
    /\ job[p].heir = Nothing /\ job[p].run = Nothing /\ ~Closing(job[p])
    /\ Moves(p) /\ UNCHANGED <<dir, archive, meta>> /\ bounds'.faults = bounds.faults

LEMMA EntersIs ==
  ASSUME TypeInv, NEW p \in Operators, NEW j \in AJob, Begins(p, j), Fits(p, j),
         UNCHANGED <<dir, archive, meta, hub>>
  PROVE  TypeInv' /\ Enters(p) /\ job'[p] = j
  <1>1. p \in Actors
    BY DEF Actors
  <1>2. hub' \in Hub
    BY DEF TypeInv
  <1>3. Enters(p) /\ job'[p] = j /\ Bounded(bounds')
    BY <1>1, BeginsIs DEF Enters, Bounded
  <1>4. QED
    BY <1>1, <1>2, <1>3, FilesKept DEF Enters

(* A hook or a seed that is about to append an event, and no more.         *)
LEMMA HookTellsIs ==
  ASSUME TypeInv, NEW p \in Operators, NEW s \in Slugs, HookTells(p, s)
  PROVE  /\ TypeInv' /\ Enters(p) /\ meta.on /\ mixed' = mixed
         /\ job'[p].at = "event" /\ job'[p].slug = s /\ job'[p].st.status = Stored(s).status
         /\ job'[p].heir = Nothing /\ job'[p].run = Nothing /\ ~Closing(job'[p])
  <1>1. p \notin Runs
    BY FleetAssumption
  <1> DEFINE j0 == Job("hook", "event", s)
  <1>2. PICK g \in Stages : Begins(p, [j0 EXCEPT !.st = [Stored(s) EXCEPT !.stage = g], !.render = TRUE])
    BY DEF HookTells
  <1> DEFINE st == [Stored(s) EXCEPT !.stage = g]
  <1>3. st \in State /\ st.status = Stored(s).status
    <2>1. Stored(s) \in State /\ g \in Command
      BY StoredIs, NextsAre
    <2>2. QED
      BY <2>1 DEF State
  <1>4. /\ j0 \in AJob /\ j0.do = "hook" /\ j0.at = "event" /\ j0.slug = s /\ j0.heir = Nothing
        /\ j0.run = Nothing
    BY JobsAre, NamesAre
  <1> HIDE DEF j0, st
  <1> DEFINE j == [j0 EXCEPT !.st = st, !.render = TRUE]
  <1>5. /\ j \in AJob /\ j.do = "hook" /\ j.at = "event" /\ j.slug = s /\ j.heir = Nothing
        /\ j.run = Nothing /\ j.st = st
    BY <1>3, <1>4 DEF AJob
  <1>6. Begins(p, j)
    BY <1>2 DEF st
  <1> HIDE DEF j
  <1>7. Fits(p, j) /\ ~Closing(j)
    BY <1>1, <1>3, <1>5 DEF Fits, Closing
  <1>8. UNCHANGED <<dir, archive, meta, hub, mixed>> /\ meta.on
    BY DEF HookTells, Active
  <1>9. QED
    BY <1>3, <1>5, <1>6, <1>7, <1>8, EntersIs

LEMMA InitStartsIs ==
  ASSUME TypeInv, NEW p \in Operators, InitStarts(p)
  PROVE  /\ TypeInv' /\ Enters(p) /\ ~meta.on /\ mixed' = mixed
         /\ job'[p].at = "opt" /\ job'[p].heir = Nothing /\ job'[p].run = Nothing
         /\ ~Closing(job'[p])
  <1>1. p \notin Runs
    BY FleetAssumption
  <1> DEFINE j0 == Job("init", "opt", Nothing)
  <1>2. PICK k \in BOOLEAN : Begins(p, [j0 EXCEPT !.keep = k])
    BY DEF InitStarts
  <1>3. /\ j0 \in AJob /\ j0.do = "init" /\ j0.at = "opt" /\ j0.heir = Nothing /\ j0.run = Nothing
    BY JobsAre, NamesAre
  <1> HIDE DEF j0
  <1> DEFINE j == [j0 EXCEPT !.keep = k]
  <1>4. j \in AJob /\ j.do = "init" /\ j.at = "opt" /\ j.heir = Nothing /\ j.run = Nothing
    BY <1>3 DEF AJob
  <1>5. Begins(p, j)
    BY <1>2
  <1> HIDE DEF j
  <1>6. Fits(p, j) /\ ~Closing(j)
    BY <1>1, <1>4 DEF Fits, Closing
  <1>7. UNCHANGED <<dir, archive, meta, hub, mixed>> /\ ~meta.on
    BY DEF InitStarts
  <1>8. QED
    BY <1>4, <1>5, <1>6, <1>7, EntersIs

(* A seed that writes only the state, or only the event, is noted.         *)
LEMMA SeedStartsIs ==
  ASSUME TypeInv, NEW p \in Operators, NEW s \in Slugs, SeedStarts(p, s)
  PROVE  /\ TypeInv' /\ Enters(p) /\ meta.on /\ mixed' \in {mixed, mixed \cup {s}}
         /\ job'[p].at \in {"sow", "event"} /\ job'[p].slug = s
         /\ job'[p].at = "event" \/ ~job'[p].keep => s \in mixed'
         /\ job'[p].heir = Nothing /\ job'[p].run = Nothing /\ ~Closing(job'[p])
  <1>1. p \notin Runs
    BY FleetAssumption
  <1> DEFINE sown == [stage |-> "qa", status |-> "ready", next |-> Bare("plan"), directive |-> FALSE]
             job0(a) == Job("seed", a, s)
  <1>2. PICK force \in BOOLEAN, k \in BOOLEAN :
          LET writes == dir[s].st = Nothing \/ force IN
          /\ Begins(p, [job0(IF writes THEN "sow" ELSE "event") EXCEPT !.st = sown, !.keep = k])
          /\ mixed' = IF writes /\ k THEN mixed ELSE mixed \cup {s}
    BY DEF SeedStarts
  <1>3. PICK a \in {"sow", "event"} :
          /\ Begins(p, [job0(a) EXCEPT !.st = sown, !.keep = k])
          /\ mixed' = IF a = "sow" /\ k THEN mixed ELSE mixed \cup {s}
    <2>1. CASE dir[s].st = Nothing \/ force
      BY <1>2, <2>1
    <2>2. CASE ~(dir[s].st = Nothing \/ force)
      BY <1>2, <2>2
    <2>3. QED
      BY <2>1, <2>2
  <1>4. sown \in State
    BY StatesAre, NextsAre DEF Command, Status
  <1> DEFINE j0 == job0(a)
  <1>5. /\ j0 \in AJob /\ j0.do = "seed" /\ j0.at = a /\ j0.slug = s /\ j0.heir = Nothing
        /\ j0.run = Nothing
    BY JobsAre, NamesAre
  <1> DEFINE j == [j0 EXCEPT !.st = sown, !.keep = k]
  <1>6. Begins(p, j)
    BY <1>3
  <1> HIDE DEF j0, sown, job0
  <1>7. /\ j \in AJob /\ j.do = "seed" /\ j.at = a /\ j.slug = s /\ j.heir = Nothing
        /\ j.run = Nothing /\ j.st \in State /\ (j.keep <=> k)
    BY <1>4, <1>5 DEF AJob
  <1> HIDE DEF j
  <1>8. Fits(p, j) /\ ~Closing(j)
    BY <1>1, <1>7 DEF Fits, Closing
  <1>9. UNCHANGED <<dir, archive, meta, hub>> /\ meta.on
    BY DEF SeedStarts
  <1>10. TypeInv' /\ Enters(p) /\ job'[p] = j
    BY <1>6, <1>7, <1>8, <1>9, EntersIs
  <1>11. /\ mixed' \in {mixed, mixed \cup {s}}
         /\ a = "event" \/ ~k => s \in mixed'
    BY <1>3
  <1>12. QED
    BY <1>7, <1>8, <1>9, <1>10, <1>11

LEMMA CloseStartsIs ==
  ASSUME TypeInv, NEW p \in Operators, NEW s \in Slugs, CloseStarts(p, s)
  PROVE  /\ TypeInv' /\ Enters(p) /\ meta.on
         /\ job'[p].at \in {"load", "meta"} /\ job'[p].meta = meta /\ job'[p].run = Nothing
         /\ job'[p].heir # Nothing => Fresh(job'[p].heir)
         /\ mixed' = IF \E q \in Actors \ {p} : At(q, "archive") /\ job[q].slug = job'[p].heir
                     THEN mixed \cup {"meta"} ELSE mixed
  <1>1. p \notin Runs
    BY FleetAssumption
  <1> DEFINE job0(a) == Job("close", a, s)
  <1>2. PICK k \in BOOLEAN, h \in {Nothing} \cup {x \in Slugs : Fresh(x)} :
          /\ Begins(p, [job0(IF dir[s].there /\ Stored(s).status # "closed" THEN "load" ELSE "meta")
                         EXCEPT !.edit = CloseEdit, !.keep = k, !.heir = h, !.meta = meta])
          /\ mixed' = IF OthersOn(p, h, {"archive"}) THEN mixed \cup {"meta"} ELSE mixed
    BY DEF CloseStarts, CloseEdit
  <1>3. PICK a \in {"load", "meta"} :
          Begins(p, [job0(a) EXCEPT !.edit = CloseEdit, !.keep = k, !.heir = h, !.meta = meta])
    BY <1>2
  <1> DEFINE j0 == job0(a)
  <1>4. /\ j0 \in AJob /\ j0.do = "close" /\ j0.at = a /\ j0.slug = s /\ j0.heir = Nothing
        /\ j0.run = Nothing
    BY JobsAre, NamesAre
  <1> DEFINE j == [j0 EXCEPT !.edit = CloseEdit, !.keep = k, !.heir = h, !.meta = meta]
  <1>5. Begins(p, j)
    BY <1>3
  <1> HIDE DEF j0, job0
  <1>6. /\ meta \in Meta /\ CloseEdit \in AllEdits /\ h \in Slugs \cup {Nothing}
        /\ h # Nothing => Fresh(h)
    BY DEF TypeInv, AllEdits
  <1>7. /\ j \in AJob /\ j.do = "close" /\ j.at = a /\ j.slug = s /\ j.heir = h
        /\ j.run = Nothing /\ j.edit = CloseEdit /\ j.meta = meta
    BY <1>4, <1>6 DEF AJob
  <1> HIDE DEF j
  <1>8. /\ UNCHANGED <<dir, archive, meta, hub>> /\ meta.on
        /\ dir[s].there \/ s \in meta.roster
    BY DEF CloseStarts
  <1>9. h # s \/ h = Nothing
    BY <1>6, <1>8 DEF Fresh
  <1>10. Fits(p, j)
    <2>1. CASE a = "load"
      BY <1>1, <1>6, <1>7, <1>8, <1>9, <2>1 DEF Fits, Closing
    <2>2. CASE a = "meta"
      BY <1>1, <1>6, <1>7, <1>8, <1>9, <2>2 DEF Fits, Closing
    <2>3. QED
      BY <2>1, <2>2
  <1>11. TypeInv' /\ Enters(p) /\ job'[p] = j
    BY <1>5, <1>7, <1>8, <1>10, EntersIs
  <1>12. mixed' = IF \E q \in Actors \ {p} : At(q, "archive") /\ job[q].slug = job'[p].heir
                  THEN mixed \cup {"meta"} ELSE mixed
    BY <1>2, <1>7, <1>11 DEF OthersOn, At
  <1>13. QED
    BY <1>6, <1>7, <1>8, <1>11, <1>12

LEMMA SpawnsIs ==
  ASSUME TypeInv, NEW p \in Operators, NEW s \in Slugs, SpawnStarts(p, s) \/ ResumeStarts(p, s)
  PROVE  /\ TypeInv' /\ Enters(p) /\ meta.on /\ BelowCap
         /\ job'[p].at = "launch" /\ job'[p].run \in Runs /\ Unused(job'[p].run)
         /\ job'[p].heir = Nothing /\ ~Closing(job'[p])
         /\ mixed' = IF \E q \in Actors \ {p} : job[q].at \in {"launch", "row"}
                     THEN mixed \cup {"cap"} ELSE mixed
  <1>1. p \notin Runs
    BY FleetAssumption
  <1>2. PICK x \in {"spawn", "resume"}, r \in Runs :
          Unused(r) /\ Begins(p, [Job(x, "launch", s) EXCEPT !.run = r])
    BY DEF SpawnStarts, ResumeStarts
  <1> DEFINE j0 == Job(x, "launch", s)
             j == [j0 EXCEPT !.run = r]
  <1>3. /\ j0 \in AJob /\ j0.do = x /\ j0.at = "launch" /\ j0.slug = s /\ j0.heir = Nothing
    BY JobsAre, NamesAre
  <1>4. Begins(p, j)
    BY <1>2
  <1> HIDE DEF j0
  <1>5. /\ j \in AJob /\ j.do = x /\ j.at = "launch" /\ j.slug = s /\ j.heir = Nothing /\ j.run = r
    BY <1>3 DEF AJob
  <1> HIDE DEF j
  <1>6. r # Nothing
    BY FleetAssumption
  <1>7. Fits(p, j) /\ ~Closing(j)
    BY <1>1, <1>5, <1>6 DEF Fits, Closing
  <1>8. UNCHANGED <<dir, archive, meta, hub>> /\ meta.on /\ BelowCap /\ CountedTogether(p)
    BY DEF SpawnStarts, ResumeStarts
  <1>9. TypeInv' /\ Enters(p) /\ job'[p] = j
    BY <1>4, <1>5, <1>7, <1>8, EntersIs
  <1>10. QED
    BY <1>2, <1>5, <1>7, <1>8, <1>9 DEF CountedTogether, OthersAt

(* One plan's directory becomes d.                                         *)
Wrote(s, d) ==
    /\ d \in Directory /\ dir' \in [Slugs -> Directory]
    /\ dir'[s] = d /\ \A t \in Slugs \ {s} : dir'[t] = dir[t]

LEMMA WroteIs ==
  ASSUME TypeInv, NEW s \in Slugs, NEW d \in Directory, dir' = [dir EXCEPT ![s] = d]
  PROVE  Wrote(s, d)
  BY DEF TypeInv, Wrote

LEMMA DirTypesKept ==
  ASSUME TypeInv, NEW p \in Actors, NEW s \in Slugs, NEW d \in Directory, Moves(p),
         Bounded(bounds'), UNCHANGED <<archive, meta, hub>>, Wrote(s, d), d.there
  PROVE  TypeInv'
  <1>1. \A t \in Slugs : Whole(dir'[t]) /\ Whole(archive'[t])
    BY DEF TypeInv, Wrote, Whole
  <1>2. meta' \in Meta /\ hub' \in Hub /\ archive' \in [Slugs -> Directory]
    BY DEF TypeInv
  <1>3. QED
    BY <1>1, <1>2, TypesKept DEF Wrote

LEMMA StateIsSet ==
  ASSUME TypeInv, NEW s \in Slugs, NEW x \in State,
         dir' = [dir EXCEPT ![s].there = TRUE, ![s].st = x]
  PROVE  \E d \in Directory : /\ Wrote(s, d) /\ d.there /\ d.st = x
                              /\ d.log = dir[s].log /\ d.rows = dir[s].rows
  <1> DEFINE d == [dir[s] EXCEPT !.there = TRUE, !.st = x]
  <1>1. dir[s] \in Directory
    BY StoredIs
  <1>2. d \in Directory /\ d.there /\ d.st = x /\ d.log = dir[s].log /\ d.rows = dir[s].rows
    BY <1>1 DEF Directory
  <1>3. dir' = [dir EXCEPT ![s] = d]
    BY DEF TypeInv
  <1> HIDE DEF d
  <1>4. QED
    BY <1>2, <1>3, WroteIs

LEMMA SavesIs ==
  ASSUME TypeInv, NEW p \in Actors, Saves(p)
  PROVE  \E s \in Slugs, d \in Directory :
         /\ TypeInv' /\ Moves(p) /\ UNCHANGED <<archive, meta, hub, bounds>>
         /\ s = job[p].slug /\ job[p].at = "save" /\ job[p].st \in State
         /\ job'[p] = [job[p] EXCEPT !.at = "event"]
         /\ Wrote(s, d) /\ d.there /\ d.st = job[p].st /\ d.log = dir[s].log /\ d.rows = dir[s].rows
         /\ mixed' = IF \E q \in Actors \ {p} : job[q].at \in {"save", "event"} /\ job[q].slug = s
                     THEN mixed \cup {s} ELSE mixed
  <1> DEFINE s == job[p].slug
             j == [job[p] EXCEPT !.at = "event"]
  <1>1. /\ job[p] \in AJob /\ Fits(p, job[p]) /\ job[p].at = "save" /\ Goto(p, "event")
        /\ UNCHANGED <<archive, meta, hub, bounds>>
    BY JobAt DEF Saves, At
  <1>2. s \in Slugs /\ job[p].st \in State /\ p \notin Runs
    BY <1>1 DEF Fits
  <1>3. /\ j.at = "event" /\ j.do = job[p].do /\ j.slug = s /\ j.st = job[p].st
        /\ j.meta = job[p].meta /\ j.heir = job[p].heir /\ j.run = job[p].run
    BY <1>1 DEF AJob
  <1>4. Fits(p, j)
    <2> HIDE DEF j
    <2> QED
      BY <1>1, <1>2, <1>3 DEF Fits, Closing
  <1>5. Moves(p) /\ job'[p] = j
    BY <1>1, <1>4, GotoIs, NamesAre
  <1>6. dir' = [dir EXCEPT ![s].there = TRUE, ![s].st = job[p].st]
    BY DEF Saves
  <1>7. PICK d \in Directory : /\ Wrote(s, d) /\ d.there /\ d.st = job[p].st
                               /\ d.log = dir[s].log /\ d.rows = dir[s].rows
    BY <1>2, <1>6, StateIsSet
  <1>8. Bounded(bounds')
    BY <1>1 DEF TypeInv, Bounded
  <1>9. mixed' = IF \E q \in Actors \ {p} : job[q].at \in {"save", "event"} /\ job[q].slug = s
                 THEN mixed \cup {s} ELSE mixed
    BY DEF Saves, OthersOn
  <1>10. TypeInv'
    BY <1>1, <1>2, <1>5, <1>7, <1>8, DirTypesKept
  <1>11. QED
    BY <1>1, <1>2, <1>5, <1>7, <1>9, <1>10

LEMMA SowsIs ==
  ASSUME TypeInv, NEW p \in Actors, Sows(p)
  PROVE  \E s \in Slugs, d \in Directory :
         /\ TypeInv' /\ Moves(p) /\ UNCHANGED <<archive, meta, hub, bounds>>
         /\ s = job[p].slug /\ job[p].at = "sow" /\ job[p].st \in State /\ ~Closing(job[p])
         /\ p \notin Runs /\ job[p].run = Nothing /\ job[p].heir = Nothing
         /\ \/ job[p].keep /\ job'[p] = [job[p] EXCEPT !.at = "event"]
            \/ ~job[p].keep /\ job'[p].at = "idle"
         /\ job'[p].run = Nothing /\ ~Closing(job'[p])
         /\ Wrote(s, d) /\ d.there /\ d.st = job[p].st /\ d.log = dir[s].log /\ d.rows = dir[s].rows
         /\ mixed' = IF \E q \in Actors \ {p} : job[q].at \in {"save", "event"} /\ job[q].slug = s
                     THEN mixed \cup {s} ELSE mixed
  <1> DEFINE s == job[p].slug
             j == [job[p] EXCEPT !.at = "event"]
  <1>1. /\ job[p] \in AJob /\ Fits(p, job[p]) /\ job[p].at = "sow"
        /\ \/ job[p].keep /\ Goto(p, "event")
           \/ ~job[p].keep /\ Return(p)
        /\ UNCHANGED <<archive, meta, hub, bounds>>
    BY JobAt DEF Sows, At
  <1>2. /\ s \in Slugs /\ job[p].st \in State /\ p \notin Runs /\ job[p].do = "seed"
        /\ ~Closing(job[p]) /\ job[p].heir = Nothing /\ job[p].run = Nothing
    BY <1>1 DEF Fits, Closing
  <1>3. /\ j.at = "event" /\ j.do = job[p].do /\ j.slug = s /\ j.st = job[p].st
        /\ j.meta = job[p].meta /\ j.heir = job[p].heir /\ j.run = job[p].run
    BY <1>1 DEF AJob
  <1>4. Fits(p, j) /\ ~Closing(j)
    <2> HIDE DEF j
    <2> QED
      BY <1>1, <1>2, <1>3 DEF Fits, Closing
  <1>6. /\ Moves(p) /\ job'[p].run = Nothing /\ ~Closing(job'[p])
        /\ \/ job[p].keep /\ job'[p] = j
           \/ ~job[p].keep /\ job'[p].at = "idle"
    <2>1. CASE job[p].keep /\ Goto(p, "event")
      <3>1. Moves(p) /\ job'[p] = j
        BY <1>1, <1>4, <2>1, GotoIs, NamesAre
      <3>2. QED
        BY <1>2, <1>3, <1>4, <2>1, <3>1
    <2>2. CASE ~job[p].keep /\ Return(p)
      BY <2>2, ReturnIs DEF Closing
    <2>3. QED
      BY <1>1, <2>1, <2>2
  <1>7. dir' = [dir EXCEPT ![s].there = TRUE, ![s].st = job[p].st]
    BY DEF Sows
  <1>8. PICK d \in Directory : /\ Wrote(s, d) /\ d.there /\ d.st = job[p].st
                               /\ d.log = dir[s].log /\ d.rows = dir[s].rows
    BY <1>2, <1>7, StateIsSet
  <1>9. Bounded(bounds')
    BY <1>1 DEF TypeInv, Bounded
  <1>10. mixed' = IF \E q \in Actors \ {p} : job[q].at \in {"save", "event"} /\ job[q].slug = s
                  THEN mixed \cup {s} ELSE mixed
    BY DEF Sows, OthersOn
  <1>11. TypeInv'
    BY <1>1, <1>2, <1>6, <1>8, <1>9, DirTypesKept
  <1>12. QED
    BY <1>1, <1>2, <1>6, <1>8, <1>10, <1>11

LEMMA TellsIs ==
  ASSUME TypeInv, NEW p \in Actors, Tells(p)
  PROVE  \E s \in Slugs, d \in Directory, e \in Event :
         /\ TypeInv' /\ Moves(p) /\ UNCHANGED <<archive, meta, hub, bounds, mixed>>
         /\ s = job[p].slug /\ job[p].at = "event" /\ e.status = job[p].st.status /\ p \notin Runs
         /\ Wrote(s, d) /\ d.there /\ d.st = dir[s].st /\ d.log = Append(dir[s].log, e)
         /\ d.rows = dir[s].rows
         /\ job'[p].at \in {"idle", "fold", "meta"} /\ job'[p].heir = job[p].heir
         /\ job[p].run = Nothing /\ job'[p].run = Nothing
         /\ Closing(job'[p]) => Closing(job[p]) /\ job'[p].meta = job[p].meta
  <1> DEFINE s == job[p].slug
             e == [stage |-> job[p].st.stage, status |-> job[p].st.status]
             d == [dir[s] EXCEPT !.there = TRUE, !.log = Append(dir[s].log, e)]
  <1>1. /\ job[p] \in AJob /\ Fits(p, job[p]) /\ job[p].at = "event"
        /\ UNCHANGED <<archive, meta, hub, bounds, mixed>>
    BY JobAt DEF Tells, At
  <1>2. /\ s \in Slugs /\ job[p].st \in State /\ p \notin Runs /\ job[p].run = Nothing
    BY <1>1 DEF Fits
  <1>3. e \in Event /\ e.status = job[p].st.status
    BY <1>2 DEF State, Event
  <1>4. dir[s] \in Directory
    BY <1>2, StoredIs
  <1>5. Append(dir[s].log, e) \in Seq(Event)
    <2> HIDE DEF e, s
    <2> QED
      BY <1>3, <1>4 DEF Directory
  <1>11. /\ d \in Directory /\ d.there /\ d.st = dir[s].st /\ d.log = Append(dir[s].log, e)
         /\ d.rows = dir[s].rows
    <2> HIDE DEF e, s
    <2> QED
      BY <1>4, <1>5 DEF Directory
  <1>6. dir' = [dir EXCEPT ![s] = d]
    <2>1. dir' = [dir EXCEPT ![s].there = TRUE, ![s].log = Append(@, e)]
      BY DEF Tells
    <2> HIDE DEF e, s
    <2> QED
      BY <1>2, <1>4, <2>1 DEF TypeInv, Directory
  <1>7. Wrote(s, d)
    BY <1>2, <1>6, <1>11, WroteIs
  <1>8. /\ Moves(p) /\ job'[p].at \in {"idle", "fold", "meta"} /\ job'[p].heir = job[p].heir
        /\ job'[p].run = Nothing
        /\ Closing(job'[p]) => Closing(job[p]) /\ job'[p].meta = job[p].meta
    <2>1. CASE AfterUpdate(job[p]) = "idle" /\ Return(p)
      <3>1. job[p].do # "close"
        BY <2>1 DEF AfterUpdate
      <3>2. job[p].heir = Nothing
        BY <1>1, <3>1 DEF Fits, Closing
      <3>3. QED
        BY <2>1, <3>2, ReturnIs DEF Closing
    <2>2. CASE AfterUpdate(job[p]) # "idle" /\ Goto(p, AfterUpdate(job[p]))
      <3> DEFINE a == AfterUpdate(job[p])
                 j == [job[p] EXCEPT !.at = a]
      <3>1. a \in {"fold", "meta"} /\ (a = "meta" <=> job[p].do = "close")
        BY <2>2 DEF AfterUpdate
      <3> HIDE DEF a
      <3>2. /\ j.at = a /\ j.do = job[p].do /\ j.slug = s /\ j.meta = job[p].meta
            /\ j.heir = job[p].heir /\ j.run = job[p].run
        BY <1>1, <3>1 DEF AJob
      <3> HIDE DEF j
      <3>3. Fits(p, j) /\ (Closing(j) => Closing(job[p]))
        BY <1>1, <1>2, <3>1, <3>2 DEF Fits, Closing
      <3>4. a \in Ats
        BY <3>1, NamesAre
      <3>5. Moves(p) /\ job'[p] = j
        BY <2>2, <3>3, <3>4, GotoIs DEF a, j
      <3>6. QED
        BY <1>2, <3>1, <3>2, <3>3, <3>5
    <2>3. QED
      BY <2>1, <2>2 DEF Tells
  <1>9. Bounded(bounds')
    BY <1>1 DEF TypeInv, Bounded
  <1>10. TypeInv'
    BY <1>1, <1>2, <1>7, <1>8, <1>9, <1>11, DirTypesKept
  <1> HIDE DEF d, e
  <1>12. QED
    BY <1>1, <1>2, <1>3, <1>7, <1>8, <1>10, <1>11

LEMMA OptsInIs ==
  ASSUME TypeInv, NEW p \in Actors, OptsIn(p)
  PROVE  /\ TypeInv' /\ Moves(p) /\ UNCHANGED <<dir, archive, hub, bounds, mixed>>
         /\ meta'.on /\ meta'.roster = {} /\ meta'.closed = {}
         /\ p \notin Runs /\ job[p].at = "opt" /\ job[p].heir = Nothing /\ ~Closing(job[p])
         /\ job'[p].at \in {"idle", "scaffold"} /\ job'[p].heir = Nothing
         /\ job[p].run = Nothing /\ job'[p].run = Nothing
  <1>1. /\ job[p] \in AJob /\ Fits(p, job[p]) /\ job[p].at = "opt"
        /\ UNCHANGED <<dir, archive, hub, bounds, mixed>>
        /\ meta' = [on |-> TRUE, roster |-> {}, closed |-> {}, waved |-> {}]
        /\ Return(p) \/ Goto(p, "scaffold")
    BY JobAt DEF OptsIn, At
  <1>2. /\ job[p].heir = Nothing /\ job[p].run = Nothing /\ ~Closing(job[p]) /\ p \notin Runs
        /\ job[p].do = "init"
    BY <1>1 DEF Fits, Closing
  <1>3. meta' \in Meta /\ meta'.on /\ meta'.roster = {} /\ meta'.closed = {}
    BY <1>1 DEF Meta
  <1>4. /\ Moves(p) /\ job'[p].at \in {"idle", "scaffold"} /\ job'[p].heir = Nothing
        /\ job'[p].run = Nothing
    <2>1. CASE Return(p)
      BY <2>1, ReturnIs
    <2>2. CASE Goto(p, "scaffold")
      <3> DEFINE j == [job[p] EXCEPT !.at = "scaffold"]
      <3>1. j.at = "scaffold" /\ j.do = job[p].do /\ j.heir = job[p].heir /\ j.run = job[p].run
        BY <1>1 DEF AJob
      <3> HIDE DEF j
      <3>2. Fits(p, j)
        BY <1>2, <3>1 DEF Fits, Closing
      <3>3. Moves(p) /\ job'[p] = j
        BY <2>2, <3>2, GotoIs, NamesAre DEF j
      <3>4. QED
        BY <1>2, <3>1, <3>3
    <2>3. QED
      BY <1>1, <2>1, <2>2
  <1>5. Bounded(bounds')
    BY <1>1 DEF TypeInv, Bounded
  <1>6. hub' \in Hub /\ dir' \in [Slugs -> Directory] /\ archive' \in [Slugs -> Directory]
        /\ \A s \in Slugs : Whole(dir'[s]) /\ Whole(archive'[s])
    BY <1>1 DEF TypeInv, Whole
  <1>7. TypeInv'
    BY <1>3, <1>4, <1>5, <1>6, TypesKept
  <1>8. QED
    BY <1>1, <1>2, <1>3, <1>4, <1>7

LEMMA SavesMetaIs ==
  ASSUME TypeInv, NEW p \in Actors, SavesMeta(p)
  PROVE  /\ TypeInv' /\ Moves(p) /\ UNCHANGED <<dir, archive, hub, bounds>>
         /\ p \in Operators /\ p \notin Runs /\ job[p].slug \in Slugs /\ job[p].at = "meta"
         /\ Closing(job[p]) /\ job[p].heir # job[p].slug
         /\ job'[p] = [job[p] EXCEPT !.at = "archive"] /\ job'[p].at = "archive"
         /\ job'[p].slug = job[p].slug /\ job'[p].heir = job[p].heir /\ ~Closing(job'[p])
         /\ job[p].run = Nothing /\ job'[p].run = Nothing
         /\ meta'.on
         /\ meta'.roster = (job[p].meta.roster \ {job[p].slug}) \cup ({job[p].heir} \ {Nothing})
         /\ meta'.closed = job[p].meta.closed \cup {job[p].slug}
         /\ mixed' \in {mixed, mixed \cup {"meta"}}
         /\ "meta" \notin mixed' => /\ "meta" \notin mixed
                                    /\ \A q \in Actors \ {p} : ~Closing(job[q]) /\ ~At(q, "opt")
  <1> DEFINE s == job[p].slug
             h == job[p].heir
             m == job[p].meta
             j == [job[p] EXCEPT !.at = "archive"]
  <1>1. /\ job[p] \in AJob /\ Fits(p, job[p]) /\ job[p].at = "meta" /\ Goto(p, "archive")
        /\ UNCHANGED <<dir, archive, hub, bounds>> /\ meta' = Reconciled(job[p])
        /\ Nothing \notin Slugs /\ h \in Slugs \cup {Nothing}
    BY JobAt DEF SavesMeta, At
  <1>2. /\ job[p].do = "close" /\ Closing(job[p]) /\ s \in Slugs /\ p \notin Runs /\ m \in Meta
        /\ m.on /\ job[p].run = Nothing /\ h # s /\ p \in Operators
    BY <1>1 DEF Fits, Closing, Actors
  <1>3. /\ j.at = "archive" /\ j.do = "close" /\ j.slug = s /\ j.heir = h /\ j.run = Nothing
        /\ j.meta = m
    BY <1>1, <1>2 DEF AJob
  <1>4. Fits(p, j) /\ ~Closing(j)
    <2> HIDE DEF j
    <2> QED
      BY <1>1, <1>2, <1>3 DEF Fits, Closing
  <1>5. Moves(p) /\ job'[p] = j
    BY <1>1, <1>4, GotoIs, NamesAre
  <1>6. /\ meta' \in Meta /\ meta'.on
        /\ meta'.roster = (m.roster \ {s}) \cup ({h} \ {Nothing})
        /\ meta'.closed = m.closed \cup {s}
    <2> DEFINE R == (m.roster \ {s}) \cup ({h} \ {Nothing})
               C == m.closed \cup {s}
               W == m.waved \cup ({h} \ {Nothing})
    <2>1. meta' = [m EXCEPT !.roster = R, !.closed = C, !.waved = W]
      BY <1>1 DEF Reconciled
    <2> HIDE DEF s, h, m
    <2>2. R \in SUBSET Slugs /\ C \in SUBSET Slugs /\ W \in SUBSET Slugs
      BY <1>1, <1>2 DEF Meta
    <2> HIDE DEF R, C, W
    <2>3. meta' \in Meta /\ meta'.on /\ meta'.roster = R /\ meta'.closed = C
      BY <1>2, <2>1, <2>2 DEF Meta
    <2>4. QED
      BY <2>3 DEF R, C
  <1>7. /\ mixed' \in {mixed, mixed \cup {"meta"}}
        /\ "meta" \notin mixed' => /\ "meta" \notin mixed
                                   /\ \A q \in Operators \ {p} : ~Closing(job[q]) /\ ~At(q, "opt")
    <2>1. \A q \in Operators : At(q, "opt") => job[q].do = "init"
      BY JobAt DEF Fits, At, Actors
    <2>2. mixed' = IF \E q \in Operators \ {p} :
                          /\ job[q].do \in {"close", "init"}
                          /\ job[q].at \in {"load", "save", "event", "meta", "opt"}
                   THEN mixed \cup {"meta"} ELSE mixed
      BY DEF SavesMeta
    <2>3. QED
      BY <2>1, <2>2 DEF Closing, At
  <1>8. \A q \in Actors : q \notin Operators => ~Closing(job[q]) /\ ~At(q, "opt")
    BY JobAt DEF Fits, Closing, At
  <1>9. Bounded(bounds')
    BY <1>1 DEF TypeInv, Bounded
  <1>10. hub' \in Hub /\ dir' \in [Slugs -> Directory] /\ archive' \in [Slugs -> Directory]
         /\ \A t \in Slugs : Whole(dir'[t]) /\ Whole(archive'[t])
    BY <1>1 DEF TypeInv, Whole
  <1>11. TypeInv'
    BY <1>5, <1>6, <1>9, <1>10, TypesKept
  <1>12. QED
    BY <1>1, <1>2, <1>3, <1>4, <1>5, <1>6, <1>7, <1>8, <1>11

(* A directory moves into its archive: what both had is there.             *)
LEMMA ArchivedIs ==
  ASSUME TypeInv, NEW s \in Slugs, dir[s].there
  PROVE  /\ Archived(s) \in Directory /\ Archived(s).there
         /\ Archived(s).log = archive[s].log \o dir[s].log
         /\ Archived(s).rows = archive[s].rows \o dir[s].rows
  <1>1. dir[s] \in Directory /\ archive[s] \in Directory
    BY StoredIs
  <1>2. /\ dir[s].log \in Seq(Event) /\ archive[s].log \in Seq(Event)
        /\ dir[s].rows \in Seq(RunRow) /\ archive[s].rows \in Seq(RunRow)
    BY <1>1 DEF Directory
  <1>3. CASE archive[s].there
    <2> DEFINE l == archive[s].log \o dir[s].log
               r == archive[s].rows \o dir[s].rows
    <2>1. l \in Seq(Event) /\ r \in Seq(RunRow)
      BY <1>2
    <2>2. Archived(s) = [archive[s] EXCEPT !.log = l, !.rows = r]
      BY <1>3 DEF Archived
    <2> HIDE DEF l, r
    <2>3. /\ Archived(s) \in Directory /\ Archived(s).there /\ Archived(s).log = l
          /\ Archived(s).rows = r
      BY <1>1, <1>3, <2>1, <2>2 DEF Directory
    <2>4. QED
      BY <2>3 DEF l, r
  <1>4. CASE ~archive[s].there
    <2>1. archive[s].log = <<>> /\ archive[s].rows = <<>> /\ Archived(s) = dir[s]
      BY <1>4, StoredIs DEF Empty, Archived
    <2>2. <<>> \o dir[s].log = dir[s].log /\ <<>> \o dir[s].rows = dir[s].rows
      BY <1>2
    <2>3. QED
      BY <1>1, <2>1, <2>2
  <1>5. QED
    BY <1>3, <1>4

(* What a close that reached its archive step does to the plan s.          *)
Moved(s) == /\ archive' = [archive EXCEPT ![s] = Archived(s)] /\ dir' = [dir EXCEPT ![s] = Empty]
            /\ dir[s].there

LEMMA EmptyIs == Empty \in Directory /\ Empty.rows = <<>> /\ Empty.st = Nothing /\ ~Empty.there
  BY DEF Empty, Directory

LEMMA ArchivesIs ==
  ASSUME TypeInv, NEW p \in Actors, Archives(p)
  PROVE  /\ TypeInv' /\ Moves(p) /\ UNCHANGED <<meta, hub, bounds>>
         /\ p \notin Runs /\ job[p].slug \in Slugs /\ job[p].at = "archive" /\ ~Closing(job[p])
         /\ job'[p].at \in {"fold", "mint"} /\ job'[p].heir = job[p].heir
         /\ job[p].run = Nothing /\ job'[p].run = Nothing /\ ~Closing(job'[p])
         /\ \/ UNCHANGED <<dir, archive, mixed>>
            \/ /\ Moved(job[p].slug)
               /\ mixed' = IF Unended(job[p].slug) # {} THEN mixed \cup {"cap"} ELSE mixed
  <1> DEFINE s == job[p].slug
             a == IF job[p].heir = Nothing THEN "fold" ELSE "mint"
             j == [job[p] EXCEPT !.at = a]
  <1>1. /\ job[p] \in AJob /\ Fits(p, job[p]) /\ job[p].at = "archive" /\ Goto(p, a)
        /\ UNCHANGED <<meta, hub, bounds>>
    BY JobAt DEF Archives, At
  <1>2. /\ job[p].do = "close" /\ s \in Slugs /\ p \notin Runs /\ job[p].run = Nothing
        /\ ~Closing(job[p])
    BY <1>1 DEF Fits, Closing
  <1>3. a \in {"fold", "mint"} /\ (a = "mint" <=> job[p].heir # Nothing)
    OBVIOUS
  <1> HIDE DEF a
  <1>4. /\ j.at = a /\ j.do = "close" /\ j.slug = s /\ j.heir = job[p].heir /\ j.run = Nothing
    BY <1>1, <1>2, <1>3 DEF AJob
  <1> HIDE DEF j
  <1>5. Fits(p, j) /\ ~Closing(j)
    BY <1>1, <1>2, <1>3, <1>4 DEF Fits, Closing
  <1>6. a \in Ats
    BY <1>3, NamesAre
  <1>7. Moves(p) /\ job'[p] = j
    BY <1>1, <1>5, <1>6, GotoIs DEF j
  <1>8. Bounded(bounds') /\ meta' \in Meta /\ hub' \in Hub
    BY <1>1 DEF TypeInv, Bounded
  <1>9. \/ UNCHANGED <<dir, archive, mixed>>
        \/ /\ Moved(s) /\ mixed' = IF Unended(s) # {} THEN mixed \cup {"cap"} ELSE mixed
    BY DEF Archives, Moved
  <1>10. /\ dir' \in [Slugs -> Directory] /\ archive' \in [Slugs -> Directory]
         /\ \A t \in Slugs : Whole(dir'[t]) /\ Whole(archive'[t])
    <2>1. CASE UNCHANGED <<dir, archive, mixed>>
      BY <2>1 DEF TypeInv, Whole
    <2>2. CASE Moved(s)
      <3>1. Archived(s) \in Directory /\ Archived(s).there
        BY <1>2, <2>2, ArchivedIs DEF Moved
      <3>2. QED
        BY <1>2, <2>2, <3>1, EmptyIs DEF TypeInv, Moved, Whole
    <2>3. QED
      BY <1>9, <2>1, <2>2
  <1>11. TypeInv'
    BY <1>7, <1>8, <1>10, TypesKept
  <1>12. QED
    BY <1>1, <1>2, <1>3, <1>4, <1>5, <1>7, <1>9, <1>11

LEMMA MintsIs ==
  ASSUME TypeInv, NEW p \in Actors, Mints(p)
  PROVE  \E d \in Directory :
         /\ TypeInv' /\ Moves(p) /\ UNCHANGED <<archive, meta, hub, bounds, mixed>>
         /\ p \notin Runs /\ job[p].at = "mint" /\ job[p].heir \in Slugs /\ ~Closing(job[p])
         /\ Wrote(job[p].heir, d) /\ d.there /\ d.st = dir[job[p].heir].st
         /\ d.log = dir[job[p].heir].log /\ d.rows = dir[job[p].heir].rows
         /\ job'[p].at = "load" /\ job'[p].heir = Nothing /\ ~Closing(job'[p])
         /\ job[p].run = Nothing /\ job'[p].run = Nothing
  <1> DEFINE h == job[p].heir
             d == [dir[h] EXCEPT !.there = TRUE]
             j0 == Job("mint", "load", h)
             j == [j0 EXCEPT !.edit = MintEdit]
  <1>1. /\ job[p] \in AJob /\ Fits(p, job[p]) /\ job[p].at = "mint"
        /\ UNCHANGED <<archive, meta, hub, bounds, mixed>>
        /\ dir' = [dir EXCEPT ![h].there = TRUE] /\ job' = [job EXCEPT ![p] = j]
    BY JobAt DEF Mints, At, MintEdit
  <1>2. h \in Slugs /\ ~Closing(job[p]) /\ p \notin Runs /\ job[p].run = Nothing
    BY <1>1, JobAt DEF Fits, Closing
  <1> HIDE DEF h
  <1>3. j0 \in AJob /\ j0.do = "mint" /\ j0.at = "load" /\ j0.slug = h /\ j0.heir = Nothing
        /\ j0.run = Nothing
    BY <1>2, JobsAre, NamesAre
  <1> HIDE DEF j0
  <1>4. MintEdit \in AllEdits
    BY DEF AllEdits
  <1>5. j \in AJob /\ j.do = "mint" /\ j.at = "load" /\ j.slug = h /\ j.heir = Nothing
        /\ j.run = Nothing
    BY <1>3, <1>4 DEF AJob
  <1> HIDE DEF j
  <1>6. Fits(p, j) /\ ~Closing(j)
    BY <1>2, <1>5 DEF Fits, Closing
  <1>7. Moves(p) /\ job'[p] = j
    BY <1>1, <1>5, <1>6, MovesIs
  <1>8. dir[h] \in Directory
    BY <1>2, StoredIs
  <1>9. d \in Directory /\ d.there /\ d.st = dir[h].st /\ d.log = dir[h].log /\ d.rows = dir[h].rows
    BY <1>8 DEF Directory
  <1>10. dir' = [dir EXCEPT ![h] = d]
    BY <1>1 DEF TypeInv
  <1> HIDE DEF d
  <1>11. Wrote(h, d)
    BY <1>2, <1>9, <1>10, WroteIs
  <1>12. Bounded(bounds')
    BY <1>1 DEF TypeInv, Bounded
  <1>13. TypeInv'
    BY <1>1, <1>2, <1>7, <1>9, <1>11, <1>12, DirTypesKept
  <1>14. QED
    BY <1>1, <1>2, <1>5, <1>6, <1>7, <1>9, <1>11, <1>13 DEF h

(* The runner and the one who launched it move together.                   *)
LEMMA LaunchesIs ==
  ASSUME TypeInv, NEW p \in Actors, Launches(p)
  PROVE  \E r \in Runs :
         /\ TypeInv' /\ UNCHANGED <<dir, archive, meta, hub, bounds, mixed>>
         /\ r = job[p].run /\ p \in Operators /\ p \notin Runs /\ p # r
         /\ job[p].at = "launch" /\ job[p].heir = Nothing /\ ~Closing(job[p])
         /\ \A q \in Actors \ {p, r} : job'[q] = job[q]
         /\ job'[r].at = "work" /\ job'[r].do = "run" /\ job'[r].heir = Nothing
         /\ job'[r].run = Nothing /\ ~Closing(job'[r])
         /\ job'[p].at = "row" /\ job'[p].run = r /\ job'[p].heir = Nothing /\ ~Closing(job'[p])
         /\ job[r].heir = Nothing /\ job[r].run = Nothing
  <1> DEFINE r == job[p].run
             s == job[p].slug
             i == Job("run", "work", s)
             j == [job[p] EXCEPT !.at = "row"]
  <1>1. /\ job[p] \in AJob /\ Fits(p, job[p]) /\ job[p].at = "launch"
        /\ UNCHANGED <<dir, archive, meta, hub, bounds, mixed>>
        /\ job' = [job EXCEPT ![r] = i, ![p].at = "row"]
    BY JobAt DEF Launches, At
  <1>a. /\ job[p].run # Nothing /\ s \in Slugs /\ p \notin Runs /\ job[p].heir = Nothing
        /\ ~Closing(job[p])
    BY <1>1 DEF Fits, Closing
  <1>2. /\ r \in Runs /\ s \in Slugs /\ p \notin Runs /\ p \in Operators /\ p # r
        /\ job[p].heir = Nothing /\ ~Closing(job[p])
    <2>1. r \in Runs
      BY <1>a, JobAt
    <2>2. p \in Operators
      BY <1>a DEF Actors
    <2>3. QED
      BY <1>a, <2>1, <2>2
  <1>3. r \in Actors /\ job[r].heir = Nothing /\ job[r].run = Nothing
    <2>1. r \in Actors
      BY <1>2 DEF Actors
    <2> HIDE DEF r
    <2>2. QED
      BY <1>2, <2>1, JobAt DEF Fits, Closing
  <1>4. /\ i \in AJob /\ i.do = "run" /\ i.at = "work" /\ i.slug = s /\ i.heir = Nothing
        /\ i.run = Nothing
    BY <1>2, JobsAre, NamesAre
  <1>5. /\ j \in AJob /\ j.at = "row" /\ j.do = job[p].do /\ j.slug = s /\ j.heir = job[p].heir
        /\ j.run = r
    BY <1>1 DEF AJob
  <1>6. job' = [job EXCEPT ![r] = i, ![p] = j]
    BY <1>1, <1>2 DEF TypeInv
  <1> HIDE DEF i, j
  <1>7. Fits(r, i) /\ ~Closing(i)
    BY <1>2, <1>4 DEF Fits, Closing
  <1>8. Fits(p, j) /\ ~Closing(j)
    BY <1>1, <1>2, <1>5 DEF Fits, Closing
  <1>9. /\ job'[r] = i /\ job'[p] = j /\ \A q \in Actors \ {p, r} : job'[q] = job[q]
        /\ job' \in [Actors -> AJob]
    BY <1>2, <1>3, <1>4, <1>5, <1>6 DEF TypeInv
  <1>10. \A q \in Actors : Fits(q, job'[q])
    BY <1>7, <1>8, <1>9 DEF TypeInv
  <1>11. TypeInv'
    BY <1>1, <1>9, <1>10 DEF TypeInv
  <1>12. QED
    BY <1>1, <1>2, <1>3, <1>4, <1>5, <1>7, <1>8, <1>9, <1>11

LEMMA RowIsAdded ==
  ASSUME TypeInv, NEW s \in Slugs, NEW x \in RunRow,
         dir' = [dir EXCEPT ![s].there = TRUE, ![s].rows = Append(@, x)]
  PROVE  \E d \in Directory : /\ Wrote(s, d) /\ d.there /\ d.st = dir[s].st
                              /\ d.log = dir[s].log /\ d.rows = Append(dir[s].rows, x)
  <1> DEFINE d == [dir[s] EXCEPT !.there = TRUE, !.rows = Append(dir[s].rows, x)]
  <1>1. dir[s] \in Directory
    BY StoredIs
  <1>2. Append(dir[s].rows, x) \in Seq(RunRow)
    BY <1>1 DEF Directory
  <1>3. d \in Directory /\ d.there /\ d.st = dir[s].st /\ d.log = dir[s].log
        /\ d.rows = Append(dir[s].rows, x)
    BY <1>1, <1>2 DEF Directory
  <1>4. dir' = [dir EXCEPT ![s] = d]
    BY <1>1 DEF TypeInv, Directory
  <1> HIDE DEF d
  <1>5. QED
    BY <1>3, <1>4, WroteIs

LEMMA RecordsIs ==
  ASSUME TypeInv, NEW p \in Actors, Records(p)
  PROVE  \E s \in Slugs, d \in Directory, x \in RunRow :
         /\ TypeInv' /\ Moves(p) /\ UNCHANGED <<archive, meta, hub, bounds, mixed>>
         /\ p \in Operators /\ p \notin Runs /\ job[p].at = "row" /\ job[p].heir = Nothing
         /\ ~Closing(job[p]) /\ x.run = job[p].run /\ ~IsEnd(x)
         /\ Wrote(s, d) /\ d.there /\ d.st = dir[s].st /\ d.log = dir[s].log
         /\ d.rows = Append(dir[s].rows, x)
         /\ job'[p].at = "idle" /\ job'[p].heir = Nothing /\ job'[p].run = Nothing
  <1> DEFINE s == job[p].slug
             x == Row(job[p].run, IF job[p].do = "resume" THEN "resumed" ELSE "spawned",
                      job[p].do = "resume")
  <1>1. /\ job[p] \in AJob /\ Fits(p, job[p]) /\ job[p].at = "row" /\ Return(p)
        /\ UNCHANGED <<archive, meta, hub, bounds, mixed>>
        /\ dir' = [dir EXCEPT ![s].there = TRUE, ![s].rows = Append(@, x)]
    BY JobAt DEF Records, At
  <1>2. /\ s \in Slugs /\ job[p].run \in Runs /\ p \notin Runs /\ p \in Operators
        /\ job[p].heir = Nothing /\ ~Closing(job[p])
    BY <1>1, JobAt DEF Fits, Closing
  <1>3. x \in RunRow /\ x.run = job[p].run /\ ~IsEnd(x)
    <2>1. CASE job[p].do = "resume"
      BY <1>2, <2>1 DEF Row, RunRow, IsEnd
    <2>2. CASE job[p].do # "resume"
      BY <1>2, <2>2 DEF Row, RunRow, IsEnd
    <2>3. QED
      BY <2>1, <2>2
  <1> HIDE DEF x
  <1>4. PICK d \in Directory : /\ Wrote(s, d) /\ d.there /\ d.st = dir[s].st
                               /\ d.log = dir[s].log /\ d.rows = Append(dir[s].rows, x)
    BY <1>1, <1>2, <1>3, RowIsAdded
  <1>5. Moves(p) /\ job'[p].at = "idle" /\ job'[p].heir = Nothing /\ job'[p].run = Nothing
    BY <1>1, ReturnIs
  <1>6. Bounded(bounds')
    BY <1>1 DEF TypeInv, Bounded
  <1>7. TypeInv'
    BY <1>1, <1>2, <1>4, <1>5, <1>6, DirTypesKept
  <1>8. QED
    BY <1>1, <1>2, <1>3, <1>4, <1>5, <1>7

LEMMA RunEndsIs ==
  ASSUME TypeInv, NEW r \in Runs, RunEnds(r)
  PROVE  \E s \in Slugs, d \in Directory, x \in RunRow :
         /\ TypeInv' /\ Moves(r) /\ UNCHANGED <<archive, meta, hub, bounds, mixed>>
         /\ job[r].at = "work" /\ job[r].heir = Nothing /\ ~Closing(job[r]) /\ job[r].do = "run"
         /\ x.run = r /\ IsEnd(x)
         /\ Wrote(s, d) /\ d.there /\ d.st = dir[s].st /\ d.log = dir[s].log
         /\ d.rows = Append(dir[s].rows, x)
         /\ job'[r].at \in {"idle", "fold"} /\ job'[r].heir = Nothing
         /\ job[r].run = Nothing /\ job'[r].run = Nothing /\ job'[r].do = "run"
  <1> DEFINE s == job[r].slug
  <1>1. r \in Actors
    BY DEF Actors
  <1>2. /\ job[r] \in AJob /\ Fits(r, job[r]) /\ job[r].at = "work"
        /\ UNCHANGED <<archive, meta, hub, bounds, mixed>>
    BY <1>1, JobAt DEF RunEnds, At
  <1>3. s \in Slugs /\ job[r].heir = Nothing /\ ~Closing(job[r]) /\ job[r].do = "run"
        /\ job[r].run = Nothing
    BY <1>2 DEF Fits, Closing
  <1>4. PICK event \in {"completed", "failed"} :
          /\ dir' = [dir EXCEPT ![s].there = TRUE,
                                ![s].rows = Append(@, Row(r, event, event = "completed"))]
          /\ Goto(r, "fold") \/ Return(r)
    BY DEF RunEnds
  <1> DEFINE x == Row(r, event, event = "completed")
  <1>5. x \in RunRow /\ x.run = r /\ IsEnd(x)
    <2>1. CASE event = "completed"
      BY <2>1 DEF Row, RunRow, IsEnd
    <2>2. CASE event # "completed"
      BY <2>2 DEF Row, RunRow, IsEnd
    <2>3. QED
      BY <2>1, <2>2
  <1>6. dir' = [dir EXCEPT ![s].there = TRUE, ![s].rows = Append(@, x)]
    BY <1>4
  <1> HIDE DEF x
  <1>7. PICK d \in Directory : /\ Wrote(s, d) /\ d.there /\ d.st = dir[s].st
                               /\ d.log = dir[s].log /\ d.rows = Append(dir[s].rows, x)
    BY <1>3, <1>5, <1>6, RowIsAdded
  <1>8. /\ Moves(r) /\ job'[r].at \in {"idle", "fold"} /\ job'[r].heir = Nothing
        /\ job'[r].run = Nothing /\ job'[r].do = "run"
    <2>1. CASE Return(r)
      BY <1>1, <2>1, ReturnIs
    <2>2. CASE Goto(r, "fold")
      <3> DEFINE j == [job[r] EXCEPT !.at = "fold"]
      <3>1. j.at = "fold" /\ j.do = "run" /\ j.heir = Nothing /\ j.run = Nothing
        BY <1>2, <1>3 DEF AJob
      <3> HIDE DEF j
      <3>2. Fits(r, j)
        BY <3>1 DEF Fits, Closing
      <3>3. Moves(r) /\ job'[r] = j
        BY <1>1, <2>2, <3>2, GotoIs, NamesAre DEF j
      <3>4. QED
        BY <3>1, <3>3
    <2>3. QED
      BY <1>4, <2>1, <2>2
  <1>9. Bounded(bounds')
    BY <1>2 DEF TypeInv, Bounded
  <1>10. TypeInv'
    BY <1>1, <1>2, <1>3, <1>7, <1>8, <1>9, DirTypesKept
  <1>11. QED
    BY <1>2, <1>3, <1>5, <1>7, <1>8, <1>10

LEMMA DiesIs ==
  ASSUME TypeInv, NEW p \in Actors, Dies(p)
  PROVE  /\ TypeInv' /\ Moves(p) /\ UNCHANGED <<dir, archive, meta, hub>>
         /\ job[p].at # "idle" /\ bounds'.faults > 0
         /\ job'[p].at = "idle" /\ job'[p].heir = Nothing /\ job'[p].run = Nothing
         /\ job'[p].do = IF p \in Runs THEN "run" ELSE "none"
         /\ mixed' = mixed \cup (IF At(p, "event") THEN {job[p].slug} ELSE {})
                           \cup (IF At(p, "row") THEN {"cap"} ELSE {})
                           \cup (IF At(p, "work") THEN {p} ELSE {})
  <1>1. Return(p) /\ UNCHANGED <<dir, archive, meta, hub>> /\ job[p].at # "idle"
    BY DEF Dies, At
  <1>2. Bounded(bounds') /\ bounds'.faults > 0
    BY FleetAssumption DEF Dies, TypeInv, Bounded
  <1>3. /\ Moves(p) /\ job'[p].at = "idle" /\ job'[p].heir = Nothing /\ job'[p].run = Nothing
        /\ job'[p].do = IF p \in Runs THEN "run" ELSE "none"
    BY <1>1, ReturnIs
  <1>4. TypeInv'
    BY <1>1, <1>2, <1>3, FilesKept DEF TypeInv
  <1>5. QED
    BY <1>1, <1>2, <1>3, <1>4 DEF Dies

LEMMA LostIs ==
  ASSUME TypeInv, NEW p \in Actors, RunIsLost(p)
  PROVE  /\ TypeInv' /\ Moves(p) /\ UNCHANGED <<dir, archive, meta, hub>>
         /\ p \in Runs /\ job[p].at = "work" /\ job[p].heir = Nothing /\ job[p].do = "run"
         /\ bounds.faults > 0 => bounds'.faults > 0
         /\ job'[p].at \in {"idle", "fold"} /\ job'[p].heir = Nothing
         /\ job[p].run = Nothing /\ job'[p].run = Nothing /\ job'[p].do = "run"
         /\ mixed' = mixed \cup {p}
  <1>1. /\ job[p] \in AJob /\ Fits(p, job[p]) /\ job[p].at = "work" /\ p \in Runs
        /\ UNCHANGED <<dir, archive, meta, hub>> /\ mixed' = mixed \cup {p}
    BY JobAt DEF RunIsLost, At
  <1>2. job[p].heir = Nothing /\ job[p].do = "run" /\ job[p].run = Nothing
    BY <1>1 DEF Fits, Closing
  <1>3. Bounded(bounds') /\ (bounds.faults > 0 => bounds'.faults > 0)
    BY FleetAssumption DEF RunIsLost, TypeInv, Bounded
  <1>4. /\ Moves(p) /\ job'[p].at \in {"idle", "fold"} /\ job'[p].heir = Nothing
        /\ job'[p].run = Nothing /\ job'[p].do = "run"
    <2>1. CASE Return(p)
      BY <1>1, <2>1, ReturnIs
    <2>2. CASE Goto(p, "fold")
      <3> DEFINE j == [job[p] EXCEPT !.at = "fold"]
      <3>1. j.at = "fold" /\ j.do = "run" /\ j.heir = Nothing /\ j.run = Nothing
        BY <1>1, <1>2 DEF AJob
      <3> HIDE DEF j
      <3>2. Fits(p, j)
        BY <1>1, <3>1 DEF Fits, Closing
      <3>3. Moves(p) /\ job'[p] = j
        BY <2>2, <3>2, GotoIs, NamesAre DEF j
      <3>4. QED
        BY <3>1, <3>3
    <2>3. QED
      BY <2>1, <2>2 DEF RunIsLost
  <1>5. TypeInv'
    BY <1>1, <1>3, <1>4, FilesKept DEF TypeInv
  <1>6. QED
    BY <1>1, <1>2, <1>3, <1>4, <1>5

-----------------------------------------------------------------------------
(* Every step is one of these *)

Commands(p) == \E s \in Slugs : \/ HookTells(p, s) \/ SeedStarts(p, s) \/ CloseStarts(p, s)
                                \/ SpawnStarts(p, s) \/ ResumeStarts(p, s)
Writes(p) == \/ Saves(p) \/ Sows(p) \/ Tells(p) \/ OptsIn(p) \/ SavesMeta(p) \/ Archives(p)
             \/ Mints(p) \/ Launches(p) \/ Records(p) \/ Dies(p) \/ RunIsLost(p)

LEMMA NextIs ==
  ASSUME TypeInv, Next
  PROVE  \/ \E p \in Actors : \/ Calm(p) /\ (hub' = hub \/ BaseZones \subseteq hub'.zones)
                              \/ Writes(p)
         \/ \E p \in Operators : Commands(p) \/ InitStarts(p)
         \/ \E r \in Runs : RunEnds(r)
  <1>1. ASSUME NEW p \in Operators, NEW s \in Slugs, Starting(p, s)
        PROVE  Commands(p) \/ (Calm(p) /\ hub' = hub)
    <2>1. CASE UpdateStarts(p, s) \/ HookStarts(p, s)
      BY <2>1, Updates DEF UpdateStarts, HookStarts
    <2>2. QED
      BY <1>1, <2>1 DEF Starting, Commands
  <1>2. ASSUME NEW p \in Operators, RenderStarts(p) \/ MigrateStarts(p)
        PROVE  Calm(p) /\ hub' = hub
    BY <1>2, Renders, Migrates DEF RenderStarts, MigrateStarts
  <1>3. ASSUME NEW p \in Actors, Step(p)
        PROVE  Writes(p) \/ (Calm(p) /\ (hub' = hub \/ BaseZones \subseteq hub'.zones))
    <2>1. CASE Loads(p) \/ Folds(p)
      BY <2>1, LoadsIs, FoldsIs DEF Loads, Folds
    <2>2. CASE Swaps(p) \/ Scaffolds(p) \/ Wires(p)
      BY <2>2, PageWrites
    <2>3. QED
      BY <1>3, <2>1, <2>2 DEF Step, Writes
  <1>4. \A p \in Operators : p \in Actors
    BY DEF Actors
  <1>5. CASE \E p \in Operators : \/ RenderStarts(p) \/ InitStarts(p) \/ MigrateStarts(p)
                                  \/ \E s \in Slugs : Starting(p, s)
    BY <1>1, <1>2, <1>4, <1>5
  <1>6. CASE \E p \in Actors : Step(p) \/ Dies(p)
    BY <1>3, <1>6 DEF Writes
  <1>7. CASE \E r \in Runs : RunEnds(r) \/ RunIsLost(r)
    BY <1>7 DEF Writes, Actors
  <1>8. QED
    BY <1>5, <1>6, <1>7 DEF Next

LEMMA TypeStep ==
  ASSUME TypeInv, [Next]_vars
  PROVE  TypeInv'
  <1>1. CASE UNCHANGED vars
    BY <1>1 DEF vars, TypeInv, Fits, Closing, Actors
  <1>2. ASSUME NEW p \in Operators, NEW s \in Slugs, Starting(p, s)
        PROVE  TypeInv'
    BY <1>2, Updates, HookTellsIs, SeedStartsIs, CloseStartsIs, SpawnsIs DEF Starting
  <1>3. ASSUME NEW p \in Operators, RenderStarts(p) \/ InitStarts(p) \/ MigrateStarts(p)
        PROVE  TypeInv'
    BY <1>3, Renders, InitStartsIs, Migrates
  <1>4. ASSUME NEW p \in Actors, Step(p)
        PROVE  TypeInv'
    <2>1. CASE Loads(p) \/ Folds(p) \/ Swaps(p) \/ Scaffolds(p) \/ Wires(p)
      BY <2>1, LoadsIs, FoldsIs, PageWrites
    <2>2. CASE Saves(p) \/ Sows(p) \/ Tells(p)
      BY <2>2, SavesIs, SowsIs, TellsIs
    <2>3. CASE OptsIn(p) \/ SavesMeta(p) \/ Archives(p)
      BY <2>3, OptsInIs, SavesMetaIs, ArchivesIs
    <2>4. CASE Mints(p) \/ Launches(p) \/ Records(p)
      BY <2>4, MintsIs, LaunchesIs, RecordsIs
    <2>5. QED
      BY <1>4, <2>1, <2>2, <2>3, <2>4 DEF Step
  <1>5. ASSUME NEW p \in Actors, Dies(p)
        PROVE  TypeInv'
    BY <1>5, DiesIs
  <1>6. ASSUME NEW r \in Runs, RunEnds(r) \/ RunIsLost(r)
        PROVE  TypeInv'
    BY <1>6, RunEndsIs, LostIs DEF Actors
  <1>7. QED
    BY <1>1, <1>2, <1>3, <1>4, <1>5, <1>6 DEF Next

(* A page that shows anything has its three old zones.                     *)
LEMMA PageStep ==
  ASSUME TypeInv, PageInv, Next
  PROVE  PageInv'
  <1>1. CASE hub' = hub \/ BaseZones \subseteq hub'.zones
    BY <1>1 DEF PageInv
  <1>2. ASSUME NEW p \in Actors, Writes(p)
        PROVE  hub' = hub
    BY <1>2 DEF Writes, Saves, Sows, Tells, OptsIn, SavesMeta, Archives, Mints, Launches, Records,
                Dies, RunIsLost
  <1>3. ASSUME NEW p \in Operators, Commands(p) \/ InitStarts(p)
        PROVE  hub' = hub
    BY <1>3 DEF Commands, HookTells, SeedStarts, CloseStarts, SpawnStarts, ResumeStarts, InitStarts
  <1>4. ASSUME NEW r \in Runs, RunEnds(r)
        PROVE  hub' = hub
    BY <1>4 DEF RunEnds
  <1>5. QED
    BY <1>1, <1>2, <1>3, <1>4, NextIs

-----------------------------------------------------------------------------
(* A state and its last event *)

(* A step that is about neither: a writer that stays keeps what it has.    *)
Unwritten ==
    /\ \A s \in Slugs : dir'[s].st = dir[s].st /\ dir'[s].log = dir[s].log
    /\ mixed \subseteq mixed'
    /\ \A q \in Actors : job'[q].at \in {"event", "sow"} => job'[q] = job[q]
    /\ \A q \in Actors : job[q].at = "event" => job'[q] = job[q] \/ job[q].slug \in mixed'

Agree(s) == dir[s].log # <<>> /\ dir[s].log[Len(dir[s].log)].status = dir[s].st.status
Pending(s) == \E q \in Actors : job[q].at = "event" /\ job[q].slug = s
Explained(s) == dir[s].st = Nothing \/ s \in mixed \/ Pending(s) \/ Agree(s)

(* What the two invariants say of one actor and of one plan.               *)
Told(q) ==
    /\ job[q].at = "event" /\ job[q].slug \notin mixed =>
          dir[job[q].slug].st = Nothing \/ dir[job[q].slug].st.status = job[q].st.status
    /\ job[q].at = "sow" /\ ~job[q].keep => job[q].slug \in mixed

LEMMA WritersAre ==
  /\ WriteInv <=> \A q \in Actors : Told(q)
  /\ StateHasItsEvent <=> \A s \in Slugs : Explained(s)
  BY DEF WriteInv, StateHasItsEvent, Told, Explained, Pending, Agree, At

LEMMA WritersWere ==
  /\ WriteInv' <=> \A q \in Actors : Told(q)'
  /\ StateHasItsEvent' <=> \A s \in Slugs : Explained(s)'
  BY DEF WriteInv, StateHasItsEvent, Told, Explained, Pending, Agree, At

LEMMA SlugsAre ==
  ASSUME TypeInv, NEW q \in Actors, job[q].at \in {"event", "sow", "save"}
  PROVE  job[q].slug \in Slugs /\ q \notin Runs
  <1>1. Fits(q, job[q])
    BY JobAt
  <1>2. QED
    BY <1>1 DEF Fits

LEMMA UnwrittenKeeps ==
  ASSUME TypeInv, WriteInv, StateHasItsEvent, Unwritten
  PROVE  WriteInv' /\ StateHasItsEvent'
  <1>1. ASSUME NEW q \in Actors
        PROVE  Told(q)'
    <2>1. CASE job'[q].at \in {"event", "sow"}
      <3>1. job'[q] = job[q]
        BY <2>1 DEF Unwritten
      <3>2. job[q].slug \in Slugs /\ Told(q)
        BY <2>1, <3>1, SlugsAre, WritersAre
      <3>3. QED
        BY <3>1, <3>2 DEF Told, Unwritten
    <2>2. CASE job'[q].at \notin {"event", "sow"}
      BY <2>2 DEF Told
    <2>3. QED
      BY <2>1, <2>2
  <1>2. ASSUME NEW s \in Slugs
        PROVE  Explained(s)'
    <2>1. Explained(s) /\ dir'[s].st = dir[s].st /\ dir'[s].log = dir[s].log
      BY WritersAre DEF Unwritten
    <2>2. CASE Pending(s)
      <3>1. Pending(s)' \/ s \in mixed'
        BY <2>2 DEF Pending, Unwritten
      <3>2. QED
        BY <3>1 DEF Explained
    <2>3. CASE Agree(s) \/ dir[s].st = Nothing \/ s \in mixed
      BY <2>1, <2>3 DEF Explained, Agree, Unwritten
    <2>4. QED
      BY <2>1, <2>2, <2>3 DEF Explained
  <1>3. QED
    BY <1>1, <1>2, WritersWere

(* A new state of a plan: unless it meets another writer, its event is the *)
(* next one of that plan.                                                  *)
LEMMA StateWritten ==
  ASSUME TypeInv, WriteInv, StateHasItsEvent, NEW p \in Actors, NEW s \in Slugs, NEW d,
         Wrote(s, d), Moves(p), d.st = job[p].st, s = job[p].slug,
         job[p].at # "event",
         \/ job'[p] = [job[p] EXCEPT !.at = "event"]
         \/ job'[p].at = "idle" /\ s \in mixed,
         mixed' = IF \E q \in Actors \ {p} : job[q].at \in {"save", "event"} /\ job[q].slug = s
                  THEN mixed \cup {s} ELSE mixed
  PROVE  WriteInv' /\ StateHasItsEvent'
  <1>1. job[p] \in AJob
    BY JobAt
  <1>2. \/ job'[p].at = "event" /\ job'[p].slug = s /\ job'[p].st = job[p].st
        \/ job'[p].at = "idle" /\ s \in mixed'
    BY <1>1 DEF AJob
  <1>3. mixed \subseteq mixed' /\ \A q \in Actors \ {p} : job'[q] = job[q]
    BY DEF Moves
  <1>4. ASSUME NEW q \in Actors
        PROVE  Told(q)'
    <2>1. CASE q = p
      BY <1>2, <2>1 DEF Told, Wrote
    <2>2. CASE q # p /\ job[q].at \in {"event", "sow"}
      <3>1. job'[q] = job[q] /\ Told(q) /\ job[q].slug \in Slugs
        BY <1>3, <2>2, SlugsAre, WritersAre
      <3>2. CASE job[q].slug = s /\ job[q].at = "event"
        <4>1. s \in mixed'
          BY <2>2, <3>2
        <4>2. QED
          BY <3>1, <3>2, <4>1 DEF Told
      <3>3. CASE job[q].slug # s \/ job[q].at = "sow"
        BY <1>3, <2>2, <3>1, <3>3 DEF Told, Wrote
      <3>4. QED
        BY <2>2, <3>2, <3>3
    <2>3. CASE q # p /\ job[q].at \notin {"event", "sow"}
      BY <1>3, <2>3 DEF Told
    <2>4. QED
      BY <2>1, <2>2, <2>3
  <1>5. ASSUME NEW t \in Slugs
        PROVE  Explained(t)'
    <2>1. CASE t = s
      BY <1>2, <2>1 DEF Explained, Pending
    <2>2. CASE t # s
      <3>1. Explained(t) /\ dir'[t] = dir[t]
        BY <2>2, WritersAre DEF Wrote
      <3>2. Pending(t) => Pending(t)'
        BY <1>3, <2>2 DEF Pending
      <3>3. QED
        BY <1>3, <3>1, <3>2 DEF Explained, Agree
    <2>3. QED
      BY <2>1, <2>2
  <1>6. QED
    BY <1>4, <1>5, WritersWere

LEMMA LastAppended ==
  ASSUME NEW S, NEW l \in Seq(S), NEW e \in S
  PROVE  Append(l, e) # <<>> /\ Append(l, e)[Len(Append(l, e))] = e
  <1>1. Len(l) \in Nat /\ Len(Append(l, e)) = Len(l) + 1
    OBVIOUS
  <1>2. Append(l, e)[Len(l) + 1] = e
    OBVIOUS
  <1>3. Len(<<>>) = 0
    OBVIOUS
  <1>4. QED
    BY <1>1, <1>2, <1>3

LEMMA EventWritten ==
  ASSUME TypeInv, WriteInv, StateHasItsEvent, NEW p \in Actors, Tells(p)
  PROVE  WriteInv' /\ StateHasItsEvent'
  <1>1. PICK s \in Slugs, d \in Directory, e \in Event :
          /\ Moves(p) /\ mixed' = mixed
          /\ s = job[p].slug /\ job[p].at = "event" /\ e.status = job[p].st.status
          /\ Wrote(s, d) /\ d.st = dir[s].st /\ d.log = Append(dir[s].log, e)
          /\ job'[p].at \in {"idle", "fold", "meta"}
    BY TellsIs
  <1>2. \A t \in Slugs : dir'[t].st = dir[t].st /\ (t # s => dir'[t].log = dir[t].log)
    BY <1>1 DEF Wrote
  <1>3. \A q \in Actors \ {p} : job'[q] = job[q]
    BY <1>1 DEF Moves
  <1>4. ASSUME NEW q \in Actors
        PROVE  Told(q)'
    <2>1. CASE q = p
      BY <1>1, <2>1 DEF Told
    <2>2. CASE q # p /\ job[q].at \in {"event", "sow"}
      <3>1. job'[q] = job[q] /\ Told(q) /\ job[q].slug \in Slugs
        BY <1>3, <2>2, SlugsAre, WritersAre
      <3>2. QED
        BY <1>1, <1>2, <3>1 DEF Told
    <2>3. CASE q # p /\ job[q].at \notin {"event", "sow"}
      BY <1>3, <2>3 DEF Told
    <2>4. QED
      BY <2>1, <2>2, <2>3
  <1>5. ASSUME NEW t \in Slugs
        PROVE  Explained(t)'
    <2>1. CASE t = s
      <3>1. CASE dir[s].st = Nothing \/ s \in mixed
        BY <1>1, <1>2, <2>1, <3>1 DEF Explained
      <3>2. CASE dir[s].st # Nothing /\ s \notin mixed
        <4>1. dir[s].st.status = job[p].st.status
          BY <1>1, <3>2, WritersAre DEF Told
        <4>2. dir[s].log \in Seq(Event)
          BY StoredIs DEF Directory
        <4>a. /\ Append(dir[s].log, e) # <<>>
              /\ Append(dir[s].log, e)[Len(Append(dir[s].log, e))] = e
          BY <4>2, LastAppended
        <4>3. d.log # <<>> /\ d.log[Len(d.log)] = e
          BY <1>1, <4>a
        <4>4. dir'[s] = d
          BY <1>1 DEF Wrote
        <4>5. Agree(s)'
          BY <1>1, <4>1, <4>3, <4>4 DEF Agree
        <4>6. QED
          BY <2>1, <4>5 DEF Explained
      <3>3. QED
        BY <3>1, <3>2
    <2>2. CASE t # s
      <3>1. Explained(t) /\ dir'[t] = dir[t]
        BY <1>1, <2>2, WritersAre DEF Wrote
      <3>2. Pending(t) => Pending(t)'
        BY <1>1, <1>3, <2>2 DEF Pending
      <3>3. QED
        BY <1>1, <3>1, <3>2 DEF Explained, Agree
    <2>3. QED
      BY <2>1, <2>2
  <1>6. QED
    BY <1>4, <1>5, WritersWere

LEMMA HistoryMoved ==
  ASSUME TypeInv, WriteInv, StateHasItsEvent, NEW p \in Actors, Archives(p)
  PROVE  WriteInv' /\ StateHasItsEvent'
  <1>1. /\ Moves(p) /\ job[p].slug \in Slugs /\ job[p].at = "archive"
        /\ job'[p].at \in {"fold", "mint"} /\ mixed \subseteq mixed'
        /\ dir' = dir \/ Moved(job[p].slug)
    BY ArchivesIs
  <1>2. \A t \in Slugs : \/ dir'[t] = dir[t]
                         \/ dir'[t].st = Nothing
    BY <1>1, EmptyIs DEF Moved, TypeInv
  <1>3. \A q \in Actors \ {p} : job'[q] = job[q]
    BY <1>1 DEF Moves
  <1>4. ASSUME NEW q \in Actors
        PROVE  Told(q)'
    <2>1. CASE q = p
      BY <1>1, <2>1 DEF Told
    <2>2. CASE q # p /\ job[q].at \in {"event", "sow"}
      <3>1. job'[q] = job[q] /\ Told(q) /\ job[q].slug \in Slugs
        BY <1>3, <2>2, SlugsAre, WritersAre
      <3>2. QED
        BY <1>1, <1>2, <3>1 DEF Told
    <2>3. CASE q # p /\ job[q].at \notin {"event", "sow"}
      BY <1>3, <2>3 DEF Told
    <2>4. QED
      BY <2>1, <2>2, <2>3
  <1>5. ASSUME NEW t \in Slugs
        PROVE  Explained(t)'
    <2>1. CASE dir'[t].st = Nothing
      BY <2>1 DEF Explained
    <2>2. CASE dir'[t] = dir[t]
      <3>1. Explained(t)
        BY WritersAre
      <3>2. Pending(t) => Pending(t)'
        BY <1>1, <1>3 DEF Pending
      <3>3. QED
        BY <1>1, <2>2, <3>1, <3>2 DEF Explained, Agree
    <2>3. QED
      BY <1>2, <2>1, <2>2
  <1>6. QED
    BY <1>4, <1>5, WritersWere

LEMMA WriteStep ==
  ASSUME TypeInv, WriteInv, StateHasItsEvent, Next
  PROVE  WriteInv' /\ StateHasItsEvent'
  <1>1. ASSUME NEW p \in Actors, Moves(p), UNCHANGED dir, mixed \subseteq mixed',
               job[p].at # "event" \/ job[p].slug \in mixed', job'[p].at \notin {"event", "sow"}
        PROVE  Unwritten
    BY <1>1 DEF Unwritten, Moves
  <1>2. ASSUME NEW p \in Actors, Calm(p)
        PROVE  Unwritten
    BY <1>1, <1>2 DEF Calm
  <1>3. ASSUME NEW p \in Actors, Moves(p), UNCHANGED mixed, job[p].at # "event",
               job'[p].at \notin {"event", "sow"},
               NEW s \in Slugs, NEW d, Wrote(s, d), d.st = dir[s].st, d.log = dir[s].log
        PROVE  Unwritten
    BY <1>3 DEF Unwritten, Moves, Wrote
  <1>4. ASSUME NEW p \in Actors, Writes(p)
        PROVE  WriteInv' /\ StateHasItsEvent'
    <2>1. CASE Saves(p)
      <3>1. PICK s \in Slugs, d \in Directory :
              /\ Moves(p) /\ s = job[p].slug /\ job[p].at = "save"
              /\ job'[p] = [job[p] EXCEPT !.at = "event"] /\ Wrote(s, d) /\ d.st = job[p].st
              /\ mixed' = IF \E q \in Actors \ {p} : /\ job[q].at \in {"save", "event"}
                                                     /\ job[q].slug = s
                          THEN mixed \cup {s} ELSE mixed
        BY <2>1, SavesIs
      <3>2. QED
        BY <3>1, StateWritten
    <2>2. CASE Sows(p)
      <3>1. PICK s \in Slugs, d \in Directory :
              /\ Moves(p) /\ s = job[p].slug /\ job[p].at = "sow"
              /\ \/ job'[p] = [job[p] EXCEPT !.at = "event"]
                 \/ ~job[p].keep /\ job'[p].at = "idle"
              /\ Wrote(s, d) /\ d.st = job[p].st
              /\ mixed' = IF \E q \in Actors \ {p} : /\ job[q].at \in {"save", "event"}
                                                     /\ job[q].slug = s
                          THEN mixed \cup {s} ELSE mixed
        BY <2>2, SowsIs
      <3>2. ~job[p].keep => s \in mixed
        BY <3>1, WritersAre DEF Told
      <3>3. QED
        BY <3>1, <3>2, StateWritten
    <2>3. CASE Tells(p)
      BY <2>3, EventWritten
    <2>4. CASE OptsIn(p) \/ SavesMeta(p)
      <3>1. /\ Moves(p) /\ UNCHANGED dir /\ mixed \subseteq mixed' /\ job[p].at # "event"
            /\ job'[p].at \notin {"event", "sow"}
        <4>1. CASE OptsIn(p)
          BY <4>1, OptsInIs
        <4>2. CASE SavesMeta(p)
          <5>1. /\ Moves(p) /\ UNCHANGED dir /\ job[p].at = "meta" /\ job'[p].at = "archive"
                /\ mixed' \in {mixed, mixed \cup {"meta"}}
            BY <4>2, SavesMetaIs
          <5>2. QED
            BY <5>1
        <4>3. QED
          BY <2>4, <4>1, <4>2
      <3>2. QED
        BY <1>1, <3>1, UnwrittenKeeps
    <2>5. CASE Archives(p)
      BY <2>5, HistoryMoved
    <2>6. CASE Mints(p)
      <3>1. PICK h \in Slugs, d \in Directory :
              /\ Moves(p) /\ UNCHANGED mixed /\ job[p].at # "event"
              /\ job'[p].at \notin {"event", "sow"}
              /\ Wrote(h, d) /\ d.st = dir[h].st /\ d.log = dir[h].log
        BY <2>6, MintsIs
      <3>2. QED
        BY <1>3, <3>1, UnwrittenKeeps
    <2>7. CASE Launches(p)
      <3>1. PICK r \in Runs :
              /\ UNCHANGED <<dir, mixed>> /\ job[p].at = "launch"
              /\ \A q \in Actors \ {p, r} : job'[q] = job[q]
              /\ job'[r].at = "work" /\ job'[p].at = "row"
        BY <2>7, LaunchesIs
      <3>2. \A q \in Actors : job[q].at = "event" => q # r
        BY SlugsAre
      <3>3. Unwritten
        BY <3>1, <3>2 DEF Unwritten
      <3>4. QED
        BY <3>3, UnwrittenKeeps
    <2>8. CASE Records(p)
      <3>1. PICK s \in Slugs, d \in Directory :
              /\ Moves(p) /\ UNCHANGED mixed /\ job[p].at # "event"
              /\ job'[p].at \notin {"event", "sow"}
              /\ Wrote(s, d) /\ d.st = dir[s].st /\ d.log = dir[s].log
        BY <2>8, RecordsIs
      <3>2. QED
        BY <1>3, <3>1, UnwrittenKeeps
    <2>9. CASE Dies(p)
      <3>1. /\ Moves(p) /\ UNCHANGED dir /\ job'[p].at = "idle"
            /\ mixed' = mixed \cup (IF At(p, "event") THEN {job[p].slug} ELSE {})
                              \cup (IF At(p, "row") THEN {"cap"} ELSE {})
                              \cup (IF At(p, "work") THEN {p} ELSE {})
        BY <2>9, DiesIs
      <3>2. mixed \subseteq mixed' /\ (job[p].at # "event" \/ job[p].slug \in mixed')
        BY <3>1 DEF At
      <3>3. QED
        BY <1>1, <3>1, <3>2, UnwrittenKeeps
    <2>10. CASE RunIsLost(p)
      <3>1. /\ Moves(p) /\ UNCHANGED dir /\ job[p].at # "event" /\ mixed \subseteq mixed'
            /\ job'[p].at \notin {"event", "sow"}
        BY <2>10, LostIs
      <3>2. QED
        BY <1>1, <3>1, UnwrittenKeeps
    <2>11. QED
      BY <1>4, <2>1, <2>2, <2>3, <2>4, <2>5, <2>6, <2>7, <2>8, <2>9, <2>10 DEF Writes
  <1>5. ASSUME NEW p \in Operators, NEW s \in Slugs, HookTells(p, s) \/ SeedStarts(p, s)
        PROVE  WriteInv' /\ StateHasItsEvent'
    <2>1. /\ Enters(p) /\ job'[p].slug = s /\ mixed \subseteq mixed'
          /\ \/ job'[p].at = "event" /\ job'[p].st.status = Stored(s).status
             \/ job'[p].at \in {"event", "sow"}
                  /\ (job'[p].at = "event" \/ ~job'[p].keep => s \in mixed')
      BY <1>5, HookTellsIs, SeedStartsIs
    <2>2. dir' = dir /\ job[p].at = "idle" /\ \A q \in Actors \ {p} : job'[q] = job[q]
      BY <2>1 DEF Enters, Moves
    <2>3. ASSUME NEW q \in Actors
          PROVE  Told(q)'
      <3>1. CASE q = p
        <4>1. dir[s].st # Nothing => Stored(s) = dir[s].st
          BY StoredIs
        <4>2. QED
          BY <2>1, <2>2, <3>1, <4>1 DEF Told
      <3>2. CASE q # p /\ job[q].at \in {"event", "sow"}
        <4>1. job'[q] = job[q] /\ Told(q) /\ job[q].slug \in Slugs
          BY <2>2, <3>2, SlugsAre, WritersAre
        <4>2. QED
          BY <2>1, <2>2, <4>1 DEF Told
      <3>3. CASE q # p /\ job[q].at \notin {"event", "sow"}
        BY <2>2, <3>3 DEF Told
      <3>4. QED
        BY <3>1, <3>2, <3>3
    <2>4. ASSUME NEW t \in Slugs
          PROVE  Explained(t)'
      <3>1. Explained(t)
        BY WritersAre
      <3>2. Pending(t) => Pending(t)'
        BY <2>2 DEF Pending
      <3>3. QED
        BY <2>1, <2>2, <3>1, <3>2 DEF Explained, Agree
    <2>5. QED
      BY <2>3, <2>4, WritersWere
  <1>6. ASSUME NEW p \in Operators, NEW s \in Slugs,
               CloseStarts(p, s) \/ SpawnStarts(p, s) \/ ResumeStarts(p, s) \/ InitStarts(p)
        PROVE  Unwritten
    <2>1. /\ Enters(p) /\ mixed \subseteq mixed' /\ job'[p].at \notin {"event", "sow"}
      BY <1>6, CloseStartsIs, SpawnsIs, InitStartsIs
    <2>2. QED
      BY <1>1, <2>1 DEF Enters, Actors
  <1>7. ASSUME NEW p \in Operators, Commands(p)
        PROVE  WriteInv' /\ StateHasItsEvent'
    BY <1>5, <1>6, <1>7, UnwrittenKeeps DEF Commands
  <1>8. ASSUME NEW p \in Operators, InitStarts(p)
        PROVE  WriteInv' /\ StateHasItsEvent'
    <2>1. /\ Enters(p) /\ mixed \subseteq mixed' /\ job'[p].at \notin {"event", "sow"}
      BY <1>8, InitStartsIs
    <2>2. Unwritten
      BY <1>1, <2>1 DEF Enters, Actors
    <2>3. QED
      BY <2>2, UnwrittenKeeps
  <1>9. ASSUME NEW r \in Runs, RunEnds(r)
        PROVE  WriteInv' /\ StateHasItsEvent'
    <2>1. PICK s \in Slugs, d \in Directory :
              /\ Moves(r) /\ UNCHANGED mixed /\ job[r].at # "event"
              /\ job'[r].at \notin {"event", "sow"}
              /\ Wrote(s, d) /\ d.st = dir[s].st /\ d.log = dir[s].log
      BY <1>9, RunEndsIs
    <2>2. r \in Actors
      BY DEF Actors
    <2>3. QED
      BY <1>3, <2>1, <2>2, UnwrittenKeeps
  <1>10. QED
    BY <1>2, <1>4, <1>7, <1>8, <1>9, NextIs, UnwrittenKeeps

-----------------------------------------------------------------------------
(* The meta file and the archive *)

(* A step that leaves both alone and starts neither a close nor an init.   *)
Unfiled ==
    /\ UNCHANGED <<archive, meta>> /\ mixed \subseteq mixed'
    /\ \A q \in Actors :
          /\ job'[q].at \in {"archive", "opt"} => job'[q] = job[q]
          /\ Closing(job'[q]) => /\ Closing(job[q]) /\ job'[q].meta = job[q].meta
                                 /\ job'[q].heir = job[q].heir
          /\ job'[q].at \in {"idle", "opt"} \/ meta.on

Fileless == /\ \A p \in Actors : job[p].at \in {"idle", "opt"}
            /\ \A s \in Slugs : ~archive[s].there
Filed(s) == /\ Off(s, meta)
            /\ \A p \in Actors : /\ job[p].at # "opt"
                                 /\ Closing(job[p]) => Off(s, job[p].meta) /\ s # job[p].heir
Leaving(s) == \E p \in Actors : job[p].at = "archive" /\ job[p].slug = s

LEMMA MetaIs ==
  MetaInv <=> /\ ~meta.on => Fileless
              /\ "meta" \notin mixed =>
                    \A s \in Slugs : archive[s].there \/ Leaving(s) => Filed(s)
  BY DEF MetaInv, Fileless, Filed, Gone, Leaving, At

LEMMA MetaWas ==
  MetaInv' <=> /\ ~meta'.on => Fileless'
               /\ "meta" \notin mixed' =>
                     \A s \in Slugs : archive'[s].there \/ Leaving(s)' => Filed(s)'
  BY DEF MetaInv, Fileless, Filed, Gone, Leaving, Off, At

LEMMA UnfiledKeeps ==
  ASSUME TypeInv, MetaInv, Unfiled
  PROVE  MetaInv'
  <1>1. ASSUME ~meta'.on
        PROVE  Fileless'
    <2>1. ~meta.on /\ Fileless
      BY <1>1, MetaIs DEF Unfiled
    <2>2. QED
      BY <2>1 DEF Fileless, Unfiled
  <1>2. ASSUME "meta" \notin mixed', NEW s \in Slugs, archive'[s].there \/ Leaving(s)'
        PROVE  Filed(s)'
    <2>1. archive[s].there \/ Leaving(s)
      BY <1>2 DEF Unfiled, Leaving
    <2>2. Filed(s)
      BY <1>2, <2>1, MetaIs DEF Unfiled
    <2>3. QED
      BY <2>2 DEF Filed, Unfiled, Off
  <1>3. QED
    BY <1>1, <1>2, MetaWas

LEMMA OneUnfiled ==
  ASSUME TypeInv, MetaInv, NEW p \in Actors, Moves(p), UNCHANGED <<archive, meta>>,
         mixed \subseteq mixed', job'[p].at \notin {"archive", "opt"},
         Closing(job'[p]) => /\ Closing(job[p]) /\ job'[p].meta = job[p].meta
                             /\ job'[p].heir = job[p].heir,
         job[p].at \notin {"idle", "opt"} \/ meta.on \/ job'[p].at = "idle"
  PROVE  Unfiled
  <1>1. ~meta.on => \A q \in Actors : job[q].at \in {"idle", "opt"}
    BY MetaIs DEF Fileless
  <1>2. \A q \in Actors \ {p} : job'[q] = job[q]
    BY DEF Moves
  <1>3. QED
    BY <1>1, <1>2 DEF Unfiled

LEMMA CloseFiles ==
  ASSUME TypeInv, MetaInv, NEW p \in Operators, NEW s \in Slugs, CloseStarts(p, s)
  PROVE  MetaInv'
  <1>1. /\ Enters(p) /\ meta.on /\ job'[p].at \in {"load", "meta"} /\ job'[p].meta = meta
        /\ job'[p].heir # Nothing => Fresh(job'[p].heir)
        /\ mixed' = IF \E q \in Actors \ {p} : At(q, "archive") /\ job[q].slug = job'[p].heir
                     THEN mixed \cup {"meta"} ELSE mixed
    BY CloseStartsIs
  <1>2. \A q \in Actors \ {p} : job'[q] = job[q]
    BY <1>1 DEF Enters, Moves
  <1>3. archive' = archive /\ meta' = meta /\ p \in Actors /\ job[p].at = "idle"
    BY <1>1 DEF Enters, Actors
  <1>4. ASSUME "meta" \notin mixed', NEW t \in Slugs, archive'[t].there \/ Leaving(t)'
        PROVE  Filed(t)'
    <2>1. "meta" \notin mixed /\ \A q \in Actors \ {p} : At(q, "archive") => job[q].slug # job'[p].heir
      BY <1>1, <1>4
    <2>2. archive[t].there \/ \E q \in Actors \ {p} : At(q, "archive") /\ job[q].slug = t
      BY <1>1, <1>2, <1>3, <1>4 DEF Leaving, At
    <2>3. Filed(t)
      BY <2>1, <2>2, MetaIs DEF Leaving, At
    <2>4. t # job'[p].heir
      BY <1>1, <2>1, <2>2, FleetAssumption DEF Fresh
    <2>5. QED
      BY <1>1, <1>2, <1>3, <2>3, <2>4 DEF Filed, Off
  <1>5. QED
    BY <1>1, <1>3, <1>4, MetaWas

LEMMA InitFiles ==
  ASSUME TypeInv, MetaInv, NEW p \in Operators, InitStarts(p)
  PROVE  MetaInv'
  <1>1. Enters(p) /\ ~meta.on /\ mixed' = mixed /\ job'[p].at = "opt" /\ ~Closing(job'[p])
    BY InitStartsIs
  <1>2. \A q \in Actors \ {p} : job'[q] = job[q]
    BY <1>1 DEF Enters, Moves
  <1>3. archive' = archive /\ meta' = meta /\ p \in Actors /\ job[p].at = "idle"
    BY <1>1 DEF Enters, Actors
  <1>4. Fileless
    BY <1>1, MetaIs
  <1>5. Fileless'
    BY <1>1, <1>2, <1>3, <1>4 DEF Fileless
  <1>6. \A s \in Slugs : ~archive'[s].there /\ ~Leaving(s)'
    BY <1>5 DEF Fileless, Leaving
  <1>7. QED
    BY <1>5, <1>6, MetaWas

LEMMA OptFiles ==
  ASSUME TypeInv, MetaInv, NEW p \in Actors, OptsIn(p)
  PROVE  MetaInv'
  <1>1. /\ Moves(p) /\ archive' = archive /\ mixed' = mixed /\ meta'.on
        /\ job[p].at = "opt" /\ job'[p].at \in {"idle", "scaffold"}
    BY OptsInIs
  <1>2. \A q \in Actors \ {p} : job'[q] = job[q]
    BY <1>1 DEF Moves
  <1>3. ASSUME "meta" \notin mixed', NEW s \in Slugs
        PROVE  ~archive'[s].there /\ ~Leaving(s)'
    <2>1. ~archive[s].there /\ ~Leaving(s)
      BY <1>1, <1>3, MetaIs DEF Filed
    <2>2. QED
      BY <1>1, <1>2, <2>1 DEF Leaving
  <1>4. QED
    BY <1>1, <1>3, MetaWas

LEMMA MetaFiles ==
  ASSUME TypeInv, MetaInv, NEW p \in Actors, SavesMeta(p)
  PROVE  MetaInv'
  <1> DEFINE s == job[p].slug
             m == job[p].meta
  <1>1. /\ Moves(p) /\ archive' = archive /\ s \in Slugs /\ job[p].at = "meta" /\ Closing(job[p])
        /\ job[p].heir # s /\ job'[p].at = "archive" /\ job'[p].slug = s /\ ~Closing(job'[p])
        /\ meta'.on
    BY SavesMetaIs
  <1>2. /\ meta'.roster = (m.roster \ {s}) \cup ({job[p].heir} \ {Nothing})
        /\ meta'.closed = m.closed \cup {s}
        /\ "meta" \notin mixed' => /\ "meta" \notin mixed
                                   /\ \A q \in Actors \ {p} : ~Closing(job[q]) /\ ~At(q, "opt")
    BY SavesMetaIs
  <1>3. \A q \in Actors \ {p} : job'[q] = job[q]
    BY <1>1 DEF Moves
  <1>4. ASSUME "meta" \notin mixed', NEW t \in Slugs, archive'[t].there \/ Leaving(t)'
        PROVE  Filed(t)'
    <2>1. Off(t, meta')
      <3>1. CASE t = s
        BY <1>1, <1>2, <3>1 DEF Off
      <3>2. CASE t # s
        <4>1. archive[t].there \/ Leaving(t)
          BY <1>1, <1>3, <1>4, <3>2 DEF Leaving
        <4>2. Off(t, m) /\ t # job[p].heir
          BY <1>1, <1>2, <1>4, <4>1, MetaIs DEF Filed
        <4>3. QED
          BY <1>2, <4>2 DEF Off
      <3>3. QED
        BY <3>1, <3>2
    <2>2. \A q \in Actors : job'[q].at # "opt" /\ ~Closing(job'[q])
      BY <1>1, <1>2, <1>3, <1>4 DEF At
    <2>3. QED
      BY <2>1, <2>2 DEF Filed, Off
  <1>5. QED
    BY <1>1, <1>4, MetaWas

LEMMA ArchiveFiles ==
  ASSUME TypeInv, MetaInv, NEW p \in Actors, Archives(p)
  PROVE  MetaInv'
  <1> DEFINE s == job[p].slug
  <1>1. /\ Moves(p) /\ meta' = meta /\ s \in Slugs /\ job[p].at = "archive"
        /\ job'[p].at \in {"fold", "mint"} /\ ~Closing(job'[p])
        /\ mixed \subseteq mixed' /\ (archive' = archive \/ Moved(s))
    BY ArchivesIs
  <1>2. \A q \in Actors \ {p} : job'[q] = job[q]
    BY <1>1 DEF Moves
  <1>3. \A t \in Slugs : archive'[t].there => archive[t].there \/ t = s
    BY <1>1 DEF Moved, TypeInv
  <1>4. meta'.on
    BY <1>1, MetaIs DEF Fileless
  <1>5. ASSUME "meta" \notin mixed', NEW t \in Slugs, archive'[t].there \/ Leaving(t)'
        PROVE  Filed(t)'
    <2>1. archive[t].there \/ Leaving(t)
      BY <1>1, <1>2, <1>3, <1>5 DEF Leaving
    <2>2. Filed(t)
      BY <1>1, <1>5, <2>1, MetaIs
    <2>3. QED
      BY <1>1, <1>2, <2>2 DEF Filed, Off
  <1>6. QED
    BY <1>4, <1>5, MetaWas

(* The steps that are about the meta file or the archive.                  *)
Files == \/ \E p \in Operators : InitStarts(p) \/ \E s \in Slugs : CloseStarts(p, s)
         \/ \E p \in Actors : OptsIn(p) \/ SavesMeta(p) \/ Archives(p)

LEMMA UnfiledSteps ==
  ASSUME TypeInv, MetaInv, Next
  PROVE  Unfiled \/ Files
  <1>1. ASSUME NEW p \in Actors, Calm(p)
        PROVE  Unfiled
    BY <1>1, OneUnfiled DEF Calm
  <1>2. ASSUME NEW p \in Actors, Writes(p)
        PROVE  Unfiled \/ Files
    <2>1. CASE Saves(p)
      <3>1. /\ Moves(p) /\ UNCHANGED <<archive, meta>> /\ mixed \subseteq mixed'
            /\ job[p].at = "save" /\ job'[p] = [job[p] EXCEPT !.at = "event"]
        BY <2>1, SavesIs
      <3>2. job[p] \in AJob
        BY JobAt
      <3>3. /\ job'[p].at = "event" /\ job'[p].do = job[p].do /\ job'[p].meta = job[p].meta
            /\ job'[p].heir = job[p].heir
        BY <3>1, <3>2 DEF AJob
      <3>4. Closing(job'[p]) => Closing(job[p])
        BY <3>1, <3>3 DEF Closing
      <3>5. QED
        BY <3>1, <3>3, <3>4, OneUnfiled
    <2>2. CASE Sows(p)
      <3>1. /\ Moves(p) /\ UNCHANGED <<archive, meta>> /\ mixed \subseteq mixed'
            /\ job[p].at = "sow" /\ ~Closing(job'[p])
            /\ job'[p] = [job[p] EXCEPT !.at = "event"] \/ job'[p].at = "idle"
        BY <2>2, SowsIs
      <3>2. job[p] \in AJob
        BY JobAt
      <3>3. job'[p].at \in {"event", "idle"}
        BY <3>1, <3>2 DEF AJob
      <3>4. QED
        BY <3>1, <3>3, OneUnfiled
    <2>3. CASE Tells(p)
      <3>1. /\ Moves(p) /\ UNCHANGED <<archive, meta, mixed>> /\ job[p].at = "event"
            /\ job'[p].at \in {"idle", "fold", "meta"} /\ job'[p].heir = job[p].heir
            /\ Closing(job'[p]) => Closing(job[p]) /\ job'[p].meta = job[p].meta
        BY <2>3, TellsIs
      <3>2. QED
        BY <3>1, OneUnfiled
    <2>4. CASE OptsIn(p) \/ SavesMeta(p) \/ Archives(p)
      BY <2>4 DEF Files
    <2>5. CASE Mints(p)
      <3>1. /\ Moves(p) /\ UNCHANGED <<archive, meta, mixed>> /\ job[p].at = "mint"
            /\ job'[p].at = "load" /\ ~Closing(job'[p])
        BY <2>5, MintsIs
      <3>2. QED
        BY <3>1, OneUnfiled
    <2>6. CASE Launches(p)
      <3>1. PICK r \in Runs :
              /\ UNCHANGED <<archive, meta, mixed>> /\ job[p].at = "launch"
              /\ \A q \in Actors \ {p, r} : job'[q] = job[q]
              /\ job'[r].at = "work" /\ job'[p].at = "row"
              /\ ~Closing(job'[r]) /\ ~Closing(job'[p])
        BY <2>6, LaunchesIs
      <3>2. meta.on
        BY <3>1, MetaIs DEF Fileless
      <3>3. QED
        BY <3>1, <3>2 DEF Unfiled
    <2>7. CASE Records(p)
      <3>1. /\ Moves(p) /\ UNCHANGED <<archive, meta, mixed>> /\ job'[p].at = "idle"
        BY <2>7, RecordsIs
      <3>2. QED
        BY <3>1, OneUnfiled DEF Closing
    <2>8. CASE Dies(p)
      <3>1. /\ Moves(p) /\ UNCHANGED <<archive, meta>> /\ job'[p].at = "idle"
            /\ mixed \subseteq mixed'
        BY <2>8, DiesIs
      <3>2. QED
        BY <3>1, OneUnfiled DEF Closing
    <2>9. CASE RunIsLost(p)
      <3>1. /\ Moves(p) /\ UNCHANGED <<archive, meta>> /\ mixed \subseteq mixed'
            /\ job[p].at = "work" /\ job'[p].at \in {"idle", "fold"}
        BY <2>9, LostIs
      <3>2. QED
        BY <3>1, OneUnfiled DEF Closing
    <2>10. QED
      BY <1>2, <2>1, <2>2, <2>3, <2>4, <2>5, <2>6, <2>7, <2>8, <2>9 DEF Writes
  <1>3. ASSUME NEW p \in Operators, NEW s \in Slugs,
               \/ HookTells(p, s) \/ SeedStarts(p, s) \/ SpawnStarts(p, s) \/ ResumeStarts(p, s)
        PROVE  Unfiled
    <2>1. /\ Enters(p) /\ meta.on /\ mixed \subseteq mixed'
          /\ job'[p].at \notin {"archive", "opt"} /\ ~Closing(job'[p])
      BY <1>3, HookTellsIs, SeedStartsIs, SpawnsIs
    <2>2. QED
      BY <2>1, OneUnfiled DEF Enters, Actors
  <1>4. ASSUME NEW p \in Operators, Commands(p) \/ InitStarts(p)
        PROVE  Unfiled \/ Files
    BY <1>3, <1>4 DEF Commands, Files
  <1>5. ASSUME NEW r \in Runs, RunEnds(r)
        PROVE  Unfiled
    <2>1. /\ Moves(r) /\ UNCHANGED <<archive, meta, mixed>> /\ job[r].at = "work"
          /\ job'[r].at \in {"idle", "fold"}
      BY <1>5, RunEndsIs
    <2>2. r \in Actors
      BY DEF Actors
    <2>3. QED
      BY <2>1, <2>2, OneUnfiled DEF Closing
  <1>6. QED
    BY <1>1, <1>2, <1>4, <1>5, NextIs

LEMMA MetaStep ==
  ASSUME TypeInv, MetaInv, Next
  PROVE  MetaInv'
  BY UnfiledSteps, UnfiledKeeps, CloseFiles, InitFiles, OptFiles, MetaFiles, ArchiveFiles DEF Files

-----------------------------------------------------------------------------
(* Successors *)

(* A plan that has a directory or an archive keeps one of the two.         *)
LEMMA PlacesStay ==
  ASSUME TypeInv, NEW h \in Slugs, dir[h].there \/ archive[h].there,
         \/ UNCHANGED <<dir, archive>>
         \/ archive' = archive /\ \E s \in Slugs, d \in Directory : Wrote(s, d) /\ d.there
         \/ \E s \in Slugs : Moved(s)
  PROVE  dir'[h].there \/ archive'[h].there
  <1>1. ASSUME NEW s \in Slugs, Moved(s)
        PROVE  dir'[h].there \/ archive'[h].there
    <2>1. Archived(s).there
      BY <1>1, ArchivedIs DEF Moved
    <2>2. CASE h = s
      BY <1>1, <2>1, <2>2 DEF Moved, TypeInv
    <2>3. CASE h # s
      BY <1>1, <2>3 DEF Moved, TypeInv
    <2>4. QED
      BY <2>2, <2>3
  <1>2. QED
    BY <1>1 DEF Wrote

(* A step that keeps the directories' places and who waits to be minted.   *)
LEMMA MintedStays ==
  ASSUME TypeInv, Next, NEW h \in Slugs, Minted(h)
  PROVE  Minted(h)'
  <1>1. ASSUME NEW p \in Actors, Moves(p), job[p].heir = Nothing \/ job'[p].heir = job[p].heir,
               bounds'.faults = bounds.faults,
               \/ UNCHANGED <<dir, archive>>
               \/ archive' = archive /\ \E s \in Slugs, d \in Directory : Wrote(s, d) /\ d.there
               \/ \E s \in Slugs : Moved(s)
        PROVE  Minted(h)'
    <2>1. dir[h].there \/ archive[h].there => dir'[h].there \/ archive'[h].there
      BY <1>1, PlacesStay
    <2>2. ASSUME NEW q \in Operators, job[q].heir = h
          PROVE  job'[q].heir = h
      BY <1>1, <2>2, FleetAssumption DEF Moves, Actors
    <2>3. QED
      BY <1>1, <2>1, <2>2 DEF Minted
  <1>2. ASSUME NEW p \in Actors, Calm(p)
        PROVE  Minted(h)'
    BY <1>1, <1>2 DEF Calm
  <1>3. ASSUME NEW p \in Actors, Writes(p)
        PROVE  Minted(h)'
    <2>1. CASE Saves(p)
      <3>1. PICK s \in Slugs, d \in Directory :
              /\ Moves(p) /\ UNCHANGED <<archive, bounds>> /\ Wrote(s, d) /\ d.there
              /\ job'[p] = [job[p] EXCEPT !.at = "event"]
        BY <2>1, SavesIs
      <3>2. job'[p].heir = job[p].heir
        BY <3>1, JobAt DEF AJob
      <3>3. QED
        BY <1>1, <3>1, <3>2
    <2>2. CASE Sows(p)
      <3>1. PICK s \in Slugs, d \in Directory :
              /\ Moves(p) /\ UNCHANGED <<archive, bounds>> /\ Wrote(s, d) /\ d.there
              /\ job[p].heir = Nothing
        BY <2>2, SowsIs
      <3>2. QED
        BY <1>1, <3>1
    <2>3. CASE Tells(p)
      <3>1. PICK s \in Slugs, d \in Directory :
              /\ Moves(p) /\ UNCHANGED <<archive, bounds>> /\ Wrote(s, d) /\ d.there
              /\ job'[p].heir = job[p].heir
        BY <2>3, TellsIs
      <3>2. QED
        BY <1>1, <3>1
    <2>4. CASE OptsIn(p)
      <3>1. Moves(p) /\ UNCHANGED <<dir, archive, bounds>> /\ job[p].heir = Nothing
        BY <2>4, OptsInIs
      <3>2. QED
        BY <1>1, <3>1
    <2>5. CASE SavesMeta(p)
      <3>1. Moves(p) /\ UNCHANGED <<dir, archive, bounds>> /\ job'[p].heir = job[p].heir
        BY <2>5, SavesMetaIs
      <3>2. QED
        BY <1>1, <3>1
    <2>6. CASE Archives(p)
      <3>1. /\ Moves(p) /\ UNCHANGED bounds /\ job'[p].heir = job[p].heir /\ job[p].slug \in Slugs
            /\ UNCHANGED <<dir, archive>> \/ Moved(job[p].slug)
        BY <2>6, ArchivesIs
      <3>2. QED
        BY <1>1, <3>1
    <2>7. CASE Mints(p)
      <3>1. PICK d \in Directory :
              /\ Moves(p) /\ UNCHANGED <<archive, bounds>> /\ job[p].heir \in Slugs
              /\ Wrote(job[p].heir, d) /\ d.there
        BY <2>7, MintsIs
      <3>2. CASE job[p].heir = h
        BY <3>1, <3>2 DEF Minted, Wrote
      <3>3. CASE job[p].heir # h
        <4>1. dir[h].there \/ archive[h].there => dir'[h].there \/ archive'[h].there
          BY <3>1, PlacesStay
        <4>2. ASSUME NEW q \in Operators, job[q].heir = h
              PROVE  job'[q].heir = h
          BY <3>1, <3>3, <4>2 DEF Moves, Actors
        <4>3. QED
          BY <3>1, <4>1, <4>2 DEF Minted
      <3>4. QED
        BY <3>2, <3>3
    <2>8. CASE Launches(p)
      <3>1. PICK r \in Runs :
              /\ UNCHANGED <<dir, archive, bounds>> /\ job[p].heir = Nothing /\ job[r].heir = Nothing
              /\ \A q \in Actors \ {p, r} : job'[q] = job[q]
        BY <2>8, LaunchesIs
      <3>2. ASSUME NEW q \in Operators, job[q].heir = h
            PROVE  job'[q].heir = h
        BY <3>1, <3>2, FleetAssumption DEF Actors
      <3>3. QED
        BY <3>1, <3>2 DEF Minted
    <2>9. CASE Records(p)
      <3>1. PICK s \in Slugs, d \in Directory :
              /\ Moves(p) /\ UNCHANGED <<archive, bounds>> /\ Wrote(s, d) /\ d.there
              /\ job[p].heir = Nothing
        BY <2>9, RecordsIs
      <3>2. QED
        BY <1>1, <3>1
    <2>10. CASE Dies(p)
      BY <2>10, DiesIs DEF Minted
    <2>11. CASE RunIsLost(p)
      <3>1. /\ Moves(p) /\ UNCHANGED <<dir, archive>> /\ job[p].heir = Nothing
            /\ bounds.faults > 0 => bounds'.faults > 0
        BY <2>11, LostIs
      <3>2. ASSUME NEW q \in Operators, job[q].heir = h
            PROVE  job'[q].heir = h
        <4>1. q # p /\ q \in Actors
          BY <3>1, <3>2, FleetAssumption DEF Actors
        <4>2. QED
          BY <3>1, <3>2, <4>1 DEF Moves
      <3>3. QED
        BY <1>1, <3>1, <3>2 DEF Minted
    <2>12. QED
      BY <1>3, <2>1, <2>2, <2>3, <2>4, <2>5, <2>6, <2>7, <2>8, <2>9, <2>10, <2>11 DEF Writes
  <1>4. ASSUME NEW p \in Operators, Enters(p)
        PROVE  Minted(h)'
    BY <1>1, <1>4 DEF Enters, Actors
  <1>5. ASSUME NEW p \in Operators, Commands(p) \/ InitStarts(p)
        PROVE  Enters(p)
    BY <1>5, HookTellsIs, SeedStartsIs, CloseStartsIs, SpawnsIs, InitStartsIs DEF Commands
  <1>6. ASSUME NEW r \in Runs, RunEnds(r)
        PROVE  Minted(h)'
    <2>1. PICK s \in Slugs, d \in Directory :
              /\ Moves(r) /\ UNCHANGED <<archive, bounds>> /\ Wrote(s, d) /\ d.there
              /\ job[r].heir = Nothing
      BY <1>6, RunEndsIs
    <2>2. r \in Actors
      BY DEF Actors
    <2>3. QED
      BY <1>1, <2>1, <2>2
  <1>7. QED
    BY <1>2, <1>3, <1>4, <1>5, <1>6, NextIs

LEMMA MintStep ==
  ASSUME TypeInv, MetaInv, MintInv, Next
  PROVE  MintInv'
  <1>1. \A h \in meta.roster : h \in Slugs /\ Minted(h)'
    BY MintedStays DEF MintInv, TypeInv, Meta
  <1>2. \A q \in Actors : Closing(job[q]) => \A h \in job[q].meta.roster : Minted(h)'
    BY MintedStays, JobAt DEF MintInv, Meta
  <1>3. ASSUME meta' = meta,
               \A q \in Actors : Closing(job'[q]) => Closing(job[q]) /\ job'[q].meta = job[q].meta
        PROVE  MintInv'
    BY <1>1, <1>2, <1>3 DEF MintInv
  <1>4. CASE Unfiled
    BY <1>3, <1>4 DEF Unfiled
  <1>5. ASSUME NEW p \in Operators, InitStarts(p)
        PROVE  MintInv'
    <2>1. Enters(p) /\ ~Closing(job'[p])
      BY <1>5, InitStartsIs
    <2>2. QED
      BY <1>3, <2>1 DEF Enters, Moves
  <1>6. ASSUME NEW p \in Operators, NEW s \in Slugs, CloseStarts(p, s)
        PROVE  MintInv'
    <2>1. Enters(p) /\ job'[p].meta = meta
      BY <1>6, CloseStartsIs
    <2>2. meta' = meta /\ \A q \in Actors \ {p} : job'[q] = job[q]
      BY <2>1 DEF Enters, Moves
    <2>3. QED
      BY <1>1, <1>2, <2>1, <2>2 DEF MintInv
  <1>7. ASSUME NEW p \in Actors, OptsIn(p)
        PROVE  MintInv'
    <2>1. Moves(p) /\ meta'.roster = {} /\ job'[p].at \in {"idle", "scaffold"}
      BY <1>7, OptsInIs
    <2>2. \A q \in Actors : Closing(job'[q]) => Closing(job[q]) /\ job'[q].meta = job[q].meta
      BY <2>1 DEF Moves, Closing
    <2>3. QED
      BY <1>2, <2>1, <2>2 DEF MintInv
  <1>8. ASSUME NEW p \in Actors, SavesMeta(p)
        PROVE  MintInv'
    <2>1. /\ Moves(p) /\ p \in Operators /\ Closing(job[p]) /\ ~Closing(job'[p])
          /\ job'[p].heir = job[p].heir
          /\ meta'.roster = (job[p].meta.roster \ {job[p].slug}) \cup ({job[p].heir} \ {Nothing})
      BY <1>8, SavesMetaIs
    <2>2. \A q \in Actors : Closing(job'[q]) => Closing(job[q]) /\ job'[q].meta = job[q].meta
      BY <2>1 DEF Moves
    <2>3. Minted(job[p].heir)'
      BY <2>1 DEF Minted
    <2>4. QED
      BY <1>2, <2>1, <2>2, <2>3 DEF MintInv
  <1>9. ASSUME NEW p \in Actors, Archives(p)
        PROVE  MintInv'
    <2>1. Moves(p) /\ meta' = meta /\ ~Closing(job'[p])
      BY <1>9, ArchivesIs
    <2>2. QED
      BY <1>3, <2>1 DEF Moves
  <1>10. QED
    BY <1>4, <1>5, <1>6, <1>7, <1>8, <1>9, UnfiledSteps DEF Files

-----------------------------------------------------------------------------
(* The ledgers *)

StartIn(rows, r) == \E n \in DOMAIN rows : rows[n].run = r /\ ~IsEnd(rows[n])
EndIn(rows, r) == \E n \in DOMAIN rows : rows[n].run = r /\ IsEnd(rows[n])

LEMMA RowsJoin ==
  ASSUME NEW S, NEW a \in Seq(S), NEW b \in Seq(S), NEW r
  PROVE  EndIn(a \o b, r) <=> EndIn(a, r) \/ EndIn(b, r)
  <1> DEFINE c == a \o b
  <1>1. /\ Len(a) \in Nat /\ Len(b) \in Nat /\ Len(c) = Len(a) + Len(b)
        /\ DOMAIN a = 1..Len(a) /\ DOMAIN b = 1..Len(b) /\ DOMAIN c = 1..Len(a) + Len(b)
    OBVIOUS
  <1>2. /\ \A n \in 1..Len(a) : c[n] = a[n]
        /\ \A n \in 1..Len(b) : c[Len(a) + n] = b[n]
    OBVIOUS
  <1> HIDE DEF c
  <1>3. ASSUME EndIn(c, r)
        PROVE  EndIn(a, r) \/ EndIn(b, r)
    <2>1. PICK n \in DOMAIN c : c[n].run = r /\ IsEnd(c[n])
      BY <1>3 DEF EndIn
    <2>2. CASE n <= Len(a)
      <3>1. n \in DOMAIN a /\ c[n] = a[n]
        BY <1>1, <1>2, <2>2
      <3>2. QED
        BY <2>1, <3>1 DEF EndIn
    <2>3. CASE n > Len(a)
      <3>1. n - Len(a) \in 1..Len(b) /\ Len(a) + (n - Len(a)) = n
        BY <1>1, <2>3
      <3>2. n - Len(a) \in DOMAIN b /\ c[n] = b[n - Len(a)]
        BY <1>1, <1>2, <3>1
      <3>3. QED
        BY <2>1, <3>2 DEF EndIn
    <2>4. QED
      BY <1>1, <2>2, <2>3
  <1>4. ASSUME NEW n \in DOMAIN a, a[n].run = r, IsEnd(a[n])
        PROVE  EndIn(c, r)
    <2>1. n \in DOMAIN c /\ c[n] = a[n]
      BY <1>1, <1>2
    <2>2. QED
      BY <1>4, <2>1 DEF EndIn
  <1>5. ASSUME NEW n \in DOMAIN b, b[n].run = r, IsEnd(b[n])
        PROVE  EndIn(c, r)
    <2>1. Len(a) + n \in DOMAIN c /\ c[Len(a) + n] = b[n]
      BY <1>1, <1>2
    <2>2. QED
      BY <1>5, <2>1 DEF EndIn
  <1>6. QED
    BY <1>3, <1>4, <1>5 DEF EndIn, c

LEMMA RowsGrow ==
  ASSUME NEW S, NEW a \in Seq(S), NEW x \in S, NEW r
  PROVE  /\ EndIn(Append(a, x), r) <=> EndIn(a, r) \/ (x.run = r /\ IsEnd(x))
         /\ StartIn(Append(a, x), r) <=> StartIn(a, r) \/ (x.run = r /\ ~IsEnd(x))
  <1> DEFINE c == Append(a, x)
  <1>1. /\ Len(a) \in Nat /\ DOMAIN a = 1..Len(a) /\ DOMAIN c = 1..Len(a) + 1
        /\ \A n \in 1..Len(a) : c[n] = a[n]
        /\ c[Len(a) + 1] = x
    OBVIOUS
  <1> HIDE DEF c
  <1>2. \A n : n \in DOMAIN c <=> n \in DOMAIN a \/ n = Len(a) + 1
    BY <1>1
  <1>3. \A n \in DOMAIN a : c[n] = a[n]
    BY <1>1
  <1>4. /\ EndIn(c, r) <=> EndIn(a, r) \/ (x.run = r /\ IsEnd(x))
        /\ StartIn(c, r) <=> StartIn(a, r) \/ (x.run = r /\ ~IsEnd(x))
    BY <1>1, <1>2, <1>3 DEF EndIn, StartIn
  <1>5. QED
    BY <1>4 DEF c

(* What is known of a run, by where its rows are.                          *)
LEMMA EndedIs ==
  \A r : Ended(r) <=> \E s \in Slugs : EndIn(dir[s].rows, r) \/ EndIn(archive[s].rows, r)
  BY DEF Ended, EndIn

LEMMA EndedWas ==
  \A r : Ended(r)' <=> \E s \in Slugs : EndIn(dir'[s].rows, r) \/ EndIn(archive'[s].rows, r)
  BY DEF Ended, EndIn, IsEnd

LEMMA UnendedIs ==
  \A r, s : r \in Unended(s) <=> StartIn(dir[s].rows, r) /\ ~EndIn(dir[s].rows, r)
  BY DEF Unended, RowsOf, StartIn, EndIn

LEMMA UnendedWas ==
  \A r, s : r \in Unended(s)' <=> StartIn(dir'[s].rows, r) /\ ~EndIn(dir'[s].rows, r)
  BY DEF Unended, RowsOf, StartIn, EndIn, IsEnd

LEMMA UnendedRuns ==
  ASSUME TypeInv, NEW s \in Slugs
  PROVE  Unended(s) \subseteq Runs
  <1>1. dir[s].rows \in Seq(RunRow)
    BY StoredIs DEF Directory
  <1>2. \A n \in DOMAIN dir[s].rows : dir[s].rows[n] \in RunRow
    BY <1>1
  <1>3. \A n \in DOMAIN dir[s].rows : dir[s].rows[n].run \in Runs
    BY <1>2 DEF RunRow
  <1>4. \A r : StartIn(dir[s].rows, r) => r \in Runs
    BY <1>3 DEF StartIn
  <1>5. QED
    BY <1>4, UnendedIs

-----------------------------------------------------------------------------
(* Runs *)

(* A step that starts, launches, records, ends, loses and kills no run.    *)
Quiet ==
    /\ \A r : Ended(r)' <=> Ended(r)
    /\ \A r \in Runs : /\ job'[r].do = job[r].do /\ (r \in mixed' <=> r \in mixed)
                       /\ job'[r].at = "work" <=> job[r].at = "work"
    /\ \A q \in Operators : /\ job'[q].run = job[q].run
                            /\ job'[q].at = "launch" <=> job[q].at = "launch"
                            /\ job'[q].at = "row" <=> job[q].at = "row"
    /\ "cap" \in mixed => "cap" \in mixed'
    /\ "cap" \in mixed' \/ \A s \in Slugs : \A r : r \in Unended(s) => r \in Unended(s)'

LEMMA QuietKeepsRuns ==
  ASSUME TypeInv, RunInv, Quiet
  PROVE  RunInv'
  <1>1. \A r \in Runs : Ended(r)' <=> job'[r].do = "run" /\ job'[r].at # "work" /\ r \notin mixed'
    BY DEF RunInv, Quiet, At
  <1>2. \A r \in Runs : r \in mixed' => job'[r].do = "run" /\ job'[r].at # "work"
    BY DEF RunInv, Quiet, At
  <1>3. ASSUME NEW p \in Operators, job'[p].at = "launch"
        PROVE  job'[job'[p].run].do = "none"
    <2>1. job[p].at = "launch" /\ job'[p].run = job[p].run
      BY <1>3 DEF Quiet
    <2>2. job[p].run \in Runs
      <3>1. p \in Actors
        BY DEF Actors
      <3>2. Fits(p, job[p]) /\ job[p].run \in Runs \cup {Nothing}
        BY <3>1, JobAt
      <3>3. QED
        BY <2>1, <3>2 DEF Fits
    <2>3. job[job[p].run].do = "none"
      BY <2>1 DEF RunInv, At
    <2>4. QED
      BY <2>1, <2>2, <2>3 DEF Quiet
  <1>4. \A p, q \in Operators : job'[p].run # Nothing /\ job'[p].run = job'[q].run => p = q
    BY DEF RunInv, Quiet
  <1>5. QED
    BY <1>1, <1>2, <1>3, <1>4 DEF RunInv, At

LEMMA QuietKeepsCap ==
  ASSUME TypeInv, CapInv, Quiet
  PROVE  CapInv'
  <1> SUFFICES ASSUME "cap" \notin mixed' PROVE CapInv'
    BY DEF CapInv
  <1>1. Working' = Working /\ Launching' = Launching
    BY DEF Working, Launching, Quiet, At
  <1>2. "cap" \notin mixed
    BY DEF Quiet
  <1>3. \A p, q \in Launching' : p = q
    BY <1>1, <1>2 DEF CapInv
  <1>4. ASSUME NEW r \in Working'
        PROVE  \/ \E s \in Slugs : r \in Unended(s)'
               \/ \E p \in Operators : job'[p].at = "row" /\ job'[p].run = r
    <2>1. \/ \E s \in Slugs : r \in Unended(s)
          \/ \E p \in Operators : job[p].at = "row" /\ job[p].run = r
      BY <1>1, <1>2 DEF CapInv, At
    <2>2. QED
      BY <2>1 DEF Quiet
  <1>5. Cardinality(Working') <= MaxConcurrent
    BY <1>1, <1>2 DEF CapInv
  <1>6. (\E p \in Operators : job'[p].at = "launch") => Cardinality(Working') < MaxConcurrent
    BY <1>1, <1>2 DEF CapInv, Quiet, At
  <1>7. QED
    BY <1>3, <1>4, <1>5, <1>6 DEF CapInv, At

SameRows == \A s \in Slugs : dir'[s].rows = dir[s].rows /\ archive'[s].rows = archive[s].rows

(* An actor that is no runner at work, and holds no run before or after.   *)
LEMMA QuietMove ==
  ASSUME TypeInv, TypeInv', NEW p \in Actors, Moves(p), job[p].run = Nothing, job'[p].run = Nothing,
         p \in Runs => /\ job[p].do = "run" /\ job'[p].do = "run" /\ job[p].at # "idle"
                       /\ job[p].at # "work" /\ job'[p].at # "work",
         mixed \subseteq mixed', mixed' \cap Runs = mixed \cap Runs,
         SameRows
  PROVE  Quiet
  <1>1. \A r : Ended(r)' <=> Ended(r)
    BY EndedIs, EndedWas DEF SameRows
  <1>2. \A s \in Slugs : \A r : r \in Unended(s) => r \in Unended(s)'
    BY UnendedIs, UnendedWas DEF SameRows
  <1>3. \A r \in Runs : /\ job'[r].do = job[r].do /\ (r \in mixed' <=> r \in mixed)
                        /\ job'[r].at = "work" <=> job[r].at = "work"
    BY DEF Moves, Actors
  <1>4. Fits(p, job[p]) /\ Fits(p, job'[p])
    BY JobAt DEF Moves
  <1>5. job[p].at \notin {"launch", "row"} /\ job'[p].at \notin {"launch", "row"}
    BY <1>4 DEF Fits
  <1>6. \A q \in Operators : /\ job'[q].run = job[q].run
                             /\ job'[q].at = "launch" <=> job[q].at = "launch"
                             /\ job'[q].at = "row" <=> job[q].at = "row"
    BY <1>5 DEF Moves, Actors
  <1>7. QED
    BY <1>1, <1>2, <1>3, <1>6 DEF Quiet

LEMMA NotRuns ==
  /\ \A s \in Slugs : s \notin Runs
  /\ "cap" \notin Runs /\ "meta" \notin Runs
  BY FleetAssumption

(* A close that moves a directory into an archive takes its ledger along;  *)
(* a run that was still counted there is noted.                            *)
LEMMA QuietArchive ==
  ASSUME TypeInv, NEW p \in Actors, Archives(p)
  PROVE  Quiet
  <1> DEFINE s == job[p].slug
  <1>1. /\ TypeInv' /\ Moves(p) /\ p \notin Runs /\ s \in Slugs
        /\ job[p].run = Nothing /\ job'[p].run = Nothing
        /\ \/ UNCHANGED <<dir, archive, mixed>>
           \/ /\ Moved(s) /\ mixed' = IF Unended(s) # {} THEN mixed \cup {"cap"} ELSE mixed
    BY ArchivesIs
  <1>2. CASE UNCHANGED <<dir, archive, mixed>>
    BY <1>1, <1>2, QuietMove DEF SameRows
  <1>3. CASE /\ Moved(s) /\ mixed' = IF Unended(s) # {} THEN mixed \cup {"cap"} ELSE mixed
    <2>1. /\ \A t \in Slugs \ {s} : dir'[t] = dir[t] /\ archive'[t] = archive[t]
          /\ dir'[s] = Empty /\ archive'[s] = Archived(s)
      BY <1>1, <1>3 DEF Moved, TypeInv
    <2>2. /\ archive'[s].rows = archive[s].rows \o dir[s].rows
          /\ archive[s].rows \in Seq(RunRow) /\ dir[s].rows \in Seq(RunRow)
      BY <1>1, <1>3, <2>1, ArchivedIs, StoredIs DEF Moved, Directory
    <2>3. dir'[s].rows = <<>> /\ \A r : ~EndIn(<<>>, r)
      BY <2>1, EmptyIs DEF EndIn
    <2>4. \A r : EndIn(archive[s].rows \o dir[s].rows, r)
                    <=> EndIn(archive[s].rows, r) \/ EndIn(dir[s].rows, r)
      BY <2>2, RowsJoin
    <2>5. ASSUME NEW r, NEW t \in Slugs
          PROVE  EndIn(dir'[t].rows, r) \/ EndIn(archive'[t].rows, r)
                    <=> EndIn(dir[t].rows, r) \/ EndIn(archive[t].rows, r)
      <3>1. CASE t = s
        BY <2>2, <2>3, <2>4, <3>1
      <3>2. CASE t # s
        BY <2>1, <3>2
      <3>3. QED
        BY <3>1, <3>2
    <2>6. \A r : Ended(r)' <=> Ended(r)
      BY <2>5, EndedIs, EndedWas
    <2>7. "cap" \in mixed' \/ \A t \in Slugs : \A r : r \in Unended(t) => r \in Unended(t)'
      BY <1>3, <2>1, UnendedIs, UnendedWas
    <2>8. /\ \A r \in Runs : job'[r] = job[r] /\ (r \in mixed' <=> r \in mixed)
          /\ "cap" \in mixed => "cap" \in mixed'
      BY <1>1, <1>3, NotRuns DEF Moves, Actors
    <2>9. Fits(p, job[p]) /\ Fits(p, job'[p])
      BY <1>1, JobAt DEF Moves
    <2>10. job[p].at \notin {"launch", "row"} /\ job'[p].at \notin {"launch", "row"}
      BY <1>1, <2>9 DEF Fits
    <2>11. \A q \in Operators : /\ job'[q].run = job[q].run
                                /\ job'[q].at = "launch" <=> job[q].at = "launch"
                                /\ job'[q].at = "row" <=> job[q].at = "row"
      BY <1>1, <2>10 DEF Moves, Actors
    <2>12. QED
      BY <2>6, <2>7, <2>8, <2>11 DEF Quiet
  <1>4. QED
    BY <1>1, <1>2, <1>3

LEMMA QuietCalm ==
  ASSUME TypeInv, TypeInv', NEW p \in Actors, Calm(p)
  PROVE  Quiet
  <1>1. SameRows
    BY DEF Calm, SameRows
  <1>2. QED
    BY <1>1, QuietMove DEF Calm

LEMMA QuietWrites ==
  ASSUME TypeInv, NEW p \in Actors,
         Saves(p) \/ Sows(p) \/ Tells(p) \/ OptsIn(p) \/ SavesMeta(p) \/ Mints(p)
  PROVE  Quiet
  <1>1. ASSUME NEW s \in Slugs, NEW d, Wrote(s, d), d.rows = dir[s].rows, archive' = archive
        PROVE  SameRows
    BY <1>1 DEF Wrote, SameRows
  <1>2. ASSUME NEW s \in Slugs \cup {"meta"}, mixed' \in {mixed, mixed \cup {s}}
        PROVE  mixed \subseteq mixed' /\ mixed' \cap Runs = mixed \cap Runs
    BY <1>2, NotRuns
  <1>3. CASE Saves(p)
    <2>1. PICK s \in Slugs, d \in Directory :
            /\ TypeInv' /\ Moves(p) /\ archive' = archive /\ job[p].at = "save"
            /\ job'[p] = [job[p] EXCEPT !.at = "event"]
            /\ Wrote(s, d) /\ d.rows = dir[s].rows /\ mixed' \in {mixed, mixed \cup {s}}
      BY <1>3, SavesIs
    <2>2. job[p] \in AJob /\ Fits(p, job[p])
      BY JobAt
    <2>3. job[p].run = Nothing /\ p \notin Runs /\ job'[p].run = Nothing
      BY <2>1, <2>2 DEF Fits, AJob
    <2>4. QED
      BY <1>1, <1>2, <2>1, <2>3, QuietMove
  <1>4. CASE Sows(p)
    <2>1. PICK s \in Slugs, d \in Directory :
            /\ TypeInv' /\ Moves(p) /\ archive' = archive /\ p \notin Runs
            /\ job[p].run = Nothing /\ job'[p].run = Nothing
            /\ Wrote(s, d) /\ d.rows = dir[s].rows /\ mixed' \in {mixed, mixed \cup {s}}
      BY <1>4, SowsIs
    <2>2. QED
      BY <1>1, <1>2, <2>1, QuietMove
  <1>5. CASE Tells(p)
    <2>1. PICK s \in Slugs, d \in Directory :
            /\ TypeInv' /\ Moves(p) /\ archive' = archive /\ p \notin Runs
            /\ job[p].run = Nothing /\ job'[p].run = Nothing
            /\ Wrote(s, d) /\ d.rows = dir[s].rows /\ mixed' = mixed
      BY <1>5, TellsIs
    <2>2. QED
      BY <1>1, <2>1, QuietMove
  <1>6. CASE OptsIn(p)
    <2>1. /\ TypeInv' /\ Moves(p) /\ UNCHANGED <<dir, archive, mixed>> /\ p \notin Runs
          /\ job[p].run = Nothing /\ job'[p].run = Nothing
      BY <1>6, OptsInIs
    <2>2. SameRows
      BY <2>1 DEF SameRows
    <2>3. QED
      BY <2>1, <2>2, QuietMove
  <1>7. CASE SavesMeta(p)
    <2>1. /\ TypeInv' /\ Moves(p) /\ UNCHANGED <<dir, archive>> /\ p \notin Runs
          /\ job[p].run = Nothing /\ job'[p].run = Nothing
          /\ mixed' \in {mixed, mixed \cup {"meta"}}
      BY <1>7, SavesMetaIs
    <2>2. SameRows
      BY <2>1 DEF SameRows
    <2>3. QED
      BY <1>2, <2>1, <2>2, QuietMove
  <1>8. CASE Mints(p)
    <2>1. PICK d \in Directory :
            /\ TypeInv' /\ Moves(p) /\ archive' = archive /\ p \notin Runs /\ mixed' = mixed
            /\ job[p].run = Nothing /\ job'[p].run = Nothing /\ job[p].heir \in Slugs
            /\ Wrote(job[p].heir, d) /\ d.rows = dir[job[p].heir].rows
      BY <1>8, MintsIs
    <2>2. QED
      BY <1>1, <2>1, QuietMove
  <1>9. QED
    BY <1>3, <1>4, <1>5, <1>6, <1>7, <1>8

(* The commands but spawn and resume.                                      *)
LEMMA QuietCommands ==
  ASSUME TypeInv, NEW p \in Operators,
         \/ InitStarts(p)
         \/ \E s \in Slugs : HookTells(p, s) \/ SeedStarts(p, s) \/ CloseStarts(p, s)
  PROVE  Quiet
  <1>1. p \in Actors
    BY DEF Actors
  <1>2. \E s \in Slugs \cup {"meta"} :
           /\ TypeInv' /\ Enters(p) /\ job'[p].run = Nothing
           /\ mixed' \in {mixed, mixed \cup {s}}
    <2>1. CASE InitStarts(p)
      BY <2>1, InitStartsIs
    <2>2. ASSUME NEW s \in Slugs, HookTells(p, s)
          PROVE  TypeInv' /\ Enters(p) /\ job'[p].run = Nothing /\ mixed' = mixed
      BY <2>2, HookTellsIs
    <2>3. ASSUME NEW s \in Slugs, SeedStarts(p, s)
          PROVE  /\ TypeInv' /\ Enters(p) /\ job'[p].run = Nothing
                 /\ mixed' \in {mixed, mixed \cup {s}}
      BY <2>3, SeedStartsIs
    <2>4. ASSUME NEW s \in Slugs, CloseStarts(p, s)
          PROVE  /\ TypeInv' /\ Enters(p) /\ job'[p].run = Nothing
                 /\ mixed' \in {mixed, mixed \cup {"meta"}}
      BY <2>4, CloseStartsIs
    <2>5. QED
      BY <2>1, <2>2, <2>3, <2>4
  <1>3. mixed \subseteq mixed' /\ mixed' \cap Runs = mixed \cap Runs
    BY <1>2, NotRuns
  <1>4. SameRows
    BY <1>2 DEF Enters, SameRows
  <1>5. QED
    BY <1>1, <1>2, <1>3, <1>4, QuietMove DEF Enters

LEMMA WorkingIs ==
  /\ Working \subseteq Runs /\ IsFiniteSet(Working) /\ Cardinality(Working) \in Nat
  /\ MaxConcurrent \in Nat /\ IsFiniteSet(Runs)
  /\ \A W \in SUBSET Runs : IsFiniteSet(W) /\ Cardinality(W) \in Nat
  /\ \A V, W \in SUBSET Runs : V \subseteq W => Cardinality(V) <= Cardinality(W)
  <1>1. IsFiniteSet(Runs) /\ MaxConcurrent \in Nat /\ Working \subseteq Runs
    BY FleetAssumption DEF Working
  <1>2. \A W \in SUBSET Runs : IsFiniteSet(W) /\ Cardinality(W) \in Nat
    BY <1>1, FS_Subset, FS_CardinalityType
  <1>3. \A V, W \in SUBSET Runs : V \subseteq W => Cardinality(V) <= Cardinality(W)
    BY <1>2, FS_Subset
  <1>4. QED
    BY <1>1, <1>2, <1>3

LEMMA WorkingWas ==
  /\ \A r : r \in Working' <=> r \in Runs /\ job'[r].at = "work"
  /\ \A r : r \in Working <=> r \in Runs /\ job[r].at = "work"
  /\ \A p : p \in Launching' <=> p \in Operators /\ job'[p].at \in {"launch", "row"}
  /\ \A p : p \in Launching <=> p \in Operators /\ job[p].at \in {"launch", "row"}
  BY DEF Working, Launching, At

(* What the two invariants say once the step is known.                     *)
LEMMA RunInvIs ==
  ASSUME RunInv
  PROVE  /\ \A r \in Runs : Ended(r) <=> job[r].do = "run" /\ job[r].at # "work" /\ r \notin mixed
         /\ \A r \in Runs : r \in mixed => job[r].do = "run" /\ job[r].at # "work"
         /\ \A p \in Operators : job[p].at = "launch" => job[job[p].run].do = "none"
         /\ \A p, q \in Operators : job[p].run # Nothing /\ job[p].run = job[q].run => p = q
  BY DEF RunInv, At

LEMMA RunInvWas ==
  ASSUME \A r \in Runs : Ended(r)' <=> job'[r].do = "run" /\ job'[r].at # "work" /\ r \notin mixed',
         \A r \in Runs : r \in mixed' => job'[r].do = "run" /\ job'[r].at # "work",
         \A p \in Operators : job'[p].at = "launch" => job'[job'[p].run].do = "none",
         \A p, q \in Operators : job'[p].run # Nothing /\ job'[p].run = job'[q].run => p = q
  PROVE  RunInv'
  BY DEF RunInv, At

Counted(r) == \/ \E s \in Slugs : r \in Unended(s)
              \/ \E p \in Operators : job[p].at = "row" /\ job[p].run = r

LEMMA CapInvIs ==
  ASSUME CapInv, "cap" \notin mixed
  PROVE  /\ \A p, q \in Launching : p = q
         /\ \A r \in Working : Counted(r)
         /\ Cardinality(Working) <= MaxConcurrent
         /\ \A p \in Operators : job[p].at = "launch" => Cardinality(Working) < MaxConcurrent
  BY DEF CapInv, Counted, At, Launching

LEMMA CapInvWas ==
  ASSUME "cap" \notin mixed' =>
         /\ \A p, q \in Launching' : p = q
         /\ \A r \in Working' : Counted(r)'
         /\ Cardinality(Working') <= MaxConcurrent
         /\ \A p \in Operators : job'[p].at = "launch" => Cardinality(Working') < MaxConcurrent
  PROVE  CapInv'
  BY DEF CapInv, Counted, At, Launching

LEMMA CountedWas ==
  \A r : Counted(r)' <=> \/ \E s \in Slugs : r \in Unended(s)'
                         \/ \E p \in Operators : job'[p].at = "row" /\ job'[p].run = r
  BY DEF Counted

(* Who launches or records holds a run; a runner holds none.               *)
LEMMA HoldersAre ==
  ASSUME TypeInv, NEW p \in Operators
  PROVE  /\ p \in Actors /\ p \notin Runs
         /\ job[p].run # Nothing => job[p].run \in Runs
         /\ job[p].run # Nothing <=> job[p].at \in {"launch", "row"}
  <1>1. p \in Actors
    BY DEF Actors
  <1>2. Fits(p, job[p]) /\ job[p].run \in Runs \cup {Nothing} /\ p \notin Runs
    BY <1>1, JobAt
  <1>3. QED
    BY <1>1, <1>2 DEF Fits

LEMMA RunnersAre ==
  ASSUME TypeInv, NEW r \in Runs
  PROVE  r \in Actors /\ r \notin Operators /\ (job[r].at # "idle" => job[r].do = "run")
  <1>1. r \in Actors /\ r \notin Operators
    BY FleetAssumption DEF Actors
  <1>2. Fits(r, job[r])
    BY <1>1, JobAt
  <1>3. QED
    BY <1>1, <1>2 DEF Fits

(* A spawn counts the runs that go on, and picks one that nobody holds.    *)
LEMMA SpawnKeeps ==
  ASSUME TypeInv, RunInv, CapInv, NEW p \in Operators, NEW s \in Slugs,
         SpawnStarts(p, s) \/ ResumeStarts(p, s)
  PROVE  RunInv' /\ CapInv'
  <1>1. /\ TypeInv' /\ Enters(p) /\ BelowCap
        /\ job'[p].at = "launch" /\ job'[p].run \in Runs /\ Unused(job'[p].run)
        /\ mixed' = IF \E q \in Actors \ {p} : job[q].at \in {"launch", "row"}
                    THEN mixed \cup {"cap"} ELSE mixed
    BY SpawnsIs
  <1>2. /\ UNCHANGED <<dir, archive>> /\ \A q \in Actors \ {p} : job'[q] = job[q]
        /\ job[p].at = "idle"
    BY <1>1 DEF Enters, Moves
  <1>3. /\ \A r : Ended(r)' <=> Ended(r)
        /\ \A r, t : r \in Unended(t)' <=> r \in Unended(t)
    BY <1>2, EndedIs, EndedWas, UnendedIs, UnendedWas
  <1>4. \A r \in Runs : job'[r] = job[r] /\ (r \in mixed' <=> r \in mixed)
    BY <1>1, <1>2, RunnersAre, NotRuns
  <1>5. \A q \in Operators \ {p} : job'[q] = job[q]
    BY <1>2, HoldersAre
  <1>6. RunInv'
    <2>1. /\ \A r \in Runs : Ended(r)' <=> /\ job'[r].do = "run" /\ job'[r].at # "work"
                                           /\ r \notin mixed'
          /\ \A r \in Runs : r \in mixed' => job'[r].do = "run" /\ job'[r].at # "work"
      BY <1>3, <1>4, RunInvIs
    <2>2. ASSUME NEW q \in Operators, job'[q].at = "launch"
          PROVE  job'[job'[q].run].do = "none"
      <3>1. CASE q = p
        BY <1>1, <1>4, <3>1 DEF Unused
      <3>2. CASE q # p
        BY <1>4, <1>5, <2>2, <3>2, RunInvIs, HoldersAre
      <3>3. QED
        BY <3>1, <3>2
    <2>3. ASSUME NEW q1 \in Operators, NEW q2 \in Operators, job'[q1].run # Nothing,
                 job'[q1].run = job'[q2].run
          PROVE  q1 = q2
      <3>1. \A q \in Operators : job[q].run # job'[p].run
        BY <1>1 DEF Unused
      <3>2. QED
        BY <1>5, <2>3, <3>1, RunInvIs
    <2>4. QED
      BY <2>1, <2>2, <2>3, RunInvWas
  <1>7. CapInv'
    <2>1. SUFFICES ASSUME "cap" \notin mixed'
          PROVE  /\ \A q1, q2 \in Launching' : q1 = q2
                 /\ \A r \in Working' : Counted(r)'
                 /\ Cardinality(Working') < MaxConcurrent
      BY CapInvWas, WorkingIs, WorkingWas, <1>4
    <2>2. "cap" \notin mixed /\ \A q \in Actors \ {p} : job[q].at \notin {"launch", "row"}
      BY <1>1, <2>1
    <2>3. \A q \in Operators : job[q].at \notin {"launch", "row"}
      BY <1>2, <2>2, HoldersAre
    <2>4. Working' = Working
      BY <1>4, WorkingWas
    <2>5. \A r \in Working : \E t \in Slugs : r \in Unended(t)
      BY <2>2, <2>3, CapInvIs DEF Counted
    <2>6. Working \subseteq LiveRuns /\ LiveRuns \in SUBSET Runs
      BY <2>5, WorkingWas, UnendedRuns DEF LiveRuns, Alive
    <2>7. Cardinality(Working) <= Cardinality(LiveRuns) /\ Cardinality(LiveRuns) < MaxConcurrent
      BY <1>1, <2>6, WorkingIs DEF BelowCap
    <2>8. Cardinality(Working') < MaxConcurrent
      BY <2>4, <2>6, <2>7, WorkingIs
    <2>9. \A r \in Working' : Counted(r)'
      BY <1>3, <2>4, <2>5, CountedWas
    <2>10. \A q1, q2 \in Launching' : q1 = q2
      BY <1>5, <2>3, WorkingWas
    <2>11. QED
      BY <2>8, <2>9, <2>10
  <1>8. QED
    BY <1>6, <1>7

(* The runner starts: one more works, and its spawn is about to record it. *)
LEMMA LaunchKeeps ==
  ASSUME TypeInv, RunInv, CapInv, NEW p \in Actors, Launches(p)
  PROVE  RunInv' /\ CapInv'
  <1>1. PICK r \in Runs :
          /\ TypeInv' /\ UNCHANGED <<dir, archive, mixed>>
          /\ r = job[p].run /\ p \in Operators /\ p # r /\ job[p].at = "launch"
          /\ \A q \in Actors \ {p, r} : job'[q] = job[q]
          /\ job'[r].at = "work" /\ job'[r].do = "run"
          /\ job'[p].at = "row" /\ job'[p].run = r
    BY LaunchesIs
  <1>2. /\ \A x : Ended(x)' <=> Ended(x)
        /\ \A x, t : x \in Unended(t)' <=> x \in Unended(t)
    BY <1>1, EndedIs, EndedWas, UnendedIs, UnendedWas
  <1>3. /\ \A x \in Runs \ {r} : job'[x] = job[x]
        /\ \A q \in Operators \ {p} : job'[q] = job[q]
    BY <1>1, HoldersAre, RunnersAre
  <1>4. /\ job[r].do = "none" /\ job[r].at = "idle" /\ r \notin mixed /\ ~Ended(r)
    BY <1>1, RunInvIs, RunnersAre
  <1>5. r # Nothing
    BY FleetAssumption
  <1>6. RunInv'
    <2>1. /\ \A x \in Runs : Ended(x)' <=> /\ job'[x].do = "run" /\ job'[x].at # "work"
                                           /\ x \notin mixed'
          /\ \A x \in Runs : x \in mixed' => job'[x].do = "run" /\ job'[x].at # "work"
      BY <1>1, <1>2, <1>3, <1>4, RunInvIs
    <2>2. ASSUME NEW q \in Operators, job'[q].at = "launch"
          PROVE  job'[job'[q].run].do = "none"
      <3>1. q # p /\ job'[q] = job[q]
        BY <1>1, <1>3, <2>2
      <3>2. job[q].run # r
        BY <1>1, <1>5, <3>1, RunInvIs
      <3>3. job[q].run \in Runs /\ job[job[q].run].do = "none"
        BY <2>2, <3>1, HoldersAre, RunInvIs
      <3>4. QED
        BY <1>3, <3>1, <3>2, <3>3
    <2>3. ASSUME NEW q1 \in Operators, NEW q2 \in Operators, job'[q1].run # Nothing,
                 job'[q1].run = job'[q2].run
          PROVE  q1 = q2
      <3>1. \A q \in Operators : job'[q].run = job[q].run
        BY <1>1, <1>3
      <3>2. QED
        BY <2>3, <3>1, RunInvIs
    <2>4. QED
      BY <2>1, <2>2, <2>3, RunInvWas
  <1>7. CapInv'
    <2>1. SUFFICES ASSUME "cap" \notin mixed'
          PROVE  /\ \A q1, q2 \in Launching' : q1 = q2
                 /\ \A x \in Working' : Counted(x)'
                 /\ Cardinality(Working') <= MaxConcurrent
                 /\ \A q \in Operators : job'[q].at # "launch"
      BY CapInvWas
    <2>2. "cap" \notin mixed
      BY <1>1, <2>1
    <2>3. \A q \in Operators \ {p} : job[q].at \notin {"launch", "row"}
      BY <1>1, <2>2, CapInvIs, WorkingWas
    <2>4. \A q \in Operators \ {p} : job'[q].at \notin {"launch", "row"}
      BY <1>3, <2>3
    <2>5. Working' = Working \cup {r} /\ r \notin Working
      BY <1>1, <1>3, <1>4, WorkingWas
    <2>6. Cardinality(Working') = Cardinality(Working) + 1
      BY <2>5, WorkingIs, FS_AddElement
    <2>7. Cardinality(Working) < MaxConcurrent
      BY <1>1, <2>2, CapInvIs
    <2>8. Cardinality(Working') <= MaxConcurrent
      BY <2>6, <2>7, WorkingIs
    <2>9. ASSUME NEW x \in Working'
          PROVE  Counted(x)'
      <3>1. CASE x = r
        BY <1>1, <3>1, CountedWas
      <3>2. CASE x # r
        <4>1. \E t \in Slugs : x \in Unended(t)
          BY <1>1, <2>2, <2>3, <2>5, <3>2, CapInvIs DEF Counted
        <4>2. QED
          BY <1>2, <4>1, CountedWas
      <3>3. QED
        BY <3>1, <3>2
    <2>10. QED
      BY <1>1, <2>4, <2>8, <2>9, WorkingWas
  <1>8. QED
    BY <1>6, <1>7

(* The row of a run's start is no end, and from then on the run is counted.*)
LEMMA RecordKeeps ==
  ASSUME TypeInv, RunInv, CapInv, NEW p \in Actors, Records(p)
  PROVE  RunInv' /\ CapInv'
  <1>1. PICK s \in Slugs, d \in Directory, x \in RunRow :
          /\ Moves(p) /\ archive' = archive /\ mixed' = mixed
          /\ p \in Operators /\ p \notin Runs /\ job[p].at = "row" /\ x.run = job[p].run
          /\ ~IsEnd(x) /\ Wrote(s, d) /\ d.rows = Append(dir[s].rows, x)
          /\ job'[p].at = "idle" /\ job'[p].run = Nothing
    BY RecordsIs
  <1>2. dir[s].rows \in Seq(RunRow)
    BY StoredIs DEF Directory
  <1>3. \A r : /\ EndIn(dir'[s].rows, r) <=> EndIn(dir[s].rows, r)
               /\ StartIn(dir'[s].rows, r) <=> StartIn(dir[s].rows, r) \/ x.run = r
    BY <1>1, <1>2, RowsGrow DEF Wrote
  <1>4. \A t \in Slugs \ {s} : dir'[t] = dir[t]
    BY <1>1 DEF Wrote
  <1>5. \A r : Ended(r)' <=> Ended(r)
    BY <1>1, <1>3, <1>4, EndedIs, EndedWas
  <1>6. \A r, t : t \in Slugs /\ r \in Unended(t) => r \in Unended(t)'
    BY <1>3, <1>4, UnendedIs, UnendedWas
  <1>7. /\ \A r \in Runs : job'[r] = job[r]
        /\ \A q \in Operators \ {p} : job'[q] = job[q]
    BY <1>1, HoldersAre, RunnersAre DEF Moves
  <1>8. RunInv'
    <2>1. /\ \A r \in Runs : Ended(r)' <=> /\ job'[r].do = "run" /\ job'[r].at # "work"
                                           /\ r \notin mixed'
          /\ \A r \in Runs : r \in mixed' => job'[r].do = "run" /\ job'[r].at # "work"
      BY <1>1, <1>5, <1>7, RunInvIs
    <2>2. \A q \in Operators : job'[q].at = "launch" => job'[job'[q].run].do = "none"
      BY <1>1, <1>7, RunInvIs, HoldersAre
    <2>3. \A q1, q2 \in Operators :
            job'[q1].run # Nothing /\ job'[q1].run = job'[q2].run => q1 = q2
      BY <1>1, <1>7, RunInvIs
    <2>4. QED
      BY <2>1, <2>2, <2>3, RunInvWas
  <1>9. CapInv'
    <2>1. SUFFICES ASSUME "cap" \notin mixed
          PROVE  /\ \A q1, q2 \in Launching' : q1 = q2
                 /\ \A r \in Working' : Counted(r)'
                 /\ Cardinality(Working') <= MaxConcurrent
                 /\ \A q \in Operators : job'[q].at = "launch" => Cardinality(Working') < MaxConcurrent
      BY <1>1, CapInvWas
    <2>a. /\ \A r : r \in Working' <=> r \in Working
          /\ \A q : q \in Launching' => q \in Launching
      BY <1>1, <1>7, WorkingWas
    <2>2. Working' = Working /\ Launching' \subseteq Launching
      BY <2>a
    <2>3. ASSUME NEW r \in Working'
          PROVE  Counted(r)'
      <3>1. Counted(r) /\ r \in Runs /\ job[r].at = "work"
        BY <2>1, <2>2, CapInvIs, WorkingWas
      <3>2. CASE \E t \in Slugs : r \in Unended(t)
        BY <1>6, <3>2, CountedWas
      <3>3. CASE x.run = r
        <4>1. ~Ended(r)
          BY <3>1, RunInvIs
        <4>2. ~EndIn(dir[s].rows, r)
          BY <4>1, EndedIs
        <4>3. r \in Unended(s)'
          BY <1>3, <3>3, <4>2, UnendedWas
        <4>4. QED
          BY <4>3, CountedWas
      <3>4. CASE \E q \in Operators \ {p} : job[q].at = "row" /\ job[q].run = r
        BY <1>7, <3>4, CountedWas
      <3>5. QED
        BY <1>1, <3>1, <3>2, <3>3, <3>4 DEF Counted
    <2>4. \A q \in Operators : job'[q].at = "launch" => job[q].at = "launch"
      BY <1>1, <1>7
    <2>5. QED
      BY <2>1, <2>2, <2>3, <2>4, CapInvIs
  <1>10. QED
    BY <1>8, <1>9

(* A run ends with its row: it is counted no more, and the others still are.*)
LEMMA EndKeeps ==
  ASSUME TypeInv, RunInv, CapInv, NEW r \in Runs, RunEnds(r)
  PROVE  RunInv' /\ CapInv'
  <1>1. PICK s \in Slugs, d \in Directory, x \in RunRow :
          /\ Moves(r) /\ archive' = archive /\ mixed' = mixed
          /\ job[r].at = "work" /\ x.run = r /\ IsEnd(x)
          /\ Wrote(s, d) /\ d.rows = Append(dir[s].rows, x)
          /\ job'[r].at \in {"idle", "fold"} /\ job'[r].do = "run"
    BY RunEndsIs
  <1>2. dir[s].rows \in Seq(RunRow)
    BY StoredIs DEF Directory
  <1>3. \A y : /\ EndIn(dir'[s].rows, y) <=> EndIn(dir[s].rows, y) \/ y = r
               /\ StartIn(dir'[s].rows, y) <=> StartIn(dir[s].rows, y)
    BY <1>1, <1>2, RowsGrow DEF Wrote
  <1>4. \A t \in Slugs \ {s} : dir'[t] = dir[t]
    BY <1>1 DEF Wrote
  <1>5. \A y : Ended(y)' <=> Ended(y) \/ y = r
    BY <1>1, <1>3, <1>4, EndedIs, EndedWas
  <1>6. \A y, t : t \in Slugs /\ y # r /\ y \in Unended(t) => y \in Unended(t)'
    BY <1>3, <1>4, UnendedIs, UnendedWas
  <1>7. /\ \A y \in Runs \ {r} : job'[y] = job[y]
        /\ \A q \in Operators : job'[q] = job[q]
    BY <1>1, HoldersAre, RunnersAre DEF Moves
  <1>8. job[r].do = "run" /\ r \notin mixed
    BY <1>1, RunInvIs, RunnersAre
  <1>9. RunInv'
    <2>1. /\ \A y \in Runs : Ended(y)' <=> /\ job'[y].do = "run" /\ job'[y].at # "work"
                                           /\ y \notin mixed'
          /\ \A y \in Runs : y \in mixed' => job'[y].do = "run" /\ job'[y].at # "work"
      BY <1>1, <1>5, <1>7, <1>8, RunInvIs
    <2>2. ASSUME NEW q \in Operators, job'[q].at = "launch"
          PROVE  job'[job'[q].run].do = "none"
      <3>1. job[q].run \in Runs /\ job[job[q].run].do = "none"
        BY <1>7, <2>2, RunInvIs, HoldersAre
      <3>2. job[q].run # r
        BY <1>8, <3>1
      <3>3. QED
        BY <1>7, <3>1, <3>2
    <2>3. \A q1, q2 \in Operators :
            job'[q1].run # Nothing /\ job'[q1].run = job'[q2].run => q1 = q2
      BY <1>7, RunInvIs
    <2>4. QED
      BY <2>1, <2>2, <2>3, RunInvWas
  <1>10. CapInv'
    <2>1. SUFFICES ASSUME "cap" \notin mixed
          PROVE  /\ \A q1, q2 \in Launching' : q1 = q2
                 /\ \A y \in Working' : Counted(y)'
                 /\ Cardinality(Working') <= MaxConcurrent
                 /\ \A q \in Operators : job'[q].at = "launch" => Cardinality(Working') < MaxConcurrent
      BY <1>1, CapInvWas
    <2>a. /\ \A y : y \in Working' <=> y \in Working /\ y # r
          /\ \A q : q \in Launching' <=> q \in Launching
      <3>1. \A y \in Runs : job'[y].at = "work" <=> job[y].at = "work" /\ y # r
        BY <1>1, <1>7
      <3>2. QED
        BY <1>7, <3>1, WorkingWas
    <2>2. Working' = Working \ {r} /\ Launching' = Launching
      BY <2>a
    <2>3. \A y \in Working' : Counted(y)'
      <3>1. ASSUME NEW y \in Working'
            PROVE  Counted(y)'
        <4>1. Counted(y) /\ y # r
          BY <2>1, <2>2, CapInvIs
        <4>2. QED
          BY <1>6, <1>7, <4>1, CountedWas DEF Counted
      <3>2. QED
        BY <3>1
    <2>4. Cardinality(Working') <= Cardinality(Working) /\ Cardinality(Working') \in Nat
      BY <2>2, WorkingIs
    <2>5. \A q1, q2 \in Launching' : q1 = q2
      BY <2>1, <2>2, CapInvIs
    <2>6. Cardinality(Working') <= MaxConcurrent
      BY <2>1, <2>4, CapInvIs, WorkingIs
    <2>7. \A q \in Operators : job'[q].at = "launch" => Cardinality(Working') < MaxConcurrent
      BY <1>7, <2>1, <2>4, CapInvIs, WorkingIs
    <2>8. QED
      BY <2>3, <2>5, <2>6, <2>7
  <1>11. QED
    BY <1>9, <1>10

(* A kill: of a runner at work, of a spawn before its row, or of another.  *)
LEMMA DieKeeps ==
  ASSUME TypeInv, RunInv, CapInv, NEW p \in Actors, Dies(p)
  PROVE  RunInv' /\ CapInv'
  <1>1. /\ Moves(p) /\ UNCHANGED <<dir, archive>> /\ job[p].at # "idle"
        /\ job'[p].at = "idle" /\ job'[p].run = Nothing
        /\ job'[p].do = IF p \in Runs THEN "run" ELSE "none"
        /\ mixed' = mixed \cup (IF At(p, "event") THEN {job[p].slug} ELSE {})
                          \cup (IF At(p, "row") THEN {"cap"} ELSE {})
                          \cup (IF At(p, "work") THEN {p} ELSE {})
    BY DiesIs
  <1>2. /\ \A r : Ended(r)' <=> Ended(r)
        /\ \A r, t : r \in Unended(t)' <=> r \in Unended(t)
    BY <1>1, EndedIs, EndedWas, UnendedIs, UnendedWas
  <1>3. \A q \in Actors \ {p} : job'[q] = job[q]
    BY <1>1 DEF Moves
  <1>4. At(p, "event") => job[p].slug \notin Runs
    BY SlugsAre, NotRuns DEF At
  <1>5. /\ \A r \in Runs : r \in mixed' <=> r \in mixed \/ (r = p /\ job[p].at = "work")
        /\ mixed \subseteq mixed' /\ (job[p].at = "row" => "cap" \in mixed')
    BY <1>1, <1>4, NotRuns DEF At
  <1>6. \A r \in Runs : job'[r].do = job[r].do
    BY <1>1, <1>3, RunnersAre
  <1>7. RunInv'
    <2>1. ASSUME NEW r \in Runs
          PROVE  /\ Ended(r)' <=> job'[r].do = "run" /\ job'[r].at # "work" /\ r \notin mixed'
                 /\ r \in mixed' => job'[r].do = "run" /\ job'[r].at # "work"
      <3>1. CASE r = p
        <4>1. job[r].do = "run" /\ job'[r].do = "run" /\ job'[r].at = "idle"
          BY <1>1, <3>1, RunnersAre
        <4>2. CASE job[r].at = "work"
          BY <1>2, <1>5, <3>1, <4>1, <4>2, RunInvIs
        <4>3. CASE job[r].at # "work"
          BY <1>2, <1>5, <3>1, <4>1, <4>3, RunInvIs
        <4>4. QED
          BY <4>2, <4>3
      <3>2. CASE r # p
        BY <1>2, <1>3, <1>5, <3>2, RunInvIs, RunnersAre
      <3>3. QED
        BY <3>1, <3>2
    <2>2. \A q \in Operators : job'[q].at = "launch" => job'[job'[q].run].do = "none"
      BY <1>1, <1>3, <1>6, RunInvIs, HoldersAre
    <2>3. \A q1, q2 \in Operators :
            job'[q1].run # Nothing /\ job'[q1].run = job'[q2].run => q1 = q2
      BY <1>1, <1>3, RunInvIs, HoldersAre
    <2>4. QED
      BY <2>1, <2>2, <2>3, RunInvWas
  <1>8. CapInv'
    <2>1. SUFFICES ASSUME "cap" \notin mixed'
          PROVE  /\ \A q1, q2 \in Launching' : q1 = q2
                 /\ \A y \in Working' : Counted(y)'
                 /\ Cardinality(Working') <= MaxConcurrent
                 /\ \A q \in Operators : job'[q].at = "launch" => Cardinality(Working') < MaxConcurrent
      BY CapInvWas
    <2>2. "cap" \notin mixed /\ job[p].at # "row"
      BY <1>5, <2>1
    <2>3. Working' \subseteq Working /\ Launching' \subseteq Launching
      BY <1>1, <1>3, WorkingWas, HoldersAre, RunnersAre
    <2>4. ASSUME NEW y \in Working'
          PROVE  Counted(y)'
      <3>1. Counted(y)
        BY <2>2, <2>3, CapInvIs
      <3>2. QED
        BY <1>2, <1>3, <2>2, <3>1, CountedWas, HoldersAre DEF Counted
    <2>5. Cardinality(Working') <= Cardinality(Working) /\ Cardinality(Working') \in Nat
      BY <2>3, WorkingIs
    <2>6. \A q1, q2 \in Launching' : q1 = q2
      BY <2>2, <2>3, CapInvIs
    <2>7. Cardinality(Working') <= MaxConcurrent
      BY <2>2, <2>5, CapInvIs, WorkingIs
    <2>8. \A q \in Operators : job'[q].at = "launch" => job[q].at = "launch"
      BY <1>1, <1>3, HoldersAre
    <2>9. \A q \in Operators : job'[q].at = "launch" => Cardinality(Working') < MaxConcurrent
      BY <2>2, <2>5, <2>8, CapInvIs, WorkingIs
    <2>10. QED
      BY <2>4, <2>6, <2>7, <2>9
  <1>9. QED
    BY <1>7, <1>8

(* A runner that ends without a row: it is one of those that are excused.  *)
LEMMA LossKeeps ==
  ASSUME TypeInv, RunInv, CapInv, NEW r \in Actors, RunIsLost(r)
  PROVE  RunInv' /\ CapInv'
  <1>1. /\ Moves(r) /\ UNCHANGED <<dir, archive>> /\ r \in Runs /\ mixed' = mixed \cup {r}
        /\ job[r].at = "work" /\ job[r].do = "run"
        /\ job'[r].at \in {"idle", "fold"} /\ job'[r].do = "run"
    BY LostIs
  <1>2. /\ \A y : Ended(y)' <=> Ended(y)
        /\ \A y, t : y \in Unended(t)' <=> y \in Unended(t)
    BY <1>1, EndedIs, EndedWas, UnendedIs, UnendedWas
  <1>3. /\ \A y \in Runs \ {r} : job'[y] = job[y]
        /\ \A q \in Operators : job'[q] = job[q]
    BY <1>1, HoldersAre, RunnersAre DEF Moves
  <1>4. "cap" \in mixed' <=> "cap" \in mixed
    BY <1>1, NotRuns
  <1>5. ~Ended(r)
    BY <1>1, RunInvIs
  <1>6. RunInv'
    <2>1. /\ \A y \in Runs : Ended(y)' <=> /\ job'[y].do = "run" /\ job'[y].at # "work"
                                           /\ y \notin mixed'
          /\ \A y \in Runs : y \in mixed' => job'[y].do = "run" /\ job'[y].at # "work"
      BY <1>1, <1>2, <1>3, <1>5, RunInvIs
    <2>2. ASSUME NEW q \in Operators, job'[q].at = "launch"
          PROVE  job'[job'[q].run].do = "none"
      <3>1. job[q].run \in Runs /\ job[job[q].run].do = "none"
        BY <1>3, <2>2, RunInvIs, HoldersAre
      <3>2. job[q].run # r
        BY <1>1, <3>1
      <3>3. QED
        BY <1>3, <3>1, <3>2
    <2>3. \A q1, q2 \in Operators :
            job'[q1].run # Nothing /\ job'[q1].run = job'[q2].run => q1 = q2
      BY <1>3, RunInvIs
    <2>4. QED
      BY <2>1, <2>2, <2>3, RunInvWas
  <1>7. CapInv'
    <2>1. SUFFICES ASSUME "cap" \notin mixed
          PROVE  /\ \A q1, q2 \in Launching' : q1 = q2
                 /\ \A y \in Working' : Counted(y)'
                 /\ Cardinality(Working') <= MaxConcurrent
                 /\ \A q \in Operators : job'[q].at = "launch" => Cardinality(Working') < MaxConcurrent
      BY <1>4, CapInvWas
    <2>2. Working' \subseteq Working /\ Launching' \subseteq Launching
      BY <1>1, <1>3, WorkingWas
    <2>3. ASSUME NEW y \in Working'
          PROVE  Counted(y)'
      <3>1. Counted(y)
        BY <2>1, <2>2, CapInvIs
      <3>2. QED
        BY <1>2, <1>3, <3>1, CountedWas DEF Counted
    <2>4. Cardinality(Working') <= Cardinality(Working) /\ Cardinality(Working') \in Nat
      BY <2>2, WorkingIs
    <2>5. \A q1, q2 \in Launching' : q1 = q2
      BY <2>1, <2>2, CapInvIs
    <2>6. Cardinality(Working') <= MaxConcurrent
      BY <2>1, <2>4, CapInvIs, WorkingIs
    <2>7. \A q \in Operators : job'[q].at = "launch" => Cardinality(Working') < MaxConcurrent
      BY <1>3, <2>1, <2>4, CapInvIs, WorkingIs
    <2>8. QED
      BY <2>3, <2>5, <2>6, <2>7
  <1>8. QED
    BY <1>6, <1>7

LEMMA RunStep ==
  ASSUME TypeInv, RunInv, CapInv, Next
  PROVE  RunInv' /\ CapInv'
  <1>1. TypeInv'
    BY TypeStep
  <1>2. CASE Quiet
    BY <1>2, QuietKeepsRuns, QuietKeepsCap
  <1>3. ASSUME NEW p \in Actors, Calm(p)
        PROVE  Quiet
    BY <1>1, <1>3, QuietCalm
  <1>4. ASSUME NEW p \in Actors, Writes(p)
        PROVE  Quiet \/ (RunInv' /\ CapInv')
    BY <1>4, QuietWrites, QuietArchive, LaunchKeeps, RecordKeeps, DieKeeps, LossKeeps DEF Writes
  <1>5. ASSUME NEW p \in Operators, Commands(p) \/ InitStarts(p)
        PROVE  Quiet \/ (RunInv' /\ CapInv')
    BY <1>5, QuietCommands, SpawnKeeps DEF Commands
  <1>6. ASSUME NEW r \in Runs, RunEnds(r)
        PROVE  RunInv' /\ CapInv'
    BY <1>6, EndKeeps
  <1>7. QED
    BY <1>2, <1>3, <1>4, <1>5, <1>6, NextIs

-----------------------------------------------------------------------------
(* The initial states *)

LEMMA AtWorkIs ==
  /\ AtWork \in Directory /\ AtWork.there /\ AtWork.rows = <<>>
  /\ AtWork.log # <<>> /\ AtWork.log[Len(AtWork.log)].status = AtWork.st.status
  <1> DEFINE g == [stage |-> "code", status |-> "wip", next |-> Bare("code"), directive |-> FALSE]
             e == [stage |-> "code", status |-> "wip"]
  <1>1. g \in State /\ g.status = "wip" /\ e \in Event /\ e.status = "wip"
    BY StatesAre, NextsAre DEF Command, Status, Event
  <1>2. <<e>> \in Seq(Event) /\ <<e>> # <<>> /\ <<e>>[Len(<<e>>)] = e
    <2> HIDE DEF e
    <2> QED
      BY <1>1
  <1> DEFINE l == <<e>>
  <1>3. AtWork = [Empty EXCEPT !.there = TRUE, !.st = g, !.log = l]
    BY DEF AtWork
  <1> HIDE DEF g, e
  <1>4. l \in Seq(Event) /\ l # <<>> /\ l[Len(l)] = e
    BY <1>2
  <1> HIDE DEF l
  <1>5. /\ AtWork \in Directory /\ AtWork.there /\ AtWork.rows = <<>> /\ AtWork.st = g
        /\ AtWork.log = l
    BY <1>1, <1>3, <1>4, EmptyIs DEF Directory
  <1>6. QED
    BY <1>1, <1>4, <1>5

LEMMA ClosedIs == Closed \in Directory /\ Closed.there /\ Closed.rows = <<>>
  <1> DEFINE x == [AtWork.st EXCEPT !.status = "closed", !.next = Bare("none")]
             l == Append(AtWork.log, [stage |-> "code", status |-> "closed"])
  <1>1. AtWork \in Directory /\ AtWork.there /\ AtWork.rows = <<>>
    BY AtWorkIs
  <1>2. AtWork.st \in State
    BY StatesAre, NextsAre DEF AtWork, Command, Status, Empty
  <1>3. x \in State
    BY <1>2, NextsAre DEF State, Status
  <1>4. [stage |-> "code", status |-> "closed"] \in Event
    BY DEF Event, Command, Status
  <1>5. l \in Seq(Event)
    BY <1>1, <1>4 DEF Directory
  <1>6. Closed = [AtWork EXCEPT !.st = x, !.log = l]
    BY <1>1 DEF Closed, Directory
  <1> HIDE DEF x, l
  <1>7. QED
    BY <1>1, <1>3, <1>5, <1>6 DEF Directory

LEMMA GoingIs ==
  ASSUME NEW r \in Runs
  PROVE  LET d == [AtWork EXCEPT !.rows = <<Row(r, "spawned", FALSE)>>]
         IN  /\ d \in Directory /\ d.there /\ d.log = AtWork.log /\ d.st = AtWork.st
             /\ StartIn(d.rows, r) /\ \A y : ~EndIn(d.rows, y)
  <1> DEFINE x == Row(r, "spawned", FALSE)
             rows == <<x>>
             d == [AtWork EXCEPT !.rows = rows]
  <1>1. x \in RunRow /\ x.run = r /\ ~IsEnd(x)
    BY DEF Row, RunRow, IsEnd
  <1> HIDE DEF x
  <1>2. rows \in Seq(RunRow) /\ DOMAIN rows = {1} /\ rows[1] = x
    BY <1>1
  <1>3. StartIn(rows, r) /\ \A y : ~EndIn(rows, y)
    BY <1>1, <1>2 DEF StartIn, EndIn
  <1> HIDE DEF rows
  <1>4. d \in Directory /\ d.there /\ d.log = AtWork.log /\ d.st = AtWork.st /\ d.rows = rows
    BY <1>2, AtWorkIs DEF Directory
  <1>5. QED
    BY <1>3, <1>4 DEF x, rows

(* What the initial states have in common.                                 *)
Starts(on, live, going, gone, s) ==
    /\ on \in BOOLEAN /\ live \subseteq Slugs /\ gone \subseteq Slugs \ live
    /\ going \in Runs \cup {Nothing} /\ s \in live
    /\ going # Nothing => on
    /\ meta \in Meta /\ (meta.on <=> on) /\ meta.closed = gone
    /\ meta.roster = IF on THEN live ELSE {}
    /\ on => \A t \in live : dir[t].there
    /\ ~on => gone = {}
    /\ dir \in [Slugs -> Directory]
    /\ \A t \in Slugs : /\ ~dir[t].there => dir[t] = Empty
                        /\ dir[t].st = Nothing \/ Agree(t)
                        /\ \A r : ~EndIn(dir[t].rows, r)
    /\ going # Nothing => StartIn(dir[s].rows, going)
    /\ archive \in [Slugs -> Directory]
    /\ \A t \in Slugs : archive[t].rows = <<>> /\ IF t \in gone THEN archive[t].there
                                                                ELSE archive[t] = Empty
    /\ job = [p \in Actors |-> IF p = going THEN Job("run", "work", s) ELSE Idle]
    /\ hub \in Hub /\ hub.view = Nothing
    /\ bounds \in [commands : 0..MaxCommands, faults : 0..MaxFaults] /\ mixed = {}

LEMMA InitIs ==
  ASSUME Init
  PROVE  \E on, live, going, gone, s : Starts(on, live, going, gone, s)
  <1>0. PICK on \in BOOLEAN, live \in (SUBSET Slugs) \ {{}}, going \in Runs \cup {Nothing} :
          \E gone \in SUBSET (Slugs \ live) :
          /\ going # Nothing => on /\ live = Slugs
          /\ ~on => gone = {}
          /\ meta = [on |-> on, roster |-> IF on THEN live ELSE {}, closed |-> gone,
                     waved |-> IF going = Nothing THEN gone ELSE live]
          /\ archive = [s \in Slugs |-> IF s \in gone THEN Closed ELSE Empty]
          /\ \E s \in live :
                /\ dir = [t \in Slugs |->
                      CASE t \notin live -> Empty
                        [] t \in live /\ ~on -> [Empty EXCEPT !.there = TRUE]
                        [] t = s /\ going # Nothing ->
                              [AtWork EXCEPT !.rows = <<Row(going, "spawned", FALSE)>>]
                        [] OTHER -> AtWork]
                /\ job = [p \in Actors |-> IF p = going THEN Job("run", "work", s) ELSE Idle]
          /\ IF on THEN \E z \in {Zones, Zones \ OptionalZones} :
                           /\ z = Zones \/ gone # {}
                           /\ hub = [there |-> TRUE, zones |-> z, view |-> Nothing]
                   ELSE \E there \in BOOLEAN :
                           hub = [there |-> there, zones |-> {}, view |-> Nothing]
    BY DEF Init
  <1>1. PICK gone \in SUBSET (Slugs \ live) :
          /\ going # Nothing => on /\ live = Slugs
          /\ ~on => gone = {}
          /\ meta = [on |-> on, roster |-> IF on THEN live ELSE {}, closed |-> gone,
                     waved |-> IF going = Nothing THEN gone ELSE live]
          /\ archive = [s \in Slugs |-> IF s \in gone THEN Closed ELSE Empty]
          /\ \E s \in live :
                /\ dir = [t \in Slugs |->
                      CASE t \notin live -> Empty
                        [] t \in live /\ ~on -> [Empty EXCEPT !.there = TRUE]
                        [] t = s /\ going # Nothing ->
                              [AtWork EXCEPT !.rows = <<Row(going, "spawned", FALSE)>>]
                        [] OTHER -> AtWork]
                /\ job = [p \in Actors |-> IF p = going THEN Job("run", "work", s) ELSE Idle]
          /\ IF on THEN \E z \in {Zones, Zones \ OptionalZones} :
                           /\ z = Zones \/ gone # {}
                           /\ hub = [there |-> TRUE, zones |-> z, view |-> Nothing]
                   ELSE \E there \in BOOLEAN :
                           hub = [there |-> there, zones |-> {}, view |-> Nothing]
    BY <1>0
  <1> DEFINE new == [Empty EXCEPT !.there = TRUE]
             busy == [AtWork EXCEPT !.rows = <<Row(going, "spawned", FALSE)>>]
  <1>2. PICK s \in live :
          /\ dir = [t \in Slugs |->
                CASE t \notin live -> Empty
                  [] t \in live /\ ~on -> new
                  [] t = s /\ going # Nothing -> busy
                  [] OTHER -> AtWork]
          /\ job = [p \in Actors |-> IF p = going THEN Job("run", "work", s) ELSE Idle]
    BY <1>1
  <1>3. new \in Directory /\ new.there /\ new.st = Nothing /\ new.rows = <<>>
    BY EmptyIs DEF Directory
  <1>4. going # Nothing => /\ busy \in Directory /\ busy.there /\ busy.log = AtWork.log
                           /\ busy.st = AtWork.st /\ StartIn(busy.rows, going)
                           /\ \A y : ~EndIn(busy.rows, y)
    BY GoingIs
  <1> HIDE DEF new, busy
  <1>5. \A t \in Slugs : /\ t \notin live => dir[t] = Empty
                         /\ t \in live /\ ~on => dir[t] = new
                         /\ t \in live /\ on /\ t = s /\ going # Nothing => dir[t] = busy
                         /\ t \in live /\ on /\ ~(t = s /\ going # Nothing) => dir[t] = AtWork
    <2> SUFFICES ASSUME NEW t \in Slugs
                 PROVE  /\ t \notin live => dir[t] = Empty
                        /\ t \in live /\ ~on => dir[t] = new
                        /\ t \in live /\ on /\ t = s /\ going # Nothing => dir[t] = busy
                        /\ t \in live /\ on /\ ~(t = s /\ going # Nothing) => dir[t] = AtWork
      OBVIOUS
    <2>1. dir[t] = CASE t \notin live -> Empty
                     [] t \in live /\ ~on -> new
                     [] t = s /\ going # Nothing -> busy
                     [] OTHER -> AtWork
      BY <1>2
    <2>2. CASE t \notin live
      BY <2>1, <2>2
    <2>3. CASE t \in live /\ ~on
      BY <1>1, <2>1, <2>3
    <2>4. CASE t \in live /\ on
      BY <2>1, <2>4
    <2>5. QED
      BY <2>2, <2>3, <2>4
  <1>6. \A t \in Slugs : \/ dir[t] = Empty /\ t \notin live
                         \/ dir[t] = new /\ ~on
                         \/ dir[t] = busy /\ going # Nothing
                         \/ dir[t] = AtWork
    BY <1>5
  <1>7. \A r : ~EndIn(<<>>, r)
    BY DEF EndIn
  <1>8. \A t \in Slugs : /\ dir[t] \in Directory
                         /\ ~dir[t].there => dir[t] = Empty
                         /\ dir[t].st = Nothing \/ Agree(t)
                         /\ \A r : ~EndIn(dir[t].rows, r)
    <2> SUFFICES ASSUME NEW t \in Slugs
                 PROVE  /\ dir[t] \in Directory
                        /\ ~dir[t].there => dir[t] = Empty
                        /\ dir[t].st = Nothing \/ Agree(t)
                        /\ \A r : ~EndIn(dir[t].rows, r)
      OBVIOUS
    <2>1. CASE dir[t] = Empty
      BY <1>7, <2>1, EmptyIs
    <2>2. CASE dir[t] = new
      BY <1>3, <1>7, <2>2
    <2>3. CASE dir[t] = busy /\ going # Nothing
      BY <1>4, <2>3, AtWorkIs DEF Agree
    <2>4. CASE dir[t] = AtWork
      BY <1>7, <2>4, AtWorkIs DEF Agree
    <2>5. QED
      BY <1>6, <2>1, <2>2, <2>3, <2>4
  <1>9. dir \in [Slugs -> Directory]
    BY <1>2, <1>8
  <1>10. /\ on => \A t \in live : dir[t].there
         /\ going # Nothing => on /\ StartIn(dir[s].rows, going)
    BY <1>1, <1>4, <1>5, AtWorkIs
  <1>11. /\ archive \in [Slugs -> Directory]
         /\ \A t \in Slugs : archive[t].rows = <<>> /\ IF t \in gone THEN archive[t].there
                                                                     ELSE archive[t] = Empty
    BY <1>1, ClosedIs, EmptyIs
  <1>12. meta \in Meta /\ (meta.on <=> on) /\ meta.closed = gone
         /\ meta.roster = IF on THEN live ELSE {}
    BY <1>1 DEF Meta
  <1>13. hub \in Hub /\ hub.view = Nothing
    <2>1. PICK b \in BOOLEAN, z \in SUBSET Zones : hub = [there |-> b, zones |-> z, view |-> Nothing]
      BY <1>1
    <2>2. QED
      BY <2>1 DEF Hub
  <1>14. bounds \in [commands : 0..MaxCommands, faults : 0..MaxFaults] /\ mixed = {}
    BY FleetAssumption DEF Init
  <1>15. Starts(on, live, going, gone, s)
    BY <1>1, <1>2, <1>8, <1>9, <1>10, <1>11, <1>12, <1>13, <1>14 DEF Starts
  <1>16. QED
    BY <1>15

LEMMA InitTypes ==
  ASSUME NEW on, NEW live, NEW going, NEW gone, NEW s, Starts(on, live, going, gone, s)
  PROVE  /\ TypeInv
         /\ \A p \in Actors : /\ job[p].at \in {"idle", "work"} /\ job[p].heir = Nothing
                              /\ job[p].run = Nothing /\ ~Closing(job[p])
                              /\ job[p].at = "work" <=> p = going
                              /\ job[p].do = "run" <=> p = going
  <1>1. s \in Slugs
    BY DEF Starts
  <1> DEFINE j == Job("run", "work", s)
  <1>2. /\ j \in AJob /\ j.do = "run" /\ j.at = "work" /\ j.slug = s /\ j.heir = Nothing
        /\ j.run = Nothing
    BY <1>1, JobsAre, NamesAre
  <1> HIDE DEF j
  <1>3. \A p \in Actors : job[p] = IF p = going THEN j ELSE Idle
    BY DEF Starts, j
  <1>4. \A p \in Actors : p = going => p \in Runs
    BY FleetAssumption DEF Starts, Actors
  <1>5. \A p \in Actors : /\ job[p] \in AJob
                          /\ job[p].at \in {"idle", "work"} /\ job[p].heir = Nothing
                          /\ job[p].run = Nothing /\ ~Closing(job[p])
                          /\ job[p].at = "work" <=> p = going
                          /\ job[p].do = "run" <=> p = going
    BY <1>2, <1>3, IdleIs DEF Closing
  <1>6. ASSUME NEW p \in Actors
        PROVE  Fits(p, job[p])
    <2>1. CASE p = going
      BY <1>1, <1>2, <1>3, <1>4, <2>1 DEF Fits, Closing
    <2>2. CASE p # going
      BY <1>3, <2>2, IdleIs DEF Fits, Closing
    <2>3. QED
      BY <2>1, <2>2
  <1>7. job \in [Actors -> AJob]
    BY <1>5 DEF Starts
  <1>8. TypeInv
    BY <1>6, <1>7 DEF Starts, TypeInv
  <1>9. QED
    BY <1>5, <1>8

LEMMA InitRuns ==
  ASSUME NEW on, NEW live, NEW going, NEW gone, NEW s, Starts(on, live, going, gone, s)
  PROVE  RunInv /\ CapInv
  <1>1. \A p \in Actors : /\ job[p].at \in {"idle", "work"} /\ job[p].run = Nothing
                          /\ job[p].at = "work" <=> p = going
                          /\ job[p].do = "run" <=> p = going
    BY InitTypes
  <1>2. \A r : ~EndIn(<<>>, r)
    BY DEF EndIn
  <1>3. \A r : ~Ended(r)
    BY <1>2, EndedIs DEF Starts
  <1>4. \A p \in Operators : p \in Actors
    BY DEF Actors
  <1>5. \A r \in Runs : r \in Actors
    BY DEF Actors
  <1>6. mixed = {} /\ going \in Runs \cup {Nothing} /\ Nothing \notin Runs
    BY FleetAssumption DEF Starts
  <1>7. RunInv
    BY <1>1, <1>3, <1>4, <1>5, <1>6 DEF RunInv, At
  <1>8. Working \subseteq {going} /\ Launching = {}
    BY <1>1, <1>4, <1>5, WorkingWas
  <1>9. ASSUME NEW r \in Working
        PROVE  \E t \in Slugs : r \in Unended(t)
    <2>1. r = going /\ going # Nothing
      BY <1>6, <1>8, WorkingIs
    <2>2. s \in Slugs /\ StartIn(dir[s].rows, going) /\ ~EndIn(dir[s].rows, going)
      BY <2>1 DEF Starts
    <2>3. QED
      BY <2>1, <2>2, UnendedIs
  <1>10. Cardinality(Working) <= MaxConcurrent
    <2>1. Cardinality({going}) = 1 /\ IsFiniteSet({going})
      BY FS_Singleton
    <2>2. Cardinality(Working) <= 1
      BY <1>8, <2>1, FS_Subset
    <2>3. MaxConcurrent \in Nat \ {0}
      BY FleetAssumption
    <2>4. QED
      BY <2>2, <2>3, WorkingIs
  <1>11. \A p \in Operators : ~At(p, "launch")
    BY <1>1, <1>4 DEF At
  <1>12. CapInv
    BY <1>8, <1>9, <1>10, <1>11 DEF CapInv
  <1>13. QED
    BY <1>7, <1>12

LEMMA InitHolds ==
  ASSUME Init
  PROVE  IInv
  <1>1. PICK on, live, going, gone, s : Starts(on, live, going, gone, s)
    BY InitIs
  <1>2. TypeInv /\ RunInv /\ CapInv
    BY <1>1, InitTypes, InitRuns
  <1>3. \A p \in Actors : /\ job[p].at \in {"idle", "work"} /\ job[p].heir = Nothing
                          /\ ~Closing(job[p]) /\ (job[p].at = "work" <=> p = going)
    BY <1>1, InitTypes
  <1>4. WriteInv /\ StateHasItsEvent
    BY <1>1, <1>3, WritersAre DEF Starts, Told, Explained
  <1>5. MetaInv
    <2>1. ASSUME ~meta.on
          PROVE  /\ \A p \in Actors : job[p].at \in {"idle", "opt"}
                 /\ \A t \in Slugs : ~archive[t].there
      <3>1. going = Nothing /\ gone = {}
        BY <1>1, <2>1 DEF Starts
      <3>2. \A t \in Slugs : ~archive[t].there
        BY <1>1, <3>1, EmptyIs DEF Starts
      <3>3. \A p \in Actors : p # going
        BY <3>1, FleetAssumption DEF Actors
      <3>4. QED
        BY <1>3, <3>2, <3>3
    <2>2. ASSUME NEW t \in Slugs, Gone(t)
          PROVE  Off(t, meta)
      <3>1. archive[t].there
        BY <1>3, <2>2 DEF Gone, At
      <3>2. t \in gone
        BY <1>1, <3>1, EmptyIs DEF Starts
      <3>3. QED
        BY <1>1, <3>2 DEF Starts, Off
    <2>3. QED
      BY <1>3, <2>1, <2>2 DEF MetaInv, At
  <1>6. MintInv
    <2>1. meta.on \/ meta.roster = {}
      BY <1>1 DEF Starts
    <2>2. QED
      BY <1>1, <1>3, <2>1 DEF MintInv, Minted, Starts
  <1>7. PageInv
    BY <1>1 DEF PageInv, Starts
  <1>8. QED
    BY <1>2, <1>4, <1>5, <1>6, <1>7 DEF IInv

-----------------------------------------------------------------------------
(* The theorems *)

LEMMA StepHolds ==
  ASSUME IInv, [Next]_vars
  PROVE  IInv'
  <1>1. CASE UNCHANGED vars
    <2>1. /\ WriteInv' /\ StateHasItsEvent' /\ MintInv' /\ PageInv'
      BY <1>1 DEF IInv, vars, WriteInv, StateHasItsEvent, MintInv, PageInv, At, Minted, Closing,
                  Actors
    <2>2. MetaInv'
      BY <1>1 DEF IInv, vars, MetaInv, Gone, Off, At, Closing, Actors
    <2>3. RunInv' /\ CapInv'
      <3>1. Quiet
        BY <1>1, EndedIs, EndedWas, UnendedIs, UnendedWas DEF Quiet, vars
      <3>2. QED
        BY <3>1, QuietKeepsRuns, QuietKeepsCap DEF IInv
    <2>4. TypeInv'
      BY TypeStep DEF IInv
    <2>5. QED
      BY <2>1, <2>2, <2>3, <2>4 DEF IInv
  <1>2. CASE Next
    BY <1>2, TypeStep, WriteStep, MetaStep, MintStep, RunStep, PageStep DEF IInv
  <1>3. QED
    BY <1>1, <1>2

(* The invariant holds in every state of every run of the fleet's commands,*)
(* hooks, runners and kills.                                               *)
THEOREM FleetInvariant == Spec => []IInv
  <1>1. Init => IInv
    BY InitHolds
  <1>2. IInv /\ [Next]_vars => IInv'
    BY StepHolds
  <1>3. QED
    BY <1>1, <1>2, PTL DEF Spec

LEMMA TypesHold ==
  ASSUME TypeInv
  PROVE  TypeOK
  <1>1. ASSUME NEW s \in Slugs, NEW d \in {dir[s], archive[s]}
        PROVE  /\ d.st \in State \cup {Nothing}
               /\ \A n \in 1..Len(d.log) : d.log[n].status \in Status \cup {"none"}
               /\ \A n \in DOMAIN d.rows : d.rows[n].run \in Runs
    <2>1. d \in Directory
      BY StoredIs
    <2>2. d.log \in Seq(Event) /\ d.rows \in Seq(RunRow) /\ d.st \in State \cup {Nothing}
      BY <2>1 DEF Directory
    <2>3. \A n \in 1..Len(d.log) : d.log[n] \in Event
      BY <2>2
    <2>4. \A n \in DOMAIN d.rows : d.rows[n] \in RunRow
      BY <2>2
    <2>5. QED
      BY <2>2, <2>3, <2>4 DEF Event, RunRow
  <1>2. meta.roster \subseteq Slugs /\ meta.closed \subseteq Slugs /\ hub.zones \subseteq Zones
    BY DEF TypeInv, Meta, Hub
  <1>3. bounds.commands \in 0..MaxCommands /\ bounds.faults \in 0..MaxFaults
    BY DEF TypeInv
  <1>4. QED
    BY <1>1, <1>2, <1>3 DEF TypeOK

(* A run that was killed or lost has a row of its start and none of its    *)
(* end: its plan asks for attention while the row is in a live directory.  *)
LEMMA DeathsHold ==
  ASSUME TypeInv, RunInv
  PROVE  DeathsAreSeen
  <1>1. SUFFICES ASSUME NEW r \in Runs \cap mixed, NEW s \in Slugs,
                        ~Alive(r), \E x \in RowsOf(s) : x.run = r
                 PROVE  NeedsAttention(s)
    BY DEF DeathsAreSeen
  <1>2. ~Ended(r) /\ job[r].at = "idle"
    BY <1>1, RunInvIs DEF Alive
  <1>3. ~EndIn(dir[s].rows, r)
    BY <1>2, EndedIs
  <1>4. StartIn(dir[s].rows, r)
    BY <1>1, <1>3 DEF RowsOf, StartIn, EndIn
  <1>5. r \in Died(s)
    BY <1>2, <1>3, <1>4, UnendedIs DEF Died, Alive
  <1>6. QED
    BY <1>5 DEF NeedsAttention

LEMMA LanesHold ==
  ASSUME TypeInv, PageInv
  PROVE  LanesAgree
  <1>1. SUFFICES ASSUME hub.view # Nothing
                 PROVE  /\ Zones \ OptionalZones \subseteq hub.zones
                        /\ Now(hub.view) \subseteq Board(hub.view).live
                        /\ \A s \in With(hub.view, {"ready"}) :
                              IF \E c \in Attended, more \in BOOLEAN :
                                    hub.view.states[s].next = [cmd |-> c, rest |-> more]
                              THEN s \in AttendedQueue(hub.view) \ Prompts(hub.view)
                              ELSE s \in Prompts(hub.view) \ AttendedQueue(hub.view)
    BY DEF LanesAgree
  <1>2. Zones \ OptionalZones \subseteq hub.zones
    BY <1>1 DEF PageInv, BaseZones
  <1>3. {"wip", "ready"} \subseteq Status
    BY DEF Status
  <1>4. Now(hub.view) \subseteq Board(hub.view).live
    BY <1>3 DEF Now, Board, With
  <1>5. ASSUME NEW s \in With(hub.view, {"ready"})
        PROVE  (\E c \in Attended, more \in BOOLEAN :
                   hub.view.states[s].next = [cmd |-> c, rest |-> more])
                  <=> StageToken(hub.view.states[s]) \in Attended
    <2>1. hub.view \in Views
      BY <1>1 DEF TypeInv, Hub
    <2>2. s \in Slugs /\ hub.view.states[s] # Nothing
      BY DEF With
    <2>3. hub.view.states[s] \in State
      BY <2>1, <2>2 DEF Views
    <2> DEFINE n == hub.view.states[s].next
    <2>4. n \in Next_
      BY <2>3 DEF State
    <2> HIDE DEF n
    <2>5. n = [cmd |-> n.cmd, rest |-> n.rest] /\ n.rest \in BOOLEAN
      BY <2>4 DEF Next_
    <2>6. (\E c \in Attended, more \in BOOLEAN : n = [cmd |-> c, rest |-> more])
             <=> n.cmd \in Attended
      BY <2>5
    <2>7. QED
      BY <2>6 DEF n, StageToken
  <1>6. ASSUME NEW s \in With(hub.view, {"ready"})
        PROVE  IF StageToken(hub.view.states[s]) \in Attended
               THEN s \in AttendedQueue(hub.view) \ Prompts(hub.view)
               ELSE s \in Prompts(hub.view) \ AttendedQueue(hub.view)
    BY DEF AttendedQueue, Prompts
  <1>7. QED
    BY <1>2, <1>4, <1>5, <1>6

(* The page shows the tree of every plan it knows, but for one case; ready *)
(* plans have one lane.  A state agrees with its plan's last event, the    *)
(* meta file tells which plans are archived, successors are minted, the    *)
(* cap holds, and no run is lost: each with the exceptions it names,       *)
(* whatever the commands, hooks, runners and kills.                        *)
THEOREM FleetIsKept == Spec => []FleetInv
  <1>1. IInv => FleetInv
    <2>1. SUFFICES ASSUME IInv
                   PROVE  FleetInv
      OBVIOUS
    <2>2. TypeOK /\ DeathsAreSeen /\ LanesAgree
      BY <2>1, TypesHold, DeathsHold, LanesHold DEF IInv
    <2>3. MetaTellsTheArchive
      BY <2>1 DEF IInv, MetaInv, MetaTellsTheArchive, Gone, Off
    <2>4. SuccessorsAreMinted
      BY <2>1 DEF IInv, MintInv, Minted, SuccessorsAreMinted
    <2>5. CapHoldsAlone
      BY <2>1 DEF IInv, CapInv, CapHoldsAlone, Working
    <2>6. EveryRunIsTold
      BY <2>1 DEF IInv, RunInv, Ended, EveryRunIsTold
    <2>7. TreeHasTheRest
      BY DEF TreeHasTheRest, Tree
    <2>8. QED
      BY <2>1, <2>2, <2>3, <2>4, <2>5, <2>6, <2>7 DEF IInv, FleetInv
  <1>2. QED
    BY <1>1, FleetInvariant, PTL

-----------------------------------------------------------------------------
(* Histories *)

LEMMA Prefixes ==
  ASSUME NEW S, NEW a \in Seq(S), NEW b \in Seq(S)
  PROVE  /\ SubSeq(a, 1, Len(a)) = a /\ SubSeq(a \o b, 1, Len(a)) = a
         /\ Len(a \o b) = Len(a) + Len(b) /\ Len(a) \in Nat
  <1>1. Len(a) \in Nat /\ Len(b) \in Nat /\ Len(a \o b) = Len(a) + Len(b) /\ a \o b \in Seq(S)
    OBVIOUS
  <1>2. SubSeq(a, 1, Len(a)) = a
    BY <1>1
  <1>3. SubSeq(a \o b, 1, Len(a)) = a
    BY <1>1
  <1>4. QED
    BY <1>1, <1>2, <1>3

(* What no step may do to the history of one plan.                         *)
Kept(s) ==
    /\ Len(archive[s].rows) + Len(dir[s].rows) <= Len(archive'[s].rows) + Len(dir'[s].rows)
    /\ Len(archive[s].log) + Len(dir[s].log) <= Len(archive'[s].log) + Len(dir'[s].log)
    /\ SubSeq(archive'[s].log, 1, Len(archive[s].log)) = archive[s].log

LEMMA SequencesAre ==
  ASSUME TypeInv, NEW s \in Slugs
  PROVE  /\ dir[s].log \in Seq(Event) /\ archive[s].log \in Seq(Event)
         /\ dir[s].rows \in Seq(RunRow) /\ archive[s].rows \in Seq(RunRow)
         /\ Len(dir[s].log) \in Nat /\ Len(archive[s].log) \in Nat
         /\ Len(dir[s].rows) \in Nat /\ Len(archive[s].rows) \in Nat
  <1>1. dir[s] \in Directory /\ archive[s] \in Directory
    BY StoredIs
  <1>2. /\ dir[s].log \in Seq(Event) /\ archive[s].log \in Seq(Event)
        /\ dir[s].rows \in Seq(RunRow) /\ archive[s].rows \in Seq(RunRow)
    BY <1>1 DEF Directory
  <1>3. QED
    BY <1>2

(* A directory that keeps its archive, and only appends.                   *)
LEMMA AppendsKeep ==
  ASSUME TypeInv, NEW s \in Slugs, archive' = archive,
         Len(dir'[s].rows) \in {Len(dir[s].rows), Len(dir[s].rows) + 1},
         Len(dir'[s].log) \in {Len(dir[s].log), Len(dir[s].log) + 1}
  PROVE  Kept(s)
  <1>1. SubSeq(archive[s].log, 1, Len(archive[s].log)) = archive[s].log
    BY SequencesAre, Prefixes
  <1>2. QED
    BY <1>1, SequencesAre DEF Kept

LEMMA WritesKeep ==
  ASSUME TypeInv, NEW t \in Slugs, NEW d, Wrote(t, d), archive' = archive,
         \/ d.rows = dir[t].rows
         \/ \E x \in RunRow : d.rows = Append(dir[t].rows, x),
         \/ d.log = dir[t].log
         \/ \E e \in Event : d.log = Append(dir[t].log, e)
  PROVE  \A s \in Slugs : Kept(s)
  <1>1. TAKE s \in Slugs
  <1>2. CASE s = t
    <2>1. /\ \A x \in RunRow : Len(Append(dir[t].rows, x)) = Len(dir[t].rows) + 1
          /\ \A e \in Event : Len(Append(dir[t].log, e)) = Len(dir[t].log) + 1
      BY SequencesAre
    <2>2. /\ Len(dir'[s].rows) \in {Len(dir[s].rows), Len(dir[s].rows) + 1}
          /\ Len(dir'[s].log) \in {Len(dir[s].log), Len(dir[s].log) + 1}
      BY <1>2, <2>1 DEF Wrote
    <2>3. QED
      BY <2>2, AppendsKeep
  <1>3. CASE s # t
    BY <1>3, AppendsKeep DEF Wrote
  <1>4. QED
    BY <1>2, <1>3

LEMMA MovesKeep ==
  ASSUME TypeInv, NEW t \in Slugs, Moved(t)
  PROVE  \A s \in Slugs : Kept(s)
  <1>1. TAKE s \in Slugs
  <1>2. CASE s = t
    <2>1. /\ archive'[t].log = archive[t].log \o dir[t].log
          /\ archive'[t].rows = archive[t].rows \o dir[t].rows
          /\ dir'[t].log = <<>> /\ dir'[t].rows = <<>>
      BY ArchivedIs DEF Moved, TypeInv, Empty
    <2>2. /\ SubSeq(archive[t].log \o dir[t].log, 1, Len(archive[t].log)) = archive[t].log
          /\ Len(archive[t].log \o dir[t].log) = Len(archive[t].log) + Len(dir[t].log)
      BY SequencesAre, Prefixes
    <2>3. Len(archive[t].rows \o dir[t].rows) = Len(archive[t].rows) + Len(dir[t].rows)
      BY SequencesAre, Prefixes
    <2>4. Len(<<>>) = 0
      OBVIOUS
    <2>5. /\ Len(archive'[t].log) = Len(archive[t].log) + Len(dir[t].log)
          /\ SubSeq(archive'[t].log, 1, Len(archive[t].log)) = archive[t].log
          /\ Len(archive'[t].rows) = Len(archive[t].rows) + Len(dir[t].rows)
          /\ Len(dir'[t].log) = 0 /\ Len(dir'[t].rows) = 0
      BY <2>1, <2>2, <2>3, <2>4, Zenon
    <2>6. QED
      BY <1>2, <2>5, SequencesAre DEF Kept
  <1>3. CASE s # t
    <2>1. dir'[s] = dir[s] /\ archive'[s] = archive[s]
      BY <1>3 DEF Moved, TypeInv
    <2>2. SubSeq(archive[s].log, 1, Len(archive[s].log)) = archive[s].log
      BY SequencesAre, Prefixes
    <2>3. QED
      BY <2>1, <2>2, SequencesAre DEF Kept
  <1>4. QED
    BY <1>2, <1>3

LEMMA StillKeeps ==
  ASSUME TypeInv, UNCHANGED <<dir, archive>>
  PROVE  \A s \in Slugs : Kept(s)
  BY AppendsKeep

LEMMA StepKeeps ==
  ASSUME TypeInv, Next
  PROVE  \A s \in Slugs : Kept(s)
  <1>1. ASSUME NEW p \in Actors, Calm(p)
        PROVE  UNCHANGED <<dir, archive>>
    BY <1>1 DEF Calm
  <1>2. ASSUME NEW p \in Operators, Commands(p) \/ InitStarts(p)
        PROVE  UNCHANGED <<dir, archive>>
    BY <1>2 DEF Commands, HookTells, SeedStarts, CloseStarts, SpawnStarts, ResumeStarts, InitStarts
  <1>3. ASSUME NEW r \in Runs, RunEnds(r)
        PROVE  \A s \in Slugs : Kept(s)
    <2>1. PICK t \in Slugs, d \in Directory, x \in RunRow :
            /\ archive' = archive /\ Wrote(t, d) /\ d.log = dir[t].log
            /\ d.rows = Append(dir[t].rows, x)
      BY <1>3, RunEndsIs
    <2>2. QED
      BY <2>1, WritesKeep
  <1>4. ASSUME NEW p \in Actors, Writes(p)
        PROVE  \A s \in Slugs : Kept(s)
    <2>1. CASE OptsIn(p) \/ SavesMeta(p) \/ Launches(p) \/ Dies(p) \/ RunIsLost(p)
      BY <2>1, StillKeeps DEF OptsIn, SavesMeta, Launches, Dies, RunIsLost
    <2>2. CASE Saves(p) \/ Sows(p)
      <3>1. PICK t \in Slugs, d \in Directory :
              /\ archive' = archive /\ Wrote(t, d) /\ d.log = dir[t].log /\ d.rows = dir[t].rows
        BY <2>2, SavesIs, SowsIs
      <3>2. QED
        BY <3>1, WritesKeep
    <2>3. CASE Tells(p)
      <3>1. PICK t \in Slugs, d \in Directory, e \in Event :
              /\ archive' = archive /\ Wrote(t, d) /\ d.log = Append(dir[t].log, e)
              /\ d.rows = dir[t].rows
        BY <2>3, TellsIs
      <3>2. QED
        BY <3>1, WritesKeep
    <2>4. CASE Mints(p)
      <3>1. PICK d \in Directory :
              /\ archive' = archive /\ job[p].heir \in Slugs /\ Wrote(job[p].heir, d)
              /\ d.log = dir[job[p].heir].log /\ d.rows = dir[job[p].heir].rows
        BY <2>4, MintsIs
      <3>2. QED
        BY <3>1, WritesKeep
    <2>5. CASE Records(p)
      <3>1. PICK t \in Slugs, d \in Directory, x \in RunRow :
              /\ archive' = archive /\ Wrote(t, d) /\ d.log = dir[t].log
              /\ d.rows = Append(dir[t].rows, x)
        BY <2>5, RecordsIs
      <3>2. QED
        BY <3>1, WritesKeep
    <2>6. CASE Archives(p)
      <3>1. job[p].slug \in Slugs /\ (UNCHANGED <<dir, archive>> \/ Moved(job[p].slug))
        BY <2>6, ArchivesIs
      <3>2. QED
        BY <3>1, MovesKeep, StillKeeps
    <2>7. QED
      BY <1>4, <2>1, <2>2, <2>3, <2>4, <2>5, <2>6 DEF Writes
  <1>5. QED
    BY <1>1, <1>2, <1>3, <1>4, StillKeeps, NextIs

(* No step drops a row or an event of a plan, and an archive's history     *)
(* only grows at its end, whichever close moves a directory into it.       *)
THEOREM HistoryNeverShrinks == Spec => HistoryIsKept
  <1>1. IInv /\ [Next]_vars =>
          [\A s \in Slugs :
             /\ Len(archive[s].rows) + Len(dir[s].rows) <= Len(archive'[s].rows) + Len(dir'[s].rows)
             /\ Len(archive[s].log) + Len(dir[s].log) <= Len(archive'[s].log) + Len(dir'[s].log)
             /\ SubSeq(archive'[s].log, 1, Len(archive[s].log)) = archive[s].log]_vars
    BY StepKeeps DEF IInv, Kept
  <1>2. QED
    BY <1>1, FleetInvariant, PTL DEF Spec, HistoryIsKept
=============================================================================
