---------------------------- MODULE ChainRecord ----------------------------
(***************************************************************************)
(* What an overnight chain leaves written about itself: the phases of the  *)
(* manifest, the rows of the orchestrator log, the completion summary and  *)
(* the phase that a pause names, for drivers that end in every way they    *)
(* can.  Who owns the sentinels is ChainDriver's subject: here the running *)
(* sentinel is taken and released in one step.                             *)
(***************************************************************************)
EXTENDS Integers, Sequences, FiniteSets, SequencesExt

CONSTANTS
  Drivers,    \* driver processes, each run once; a fresh chain id is its driver's
  LastPhase,  \* phases 1 .. LastPhase (PHASE_SEQUENCE is 2 .. 5)
  Cap,        \* OVERNIGHT_WALL_CLOCK_SECONDS, in units of the clock
  Estimate,   \* OVERNIGHT_SONNET_ESTIMATED_SECONDS
  MaxClock, MaxFaults, MaxKills, MaxPauses,  \* bounds
  None

ASSUME RecordAssumption ==
  /\ None \notin Drivers
  /\ LastPhase \in Nat \ {0} /\ Cap \in Nat /\ Estimate \in Nat
  /\ {MaxClock, MaxFaults, MaxKills, MaxPauses} \subseteq Nat

Phases == 1 .. LastPhase

\* the verdicts of a planner phase, and those of a retry-loop phase
Verdicts(p) == IF p = 1 THEN {"passed", "verify_plan_rejected"} ELSE {"passed", "retry_exceeded"}
StatusOf(v) ==
  CASE v = "passed" -> "wip" [] v = "retry_exceeded" -> "deferred" [] OTHER -> "blocked"

\* a driver: the verdict in hand, phase_results, and (ghosts) the phases that
\* ended under it, when the last was spawned, did something fail or kill it
Driver == [pc |-> "unborn", chain |-> None, phase |-> 1, began |-> 0, verdict |-> "none",
           halt |-> "phase_success", results |-> <<>>,
           happened |-> <<>>, since |-> 0, clean |-> TRUE]
NoPause == [next |-> 0, chain |-> None]
NoSummary == [by |-> None, halt |-> "none", results |-> <<>>]

VARIABLES
  lock,      \* the driver of _chain_running.lock
  manifest,  \* _chain_sessions.json, and (ghost) the drivers it was of since it was replaced
  rows,       \* _orchestrator_log.jsonl, the rows about the chain
  summary,   \* _completion_summary_<date>_<chain>.md: one file for each chain
  pause,     \* _chain_paused.lock: the phase it names, of the manifest it read
  asked,     \* a chain-pause between its read of the manifest and its create
  run,       \* per driver
  clock, faults, kills, pauses

world == <<clock, faults, kills, pauses>>
records == <<manifest, rows, summary>>
recordVars == <<lock, records, pause, asked, run, world>>

RecordInit ==
  /\ lock = None
  /\ manifest = [chain |-> None, phases |-> <<>>, of |-> {}]
  /\ rows = <<>> /\ summary = [c \in Drivers |-> NoSummary]
  /\ pause = NoPause /\ asked = NoPause
  /\ run = [d \in Drivers |-> Driver]
  /\ clock = 0 /\ faults = 0 /\ kills = 0 /\ pauses = 0

-----------------------------------------------------------------------------
(* Helpers *)

Stands(d, where) == run[d].pc = where
GoTo(d, where) == run' = [run EXCEPT ![d].pc = where]
HaltsWith(d, reason) == run' = [run EXCEPT ![d].pc = "flush", ![d].halt = reason]
Alive(d) == run[d].pc \notin {"unborn", "gone"}

\* one row: who wrote it, what it is, its phase and verdict, and the status it gives
RowBy(d, kind, verdict, to) ==
  [by |-> d, kind |-> kind, phase |-> run[d].phase, verdict |-> verdict, to |-> to]
Emit(row) == rows' = Append(rows, row)
EmitBoundary(d, v) == Emit(RowBy(d, "boundary", v, StatusOf(v)))

Fault == faults < MaxFaults /\ faults' = faults + 1 /\ UNCHANGED <<clock, kills, pauses>>
Killed == kills < MaxKills /\ kills' = kills + 1 /\ UNCHANGED <<clock, faults, pauses>>

-----------------------------------------------------------------------------
(* Startup *)

\* a fresh chain or --from-resume, at a phase the operator gives; the one that
\* finds the sentinel taken writes a row and exits
Launch(d, c, first) ==
  /\ Stands(d, "unborn") /\ (c = d \/ ~Stands(c, "unborn"))
  /\ LET begun == [Driver EXCEPT !.chain = c, !.phase = first, !.began = clock]
     IN  \/ /\ lock = None /\ lock' = d
            /\ run' = [run EXCEPT ![d] = [begun EXCEPT !.pc = "stamp"]]
            /\ UNCHANGED rows
         \/ /\ lock # None /\ UNCHANGED lock
            /\ run' = [run EXCEPT ![d] = [begun EXCEPT !.pc = "gone"]]
            /\ Emit(RowBy(d, "refused", "concurrent_chain_refused", "blocked"))
  /\ UNCHANGED <<manifest, summary, pause, asked, world>>

\* the manifest of the same chain is kept, that of another is replaced
StampChainStart(d) ==
  /\ Stands(d, "stamp") /\ GoTo(d, "register")
  /\ manifest' = IF manifest.chain = run[d].chain THEN [manifest EXCEPT !.of = @ \cup {d}]
                 ELSE [chain |-> run[d].chain, phases |-> <<>>, of |-> {d}]
  /\ UNCHANGED <<lock, rows, summary, pause, asked, world>>

\* no row after a collision (or an opt-out) or a failed write, and it goes on
AutoRegister(d) ==
  /\ Stands(d, "register") /\ GoTo(d, "start")
  /\ \/ Emit(RowBy(d, "registered", "none", "wip")) /\ UNCHANGED world
     \/ Fault /\ UNCHANGED rows
  /\ UNCHANGED <<lock, manifest, summary, pause, asked>>

EmitChainStart(d) ==
  /\ Stands(d, "start") /\ GoTo(d, "probe")
  /\ Emit(RowBy(d, "start", "none", "wip"))
  /\ UNCHANGED <<lock, manifest, summary, pause, asked, world>>

-----------------------------------------------------------------------------
(* The phase loop *)

\* parked by a pause, of whatever chain
Probe(d) ==
  /\ Stands(d, "probe") /\ pause = NoPause
  /\ GoTo(d, "precheck")
  /\ UNCHANGED <<lock, records, pause, asked, world>>

\* The time since this driver's start, against the cap of the environment.
\* The paused time of the manifest is (0, None) for ever, and is left out.
Exceeds(d) == clock - run[d].began + Estimate > Cap

PrecheckCaps(d) ==
  /\ Stands(d, "precheck")
  /\ \/ ~Exceeds(d) /\ GoTo(d, "recheck") /\ UNCHANGED rows
     \/ Exceeds(d) /\ HaltsWith(d, "wall_clock_exceeded") /\ EmitBoundary(d, "wall_clock_exceeded")
  /\ UNCHANGED <<lock, manifest, summary, pause, asked, world>>

\* a sentinel that is not this chain's, or is gone, is a fault here
Recheck(d) ==
  /\ Stands(d, "recheck")
  /\ \/ GoTo(d, "bootstrap") /\ UNCHANGED <<rows, world>>
     \/ /\ HaltsWith(d, "concurrent_chain_foreign")
        /\ EmitBoundary(d, "concurrent_chain_refused") /\ Fault
  /\ UNCHANGED <<lock, manifest, summary, pause, asked>>

\* best-effort: an entry that cannot be written does not stop the phase
AppendBootstrap(d) ==
  /\ Stands(d, "bootstrap")
  /\ LET entry == [phase |-> run[d].phase, by |-> d, verdict |-> "open"]
         begin(ok) == run' = [run EXCEPT ![d].pc = "phase", ![d].since = clock, ![d].clean = @ /\ ok]
     IN  \/ manifest' = [manifest EXCEPT !.phases = Append(@, entry)] /\ begin(TRUE) /\ UNCHANGED world
         \/ begin(FALSE) /\ Fault /\ UNCHANGED manifest
  /\ UNCHANGED <<lock, rows, summary, pause, asked>>

\* spawn_planner_phase or spawn_retry_loop_phase returns
PhaseEnds(d, v) ==
  /\ Stands(d, "phase")
  /\ run' = [run EXCEPT ![d].pc = "exit", ![d].verdict = v,
                        ![d].happened = Append(@, [phase |-> run[d].phase, verdict |-> v])]
  /\ UNCHANGED <<lock, records, pause, asked, world>>

\* (wrong) the first open entry of the session
OpenOldest(d) ==
  LET open == {i \in DOMAIN manifest.phases :
                 manifest.phases[i].phase = run[d].phase /\ manifest.phases[i].verdict = "open"}
  IN  {i \in open : \A k \in open : i <= k}

\* (wrong) the last entry of the session, open or not
LastOfSession(d) ==
  LET all == {i \in DOMAIN manifest.phases : manifest.phases[i].phase = run[d].phase}
  IN  {i \in all : \A k \in all : i >= k}

\* the latest open entry of the session; the session is the chain and the
\* phase, so it may be one that a driver before this one left open
OpenEntry(d) ==
  LET open == {i \in DOMAIN manifest.phases :
                 manifest.phases[i].phase = run[d].phase /\ manifest.phases[i].verdict = "open"}
  IN  {i \in open : \A k \in open : i >= k}

Stamped(d) == [i \in DOMAIN manifest.phases |->
                 IF i \in OpenEntry(d) THEN [manifest.phases[i] EXCEPT !.verdict = run[d].verdict]
                                       ELSE manifest.phases[i]]

\* stamp_phase_exit, whose failure is swallowed, and note_phase_result
StampExit(d) ==
  /\ Stands(d, "exit")
  /\ LET noted(ok) == run' = [run EXCEPT ![d].pc = "boundary", ![d].clean = @ /\ ok, ![d].results =
                        Append(@, [phase |-> run[d].phase, verdict |-> run[d].verdict])]
     IN  \/ /\ manifest' = [manifest EXCEPT !.phases = Stamped(d)]
            /\ noted(TRUE) /\ UNCHANGED world
         \/ noted(FALSE) /\ Fault /\ UNCHANGED manifest
  /\ UNCHANGED <<lock, rows, summary, pause, asked>>

\* a halt verdict
BoundaryHalts(d) ==
  /\ Stands(d, "boundary") /\ run[d].verdict # "passed"
  /\ EmitBoundary(d, run[d].verdict) /\ HaltsWith(d, run[d].verdict)
  /\ UNCHANGED <<lock, manifest, summary, pause, asked, world>>

\* passed, but a sealed path is staged or changed in the working tree
BoundaryRefused(d) ==
  /\ Stands(d, "boundary") /\ run[d].verdict = "passed"
  /\ Emit(RowBy(d, "sealed", "sealed_path_refused", "blocked"))
  /\ HaltsWith(d, "sealed_path_refused")
  /\ UNCHANGED <<lock, manifest, summary, pause, asked, world>>

BoundaryPasses(d) ==
  /\ Stands(d, "boundary") /\ run[d].verdict = "passed"
  /\ EmitBoundary(d, "passed")
  /\ IF run[d].phase < LastPhase
     THEN run' = [run EXCEPT ![d].pc = "probe", ![d].phase = @ + 1]
     ELSE GoTo(d, "complete")
  /\ UNCHANGED <<lock, manifest, summary, pause, asked, world>>

EmitChainComplete(d) ==
  /\ Stands(d, "complete")
  /\ Emit(RowBy(d, "complete", "none", "done")) /\ HaltsWith(d, "phase_success")
  /\ UNCHANGED <<lock, manifest, summary, pause, asked, world>>

-----------------------------------------------------------------------------
(* The end of a driver *)

InTry == {"stamp", "register", "start", "probe", "precheck", "recheck", "bootstrap",
          "phase", "exit", "boundary", "complete"}

\* an exception: the phase itself, or a write that is not best-effort; the
\* finalizer still says what it said at its start
Raise(d) ==
  /\ run[d].pc \in {"stamp", "start", "precheck", "phase", "boundary", "complete"}
  /\ run' = [run EXCEPT ![d].pc = "flush", ![d].clean = FALSE]
  /\ Fault
  /\ UNCHANGED <<lock, records, pause, asked>>

Sigterm(d) ==
  /\ run[d].pc \in InTry
  /\ run' = [run EXCEPT ![d].pc = "flush", ![d].halt = "operator_killed", ![d].clean = FALSE]
  /\ Killed
  /\ UNCHANGED <<lock, records, pause, asked>>

Kill9(d) ==
  /\ Alive(d)
  /\ run' = [run EXCEPT ![d].pc = "gone", ![d].clean = FALSE]
  /\ Killed
  /\ UNCHANGED <<lock, records, pause, asked>>

\* the summary, which goes over that of an earlier driver of the chain
EmitSummary(d) ==
  /\ Stands(d, "flush")
  /\ \/ /\ summary' = [summary EXCEPT ![run[d].chain] =
                         [by |-> d, halt |-> run[d].halt, results |-> run[d].results]]
        /\ GoTo(d, "release") /\ UNCHANGED world
     \/ /\ run' = [run EXCEPT ![d].pc = "release", ![d].clean = FALSE]
        /\ Fault /\ UNCHANGED summary
  /\ UNCHANGED <<lock, manifest, rows, pause, asked>>

ClearPause(d, then) ==
  /\ pause' = NoPause
  /\ rows' = rows \o then \o IF pause = NoPause THEN <<>>
                           ELSE <<RowBy(d, "stale_cleared", "none", "wip")>>

ReleaseBoth(d) ==
  /\ Stands(d, "release") /\ GoTo(d, "gone")
  /\ ClearPause(d, <<>>)
  /\ lock' = None
  /\ UNCHANGED <<manifest, summary, asked, world>>

\* --release-lock, of a driver that was killed
ReleaseLock ==
  /\ lock # None /\ ~Alive(lock)
  /\ ClearPause(lock, <<RowBy(lock, "released", "none", "cancelled")>>)
  /\ lock' = None
  /\ UNCHANGED <<manifest, summary, asked, run, world>>

-----------------------------------------------------------------------------
(* chain-pause; time *)

\* _compute_next_phase_to_enter
NextPhaseToEnter ==
  IF manifest.phases = <<>> THEN 1
  ELSE Last(manifest.phases).phase + IF Last(manifest.phases).verdict = "open" THEN 0 ELSE 1

\* the manifest is read whatever chain it is of (the sentinel that refuses a
\* second pause is ChainDriver's)
AskPause ==
  /\ lock # None /\ Alive(lock) /\ manifest.chain # None
  /\ asked = NoPause /\ pauses < MaxPauses
  /\ asked' = [next |-> NextPhaseToEnter, chain |-> manifest.chain]
  /\ pauses' = pauses + 1
  /\ UNCHANGED <<lock, records, pause, run, clock, faults, kills>>

\* its row says nothing of the phases
CreatePause ==
  /\ asked # NoPause /\ asked' = NoPause
  /\ pause = NoPause /\ pause' = asked
  /\ UNCHANGED <<lock, records, run, world>>

\* by hand: chain-resume is refused for want of the stamp of a pause
RemovePause ==
  /\ pause # NoPause /\ pause' = NoPause
  /\ UNCHANGED <<lock, records, asked, run, world>>

\* phases and pauses take time, the rest does not
Tick ==
  /\ clock < MaxClock /\ clock' = clock + 1
  /\ \E d \in Drivers : Stands(d, "phase") \/ (Stands(d, "probe") /\ pause # NoPause)
  /\ UNCHANGED <<lock, records, pause, asked, run, faults, kills, pauses>>

DriverStep(d) ==
  \/ \E c \in Drivers, first \in Phases : Launch(d, c, first)
  \/ StampChainStart(d) \/ AutoRegister(d) \/ EmitChainStart(d)
  \/ Probe(d) \/ PrecheckCaps(d) \/ Recheck(d) \/ AppendBootstrap(d)
  \/ \E v \in Verdicts(run[d].phase) : PhaseEnds(d, v)
  \/ StampExit(d) \/ BoundaryHalts(d) \/ BoundaryRefused(d) \/ BoundaryPasses(d)
  \/ EmitChainComplete(d) \/ Raise(d) \/ Sigterm(d) \/ Kill9(d)
  \/ EmitSummary(d) \/ ReleaseBoth(d)

RecordNext == (\E d \in Drivers : DriverStep(d)) \/ ReleaseLock
  \/ AskPause \/ CreatePause \/ RemovePause \/ Tick

RecordSpec == RecordInit /\ [][RecordNext]_recordVars
-----------------------------------------------------------------------------
(***************************************************************************)
(* Properties                                                              *)
(***************************************************************************)

RowsOf(d, kinds) == {k \in DOMAIN rows : rows[k].by = d /\ rows[k].kind \in kinds}
CapRows == {"wall_clock_exceeded", "concurrent_chain_refused"}

\* the rows that say how a phase of d ended, and its entries of the manifest
EndRows(d) == {k \in RowsOf(d, {"boundary", "sealed"}) : rows[k].verdict \notin CapRows}
Ours(d) == {k \in DOMAIN manifest.phases : manifest.phases[k].by = d}
Told(row) == [phase |-> row.phase, verdict |-> IF row.kind = "sealed" THEN "passed" ELSE row.verdict]
Outcome(entry) == [phase |-> entry.phase, verdict |-> entry.verdict]

\* what f says of its indices, taken in order, is the first n of what happened
Rank(S, k) == Cardinality({m \in S : m <= k})
Recounts(f, happened, n) ==
  /\ Cardinality(DOMAIN f) = n
  /\ \A k \in DOMAIN f : f[k] = happened[Rank(DOMAIN f, k)]

(* A driver that ended by itself left three accounts of its phases that    *)
(* agree with what happened and with each other: the boundary rows, its    *)
(* entries of the manifest, until another chain replaces that, and, until  *)
(* a later driver of the chain writes its own, the summary.                *)
AccountsAgree ==
  \A d \in Drivers : run[d].clean /\ Stands(d, "gone") /\ RowsOf(d, {"refused"}) = {} =>
    LET happened == run[d].happened
        all == Len(happened)
    IN  /\ Recounts([k \in EndRows(d) |-> Told(rows[k])], happened, all)
        /\ d \in manifest.of =>
             /\ manifest.chain = run[d].chain
             /\ Recounts([k \in Ours(d) |-> Outcome(manifest.phases[k])], happened, all)
        /\ summary[run[d].chain].by # None
        /\ summary[run[d].chain].by = d => summary[run[d].chain].results = happened

(* An entry of the manifest is about the driver that opened it: a closed   *)
(* one has the verdict of a phase of that driver, and an open one is of a  *)
(* phase that runs or of a driver that something stopped.  (A driver whose *)
(* own entry could not be written may close an older one.)                 *)
EntriesAreTrue ==
  \A i \in DOMAIN manifest.phases :
    LET e == manifest.phases[i]
    IN  IF e.verdict = "open"
        THEN run[e.by].pc \in {"phase", "exit"} \/ ~run[e.by].clean
        ELSE \/ \E k \in DOMAIN run[e.by].happened :
                  run[e.by].happened[k] = [phase |-> e.phase, verdict |-> e.verdict]
             \/ \E d \in Drivers : d # e.by /\ ~run[d].clean

(* A chain is told to be done only after its last phase passed, and a      *)
(* summary that says phase_success is of such a chain, unless an exception *)
(* or a lost write was swallowed on the way.                               *)
SuccessIsEarned ==
  /\ \A i \in DOMAIN rows : rows[i].to = "done" =>
       Last(run[rows[i].by].happened) = [phase |-> LastPhase, verdict |-> "passed"]
  /\ \A c \in Drivers : summary[c].by # None =>
       LET d == summary[c].by
       IN  summary[c].halt = "phase_success" /\ run[d].clean =>
             /\ RowsOf(d, {"complete"}) # {}
             /\ \A k \in DOMAIN summary[c].results : summary[c].results[k].verdict = "passed"

(* No phase starts that the cap leaves no time for, at whatever boundary   *)
(* the clock runs out and however long a pause parked the driver there.    *)
CapIsKept ==
  \A d \in Drivers : Stands(d, "phase") => run[d].since + Estimate <= run[d].began + Cap

(* The phase that a pause names is never ahead of the driver it parks, if  *)
(* the pause read that driver's own manifest.                              *)
PauseNamesNoLaterPhase ==
  \A d \in Drivers :
    Stands(d, "probe") /\ pause # NoPause /\ pause.chain = d /\ run[d].chain = d
      => pause.next <= run[d].phase

(* The words of the records. *)
Ends == {"none", "passed", "verify_plan_rejected", "retry_exceeded"}
Reasons == Ends \cup CapRows \cup {"sealed_path_refused", "concurrent_chain_foreign",
                                   "operator_killed", "phase_success"}
Kinds == {"refused", "registered", "start", "boundary", "sealed", "complete", "stale_cleared",
          "released"}
Outcomes == [phase : Phases, verdict : Ends]
Entries == [phase : Phases, by : Drivers, verdict : Ends \cup {"open"}]
RowSet == [by : Drivers, kind : Kinds, phase : Phases, verdict : Reasons,
           to : {"wip", "deferred", "blocked", "done", "cancelled"}]
Summaries == [by : Drivers \cup {None}, halt : Reasons \cup {"none"}, results : Seq(Outcomes)]
Pauses == [next : 0 .. LastPhase + 1, chain : Drivers \cup {None}]
Pcs == InTry \cup {"unborn", "flush", "release", "gone"}
Runs == [pc : Pcs, chain : Drivers \cup {None},
         phase : Phases, began : Nat, verdict : Ends, halt : Reasons, results : Seq(Outcomes),
         happened : Seq(Outcomes), since : Nat, clean : BOOLEAN]
Manifests == [chain : Drivers \cup {None}, phases : Seq(Entries), of : SUBSET Drivers]

(* Every variable keeps its type. *)
RecordTypeOK ==
  /\ lock \in Drivers \cup {None} /\ manifest \in Manifests /\ rows \in Seq(RowSet)
  /\ summary \in [Drivers -> Summaries] /\ pause \in Pauses /\ asked \in Pauses
  /\ run \in [Drivers -> Runs]
  /\ clock \in 0 .. MaxClock /\ faults \in 0 .. MaxFaults /\ kills \in 0 .. MaxKills

RecordInv ==
  RecordTypeOK /\ AccountsAgree /\ EntriesAreTrue /\ SuccessIsEarned /\ CapIsKept
    /\ PauseNamesNoLaterPhase

(* What is written stays: the log only grows; while a manifest is of one   *)
(* chain its entries keep their place and a closed one is never opened or  *)
(* closed again; a summary is replaced only by another driver's.           *)
RecordsStay ==
  [][/\ IsPrefix(rows, rows')
     /\ manifest'.chain = manifest.chain =>
          \A i \in DOMAIN manifest.phases :
            /\ i \in DOMAIN manifest'.phases
            /\ manifest'.phases[i].by = manifest.phases[i].by
            /\ manifest.phases[i].verdict # "open" => manifest'.phases[i] = manifest.phases[i]
     /\ \A c \in Drivers : summary[c].by # None /\ summary'[c] # summary[c]
                             => summary'[c].by # summary[c].by]_recordVars
=============================================================================
