---------------------------- MODULE ChainDriver ----------------------------
(***************************************************************************)
(* The overnight chain of one plan: bin/chain-overnight drivers and the    *)
(* operator's chain-pause, chain-resume and --release-lock, which meet     *)
(* only in files of the plan directory: the running sentinel, the pause    *)
(* sentinel, the manifest and _operator_inject.md.  Both sentinels are     *)
(* created empty with O_EXCL and then written; every later use is a read   *)
(* followed, later, by a write or an unlink.                               *)
(***************************************************************************)
EXTENDS Integers

CONSTANTS
  Drivers,      \* driver processes, each run once; a fresh chain id is its driver's
  Operators,    \* terminals, each running one command after another
  LastPhase,    \* phases 1 .. LastPhase (PHASE_SEQUENCE is 2 .. 5)
  MaxCommands,  \* bound: operator commands in a behaviour
  MaxCrashes,   \* bound: crashes of drivers and commands
  Nobody

ASSUME ChainAssumption ==
  /\ Nobody \notin Drivers /\ Nobody \notin Operators
  /\ LastPhase \in Nat \ {0} /\ MaxCommands \in Nat /\ MaxCrashes \in Nat

Phases == 1 .. LastPhase

\* A sentinel: the process that created it, the chain id it is about, and
\* whether its content has reached the file.  by and full are Nobody and
\* FALSE when there is no file.
Sentinel(who) == [by : who, chain : Drivers, full : BOOLEAN]
Absent == [by |-> Nobody, chain |-> Nobody, full |-> FALSE]

VARIABLES
  running,    \* _chain_running.lock
  pause,      \* _chain_paused.lock
  manifest,   \* _chain_sessions.json: its chain, and is paused_since set
  inject,     \* _operator_inject.md: the number of the inject, 0 for no file
  written,    \* injects written so far
  pc, chain, phase, body,  \* per driver: control, chain id, phase, inject in hand
  opc, about, seen,        \* per operator: control, the chain id it works on,
                           \* the driver whose pid a release has in hand
  late,       \* phases spawned since the pause in force became readable
  raced,      \* did a driver start that a --release-lock at work may undo
  commands, crashes        \* bounds

files == <<running, pause, manifest, inject, written>>
driving == <<pc, chain, phase, body>>
operating == <<opc, about, seen>>
vars == <<files, driving, operating, late, raced, commands, crashes>>

Init ==
  /\ running = Absent /\ pause = Absent
  /\ manifest = [chain |-> Nobody, paused |-> FALSE]
  /\ inject = 0 /\ written = 0
  /\ pc = [d \in Drivers |-> "unborn"]
  /\ chain = [d \in Drivers |-> d]
  /\ phase = [d \in Drivers |-> 1]
  /\ body = [d \in Drivers |-> 0]
  /\ opc = [o \in Operators |-> "idle"]
  /\ about = [o \in Operators |-> Nobody]
  /\ seen = [o \in Operators |-> Nobody]
  /\ late = 0 /\ raced = FALSE /\ commands = 0 /\ crashes = 0

-----------------------------------------------------------------------------
(* Helpers *)

Alive(d) == pc[d] \notin {"unborn", "gone"}

\* read_sentinel: an empty file has no chain_id
Stamped(c) == running.full /\ running.chain = c

\* pause_sentinel.is_held: a file that does not parse does not hold
Held == pause.full

\* (wrong) any file holds, also one whose writer died before writing it
HeldByAnyFile == pause # Absent

\* the driver goes on, or its process ends and forgets what it knew
GoTo(d, at) == pc' = [pc EXCEPT ![d] = at]
Exit(d) ==
  /\ GoTo(d, "gone")
  /\ phase' = [phase EXCEPT ![d] = 1]
  /\ body' = [body EXCEPT ![d] = 0]

\* a command goes on, or returns
Then(o, at) == opc' = [opc EXCEPT ![o] = at] /\ UNCHANGED <<about, seen>>
Return(o) ==
  /\ opc' = [opc EXCEPT ![o] = "idle"]
  /\ about' = [about EXCEPT ![o] = Nobody]
  /\ seen' = [seen EXCEPT ![o] = Nobody]

\* The commands whose unlink would take a sentinel that chain c gets now:
\* before their second read they look at the chain id only, after it at nothing.
Releasing(c) ==
  {o \in Operators : \/ opc[o] \in {"release_probe", "release"} /\ about[o] = c
                     \/ opc[o] = "release_unlink"}

\* a command that passed its first checks, on chain c
Begin(o, c, at) ==
  /\ opc[o] = "idle"
  /\ commands < MaxCommands
  /\ commands' = commands + 1
  /\ opc' = [opc EXCEPT ![o] = at]
  /\ about' = [about EXCEPT ![o] = c]
  /\ UNCHANGED <<files, driving, late, raced, crashes>>

-----------------------------------------------------------------------------
(* A driver: startup *)

\* main and _run_chain: a fresh chain, or --from-resume of one that exists
Launch(d, c, first) ==
  /\ pc[d] = "unborn"
  /\ c = d \/ pc[c] # "unborn"
  /\ chain' = [chain EXCEPT ![d] = c]
  /\ phase' = [phase EXCEPT ![d] = first]
  /\ GoTo(d, IF c = d THEN "acquire" ELSE "startup")
  /\ UNCHANGED <<files, body, operating, late, raced, commands, crashes>>

\* _consume_operator_inject_if_present: at the startup of a resume, and
\* before each spawn.  Without a file, what was taken at startup stays.
ReadInject(d) ==
  /\ pc[d] \in {"startup", "inject"}
  /\ inject # 0
  /\ body' = [body EXCEPT ![d] = inject]
  /\ GoTo(d, IF pc[d] = "startup" THEN "startup_unlink" ELSE "inject_unlink")
  /\ UNCHANGED <<files, chain, phase, operating, late, raced, commands, crashes>>

AfterInject(d) == IF pc[d] \in {"startup", "startup_unlink"} THEN "acquire" ELSE "spawn"

NoInject(d) ==
  /\ pc[d] \in {"startup", "inject"}
  /\ inject = 0
  /\ GoTo(d, AfterInject(d))
  /\ UNCHANGED <<files, chain, phase, body, operating, late, raced, commands, crashes>>

\* the file is deleted after it was read, whichever file it is by now; a file
\* that is gone is no error
UnlinkInject(d) ==
  /\ pc[d] \in {"startup_unlink", "inject_unlink"}
  /\ inject' = 0
  /\ GoTo(d, AfterInject(d))
  /\ UNCHANGED <<running, pause, manifest, written, chain, phase, body,
                 operating, late, raced, commands, crashes>>

\* (wrong) the file is opened without O_EXCL
CreateOver(d) ==
  /\ pc[d] = "acquire"
  /\ running' = [by |-> d, chain |-> chain[d], full |-> FALSE]
  /\ raced' = (raced \/ Releasing(chain[d]) # {})
  /\ GoTo(d, "write")
  /\ UNCHANGED <<pause, manifest, inject, written, chain, phase, body,
                 operating, late, commands, crashes>>

\* sentinel.acquire, the O_EXCL create
Create(d) ==
  /\ pc[d] = "acquire"
  /\ running = Absent
  /\ running' = [by |-> d, chain |-> chain[d], full |-> FALSE]
  /\ raced' = (raced \/ Releasing(chain[d]) # {})
  /\ GoTo(d, "write")
  /\ UNCHANGED <<pause, manifest, inject, written, chain, phase, body,
                 operating, late, commands, crashes>>

\* denied: the driver exits, with what it took at startup
Denied(d) ==
  /\ pc[d] = "acquire"
  /\ running # Absent
  /\ Exit(d)
  /\ UNCHANGED <<files, chain, operating, late, raced, commands, crashes>>

\* the content of the sentinel, or of a file that a release has unlinked
WriteRunning(d) ==
  /\ pc[d] = "write"
  /\ running' = IF running.by = d THEN [running EXCEPT !.full = TRUE] ELSE running
  /\ GoTo(d, "stamp")
  /\ UNCHANGED <<pause, manifest, inject, written, chain, phase, body,
                 operating, late, raced, commands, crashes>>

\* the write fails: the file is removed and the exception ends the driver
WriteFails(d) ==
  /\ pc[d] = "write"
  /\ running' = Absent
  /\ Exit(d)
  /\ UNCHANGED <<pause, manifest, inject, written, chain, operating, late, raced, commands, crashes>>

\* manifest.stamp_chain_start: the manifest of the same chain is kept
StampChainStart(d) ==
  /\ pc[d] = "stamp"
  /\ manifest' = IF manifest.chain = chain[d] THEN manifest
                 ELSE [chain |-> chain[d], paused |-> FALSE]
  /\ GoTo(d, "probe")
  /\ UNCHANGED <<running, pause, inject, written, chain, phase, body,
                 operating, late, raced, commands, crashes>>

-----------------------------------------------------------------------------
(* A driver: the phase loop *)

\* (wrong) the pause is looked for before the first phase only
ProbeOnce(d) ==
  /\ pc[d] = "probe"
  /\ phase[d] = 1 => ~Held
  /\ GoTo(d, "recheck")
  /\ UNCHANGED <<files, chain, phase, body, operating, late, raced, commands, crashes>>

\* (wrong) the driver waits for the file to go away
ProbeFile(d) ==
  /\ pc[d] = "probe"
  /\ ~HeldByAnyFile
  /\ GoTo(d, "recheck")
  /\ UNCHANGED <<files, chain, phase, body, operating, late, raced, commands, crashes>>

\* the pause probe: parked while the sentinel, of whatever chain, is held
Probe(d) ==
  /\ pc[d] = "probe"
  /\ ~Held
  /\ GoTo(d, "recheck")
  /\ UNCHANGED <<files, chain, phase, body, operating, late, raced, commands, crashes>>

\* recheck_foreign_sentinel, at the edge to the phase
Recheck(d) ==
  /\ pc[d] = "recheck"
  /\ \/ Stamped(chain[d]) /\ GoTo(d, "inject")
     \/ ~Stamped(chain[d]) /\ GoTo(d, "flush")
  /\ UNCHANGED <<files, chain, phase, body, operating, late, raced, commands, crashes>>

\* spawn_planner_phase or spawn_retry_loop_phase starts, with the inject
Spawn(d) ==
  /\ pc[d] = "spawn"
  /\ body' = [body EXCEPT ![d] = 0]
  /\ late' = IF Held THEN late + 1 ELSE late
  /\ GoTo(d, "phase")
  /\ UNCHANGED <<files, chain, phase, operating, raced, commands, crashes>>

\* (wrong) one phase more than there are
PassedBeyond(d) ==
  /\ pc[d] = "phase"
  /\ IF phase[d] <= LastPhase
     THEN phase' = [phase EXCEPT ![d] = @ + 1] /\ GoTo(d, "probe")
     ELSE UNCHANGED phase /\ GoTo(d, "flush")
  /\ UNCHANGED <<files, chain, body, operating, late, raced, commands, crashes>>

\* the phase passed and nothing sealed is staged
Passed(d) ==
  /\ pc[d] = "phase"
  /\ IF phase[d] < LastPhase
     THEN phase' = [phase EXCEPT ![d] = @ + 1] /\ GoTo(d, "probe")
     ELSE UNCHANGED phase /\ GoTo(d, "flush")
  /\ UNCHANGED <<files, chain, body, operating, late, raced, commands, crashes>>

\* A halt verdict of the phase, the wall-clock cap, a sealed path, SIGTERM or
\* an exception: the finally block runs
Halt(d) ==
  /\ pc[d] \in {"stamp", "probe", "recheck", "inject", "inject_unlink", "spawn", "phase"}
  /\ body' = [body EXCEPT ![d] = 0]
  /\ GoTo(d, "flush")
  /\ UNCHANGED <<files, chain, phase, operating, late, raced, commands, crashes>>

-----------------------------------------------------------------------------
(* A driver: _ChainFinalizer.flush *)

\* release_if_present: no chain id is compared
FlushPause(d) ==
  /\ pc[d] = "flush"
  /\ pause' = Absent
  /\ GoTo(d, "unlock")
  /\ UNCHANGED <<running, manifest, inject, written, chain, phase, body,
                 operating, late, raced, commands, crashes>>

\* sentinel.release: read and compare, then unlink
ReadRunning(d) ==
  /\ pc[d] = "unlock"
  /\ Stamped(chain[d])
  /\ GoTo(d, "unlink")
  /\ UNCHANGED <<files, chain, phase, body, operating, late, raced, commands, crashes>>

UnlinkRunning(d) ==
  /\ pc[d] = "unlink"
  /\ running' = Absent
  /\ Exit(d)
  /\ UNCHANGED <<pause, manifest, inject, written, chain, operating, late, raced, commands, crashes>>

\* the sentinel is gone, or another chain's: it is left alone
LeaveRunning(d) ==
  /\ pc[d] = "unlock"
  /\ ~Stamped(chain[d])
  /\ Exit(d)
  /\ UNCHANGED <<files, chain, operating, late, raced, commands, crashes>>

-----------------------------------------------------------------------------
(* chain-pause *)

\* steps 2 to 5: a full running sentinel of a live driver, and a manifest
CheckForPause(o) ==
  /\ running.full /\ Alive(running.by) /\ manifest.chain # Nobody
  /\ Begin(o, running.chain, "pause")
  /\ UNCHANGED seen

\* step 6, the O_EXCL create: exit 23 when there is a pause already
CreatePause(o) ==
  /\ opc[o] = "pause"
  /\ \/ /\ pause = Absent
        /\ pause' = [by |-> o, chain |-> about[o], full |-> FALSE]
        /\ Then(o, "pause_write")
     \/ pause # Absent /\ UNCHANGED pause /\ Return(o)
  /\ UNCHANGED <<running, manifest, inject, written, driving, late, raced, commands, crashes>>

\* its content: the file may have been unlinked, and replaced, meanwhile.  A
\* failing write removes the file.
WritePause(o) ==
  /\ opc[o] = "pause_write"
  /\ \/ pause.by = o /\ pause' = [pause EXCEPT !.full = TRUE] /\ late' = 0
     \/ pause.by # o /\ UNCHANGED <<pause, late>>
     \/ pause' = Absent /\ UNCHANGED late
  /\ Return(o)
  /\ UNCHANGED <<running, manifest, inject, written, driving, raced, commands, crashes>>

-----------------------------------------------------------------------------
(* chain-resume *)

\* steps 2 to 4: a pause, and a live driver of the chain it is about
CheckForResume(o, withInject) ==
  /\ Held
  /\ Stamped(pause.chain) /\ Alive(running.by)
  /\ Begin(o, pause.chain, IF withInject THEN "inject" ELSE "stamp")
  /\ UNCHANGED seen

\* step 5c: an inject that is still there refuses the command
CheckInject(o) ==
  /\ opc[o] = "inject"
  /\ \/ inject = 0 /\ Then(o, "inject_write")
     \/ inject # 0 /\ Return(o)
  /\ UNCHANGED <<files, driving, late, raced, commands, crashes>>

\* step 5d
WriteInject(o) ==
  /\ opc[o] = "inject_write"
  /\ written' = written + 1
  /\ inject' = written'
  /\ Then(o, "stamp")
  /\ UNCHANGED <<running, pause, manifest, driving, late, raced, commands, crashes>>

\* Steps 6 to 8: stamp_pause_end ends the pause of a manifest whose
\* paused_since is set, and then the sentinel goes.  It refuses otherwise:
\* the command exits 2 and leaves the sentinel.  No command ever calls
\* stamp_pause_start, so the release is not split into its read and unlink.
StampPauseEnd(o) ==
  /\ opc[o] = "stamp"
  /\ LET ends == manifest.chain = about[o] /\ manifest.paused
     IN  /\ manifest' = [manifest EXCEPT !.paused = @ /\ ~ends]
         /\ pause' = IF ends /\ pause.full /\ pause.chain = about[o] THEN Absent ELSE pause
  /\ Return(o)
  /\ UNCHANGED <<running, inject, written, driving, late, raced, commands, crashes>>

-----------------------------------------------------------------------------
(* chain-overnight --release-lock *)

\* the sentinel of the chain that the command names, and its driver_pid
ReadToRelease(o, c) ==
  /\ Stamped(c)
  /\ Begin(o, c, "release_probe")
  /\ seen' = [seen EXCEPT ![o] = running.by]

\* (wrong) the driver is not asked whether it lives
NeverProbed(o) ==
  /\ opc[o] = "release_probe"
  /\ Then(o, "release")
  /\ UNCHANGED <<files, driving, late, raced, commands, crashes>>

\* is_pid_alive_locally, of the pid that was read: a live driver keeps its lock
ProbeToRelease(o) ==
  /\ opc[o] = "release_probe"
  /\ IF Alive(seen[o]) THEN Return(o) ELSE Then(o, "release")
  /\ UNCHANGED <<files, driving, late, raced, commands, crashes>>

\* sentinel.release reads the file again, and compares only the chain id: an
\* absent file is released already, a mismatch ends the command
ReadForRelease(o) ==
  /\ opc[o] = "release"
  /\ \/ running = Absent /\ Then(o, "release_pause")
     \/ Stamped(about[o]) /\ Then(o, "release_unlink")
     \/ running # Absent /\ ~Stamped(about[o]) /\ Return(o)
  /\ UNCHANGED <<files, driving, late, raced, commands, crashes>>

UnlinkForRelease(o) ==
  /\ opc[o] = "release_unlink"
  /\ running' = Absent
  /\ Then(o, "release_pause")
  /\ UNCHANGED <<pause, manifest, inject, written, driving, late, raced, commands, crashes>>

ReleasePause(o) ==
  /\ opc[o] = "release_pause"
  /\ pause' = Absent
  /\ Return(o)
  /\ UNCHANGED <<running, manifest, inject, written, driving, late, raced, commands, crashes>>

-----------------------------------------------------------------------------
(* kill -9, a power cut *)

CrashDriver(d) ==
  /\ Alive(d)
  /\ crashes < MaxCrashes
  /\ crashes' = crashes + 1
  /\ Exit(d)
  /\ UNCHANGED <<files, chain, operating, late, raced, commands>>

CrashCommand(o) ==
  /\ opc[o] # "idle"
  /\ crashes < MaxCrashes
  /\ crashes' = crashes + 1
  /\ Return(o)
  /\ UNCHANGED <<files, driving, late, raced, commands>>

Drive(d) ==
  \/ ReadInject(d) \/ NoInject(d) \/ UnlinkInject(d)
  \/ Create(d) \/ Denied(d) \/ WriteRunning(d) \/ WriteFails(d)
  \/ StampChainStart(d)
  \/ Probe(d) \/ Recheck(d) \/ Spawn(d) \/ Passed(d)
  \/ FlushPause(d) \/ ReadRunning(d) \/ UnlinkRunning(d) \/ LeaveRunning(d)

Operate(o) ==
  \/ CreatePause(o) \/ WritePause(o)
  \/ CheckInject(o) \/ WriteInject(o) \/ StampPauseEnd(o)
  \/ ProbeToRelease(o) \/ ReadForRelease(o) \/ UnlinkForRelease(o) \/ ReleasePause(o)

Request(o) ==
  \/ CheckForPause(o)
  \/ \E withInject \in BOOLEAN : CheckForResume(o, withInject)
  \/ \E c \in Drivers : ReadToRelease(o, c)

Next ==
  \/ \E d \in Drivers :
       \/ \E c \in Drivers, first \in Phases : Launch(d, c, first)
       \/ Drive(d) \/ Halt(d) \/ CrashDriver(d)
  \/ \E o \in Operators : Request(o) \/ Operate(o) \/ CrashCommand(o)

Spec == Init /\ [][Next]_vars

\* A process that can go on does: a driver waits for nothing but the pause,
\* a command for nothing.  Nobody has to launch, halt or request anything.
FairSpec ==
  /\ Spec
  /\ \A d \in Drivers : WF_vars(Drive(d))
  /\ \A o \in Operators : WF_vars(Operate(o))
-----------------------------------------------------------------------------
Holding == {"write", "stamp", "probe", "recheck", "inject", "inject_unlink",
            "spawn", "phase", "flush", "unlock", "unlink"}
DriverPC == Holding \cup {"unborn", "startup", "startup_unlink", "acquire", "gone"}
OperatorPC == {"idle", "pause", "pause_write", "inject", "inject_write", "stamp",
               "release_probe", "release", "release_unlink", "release_pause"}

(***************************************************************************)
(* Properties                                                              *)
(***************************************************************************)

(* Every variable keeps its type; a driver never runs past the last phase. *)
TypeOK ==
  /\ running \in Sentinel(Drivers) \cup {Absent}
  /\ pause \in Sentinel(Operators) \cup {Absent}
  /\ manifest \in [chain : Drivers \cup {Nobody}, paused : BOOLEAN]
  /\ inject \in Nat /\ written \in Nat
  /\ pc \in [Drivers -> DriverPC]
  /\ chain \in [Drivers -> Drivers]
  /\ phase \in [Drivers -> Phases]
  /\ body \in [Drivers -> Nat]
  /\ opc \in [Operators -> OperatorPC]
  /\ about \in [Operators -> Drivers \cup {Nobody}]
  /\ seen \in [Operators -> Drivers \cup {Nobody}]
  /\ \A o \in Operators : opc[o] = "idle" <=> about[o] = Nobody
  /\ late \in Nat /\ raced \in BOOLEAN /\ commands \in Nat /\ crashes \in Nat

(* From its O_EXCL create to its unlink a driver finds its own sentinel on *)
(* the disk, so two drivers never drive one plan, not even of one chain    *)
(* id; and a sentinel with no live driver behind it was left by a crash.   *)
(* The exception is a driver that starts while a --release-lock is between *)
(* its reads and its unlink: it may be another driver's dead sentinel that *)
(* the command saw, and this one's that it unlinks.  One command is enough *)
(* for that when the driver resumes the chain the command names; two are   *)
(* as harmless as one if nothing starts between them.                      *)
LockTellsTheDriver ==
  ~raced =>
    /\ \A d \in Drivers :
         pc[d] \in Holding => running.by = d /\ running.chain = chain[d]
    /\ running # Absent => pc[running.by] \in Holding \/ crashes > 0

(* The pause is honoured at the next phase boundary: once the sentinel can *)
(* be read, at most the one phase is spawned whose probe came before it.   *)
PauseStopsWithinOnePhase == ~raced => late <= 1

(* The running sentinel is a lock with one owner at a time, which a crash  *)
(* leaves to the dead driver and only --release-lock takes back from it,   *)
(* until a driver starts under the hands of such a command.                *)
Lock == INSTANCE ChainLock
  WITH owner <- running.by,
       alive <- {d \in Drivers : Alive(d)}

ImplementsChainLock ==
  /\ Lock!Init
  /\ [][raced' \/ [Lock!Next]_<<running.by, {d \in Drivers : Alive(d)}>>]_vars

(* A driver ends unless a pause that can be read parks it for good: no     *)
(* half-written sentinel, no refusal and no crash of a command blocks it.  *)
DriverEndsUnlessPaused ==
  \A d \in Drivers : <>[](Alive(d)) => <>[](Held)
=============================================================================
