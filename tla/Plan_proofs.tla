----------------------------- MODULE Plan_proofs -----------------------------
(***************************************************************************)
(* Proofs about what makes a plan and what executes it, in two parts:      *)
(* ChainDriver, for every set of drivers and terminals and every number of *)
(* phases, commands and crashes; and Planner, for every set of runs, every *)
(* patch and orchestrator their schemas allow, any ranking of the ids and  *)
(* any number of faults and deferrals.  The two share no name.             *)
(***************************************************************************)
EXTENDS ChainDriver, Planner, FiniteSetTheorems, WellFoundedInduction, TLAPS


-----------------------------------------------------------------------------
(* Types *)

(* Every step keeps the types.                                             *)
LEMMA TypeStep == TypeOK /\ [Next]_vars => TypeOK'
  <1> SUFFICES ASSUME TypeOK, [Next]_vars PROVE TypeOK'
    OBVIOUS
  <1> USE ChainAssumption DEF TypeOK, Sentinel, Absent, Phases, DriverPC,
     Holding, OperatorPC, files, driving, operating
  <1>1. ASSUME NEW d \in Drivers, NEW c \in Drivers, NEW first \in Phases, Launch(d, c, first)
       PROVE  TypeOK'
    BY <1>1 DEF Launch, GoTo, Alive
  <1>2. ASSUME NEW d \in Drivers, ReadInject(d) PROVE TypeOK'
    BY <1>2 DEF ReadInject, GoTo, Alive
  <1>3. ASSUME NEW d \in Drivers, NoInject(d) PROVE TypeOK'
    BY <1>3 DEF NoInject, GoTo, AfterInject, Alive
  <1>4. ASSUME NEW d \in Drivers, UnlinkInject(d) PROVE TypeOK'
    BY <1>4 DEF UnlinkInject, GoTo, AfterInject, Alive
  <1>5. ASSUME NEW d \in Drivers, Create(d) PROVE TypeOK'
    <2>1. raced' \in BOOLEAN
      BY <1>5, Zenon DEF Create
    <2>2. QED
      BY <2>1, <1>5 DEF Create, GoTo
  <1>6. ASSUME NEW d \in Drivers, Denied(d) PROVE TypeOK'
    BY <1>6 DEF Denied, Exit, GoTo, Alive
  <1>7. ASSUME NEW d \in Drivers, WriteRunning(d) PROVE TypeOK'
    <2>1. running' \in Sentinel(Drivers) \cup {Absent}
      <3>1. CASE running.by = d
        <4>1. running \in Sentinel(Drivers)
          BY <3>1
        <4>2. QED
          BY <3>1, <4>1, <1>7 DEF WriteRunning
      <3>2. CASE running.by # d
        BY <3>2, <1>7 DEF WriteRunning
      <3>3. QED
        BY <3>1, <3>2
    <2>2. QED
      BY <2>1, <1>7 DEF WriteRunning, GoTo
  <1>8. ASSUME NEW d \in Drivers, WriteFails(d) PROVE TypeOK'
    BY <1>8 DEF WriteFails, Exit, GoTo, Alive
  <1>9. ASSUME NEW d \in Drivers, StampChainStart(d) PROVE TypeOK'
    BY <1>9 DEF StampChainStart, GoTo, Alive
  <1>10. ASSUME NEW d \in Drivers, Probe(d) PROVE TypeOK'
    BY <1>10 DEF Probe, GoTo, Held, Alive
  <1>11. ASSUME NEW d \in Drivers, Recheck(d) PROVE TypeOK'
    BY <1>11 DEF Recheck, GoTo, Stamped, Alive
  <1>12. ASSUME NEW d \in Drivers, Spawn(d) PROVE TypeOK'
    BY <1>12 DEF Spawn, GoTo, Held, Alive
  <1>13. ASSUME NEW d \in Drivers, Passed(d) PROVE TypeOK'
    BY <1>13 DEF Passed, GoTo, Alive
  <1>14. ASSUME NEW d \in Drivers, FlushPause(d) PROVE TypeOK'
    BY <1>14 DEF FlushPause, GoTo, Alive
  <1>15. ASSUME NEW d \in Drivers, ReadRunning(d) PROVE TypeOK'
    BY <1>15 DEF ReadRunning, GoTo, Stamped, Alive
  <1>16. ASSUME NEW d \in Drivers, UnlinkRunning(d) PROVE TypeOK'
    BY <1>16 DEF UnlinkRunning, Exit, GoTo, Alive
  <1>17. ASSUME NEW d \in Drivers, LeaveRunning(d) PROVE TypeOK'
    BY <1>17 DEF LeaveRunning, Exit, GoTo, Stamped, Alive
  <1>18. ASSUME NEW d \in Drivers, Halt(d) PROVE TypeOK'
    BY <1>18 DEF Halt, GoTo, Alive
  <1>19. ASSUME NEW d \in Drivers, CrashDriver(d) PROVE TypeOK'
    BY <1>19 DEF CrashDriver, Exit, GoTo, Alive
  <1>20. ASSUME NEW o \in Operators, CheckForPause(o) PROVE TypeOK'
    BY <1>20 DEF CheckForPause, Begin, Alive
  <1>21. ASSUME NEW o \in Operators, NEW withInject \in BOOLEAN, CheckForResume(o, withInject)
       PROVE  TypeOK'
    BY <1>21 DEF CheckForResume, Begin, Held, Stamped, Alive
  <1>22. ASSUME NEW o \in Operators, NEW c \in Drivers, ReadToRelease(o, c)
       PROVE  TypeOK'
    <2>1. running.by \in Drivers \cup {Nobody}
      OBVIOUS
    <2>2. QED
      BY <2>1, <1>22 DEF ReadToRelease, Begin
  <1>23. ASSUME NEW o \in Operators, CreatePause(o) PROVE TypeOK'
    <2>1. CASE UNCHANGED pause /\ Return(o)
      BY <2>1, <1>23 DEF CreatePause, Return
    <2>2. CASE pause' = [by |-> o, chain |-> about[o], full |-> FALSE] /\ Then(o, "pause_write")
      <3>1. about[o] \in Drivers
        BY <1>23 DEF CreatePause
      <3>2. QED
        BY <2>2, <1>23 DEF CreatePause, Then
    <2>3. QED
      BY <2>1, <2>2, <1>23 DEF CreatePause
  <1>24. ASSUME NEW o \in Operators, WritePause(o) PROVE TypeOK'
    <2>1. CASE pause.by = o /\ pause' = [pause EXCEPT !.full = TRUE] /\ late' = 0
      <3>1. pause \in Sentinel(Operators)
        BY <2>1
      <3>2. QED
        BY <2>1, <3>1, <1>24 DEF WritePause, Return
    <2>2. CASE pause.by # o /\ UNCHANGED <<pause, late>>
      BY <2>2, <1>24 DEF WritePause, Return
    <2>3. CASE pause' = Absent /\ UNCHANGED late
      BY <2>3, <1>24 DEF WritePause, Return
    <2>4. QED
      BY <2>1, <2>2, <2>3, <1>24 DEF WritePause
  <1>25. ASSUME NEW o \in Operators, CheckInject(o) PROVE TypeOK'
    BY <1>25 DEF CheckInject, Then, Return, Alive
  <1>26. ASSUME NEW o \in Operators, WriteInject(o) PROVE TypeOK'
    BY <1>26 DEF WriteInject, Then, Alive
  <1>27. ASSUME NEW o \in Operators, StampPauseEnd(o) PROVE TypeOK'
    BY <1>27 DEF StampPauseEnd, Return, Alive
  <1>28. ASSUME NEW o \in Operators, ReadForRelease(o) PROVE TypeOK'
    BY <1>28 DEF ReadForRelease, Then, Return, Stamped, Alive
  <1>29. ASSUME NEW o \in Operators, UnlinkForRelease(o) PROVE TypeOK'
    BY <1>29 DEF UnlinkForRelease, Then, Alive
  <1>30. ASSUME NEW o \in Operators, ReleasePause(o) PROVE TypeOK'
    BY <1>30 DEF ReleasePause, Return, Alive
  <1>31. ASSUME NEW o \in Operators, CrashCommand(o) PROVE TypeOK'
    BY <1>31 DEF CrashCommand, Return, Alive
  <1>32. ASSUME NEW o \in Operators, ProbeToRelease(o) PROVE TypeOK'
    BY <1>32 DEF ProbeToRelease, Then, Return, Alive
  <1>33. CASE UNCHANGED vars
    BY <1>33 DEF Alive, vars, files, driving, operating
  <1> HIDE DEF TypeOK, Sentinel, Absent, Phases, DriverPC, Holding,
     OperatorPC, files, driving, operating
  <1> QED
    BY <1>1, <1>2, <1>3, <1>4, <1>5, <1>6, <1>7, <1>8, <1>9, <1>10, <1>11,
       <1>12, <1>13, <1>14, <1>15, <1>16, <1>17, <1>18, <1>19, <1>20,
       <1>21, <1>22, <1>23, <1>24, <1>25, <1>26, <1>27, <1>28, <1>29,
       <1>30, <1>31, <1>32, <1>33
    DEF Next, Drive, Operate, Request

(* The initial state is well typed.                                        *)
LEMMA InitType == Init => TypeOK
  <1> SUFFICES ASSUME Init PROVE TypeOK
    OBVIOUS
  <1>1. 1 \in Phases
    BY ChainAssumption DEF Phases
  <1>2. /\ pc \in [Drivers -> DriverPC] /\ chain \in [Drivers -> Drivers]
        /\ phase \in [Drivers -> Phases] /\ body \in [Drivers -> Nat]
    BY <1>1 DEF Init, DriverPC
  <1>3. /\ opc \in [Operators -> OperatorPC] /\ about \in [Operators -> Drivers \cup {Nobody}]
        /\ seen \in [Operators -> Drivers \cup {Nobody}]
        /\ \A o \in Operators : opc[o] = "idle" <=> about[o] = Nobody
    BY DEF Init, OperatorPC
  <1>4. QED
    BY <1>2, <1>3 DEF Init, TypeOK, Absent

(* Every variable keeps its type: no phase after the last one is run.      *)
THEOREM TypeCorrect == Spec => []TypeOK
  BY InitType, TypeStep, PTL DEF Spec

-----------------------------------------------------------------------------
(* The running sentinel *)

(* A driver is the creator of a sentinel from its create on.               *)
BornInv == running.by # Nobody => pc[running.by] \in Holding \cup {"gone"}

(* What a --release-lock can take is what it saw: before its probe the     *)
(* sentinel of the driver it read, after it that of a driver that is gone. *)
ReleaseInv ==
  \A o \in Operators :
    /\ opc[o] = "release_probe" /\ running.chain = about[o] => running.by = seen[o]
    /\ opc[o] = "release" /\ running.chain = about[o] => pc[running.by] = "gone"
    /\ opc[o] = "release_unlink" /\ running # Absent => pc[running.by] = "gone"

(* A driver that has written its sentinel finds it, and finds it whole.    *)
HoldInv ==
  \A d \in Drivers : pc[d] \in Holding =>
    running.by = d /\ running.chain = chain[d] /\ (pc[d] # "write" => running.full)

(* A sentinel without its driver was left by a crash.                      *)
LeftInv == running # Absent => pc[running.by] \in Holding \/ crashes > 0

LockInv == TypeOK /\ BornInv /\ (~raced => ReleaseInv /\ HoldInv /\ LeftInv)

(* Every step keeps what is known of the sentinel.                         *)
LEMMA LockStep == LockInv /\ [Next]_vars => LockInv'
  <1> SUFFICES ASSUME LockInv, [Next]_vars PROVE LockInv'
    OBVIOUS
  <1> TypeOK'
    BY TypeStep DEF LockInv
  <1> USE ChainAssumption DEF LockInv, TypeOK, BornInv,
     ReleaseInv, HoldInv, LeftInv, Sentinel, Absent, Releasing, Holding,
     DriverPC, OperatorPC, files, driving, operating
  <1>1. ASSUME NEW d \in Drivers, NEW c \in Drivers, NEW first \in Phases, Launch(d, c, first)
       PROVE  LockInv'
    BY <1>1 DEF Launch, GoTo, Alive
  <1>2. ASSUME NEW d \in Drivers, ReadInject(d) PROVE LockInv'
    BY <1>2 DEF ReadInject, GoTo, Alive
  <1>3. ASSUME NEW d \in Drivers, NoInject(d) PROVE LockInv'
    BY <1>3 DEF NoInject, GoTo, AfterInject, Alive
  <1>4. ASSUME NEW d \in Drivers, UnlinkInject(d) PROVE LockInv'
    BY <1>4 DEF UnlinkInject, GoTo, AfterInject, Alive
  <1>5. ASSUME NEW d \in Drivers, Create(d) PROVE LockInv'
    <2>1. /\ running = Absent /\ UNCHANGED <<opc, about, seen, chain, crashes>>
          /\ running' = [by |-> d, chain |-> chain[d], full |-> FALSE]
          /\ pc' = [pc EXCEPT ![d] = "write"]
          /\ ~raced' => ~raced /\ Releasing(chain[d]) = {}
      BY <1>5 DEF Create, GoTo
    <2>2. BornInv'
      BY <2>1
    <2>3. ASSUME ~raced' PROVE ReleaseInv' /\ HoldInv' /\ LeftInv'
      <3>1. \A o \in Operators :
              /\ opc[o] \in {"release_probe", "release"} => about[o] # chain[d]
              /\ opc[o] # "release_unlink"
        BY <2>1, <2>3
      <3>2. ReleaseInv'
        BY <2>1, <3>1
      <3>3. HoldInv' /\ LeftInv'
        BY <2>1, <2>3
      <3>4. QED
        BY <3>2, <3>3
    <2>4. QED
      BY <2>2, <2>3
  <1>6. ASSUME NEW d \in Drivers, Denied(d) PROVE LockInv'
    BY <1>6 DEF Denied, Exit, GoTo, Alive
  <1>7. ASSUME NEW d \in Drivers, WriteRunning(d) PROVE LockInv'
    BY <1>7 DEF WriteRunning, GoTo, Alive
  <1>8. ASSUME NEW d \in Drivers, WriteFails(d) PROVE LockInv'
    BY <1>8 DEF WriteFails, Exit, GoTo, Alive
  <1>9. ASSUME NEW d \in Drivers, StampChainStart(d) PROVE LockInv'
    BY <1>9 DEF StampChainStart, GoTo, Alive
  <1>10. ASSUME NEW d \in Drivers, Probe(d) PROVE LockInv'
    BY <1>10 DEF Probe, GoTo, Held, Alive
  <1>11. ASSUME NEW d \in Drivers, Recheck(d) PROVE LockInv'
    BY <1>11 DEF Recheck, GoTo, Stamped, Alive
  <1>12. ASSUME NEW d \in Drivers, Spawn(d) PROVE LockInv'
    BY <1>12 DEF Spawn, GoTo, Held, Alive
  <1>13. ASSUME NEW d \in Drivers, Passed(d) PROVE LockInv'
    BY <1>13 DEF Passed, GoTo, Alive
  <1>14. ASSUME NEW d \in Drivers, FlushPause(d) PROVE LockInv'
    BY <1>14 DEF FlushPause, GoTo, Alive
  <1>15. ASSUME NEW d \in Drivers, ReadRunning(d) PROVE LockInv'
    BY <1>15 DEF ReadRunning, GoTo, Stamped, Alive
  <1>16. ASSUME NEW d \in Drivers, UnlinkRunning(d) PROVE LockInv'
    BY <1>16 DEF UnlinkRunning, Exit, GoTo, Alive
  <1>17. ASSUME NEW d \in Drivers, LeaveRunning(d) PROVE LockInv'
    BY <1>17 DEF LeaveRunning, Exit, GoTo, Stamped, Alive
  <1>18. ASSUME NEW d \in Drivers, Halt(d) PROVE LockInv'
    BY <1>18 DEF Halt, GoTo, Alive
  <1>19. ASSUME NEW d \in Drivers, CrashDriver(d) PROVE LockInv'
    BY <1>19 DEF CrashDriver, Exit, GoTo, Alive
  <1>20. ASSUME NEW o \in Operators, CheckForPause(o) PROVE LockInv'
    BY <1>20 DEF CheckForPause, Begin, Alive
  <1>21. ASSUME NEW o \in Operators, NEW withInject \in BOOLEAN, CheckForResume(o, withInject)
       PROVE  LockInv'
    BY <1>21 DEF CheckForResume, Begin, Held, Stamped, Alive
  <1>22. ASSUME NEW o \in Operators, NEW c \in Drivers, ReadToRelease(o, c)
       PROVE  LockInv'
    BY <1>22 DEF ReadToRelease, Begin, Stamped, Alive
  <1>23. ASSUME NEW o \in Operators, CreatePause(o) PROVE LockInv'
    BY <1>23 DEF CreatePause, Then, Return, Alive
  <1>24. ASSUME NEW o \in Operators, WritePause(o) PROVE LockInv'
    BY <1>24 DEF WritePause, Return, Alive
  <1>25. ASSUME NEW o \in Operators, CheckInject(o) PROVE LockInv'
    BY <1>25 DEF CheckInject, Then, Return, Alive
  <1>26. ASSUME NEW o \in Operators, WriteInject(o) PROVE LockInv'
    BY <1>26 DEF WriteInject, Then, Alive
  <1>27. ASSUME NEW o \in Operators, StampPauseEnd(o) PROVE LockInv'
    BY <1>27 DEF StampPauseEnd, Return, Alive
  <1>28. ASSUME NEW o \in Operators, ReadForRelease(o) PROVE LockInv'
    BY <1>28 DEF ReadForRelease, Then, Return, Stamped, Alive
  <1>29. ASSUME NEW o \in Operators, UnlinkForRelease(o) PROVE LockInv'
    BY <1>29 DEF UnlinkForRelease, Then, Alive
  <1>30. ASSUME NEW o \in Operators, ReleasePause(o) PROVE LockInv'
    BY <1>30 DEF ReleasePause, Return, Alive
  <1>31. ASSUME NEW o \in Operators, CrashCommand(o) PROVE LockInv'
    BY <1>31 DEF CrashCommand, Return, Alive
  <1>32. ASSUME NEW o \in Operators, ProbeToRelease(o) PROVE LockInv'
    BY <1>32 DEF ProbeToRelease, Then, Return, Alive
  <1>33. CASE UNCHANGED vars
    BY <1>33 DEF Alive, vars, files, driving, operating
  <1> HIDE DEF LockInv, TypeOK, BornInv, ReleaseInv, HoldInv,
     LeftInv, Sentinel, Absent, Releasing, Holding, DriverPC, OperatorPC,
     files, driving, operating
  <1> QED
    BY <1>1, <1>2, <1>3, <1>4, <1>5, <1>6, <1>7, <1>8, <1>9, <1>10, <1>11,
       <1>12, <1>13, <1>14, <1>15, <1>16, <1>17, <1>18, <1>19, <1>20,
       <1>21, <1>22, <1>23, <1>24, <1>25, <1>26, <1>27, <1>28, <1>29,
       <1>30, <1>31, <1>32, <1>33
    DEF Next, Drive, Operate, Request

(* The sentinel is its creator's, whole once it is written, and all that  *)
(* a --release-lock can take is a dead driver's: an invariant, until a     *)
(* driver starts between the reads and the unlink of such a command.       *)
THEOREM LockCorrect == Spec => []LockInv
  <1>1. Init => LockInv
    <2>1. Init => TypeOK
      BY InitType
    <2>2. Init => BornInv /\ ReleaseInv /\ HoldInv /\ LeftInv
      BY DEF Init, BornInv, ReleaseInv, HoldInv, LeftInv,
         Absent, Holding
    <2>3. QED
      BY <2>1, <2>2 DEF LockInv
  <1>2. QED
    BY <1>1, LockStep, PTL DEF Spec

(* Until a driver starts under the hands of a --release-lock, a driver     *)
(* between its create and its unlink finds its own sentinel, and one       *)
(* without its driver was left by a crash.                                 *)
THEOREM LockTold == Spec => []LockTellsTheDriver
  <1>1. LockInv => LockTellsTheDriver
    BY DEF LockInv, HoldInv, LeftInv, LockTellsTheDriver
  <1>2. QED
    BY <1>1, LockCorrect, PTL

-----------------------------------------------------------------------------
(* The pause *)

\* past the probe and not yet spawned
PastProbe == {"recheck", "inject", "inject_unlink", "spawn"}

(* Once a phase was spawned under the pause, nobody is past the probe.     *)
PauseInv == ~raced => late \in {0, 1} /\ (Held /\ late = 1 => \A d \in Drivers : pc[d] \notin PastProbe)

(* The drivers past their create are one.                                  *)
LEMMA OneHolds ==
  ASSUME LockInv, ~raced, NEW d1 \in Drivers, NEW d2 \in Drivers,
         pc[d1] \in Holding, pc[d2] \in Holding
  PROVE  d1 = d2
  BY DEF LockInv, HoldInv

(* Every step keeps it: a new phase needs a probe that finds no pause.     *)
LEMMA PauseStep == LockInv /\ PauseInv /\ [Next]_vars => PauseInv'
  <1> SUFFICES ASSUME LockInv, PauseInv, [Next]_vars PROVE PauseInv'
    OBVIOUS
  <1> TypeOK
    BY DEF LockInv
  <1> USE DEF PauseInv, TypeOK, PastProbe, Held, Absent, Sentinel, files,
     driving, operating
  <1>1. ASSUME NEW d \in Drivers, NEW c \in Drivers, NEW first \in Phases, Launch(d, c, first)
       PROVE  PauseInv'
    BY <1>1 DEF Launch, GoTo, Alive
  <1>2. ASSUME NEW d \in Drivers, ReadInject(d) PROVE PauseInv'
    BY <1>2 DEF ReadInject, GoTo, Alive
  <1>3. ASSUME NEW d \in Drivers, NoInject(d) PROVE PauseInv'
    BY <1>3 DEF NoInject, GoTo, AfterInject, Alive
  <1>4. ASSUME NEW d \in Drivers, UnlinkInject(d) PROVE PauseInv'
    BY <1>4 DEF UnlinkInject, GoTo, AfterInject, Alive
  <1>5. ASSUME NEW d \in Drivers, Create(d) PROVE PauseInv'
    BY <1>5 DEF Create, GoTo, Alive
  <1>6. ASSUME NEW d \in Drivers, Denied(d) PROVE PauseInv'
    BY <1>6 DEF Denied, Exit, GoTo, Alive
  <1>7. ASSUME NEW d \in Drivers, WriteRunning(d) PROVE PauseInv'
    BY <1>7 DEF WriteRunning, GoTo, Alive
  <1>8. ASSUME NEW d \in Drivers, WriteFails(d) PROVE PauseInv'
    BY <1>8 DEF WriteFails, Exit, GoTo, Alive
  <1>9. ASSUME NEW d \in Drivers, StampChainStart(d) PROVE PauseInv'
    BY <1>9 DEF StampChainStart, GoTo, Alive
  <1>10. ASSUME NEW d \in Drivers, Probe(d) PROVE PauseInv'
    BY <1>10 DEF Probe, GoTo, Held, Alive
  <1>11. ASSUME NEW d \in Drivers, Recheck(d) PROVE PauseInv'
    BY <1>11 DEF Recheck, GoTo, Stamped, Alive
  <1>12. ASSUME NEW d \in Drivers, Spawn(d) PROVE PauseInv'
    <2>1. ASSUME ~raced PROVE PauseInv'
      <3>1. CASE Held
        <4>1. pc[d] \in PastProbe /\ late = 0
          BY <2>1, <3>1, <1>12 DEF Spawn
        <4>2. Held' /\ late' = 1 /\ pc' = [pc EXCEPT ![d] = "phase"] /\ raced' = raced
          BY <3>1, <4>1, <1>12 DEF Spawn, GoTo
        <4>3. ASSUME NEW e \in Drivers, e # d, pc[e] \in PastProbe PROVE FALSE
          BY <2>1, <4>1, <4>3, OneHolds DEF Holding
        <4>4. \A e \in Drivers : pc'[e] \notin PastProbe
          BY <4>2, <4>3
        <4>5. QED
          BY <4>2, <4>4
      <3>2. CASE ~Held
        BY <2>1, <3>2, <1>12 DEF Spawn, GoTo
      <3>3. QED
        BY <3>1, <3>2
    <2>2. QED
      BY <2>1, <1>12 DEF Spawn
  <1>13. ASSUME NEW d \in Drivers, Passed(d) PROVE PauseInv'
    BY <1>13 DEF Passed, GoTo, Alive
  <1>14. ASSUME NEW d \in Drivers, FlushPause(d) PROVE PauseInv'
    BY <1>14 DEF FlushPause, GoTo, Alive
  <1>15. ASSUME NEW d \in Drivers, ReadRunning(d) PROVE PauseInv'
    BY <1>15 DEF ReadRunning, GoTo, Stamped, Alive
  <1>16. ASSUME NEW d \in Drivers, UnlinkRunning(d) PROVE PauseInv'
    BY <1>16 DEF UnlinkRunning, Exit, GoTo, Alive
  <1>17. ASSUME NEW d \in Drivers, LeaveRunning(d) PROVE PauseInv'
    BY <1>17 DEF LeaveRunning, Exit, GoTo, Stamped, Alive
  <1>18. ASSUME NEW d \in Drivers, Halt(d) PROVE PauseInv'
    BY <1>18 DEF Halt, GoTo, Alive
  <1>19. ASSUME NEW d \in Drivers, CrashDriver(d) PROVE PauseInv'
    BY <1>19 DEF CrashDriver, Exit, GoTo, Alive
  <1>20. ASSUME NEW o \in Operators, CheckForPause(o) PROVE PauseInv'
    BY <1>20 DEF CheckForPause, Begin, Alive
  <1>21. ASSUME NEW o \in Operators, NEW withInject \in BOOLEAN, CheckForResume(o, withInject)
       PROVE  PauseInv'
    BY <1>21 DEF CheckForResume, Begin, Held, Stamped, Alive
  <1>22. ASSUME NEW o \in Operators, NEW c \in Drivers, ReadToRelease(o, c)
       PROVE  PauseInv'
    BY <1>22 DEF ReadToRelease, Begin, Stamped, Alive
  <1>23. ASSUME NEW o \in Operators, CreatePause(o) PROVE PauseInv'
    BY <1>23 DEF CreatePause, Then, Return, Alive
  <1>24. ASSUME NEW o \in Operators, WritePause(o) PROVE PauseInv'
    BY <1>24 DEF WritePause, Return, Alive
  <1>25. ASSUME NEW o \in Operators, CheckInject(o) PROVE PauseInv'
    BY <1>25 DEF CheckInject, Then, Return, Alive
  <1>26. ASSUME NEW o \in Operators, WriteInject(o) PROVE PauseInv'
    BY <1>26 DEF WriteInject, Then, Alive
  <1>27. ASSUME NEW o \in Operators, StampPauseEnd(o) PROVE PauseInv'
    BY <1>27 DEF StampPauseEnd, Return, Alive
  <1>28. ASSUME NEW o \in Operators, ReadForRelease(o) PROVE PauseInv'
    BY <1>28 DEF ReadForRelease, Then, Return, Stamped, Alive
  <1>29. ASSUME NEW o \in Operators, UnlinkForRelease(o) PROVE PauseInv'
    BY <1>29 DEF UnlinkForRelease, Then, Alive
  <1>30. ASSUME NEW o \in Operators, ReleasePause(o) PROVE PauseInv'
    BY <1>30 DEF ReleasePause, Return, Alive
  <1>31. ASSUME NEW o \in Operators, CrashCommand(o) PROVE PauseInv'
    BY <1>31 DEF CrashCommand, Return, Alive
  <1>32. ASSUME NEW o \in Operators, ProbeToRelease(o) PROVE PauseInv'
    BY <1>32 DEF ProbeToRelease, Then, Return, Alive
  <1>33. CASE UNCHANGED vars
    BY <1>33 DEF Alive, vars, files, driving, operating
  <1> HIDE DEF PauseInv, TypeOK, PastProbe, Held, Absent, Sentinel, files,
     driving, operating
  <1> QED
    BY <1>1, <1>2, <1>3, <1>4, <1>5, <1>6, <1>7, <1>8, <1>9, <1>10, <1>11,
       <1>12, <1>13, <1>14, <1>15, <1>16, <1>17, <1>18, <1>19, <1>20,
       <1>21, <1>22, <1>23, <1>24, <1>25, <1>26, <1>27, <1>28, <1>29,
       <1>30, <1>31, <1>32, <1>33
    DEF Next, Drive, Operate, Request

(* The pause is honoured at the next boundary: it lets one phase through   *)
(* at most.                                                                *)
THEOREM PauseHonoured == Spec => []PauseStopsWithinOnePhase
  <1>1. Init => PauseInv
    BY DEF Init, PauseInv, Held, Absent
  <1>2. PauseInv => PauseStopsWithinOnePhase
    BY DEF PauseInv, PauseStopsWithinOnePhase
  <1>3. QED
    BY <1>1, <1>2, LockCorrect, PauseStep, PTL DEF Spec

-----------------------------------------------------------------------------
(* The lock *)

(* Every step is a step of ChainLock, or leaves the lock alone.            *)
LEMMA LockRefined ==
  LockInv /\ [Next]_vars =>
    raced' \/ [Lock!Next]_<<running.by, {d \in Drivers : Alive(d)}>>
  <1> DEFINE Step == [Lock!Next]_<<running.by, {d \in Drivers : Alive(d)}>>
  <1> SUFFICES ASSUME LockInv, [Next]_vars, ~raced' PROVE Step
    OBVIOUS
  <1> TypeOK
    BY DEF LockInv
  <1> USE DEF LockInv, TypeOK, HoldInv, BornInv, ReleaseInv, Holding, files,
     driving, operating
  <1>1. ASSUME NEW d \in Drivers, NEW c \in Drivers, NEW first \in Phases, Launch(d, c, first)
       PROVE  Step
    <2>1. running.by # d /\ ~Alive(d)
      BY <1>1, ChainAssumption DEF Launch, Alive
    <2>2. running' = running /\ pc'[d] \in {"acquire", "startup"} /\ \A e \in Drivers \ {d} : pc'[e] = pc[e]
      BY <1>1 DEF Launch, GoTo
    <2>3. {e \in Drivers : Alive(e)}' = {e \in Drivers : Alive(e)} \cup {d}
      BY <2>2 DEF Alive
    <2>4. Lock!Start(d)
      BY <2>1, <2>2, <2>3 DEF Lock!Start
    <2>5. QED
      BY <2>4 DEF Lock!Next
  <1>2. ASSUME NEW d \in Drivers, ReadInject(d) PROVE Step
    BY <1>2 DEF ReadInject, GoTo, Lock!Next, Lock!Start, Lock!Take,
       Lock!Stop, Lock!TakeBack, Alive, Absent, Sentinel
  <1>3. ASSUME NEW d \in Drivers, NoInject(d) PROVE Step
    BY <1>3 DEF NoInject, GoTo, AfterInject, Lock!Next, Lock!Start,
       Lock!Take, Lock!Stop, Lock!TakeBack, Alive, Absent, Sentinel
  <1>4. ASSUME NEW d \in Drivers, UnlinkInject(d) PROVE Step
    BY <1>4 DEF UnlinkInject, GoTo, AfterInject, Lock!Next, Lock!Start,
       Lock!Take, Lock!Stop, Lock!TakeBack, Alive, Absent, Sentinel
  <1>5. ASSUME NEW d \in Drivers, Create(d) PROVE Step
    BY <1>5 DEF Create, GoTo, Lock!Next, Lock!Start, Lock!Take, Lock!Stop,
       Lock!TakeBack, Alive, Absent, Sentinel
  <1>6. ASSUME NEW d \in Drivers, Denied(d) PROVE Step
    BY <1>6 DEF Denied, Exit, GoTo, Lock!Next, Lock!Start, Lock!Take,
       Lock!Stop, Lock!TakeBack, Alive, Absent, Sentinel
  <1>7. ASSUME NEW d \in Drivers, WriteRunning(d) PROVE Step
    BY <1>7 DEF WriteRunning, GoTo, Lock!Next, Lock!Start, Lock!Take,
       Lock!Stop, Lock!TakeBack, Alive, Absent, Sentinel
  <1>8. ASSUME NEW d \in Drivers, WriteFails(d) PROVE Step
    BY <1>8 DEF WriteFails, Exit, GoTo, Lock!Next, Lock!Start, Lock!Take,
       Lock!Stop, Lock!TakeBack, Alive, Absent, Sentinel
  <1>9. ASSUME NEW d \in Drivers, StampChainStart(d) PROVE Step
    BY <1>9 DEF StampChainStart, GoTo, Lock!Next, Lock!Start, Lock!Take,
       Lock!Stop, Lock!TakeBack, Alive, Absent, Sentinel
  <1>10. ASSUME NEW d \in Drivers, Probe(d) PROVE Step
    BY <1>10 DEF Probe, GoTo, Held, Lock!Next, Lock!Start, Lock!Take,
       Lock!Stop, Lock!TakeBack, Alive, Absent, Sentinel
  <1>11. ASSUME NEW d \in Drivers, Recheck(d) PROVE Step
    BY <1>11 DEF Recheck, GoTo, Stamped, Lock!Next, Lock!Start, Lock!Take,
       Lock!Stop, Lock!TakeBack, Alive, Absent, Sentinel
  <1>12. ASSUME NEW d \in Drivers, Spawn(d) PROVE Step
    BY <1>12 DEF Spawn, GoTo, Held, Lock!Next, Lock!Start, Lock!Take,
       Lock!Stop, Lock!TakeBack, Alive, Absent, Sentinel
  <1>13. ASSUME NEW d \in Drivers, Passed(d) PROVE Step
    BY <1>13 DEF Passed, GoTo, Lock!Next, Lock!Start, Lock!Take, Lock!Stop,
       Lock!TakeBack, Alive, Absent, Sentinel
  <1>14. ASSUME NEW d \in Drivers, FlushPause(d) PROVE Step
    BY <1>14 DEF FlushPause, GoTo, Lock!Next, Lock!Start, Lock!Take,
       Lock!Stop, Lock!TakeBack, Alive, Absent, Sentinel
  <1>15. ASSUME NEW d \in Drivers, ReadRunning(d) PROVE Step
    BY <1>15 DEF ReadRunning, GoTo, Stamped, Lock!Next, Lock!Start,
       Lock!Take, Lock!Stop, Lock!TakeBack, Alive, Absent, Sentinel
  <1>16. ASSUME NEW d \in Drivers, UnlinkRunning(d) PROVE Step
    BY <1>16 DEF UnlinkRunning, Exit, GoTo, Lock!Next, Lock!Start, Lock!Take,
       Lock!Stop, Lock!TakeBack, Alive, Absent, Sentinel
  <1>17. ASSUME NEW d \in Drivers, LeaveRunning(d) PROVE Step
    BY <1>17 DEF LeaveRunning, Exit, GoTo, Stamped, Lock!Next, Lock!Start,
       Lock!Take, Lock!Stop, Lock!TakeBack, Alive, Absent, Sentinel
  <1>18. ASSUME NEW d \in Drivers, Halt(d) PROVE Step
    BY <1>18 DEF Halt, GoTo, Lock!Next, Lock!Start, Lock!Take, Lock!Stop,
       Lock!TakeBack, Alive, Absent, Sentinel
  <1>19. ASSUME NEW d \in Drivers, CrashDriver(d) PROVE Step
    BY <1>19 DEF CrashDriver, Exit, GoTo, Alive, Lock!Next, Lock!Start,
       Lock!Take, Lock!Stop, Lock!TakeBack, Absent, Sentinel
  <1>20. ASSUME NEW o \in Operators, CheckForPause(o) PROVE Step
    BY <1>20 DEF CheckForPause, Begin, Alive, Lock!Next, Lock!Start,
       Lock!Take, Lock!Stop, Lock!TakeBack, Absent, Sentinel
  <1>21. ASSUME NEW o \in Operators, NEW withInject \in BOOLEAN, CheckForResume(o, withInject)
       PROVE  Step
    BY <1>21 DEF CheckForResume, Begin, Held, Stamped, Lock!Next, Lock!Start,
       Lock!Take, Lock!Stop, Lock!TakeBack, Alive, Absent, Sentinel
  <1>22. ASSUME NEW o \in Operators, NEW c \in Drivers, ReadToRelease(o, c)
       PROVE  Step
    BY <1>22 DEF ReadToRelease, Begin, Stamped, Alive, Lock!Next,
       Lock!Start, Lock!Take, Lock!Stop, Lock!TakeBack, Absent, Sentinel
  <1>23. ASSUME NEW o \in Operators, CreatePause(o) PROVE Step
    BY <1>23 DEF CreatePause, Then, Return, Lock!Next, Lock!Start, Lock!Take,
       Lock!Stop, Lock!TakeBack, Alive, Absent, Sentinel
  <1>24. ASSUME NEW o \in Operators, WritePause(o) PROVE Step
    BY <1>24 DEF WritePause, Return, Lock!Next, Lock!Start, Lock!Take,
       Lock!Stop, Lock!TakeBack, Alive, Absent, Sentinel
  <1>25. ASSUME NEW o \in Operators, CheckInject(o) PROVE Step
    BY <1>25 DEF CheckInject, Then, Return, Lock!Next, Lock!Start, Lock!Take,
       Lock!Stop, Lock!TakeBack, Alive, Absent, Sentinel
  <1>26. ASSUME NEW o \in Operators, WriteInject(o) PROVE Step
    BY <1>26 DEF WriteInject, Then, Lock!Next, Lock!Start, Lock!Take,
       Lock!Stop, Lock!TakeBack, Alive, Absent, Sentinel
  <1>27. ASSUME NEW o \in Operators, StampPauseEnd(o) PROVE Step
    BY <1>27 DEF StampPauseEnd, Return, Lock!Next, Lock!Start, Lock!Take,
       Lock!Stop, Lock!TakeBack, Alive, Absent, Sentinel
  <1>28. ASSUME NEW o \in Operators, ReadForRelease(o) PROVE Step
    BY <1>28 DEF ReadForRelease, Then, Return, Stamped, Lock!Next,
       Lock!Start, Lock!Take, Lock!Stop, Lock!TakeBack, Alive, Absent,
       Sentinel
  <1>29. ASSUME NEW o \in Operators, UnlinkForRelease(o) PROVE Step
    <2>1. ~raced /\ running'.by = Nobody /\ UNCHANGED pc
      BY <1>29 DEF UnlinkForRelease, Absent
    <2>2. CASE running = Absent
      BY <2>1, <2>2 DEF Absent, Alive
    <2>3. CASE running # Absent
      <3>1. running.by \in Drivers
        BY <2>3 DEF Sentinel
      <3>2. pc[running.by] = "gone"
        BY <2>1, <2>3, <1>29 DEF UnlinkForRelease
      <3>3. Lock!TakeBack
        BY <2>1, <3>1, <3>2 DEF Lock!TakeBack, Alive
      <3>4. QED
        BY <3>3 DEF Lock!Next
    <2>4. QED
      BY <2>2, <2>3
  <1>30. ASSUME NEW o \in Operators, ReleasePause(o) PROVE Step
    BY <1>30 DEF ReleasePause, Return, Lock!Next, Lock!Start, Lock!Take,
       Lock!Stop, Lock!TakeBack, Alive, Absent, Sentinel
  <1>31. ASSUME NEW o \in Operators, CrashCommand(o) PROVE Step
    BY <1>31 DEF CrashCommand, Return, Lock!Next, Lock!Start, Lock!Take,
       Lock!Stop, Lock!TakeBack, Alive, Absent, Sentinel
  <1>32. ASSUME NEW o \in Operators, ProbeToRelease(o) PROVE Step
    BY <1>32 DEF ProbeToRelease, Then, Return, Alive, Lock!Next, Lock!Start,
       Lock!Take, Lock!Stop, Lock!TakeBack, Absent, Sentinel
  <1>33. CASE UNCHANGED vars
    BY <1>33 DEF Lock!Next, Lock!Start, Lock!Take, Lock!Stop, Lock!TakeBack,
       Alive, Absent, Sentinel, vars, files, driving, operating
  <1> HIDE DEF Step, LockInv, TypeOK, HoldInv, BornInv, ReleaseInv, Holding,
     files, driving, operating
  <1> QED
    BY <1>1, <1>2, <1>3, <1>4, <1>5, <1>6, <1>7, <1>8, <1>9, <1>10, <1>11,
       <1>12, <1>13, <1>14, <1>15, <1>16, <1>17, <1>18, <1>19, <1>20,
       <1>21, <1>22, <1>23, <1>24, <1>25, <1>26, <1>27, <1>28, <1>29,
       <1>30, <1>31, <1>32, <1>33
    DEF Next, Drive, Operate, Request

(* The running sentinel is a lock that only a crash leaves to a dead       *)
(* driver and only --release-lock takes back, until a driver starts under  *)
(* the hands of such a command.                                            *)
THEOREM ChainImplementsLock == Spec => ImplementsChainLock
  <1>1. Init => Lock!Init
    BY DEF Init, Lock!Init, Absent, Alive
  <1>2. QED
    BY <1>1, LockCorrect, LockRefined, PTL DEF Spec, ImplementsChainLock

-----------------------------------------------------------------------------
(* Functions that are defined from their value at the number before *)

(* A set of numbers that is not empty has a least one.                     *)
LEMMA LeastNumber ==
  ASSUME NEW T, T \subseteq Nat, T # {}
  PROVE  \E m \in T : \A n \in T : m <= n
  <1> DEFINE R == OpToRel(<, Nat)
  <1>1. \A x, y \in Nat : x < y => <<x, y>> \in R
    BY DEF OpToRel
  <1>2. IsWellFoundedOn(R, Nat)
    BY NatLessThanWellFounded
  <1> HIDE DEF R
  <1>3. PICK m \in T : \A n \in T : ~(<<n, m>> \in R)
    BY <1>2, WFMin
  <1>4. \A n \in T : ~(n < m)
    BY <1>1, <1>3
  <1>5. QED
    BY <1>4

LEMMA ListedIs ==
  ASSUME NEW s, Listed(s)
  PROVE  /\ s \in Seq(Entries(s)) /\ DOMAIN s = 1..Len(s)
         /\ \A i \in 1..Len(s) : s[i] \in Entries(s)
  BY DEF Listed, Entries

LEMMA SeqIsListed ==
  ASSUME NEW S, NEW s \in Seq(S)
  PROVE  Listed(s)
  BY DEF Listed

NextAfter(patch, f, n) ==
  IF f[n - 1].err = "none" THEN ApplyOp(f[n - 1].plan, patch[n]) ELSE f[n - 1]

LEMMA AfterExists ==
  ASSUME NEW plan, NEW patch, Listed(patch)
  PROVE  \E f : /\ f = [n \in 0..Len(patch) |-> f[n]]
                /\ \A n \in 0..Len(patch) :
                     f[n] = IF n = 0 THEN [err |-> "none", plan |-> plan] ELSE NextAfter(patch, f, n)
  <1> DEFINE N == Len(patch)
             first == [err |-> "none", plan |-> plan]
             Good(m) == \E f : /\ f = [n \in 0..m |-> f[n]]
                               /\ \A n \in 0..m : f[n] = IF n = 0 THEN first ELSE NextAfter(patch, f, n)
             Bad == {m \in 0..N : ~Good(m)}
  <1>0. N \in Nat
    BY DEF Listed
  <1>1. ASSUME Bad # {} PROVE FALSE
    <2>0. Bad \subseteq Nat /\ Bad # {}
      BY <1>0, <1>1
    <2> HIDE DEF Bad
    <2>1. PICK m \in Bad : \A n \in Bad : m <= n
      BY <2>0, LeastNumber
    <2> USE DEF Bad
    <2> HIDE DEF first
    <2>2. CASE m = 0
      <3> DEFINE f == [n \in 0..0 |-> first]
      <3>1. f = [n \in 0..0 |-> f[n]] /\ \A n \in 0..0 : f[n] = first /\ n = 0
        OBVIOUS
      <3>2. Good(0)
        BY <3>1
      <3>3. QED
        BY <2>1, <2>2, <3>2
    <2>3. CASE m # 0
      <3>1. m \in Nat /\ m - 1 \in 0..N /\ m - 1 < m
        BY <1>0, <2>3
      <3>2. m - 1 \notin Bad
        BY <2>1, <3>1
      <3>3. Good(m - 1)
        BY <3>1, <3>2
      <3>4. PICK f : /\ f = [n \in 0..(m - 1) |-> f[n]]
                     /\ \A n \in 0..(m - 1) : f[n] = IF n = 0 THEN first ELSE NextAfter(patch, f, n)
        BY <3>3
      <3> DEFINE g == [n \in 0..m |-> IF n = m THEN NextAfter(patch, f, m) ELSE f[n]]
      <3>5. \A n \in 0..(m - 1) : g[n] = f[n]
        BY <3>1
      <3>6. ASSUME NEW n \in 0..m PROVE g[n] = IF n = 0 THEN first ELSE NextAfter(patch, g, n)
        <4>1. CASE n = 0
          <5>0. n \in 0..(m - 1)
            BY <3>1, <4>1
          <5>1. g[n] = f[n] /\ f[n] = first
            BY <3>4, <3>5, <4>1, <5>0
          <5>2. QED
            BY <5>1, <4>1
        <4>2. CASE n # 0
          <5>1. n - 1 \in 0..(m - 1) /\ g[n - 1] = f[n - 1]
            BY <3>1, <3>5, <4>2
          <5>2. NextAfter(patch, g, n) = NextAfter(patch, f, n)
            BY <5>1 DEF NextAfter
          <5>3. g[n] = NextAfter(patch, f, n)
            BY <3>1, <3>4, <3>5, <4>2
          <5>4. QED
            BY <4>2, <5>2, <5>3
        <4>3. QED
          BY <4>1, <4>2
      <3>7. g = [n \in 0..m |-> g[n]]
        OBVIOUS
      <3> HIDE DEF g
      <3>8. Good(m)
        BY <3>6, <3>7
      <3>9. QED
        BY <2>1, <3>8
    <2>4. QED
      BY <2>2, <2>3
  <1>2. N \notin Bad
    BY <1>1
  <1>3. Good(N)
    BY <1>0, <1>2
  <1>4. QED
    BY <1>3

(* The plan after n operations of a patch, from the plan after n - 1.      *)
LEMMA AfterIs ==
  ASSUME NEW plan, NEW patch, Listed(patch)
  PROVE  LET done == After(plan, patch)
         IN /\ done[0] = [err |-> "none", plan |-> plan]
            /\ \A n \in 1..Len(patch) :
                 done[n] = IF done[n - 1].err = "none" THEN ApplyOp(done[n - 1].plan, patch[n])
                           ELSE done[n - 1]
  <1> DEFINE first == [err |-> "none", plan |-> plan]
             F(f) == [n \in 0..Len(patch) |-> IF n = 0 THEN first ELSE NextAfter(patch, f, n)]
             done == After(plan, patch)
  <1>1. Len(patch) \in Nat
    BY DEF Listed
  <1>2. \E f : f = F(f)
    <2>1. PICK f : /\ f = [n \in 0..Len(patch) |-> f[n]]
                   /\ \A n \in 0..Len(patch) : f[n] = IF n = 0 THEN first ELSE NextAfter(patch, f, n)
      BY AfterExists
    <2>2. QED
      BY <2>1
  <1>3. done = CHOOSE f : f = F(f)
    BY DEF After, NextAfter
  <1> HIDE DEF first
  <1>4. done = F(done)
    BY <1>2, <1>3
  <1> HIDE DEF done
  <1>5. done[0] = first
    BY <1>1, <1>4
  <1>6. ASSUME NEW n \in 1..Len(patch) PROVE done[n] = NextAfter(patch, done, n)
    BY <1>1, <1>4, <1>6
  <1>7. QED
    BY <1>5, <1>6 DEF done, first, NextAfter

NextTold(rows, f, n) ==
  IF rows[n].result \in Landed THEN ApplyPatch(f[n - 1], rows[n].ops).plan ELSE f[n - 1]

Tells(f, plan, from, rows, last) ==
  /\ f = [n \in from..last |-> f[n]]
  /\ \A n \in from..last : f[n] = IF n = from THEN plan ELSE NextTold(rows, f, n)

LEMMA ReplayExists ==
  ASSUME NEW plan, NEW rows, Listed(rows), NEW from \in 0..Len(rows)
  PROVE  \E f : Tells(f, plan, from, rows, Len(rows))
  <1> DEFINE N == Len(rows)
             Good(m) == \E f : Tells(f, plan, from, rows, m)
             Bad == {m \in from..N : ~Good(m)}
  <1>0. N \in Nat /\ from \in Nat /\ from <= N
    BY DEF Listed
  <1>1. ASSUME Bad # {} PROVE FALSE
    <2>0. Bad \subseteq Nat /\ Bad # {}
      BY <1>0, <1>1
    <2> HIDE DEF Bad
    <2>1. PICK m \in Bad : \A n \in Bad : m <= n
      BY <2>0, LeastNumber
    <2> USE DEF Bad
    <2>2. CASE m = from
      <3> DEFINE f == [n \in from..from |-> plan]
      <3>1. f = [n \in from..from |-> f[n]] /\ \A n \in from..from : f[n] = plan /\ n = from
        BY <1>0
      <3> HIDE DEF f
      <3>2. Good(from)
        BY <3>1 DEF Tells
      <3>3. QED
        BY <2>1, <2>2, <3>2
    <2>3. CASE m # from
      <3>1. m \in Nat /\ m - 1 \in from..N /\ m - 1 < m
        BY <1>0, <2>3
      <3>2. m - 1 \notin Bad
        <4> HIDE DEF Bad
        <4>1. QED
          BY <2>1, <3>1
      <3>3. Good(m - 1)
        BY <3>1, <3>2
      <3>4. PICK f : /\ f = [n \in from..(m - 1) |-> f[n]]
                     /\ \A n \in from..(m - 1) : f[n] = IF n = from THEN plan ELSE NextTold(rows, f, n)
        BY <3>3 DEF Tells
      <3> DEFINE g == [n \in from..m |-> IF n = m THEN NextTold(rows, f, m) ELSE f[n]]
      <3>5. \A n \in from..(m - 1) : g[n] = f[n]
        BY <3>1, <1>0
      <3>6. ASSUME NEW n \in from..m PROVE g[n] = IF n = from THEN plan ELSE NextTold(rows, g, n)
        <4>1. CASE n = from
          <5>1. n \in from..(m - 1)
            BY <1>0, <3>1, <4>1
          <5>2. g[n] = f[n] /\ f[n] = plan
            BY <3>4, <3>5, <4>1, <5>1
          <5>3. QED
            BY <5>2, <4>1
        <4>2. CASE n # from
          <5>1. n - 1 \in from..(m - 1) /\ g[n - 1] = f[n - 1]
            BY <1>0, <3>1, <3>5, <4>2
          <5>2. NextTold(rows, g, n) = NextTold(rows, f, n)
            BY <5>1 DEF NextTold
          <5>3. g[n] = NextTold(rows, f, n)
            BY <1>0, <3>1, <3>4, <3>5, <4>2
          <5>4. QED
            BY <4>2, <5>2, <5>3
        <4>3. QED
          BY <4>1, <4>2
      <3>7. g = [n \in from..m |-> g[n]]
        OBVIOUS
      <3> HIDE DEF g
      <3>8. Good(m)
        BY <3>6, <3>7 DEF Tells
      <3>9. QED
        BY <2>1, <3>8
    <2>4. QED
      BY <2>2, <2>3
  <1>2. N \notin Bad
    BY <1>1
  <1>3. QED
    BY <1>0, <1>2

LEMMA ReplayIs ==
  ASSUME NEW plan, NEW rows, Listed(rows), NEW from \in 0..Len(rows)
  PROVE  \E f : Tells(f, plan, from, rows, Len(rows)) /\ Replay(plan, from, rows) = f[Len(rows)]
  <1> DEFINE F(f) == [n \in from..Len(rows) |-> IF n = from THEN plan ELSE NextTold(rows, f, n)]
             told == CHOOSE f : f = F(f)
  <1>1. \E f : f = F(f)
    <2>1. PICK f : Tells(f, plan, from, rows, Len(rows))
      BY ReplayExists
    <2>2. /\ f = [n \in from..Len(rows) |-> f[n]]
          /\ \A n \in from..Len(rows) : f[n] = IF n = from THEN plan ELSE NextTold(rows, f, n)
      BY <2>1 DEF Tells
    <2>3. QED
      BY <2>2
  <1>2. Replay(plan, from, rows) = told[Len(rows)]
    BY DEF Replay, NextTold
  <1>3. told = F(told)
    BY <1>1
  <1> HIDE DEF told
  <1>4. Tells(told, plan, from, rows, Len(rows))
    BY <1>3 DEF Tells
  <1>5. QED
    BY <1>2, <1>4

(* What one more row tells.                                                *)
LEMMA ReplayOneMore ==
  ASSUME NEW plan, NEW rows, Listed(rows), NEW from \in 0..Len(rows), NEW row
  PROVE  LET before == Replay(plan, from, rows)
         IN Replay(plan, from, Append(rows, row)) =
              IF row.result \in Landed THEN ApplyPatch(before, row.ops).plan ELSE before
  <1> DEFINE N == Len(rows)
             more == Append(rows, row)
  <1>1. /\ N \in Nat /\ from \in Nat /\ from <= N
        /\ Listed(more) /\ Len(more) = N + 1 /\ more[N + 1] = row
        /\ \A n \in 1..N : more[n] = rows[n]
    <2>1. rows \in Seq(Entries(rows) \cup {row}) /\ Len(rows) \in Nat
      BY ListedIs DEF Listed
    <2>2. more \in Seq(Entries(rows) \cup {row}) /\ Len(more) = N + 1 /\ more[N + 1] = row
      BY <2>1
    <2>3. \A n \in 1..N : more[n] = rows[n]
      BY <2>1
    <2> HIDE DEF more
    <2>4. Listed(more)
      BY <2>2, SeqIsListed
    <2>5. QED
      BY <2>1, <2>2, <2>3, <2>4
  <1> HIDE DEF more
  <1>2. PICK f : Tells(f, plan, from, rows, N) /\ Replay(plan, from, rows) = f[N]
    BY ReplayIs
  <1>3. PICK g : Tells(g, plan, from, more, N + 1) /\ Replay(plan, from, more) = g[N + 1]
    <2>1. from \in 0..Len(more)
      BY <1>1
    <2>2. QED
      BY <1>1, <2>1, ReplayIs
  <1>4. f[N] = g[N]
    <2> DEFINE Bad == {n \in from..N : f[n] # g[n]}
    <2>1. ASSUME Bad # {} PROVE FALSE
      <3>1. Bad \subseteq Nat /\ Bad # {}
        BY <1>1, <2>1
      <3> HIDE DEF Bad
      <3>2. PICK m \in Bad : \A n \in Bad : m <= n
        BY <3>1, LeastNumber
      <3> USE DEF Bad
      <3>3. m \in from..N /\ m \in from..(N + 1)
        BY <1>1
      <3>4. CASE m = from
        BY <1>2, <1>3, <3>3, <3>4 DEF Tells
      <3>5. CASE m # from
        <4>1. m - 1 \in from..N /\ m - 1 < m /\ m \in 1..N
          BY <1>1, <3>3, <3>5
        <4>2. m - 1 \notin Bad
          <5> HIDE DEF Bad
          <5>1. QED
            BY <3>2, <3>3, <4>1
        <4>3. f[m - 1] = g[m - 1] /\ rows[m] = more[m]
          BY <1>1, <4>1, <4>2
        <4>4. NextTold(rows, f, m) = NextTold(more, g, m)
          BY <4>3 DEF NextTold
        <4>5. f[m] = NextTold(rows, f, m) /\ g[m] = NextTold(more, g, m)
          BY <1>2, <1>3, <3>3, <3>5 DEF Tells
        <4>6. QED
          BY <3>2, <4>4, <4>5
      <3>6. QED
        BY <3>4, <3>5
    <2>2. QED
      BY <1>1, <2>1
  <1>5. g[N + 1] = NextTold(more, g, N + 1)
    BY <1>1, <1>3 DEF Tells
  <1>6. g[N + 1] = IF row.result \in Landed THEN ApplyPatch(g[N], row.ops).plan ELSE g[N]
    BY <1>1, <1>5 DEF NextTold
  <1>7. QED
    BY <1>2, <1>3, <1>4, <1>6 DEF more

(* No rows tell the plan itself.                                           *)
LEMMA ReplayOfNone ==
  ASSUME NEW plan, NEW rows, Listed(rows)
  PROVE  Replay(plan, Len(rows), rows) = plan
  <1>1. Len(rows) \in 0..Len(rows)
    BY DEF Listed
  <1>2. PICK f : Tells(f, plan, Len(rows), rows, Len(rows)) /\ Replay(plan, Len(rows), rows) = f[Len(rows)]
    BY <1>1, ReplayIs
  <1>3. QED
    BY <1>1, <1>2 DEF Tells

-----------------------------------------------------------------------------
(* One operation of a patch *)

LEMMA RemovedAt ==
  ASSUME NEW s, Listed(s), NEW at \in DOMAIN s
  PROVE  /\ Listed(RemoveAt(s, at)) /\ Len(RemoveAt(s, at)) = Len(s) - 1
         /\ \A i \in 1..(Len(s) - 1) : RemoveAt(s, at)[i] = IF i < at THEN s[i] ELSE s[i + 1]
  <1> DEFINE S == Entries(s)
             a == SubSeq(s, 1, at - 1)
             b == SubSeq(s, at + 1, Len(s))
  <1>1. s \in Seq(S) /\ Len(s) \in Nat /\ at \in 1..Len(s)
    BY ListedIs DEF Listed
  <1> HIDE DEF S
  <1>2. /\ a \in Seq(S) /\ Len(a) = at - 1 /\ \A i \in 1..(at - 1) : a[i] = s[i]
    BY <1>1
  <1>3. /\ b \in Seq(S) /\ Len(b) = Len(s) - at
        /\ \A i \in 1..(Len(s) - at) : b[i] = s[at + i]
    BY <1>1
  <1> HIDE DEF a, b
  <1>4. /\ a \o b \in Seq(S) /\ Len(a \o b) = Len(s) - 1
        /\ \A i \in 1..(Len(s) - 1) : (a \o b)[i] = IF i < at THEN a[i] ELSE b[i - (at - 1)]
    BY <1>1, <1>2, <1>3
  <1>5. \A i \in 1..(Len(s) - 1) : (a \o b)[i] = IF i < at THEN s[i] ELSE s[i + 1]
    <2> SUFFICES ASSUME NEW i \in 1..(Len(s) - 1)
                 PROVE  (a \o b)[i] = IF i < at THEN s[i] ELSE s[i + 1]
      OBVIOUS
    <2>1. CASE i < at
      BY <1>1, <1>2, <1>4, <2>1
    <2>2. CASE ~(i < at)
      <3>1. i - (at - 1) \in 1..(Len(s) - at) /\ at + (i - (at - 1)) = i + 1
        BY <1>1, <2>2
      <3>2. QED
        BY <1>3, <1>4, <2>2, <3>1
    <2>3. QED
      BY <2>1, <2>2
  <1>6. RemoveAt(s, at) = a \o b
    BY DEF RemoveAt, a, b
  <1>7. Listed(a \o b)
    BY <1>4, SeqIsListed
  <1>8. QED
    BY <1>4, <1>5, <1>6, <1>7

LEMMA AppendedTo ==
  ASSUME NEW s, Listed(s), NEW v
  PROVE  /\ Listed(Append(s, v)) /\ Len(Append(s, v)) = Len(s) + 1
         /\ Append(s, v)[Len(s) + 1] = v /\ \A i \in 1..Len(s) : Append(s, v)[i] = s[i]
  <1>1. s \in Seq(Entries(s) \cup {v}) /\ Len(s) \in Nat
    BY ListedIs DEF Listed
  <1> DEFINE more == Append(s, v)
  <1>2. more \in Seq(Entries(s) \cup {v}) /\ Len(more) = Len(s) + 1 /\ more[Len(s) + 1] = v
    BY <1>1
  <1>3. \A i \in 1..Len(s) : more[i] = s[i]
    BY <1>1
  <1> HIDE DEF more
  <1>4. Listed(more)
    BY <1>2, SeqIsListed
  <1>5. QED
    BY <1>2, <1>3, <1>4 DEF more

LEMMA PutAt ==
  ASSUME NEW s, Listed(s), NEW at \in DOMAIN s, NEW v
  PROVE  LET new == [s EXCEPT ![at] = v]
         IN /\ Listed(new) /\ Len(new) = Len(s) /\ new[at] = v
            /\ \A i \in 1..Len(s) : i # at => new[i] = s[i]
  <1> DEFINE new == [s EXCEPT ![at] = v]
  <1>1. s \in Seq(Entries(s) \cup {v}) /\ Len(s) \in Nat /\ at \in 1..Len(s)
    BY ListedIs DEF Listed
  <1>2. new \in Seq(Entries(s) \cup {v}) /\ Len(new) = Len(s)
    BY <1>1
  <1>3. new[at] = v /\ \A i \in 1..Len(s) : i # at => new[i] = s[i]
    BY <1>1
  <1> HIDE DEF new
  <1>4. Listed(new)
    BY <1>2, SeqIsListed
  <1>5. QED
    BY <1>2, <1>3, <1>4 DEF new

(* The first of a set of places is one of them.                            *)
LEMMA FirstIsOne ==
  ASSUME NEW s, Listed(s), NEW T, T \subseteq DOMAIN s, T # {}
  PROVE  FirstOf(T) \in T
  <1>1. T \subseteq Nat
    BY ListedIs DEF Listed
  <1>2. \E i \in T : \A j \in T : i <= j
    BY <1>1, LeastNumber
  <1>3. QED
    BY <1>2 DEF FirstOf

(* What an operation that is not refused has done.                         *)
IsOp(op) == op.kind \in Collections \cup {"scalar"} /\ op.action \in {"add", "replace", "remove"}
Others(plan, new, kind) ==
  IsPlan(new) /\ \A other \in Collections \ {kind} : new[other] = plan[other]
Adds(plan, new, op) ==
  op.action = "add" /\ new[op.kind] = Append(plan[op.kind], op.value)
Places(plan, new, op, at) ==
  /\ op.action = "replace" /\ new[op.kind] = [plan[op.kind] EXCEPT ![at] = op.value]
  /\ op.value # Malformed
Removes(plan, new, op, at) ==
  /\ op.action = "remove" /\ new[op.kind] = RemoveAt(plan[op.kind], at)
  /\ op.kind = "task" => ~Dangles(plan.task, at)
Effect(plan, new, op) ==
  /\ Others(plan, new, op.kind)
  /\ Keyed(op) => \/ Adds(plan, new, op)
                  \/ \E at \in DOMAIN plan[op.kind] :
                       /\ Places(plan, new, op, at) \/ Removes(plan, new, op, at)
                       /\ op.kind \in Kinds => plan[op.kind][at].id = op.address

LEMMA EditedIs ==
  ASSUME NEW plan, IsPlan(plan), NEW kind \in Collections, NEW seq, Listed(seq)
  PROVE  LET r == Edited(plan, kind, seq)
         IN r.err = "none" /\ Others(plan, r.plan, kind) /\ r.plan[kind] = seq
  <1> DEFINE new == [plan EXCEPT ![kind] = seq]
  <1>1. Others(plan, new, kind) /\ new[kind] = seq
    BY DEF IsPlan, Others
  <1> HIDE DEF new
  <1>2. Edited(plan, kind, seq).err = "none" /\ Edited(plan, kind, seq).plan = new
    <2>1. Edited(plan, kind, seq) = [err |-> "none", plan |-> new]
      BY DEF Edited, new
    <2>2. QED
      BY <2>1
  <1>3. QED
    BY <1>1, <1>2

LEMMA ObjectOpIs ==
  ASSUME NEW plan, IsPlan(plan), NEW op, IsOp(op), op.kind \in Kinds
  PROVE  LET r == ApplyObjectOp(plan, op)
         IN /\ r.err \in {"none", "apply", "integrity"}
            /\ r.err = "none" => Effect(plan, r.plan, op)
  <1> DEFINE coll == plan[op.kind]
             found == Holds(coll, op.address)
             at == FirstOf(found)
             refused == \/ ~Addressed(op)
                        \/ ~ValueFits(op)
                        \/ op.kind = "reference" /\ Cardinality(found) > 1
                        \/ (op.action = "add") # (found = {})
             r == ApplyObjectOp(plan, op)
  <1>1. op.kind \in Collections /\ Listed(coll) /\ Keyed(op)
    BY DEF IsPlan, Collections, Keyed, Kinds
  <1>2. found \subseteq DOMAIN coll /\ \A i \in found : coll[i].id = op.address
    BY DEF Holds
  <1>3. op.action # "add" /\ ~refused => at \in found
    BY <1>1, <1>2, FirstIsOne
  <1>4. CASE refused
    <2>1. r = Refused("apply")
      BY <1>4 DEF ApplyObjectOp
    <2>2. QED
      BY <2>1 DEF Refused
  <1>5. CASE ~refused /\ op.action = "add"
    <2> DEFINE seq == Append(coll, op.value)
    <2>1. r = Edited(plan, op.kind, seq)
      BY <1>5 DEF ApplyObjectOp
    <2>2. Listed(seq)
      BY <1>1, AppendedTo
    <2> HIDE DEF refused, coll
    <2>3. Others(plan, r.plan, op.kind) /\ r.plan[op.kind] = seq /\ r.err = "none"
      <3> HIDE DEF seq, r
      <3>1. QED
        BY <1>1, <2>1, <2>2, EditedIs
    <2>4. QED
      BY <2>3, <1>5 DEF Effect, Adds, coll
  <1>6. CASE ~refused /\ op.action = "replace"
    <2> DEFINE seq == [coll EXCEPT ![at] = op.value]
    <2>1. r = Edited(plan, op.kind, seq) /\ op.value # Malformed
      BY <1>6 DEF ApplyObjectOp, ValueFits
    <2>2. at \in DOMAIN coll /\ coll[at].id = op.address
      BY <1>2, <1>3, <1>6
    <2>3. Listed(seq)
      BY <1>1, <2>2, PutAt
    <2> HIDE DEF refused, coll
    <2>4. Others(plan, r.plan, op.kind) /\ r.plan[op.kind] = seq /\ r.err = "none"
      <3> HIDE DEF seq, r
      <3>1. QED
        BY <1>1, <2>1, <2>3, EditedIs
    <2>5. Places(plan, r.plan, op, at)
      BY <2>1, <2>4, <1>6 DEF Places, coll
    <2>6. QED
      BY <2>2, <2>4, <2>5 DEF Effect, coll
  <1>7. CASE ~refused /\ op.action = "remove"
    <2> DEFINE seq == RemoveAt(coll, at)
    <2>1. r = IF op.kind = "task" /\ Dangles(coll, at) THEN Refused("integrity")
              ELSE Edited(plan, op.kind, seq)
      BY <1>7 DEF ApplyObjectOp
    <2>2. at \in DOMAIN coll /\ coll[at].id = op.address
      BY <1>2, <1>3, <1>7
    <2>3. Listed(seq)
      BY <1>1, <2>2, RemovedAt
    <2>4. CASE op.kind = "task" /\ Dangles(coll, at)
      BY <2>1, <2>4 DEF Refused
    <2>5. CASE ~(op.kind = "task" /\ Dangles(coll, at))
      <3> HIDE DEF refused, coll
      <3>1. r = Edited(plan, op.kind, seq)
        BY <2>1, <2>5
      <3>2. Others(plan, r.plan, op.kind) /\ r.plan[op.kind] = seq /\ r.err = "none"
        <4> HIDE DEF seq, r
        <4>1. QED
          BY <1>1, <3>1, <2>3, EditedIs
      <3>3. Removes(plan, r.plan, op, at)
        BY <2>5, <3>2, <1>7 DEF Removes, coll
      <3>4. QED
        BY <2>2, <3>2, <3>3 DEF Effect, coll
    <2>6. QED
      BY <2>4, <2>5
  <1>8. QED
    BY <1>4, <1>5, <1>6, <1>7 DEF IsOp

LEMMA NonGoalOpIs ==
  ASSUME NEW plan, IsPlan(plan), NEW op, IsOp(op), op.kind = "non_goal"
  PROVE  LET r == ApplyNonGoalOp(plan, op)
         IN /\ r.err \in {"none", "apply", "integrity"}
            /\ r.err = "none" => Effect(plan, r.plan, op)
  <1> DEFINE coll == plan["non_goal"]
             r == ApplyNonGoalOp(plan, op)
  <1>1. op.kind \in Collections /\ op.kind \notin Kinds /\ Listed(coll) /\ Keyed(op) /\ coll = plan.non_goal
    BY DEF IsPlan, Collections, Keyed, Kinds
  <1>2. CASE r = Refused("apply")
    BY <1>2 DEF Refused
  <1>3. CASE op.action = "add" /\ r # Refused("apply")
    <2> DEFINE seq == Append(coll, op.value)
    <2>1. r = Edited(plan, "non_goal", seq)
      BY <1>1, <1>3 DEF ApplyNonGoalOp
    <2>2. Listed(seq)
      BY <1>1, AppendedTo
    <2> HIDE DEF coll
    <2>3. Others(plan, r.plan, op.kind) /\ r.plan[op.kind] = seq /\ r.err = "none"
      <3> HIDE DEF seq, r
      <3>1. QED
        BY <1>1, <2>1, <2>2, EditedIs
    <2>4. QED
      BY <2>3, <1>1, <1>3 DEF Effect, Adds, coll
  <1>4. CASE op.action = "replace" /\ r # Refused("apply")
    <2> DEFINE seq == [coll EXCEPT ![op.address] = op.value]
    <2>1. r = Edited(plan, "non_goal", seq) /\ op.value # Malformed /\ op.address \in DOMAIN coll
      BY <1>1, <1>4 DEF ApplyNonGoalOp, ValueFits
    <2>3. Listed(seq)
      BY <1>1, <2>1, PutAt
    <2> HIDE DEF coll
    <2>4. Others(plan, r.plan, op.kind) /\ r.plan[op.kind] = seq /\ r.err = "none"
      <3> HIDE DEF seq, r
      <3>1. QED
        BY <1>1, <2>1, <2>3, EditedIs
    <2>5. Places(plan, r.plan, op, op.address)
      BY <2>1, <2>4, <1>1, <1>4 DEF Places, coll
    <2>6. QED
      BY <1>1, <2>1, <2>4, <2>5 DEF Effect, coll
  <1>5. CASE op.action = "remove" /\ r # Refused("apply")
    <2> DEFINE seq == RemoveAt(coll, op.address)
    <2>1. r = Edited(plan, "non_goal", seq) /\ op.address \in DOMAIN coll
      BY <1>1, <1>5 DEF ApplyNonGoalOp
    <2>3. Listed(seq)
      BY <1>1, <2>1, RemovedAt
    <2> HIDE DEF coll
    <2>4. Others(plan, r.plan, op.kind) /\ r.plan[op.kind] = seq /\ r.err = "none"
      <3> HIDE DEF seq, r
      <3>1. QED
        BY <1>1, <2>1, <2>3, EditedIs
    <2>5. Removes(plan, r.plan, op, op.address)
      BY <2>4, <1>1, <1>5 DEF Removes, coll
    <2>6. QED
      BY <1>1, <2>1, <2>4, <2>5 DEF Effect, coll
  <1>6. QED
    BY <1>2, <1>3, <1>4, <1>5 DEF IsOp

LEMMA ScalarOpIs ==
  ASSUME NEW plan, IsPlan(plan), NEW op, IsOp(op), op.kind = "scalar"
  PROVE  LET r == ApplyScalarOp(plan, op)
         IN /\ r.err \in {"none", "apply", "integrity"}
            /\ r.err = "none" => Effect(plan, r.plan, op)
  <1> DEFINE r == ApplyScalarOp(plan, op)
             changed == [plan.scalar EXCEPT ![op.address] =
                           IF op.action = "remove" THEN Missing ELSE op.value]
  <1>1. r = Refused("apply") \/ r = Edited(plan, "scalar", changed)
    BY DEF ApplyScalarOp
  <1>2. CASE r = Refused("apply")
    BY <1>2 DEF Refused
  <1>3. CASE r = Edited(plan, "scalar", changed)
    <2> HIDE DEF changed
    <2>1. r.err = "none" /\ r.plan = [plan EXCEPT !["scalar"] = changed]
      <3> HIDE DEF r
      <3>1. QED
        BY <1>3 DEF Edited
    <2> HIDE DEF r
    <2>2. IsPlan(r.plan) /\ \A other \in Collections : r.plan[other] = plan[other]
      BY <2>1 DEF IsPlan, Collections, Kinds
    <2>3. QED
      BY <2>1, <2>2 DEF Effect, Others, Keyed, r
  <1>4. QED
    BY <1>1, <1>2, <1>3

LEMMA OpIs ==
  ASSUME NEW plan, IsPlan(plan), NEW op, IsOp(op)
  PROVE  LET r == ApplyOp(plan, op)
         IN /\ r.err \in {"none", "apply", "integrity"}
            /\ r.err = "none" => Effect(plan, r.plan, op)
  <1>1. CASE op.kind \in Kinds
    <2>1. ApplyOp(plan, op) = ApplyObjectOp(plan, op)
      BY <1>1 DEF ApplyOp, Kinds
    <2>2. QED
      BY <1>1, <2>1, ObjectOpIs
  <1>2. CASE op.kind = "non_goal"
    <2>1. ApplyOp(plan, op) = ApplyNonGoalOp(plan, op)
      BY <1>2 DEF ApplyOp, Kinds
    <2>2. QED
      BY <1>2, <2>1, NonGoalOpIs
  <1>3. CASE op.kind = "scalar"
    <2>1. ApplyOp(plan, op) = ApplyScalarOp(plan, op)
      BY <1>3 DEF ApplyOp, Kinds
    <2>2. QED
      BY <1>3, <2>1, ScalarOpIs
  <1>4. QED
    BY <1>1, <1>2, <1>3 DEF IsOp, Collections

-----------------------------------------------------------------------------
(* The plan a patch leaves *)

LEMMA UpTo ==
  ASSUME NEW N \in Nat, NEW S, 0 \in S, \A n \in 0..N : n # N /\ n \in S => n + 1 \in S
  PROVE  \A n \in 0..N : n \in S
  <1> DEFINE Bad == {n \in 0..N : n \notin S}
  <1>1. ASSUME Bad # {} PROVE FALSE
    <2>1. Bad \subseteq Nat /\ Bad # {}
      BY <1>1
    <2> HIDE DEF Bad
    <2>2. PICK m \in Bad : \A n \in Bad : m <= n
      BY <2>1, LeastNumber
    <2>3. m \in 0..N /\ m \notin S
      BY DEF Bad
    <2>4. m # 0 /\ m - 1 \in 0..N /\ m - 1 # N /\ m = (m - 1) + 1
      BY <2>3
    <2>5. m - 1 \notin Bad
      BY <2>1, <2>2, <2>4
    <2>6. m - 1 \in S
      BY <2>4, <2>5 DEF Bad
    <2>7. QED
      BY <2>3, <2>4, <2>6
  <1>2. QED
    BY <1>1

(* Each of the operations that came through had its effect, and left a     *)
(* plan of the same shape.                                                 *)
LEMMA AfterSteps ==
  ASSUME NEW plan, IsPlan(plan), NEW patch, IsPatch(patch)
  PROVE  LET done == After(plan, patch)
         IN /\ Len(patch) \in Nat /\ DOMAIN patch = 1..Len(patch)
            /\ done[0].err = "none" /\ done[0].plan = plan
            /\ \A n \in 0..Len(patch) :
                 /\ done[n].err \in {"none", "apply", "integrity"}
                 /\ done[n].err = "none" => IsPlan(done[n].plan)
            /\ \A n \in 1..Len(patch) : done[n].err = "none" =>
                 /\ done[n - 1].err = "none"
                 /\ Effect(done[n - 1].plan, done[n].plan, patch[n])
  <1> DEFINE done == After(plan, patch)
             N == Len(patch)
             errs == {"none", "apply", "integrity"}
             S == {n \in 0..N : done[n].err \in errs /\ (done[n].err = "none" => IsPlan(done[n].plan))}
  <1>1. N \in Nat /\ DOMAIN patch = 1..N /\ \A n \in 1..N : IsOp(patch[n])
    BY ListedIs DEF IsPatch, IsOp, Listed
  <1>2. /\ done[0] = [err |-> "none", plan |-> plan]
        /\ \A n \in 1..N : done[n] = IF done[n - 1].err = "none" THEN ApplyOp(done[n - 1].plan, patch[n])
                                     ELSE done[n - 1]
    BY AfterIs DEF IsPatch
  <1> HIDE DEF done
  <1>3. 0 \in S
    BY <1>1, <1>2
  <1>4. ASSUME NEW n \in 1..N, IsPlan(done[n - 1].plan), done[n - 1].err = "none"
        PROVE  /\ done[n].err \in errs
               /\ done[n].err = "none" => Effect(done[n - 1].plan, done[n].plan, patch[n])
    <2>1. done[n] = ApplyOp(done[n - 1].plan, patch[n])
      BY <1>2, <1>4
    <2>2. QED
      BY <1>1, <1>4, <2>1, OpIs
  <1>5. ASSUME NEW n \in 0..N, n # N, n \in S PROVE n + 1 \in S
    <2>1. n + 1 \in 1..N /\ n + 1 \in 0..N /\ (n + 1) - 1 = n
      <3> HIDE DEF S
      <3>1. N \in Nat /\ n \in 0..N /\ n # N
        BY <1>1, <1>5
      <3> HIDE DEF N
      <3>2. QED
        BY <3>1
    <2>2. CASE done[n].err = "none"
      <3>1. done[n + 1].err \in errs
            /\ (done[n + 1].err = "none" => Effect(done[n].plan, done[n + 1].plan, patch[n + 1]))
        BY <1>4, <1>5, <2>1, <2>2
      <3>2. QED
        BY <2>1, <3>1 DEF Effect, Others
    <2>3. CASE done[n].err # "none"
      <3>1. done[n + 1] = done[n]
        BY <1>2, <2>1, <2>3
      <3>2. QED
        BY <1>5, <2>1, <3>1
    <2>4. QED
      BY <2>2, <2>3
  <1>6. \A n \in 0..N : n \in S
    <2> HIDE DEF S
    <2>1. QED
      BY <1>1, <1>3, <1>5, UpTo
  <1>7. ASSUME NEW n \in 1..N, done[n].err = "none"
        PROVE  done[n - 1].err = "none" /\ Effect(done[n - 1].plan, done[n].plan, patch[n])
    <2>1. n - 1 \in 0..N
      BY <1>1
    <2>2. done[n - 1].err = "none"
      BY <1>2, <1>7
    <2>3. IsPlan(done[n - 1].plan)
      BY <1>6, <2>1, <2>2
    <2>4. QED
      BY <1>4, <1>7, <2>2, <2>3
  <1>8. QED
    BY <1>1, <1>2, <1>6, <1>7 DEF done

(* What is said of every patch that is applied.                            *)
LEMMA PatchIs ==
  ASSUME NEW plan, IsPlan(plan), NEW patch, IsPatch(patch)
  PROVE  LET r == ApplyPatch(plan, patch)
             done == After(plan, patch)
         IN /\ r.err \notin Landed
            /\ r.err = "none" => /\ WithinBound(plan, patch) /\ IsPlan(r.plan)
                                 /\ r.plan = done[Len(patch)].plan
                                 /\ \A n \in 0..Len(patch) : done[n].err = "none"
  <1> DEFINE done == After(plan, patch)
             N == Len(patch)
             r == ApplyPatch(plan, patch)
  <1>1. /\ N \in Nat /\ done[N].err \in {"none", "apply", "integrity"}
        /\ done[N].err = "none" => IsPlan(done[N].plan)
        /\ \A n \in 1..N : done[n].err = "none" => done[n - 1].err = "none"
    <2>1. Len(patch) \in Nat
      BY AfterSteps
    <2>2. Len(patch) \in 0..Len(patch)
      BY <2>1
    <2>3. QED
      BY <2>1, <2>2, AfterSteps
  <1> HIDE DEF done
  <1>2. \/ r = Refused("bound") \/ r = Refused("post_apply_invalid")
        \/ r = done[N] /\ (r.err = "none" => WithinBound(plan, patch))
    BY DEF ApplyPatch, done
  <1>3. r.err \notin Landed
    BY <1>1, <1>2 DEF Refused, Landed
  <1>4. r.err = "none" => r = done[N] /\ WithinBound(plan, patch)
    BY <1>2 DEF Refused
  <1>5. ASSUME done[N].err = "none" PROVE \A n \in 0..N : done[n].err = "none"
    <2> DEFINE S == {k \in 0..N : done[N - k].err = "none"}
    <2>1. 0 \in S
      <3>1. N - 0 = N /\ 0 \in 0..N
        BY <1>1
      <3>2. QED
        BY <1>5, <3>1
    <2>2. ASSUME NEW k \in 0..N, k # N, k \in S PROVE k + 1 \in S
      <3>1. N - k \in 1..N /\ (N - k) - 1 = N - (k + 1) /\ k + 1 \in 0..N
        BY <1>1, <2>2
      <3>2. QED
        BY <1>1, <2>2, <3>1
    <2> HIDE DEF S
    <2>3. \A k \in 0..N : k \in S
      BY <1>1, <2>1, <2>2, UpTo
    <2>4. ASSUME NEW n \in 0..N PROVE done[n].err = "none"
      <3>1. N - n \in 0..N /\ N - (N - n) = n
        BY <1>1
      <3>2. QED
        BY <2>3, <3>1 DEF S
    <2>5. QED
      BY <2>4
  <1>6. QED
    BY <1>1, <1>3, <1>4, <1>5 DEF done

(* What holds before a patch and is kept by the effect of each of its      *)
(* operations holds of the plan it leaves: S are the numbers of operations *)
(* after which it does.                                                    *)
LEMMA ThroughThePatch ==
  ASSUME NEW plan, IsPlan(plan), NEW patch, IsPatch(patch), ApplyPatch(plan, patch).err = "none",
         NEW S, 0 \in S,
         \A n \in 1..Len(patch) :
           /\ n - 1 \in S /\ IsPlan(After(plan, patch)[n - 1].plan)
           /\ Effect(After(plan, patch)[n - 1].plan, After(plan, patch)[n].plan, patch[n])
           => n \in S
  PROVE  Len(patch) \in S
  <1> DEFINE done == After(plan, patch)
             N == Len(patch)
  <1>1. N \in Nat /\ \A n \in 0..N : done[n].err = "none"
    BY AfterSteps, PatchIs
  <1>2. ASSUME NEW n \in 0..N, n # N, n \in S PROVE n + 1 \in S
    <2>1. n + 1 \in 1..N /\ (n + 1) - 1 = n /\ n + 1 \in 0..N
      BY <1>1, <1>2
    <2>2. IsPlan(done[n].plan) /\ Effect(done[(n + 1) - 1].plan, done[n + 1].plan, patch[n + 1])
      BY <1>1, <2>1, AfterSteps
    <2>3. QED
      BY <1>2, <2>1, <2>2
  <1> HIDE DEF done
  <1>3. \A n \in 0..N : n \in S
    BY <1>1, <1>2, UpTo
  <1>4. QED
    BY <1>1, <1>3

-----------------------------------------------------------------------------
(* An applied patch is surgical *)

\* `place' shows where the entries that are kept are now.
KeptAt(place, plan, patch, theirs, kind) ==
  LET kept == Untouched(plan, patch, kind)
  IN /\ place \in [kept -> DOMAIN theirs]
     /\ \A k \in kept : theirs[place[k]] = plan[kind][k]
     /\ \A k, m \in kept : k < m => place[k] < place[m]
     /\ \A n \in DOMAIN theirs :
          \/ \E k \in kept : place[k] = n
          \/ theirs[n] \in Puts(patch, kind)
          \/ \E k \in DOMAIN plan[kind] \ kept : theirs[n] = plan[kind][k]

LEMMA KeepsIs ==
  ASSUME NEW plan, NEW patch, NEW other, NEW kind
  PROVE  Keeps(plan, patch, other, kind) <=> \E place : KeptAt(place, plan, patch, other[kind], kind)
  BY DEF Keeps, KeptAt

LEMMA KeepsByOne ==
  ASSUME NEW plan, IsPlan(plan), NEW patch, IsPatch(patch), NEW kind \in Kinds, NEW i \in DOMAIN patch,
         NEW mid, IsPlan(mid), NEW new, Effect(mid, new, patch[i]), Keeps(plan, patch, mid, kind)
  PROVE  Keeps(plan, patch, new, kind)
  <1> DEFINE op == patch[i]
             kept == Untouched(plan, patch, kind)
             coll == mid[kind]
  <1>1. PICK place : KeptAt(place, plan, patch, coll, kind)
    BY KeepsIs
  <1>2. /\ kind \in Collections /\ Listed(coll) /\ DOMAIN coll = 1..Len(coll) /\ Len(coll) \in Nat
        /\ Listed(plan[kind]) /\ kept \subseteq DOMAIN plan[kind] /\ kept \subseteq Nat
    <2>1. kind \in Collections /\ Listed(coll) /\ Listed(plan[kind])
      BY DEF IsPlan, Collections
    <2>2. QED
      BY <2>1, ListedIs DEF Listed, Untouched
  <1>3. CASE op.kind # kind
    <2>1. new[kind] = coll
      BY <1>2, <1>3 DEF Effect, Others
    <2>2. QED
      BY <1>1, <2>1, KeepsIs
  <1>4. CASE op.kind = kind
    <2>1. Keyed(op)
      BY <1>4 DEF Keyed, Kinds
    <2>2. \A k \in kept : plan[kind][k].id # op.address
      BY <1>4 DEF Untouched
    <2>3. op.action # "remove" => op.value \in Puts(patch, kind)
      BY <1>4 DEF Puts
    <2>4. CASE Adds(mid, new, op)
      <3>1. new[kind] = Append(coll, op.value) /\ op.value \in Puts(patch, kind)
        BY <1>4, <2>3, <2>4 DEF Adds
      <3>2. /\ Listed(new[kind]) /\ Len(new[kind]) = Len(coll) + 1 /\ new[kind][Len(coll) + 1] = op.value
            /\ \A n \in 1..Len(coll) : new[kind][n] = coll[n]
        BY <1>2, <3>1, AppendedTo
      <3>3. DOMAIN new[kind] = 1..(Len(coll) + 1)
        BY <3>2, ListedIs
      <3>4. KeptAt(place, plan, patch, new[kind], kind)
        <4>1. place \in [kept -> DOMAIN new[kind]] /\ \A k \in kept : new[kind][place[k]] = plan[kind][k]
          BY <1>1, <1>2, <3>2, <3>3 DEF KeptAt
        <4>2. ASSUME NEW n \in DOMAIN new[kind]
              PROVE  \/ \E k \in kept : place[k] = n
                     \/ new[kind][n] \in Puts(patch, kind)
                     \/ \E k \in DOMAIN plan[kind] \ kept : new[kind][n] = plan[kind][k]
          <5>1. CASE n \in 1..Len(coll)
            BY <1>1, <1>2, <3>2, <5>1 DEF KeptAt
          <5>2. CASE n = Len(coll) + 1
            BY <3>1, <3>2, <5>2
          <5>3. QED
            BY <1>2, <3>3, <5>1, <5>2
        <4>3. \A k, m \in kept : k < m => place[k] < place[m]
          BY <1>1 DEF KeptAt
        <4>4. QED
          BY <4>1, <4>2, <4>3 DEF KeptAt
      <3>5. QED
        BY <3>4, KeepsIs
    <2>5. CASE \E at \in DOMAIN coll : Places(mid, new, op, at) /\ coll[at].id = op.address
      <3>1. PICK at \in DOMAIN coll : Places(mid, new, op, at) /\ coll[at].id = op.address
        BY <2>5
      <3>2. new[kind] = [coll EXCEPT ![at] = op.value] /\ op.value \in Puts(patch, kind)
        BY <1>4, <2>3, <3>1 DEF Places
      <3>3. /\ Listed(new[kind]) /\ Len(new[kind]) = Len(coll) /\ new[kind][at] = op.value
            /\ \A n \in 1..Len(coll) : n # at => new[kind][n] = coll[n]
        BY <1>2, <3>2, PutAt
      <3>4. DOMAIN new[kind] = DOMAIN coll
        BY <1>2, <3>3, ListedIs
      <3>5. \A k \in kept : place[k] \in DOMAIN coll /\ place[k] # at
        BY <1>1, <2>2, <3>1 DEF KeptAt
      <3>6. KeptAt(place, plan, patch, new[kind], kind)
        <4>1. place \in [kept -> DOMAIN new[kind]] /\ \A k \in kept : new[kind][place[k]] = plan[kind][k]
          BY <1>1, <1>2, <3>3, <3>4, <3>5 DEF KeptAt
        <4>2. ASSUME NEW n \in DOMAIN new[kind]
              PROVE  \/ \E k \in kept : place[k] = n
                     \/ new[kind][n] \in Puts(patch, kind)
                     \/ \E k \in DOMAIN plan[kind] \ kept : new[kind][n] = plan[kind][k]
          <5>1. CASE n # at
            BY <1>1, <1>2, <3>3, <3>4, <5>1 DEF KeptAt
          <5>2. CASE n = at
            BY <3>2, <3>3, <5>2
          <5>3. QED
            BY <5>1, <5>2
        <4>3. \A k, m \in kept : k < m => place[k] < place[m]
          BY <1>1 DEF KeptAt
        <4>4. QED
          BY <4>1, <4>2, <4>3 DEF KeptAt
      <3>7. QED
        BY <3>6, KeepsIs
    <2>6. CASE \E at \in DOMAIN coll : Removes(mid, new, op, at) /\ coll[at].id = op.address
      <3>1. PICK at \in DOMAIN coll : Removes(mid, new, op, at) /\ coll[at].id = op.address
        BY <2>6
      <3>2. new[kind] = RemoveAt(coll, at)
        BY <1>4, <3>1 DEF Removes
      <3>3. /\ Listed(new[kind]) /\ Len(new[kind]) = Len(coll) - 1
            /\ \A n \in 1..(Len(coll) - 1) : new[kind][n] = IF n < at THEN coll[n] ELSE coll[n + 1]
        BY <1>2, <3>2, RemovedAt
      <3>4. DOMAIN new[kind] = 1..(Len(coll) - 1)
        BY <3>3, ListedIs
      <3>5. \A k \in kept : place[k] \in 1..Len(coll) /\ place[k] # at
        BY <1>1, <1>2, <2>2, <3>1 DEF KeptAt
      <3> DEFINE now == [k \in kept |-> IF place[k] < at THEN place[k] ELSE place[k] - 1]
      <3>6. KeptAt(now, plan, patch, new[kind], kind)
        <4>0. at \in 1..Len(coll) /\ at \in Nat
          BY <1>2
        <4>1. ASSUME NEW k \in kept
              PROVE  now[k] \in DOMAIN new[kind] /\ new[kind][now[k]] = plan[kind][k]
          <5>1. coll[place[k]] = plan[kind][k] /\ place[k] \in 1..Len(coll) /\ place[k] # at
            BY <1>1, <3>5 DEF KeptAt
          <5>2. CASE place[k] < at
            <6>1. now[k] = place[k] /\ now[k] \in 1..(Len(coll) - 1)
              BY <1>2, <4>0, <5>1, <5>2
            <6>2. QED
              BY <3>3, <3>4, <5>1, <5>2, <6>1
          <5>3. CASE ~(place[k] < at)
            <6>1. /\ now[k] = place[k] - 1 /\ now[k] \in 1..(Len(coll) - 1)
                  /\ ~(now[k] < at) /\ now[k] + 1 = place[k]
              BY <1>2, <4>0, <5>1, <5>3
            <6>2. QED
              BY <3>3, <3>4, <5>1, <6>1
          <5>4. QED
            BY <5>2, <5>3
        <4>2. ASSUME NEW n \in DOMAIN new[kind]
              PROVE  \/ \E k \in kept : now[k] = n
                     \/ new[kind][n] \in Puts(patch, kind)
                     \/ \E k \in DOMAIN plan[kind] \ kept : new[kind][n] = plan[kind][k]
          <5> DEFINE was == IF n < at THEN n ELSE n + 1
          <5>1. was \in 1..Len(coll) /\ was # at /\ new[kind][n] = coll[was]
            BY <1>2, <3>3, <3>4, <4>0
          <5>2. \A k \in kept : place[k] = was => now[k] = n
            BY <1>2, <3>4, <3>5, <4>0
          <5> HIDE DEF was, now
          <5>3. \/ \E k \in kept : place[k] = was
                \/ coll[was] \in Puts(patch, kind)
                \/ \E k \in DOMAIN plan[kind] \ kept : coll[was] = plan[kind][k]
            BY <1>1, <1>2, <5>1 DEF KeptAt
          <5>4. QED
            BY <5>1, <5>2, <5>3
        <4>3. ASSUME NEW k \in kept, NEW m \in kept, k < m PROVE now[k] < now[m]
          <5>1. place[k] < place[m]
            BY <1>1, <4>3 DEF KeptAt
          <5>2. QED
            BY <1>2, <3>5, <4>0, <5>1
        <4>4. now \in [kept -> DOMAIN new[kind]]
          BY <4>1
        <4> HIDE DEF now
        <4>5. QED
          BY <4>1, <4>2, <4>3, <4>4 DEF KeptAt
      <3>7. QED
        BY <3>6, KeepsIs
    <2>7. QED
      BY <1>4, <2>1, <2>4, <2>5, <2>6 DEF Effect
  <1>5. QED
    BY <1>3, <1>4

(* The entries that a patch does not address are kept.                     *)
LEMMA PatchKeeps ==
  ASSUME NEW plan, IsPlan(plan), NEW patch, IsPatch(patch), ApplyPatch(plan, patch).err = "none",
         NEW kind \in Kinds
  PROVE  Keeps(plan, patch, ApplyPatch(plan, patch).plan, kind)
  <1> DEFINE done == After(plan, patch)
             N == Len(patch)
             S == {n \in 0..N : Keeps(plan, patch, done[n].plan, kind)}
  <1>1. N \in Nat /\ DOMAIN patch = 1..N /\ done[0].plan = plan
    BY AfterSteps
  <1>2. 0 \in S
    <2>1. Listed(plan[kind])
      BY DEF IsPlan, Collections
    <2>2. DOMAIN plan[kind] = 1..Len(plan[kind]) /\ Untouched(plan, patch, kind) \subseteq DOMAIN plan[kind]
      BY <2>1, ListedIs DEF Untouched
    <2> DEFINE place == [k \in Untouched(plan, patch, kind) |-> k]
    <2>3. KeptAt(place, plan, patch, plan[kind], kind)
      BY <2>2 DEF KeptAt
    <2>4. Keeps(plan, patch, plan, kind)
      BY <2>3, KeepsIs
    <2>5. QED
      BY <1>1, <2>4
  <1>3. ASSUME NEW n \in 1..N, n - 1 \in S, IsPlan(done[n - 1].plan),
               Effect(done[n - 1].plan, done[n].plan, patch[n])
        PROVE  n \in S
    <2>1. Keeps(plan, patch, done[n - 1].plan, kind)
      BY <1>3
    <2> HIDE DEF done
    <2>2. Keeps(plan, patch, done[n].plan, kind)
      BY <1>1, <1>3, <2>1, KeepsByOne
    <2>3. QED
      BY <1>1, <2>2
  <1> HIDE DEF S
  <1>4. N \in S
    BY <1>2, <1>3, ThroughThePatch
  <1>5. QED
    BY <1>4, PatchIs DEF S

\* A task that the patch does not put is one of the plan's, and waits for
\* nothing that the patch has taken away.
HasTask(plan, id) == \E k \in DOMAIN plan.task : plan.task[k].id = id
NothingLost(plan, patch, now) ==
  \A k \in DOMAIN now.task : now.task[k] \notin Puts(patch, "task") =>
    /\ now.task[k] \in Entries(plan.task)
    /\ \A dep \in now.task[k].deps :
         HasTask(plan, dep) /\ dep \notin Renamed(patch) => HasTask(now, dep)

LEMMA NothingLostByOne ==
  ASSUME NEW plan, NEW patch, IsPatch(patch), NEW i \in DOMAIN patch,
         NEW mid, IsPlan(mid), NEW new, Effect(mid, new, patch[i]), NothingLost(plan, patch, mid)
  PROVE  NothingLost(plan, patch, new)
  <1> DEFINE op == patch[i]
             coll == mid.task
  <1>1. /\ Listed(coll) /\ DOMAIN coll = 1..Len(coll) /\ Len(coll) \in Nat /\ coll = mid["task"]
        /\ new.task = new["task"] /\ "task" \in Collections
    <2>1. Listed(coll) /\ coll = mid["task"] /\ new.task = new["task"] /\ "task" \in Collections
      BY DEF IsPlan, Collections, Kinds
    <2>2. QED
      BY <2>1, ListedIs DEF Listed
  <1>2. CASE op.kind # "task"
    <2>1. new.task = coll
      BY <1>1, <1>2 DEF Effect, Others
    <2>2. QED
      BY <2>1 DEF NothingLost, HasTask
  <1>3. CASE op.kind = "task"
    <2>1. Keyed(op) /\ op.kind \in Kinds
      BY <1>3 DEF Keyed, Kinds
    <2>2. op.action # "remove" => op.value \in Puts(patch, "task")
      BY <1>3 DEF Puts
    <2>3. CASE Adds(mid, new, op)
      <3>1. new.task = Append(coll, op.value) /\ op.value \in Puts(patch, "task")
        BY <1>1, <1>3, <2>2, <2>3 DEF Adds
      <3>2. /\ Listed(new.task) /\ Len(new.task) = Len(coll) + 1 /\ new.task[Len(coll) + 1] = op.value
            /\ \A n \in 1..Len(coll) : new.task[n] = coll[n]
        BY <1>1, <3>1, AppendedTo
      <3>3. DOMAIN new.task = 1..(Len(coll) + 1)
        BY <3>2, ListedIs
      <3>4. \A dep : HasTask(mid, dep) => HasTask(new, dep)
        BY <1>1, <3>2, <3>3 DEF HasTask
      <3>5. \A k \in DOMAIN new.task : new.task[k] \notin Puts(patch, "task") =>
              k \in DOMAIN coll /\ new.task[k] = coll[k]
        BY <1>1, <3>1, <3>2, <3>3
      <3>6. QED
        BY <3>4, <3>5 DEF NothingLost
    <2>4. CASE \E at \in DOMAIN coll : Places(mid, new, op, at) /\ coll[at].id = op.address
      <3>1. PICK at \in DOMAIN coll : Places(mid, new, op, at) /\ coll[at].id = op.address
        BY <2>4
      <3>2. /\ new.task = [coll EXCEPT ![at] = op.value] /\ op.value \in Puts(patch, "task")
            /\ op.action = "replace" /\ op.value # Malformed
        BY <1>1, <1>3, <2>2, <3>1 DEF Places
      <3>3. /\ Listed(new.task) /\ Len(new.task) = Len(coll) /\ new.task[at] = op.value
            /\ \A n \in 1..Len(coll) : n # at => new.task[n] = coll[n]
        BY <1>1, <3>2, PutAt
      <3>4. DOMAIN new.task = DOMAIN coll
        BY <1>1, <3>3, ListedIs
      <3>5. ASSUME NEW dep, HasTask(mid, dep), dep \notin Renamed(patch) PROVE HasTask(new, dep)
        <4>1. PICK n \in DOMAIN coll : coll[n].id = dep
          BY <3>5 DEF HasTask
        <4>2. CASE n # at
          BY <1>1, <3>3, <3>4, <4>1, <4>2 DEF HasTask
        <4>3. CASE n = at
          <5>1. op.address = dep /\ op.address \notin Renamed(patch)
            BY <3>1, <3>5, <4>1, <4>3
          <5>2. op.value.id = dep
            BY <1>3, <3>2, <5>1 DEF Renamed
          <5>3. QED
            BY <3>3, <3>4, <5>2 DEF HasTask
        <4>4. QED
          BY <4>2, <4>3
      <3>6. \A k \in DOMAIN new.task : new.task[k] \notin Puts(patch, "task") =>
              k \in DOMAIN coll /\ new.task[k] = coll[k]
        BY <1>1, <3>2, <3>3, <3>4
      <3>7. QED
        BY <3>5, <3>6 DEF NothingLost
    <2>5. CASE \E at \in DOMAIN coll : Removes(mid, new, op, at) /\ coll[at].id = op.address
      <3>1. PICK at \in DOMAIN coll : Removes(mid, new, op, at) /\ coll[at].id = op.address
        BY <2>5
      <3>2. new.task = RemoveAt(coll, at) /\ ~Dangles(coll, at)
        BY <1>1, <1>3, <3>1 DEF Removes
      <3>3. /\ Listed(new.task) /\ Len(new.task) = Len(coll) - 1
            /\ \A n \in 1..(Len(coll) - 1) : new.task[n] = IF n < at THEN coll[n] ELSE coll[n + 1]
        BY <1>1, <3>2, RemovedAt
      <3>4. DOMAIN new.task = 1..(Len(coll) - 1)
        BY <3>3, ListedIs
      <3>5. ASSUME NEW k \in DOMAIN new.task
            PROVE  \E n \in DOMAIN coll : n # at /\ new.task[k] = coll[n]
        <4> DEFINE n == IF k < at THEN k ELSE k + 1
        <4>1. n \in 1..Len(coll) /\ n # at /\ new.task[k] = coll[n]
          BY <1>1, <3>3, <3>4
        <4> HIDE DEF n
        <4>2. QED
          BY <1>1, <4>1
      <3>6. ASSUME NEW n \in DOMAIN coll, n # at
            PROVE  \E k \in DOMAIN new.task : new.task[k] = coll[n]
        <4> DEFINE k == IF n < at THEN n ELSE n - 1
        <4>1. k \in 1..(Len(coll) - 1) /\ new.task[k] = coll[n]
          BY <1>1, <3>3, <3>6
        <4> HIDE DEF k
        <4>2. QED
          BY <3>4, <4>1
      <3>7. ASSUME NEW k \in DOMAIN new.task, new.task[k] \notin Puts(patch, "task")
            PROVE  /\ new.task[k] \in Entries(plan.task)
                   /\ \A dep \in new.task[k].deps :
                        HasTask(plan, dep) /\ dep \notin Renamed(patch) => HasTask(new, dep)
        <4>1. PICK n \in DOMAIN coll : n # at /\ new.task[k] = coll[n]
          BY <3>5
        <4>2. /\ coll[n] \in Entries(plan.task)
              /\ \A dep \in coll[n].deps :
                   HasTask(plan, dep) /\ dep \notin Renamed(patch) => HasTask(mid, dep)
          BY <3>7, <4>1 DEF NothingLost
        <4>3. ASSUME NEW dep \in coll[n].deps, HasTask(mid, dep) PROVE HasTask(new, dep)
          <5>1. PICK m \in DOMAIN coll : coll[m].id = dep
            BY <4>3 DEF HasTask
          <5>2. m # at
            BY <3>2, <4>1, <5>1 DEF Dangles
          <5>3. QED
            BY <3>6, <5>1, <5>2 DEF HasTask
        <4>4. QED
          BY <4>1, <4>2, <4>3
      <3>8. QED
        BY <3>7 DEF NothingLost
    <2>6. QED
      BY <1>1, <1>3, <2>1, <2>3, <2>4, <2>5 DEF Effect
  <1>4. QED
    BY <1>2, <1>3

(* A patch leaves no task waiting for one that it removed.                 *)
LEMMA PatchLosesNothing ==
  ASSUME NEW plan, IsPlan(plan), NEW patch, IsPatch(patch), ApplyPatch(plan, patch).err = "none"
  PROVE  NothingLost(plan, patch, ApplyPatch(plan, patch).plan)
  <1> DEFINE done == After(plan, patch)
             N == Len(patch)
             S == {n \in 0..N : NothingLost(plan, patch, done[n].plan)}
  <1>1. N \in Nat /\ DOMAIN patch = 1..N /\ done[0].plan = plan
    BY AfterSteps
  <1>2. 0 \in S
    <2>1. NothingLost(plan, patch, plan)
      BY DEF NothingLost, Entries
    <2>2. QED
      BY <1>1, <2>1
  <1>3. ASSUME NEW n \in 1..N, n - 1 \in S, IsPlan(done[n - 1].plan),
               Effect(done[n - 1].plan, done[n].plan, patch[n])
        PROVE  n \in S
    <2>1. NothingLost(plan, patch, done[n - 1].plan)
      BY <1>3
    <2> HIDE DEF done
    <2>2. NothingLost(plan, patch, done[n].plan)
      BY <1>1, <1>3, <2>1, NothingLostByOne
    <2>3. QED
      BY <1>1, <2>2
  <1> HIDE DEF S
  <1>4. N \in S
    BY <1>2, <1>3, ThroughThePatch
  <1>5. QED
    BY <1>4, PatchIs DEF S

-----------------------------------------------------------------------------
(* How much of a plan a patch makes new *)

LEMMA FreshIs ==
  ASSUME NEW plan, NEW other, NEW kind, NEW n
  PROVE  <<kind, n>> \in Fresh(plan, other) <=>
           kind \in Collections /\ n \in DOMAIN other[kind]
             /\ \A k \in DOMAIN plan[kind] : plan[kind][k] # other[kind][n]
  <1> DEFINE Of(k) == {m \in DOMAIN other[k] : \A j \in DOMAIN plan[k] : plan[k][j] # other[k][m]}
  <1>1. Fresh(plan, other) = UNION {{k} \X Of(k) : k \in Collections}
    BY DEF Fresh
  <1> HIDE DEF Of
  <1>2. <<kind, n>> \in Fresh(plan, other) <=> \E k \in Collections : <<kind, n>> \in {k} \X Of(k)
    BY <1>1
  <1>3. \A k : <<kind, n>> \in {k} \X Of(k) <=> kind = k /\ n \in Of(k)
    OBVIOUS
  <1>4. QED
    BY <1>2, <1>3 DEF Of

LEMMA FreshPairs ==
  ASSUME NEW plan, NEW other, NEW x \in Fresh(plan, other)
  PROVE  \E kind, n : x = <<kind, n>> /\ kind \in Collections /\ n \in DOMAIN other[kind]
  <1> DEFINE Of(k) == {m \in DOMAIN other[k] : \A j \in DOMAIN plan[k] : plan[k][j] # other[k][m]}
  <1>1. PICK k \in Collections : x \in {k} \X Of(k)
    BY DEF Fresh
  <1> HIDE DEF Of
  <1>2. PICK n \in Of(k) : x = <<k, n>>
    BY <1>1
  <1>3. QED
    BY <1>2 DEF Of

(* A set of places, counted up to each of them.                            *)
LEMMA CountUpTo ==
  ASSUME NEW N \in Nat, NEW T, T \subseteq 1..N
  PROVE  /\ T \cap 1..N = T /\ Cardinality(T \cap 1..0) = 0
         /\ \A n \in 0..N : IsFiniteSet(T \cap 1..n) /\ Cardinality(T \cap 1..n) \in Nat
         /\ \A n \in 1..N : Cardinality(T \cap 1..n) =
              Cardinality(T \cap 1..(n - 1)) + (IF n \in T THEN 1 ELSE 0)
  <1>1. T \cap 1..N = T /\ T \cap 1..0 = {}
    <2>1. \A x : x \notin 1..0
      OBVIOUS
    <2>2. QED
      BY <2>1
  <1>2. ASSUME NEW n \in 0..N PROVE IsFiniteSet(T \cap 1..n) /\ Cardinality(T \cap 1..n) \in Nat
    <2>1. IsFiniteSet(1..n)
      BY FS_Interval
    <2>2. IsFiniteSet(T \cap 1..n)
      BY <2>1, FS_Subset
    <2>3. QED
      BY <2>2, FS_CardinalityType
  <1>3. ASSUME NEW n \in 1..N
        PROVE  Cardinality(T \cap 1..n) = Cardinality(T \cap 1..(n - 1)) + (IF n \in T THEN 1 ELSE 0)
    <2>1. n - 1 \in 0..N /\ n \notin T \cap 1..(n - 1)
      OBVIOUS
    <2>2. IsFiniteSet(T \cap 1..(n - 1)) /\ Cardinality(T \cap 1..(n - 1)) \in Nat
      BY <1>2, <2>1
    <2>3. CASE n \in T
      <3>1. T \cap 1..n = (T \cap 1..(n - 1)) \cup {n}
        BY <2>3
      <3>2. QED
        BY <2>1, <2>2, <2>3, <3>1, FS_AddElement
    <2>4. CASE n \notin T
      <3>1. T \cap 1..n = T \cap 1..(n - 1)
        BY <2>4
      <3>2. Cardinality(T \cap 1..n) = Cardinality(T \cap 1..(n - 1))
        BY <3>1
      <3> DEFINE c == Cardinality(T \cap 1..(n - 1))
      <3>3. c \in Nat /\ Cardinality(T \cap 1..n) = c
        BY <2>2, <3>2
      <3> HIDE DEF c
      <3>4. QED
        BY <2>4, <3>3 DEF c
    <2>5. QED
      BY <2>3, <2>4
  <1>4. QED
    BY <1>1, <1>2, <1>3, FS_EmptySet

\* what one operation adds to a collection
Grown(op) == IF ~Keyed(op) \/ op.action = "replace" THEN 0 ELSE IF op.action = "add" THEN 1 ELSE -1

\* what one operation makes new
OneMore(plan, op, mid, new) ==
  /\ IsFiniteSet(Fresh(plan, new))
  /\ Cardinality(Fresh(plan, new)) <= Cardinality(Fresh(plan, mid)) + (IF Keyed(op) THEN 1 ELSE 0)
  /\ \A kind \in Collections :
       Len(new[kind]) = Len(mid[kind]) + (IF kind = op.kind THEN Grown(op) ELSE 0)

(* An operation makes one entry new at most, and changes the count of the  *)
(* entries by what it adds or removes.                                     *)
LEMMA OneIsFresh ==
  ASSUME NEW plan, NEW op, IsOp(op), NEW mid, IsPlan(mid), NEW new, Effect(mid, new, op),
         IsFiniteSet(Fresh(plan, mid))
  PROVE  OneMore(plan, op, mid, new)
  <1> DEFINE old == Fresh(plan, mid)
             now == Fresh(plan, new)
             kd == op.kind
             coll == mid[kd]
  <1> USE DEF OneMore
  <1>1. \A kind \in Collections : /\ Listed(mid[kind]) /\ Len(mid[kind]) \in Nat
                                  /\ DOMAIN mid[kind] = 1..Len(mid[kind])
    BY ListedIs DEF IsPlan, Listed
  <1>2. \A kind \in Collections : kind # kd => new[kind] = mid[kind]
    BY DEF Effect, Others
  <1>3. Cardinality(old) \in Nat
    BY FS_CardinalityType
  <1>4. \A kind, n : <<kind, n>> \in now /\ kind # kd => <<kind, n>> \in old
    BY <1>2, FreshIs
  <1>5. CASE ~Keyed(op)
    <2>1. kd \notin Collections
      BY <1>5 DEF Keyed, Collections, Kinds
    <2>2. \A kind \in Collections : new[kind] = mid[kind]
      BY <1>2, <2>1
    <2>3. now \subseteq old
      BY <1>4, <2>1, FreshPairs
    <2>4. IsFiniteSet(now) /\ Cardinality(now) <= Cardinality(old)
      BY <2>3, FS_Subset
    <2> HIDE DEF old, now, coll, kd
    <2>5. \A kind \in Collections : Len(new[kind]) = Len(mid[kind]) + 0
      BY <1>1, <2>2
    <2>6. QED
      BY <1>3, <1>5, <2>4, <2>5 DEF Grown, old, now
  <1>6. CASE Keyed(op) /\ op.action = "remove"
    <2>1. kd \in Collections
      BY <1>6 DEF IsOp, Keyed
    <2>2. PICK at \in DOMAIN coll : new[kd] = RemoveAt(coll, at)
      BY <1>6 DEF Effect, Adds, Places, Removes
    <2>3. /\ Listed(new[kd]) /\ Len(new[kd]) = Len(coll) - 1
          /\ \A n \in 1..(Len(coll) - 1) : new[kd][n] = IF n < at THEN coll[n] ELSE coll[n + 1]
      BY <1>1, <2>1, <2>2, RemovedAt
    <2>4. DOMAIN new[kd] = 1..(Len(coll) - 1)
      BY <2>3, ListedIs
    <2> DEFINE was(n) == IF n < at THEN n ELSE n + 1
               f == [x \in now |-> IF x[1] = kd THEN <<kd, was(x[2])>> ELSE x]
    <2>5. ASSUME NEW n, <<kd, n>> \in now
          PROVE  n \in 1..(Len(coll) - 1) /\ <<kd, was(n)>> \in old
      <3>1. n \in 1..(Len(coll) - 1) /\ \A k \in DOMAIN plan[kd] : plan[kd][k] # new[kd][n]
        BY <2>4, <2>5, FreshIs
      <3>2. was(n) \in 1..Len(coll) /\ new[kd][n] = coll[was(n)]
        BY <1>1, <2>1, <2>3, <3>1
      <3> HIDE DEF was
      <3>3. QED
        BY <1>1, <2>1, <3>1, <3>2, FreshIs
    <2>6. ASSUME NEW x \in now PROVE f[x] \in old
      <3>1. PICK kind, n : x = <<kind, n>> /\ kind \in Collections /\ n \in DOMAIN new[kind]
        BY FreshPairs
      <3>2. CASE kind = kd
        <4>1. x[1] = kd /\ x[2] = n /\ <<kd, n>> \in now
          BY <3>1, <3>2
        <4>2. f[x] = <<kd, was(n)>>
          BY <4>1
        <4>3. QED
          BY <2>5, <4>1, <4>2
      <3>3. CASE kind # kd
        <4>1. x[1] # kd /\ <<kind, n>> \in now
          BY <3>1, <3>3
        <4>2. f[x] = <<kind, n>>
          BY <3>1, <4>1
        <4>3. QED
          BY <1>4, <3>3, <4>1, <4>2
      <3>4. QED
        BY <3>2, <3>3
    <2>7. ASSUME NEW x \in now, NEW y \in now, f[x] = f[y] PROVE x = y
      <3>1. PICK kx, nx : x = <<kx, nx>> /\ kx \in Collections /\ nx \in DOMAIN new[kx]
        BY FreshPairs
      <3>2. PICK ky, ny : y = <<ky, ny>> /\ ky \in Collections /\ ny \in DOMAIN new[ky]
        BY FreshPairs
      <3>3. x[1] = kx /\ x[2] = nx /\ y[1] = ky /\ y[2] = ny
        BY <3>1, <3>2
      <3>4. f[x] = (IF kx = kd THEN <<kd, was(nx)>> ELSE x) /\ f[y] = (IF ky = kd THEN <<kd, was(ny)>> ELSE y)
        BY <3>3
      <3>5. CASE kx = kd /\ ky = kd
        <4>1. nx \in 1..(Len(coll) - 1) /\ ny \in 1..(Len(coll) - 1)
          BY <2>4, <3>1, <3>2, <3>5
        <4>2. was(nx) = was(ny)
          <5> HIDE DEF was, f
          <5>1. <<kd, was(nx)>> = <<kd, was(ny)>>
            BY <2>7, <3>4, <3>5
          <5>2. QED
            BY <5>1
        <4>3. at \in Nat
          BY <1>1, <2>1
        <4>4. nx = ny
          BY <4>1, <4>2, <4>3
        <4>5. QED
          BY <3>1, <3>2, <3>5, <4>4
      <3>6. CASE ~(kx = kd /\ ky = kd)
        <4> HIDE DEF was, f, now, old
        <4>1. CASE kx # kd /\ ky # kd
          BY <2>7, <3>4, <4>1
        <4>2. CASE kx # kd /\ ky = kd
          <5>1. x = <<kd, was(ny)>>
            BY <2>7, <3>4, <4>2
          <5>2. x[1] = kd
            BY <5>1
          <5>3. QED
            BY <3>3, <4>2, <5>2
        <4>3. CASE kx = kd /\ ky # kd
          <5>1. y = <<kd, was(nx)>>
            BY <2>7, <3>4, <4>3
          <5>2. y[1] = kd
            BY <5>1
          <5>3. QED
            BY <3>3, <4>3, <5>2
        <4>4. QED
          BY <3>6, <4>1, <4>2, <4>3
      <3>7. QED
        BY <3>5, <3>6
    <2>8. f \in Injection(now, old)
      <3>1. f = [x \in now |-> f[x]]
        OBVIOUS
      <3> HIDE DEF f, now, old
      <3>2. QED
        BY <2>6, <2>7, <3>1 DEF Injection, IsInjective
    <2> HIDE DEF f, now, old
    <2>9. IsFiniteSet(now) /\ Cardinality(now) <= Cardinality(old)
      BY <2>8, FS_Injection DEF old
    <2>10. Cardinality(now) \in Nat
      BY <2>9, FS_CardinalityType
    <2>11. \A kind \in Collections : Len(new[kind]) = Len(mid[kind]) + (IF kind = kd THEN -1 ELSE 0)
      <3>1. ASSUME NEW kind \in Collections, kind # kd PROVE Len(new[kind]) = Len(mid[kind]) + 0
        <4>1. new[kind] = mid[kind] /\ Len(mid[kind]) \in Nat
          BY <1>1, <1>2, <3>1
        <4>2. QED
          BY <4>1
      <3>2. Len(new[kd]) = Len(mid[kd]) + (-1)
        <4>1. Len(mid[kd]) \in Nat
          BY <1>1, <2>1
        <4>2. QED
          BY <2>3, <4>1
      <3> HIDE DEF kd, coll
      <3>3. QED
        BY <3>1, <3>2
    <2>12. QED
      <3>1. Grown(op) = -1
        BY <1>6 DEF Grown
      <3>2. Cardinality(now) <= Cardinality(old) + 1
        BY <1>3, <2>9, <2>10
      <3>3. QED
        BY <1>6, <2>9, <2>11, <3>1, <3>2 DEF now, old
  <1>7. ASSUME Keyed(op), kd \in Collections, NEW at, NEW by \in {0, 1}, Listed(new[kd]),
               Len(new[kd]) = Len(coll) + by, at \in 1..(Len(coll) + by),
               \A n \in 1..Len(coll) : n # at => new[kd][n] = coll[n],
               by = 1 => at = Len(coll) + 1, Grown(op) = by
        PROVE  /\ IsFiniteSet(now)
               /\ Cardinality(now) <= Cardinality(old) + 1
               /\ \A kind \in Collections : Len(new[kind]) =
                    Len(mid[kind]) + (IF kind = kd THEN Grown(op) ELSE 0)
    <2>1. DOMAIN new[kd] = 1..(Len(coll) + by)
      BY <1>7, ListedIs
    <2>2. now \subseteq old \cup {<<kd, at>>}
      <3>1. ASSUME NEW x \in now, x # <<kd, at>> PROVE x \in old
        <4>1. PICK kind, n : x = <<kind, n>> /\ kind \in Collections /\ n \in DOMAIN new[kind]
          BY FreshPairs
        <4>2. CASE kind # kd
          BY <1>4, <4>1, <4>2
        <4>3. CASE kind = kd
          <5>1. n # at
            BY <3>1, <4>1, <4>3
          <5>2. n \in 1..Len(coll)
            BY <1>1, <1>7, <2>1, <4>1, <4>3, <5>1
          <5>3. new[kd][n] = coll[n]
            BY <1>7, <5>1, <5>2
          <5>4. \A k \in DOMAIN plan[kd] : plan[kd][k] # coll[n]
            <6>1. <<kd, n>> \in now
              BY <4>1, <4>3
            <6>2. QED
              BY <5>3, <6>1, FreshIs
          <5>5. QED
            BY <1>1, <1>7, <4>1, <4>3, <5>2, <5>4, FreshIs
        <4>4. QED
          BY <4>2, <4>3
      <3>2. QED
        BY <3>1
    <2> HIDE DEF old, now
    <2>3. IsFiniteSet(old \cup {<<kd, at>>}) /\ Cardinality(old \cup {<<kd, at>>}) <= Cardinality(old) + 1
      <3> DEFINE more == old \cup {<<kd, at>>}
      <3>1. IsFiniteSet(more) /\ Cardinality(more) =
              IF <<kd, at>> \in old THEN Cardinality(old) ELSE Cardinality(old) + 1
        BY FS_AddElement DEF old
      <3>2. Cardinality(old) \in Nat
        BY <1>3 DEF old
      <3> HIDE DEF more
      <3>3. IsFiniteSet(more) /\ Cardinality(more) <= Cardinality(old) + 1
        BY <3>1, <3>2
      <3>4. QED
        BY <3>3 DEF more
    <2>4. IsFiniteSet(now) /\ Cardinality(now) <= Cardinality(old \cup {<<kd, at>>})
      BY <2>2, <2>3, FS_Subset
    <2>5. Cardinality(now) \in Nat /\ Cardinality(old \cup {<<kd, at>>}) \in Nat
      BY <2>3, <2>4, FS_CardinalityType
    <2>6. Cardinality(now) <= Cardinality(old) + 1
      BY <1>3, <2>3, <2>4, <2>5
    <2>7. \A kind \in Collections : Len(new[kind]) = Len(mid[kind]) + (IF kind = kd THEN Grown(op) ELSE 0)
      <3>1. ASSUME NEW kind \in Collections, kind # kd PROVE Len(new[kind]) = Len(mid[kind]) + 0
        <4>1. new[kind] = mid[kind] /\ Len(mid[kind]) \in Nat
          BY <1>1, <1>2, <3>1
        <4>2. QED
          BY <4>1
      <3>2. Len(new[kd]) = Len(mid[kd]) + Grown(op)
        BY <1>7
      <3> HIDE DEF kd, coll
      <3>3. QED
        BY <3>1, <3>2
    <2>8. QED
      BY <2>4, <2>6, <2>7
  <1>8. CASE Keyed(op) /\ op.action = "add"
    <2>1. kd \in Collections /\ new[kd] = Append(coll, op.value)
      BY <1>8 DEF Effect, Adds, Places, Removes, IsOp, Keyed
    <2>2. /\ Listed(new[kd]) /\ Len(new[kd]) = Len(coll) + 1
          /\ \A n \in 1..Len(coll) : new[kd][n] = coll[n]
      BY <1>1, <2>1, AppendedTo
    <2>3. Grown(op) = 1 /\ Len(coll) + 1 \in 1..(Len(coll) + 1)
      BY <1>1, <1>8, <2>1 DEF Grown
    <2>4. QED
      BY <1>7, <1>8, <2>1, <2>2, <2>3
  <1>9. CASE Keyed(op) /\ op.action = "replace"
    <2>1. kd \in Collections
      BY <1>9 DEF IsOp, Keyed
    <2>2. PICK at \in DOMAIN coll : new[kd] = [coll EXCEPT ![at] = op.value]
      BY <1>9 DEF Effect, Adds, Places, Removes
    <2>3. /\ Listed(new[kd]) /\ Len(new[kd]) = Len(coll)
          /\ \A n \in 1..Len(coll) : n # at => new[kd][n] = coll[n]
      BY <1>1, <2>1, <2>2, PutAt
    <2>4. Grown(op) = 0 /\ Len(coll) + 0 = Len(coll) /\ at \in 1..Len(coll)
      BY <1>1, <1>9, <2>1 DEF Grown
    <2>5. QED
      BY <1>7, <1>9, <2>1, <2>3, <2>4
  <1>10. QED
    BY <1>5, <1>6, <1>8, <1>9 DEF IsOp

\* what the first n operations of a patch have done to the counts
Counted(plan, patch, now, n) ==
  /\ IsFiniteSet(Fresh(plan, now))
  /\ Cardinality(Fresh(plan, now)) <= Cardinality(Touching(patch) \cap 1..n)
  /\ CountKeyed(now) = CountKeyed(plan) + Cardinality(Doing(patch, "add") \cap 1..n)
                                        - Cardinality(Doing(patch, "remove") \cap 1..n)

LEMMA CountIs ==
  ASSUME NEW plan, IsPlan(plan)
  PROVE  /\ CountKeyed(plan) = Len(plan["task"]) + Len(plan["criterion"]) + Len(plan["reference"])
                               + Len(plan["non_goal"])
         /\ \A kind \in Collections : Len(plan[kind]) \in Nat
         /\ CountKeyed(plan) \in Nat
  <1>1. \A kind \in Collections : Len(plan[kind]) \in Nat
    BY DEF IsPlan, Listed
  <1>2. {"task", "criterion", "reference", "non_goal"} = Collections
    BY DEF Collections, Kinds
  <1>3. CountKeyed(plan) = Len(plan["task"]) + Len(plan["criterion"]) + Len(plan["reference"])
                           + Len(plan["non_goal"])
    BY DEF CountKeyed
  <1>4. /\ Len(plan["task"]) \in Nat /\ Len(plan["criterion"]) \in Nat /\ Len(plan["reference"]) \in Nat
        /\ Len(plan["non_goal"]) \in Nat
    BY <1>1, <1>2
  <1>5. CountKeyed(plan) \in Nat
    <2> DEFINE a == Len(plan["task"])
               b == Len(plan["criterion"])
               c == Len(plan["reference"])
               d == Len(plan["non_goal"])
    <2> HIDE DEF a, b, c, d
    <2>1. a \in Nat /\ b \in Nat /\ c \in Nat /\ d \in Nat
      BY <1>4 DEF a, b, c, d
    <2>2. CountKeyed(plan) = a + b + c + d
      BY <1>3 DEF a, b, c, d
    <2>3. QED
      BY <2>1, <2>2
  <1>6. QED
    BY <1>1, <1>3, <1>5

LEMMA CountedByOne ==
  ASSUME NEW plan, IsPlan(plan), NEW patch, IsPatch(patch), NEW n \in 1..Len(patch),
         NEW mid, IsPlan(mid), NEW new, Effect(mid, new, patch[n]), Counted(plan, patch, mid, n - 1)
  PROVE  Counted(plan, patch, new, n)
  <1> DEFINE op == patch[n]
             N == Len(patch)
             T == Touching(patch)
             A == Doing(patch, "add")
             R == Doing(patch, "remove")
  <1>1. N \in Nat /\ DOMAIN patch = 1..N /\ IsOp(op)
    BY ListedIs DEF IsPatch, IsOp, Listed
  <1>2. T \subseteq 1..N /\ A \subseteq 1..N /\ R \subseteq 1..N
    BY <1>1 DEF Touching, Doing
  <1>3. /\ n \in T <=> Keyed(op)
        /\ n \in A <=> Keyed(op) /\ op.action = "add"
        /\ n \in R <=> Keyed(op) /\ op.action = "remove"
    BY <1>1 DEF Touching, Doing
  <1> DEFINE t == Cardinality(T \cap 1..(n - 1))
             a == Cardinality(A \cap 1..(n - 1))
             r == Cardinality(R \cap 1..(n - 1))
             was == Cardinality(Fresh(plan, mid))
             now == Cardinality(Fresh(plan, new))
  <1> HIDE DEF T, A, R
  <1>4. n - 1 \in 0..N
    BY <1>1
  <1>5. /\ Cardinality(T \cap 1..n) = t + (IF Keyed(op) THEN 1 ELSE 0)
        /\ Cardinality(A \cap 1..n) = a + (IF Keyed(op) /\ op.action = "add" THEN 1 ELSE 0)
        /\ Cardinality(R \cap 1..n) = r + (IF Keyed(op) /\ op.action = "remove" THEN 1 ELSE 0)
        /\ t \in Nat /\ a \in Nat /\ r \in Nat
    <2>1. Cardinality(T \cap 1..n) = t + (IF n \in T THEN 1 ELSE 0) /\ t \in Nat
      BY <1>1, <1>2, <1>4, CountUpTo
    <2>2. Cardinality(A \cap 1..n) = a + (IF n \in A THEN 1 ELSE 0) /\ a \in Nat
      BY <1>1, <1>2, <1>4, CountUpTo
    <2>3. Cardinality(R \cap 1..n) = r + (IF n \in R THEN 1 ELSE 0) /\ r \in Nat
      BY <1>1, <1>2, <1>4, CountUpTo
    <2> HIDE DEF t, a, r
    <2>4. QED
      BY <1>3, <2>1, <2>2, <2>3
  <1>6. /\ IsFiniteSet(Fresh(plan, mid)) /\ was <= t
        /\ CountKeyed(mid) = CountKeyed(plan) + a - r
    BY DEF Counted, T, A, R
  <1>7. /\ IsFiniteSet(Fresh(plan, new)) /\ now <= was + (IF Keyed(op) THEN 1 ELSE 0)
        /\ \A kind \in Collections : Len(new[kind]) =
              Len(mid[kind]) + (IF kind = op.kind THEN Grown(op) ELSE 0)
    <2>1. IsFiniteSet(Fresh(plan, mid)) /\ Effect(mid, new, op)
      BY <1>6
    <2>2. IsOp(op)
      BY <1>1
    <2> HIDE DEF op
    <2>3. OneMore(plan, op, mid, new)
      BY <2>1, <2>2, OneIsFresh
    <2>4. QED
      BY <2>3 DEF OneMore
  <1>8. now \in Nat /\ was \in Nat
    BY <1>6, <1>7, FS_CardinalityType
  <1>9. Cardinality(Fresh(plan, new)) <= Cardinality(T \cap 1..n)
    <2>1. now <= t + (IF Keyed(op) THEN 1 ELSE 0)
      <3> HIDE DEF now, was, t
      <3>1. QED
        BY <1>5, <1>6, <1>7, <1>8
    <2> HIDE DEF t
    <2>2. QED
      BY <1>5, <2>1
  <1>10. CountKeyed(new) = CountKeyed(mid) + Grown(op)
    <2>1. IsPlan(new)
      BY DEF Effect, Others
    <2>2. Collections = {"task", "criterion", "reference", "non_goal"}
      BY DEF Collections, Kinds
    <2> DEFINE g(kind) == IF kind = op.kind THEN Grown(op) ELSE 0
    <2>3. /\ Len(new["task"]) = Len(mid["task"]) + g("task")
          /\ Len(new["criterion"]) = Len(mid["criterion"]) + g("criterion")
          /\ Len(new["reference"]) = Len(mid["reference"]) + g("reference")
          /\ Len(new["non_goal"]) = Len(mid["non_goal"]) + g("non_goal")
          /\ Len(mid["task"]) \in Nat /\ Len(mid["criterion"]) \in Nat /\ Len(mid["reference"]) \in Nat
          /\ Len(mid["non_goal"]) \in Nat
      BY <1>7, <2>2, CountIs
    <2>4. g("task") + g("criterion") + g("reference") + g("non_goal") = Grown(op)
      BY <1>1, <2>2 DEF IsOp, Grown, Keyed
    <2>5. \A kind : g(kind) \in Int
      BY DEF Grown
    <2>6. /\ CountKeyed(new) = Len(new["task"]) + Len(new["criterion"]) + Len(new["reference"])
                                + Len(new["non_goal"])
          /\ CountKeyed(mid) = Len(mid["task"]) + Len(mid["criterion"]) + Len(mid["reference"])
                                + Len(mid["non_goal"])
      BY <2>1, CountIs
    <2>7. /\ g("task") \in Int /\ g("criterion") \in Int /\ g("reference") \in Int
          /\ g("non_goal") \in Int
      BY <2>5
    <2> HIDE DEF g
    <2> DEFINE l1 == Len(mid["task"])
               l2 == Len(mid["criterion"])
               l3 == Len(mid["reference"])
               l4 == Len(mid["non_goal"])
               w == g("task")
               x == g("criterion")
               y == g("reference")
               z == g("non_goal")
    <2>8. /\ l1 \in Nat /\ l2 \in Nat /\ l3 \in Nat /\ l4 \in Nat
          /\ w \in Int /\ x \in Int /\ y \in Int /\ z \in Int /\ w + x + y + z = Grown(op)
          /\ CountKeyed(mid) = l1 + l2 + l3 + l4
      BY <2>3, <2>4, <2>6, <2>7
    <2>9. CountKeyed(new) = (l1 + w) + (l2 + x) + (l3 + y) + (l4 + z)
      BY <2>3, <2>6
    <2> HIDE DEF l1, l2, l3, l4, w, x, y, z
    <2>10. QED
      BY <2>8, <2>9
  <1>11. CountKeyed(new) = CountKeyed(plan) + Cardinality(A \cap 1..n) - Cardinality(R \cap 1..n)
    <2>1. CountKeyed(plan) \in Nat
      BY CountIs
    <2> HIDE DEF a, r
    <2>2. QED
      BY <1>1, <1>5, <1>6, <1>10, <2>1 DEF Grown, IsOp
  <1>12. QED
    BY <1>7, <1>9, <1>11 DEF Counted, T, A, R

(* At most half of the entries of the plan that a patch leaves are new, if *)
(* it touches two or more.                                                 *)
LEMMA PatchIsBounded ==
  ASSUME NEW plan, IsPlan(plan), NEW patch, IsPatch(patch), ApplyPatch(plan, patch).err = "none"
  PROVE  LET new == ApplyPatch(plan, patch).plan
         IN Cardinality(Touching(patch)) >= 2
              => 2 * Cardinality(Fresh(plan, new)) <= CountKeyed(new)
  <1> DEFINE done == After(plan, patch)
             N == Len(patch)
             new == ApplyPatch(plan, patch).plan
             S == {n \in 0..N : Counted(plan, patch, done[n].plan, n)}
             T == Touching(patch)
             A == Doing(patch, "add")
             R == Doing(patch, "remove")
  <1>1. N \in Nat /\ DOMAIN patch = 1..N /\ done[0].plan = plan
    BY AfterSteps
  <1>2. T \subseteq 1..N /\ A \subseteq 1..N /\ R \subseteq 1..N
    BY <1>1 DEF Touching, Doing
  <1>3. 0 \in S
    <2>1. Fresh(plan, plan) = {}
      <3>1. ASSUME NEW x \in Fresh(plan, plan) PROVE FALSE
        <4>1. PICK kind, n : x = <<kind, n>> /\ kind \in Collections /\ n \in DOMAIN plan[kind]
          BY FreshPairs
        <4>2. QED
          BY <3>1, <4>1, FreshIs
      <3>2. QED
        BY <3>1
    <2>2. IsFiniteSet(Fresh(plan, plan)) /\ Cardinality(Fresh(plan, plan)) = 0
      BY <2>1, FS_EmptySet
    <2>3. Cardinality(T \cap 1..0) = 0 /\ Cardinality(A \cap 1..0) = 0 /\ Cardinality(R \cap 1..0) = 0
      <3> HIDE DEF T, A, R
      <3>1. QED
        BY <1>1, <1>2, CountUpTo
    <2>4. CountKeyed(plan) \in Nat
      BY CountIs
    <2>5. Counted(plan, patch, plan, 0)
      <3> DEFINE t == Cardinality(T \cap 1..0)
                 a == Cardinality(A \cap 1..0)
                 r == Cardinality(R \cap 1..0)
      <3>1. Counted(plan, patch, plan, 0) <=>
              /\ IsFiniteSet(Fresh(plan, plan)) /\ Cardinality(Fresh(plan, plan)) <= t
              /\ CountKeyed(plan) = CountKeyed(plan) + a - r
        BY DEF Counted
      <3>2. t = 0 /\ a = 0 /\ r = 0
        BY <2>3
      <3> HIDE DEF t, a, r
      <3>3. QED
        BY <2>2, <2>4, <3>1, <3>2
    <2> HIDE DEF done
    <2>6. QED
      BY <1>1, <2>5
  <1>4. ASSUME NEW n \in 1..N, n - 1 \in S, IsPlan(done[n - 1].plan),
               Effect(done[n - 1].plan, done[n].plan, patch[n])
        PROVE  n \in S
    <2>1. Counted(plan, patch, done[n - 1].plan, n - 1)
      BY <1>4
    <2> HIDE DEF done
    <2>2. Counted(plan, patch, done[n].plan, n)
      BY <1>1, <1>4, <2>1, CountedByOne
    <2>3. QED
      BY <1>1, <2>2
  <1> HIDE DEF S
  <1>5. N \in S
    BY <1>3, <1>4, ThroughThePatch
  <1>6. WithinBound(plan, patch) /\ new = done[N].plan
    BY PatchIs
  <1> HIDE DEF done, new
  <1>7. Counted(plan, patch, new, N)
    BY <1>5, <1>6 DEF S
  <1>8. T \cap 1..N = T /\ A \cap 1..N = A /\ R \cap 1..N = R
    BY <1>2
  <1> DEFINE t == Cardinality(T)
             total == CountKeyed(plan) + Cardinality(A) - Cardinality(R)
             fresh == Cardinality(Fresh(plan, new))
  <1>9. fresh <= t /\ CountKeyed(new) = total /\ fresh \in Nat
    BY <1>7, <1>8, FS_CardinalityType DEF Counted
  <1>10. t \in Nat
    <2> HIDE DEF T
    <2>1. N \in 0..N
      BY <1>1
    <2>2. Cardinality(T \cap 1..N) \in Nat
      BY <1>1, <1>2, <2>1, CountUpTo
    <2>3. QED
      BY <1>8, <2>2
  <1>11. t < 2 \/ 2 * t <= total
    BY <1>6 DEF WithinBound
  <1>12. CountKeyed(new) \in Nat
    <2>1. IsPlan(new)
      BY PatchIs DEF new
    <2>2. QED
      BY <2>1, CountIs
  <1>13. t >= 2 => 2 * fresh <= CountKeyed(new)
    <2> HIDE DEF t, total, fresh
    <2>1. QED
      BY <1>9, <1>10, <1>11, <1>12
  <1>14. QED
    BY <1>13 DEF new

-----------------------------------------------------------------------------
(* An orchestrator whose checks are not fatal *)

Executable(o) ==
  /\ \E t \in TasksOf(o) : t.touched # {} \/ t.tests # <<>> \/ t.test_plan # <<>>
  /\ \A t \in TasksOf(o) : \A e \in Entries(t.tests) :
       e.form = "selector" /\ \E u \in TasksOf(o) : e.path \in u.touched
  /\ \A t \in TasksOf(o) : Exempt(t) => t.tests = <<>>

LEMMA CountOfIs ==
  ASSUME NEW seq, Listed(seq), NEW x
  PROVE  CountOf(seq, x) \in Nat /\ (x \in Entries(seq) => CountOf(seq, x) > 0)
  <1> DEFINE at == {i \in DOMAIN seq : seq[i] = x}
  <1>1. Len(seq) \in Nat /\ at \subseteq 1..Len(seq)
    BY ListedIs DEF Listed
  <1>2. IsFiniteSet(1..Len(seq))
    BY <1>1, FS_Interval
  <1>3. IsFiniteSet(at)
    BY <1>1, <1>2, FS_Subset
  <1>4. Cardinality(at) \in Nat /\ (at # {} => Cardinality(at) # 0)
    BY <1>3, FS_CardinalityType, FS_EmptySet
  <1>5. x \in Entries(seq) => at # {}
    BY DEF Entries
  <1>6. CountOf(seq, x) = Cardinality(at)
    BY DEF CountOf
  <1> HIDE DEF at
  <1>7. QED
    BY <1>4, <1>5, <1>6

LEMMA NotFatalIs ==
  ASSUME NEW o, IsOrch(o), ~Fatal(o)
  PROVE  Executable(o)
  <1>1. ContractHolds(o) /\ HasSubstance(o)
    BY DEF Fatal, RunStrict
  <1>2. \E t \in TasksOf(o) : t.touched # {} \/ t.tests # <<>> \/ t.test_plan # <<>>
    BY <1>1 DEF HasSubstance
  <1>3. ASSUME NEW t \in TasksOf(o), NEW e \in Entries(t.tests)
        PROVE  e.form = "selector" /\ \E u \in TasksOf(o) : e.path \in u.touched
    <2>1. EntryKept(o, e)
      BY <1>1 DEF ContractHolds
    <2>2. e.path \in UNION {u.touched : u \in TasksOf(o)}
      BY <2>1 DEF EntryKept, AllTouched
    <2>3. QED
      BY <2>1, <2>2 DEF EntryKept
  <1>4. ASSUME NEW t \in TasksOf(o), Exempt(t) PROVE t.tests = <<>>
    <2>1. MarkersCohere(t) /\ Listed(t.test_plan)
      BY <1>1 DEF ContractHolds, IsOrch
    <2> DEFINE a == CountOf(t.test_plan, "marker")
               b == CountOf(t.test_plan, "empty_marker")
    <2>2. a \in Nat /\ b \in Nat /\ a > 0
      BY <1>4, <2>1, CountOfIs DEF Exempt
    <2>3. a + b > 0 => t.tests = <<>>
      BY <2>1 DEF MarkersCohere
    <2> HIDE DEF a, b
    <2>4. QED
      BY <2>2, <2>3
  <1>5. QED
    BY <1>2, <1>3, <1>4 DEF Executable

-----------------------------------------------------------------------------
(* The inductive invariant *)

Steps == {"asking", "judging", "reconciling", "prechecking", "capturing", "writing",
          "postchecking", "rendering", "syncing", "recording", "over"}

\* A run that has begun has all its locals, and is where its job can be.
Begun(r) ==
  /\ r = [pc |-> r.pc, job |-> r.job, prior |-> r.prior, existed |-> r.existed,
          patch |-> r.patch, payload |-> r.payload, life |-> r.life, seeds |-> r.seeds,
          pre |-> r.pre]
  /\ r.pc \in Steps
  /\ r.job \in {"plan", "replan", "amend", "implplan", "reimplplan"} \/ r.pc = "over"
  /\ r.pc \in {"judging", "reconciling", "syncing", "recording"} => r.job = "amend"
  /\ r.pc \in {"prechecking", "postchecking"} => r.job \in {"implplan", "reimplplan"}
  /\ r.pc = "rendering" => WritesPlan(r.job)
RunsInv == run = [p \in Runs |-> run[p]] /\ \A p \in Runs : run[p] = NoRun \/ Begun(run[p])

\* What is on the disk, and what a run has in hand that may get there.
IsPlanFile(plan) == plan = NoFile \/ IsPlan(plan)
Applied(r) == LET done == ApplyPatch(r.prior, r.patch)
              IN done.err = "none" /\ r.payload = done.plan
InHand(r) ==
  /\ r.job = "amend" /\ r.pc # "over" => r.prior # NoFile /\ IsPlan(r.prior) /\ r.existed
  /\ r.job = "amend" /\ r.pc \notin {"asking", "over"} => r.patch \in Patches
  /\ r.job = "amend" /\ r.pc \in {"reconciling", "capturing", "writing", "rendering",
                                  "syncing", "recording"} => Applied(r)
  /\ WritesPlan(r.job) /\ r.pc \in {"capturing", "writing"} => IsPlan(r.payload)
  /\ WritesPlan(r.job) /\ r.pc \in {"writing", "rendering"} => IsPlanFile(r.pre)
  /\ r.job \in {"implplan", "reimplplan"} /\ r.pc \in {"prechecking", "capturing", "writing"}
       => r.payload \in Emissions
  /\ r.job \in {"implplan", "reimplplan"} /\ r.pc \in {"capturing", "writing"} => ~Fatal(r.payload)
DiskInv ==
  /\ IsPlanFile(planJson)
  /\ orch # NoFile => orch \in Emissions /\ ~Fatal(orch)
  /\ Listed(audit) /\ base = [plan |-> base.plan, from |-> base.from] /\ base.from \in 0..Len(audit)
  /\ \A p \in Runs : Live(p) => InHand(run[p])

\* While nothing has made it unclean, one run at a time writes the plan.  The
\* rows lag behind the file from the write of an amend to its row, the page
\* from a write to the rendering.
Writer(p) == Live(p) /\ WritesPlan(run[p].job)
Pending(p) == run[p].job = "amend" /\ run[p].pc \in {"rendering", "syncing", "recording"}
OnRecord(plan) == recorded => plan = Replayed
TellsOf(p) ==
  /\ run[p].pc \in {"asking", "judging", "reconciling", "capturing", "writing"} => run[p].prior = planJson
  /\ run[p].job = "amend" /\ At(p, "writing") => run[p].pre = planJson
  /\ Pending(p) => planJson = run[p].payload /\ OnRecord(run[p].prior)
  /\ Pending(p) /\ At(p, "rendering") => OnRecord(run[p].pre) /\ page = run[p].pre
TellsInv ==
  clean =>
    /\ \A p, q \in Runs : Writer(p) /\ Writer(q) => p = q
    /\ (\A p \in Runs : ~Pending(p)) => OnRecord(planJson)
    /\ (\A p \in Runs : ~At(p, "rendering")) => page = planJson
    /\ \A p \in Runs : Writer(p) => TellsOf(p)

\* What an amend was allowed to edit does not run, but for what has moved.
Idle(p) ==
  \A op \in TaskOps(run[p].patch) :
    op.action # "add" /\ op.address \in IdsOf(orch) /\ op.address \notin moved[p]
      => ResolveStatus(state, op.address) \notin InFlight
Permitted(p) ==
  run[p].job = "amend" /\ run[p].pc \in {"capturing", "writing"} /\ run[p].life = "active"
IdleInv ==
  /\ moved = [p \in Runs |-> moved[p]]
  /\ orch # NoFile => \A p \in Runs : Permitted(p) => Idle(p)

PlannerIInv == PlannerTypeOK /\ RunsInv /\ DiskInv /\ TellsInv /\ IdleInv

-----------------------------------------------------------------------------
(* How a step of a run changes the runs *)

\* the run p with other values of its fields
Local(to, job, prior, existed, patch, payload, life, seeds, pre) ==
  [pc |-> to, job |-> job, prior |-> prior, existed |-> existed, patch |-> patch,
   payload |-> payload, life |-> life, seeds |-> seeds, pre |-> pre]
Becomes(p, r) ==
  /\ run' = [q \in Runs |-> run'[q]]
  /\ run'[p] = r
  /\ \A q \in Runs : q # p => run'[q] = run[q]
\* as it is, but for where it stands
Moved(r, to) ==
  Local(to, r.job, r.prior, r.existed, r.patch, r.payload, r.life, r.seeds, r.pre)

\* all the fields that a run has, and only those
Whole(r) == r = Moved(r, r.pc)

LEMMA LocalIs ==
  ASSUME NEW to, NEW job, NEW prior, NEW existed, NEW patch, NEW payload, NEW life, NEW seeds, NEW pre,
         NEW r, r = Local(to, job, prior, existed, patch, payload, life, seeds, pre), NEW x
  PROVE  Whole(r) /\ Moved(r, x) = Local(x, job, prior, existed, patch, payload, life, seeds, pre)
         /\ r.pc = to /\ r.job = job /\ r.prior = prior /\ r.existed = existed /\ r.patch = patch /\ r.payload = payload /\ r.life = life /\ r.seeds = seeds /\ r.pre = pre
  BY DEF Whole, Moved, Local

LEMMA Edits ==
  ASSUME NEW r, Whole(r), NEW x
  PROVE  /\ [r EXCEPT !.pc = x] = Local(x, r.job, r.prior, r.existed, r.patch, r.payload, r.life, r.seeds, r.pre)
         /\ [r EXCEPT !.job = x] = Local(r.pc, x, r.prior, r.existed, r.patch, r.payload, r.life, r.seeds, r.pre)
         /\ [r EXCEPT !.patch = x] = Local(r.pc, r.job, r.prior, r.existed, x, r.payload, r.life, r.seeds, r.pre)
         /\ [r EXCEPT !.payload = x] = Local(r.pc, r.job, r.prior, r.existed, r.patch, x, r.life, r.seeds, r.pre)
         /\ [r EXCEPT !.life = x] = Local(r.pc, r.job, r.prior, r.existed, r.patch, r.payload, x, r.seeds, r.pre)
         /\ [r EXCEPT !.seeds = x] = Local(r.pc, r.job, r.prior, r.existed, r.patch, r.payload, r.life, x, r.pre)
         /\ [r EXCEPT !.pre = x] = Local(r.pc, r.job, r.prior, r.existed, r.patch, r.payload, r.life, r.seeds, x)
  <1>1. r = [pc |-> r.pc, job |-> r.job, prior |-> r.prior, existed |-> r.existed, patch |-> r.patch, payload |-> r.payload, life |-> r.life, seeds |-> r.seeds, pre |-> r.pre]
    BY DEF Whole, Moved, Local
  <1>2. [r EXCEPT !.pc = x] = Local(x, r.job, r.prior, r.existed, r.patch, r.payload, r.life, r.seeds, r.pre)
    BY <1>1 DEF Local
  <1>3. [r EXCEPT !.job = x] = Local(r.pc, x, r.prior, r.existed, r.patch, r.payload, r.life, r.seeds, r.pre)
    BY <1>1 DEF Local
  <1>4. [r EXCEPT !.patch = x] = Local(r.pc, r.job, r.prior, r.existed, x, r.payload, r.life, r.seeds, r.pre)
    BY <1>1 DEF Local
  <1>5. [r EXCEPT !.payload = x] = Local(r.pc, r.job, r.prior, r.existed, r.patch, x, r.life, r.seeds, r.pre)
    BY <1>1 DEF Local
  <1>6. [r EXCEPT !.life = x] = Local(r.pc, r.job, r.prior, r.existed, r.patch, r.payload, x, r.seeds, r.pre)
    BY <1>1 DEF Local
  <1>7. [r EXCEPT !.seeds = x] = Local(r.pc, r.job, r.prior, r.existed, r.patch, r.payload, r.life, x, r.pre)
    BY <1>1 DEF Local
  <1>8. [r EXCEPT !.pre = x] = Local(r.pc, r.job, r.prior, r.existed, r.patch, r.payload, r.life, r.seeds, x)
    BY <1>1 DEF Local
  <1>9. QED
    BY <1>2, <1>3, <1>4, <1>5, <1>6, <1>7, <1>8

LEMMA BegunIs ==
  ASSUME RunsInv, NEW p \in Runs, ~At(p, "idle")
  PROVE  Begun(run[p]) /\ run[p] = Moved(run[p], run[p].pc)
  <1>1. Begun(run[p])
    BY DEF RunsInv, At, NoRun
  <1>2. QED
    BY <1>1 DEF Begun, Moved, Local

LEMMA BecomesIs ==
  ASSUME RunsInv, NEW p \in Runs, NEW r, run' = [run EXCEPT ![p] = r]
  PROVE  Becomes(p, r)
  BY DEF RunsInv, Becomes

LEMMA WithIs ==
  ASSUME RunsInv, NEW p \in Runs, NEW fields, Whole(fields), NEW to, With(p, fields, to)
  PROVE  Becomes(p, Moved(fields, to))
  <1>1. run' = [run EXCEPT ![p] = [fields EXCEPT !.pc = to]]
    BY DEF With
  <1>2. [fields EXCEPT !.pc = to] = Moved(fields, to)
    BY Edits DEF Moved
  <1>3. QED
    BY <1>1, <1>2, BecomesIs

LEMMA WithEdited ==
  ASSUME RunsInv, NEW p \in Runs, ~At(p, "idle"), NEW to, NEW x, NEW y
  PROVE  LET r == run[p]
         IN /\ With(p, [r EXCEPT !.patch = x], to) =>
                 Becomes(p, Local(to, r.job, r.prior, r.existed, x, r.payload, r.life, r.seeds, r.pre))
            /\ With(p, [r EXCEPT !.payload = x], to) =>
                 Becomes(p, Local(to, r.job, r.prior, r.existed, r.patch, x, r.life, r.seeds, r.pre))
            /\ With(p, [r EXCEPT !.payload = x, !.life = y], to) =>
                 Becomes(p, Local(to, r.job, r.prior, r.existed, r.patch, x, y, r.seeds, r.pre))
            /\ With(p, [r EXCEPT !.seeds = x], to) =>
                 Becomes(p, Local(to, r.job, r.prior, r.existed, r.patch, r.payload, r.life, x, r.pre))
            /\ With(p, [r EXCEPT !.pre = x], to) =>
                 Becomes(p, Local(to, r.job, r.prior, r.existed, r.patch, r.payload, r.life, r.seeds, x))
  <1> DEFINE r == run[p]
             patched == [r EXCEPT !.patch = x]
             loaded == [r EXCEPT !.payload = x]
             judged == [loaded EXCEPT !.life = y]
             seeded == [r EXCEPT !.seeds = x]
             captured == [r EXCEPT !.pre = x]
  <1>1. Whole(r)
    BY BegunIs DEF Whole
  <1> HIDE DEF r
  <1>2. /\ patched = Local(r.pc, r.job, r.prior, r.existed, x, r.payload, r.life, r.seeds, r.pre)
        /\ loaded = Local(r.pc, r.job, r.prior, r.existed, r.patch, x, r.life, r.seeds, r.pre)
        /\ seeded = Local(r.pc, r.job, r.prior, r.existed, r.patch, r.payload, r.life, x, r.pre)
        /\ captured = Local(r.pc, r.job, r.prior, r.existed, r.patch, r.payload, r.life, r.seeds, x)
    BY <1>1, Edits
  <1> HIDE DEF patched, loaded, seeded, captured
  <1>3. /\ Whole(patched)
        /\ Moved(patched, to) = Local(to, r.job, r.prior, r.existed, x, r.payload, r.life, r.seeds, r.pre)
    BY <1>2, LocalIs
  <1>4. /\ Whole(loaded)
        /\ Moved(loaded, to) = Local(to, r.job, r.prior, r.existed, r.patch, x, r.life, r.seeds, r.pre)
    BY <1>2, LocalIs
  <1>5. /\ Whole(seeded)
        /\ Moved(seeded, to) = Local(to, r.job, r.prior, r.existed, r.patch, r.payload, r.life, x, r.pre)
    BY <1>2, LocalIs
  <1>6. /\ Whole(captured)
        /\ Moved(captured, to) = Local(to, r.job, r.prior, r.existed, r.patch, r.payload, r.life, r.seeds, x)
    BY <1>2, LocalIs
  <1>7. judged = Local(r.pc, r.job, r.prior, r.existed, r.patch, x, y, r.seeds, r.pre)
    <2>1. judged = Local(loaded.pc, loaded.job, loaded.prior, loaded.existed, loaded.patch, loaded.payload, y,
                         loaded.seeds, loaded.pre)
      BY <1>4, Edits
    <2>2. /\ loaded.pc = r.pc /\ loaded.job = r.job /\ loaded.prior = r.prior /\ loaded.existed = r.existed
          /\ loaded.patch = r.patch /\ loaded.payload = x /\ loaded.seeds = r.seeds /\ loaded.pre = r.pre
      BY <1>2, LocalIs
    <2>3. QED
      BY <2>1, <2>2
  <1> HIDE DEF judged
  <1>8. /\ Whole(judged)
        /\ Moved(judged, to) = Local(to, r.job, r.prior, r.existed, r.patch, x, y, r.seeds, r.pre)
    BY <1>7, LocalIs
  <1>9. /\ With(p, patched, to) => Becomes(p, Moved(patched, to))
        /\ With(p, loaded, to) => Becomes(p, Moved(loaded, to))
        /\ With(p, judged, to) => Becomes(p, Moved(judged, to))
        /\ With(p, seeded, to) => Becomes(p, Moved(seeded, to))
        /\ With(p, captured, to) => Becomes(p, Moved(captured, to))
    BY <1>3, <1>4, <1>5, <1>6, <1>8, WithIs
  <1>10. QED
    BY <1>3, <1>4, <1>5, <1>6, <1>8, <1>9 DEF r, patched, loaded, judged, seeded, captured

LEMMA GotoIs ==
  ASSUME RunsInv, NEW p \in Runs, ~At(p, "idle"), NEW to, Goto(p, to)
  PROVE  Becomes(p, Moved(run[p], to))
  <1>1. run[p] = Moved(run[p], run[p].pc)
    BY BegunIs
  <1>2. [run[p] EXCEPT !.pc = to] = Moved(run[p], to)
    <2> DEFINE r == run[p]
    <2>1. r = [pc |-> r.pc, job |-> r.job, prior |-> r.prior, existed |-> r.existed, patch |-> r.patch,
               payload |-> r.payload, life |-> r.life, seeds |-> r.seeds, pre |-> r.pre]
      BY <1>1 DEF Moved, Local
    <2> HIDE DEF r
    <2>2. [r EXCEPT !.pc = to] = [pc |-> to, job |-> r.job, prior |-> r.prior, existed |-> r.existed,
                                  patch |-> r.patch, payload |-> r.payload, life |-> r.life,
                                  seeds |-> r.seeds, pre |-> r.pre]
      BY <2>1
    <2>3. QED
      BY <2>2 DEF r, Moved, Local
  <1>3. run' = [run EXCEPT ![p] = [run[p] EXCEPT !.pc = to]]
    BY DEF Goto, RunsInv
  <1>4. QED
    BY <1>2, <1>3, BecomesIs

LEMMA EndsIs ==
  ASSUME RunsInv, NEW p \in Runs, ~At(p, "idle"), NEW result, Ends(p, result)
  PROVE  /\ Becomes(p, Moved(run[p], "over"))
         /\ run[p].job # "amend" => UNCHANGED amendLog
         /\ run[p].job = "amend" => AuditRow(p, result)
  BY GotoIs DEF Ends

(* What each step does to its run.                                         *)
LEMMA GateIs ==
  ASSUME RunsInv, NEW p \in Runs, Gate(p)
  PROVE  \E job \in Jobs, to \in {"asking", "over"} :
           /\ Becomes(p, Local(to, IF to = "over" THEN "refused" ELSE job, planJson,
                               IF WritesPlan(job) THEN planJson # NoFile ELSE orch # NoFile,
                               <<>>, NoFile, "none", {}, NoFile))
           /\ to = "asking" => /\ GateOpens(job)
                               /\ clean' = (clean /\ ~(WritesPlan(job) /\ \E q \in Runs \ {p} :
                                                         Live(q) /\ WritesPlan(run[q].job)))
           /\ to = "over" => clean' = clean
  <1>1. PICK job \in Jobs :
          LET taken == Local("asking", job, planJson,
                             IF WritesPlan(job) THEN planJson # NoFile ELSE orch # NoFile,
                             <<>>, NoFile, "none", {}, NoFile)
              overlaps == WritesPlan(job) /\ \E q \in Runs \ {p} : Live(q) /\ WritesPlan(run[q].job)
          IN IF GateOpens(job)
             THEN With(p, taken, "asking") /\ clean' = (clean /\ ~overlaps)
             ELSE With(p, [taken EXCEPT !.job = "refused"], "over") /\ clean' = clean
    BY DEF Gate, Local
  <1> DEFINE taken == Local("asking", job, planJson,
                            IF WritesPlan(job) THEN planJson # NoFile ELSE orch # NoFile,
                            <<>>, NoFile, "none", {}, NoFile)
             denied == Local("over", "refused", planJson,
                            IF WritesPlan(job) THEN planJson # NoFile ELSE orch # NoFile,
                            <<>>, NoFile, "none", {}, NoFile)
             turned == [taken EXCEPT !.job = "refused"]
  <1>2. Whole(taken) /\ Moved(taken, "asking") = taken
    <2>1. \E k, e, o, u, l, m, n : taken = Local("asking", k, e, o, u, l, m, n, NoFile)
      OBVIOUS
    <2> HIDE DEF taken
    <2>2. QED
      BY <2>1, LocalIs
  <1>3. Whole(turned) /\ Moved(turned, "over") = denied
    <2> DEFINE had == IF WritesPlan(job) THEN planJson # NoFile ELSE orch # NoFile
    <2> HIDE DEF had
    <2>1. taken = Local("asking", job, planJson, had, <<>>, NoFile, "none", {}, NoFile)
      BY DEF had
    <2>2. denied = Local("over", "refused", planJson, had, <<>>, NoFile, "none", {}, NoFile)
      BY DEF had
    <2> HIDE DEF taken, denied
    <2>3. turned = Local(taken.pc, "refused", taken.prior, taken.existed, taken.patch, taken.payload,
                         taken.life, taken.seeds, taken.pre)
      BY <1>2, Edits
    <2>4. /\ taken.pc = "asking" /\ taken.prior = planJson /\ taken.existed = had /\ taken.patch = <<>>
          /\ taken.payload = NoFile /\ taken.life = "none" /\ taken.seeds = {} /\ taken.pre = NoFile
      BY <2>1, LocalIs
    <2> HIDE DEF turned
    <2>5. turned = Local("asking", "refused", planJson, had, <<>>, NoFile, "none", {}, NoFile)
      BY <2>3, <2>4
    <2>6. QED
      BY <2>2, <2>5, LocalIs
  <1> HIDE DEF taken, denied, turned
  <1>4. CASE GateOpens(job)
    <2>1. With(p, taken, "asking")
      BY <1>1, <1>4 DEF taken
    <2>2. Becomes(p, taken)
      BY <2>1, <1>2, WithIs
    <2>3. QED
      BY <1>1, <1>4, <2>2 DEF taken
  <1>5. CASE ~GateOpens(job)
    <2>1. With(p, turned, "over")
      BY <1>1, <1>5 DEF taken, turned
    <2>2. Becomes(p, denied)
      BY <2>1, <1>3, WithIs
    <2>3. QED
      BY <1>1, <1>5, <2>2 DEF denied
  <1>6. QED
    BY <1>4, <1>5

LEMMA AnswerIs ==
  ASSUME RunsInv, NEW p \in Runs, AgentAnswers(p)
  PROVE  LET r == run[p]
         IN \/ /\ r.job = "amend"
               /\ \E patch \in Patches :
                    Becomes(p, Local("judging", r.job, r.prior, r.existed, patch, r.payload,
                                     r.life, r.seeds, r.pre))
            \/ /\ r.job \in {"plan", "replan"}
               /\ Becomes(p, Local("capturing", r.job, r.prior, r.existed, r.patch, FirstPlan,
                                   r.life, r.seeds, r.pre))
            \/ /\ r.job \in {"implplan", "reimplplan"}
               /\ \E e \in Emissions :
                    Becomes(p, Local("prechecking", r.job, r.prior, r.existed, r.patch, e,
                                     r.life, r.seeds, r.pre))
  <1> DEFINE r == run[p]
  <1>1. ~At(p, "idle")
    BY DEF AgentAnswers, At
  <1>2. /\ r = Local(r.pc, r.job, r.prior, r.existed, r.patch, r.payload, r.life, r.seeds, r.pre)
        /\ r.job \in {"plan", "replan", "amend", "implplan", "reimplplan"}
    BY <1>1, BegunIs DEF Moved, Begun, AgentAnswers, At
  <1> HIDE DEF r
  <1>5. \/ r.job = "amend" /\ \E patch \in Patches : With(p, [r EXCEPT !.patch = patch], "judging")
        \/ r.job \in {"plan", "replan"} /\ With(p, [r EXCEPT !.payload = FirstPlan], "capturing")
        \/ /\ r.job \in {"implplan", "reimplplan"}
           /\ \E e \in Emissions : With(p, [r EXCEPT !.payload = e], "prechecking")
    BY <1>2 DEF AgentAnswers, r
  <1>6. QED
    BY <1>1, <1>5, WithEdited DEF r

LEMMA JudgeIs ==
  ASSUME RunsInv, NEW p \in Runs, Judge(p)
  PROVE  LET r == run[p]
             applied == ApplyPatch(r.prior, r.patch)
         IN \/ Ends(p, "closed_denied")
            \/ applied.err # "none" /\ Ends(p, applied.err)
            \/ /\ applied.err = "none" /\ UNCHANGED amendLog
               /\ \E life \in {"active", "draft"} :
                    Becomes(p, Local(IF life = "active" THEN "reconciling" ELSE "capturing",
                                     r.job, r.prior, r.existed, r.patch, applied.plan, life, r.seeds, r.pre))
  <1> DEFINE r == run[p]
             applied == ApplyPatch(r.prior, r.patch)
  <1>1. ~At(p, "idle")
    BY DEF Judge, At
  <1> HIDE DEF r, applied
  <1>4. \/ Ends(p, "closed_denied")
        \/ applied.err # "none" /\ Ends(p, applied.err)
        \/ /\ applied.err = "none" /\ UNCHANGED amendLog /\ Lifecycle # "closed"
           /\ With(p, [r EXCEPT !.payload = applied.plan, !.life = Lifecycle],
                   IF Lifecycle = "active" THEN "reconciling" ELSE "capturing")
    BY DEF Judge, r, applied
  <1>5. Lifecycle # "closed" => Lifecycle \in {"active", "draft"}
    BY DEF Lifecycle
  <1>6. QED
    BY <1>1, <1>4, <1>5, WithEdited DEF r, applied

LEMMA ReconcileIs ==
  ASSUME RunsInv, NEW p \in Runs, Reconcile(p)
  PROVE  LET r == run[p]
         IN \/ Ends(p, "reconcile_refused")
            \/ /\ UNCHANGED amendLog
               /\ \A op \in TaskOps(r.patch) : ~OpRefused(op, LiveStatusMap(orch, state))
               /\ \E seeds : Becomes(p, Local("capturing", r.job, r.prior, r.existed, r.patch, r.payload,
                                              r.life, seeds, r.pre))
  <1> DEFINE r == run[p]
  <1>1. ~At(p, "idle")
    BY DEF Reconcile, At
  <1> HIDE DEF r
  <1>4. \/ Ends(p, "reconcile_refused")
        \/ /\ UNCHANGED amendLog
           /\ \A op \in TaskOps(r.patch) : ~OpRefused(op, LiveStatusMap(orch, state))
           /\ \E seeds : With(p, [r EXCEPT !.seeds = seeds], "capturing")
    BY DEF Reconcile, r
  <1>5. QED
    BY <1>1, <1>4, WithEdited DEF r

LEMMA CaptureIs ==
  ASSUME RunsInv, NEW p \in Runs, Capture(p)
  PROVE  LET r == run[p]
         IN Becomes(p, Local("writing", r.job, r.prior, r.existed, r.patch, r.payload, r.life, r.seeds,
                             IF r.existed THEN TargetOf(p) ELSE NoFile))
  <1> DEFINE r == run[p]
  <1>1. ~At(p, "idle")
    BY DEF Capture, At
  <1> HIDE DEF r
  <1>4. With(p, [r EXCEPT !.pre = IF r.existed THEN TargetOf(p) ELSE NoFile], "writing")
    BY DEF Capture, r
  <1>5. QED
    BY <1>1, <1>4, WithEdited DEF r

(* Where the steps take a run *)
LEMMA BegunLocal ==
  ASSUME NEW to \in Steps, NEW job, NEW prior, NEW existed, NEW patch, NEW payload, NEW life, NEW seeds,
         NEW pre,
         job \in {"plan", "replan", "amend", "implplan", "reimplplan"} \/ to = "over",
         to \in {"judging", "reconciling", "syncing", "recording"} => job = "amend",
         to \in {"prechecking", "postchecking"} => job \in {"implplan", "reimplplan"},
         to = "rendering" => WritesPlan(job)
  PROVE  Begun(Local(to, job, prior, existed, patch, payload, life, seeds, pre))
  <1> DEFINE r == Local(to, job, prior, existed, patch, payload, life, seeds, pre)
  <1>1. Whole(r) /\ r.pc = to /\ r.job = job
    BY LocalIs
  <1> HIDE DEF r
  <1>2. QED
    BY <1>1 DEF Begun, Whole, Moved, Local, r

\* the steps that only move a run, and where to
GoesTo(p, to) ==
  \/ to = "over" /\ ~At(p, "idle")
  \/ to = "capturing" /\ At(p, "prechecking") /\ ~Fatal(run[p].payload)
  \/ to = "postchecking" /\ At(p, "writing") /\ OnOrch(p)
  \/ to = "rendering" /\ At(p, "writing") /\ ~OnOrch(p)
  \/ to = "syncing" /\ At(p, "rendering") /\ run[p].job = "amend"
  \/ to = "recording" /\ run[p].job = "amend" /\ (At(p, "rendering") \/ At(p, "syncing"))

LEMMA MovedIsBegun ==
  ASSUME RunsInv, NEW p \in Runs, NEW to, GoesTo(p, to)
  PROVE  Begun(Moved(run[p], to))
  <1>1. ~At(p, "idle")
    BY DEF GoesTo, At
  <1>2. Begun(run[p])
    BY <1>1, BegunIs
  <1>3. /\ to \in Steps
        /\ to \in {"judging", "reconciling", "syncing", "recording"} => run[p].job = "amend"
        /\ to \in {"prechecking", "postchecking"} => run[p].job \in {"implplan", "reimplplan"}
        /\ run[p].job \in {"plan", "replan", "amend", "implplan", "reimplplan"} \/ to = "over"
        /\ to = "rendering" => WritesPlan(run[p].job)
    BY <1>2 DEF GoesTo, At, Begun, Steps, OnOrch, WritesPlan
  <1>4. QED
    BY <1>3, BegunLocal DEF Moved

\* a step that changes no more of its run than where it stands
Goes(p) == \E to : GoesTo(p, to) /\ Goto(p, to)

LEMMA StepsThatGo ==
  ASSUME RunsInv, NEW p \in Runs,
         \/ AgentExhausted(p) \/ AgentBreaks(p) \/ PreCheck(p) \/ WriteOutput(p) \/ OutputFails(p)
         \/ PostCheck(p) \/ Render(p) \/ RenderFails(p) \/ SyncToOrchestrator(p) \/ SyncFails(p)
         \/ Record(p) \/ Crash(p)
  PROVE  Goes(p)
  <1>1. ~At(p, "idle") /\ Begun(run[p])
    <2>1. ~At(p, "idle")
      BY DEF AgentExhausted, AgentBreaks, PreCheck, WriteOutput, OutputFails, PostCheck, Render,
             RenderFails, SyncToOrchestrator, SyncFails, Record, Crash, At, Live
    <2>2. QED
      BY <2>1, BegunIs
  <1>2. CASE AgentExhausted(p)
    BY <1>1, <1>2 DEF AgentExhausted, Ends, Goes, GoesTo
  <1>3. CASE AgentBreaks(p)
    BY <1>1, <1>3 DEF AgentBreaks, Goes, GoesTo
  <1>4. CASE PreCheck(p)
    BY <1>1, <1>4 DEF PreCheck, Goes, GoesTo
  <1>5. CASE WriteOutput(p)
    BY <1>1, <1>5 DEF WriteOutput, Goes, GoesTo
  <1>6. CASE OutputFails(p)
    BY <1>1, <1>6 DEF OutputFails, Goes, GoesTo
  <1>7. CASE PostCheck(p)
    BY <1>1, <1>7 DEF PostCheck, Goes, GoesTo
  <1>8. CASE Render(p)
    <2>1. \E to : GoesTo(p, to) /\ Goto(p, to)
      <3>1. At(p, "rendering") /\ ~At(p, "idle")
        BY <1>1, <1>8 DEF Render
      <3>2. CASE run[p].job # "amend"
        <4>1. Goto(p, "over")
          BY <1>8, <3>2 DEF Render
        <4>2. QED
          BY <3>1, <4>1 DEF GoesTo
      <3>3. CASE run[p].job = "amend" /\ run[p].life = "active"
        <4>1. Goto(p, "syncing")
          BY <1>8, <3>3 DEF Render
        <4>2. QED
          BY <3>1, <3>3, <4>1 DEF GoesTo
      <3>4. CASE run[p].job = "amend" /\ run[p].life # "active"
        <4>1. Goto(p, "recording")
          BY <1>8, <3>4 DEF Render
        <4>2. QED
          BY <3>1, <3>4, <4>1 DEF GoesTo
      <3>5. QED
        BY <3>2, <3>3, <3>4
    <2>2. QED
      BY <2>1 DEF Goes
  <1>9. CASE RenderFails(p)
    BY <1>1, <1>9 DEF RenderFails, Ends, Goes, GoesTo
  <1>10. CASE SyncToOrchestrator(p)
    BY <1>1, <1>10 DEF SyncToOrchestrator, Goes, GoesTo, Begun, At
  <1>11. CASE SyncFails(p)
    BY <1>1, <1>11 DEF SyncFails, Ends, Goes, GoesTo
  <1>12. CASE Record(p)
    BY <1>1, <1>12 DEF Record, Ends, Goes, GoesTo
  <1>13. CASE Crash(p)
    BY <1>1, <1>13 DEF Crash, Goes, GoesTo
  <1>14. QED
    BY <1>2, <1>3, <1>4, <1>5, <1>6, <1>7, <1>8, <1>9, <1>10, <1>11, <1>12, <1>13

LEMMA GoesIs ==
  ASSUME RunsInv, NEW p \in Runs, NEW to, GoesTo(p, to), Goto(p, to)
  PROVE  Becomes(p, Moved(run[p], to)) /\ Begun(Moved(run[p], to)) /\ Begun(run[p])
  <1>1. ~At(p, "idle")
    BY DEF GoesTo, At
  <1>2. QED
    BY <1>1, GotoIs, MovedIsBegun, BegunIs

LEMMA EndingIs ==
  ASSUME RunsInv, NEW p \in Runs, ~At(p, "idle")
  PROVE  Begun(Moved(run[p], "over"))
  BY MovedIsBegun DEF GoesTo

LEMMA RunStepBegins ==
  ASSUME RunsInv, NEW p \in Runs, RunStep(p)
  PROVE  \E r : Becomes(p, r) /\ Begun(r)
  <1>1. CASE Gate(p)
    <2>1. Jobs \subseteq {"plan", "replan", "amend", "implplan", "reimplplan"}
      BY PlannerAssumption DEF PlannerAssumption
    <2>2. PICK job \in Jobs, to \in {"asking", "over"} :
            Becomes(p, Local(to, IF to = "over" THEN "refused" ELSE job, planJson,
                             IF WritesPlan(job) THEN planJson # NoFile ELSE orch # NoFile,
                             <<>>, NoFile, "none", {}, NoFile))
      BY <1>1, GateIs
    <2>3. Begun(Local(to, IF to = "over" THEN "refused" ELSE job, planJson,
                      IF WritesPlan(job) THEN planJson # NoFile ELSE orch # NoFile,
                      <<>>, NoFile, "none", {}, NoFile))
      <3>1. /\ to \in Steps /\ to \notin {"judging", "reconciling", "syncing", "recording", "prechecking",
                                          "postchecking", "rendering"}
            /\ (IF to = "over" THEN "refused" ELSE job) \in {"plan", "replan", "amend", "implplan", "reimplplan"}
                 \/ to = "over"
        BY <2>1 DEF Steps
      <3>2. QED
        BY <3>1, BegunLocal
    <2>4. QED
      BY <2>2, <2>3
  <1>2. CASE AgentAnswers(p)
    <2> DEFINE r == run[p]
    <2>1. CASE r.job = "amend"
      <3>1. PICK patch : Becomes(p, Local("judging", r.job, r.prior, r.existed, patch, r.payload,
                                          r.life, r.seeds, r.pre))
        BY <1>2, <2>1, AnswerIs
      <3>2. QED
        BY <2>1, <3>1, BegunLocal DEF Steps
    <2>2. CASE r.job \in {"plan", "replan"}
      <3>1. Becomes(p, Local("capturing", r.job, r.prior, r.existed, r.patch, FirstPlan,
                             r.life, r.seeds, r.pre))
        BY <1>2, <2>2, AnswerIs
      <3>2. QED
        BY <2>2, <3>1, BegunLocal DEF Steps
    <2>3. CASE r.job \in {"implplan", "reimplplan"}
      <3>1. PICK e : Becomes(p, Local("prechecking", r.job, r.prior, r.existed, r.patch, e,
                                      r.life, r.seeds, r.pre))
        BY <1>2, <2>3, AnswerIs
      <3>2. QED
        BY <2>3, <3>1, BegunLocal DEF Steps
    <2>4. QED
      BY <1>2, <2>1, <2>2, <2>3, AnswerIs
  <1>3. CASE Judge(p)
    <2> DEFINE r == run[p]
               applied == ApplyPatch(r.prior, r.patch)
    <2>1. ~At(p, "idle") /\ At(p, "judging")
      BY <1>3 DEF Judge, At
    <2>2. CASE \E result : Ends(p, result)
      BY <2>1, <2>2, EndsIs, EndingIs
    <2>3. CASE \E life \in {"active", "draft"} :
                 Becomes(p, Local(IF life = "active" THEN "reconciling" ELSE "capturing",
                                  r.job, r.prior, r.existed, r.patch, applied.plan, life, r.seeds, r.pre))
      <3>1. PICK life \in {"active", "draft"} :
                 Becomes(p, Local(IF life = "active" THEN "reconciling" ELSE "capturing",
                                  r.job, r.prior, r.existed, r.patch, applied.plan, life, r.seeds, r.pre))
        BY <2>3
      <3>2. r.job = "amend"
        BY <2>1, BegunIs DEF Begun, At
      <3> DEFINE to == IF life = "active" THEN "reconciling" ELSE "capturing"
      <3>3. to \in {"reconciling", "capturing"}
        OBVIOUS
      <3> HIDE DEF to, applied
      <3>4. Begun(Local(to, r.job, r.prior, r.existed, r.patch, applied.plan, life, r.seeds, r.pre))
        BY <3>2, <3>3, BegunLocal DEF Steps
      <3>5. QED
        BY <3>1, <3>4 DEF to
    <2>4. QED
      BY <1>3, <2>2, <2>3, JudgeIs
  <1>4. CASE Reconcile(p)
    <2> DEFINE r == run[p]
    <2>1. ~At(p, "idle") /\ At(p, "reconciling")
      BY <1>4 DEF Reconcile, At
    <2>2. r.job = "amend"
      BY <2>1, BegunIs DEF Begun, At
    <2>3. CASE Ends(p, "reconcile_refused")
      BY <2>1, <2>3, EndsIs, EndingIs
    <2>4. CASE \E seeds : Becomes(p, Local("capturing", r.job, r.prior, r.existed, r.patch, r.payload,
                                           r.life, seeds, r.pre))
      BY <2>2, <2>4, BegunLocal DEF Steps
    <2>5. QED
      BY <1>4, <2>3, <2>4, ReconcileIs
  <1>5. CASE Capture(p)
    <2> DEFINE r == run[p]
    <2>1. ~At(p, "idle") /\ At(p, "capturing")
      BY <1>5 DEF Capture, At
    <2>2. r.job \in {"plan", "replan", "amend", "implplan", "reimplplan"}
      BY <2>1, BegunIs DEF Begun, At
    <2>3. Becomes(p, Local("writing", r.job, r.prior, r.existed, r.patch, r.payload, r.life, r.seeds,
                           IF r.existed THEN TargetOf(p) ELSE NoFile))
      BY <1>5, CaptureIs
    <2>4. QED
      BY <2>2, <2>3, BegunLocal DEF Steps
  <1>6. CASE Goes(p)
    BY <1>6, GoesIs DEF Goes
  <1>7. QED
    BY <1>1, <1>2, <1>3, <1>4, <1>5, <1>6, StepsThatGo DEF RunStep

LEMMA RunsKept ==
  ASSUME RunsInv, NEW p \in Runs, NEW r, Becomes(p, r), Begun(r)
  PROVE  RunsInv'
  <1>1. \A q \in Runs : run'[q] = run[q] \/ Begun(run'[q])
    BY DEF Becomes
  <1>2. QED
    BY <1>1 DEF Becomes, RunsInv

-----------------------------------------------------------------------------
(* What is on the disk and in hand *)

LEMMA AtIs ==
  ASSUME RunsInv, NEW p \in Runs, NEW to, to # "idle", to # "over", At(p, to)
  PROVE  ~At(p, "idle") /\ Live(p) /\ Begun(run[p]) /\ run[p].pc = to
  <1>1. ~At(p, "idle") /\ Live(p) /\ run[p].pc = to
    BY DEF At, Live
  <1>2. QED
    BY <1>1, BegunIs

LEMMA InHandLocal ==
  ASSUME NEW to, NEW job, NEW prior, NEW existed, NEW patch, NEW payload, NEW life, NEW seeds, NEW pre,
         job = "amend" /\ to # "over" => prior # NoFile /\ IsPlan(prior) /\ existed,
         job = "amend" /\ to \notin {"asking", "over"} => patch \in Patches,
         job = "amend" /\ to \in {"reconciling", "capturing", "writing", "rendering", "syncing", "recording"}
           => ApplyPatch(prior, patch).err = "none" /\ payload = ApplyPatch(prior, patch).plan,
         WritesPlan(job) /\ to \in {"capturing", "writing"} => IsPlan(payload),
         WritesPlan(job) /\ to \in {"writing", "rendering"} => IsPlanFile(pre),
         job \in {"implplan", "reimplplan"} /\ to \in {"prechecking", "capturing", "writing"}
           => payload \in Emissions,
         job \in {"implplan", "reimplplan"} /\ to \in {"capturing", "writing"} => ~Fatal(payload)
  PROVE  InHand(Local(to, job, prior, existed, patch, payload, life, seeds, pre))
  <1> DEFINE r == Local(to, job, prior, existed, patch, payload, life, seeds, pre)
  <1>1. /\ r.pc = to /\ r.job = job /\ r.prior = prior /\ r.existed = existed /\ r.patch = patch
        /\ r.payload = payload /\ r.pre = pre
    BY LocalIs
  <1> HIDE DEF r
  <1>2. InHand(r)
    BY <1>1 DEF InHand, Applied
  <1>3. QED
    BY <1>2 DEF r

LEMMA InHandOf ==
  ASSUME DiskInv, NEW p \in Runs, Live(p)
  PROVE  InHand(run[p])
  BY DEF DiskInv

LEMMA InHandKept ==
  ASSUME RunsInv, DiskInv, NEW p \in Runs, RunStep(p), run'[p].pc # "over"
  PROVE  InHand(run'[p])
  <1> DEFINE r == run[p]
  <1>1. CASE Gate(p)
    <2>1. PICK job \in Jobs, to \in {"asking", "over"} :
           /\ run'[p] = Local(to, IF to = "over" THEN "refused" ELSE job, planJson,
                               IF WritesPlan(job) THEN planJson # NoFile ELSE orch # NoFile,
                               <<>>, NoFile, "none", {}, NoFile)
           /\ to = "asking" => GateOpens(job)
      BY <1>1, GateIs DEF Becomes
    <2>2. run'[p].pc = to
      BY <2>1, LocalIs
    <2>3. to = "asking" /\ GateOpens(job)
      BY <2>1, <2>2
    <2> DEFINE had == IF WritesPlan(job) THEN planJson # NoFile ELSE orch # NoFile
    <2>4. job = "amend" => planJson # NoFile /\ IsPlan(planJson) /\ had
      BY <2>3 DEF GateOpens, DiskInv, IsPlanFile, WritesPlan
    <2> HIDE DEF had
    <2>5. run'[p] = Local("asking", job, planJson, had, <<>>, NoFile, "none", {}, NoFile)
      BY <2>1, <2>3 DEF had
    <2>6. InHand(Local("asking", job, planJson, had, <<>>, NoFile, "none", {}, NoFile))
      BY <2>4, InHandLocal
    <2>7. QED
      BY <2>5, <2>6
  <1>2. CASE AgentAnswers(p)
    <2>1. Live(p) /\ r.pc = "asking"
      BY <1>2 DEF AgentAnswers, At, Live
    <2>2. InHand(r)
      BY <2>1, InHandOf
    <2>3. CASE r.job = "amend"
      <3>1. PICK patch \in Patches : run'[p] = Local("judging", r.job, r.prior, r.existed, patch, r.payload,
                                          r.life, r.seeds, r.pre)
        BY <1>2, <2>3, AnswerIs DEF Becomes
      <3>2. r.prior # NoFile /\ IsPlan(r.prior) /\ r.existed
        BY <2>1, <2>2, <2>3 DEF InHand
      <3> HIDE DEF r
      <3>3. InHand(Local("judging", r.job, r.prior, r.existed, patch, r.payload, r.life, r.seeds, r.pre))
        BY <2>3, <3>2, InHandLocal
      <3>4. QED
        BY <3>1, <3>3 DEF r
    <2>4. CASE r.job \in {"plan", "replan"}
      <3>1. run'[p] = Local("capturing", r.job, r.prior, r.existed, r.patch, FirstPlan, r.life, r.seeds, r.pre)
        BY <1>2, <2>4, AnswerIs DEF Becomes
      <3>2. IsPlan(FirstPlan)
        BY PlannerAssumption DEF PlannerAssumption
      <3> HIDE DEF r
      <3>3. InHand(Local("capturing", r.job, r.prior, r.existed, r.patch, FirstPlan, r.life, r.seeds, r.pre))
        BY <2>4, <3>2, InHandLocal
      <3>4. QED
        BY <3>1, <3>3 DEF r
    <2>5. CASE r.job \in {"implplan", "reimplplan"}
      <3>1. PICK e \in Emissions : run'[p] = Local("prechecking", r.job, r.prior, r.existed, r.patch, e,
                                      r.life, r.seeds, r.pre)
        BY <1>2, <2>5, AnswerIs DEF Becomes
      <3> HIDE DEF r
      <3>2. InHand(Local("prechecking", r.job, r.prior, r.existed, r.patch, e, r.life, r.seeds, r.pre))
        BY <2>5, InHandLocal DEF WritesPlan
      <3>3. QED
        BY <3>1, <3>2 DEF r
    <2>6. QED
      BY <1>2, <2>3, <2>4, <2>5, AnswerIs
  <1>3. CASE Judge(p)
    <2> DEFINE applied == ApplyPatch(r.prior, r.patch)
    <2>1. At(p, "judging") /\ Live(p) /\ r.pc = "judging" /\ ~At(p, "idle")
      BY <1>3 DEF Judge, At, Live
    <2>2. InHand(r) /\ r.job = "amend"
      BY <2>1, InHandOf, BegunIs DEF Begun
    <2>3. CASE \E result : Ends(p, result)
      <3>1. run'[p] = Moved(r, "over")
        BY <2>1, <2>3, EndsIs DEF Becomes
      <3>2. run'[p].pc = "over"
        BY <3>1, LocalIs DEF Moved
      <3>3. QED
        BY <3>2
    <2>4. CASE /\ applied.err = "none"
               /\ \E life \in {"active", "draft"} :
                    Becomes(p, Local(IF life = "active" THEN "reconciling" ELSE "capturing",
                                  r.job, r.prior, r.existed, r.patch, applied.plan, life, r.seeds, r.pre))
      <3>1. PICK life \in {"active", "draft"} :
                 run'[p] = Local(IF life = "active" THEN "reconciling" ELSE "capturing",
                                  r.job, r.prior, r.existed, r.patch, applied.plan, life, r.seeds, r.pre)
        BY <2>4 DEF Becomes
      <3> DEFINE to == IF life = "active" THEN "reconciling" ELSE "capturing"
      <3>2. to \in {"reconciling", "capturing"}
        OBVIOUS
      <3>3. r.prior # NoFile /\ IsPlan(r.prior) /\ r.existed /\ r.patch \in Patches
        BY <2>1, <2>2 DEF InHand
      <3>4. IsPatch(r.patch)
        BY <3>3, PlannerAssumption DEF PlannerAssumption
      <3>5. IsPlan(applied.plan)
        BY <2>4, <3>3, <3>4, PatchIs
      <3> DEFINE made == ApplyPatch(r.prior, r.patch).plan
      <3> HIDE DEF to, r
      <3>6. InHand(Local(to, r.job, r.prior, r.existed, r.patch, made, life, r.seeds, r.pre))
        BY <2>2, <2>4, <3>2, <3>3, <3>5, InHandLocal
      <3>7. QED
        BY <3>1, <3>6 DEF r, to
    <2>5. QED
      BY <1>3, <2>3, <2>4, JudgeIs
  <1>4. CASE Reconcile(p)
    <2>1. At(p, "reconciling") /\ Live(p) /\ r.pc = "reconciling" /\ ~At(p, "idle")
      BY <1>4 DEF Reconcile, At, Live
    <2>2. InHand(r) /\ r.job = "amend"
      BY <2>1, InHandOf, BegunIs DEF Begun
    <2>3. CASE \E result : Ends(p, result)
      <3>1. run'[p] = Moved(r, "over")
        BY <2>1, <2>3, EndsIs DEF Becomes
      <3>2. run'[p].pc = "over"
        BY <3>1, LocalIs DEF Moved
      <3>3. QED
        BY <3>2
    <2>4. CASE \E seeds : Becomes(p, Local("capturing", r.job, r.prior, r.existed, r.patch, r.payload,
                                              r.life, seeds, r.pre))
      <3>1. PICK seeds : run'[p] = Local("capturing", r.job, r.prior, r.existed, r.patch, r.payload,
                                         r.life, seeds, r.pre)
        BY <2>4 DEF Becomes
      <3>2. /\ r.prior # NoFile /\ IsPlan(r.prior) /\ r.existed /\ r.patch \in Patches
            /\ ApplyPatch(r.prior, r.patch).err = "none" /\ r.payload = ApplyPatch(r.prior, r.patch).plan
        BY <2>1, <2>2 DEF InHand, Applied
      <3>3. IsPatch(r.patch)
        BY <3>2, PlannerAssumption DEF PlannerAssumption
      <3>4. IsPlan(r.payload)
        BY <3>2, <3>3, PatchIs
      <3> HIDE DEF r
      <3>5. InHand(Local("capturing", r.job, r.prior, r.existed, r.patch, r.payload, r.life, seeds, r.pre))
        BY <2>2, <3>2, <3>4, InHandLocal
      <3>6. QED
        BY <3>1, <3>5 DEF r
    <2>5. QED
      BY <1>4, <2>3, <2>4, ReconcileIs
  <1>5. CASE Capture(p)
    <2> DEFINE pre == IF r.existed THEN TargetOf(p) ELSE NoFile
    <2>1. Live(p) /\ r.pc = "capturing"
      BY <1>5 DEF Capture, At, Live
    <2>2. InHand(r)
      BY <2>1, InHandOf
    <2>3. run'[p] = Local("writing", r.job, r.prior, r.existed, r.patch, r.payload, r.life, r.seeds, pre)
      BY <1>5, CaptureIs DEF Becomes
    <2>4. WritesPlan(r.job) => IsPlanFile(pre)
      BY DEF DiskInv, TargetOf, OnOrch, WritesPlan, IsPlanFile
    <2>5. /\ r.job = "amend" => /\ r.prior # NoFile /\ IsPlan(r.prior) /\ r.existed /\ r.patch \in Patches
                                /\ ApplyPatch(r.prior, r.patch).err = "none"
                                /\ r.payload = ApplyPatch(r.prior, r.patch).plan
          /\ WritesPlan(r.job) => IsPlan(r.payload)
          /\ r.job \in {"implplan", "reimplplan"} => r.payload \in Emissions /\ ~Fatal(r.payload)
      BY <2>1, <2>2 DEF InHand, Applied
    <2> HIDE DEF r, pre
    <2>6. InHand(Local("writing", r.job, r.prior, r.existed, r.patch, r.payload, r.life, r.seeds, pre))
      BY <2>4, <2>5, InHandLocal
    <2>7. QED
      BY <2>3, <2>6 DEF r
  <1>6. CASE Goes(p)
    <2>1. PICK to : GoesTo(p, to) /\ Goto(p, to)
      BY <1>6 DEF Goes
    <2>2. run'[p] = Moved(r, to)
      BY <2>1, GoesIs DEF Becomes
    <2>3. run'[p].pc = to
      BY <2>2, LocalIs DEF Moved
    <2>4. /\ to \in {"capturing", "postchecking", "rendering", "syncing", "recording"}
          /\ Live(p)
          /\ to = "capturing" => r.pc = "prechecking" /\ ~Fatal(r.payload)
          /\ to = "postchecking" => r.job \in {"implplan", "reimplplan"}
          /\ to = "rendering" => r.pc = "writing" /\ r.job \notin {"implplan", "reimplplan"}
          /\ to \in {"syncing", "recording"} => r.job = "amend" /\ r.pc \in {"rendering", "syncing"}
      BY <2>1, <2>3 DEF GoesTo, At, Live, OnOrch
    <2>5. InHand(r)
      BY <2>4, InHandOf
    <2>6. to = "capturing" => r.job \in {"implplan", "reimplplan"} /\ r.payload \in Emissions
      BY <2>1, <2>4, <2>5, GoesIs DEF Begun, InHand
    <2>7. /\ r.job = "amend" => /\ r.prior # NoFile /\ IsPlan(r.prior) /\ r.existed /\ r.patch \in Patches
                                /\ ApplyPatch(r.prior, r.patch).err = "none"
                                /\ r.payload = ApplyPatch(r.prior, r.patch).plan
          /\ WritesPlan(r.job) /\ to = "rendering" => IsPlanFile(r.pre)
      BY <2>4, <2>5, <2>6 DEF InHand, Applied
    <2> HIDE DEF r
    <2>8. InHand(Local(to, r.job, r.prior, r.existed, r.patch, r.payload, r.life, r.seeds, r.pre))
      BY <2>4, <2>6, <2>7, InHandLocal DEF WritesPlan
    <2>9. QED
      BY <2>2, <2>8 DEF r, Moved
  <1>7. QED
    BY <1>1, <1>2, <1>3, <1>4, <1>5, <1>6, StepsThatGo DEF RunStep

\* what a step may do to the rows, and to the last whole plan
RowsGrow ==
  \/ audit' = audit /\ (base' = base \/ \E plan : base' = [plan |-> plan, from |-> Len(audit)])
  \/ base' = base /\ \E row : audit' = Append(audit, row)

LEMMA EndsGrow ==
  ASSUME NEW p, NEW result, Ends(p, result), base' = base
  PROVE  RowsGrow
  BY DEF Ends, AuditRow, RowsGrow, amendLog

LEMMA RowsStayRows ==
  ASSUME DiskInv, RowsGrow
  PROVE  Listed(audit') /\ base' = [plan |-> base'.plan, from |-> base'.from] /\ base'.from \in 0..Len(audit')
  <1>1. /\ Listed(audit) /\ Len(audit) \in Nat /\ base = [plan |-> base.plan, from |-> base.from]
        /\ base.from \in 0..Len(audit)
    BY DEF DiskInv, Listed
  <1>2. CASE audit' = audit /\ base' = base
    BY <1>1, <1>2
  <1>3. CASE audit' = audit /\ \E plan : base' = [plan |-> plan, from |-> Len(audit)]
    <2>1. PICK plan : base' = [plan |-> plan, from |-> Len(audit)]
      BY <1>3
    <2>2. base'.plan = plan /\ base'.from = Len(audit)
      BY <2>1
    <2>3. QED
      BY <1>1, <1>3, <2>1, <2>2
  <1>4. CASE base' = base /\ \E row : audit' = Append(audit, row)
    <2>1. PICK row : audit' = Append(audit, row)
      BY <1>4
    <2>2. Listed(audit') /\ Len(audit') = Len(audit) + 1
      BY <1>1, <2>1, AppendedTo
    <2>3. QED
      BY <1>1, <1>4, <2>2
  <1>5. QED
    BY <1>2, <1>3, <1>4 DEF RowsGrow

LEMMA FilesKept ==
  ASSUME RunsInv, DiskInv, NEW p \in Runs, RunStep(p)
  PROVE  /\ IsPlanFile(planJson')
         /\ orch' # NoFile => orch' \in Emissions /\ ~Fatal(orch')
         /\ RowsGrow
  <1>1. IsPlanFile(planJson) /\ (orch # NoFile => orch \in Emissions /\ ~Fatal(orch))
    BY DEF DiskInv
  <1>2. CASE Gate(p)
    BY <1>1, <1>2 DEF Gate, planFiles, amendLog, RowsGrow
  <1>3. CASE AgentAnswers(p)
    BY <1>1, <1>3 DEF AgentAnswers, planFiles, amendLog, ghosts, RowsGrow
  <1>4. CASE AgentExhausted(p)
    BY <1>1, <1>4, EndsGrow DEF AgentExhausted, ghosts
  <1>5. CASE AgentBreaks(p)
    BY <1>1, <1>5 DEF AgentBreaks, planFiles, amendLog, ghosts, RowsGrow
  <1>6. CASE Judge(p)
    <2>1. planJson' = planJson /\ orch' = orch /\ base' = base
      BY <1>6 DEF Judge
    <2>2. audit' = audit \/ \E result : Ends(p, result)
      BY <1>6, JudgeIs DEF amendLog
    <2>3. QED
      BY <1>1, <2>1, <2>2, EndsGrow DEF RowsGrow
  <1>7. CASE Reconcile(p)
    <2>1. planJson' = planJson /\ orch' = orch /\ base' = base
      BY <1>7 DEF Reconcile, ghosts
    <2>2. audit' = audit \/ \E result : Ends(p, result)
      BY <1>7, ReconcileIs DEF amendLog
    <2>3. QED
      BY <1>1, <2>1, <2>2, EndsGrow DEF RowsGrow
  <1>8. CASE PreCheck(p)
    BY <1>1, <1>8 DEF PreCheck, planFiles, amendLog, ghosts, RowsGrow
  <1>9. CASE Capture(p)
    BY <1>1, <1>9 DEF Capture, planFiles, amendLog, ghosts, RowsGrow
  <1>10. CASE WriteOutput(p)
    <2>1. /\ At(p, "writing") /\ Live(p) /\ InHand(run[p]) /\ Begun(run[p])
      BY <1>10, AtIs, InHandOf DEF WriteOutput
    <2>2. CASE OnOrch(p)
      <3>1. planJson' = planJson /\ orch' = run[p].payload
        BY <1>10, <2>2 DEF WriteOutput, Replaces
      <3>2. run[p].payload \in Emissions /\ ~Fatal(run[p].payload)
        BY <2>1, <2>2 DEF InHand, OnOrch, At
      <3>3. RowsGrow
        BY <1>10, <2>2 DEF WriteOutput, OnOrch, RowsGrow
      <3>4. QED
        BY <1>1, <3>1, <3>2, <3>3
    <2>3. CASE ~OnOrch(p)
      <3>1. planJson' = run[p].payload /\ orch' = orch
        BY <1>10, <2>3 DEF WriteOutput
      <3>2. IsPlan(run[p].payload)
        BY <2>1, <2>3 DEF InHand, OnOrch, At, Begun, WritesPlan
      <3>3. RowsGrow
        BY <1>10 DEF WriteOutput, RowsGrow
      <3>4. QED
        BY <1>1, <3>1, <3>2, <3>3 DEF IsPlanFile
    <2>4. QED
      BY <2>2, <2>3
  <1>11. CASE OutputFails(p)
    BY <1>1, <1>11 DEF OutputFails, planFiles, amendLog, ghosts, RowsGrow
  <1>12. CASE PostCheck(p)
    BY <1>1, <1>12 DEF PostCheck, amendLog, RowsGrow
  <1>13. CASE Render(p)
    BY <1>1, <1>13 DEF Render, amendLog, ghosts, RowsGrow
  <1>14. CASE RenderFails(p)
    <2>1. /\ At(p, "rendering") /\ Live(p) /\ InHand(run[p]) /\ Begun(run[p]) /\ run[p].pc = "rendering"
      BY <1>14, AtIs, InHandOf DEF RenderFails
    <2>2. IsPlanFile(run[p].pre)
      BY <2>1 DEF InHand, Begun
    <2>3. base' = base /\ orch' = orch /\ (planJson' = planJson \/ planJson' = run[p].pre)
      BY <1>14 DEF RenderFails, ghosts, Dirty
    <2>4. RowsGrow
      BY <1>14, <2>3, EndsGrow DEF RenderFails
    <2>5. QED
      BY <1>1, <2>2, <2>3, <2>4
  <1>15. CASE SyncToOrchestrator(p)
    BY <1>1, <1>15 DEF SyncToOrchestrator, amendLog, ghosts, RowsGrow
  <1>16. CASE SyncFails(p)
    BY <1>1, <1>16, EndsGrow DEF SyncFails, ghosts
  <1>17. CASE Record(p)
    BY <1>1, <1>17, EndsGrow DEF Record, ghosts
  <1>18. CASE Crash(p)
    BY <1>1, <1>18 DEF Crash, Dirty, planFiles, amendLog, RowsGrow
  <1>19. QED
    BY <1>2, <1>3, <1>4, <1>5, <1>6, <1>7, <1>8, <1>9, <1>10, <1>11, <1>12, <1>13, <1>14, <1>15, <1>16,
       <1>17, <1>18 DEF RunStep

\* the steps of workers, of the operator and of the picker
WorkSteps == Work \/ SetAside \/ AutoClose

LEMMA WorkStepIs ==
  ASSUME WorkSteps
  PROVE  /\ UNCHANGED <<planJson, page, orch, audit, recorded, run, base, clean>>
         /\ orch # NoFile
  BY DEF WorkSteps, Work, StartTask, FinishTask, SetAside, AutoClose, amendLog, bounds, ghosts

LEMMA DiskKept ==
  ASSUME RunsInv, DiskInv, PlannerNext
  PROVE  RunsInv' /\ DiskInv'
  <1>1. ASSUME NEW p \in Runs, RunStep(p) PROVE RunsInv' /\ DiskInv'
    <2>1. PICK r : Becomes(p, r) /\ Begun(r)
      BY <1>1, RunStepBegins
    <2>2. RunsInv'
      BY <1>1, <2>1, RunsKept
    <2>3. /\ IsPlanFile(planJson')
          /\ orch' # NoFile => orch' \in Emissions /\ ~Fatal(orch')
          /\ RowsGrow
      BY <1>1, FilesKept
    <2>4. Listed(audit') /\ base' = [plan |-> base'.plan, from |-> base'.from] /\ base'.from \in 0..Len(audit')
      BY <2>3, RowsStayRows
    <2>5. ASSUME NEW q \in Runs, Live(q)' PROVE InHand(run'[q])
      <3>1. CASE q = p
        <4>1. run'[p].pc # "over"
          BY <2>5, <3>1 DEF Live, At
        <4>2. QED
          BY <1>1, <3>1, <4>1, InHandKept
      <3>2. CASE q # p
        <4>1. run'[q] = run[q] /\ Live(q)
          BY <2>1, <2>5, <3>2 DEF Becomes, Live, At
        <4>2. QED
          BY <4>1, InHandOf
      <3>3. QED
        BY <3>1, <3>2
    <2>6. QED
      BY <2>2, <2>3, <2>4, <2>5 DEF DiskInv
  <1>2. CASE WorkSteps
    BY <1>2, WorkStepIs DEF RunsInv, DiskInv, Live, At
  <1>3. QED
    BY <1>1, <1>2 DEF PlannerNext, WorkSteps

-----------------------------------------------------------------------------
(* The types *)

Statuses == {"ready", "wip", "done", "deferred"}

\* what a step of a run does to the variables that it shares with the others
Counts ==
  /\ sealed' = sealed /\ setAsides' = setAsides
  /\ faults' = faults \/ (faults < Faults /\ faults' = faults + 1)
  /\ state' = state \/ state' = [id \in DOMAIN state' |-> ResolveStatus(state, id)]

LEMMA RunStepCounts ==
  ASSUME NEW p \in Runs, RunStep(p)
  PROVE  Counts
  <1>1. CASE Gate(p)
    BY <1>1 DEF Gate, planFiles, amendLog, bounds, Counts
  <1>2. CASE AgentAnswers(p)
    BY <1>2 DEF AgentAnswers, planFiles, amendLog, bounds, ghosts, Counts
  <1>3. CASE AgentExhausted(p)
    BY <1>3 DEF AgentExhausted, Fault, ghosts, Counts
  <1>4. CASE AgentBreaks(p)
    BY <1>4 DEF AgentBreaks, Fault, planFiles, amendLog, ghosts, Counts
  <1>5. CASE Judge(p)
    BY <1>5 DEF Judge, bounds, Counts
  <1>6. CASE Reconcile(p)
    BY <1>6 DEF Reconcile, bounds, ghosts, Counts
  <1>7. CASE PreCheck(p)
    BY <1>7 DEF PreCheck, planFiles, amendLog, bounds, ghosts, Counts
  <1>8. CASE Capture(p)
    BY <1>8 DEF Capture, planFiles, amendLog, bounds, ghosts, Counts
  <1>9. CASE WriteOutput(p)
    BY <1>9 DEF WriteOutput, bounds, Counts
  <1>10. CASE OutputFails(p)
    BY <1>10 DEF OutputFails, Fault, planFiles, amendLog, ghosts, Counts
  <1>11. CASE PostCheck(p)
    BY <1>11 DEF PostCheck, bounds, Counts
  <1>12. CASE Render(p)
    BY <1>12 DEF Render, bounds, ghosts, Counts
  <1>13. CASE RenderFails(p)
    BY <1>13 DEF RenderFails, Fault, Dirty, ghosts, Counts
  <1>14. CASE SyncToOrchestrator(p)
    <2>1. state' = [id \in DOMAIN state' |-> ResolveStatus(state, id)]
      BY <1>14 DEF SyncToOrchestrator
    <2>2. QED
      BY <1>14, <2>1 DEF SyncToOrchestrator, bounds, ghosts, Counts
  <1>15. CASE SyncFails(p)
    BY <1>15 DEF SyncFails, Fault, ghosts, Counts
  <1>16. CASE Record(p)
    BY <1>16 DEF Record, bounds, ghosts, Counts
  <1>17. CASE Crash(p)
    BY <1>17 DEF Crash, Dirty, Fault, planFiles, amendLog, Counts
  <1>18. QED
    BY <1>1, <1>2, <1>3, <1>4, <1>5, <1>6, <1>7, <1>8, <1>9, <1>10, <1>11, <1>12, <1>13, <1>14, <1>15, <1>16,
       <1>17 DEF RunStep

LEMMA CleanIs ==
  ASSUME clean \in BOOLEAN, RunsInv, NEW p \in Runs, RunStep(p)
  PROVE  clean' \in BOOLEAN /\ (clean' => clean)
  <1>1. CASE Gate(p)
    <2>1. PICK job \in Jobs, to \in {"asking", "over"} :
            /\ to = "asking" => clean' = (clean /\ ~(WritesPlan(job) /\ \E q \in Runs \ {p} :
                                                       Live(q) /\ WritesPlan(run[q].job)))
            /\ to = "over" => clean' = clean
      BY <1>1, GateIs
    <2>2. CASE to = "over"
      <3>1. clean' = clean
        BY <2>1, <2>2
      <3>2. QED
        BY <3>1
    <2>3. CASE to = "asking"
      <3> DEFINE X == WritesPlan(job) /\ \E q \in Runs \ {p} : Live(q) /\ WritesPlan(run[q].job)
      <3>1. clean' = (clean /\ ~X)
        BY <2>1, <2>3
      <3> HIDE DEF X
      <3>2. QED
        BY <3>1
    <2>4. QED
      BY <2>2, <2>3
  <1>2. CASE ~Gate(p)
    <2>1. clean' = clean \/ clean' = FALSE
      BY <1>2 DEF RunStep, AgentAnswers, AgentExhausted, AgentBreaks, Judge, Reconcile, PreCheck, Capture,
                  WriteOutput, OutputFails, PostCheck, Render, RenderFails, SyncToOrchestrator, SyncFails,
                  Record, Crash, Dirty, ghosts
    <2>2. CASE clean' = clean
      BY <2>2
    <2>3. CASE clean' = FALSE
      BY <2>3
    <2>4. QED
      BY <2>1, <2>2, <2>3
  <1>3. QED
    BY <1>1, <1>2

LEMMA RecordedIs ==
  ASSUME recorded \in BOOLEAN, NEW p \in Runs, RunStep(p)
  PROVE  recorded' \in BOOLEAN
  <1>1. ASSUME NEW result, Ends(p, result) PROVE recorded' \in BOOLEAN
    <2>1. recorded' = recorded \/ recorded' = (recorded /\ result \notin Landed)
      BY <1>1 DEF Ends, AuditRow, amendLog
    <2>2. CASE recorded' = recorded
      BY <2>2
    <2>3. CASE recorded' = (recorded /\ result \notin Landed)
      <3> DEFINE landed == result \in Landed
      <3>1. recorded' = (recorded /\ ~landed)
        BY <2>3
      <3> HIDE DEF landed
      <3>2. QED
        BY <3>1
    <2>4. QED
      BY <2>1, <2>2, <2>3
  <1>2. CASE WriteOutput(p)
    <2> DEFINE fresh == run[p].job \in {"plan", "replan"}
    <2>1. recorded' = recorded \/ recorded' = (recorded \/ fresh)
      BY <1>2 DEF WriteOutput, amendLog, ghosts
    <2> HIDE DEF fresh
    <2>2. CASE recorded' = recorded
      BY <2>2
    <2>3. CASE recorded' = (recorded \/ fresh)
      BY <2>3
    <2>4. QED
      BY <2>1, <2>2, <2>3
  <1>3. CASE \/ Gate(p) \/ AgentAnswers(p) \/ AgentBreaks(p) \/ PreCheck(p) \/ Capture(p) \/ OutputFails(p)
             \/ PostCheck(p) \/ Render(p) \/ SyncToOrchestrator(p) \/ Crash(p)
    <2>1. recorded' = recorded
      BY <1>3 DEF Gate, AgentAnswers, AgentBreaks, PreCheck, Capture, OutputFails, PostCheck, Render,
                  SyncToOrchestrator, Crash, Dirty, planFiles, amendLog, ghosts
    <2>2. QED
      BY <2>1
  <1>4. CASE Judge(p)
    <2>1. recorded' = recorded \/ \E result : Ends(p, result)
      BY <1>4 DEF Judge, amendLog
    <2>2. QED
      BY <1>1, <2>1
  <1>5. CASE Reconcile(p)
    <2>1. recorded' = recorded \/ \E result : Ends(p, result)
      BY <1>5 DEF Reconcile, amendLog
    <2>2. QED
      BY <1>1, <2>1
  <1>6. CASE AgentExhausted(p) \/ RenderFails(p) \/ SyncFails(p) \/ Record(p)
    BY <1>1, <1>6 DEF AgentExhausted, RenderFails, SyncFails, Record
  <1>7. QED
    BY <1>2, <1>3, <1>4, <1>5, <1>6 DEF RunStep

LEMMA TypesKept ==
  ASSUME PlannerTypeOK, RunsInv, RunsInv', PlannerNext
  PROVE  PlannerTypeOK'
  <1>1. \A p \in Runs : run'[p].pc \in {"idle"} \cup Steps
    BY DEF RunsInv, NoRun, Begun
  <1>2. ASSUME NEW p \in Runs, RunStep(p) PROVE PlannerTypeOK'
    <2>1. Counts
      BY <1>2, RunStepCounts
    <2>0. clean' \in BOOLEAN /\ sealed \in BOOLEAN /\ recorded' \in BOOLEAN
      BY <1>2, CleanIs, RecordedIs DEF PlannerTypeOK
    <2>2. \A id \in DOMAIN state' : state'[id] \in Statuses
      BY <2>1 DEF Counts, PlannerTypeOK, ResolveStatus, Statuses
    <2>3. faults' \in 0..Faults
      BY <2>1, PlannerAssumption DEF Counts, PlannerTypeOK, PlannerAssumption
    <2>5. sealed' \in BOOLEAN
      BY <2>0, <2>1 DEF Counts
    <2>6. setAsides' \in 0..SetAsides
      BY <2>1 DEF Counts, PlannerTypeOK
    <2>7. QED
      BY <1>1, <2>0, <2>2, <2>3, <2>5, <2>6 DEF PlannerTypeOK, Statuses, Steps
  <1>3. ASSUME WorkSteps PROVE PlannerTypeOK'
    <2>0. sealed' = sealed \/ sealed' = TRUE
      BY <1>3 DEF WorkSteps, Work, StartTask, FinishTask, SetAside, AutoClose, bounds, ghosts
    <2>5. clean' \in BOOLEAN /\ sealed' \in BOOLEAN /\ recorded' \in BOOLEAN
      BY <1>3, <2>0, WorkStepIs DEF PlannerTypeOK
    <2>1. /\ faults' = faults
          /\ setAsides' = setAsides \/ (setAsides < SetAsides /\ setAsides' = setAsides + 1)
          /\ state' = state \/ \E id, status : status \in Statuses /\ SetStatus(id, status)
      <3>1. CASE StartTask
        BY <3>1 DEF StartTask, bounds, Statuses
      <3>2. CASE FinishTask
        BY <3>2 DEF FinishTask, bounds, Statuses
      <3>3. CASE SetAside
        BY <3>3 DEF SetAside, Statuses
      <3>4. CASE AutoClose
        BY <3>4 DEF AutoClose, bounds
      <3>5. QED
        BY <1>3, <3>1, <3>2, <3>3, <3>4 DEF WorkSteps, Work
    <2>2. \A id \in DOMAIN state' : state'[id] \in Statuses
      BY <2>1 DEF PlannerTypeOK, SetStatus, Statuses
    <2>3. setAsides' \in 0..SetAsides
      BY <2>1, PlannerAssumption DEF PlannerTypeOK, PlannerAssumption
    <2>4. faults' \in 0..Faults
      BY <2>1 DEF PlannerTypeOK
    <2>6. QED
      BY <1>1, <2>2, <2>3, <2>4, <2>5 DEF PlannerTypeOK, Statuses, Steps
  <1>4. QED
    BY <1>2, <1>3 DEF PlannerNext, WorkSteps

-----------------------------------------------------------------------------
(* What the rows and the page tell *)

\* the rows tell no more and no less than they did, as far as they are to tell
RowsSame == Replayed' = Replayed /\ (recorded' => recorded)

LEMMA ReplayedSame ==
  ASSUME audit' = audit, recorded' => recorded, base' = base
  PROVE  RowsSame
  BY DEF Replayed, RowsSame

LEMMA ReplayedRow ==
  ASSUME DiskInv, NEW result, NEW ops, audit' = Append(audit, [result |-> result, ops |-> ops]), base' = base
  PROVE  Replayed' = IF result \in Landed THEN ApplyPatch(Replayed, ops).plan ELSE Replayed
  <1> DEFINE row == [result |-> result, ops |-> ops]
  <1>1. row.result = result /\ row.ops = ops
    OBVIOUS
  <1> HIDE DEF row
  <1>2. Listed(audit) /\ base.from \in 0..Len(audit)
    BY DEF DiskInv
  <1>3. Replay(base.plan, base.from, Append(audit, row)) =
          IF row.result \in Landed THEN ApplyPatch(Replay(base.plan, base.from, audit), row.ops).plan
          ELSE Replay(base.plan, base.from, audit)
    BY <1>2, ReplayOneMore
  <1>4. Replayed' = Replay(base.plan, base.from, Append(audit, row))
    BY DEF Replayed, row
  <1>5. QED
    BY <1>1, <1>3, <1>4 DEF Replayed

LEMMA ReplayedEnd ==
  ASSUME DiskInv, RunsInv, NEW p \in Runs, ~At(p, "idle"), NEW result, Ends(p, result), base' = base,
         recorded \in BOOLEAN
  PROVE  IF run[p].job = "amend" /\ result \in Landed
         THEN recorded' => recorded /\ Replayed' = ApplyPatch(Replayed, run[p].patch).plan
         ELSE RowsSame
  <1>1. CASE run[p].job = "amend"
    <2>1. AuditRow(p, result)
      BY <1>1, EndsIs
    <2> DEFINE ops == run[p].patch
    <2>2. CASE audit' = Append(audit, [result |-> result, ops |-> ops]) /\ recorded' = recorded
      <3> HIDE DEF ops
      <3>1. Replayed' = IF result \in Landed THEN ApplyPatch(Replayed, ops).plan ELSE Replayed
        BY <2>2, ReplayedRow
      <3>2. QED
        BY <1>1, <2>2, <3>1 DEF ops, RowsSame
    <2>3. CASE audit' = audit /\ recorded' = (recorded /\ result \notin Landed)
      <3>1. Replayed' = Replayed
        BY <2>3 DEF Replayed
      <3>2. recorded' => recorded /\ result \notin Landed
        BY <2>3
      <3>3. QED
        BY <3>1, <3>2 DEF RowsSame
    <2>4. QED
      BY <2>1, <2>2, <2>3 DEF AuditRow
  <1>2. CASE run[p].job # "amend"
    BY <1>2, EndsIs, ReplayedSame DEF amendLog
  <1>3. QED
    BY <1>1, <1>2

LEMMA ReplayedAnew ==
  ASSUME DiskInv, NEW plan, audit' = audit, base' = [plan |-> plan, from |-> Len(audit)]
  PROVE  Replayed' = plan
  <1>1. base'.plan = plan /\ base'.from = Len(audit) /\ Listed(audit)
    BY DEF DiskInv
  <1>2. Replayed' = Replay(plan, Len(audit), audit)
    BY <1>1 DEF Replayed
  <1>3. QED
    BY <1>1, <1>2, ReplayOfNone

LEMMA WriterIs ==
  ASSUME RunsInv, NEW p \in Runs
  PROVE  (Pending(p) => Writer(p)) /\ (At(p, "rendering") => Writer(p))
  <1>1. Pending(p) => Writer(p)
    BY DEF Pending, Writer, Live, At, WritesPlan
  <1>2. At(p, "rendering") => Writer(p)
    <2>1. At(p, "rendering") => Live(p) /\ Begun(run[p]) /\ run[p].pc = "rendering"
      BY AtIs
    <2>2. QED
      BY <2>1 DEF Writer, Begun
  <1>3. QED
    BY <1>1, <1>2

\* no run but p writes the plan
Sole(p) == \A q \in Runs : q # p => ~Writer(q)

LEMMA SoleWriter ==
  ASSUME TellsInv, clean, NEW p \in Runs, Writer(p)
  PROVE  Sole(p) /\ TellsOf(p)
  BY DEF TellsInv, Sole

LEMMA SoleIs ==
  ASSUME RunsInv, NEW p \in Runs, Sole(p)
  PROVE  \A q \in Runs : q # p => ~Pending(q) /\ ~At(q, "rendering")
  BY WriterIs DEF Sole

LEMMA OthersStay ==
  ASSUME NEW p \in Runs, NEW r, Becomes(p, r), NEW q \in Runs, q # p
  PROVE  /\ Writer(q)' <=> Writer(q)
         /\ Pending(q)' <=> Pending(q)
         /\ At(q, "rendering")' <=> At(q, "rendering")
         /\ planJson' = planJson /\ page' = page /\ RowsSame /\ TellsOf(q) => TellsOf(q)'
  <1>1. run'[q] = run[q]
    BY DEF Becomes
  <1>2. /\ Writer(q)' <=> Writer(q)
        /\ Pending(q)' <=> Pending(q)
        /\ At(q, "rendering")' <=> At(q, "rendering")
    BY <1>1 DEF Writer, Pending, At, Live
  <1>3. planJson' = planJson /\ page' = page /\ RowsSame /\ TellsOf(q) => TellsOf(q)'
    BY <1>1 DEF TellsOf, Pending, At, OnRecord, RowsSame
  <1>4. QED
    BY <1>2, <1>3

(* A step that neither writes the plan nor ends what was written.          *)
LEMMA SteadyStep ==
  ASSUME RunsInv, TellsInv, clean, NEW p \in Runs, NEW r, Becomes(p, r),
         planJson' = planJson, page' = page, RowsSame,
         Pending(p)' <=> Pending(p), At(p, "rendering")' <=> At(p, "rendering"),
         Writer(p)' => Sole(p) /\ TellsOf(p)'
  PROVE  TellsInv'
  <1>1. \A q \in Runs : q # p => /\ Writer(q)' <=> Writer(q)
                                 /\ Pending(q)' <=> Pending(q)
                                 /\ At(q, "rendering")' <=> At(q, "rendering")
                                 /\ TellsOf(q) => TellsOf(q)'
    BY OthersStay
  <1>2. ASSUME NEW q \in Runs, NEW s \in Runs, Writer(q)', Writer(s)' PROVE q = s
    <2>1. CASE q # p /\ s # p
      BY <1>1, <1>2, <2>1 DEF TellsInv
    <2>2. CASE q = p \/ s = p
      BY <1>1, <1>2, <2>2 DEF Sole
    <2>3. QED
      BY <2>1, <2>2
  <1>3. (\A q \in Runs : ~Pending(q)') => OnRecord(planJson)'
    BY <1>1 DEF TellsInv, OnRecord, RowsSame
  <1>4. (\A q \in Runs : ~At(q, "rendering")') => page' = planJson'
    BY <1>1 DEF TellsInv
  <1>5. \A q \in Runs : Writer(q)' => TellsOf(q)'
    BY <1>1 DEF TellsInv
  <1>6. QED
    BY <1>2, <1>3, <1>4, <1>5 DEF TellsInv

(* A step of the one run that writes the plan.                             *)
LEMMA WriterStep ==
  ASSUME RunsInv, NEW p \in Runs, Sole(p), NEW r, Becomes(p, r),
         ~Pending(p)' => OnRecord(planJson)',
         ~At(p, "rendering")' => page' = planJson',
         Writer(p)' => TellsOf(p)'
  PROVE  TellsInv'
  <1>1. \A q \in Runs : q # p => ~Writer(q)' /\ ~Pending(q)' /\ ~At(q, "rendering")'
    BY OthersStay, SoleIs DEF Sole
  <1>2. \A q, s \in Runs : Writer(q)' /\ Writer(s)' => q = s
    BY <1>1
  <1>3. \A q \in Runs : Writer(q)' => TellsOf(q)'
    BY <1>1
  <1>4. QED
    BY <1>1, <1>2, <1>3 DEF TellsInv

(* What a step of a run does to what the rows tell *)
LEMMA SeenAs ==
  ASSUME NEW p \in Runs, NEW to, NEW job, NEW prior, NEW existed, NEW patch, NEW payload, NEW life, NEW seeds,
         NEW pre, Becomes(p, Local(to, job, prior, existed, patch, payload, life, seeds, pre))
  PROVE  /\ run'[p].pc = to /\ run'[p].job = job /\ run'[p].prior = prior
         /\ run'[p].patch = patch /\ run'[p].payload = payload /\ run'[p].pre = pre /\ run'[p].life = life
         /\ Writer(p)' <=> to \notin {"idle", "over"} /\ WritesPlan(job)
         /\ Pending(p)' <=> job = "amend" /\ to \in {"rendering", "syncing", "recording"}
         /\ \A at : At(p, at)' <=> to = at
  <1>1. /\ run'[p].pc = to /\ run'[p].job = job /\ run'[p].prior = prior
        /\ run'[p].patch = patch /\ run'[p].payload = payload /\ run'[p].pre = pre /\ run'[p].life = life
    BY LocalIs DEF Becomes
  <1>2. QED
    BY <1>1 DEF Writer, Pending, At, Live

LEMMA MovedAs ==
  ASSUME NEW p \in Runs, NEW to, Becomes(p, Moved(run[p], to))
  PROVE  /\ run'[p].pc = to /\ run'[p].job = run[p].job /\ run'[p].prior = run[p].prior
         /\ run'[p].patch = run[p].patch /\ run'[p].payload = run[p].payload /\ run'[p].pre = run[p].pre
         /\ run'[p].life = run[p].life
         /\ Writer(p)' <=> to \notin {"idle", "over"} /\ WritesPlan(run[p].job)
         /\ Pending(p)' <=> run[p].job = "amend" /\ to \in {"rendering", "syncing", "recording"}
         /\ \A at : At(p, at)' <=> to = at
  BY SeenAs DEF Moved

\* what was read at the gate and captured, at the steps where it tells
LEMMA TellsByFields ==
  ASSUME NEW p \in Runs,
         run'[p].pc \in {"asking", "judging", "reconciling", "capturing", "writing"}
           => run'[p].prior = planJson',
         run'[p].job = "amend" /\ run'[p].pc = "writing" => run'[p].pre = planJson',
         ~Pending(p)'
  PROVE  TellsOf(p)'
  BY DEF TellsOf, At

LEMMA TellsKept ==
  ASSUME PlannerTypeOK, RunsInv, DiskInv, TellsInv, NEW p \in Runs, RunStep(p)
  PROVE  TellsInv'
  <1> SUFFICES ASSUME clean' PROVE TellsInv'
    BY DEF TellsInv
  <1>0. clean /\ recorded \in BOOLEAN
    BY CleanIs DEF PlannerTypeOK
  <1> DEFINE r == run[p]
  <1>1. CASE Gate(p)
    <2>1. PICK job \in Jobs, to \in {"asking", "over"} :
           /\ Becomes(p, Local(to, IF to = "over" THEN "refused" ELSE job, planJson,
                               IF WritesPlan(job) THEN planJson # NoFile ELSE orch # NoFile,
                               <<>>, NoFile, "none", {}, NoFile))
           /\ to = "asking" => /\ GateOpens(job)
                               /\ clean' = (clean /\ ~(WritesPlan(job) /\ \E q \in Runs \ {p} :
                                                         Live(q) /\ WritesPlan(run[q].job)))
      BY <1>1, GateIs
    <2> DEFINE as == IF to = "over" THEN "refused" ELSE job
               had == IF WritesPlan(job) THEN planJson # NoFile ELSE orch # NoFile
               new == Local(to, as, planJson, had, <<>>, NoFile, "none", {}, NoFile)
    <2>2. planJson' = planJson /\ page' = page /\ RowsSame
      BY <1>1, ReplayedSame DEF Gate, planFiles, amendLog
    <2>3. ~Pending(p) /\ ~At(p, "rendering")
      BY <1>1 DEF Gate, At, Pending
    <2>4. Becomes(p, new)
      BY <2>1
    <2> HIDE DEF had
    <2>5. /\ run'[p].pc = to /\ run'[p].prior = planJson /\ run'[p].job = as
          /\ Writer(p)' <=> to \notin {"idle", "over"} /\ WritesPlan(as)
          /\ ~Pending(p)' /\ ~At(p, "rendering")'
      <3> HIDE DEF as
      <3>1. QED
        BY <2>4, SeenAs
    <2>6. TellsOf(p)'
      BY <2>2, <2>5, TellsByFields
    <2>7. ASSUME Writer(p)' PROVE Sole(p)
      <3>1. to = "asking" /\ WritesPlan(job)
        BY <2>5, <2>7
      <3> DEFINE X == WritesPlan(job) /\ \E q \in Runs \ {p} : Live(q) /\ WritesPlan(run[q].job)
      <3>2. ~X
        <4>1. clean' = (clean /\ ~X)
          BY <2>1, <3>1
        <4> HIDE DEF X
        <4>2. QED
          BY <4>1
      <3>3. QED
        BY <3>1, <3>2 DEF Sole, Writer
    <2> HIDE DEF new
    <2>8. QED
      BY <1>0, <2>2, <2>3, <2>4, <2>5, <2>6, <2>7, SteadyStep
  <1>2. CASE AgentAnswers(p)
    <2>1. planJson' = planJson /\ page' = page /\ RowsSame
      BY <1>2, ReplayedSame DEF AgentAnswers, planFiles, amendLog, ghosts
    <2>2. r.pc = "asking" /\ Live(p) /\ ~Pending(p) /\ ~At(p, "rendering")
      BY <1>2 DEF AgentAnswers, At, Pending, Live
    <2>3. PICK to, patch, payload :
            /\ to \in {"judging", "capturing", "prechecking"}
            /\ Becomes(p, Local(to, r.job, r.prior, r.existed, patch, payload, r.life, r.seeds, r.pre))
      BY <1>2, AnswerIs
    <2> DEFINE new == Local(to, r.job, r.prior, r.existed, patch, payload, r.life, r.seeds, r.pre)
    <2>4. /\ run'[p].pc = to /\ run'[p].prior = r.prior /\ run'[p].job = r.job
          /\ Writer(p)' <=> WritesPlan(r.job)
          /\ ~Pending(p)' /\ ~At(p, "rendering")'
      <3> HIDE DEF r
      <3>1. QED
        BY <2>3, SeenAs
    <2>5. ASSUME Writer(p)' PROVE Sole(p) /\ TellsOf(p)'
      <3>1. Writer(p)
        BY <2>2, <2>4, <2>5 DEF Writer
      <3>2. Sole(p) /\ r.prior = planJson
        BY <1>0, <2>2, <3>1, SoleWriter DEF TellsOf
      <3>3. run'[p].pc = to /\ to \in {"judging", "capturing", "prechecking"} /\ run'[p].prior = planJson'
        BY <2>1, <2>3, <2>4, <3>2
      <3>4. TellsOf(p)'
        BY <2>4, <3>3, TellsByFields
      <3>5. QED
        BY <3>2, <3>4
    <2>6. Becomes(p, new)
      BY <2>3
    <2> HIDE DEF new
    <2>7. QED
      BY <1>0, <2>1, <2>2, <2>4, <2>5, <2>6, SteadyStep
  <1>3. ASSUME ~At(p, "idle"), Becomes(p, Moved(r, "over")),
               planJson' = planJson, page' = page, RowsSame, ~Pending(p), ~At(p, "rendering")
        PROVE  TellsInv'
    <2>1. ~Writer(p)' /\ ~Pending(p)' /\ ~At(p, "rendering")'
      BY <1>3, MovedAs
    <2> DEFINE new == Moved(r, "over")
    <2>2. Becomes(p, new)
      BY <1>3
    <2> HIDE DEF new
    <2>3. QED
      BY <1>0, <1>3, <2>1, <2>2, SteadyStep
  <1>4. CASE AgentExhausted(p)
    <2>1. /\ ~At(p, "idle") /\ ~Pending(p) /\ ~At(p, "rendering") /\ Ends(p, "sdk_exhausted")
          /\ base' = base /\ planJson' = planJson /\ page' = page
      BY <1>4 DEF AgentExhausted, At, Pending, ghosts
    <2>2. "sdk_exhausted" \notin Landed
      BY DEF Landed
    <2>4. Becomes(p, Moved(r, "over")) /\ RowsSame
      BY <2>1, <2>2, EndsIs, ReplayedEnd, <1>0
    <2>5. QED
      BY <1>3, <2>1, <2>4
  <1>5. CASE AgentBreaks(p)
    <2>1. /\ ~At(p, "idle") /\ ~Pending(p) /\ ~At(p, "rendering") /\ Goto(p, "over")
          /\ base' = base /\ planJson' = planJson /\ page' = page /\ audit' = audit /\ recorded' = recorded
      BY <1>5 DEF AgentBreaks, At, Pending, planFiles, amendLog, ghosts
    <2>2. Becomes(p, Moved(r, "over")) /\ RowsSame
      BY <2>1, GotoIs, ReplayedSame
    <2>3. QED
      BY <1>3, <2>1, <2>2
  <1>6. CASE Judge(p)
    <2> DEFINE applied == ApplyPatch(r.prior, r.patch)
    <2>1. /\ At(p, "judging") /\ ~At(p, "idle") /\ ~Pending(p) /\ ~At(p, "rendering") /\ r.pc = "judging"
          /\ base' = base /\ planJson' = planJson /\ page' = page
      BY <1>6 DEF Judge, At, Pending
    <2>2. Live(p) /\ Begun(r) /\ r.job = "amend" /\ IsPlan(r.prior) /\ r.patch \in Patches
      BY <2>1, AtIs, InHandOf DEF Begun, InHand
    <2>3. CASE \E result : Ends(p, result) /\ result \notin Landed
      BY <1>3, <2>1, <2>3, EndsIs, ReplayedEnd, <1>0
    <2>4. applied.err \notin Landed /\ "closed_denied" \notin Landed
      <3>1. IsPatch(r.patch)
        BY <2>2, PlannerAssumption DEF PlannerAssumption
      <3>2. QED
        BY <2>2, <3>1, PatchIs DEF Landed
    <2>5. CASE /\ UNCHANGED amendLog
               /\ \E life \in {"active", "draft"} :
                    Becomes(p, Local(IF life = "active" THEN "reconciling" ELSE "capturing",
                                  r.job, r.prior, r.existed, r.patch, applied.plan, life, r.seeds, r.pre))
      <3>1. PICK life \in {"active", "draft"} :
                    Becomes(p, Local(IF life = "active" THEN "reconciling" ELSE "capturing",
                                  r.job, r.prior, r.existed, r.patch, applied.plan, life, r.seeds, r.pre))
        BY <2>5
      <3> DEFINE to == IF life = "active" THEN "reconciling" ELSE "capturing"
                 new == Local(to, r.job, r.prior, r.existed, r.patch, applied.plan, life, r.seeds, r.pre)
      <3>2. to \in {"reconciling", "capturing"} /\ Becomes(p, new)
        BY <3>1
      <3>3. /\ run'[p].pc = to /\ run'[p].prior = r.prior /\ run'[p].job = r.job
            /\ ~Pending(p)' /\ ~At(p, "rendering")'
        <4> HIDE DEF to, applied, r
        <4>1. QED
          BY <3>2, SeenAs
      <3>4. RowsSame
        BY <2>1, <2>5, ReplayedSame DEF amendLog
      <3>5. Writer(p)
        BY <2>2 DEF Writer, WritesPlan
      <3>6. Sole(p) /\ r.prior = planJson
        BY <1>0, <2>1, <3>5, SoleWriter DEF TellsOf
      <3>7. TellsOf(p)'
        BY <2>1, <3>2, <3>3, <3>6, TellsByFields
      <3> HIDE DEF new, to
      <3>8. QED
        BY <1>0, <2>1, <3>2, <3>3, <3>4, <3>6, <3>7, SteadyStep
    <2>6. QED
      BY <1>6, <2>3, <2>4, <2>5, JudgeIs
  <1>7. CASE Reconcile(p)
    <2>1. /\ At(p, "reconciling") /\ ~At(p, "idle") /\ ~Pending(p) /\ ~At(p, "rendering") /\ r.pc = "reconciling"
          /\ base' = base /\ planJson' = planJson /\ page' = page
      BY <1>7 DEF Reconcile, At, Pending, ghosts
    <2>2. Live(p) /\ r.job = "amend"
      BY <2>1, AtIs DEF Begun
    <2>3. CASE Ends(p, "reconcile_refused")
      <3>1. "reconcile_refused" \notin Landed
        BY DEF Landed
      <3>2. Becomes(p, Moved(r, "over")) /\ RowsSame
        BY <2>1, <2>3, <3>1, EndsIs, ReplayedEnd, <1>0
      <3>3. QED
        BY <1>3, <2>1, <3>2
    <2>4. CASE /\ UNCHANGED amendLog
               /\ \E seeds : Becomes(p, Local("capturing", r.job, r.prior, r.existed, r.patch, r.payload,
                                              r.life, seeds, r.pre))
      <3>1. PICK seeds : Becomes(p, Local("capturing", r.job, r.prior, r.existed, r.patch, r.payload,
                                              r.life, seeds, r.pre))
        BY <2>4
      <3> DEFINE new == Local("capturing", r.job, r.prior, r.existed, r.patch, r.payload, r.life, seeds, r.pre)
      <3>2. Becomes(p, new)
        BY <3>1
      <3>3. /\ run'[p].pc = "capturing" /\ run'[p].prior = r.prior /\ run'[p].job = r.job
            /\ ~Pending(p)' /\ ~At(p, "rendering")'
        <4> HIDE DEF r
        <4>1. QED
          BY <3>2, SeenAs
      <3>4. RowsSame
        BY <2>1, <2>4, ReplayedSame DEF amendLog
      <3>5. Writer(p)
        BY <2>2 DEF Writer, WritesPlan
      <3>6. Sole(p) /\ r.prior = planJson
        BY <1>0, <2>1, <3>5, SoleWriter DEF TellsOf
      <3>7. TellsOf(p)'
        BY <2>1, <3>3, <3>6, TellsByFields
      <3> HIDE DEF new
      <3>8. QED
        BY <1>0, <2>1, <3>2, <3>3, <3>4, <3>6, <3>7, SteadyStep
    <2>5. QED
      BY <1>7, <2>3, <2>4, ReconcileIs
  <1>8. CASE PreCheck(p) \/ PostCheck(p) \/ (WriteOutput(p) /\ OnOrch(p))
    <2>1. /\ ~At(p, "idle") /\ ~Pending(p) /\ ~At(p, "rendering") /\ ~Writer(p) /\ ~WritesPlan(r.job)
      <3>1. CASE PreCheck(p)
        <4>1. At(p, "prechecking") /\ r.job \in {"implplan", "reimplplan"}
          BY <3>1, AtIs DEF PreCheck, Begun
        <4>2. QED
          BY <4>1 DEF At, Pending, Writer, WritesPlan
      <3>2. CASE PostCheck(p)
        <4>1. At(p, "postchecking") /\ r.job \in {"implplan", "reimplplan"}
          BY <3>2, AtIs DEF PostCheck, Begun
        <4>2. QED
          BY <4>1 DEF At, Pending, Writer, WritesPlan
      <3>3. CASE WriteOutput(p) /\ OnOrch(p)
        BY <3>3 DEF WriteOutput, OnOrch, At, Pending, Writer, WritesPlan
      <3>4. QED
        BY <1>8, <3>1, <3>2, <3>3
    <2>2. planJson' = planJson /\ page' = page /\ RowsSame
      <3>1. planJson' = planJson /\ page' = page /\ audit' = audit /\ base' = base /\ (recorded' => recorded)
        <4>1. CASE PreCheck(p) \/ PostCheck(p)
          <5>1. UNCHANGED <<planJson, page, audit, base, recorded>>
            BY <4>1 DEF PreCheck, PostCheck, planFiles, amendLog, ghosts
          <5>2. QED
            BY <5>1
        <4>2. CASE WriteOutput(p) /\ OnOrch(p)
          <5>1. /\ planJson' = planJson /\ page' = page /\ audit' = audit /\ base' = base
                /\ r.job \notin {"plan", "replan"}
            BY <4>2 DEF WriteOutput, OnOrch
          <5> DEFINE fresh == r.job \in {"plan", "replan"}
          <5>2. recorded' = (recorded \/ fresh) /\ ~fresh
            BY <4>2, <5>1 DEF WriteOutput
          <5> HIDE DEF fresh
          <5>3. recorded' => recorded
            BY <5>2
          <5>4. QED
            BY <5>1, <5>3
        <4>3. QED
          BY <1>8, <4>1, <4>2
      <3>2. QED
        BY <3>1, ReplayedSame
    <2>3. PICK to : to \in {"over", "capturing", "postchecking"} /\ Goto(p, to)
      BY <1>8 DEF PreCheck, PostCheck, WriteOutput
    <2> DEFINE new == Moved(r, to)
    <2>4. Becomes(p, new)
      BY <2>1, <2>3, GotoIs
    <2>5. ~Writer(p)' /\ ~Pending(p)' /\ ~At(p, "rendering")'
      BY <2>1, <2>3, <2>4, MovedAs
    <2> HIDE DEF new
    <2>6. QED
      BY <1>0, <2>1, <2>2, <2>4, <2>5, SteadyStep
  <1>9. CASE Capture(p)
    <2>1. /\ At(p, "capturing") /\ ~At(p, "idle") /\ ~Pending(p) /\ ~At(p, "rendering") /\ r.pc = "capturing"
          /\ Live(p) /\ planJson' = planJson /\ page' = page /\ RowsSame
      BY <1>9, ReplayedSame DEF Capture, At, Live, Pending, planFiles, amendLog, ghosts
    <2> DEFINE pre == IF r.existed THEN TargetOf(p) ELSE NoFile
               new == Local("writing", r.job, r.prior, r.existed, r.patch, r.payload, r.life, r.seeds, pre)
    <2>2. Becomes(p, new)
      BY <1>9, CaptureIs
    <2>3. r.job = "amend" => pre = planJson
      BY <2>1, InHandOf DEF InHand, TargetOf, OnOrch
    <2>4. /\ run'[p].pc = "writing" /\ run'[p].prior = r.prior /\ run'[p].job = r.job /\ run'[p].pre = pre
          /\ Writer(p)' <=> WritesPlan(r.job)
          /\ ~Pending(p)' /\ ~At(p, "rendering")'
      <3> HIDE DEF r, pre
      <3>1. QED
        BY <2>2, SeenAs
    <2>5. ASSUME Writer(p)' PROVE Sole(p) /\ TellsOf(p)'
      <3>1. Writer(p)
        BY <2>1, <2>4, <2>5 DEF Writer
      <3>2. Sole(p) /\ r.prior = planJson
        BY <1>0, <2>1, <3>1, SoleWriter DEF TellsOf
      <3> HIDE DEF pre
      <3>3. TellsOf(p)'
        BY <2>1, <2>3, <2>4, <3>2, TellsByFields
      <3>4. QED
        BY <3>2, <3>3
    <2> HIDE DEF new
    <2>6. QED
      BY <1>0, <2>1, <2>2, <2>4, <2>5, SteadyStep
  <1>10. CASE OutputFails(p)
    <2>1. /\ ~At(p, "idle") /\ ~Pending(p) /\ ~At(p, "rendering") /\ Goto(p, "over")
          /\ base' = base /\ planJson' = planJson /\ page' = page /\ audit' = audit /\ recorded' = recorded
      BY <1>10 DEF OutputFails, At, Pending, planFiles, amendLog, ghosts
    <2>2. Becomes(p, Moved(r, "over")) /\ RowsSame
      BY <2>1, GotoIs, ReplayedSame
    <2>3. QED
      BY <1>3, <2>1, <2>2
  <1>11. ASSUME At(p, "rendering") \/ At(p, "syncing") \/ At(p, "recording")
                  \/ (At(p, "writing") /\ ~OnOrch(p))
         PROVE  /\ Sole(p) /\ TellsOf(p) /\ Writer(p) /\ ~At(p, "idle") /\ Begun(r)
                /\ r.job = "amend" => Applied(r) /\ r.existed
                /\ ~Pending(p) => OnRecord(planJson)
                /\ ~At(p, "rendering") => page = planJson
    <2>1. Live(p) /\ Begun(r) /\ ~At(p, "idle")
      BY <1>11, AtIs
    <2>2. Writer(p)
      BY <1>11, <2>1 DEF Begun, OnOrch, Writer, WritesPlan, At
    <2>3. Sole(p) /\ TellsOf(p)
      BY <1>0, <2>2, SoleWriter
    <2>4. \A q \in Runs : q # p => ~Pending(q) /\ ~At(q, "rendering")
      BY <2>3, SoleIs
    <2>5. InHand(r)
      BY <2>1, InHandOf
    <2>6. r.job = "amend" => Applied(r) /\ r.existed
      BY <1>11, <2>5 DEF InHand, At
    <2>7. QED
      BY <1>0, <2>1, <2>2, <2>3, <2>4, <2>6 DEF TellsInv
  <1>12. CASE WriteOutput(p) /\ ~OnOrch(p)
    <2>1. /\ At(p, "writing") /\ r.pc = "writing" /\ ~Pending(p) /\ ~At(p, "rendering")
          /\ Goto(p, "rendering") /\ planJson' = r.payload /\ page' = page /\ audit' = audit
          /\ r.job = "amend" => (recorded' => recorded)
          /\ r.job \in {"plan", "replan"} => base' = [plan |-> r.payload, from |-> Len(audit)]
          /\ r.job \notin {"plan", "replan"} => base' = base
      BY <1>12 DEF WriteOutput, At, Pending
    <2>2. /\ Sole(p) /\ TellsOf(p) /\ Writer(p) /\ ~At(p, "idle")
          /\ OnRecord(planJson) /\ page = planJson
      BY <1>11, <1>12, <2>1
    <2> DEFINE new == Moved(r, "rendering")
    <2>3. Becomes(p, new)
      BY <2>1, <2>2, GotoIs
    <2>4. /\ run'[p].pc = "rendering" /\ run'[p].job = r.job /\ run'[p].prior = r.prior
          /\ run'[p].payload = r.payload /\ run'[p].pre = r.pre
          /\ Pending(p)' <=> r.job = "amend"
          /\ At(p, "rendering")'
      BY <2>3, MovedAs
    <2>5. CASE r.job = "amend"
      <3>1. r.prior = planJson /\ r.pre = planJson
        BY <2>1, <2>2, <2>5 DEF TellsOf
      <3>2. RowsSame
        BY <2>1, <2>5, ReplayedSame DEF amendLog
      <3>3. TellsOf(p)'
        BY <2>1, <2>2, <2>4, <2>5, <3>1, <3>2 DEF TellsOf, At, OnRecord, RowsSame
      <3> HIDE DEF new
      <3>4. QED
        BY <2>2, <2>3, <2>4, <2>5, <3>3, WriterStep
    <2>6. CASE r.job # "amend"
      <3>1. r.job \in {"plan", "replan"}
        BY <2>2, <2>6 DEF Writer, WritesPlan
      <3> DEFINE plan == r.payload
      <3> HIDE DEF plan
      <3>2. Replayed' = plan
        BY <2>1, <3>1, ReplayedAnew DEF plan
      <3>3. TellsOf(p)'
        BY <2>4, <2>6 DEF TellsOf, At
      <3> HIDE DEF new
      <3>4. QED
        BY <2>1, <2>2, <2>3, <2>4, <3>2, <3>3, WriterStep DEF plan, OnRecord
    <2>7. QED
      BY <2>5, <2>6
  <1>13. CASE Render(p)
    <2>1. /\ At(p, "rendering") /\ page' = planJson /\ planJson' = planJson /\ RowsSame
          /\ Goto(p, IF r.job # "amend" THEN "over"
                     ELSE IF r.life = "active" THEN "syncing" ELSE "recording")
      BY <1>13, ReplayedSame DEF Render, amendLog, ghosts
    <2> DEFINE to == IF r.job # "amend" THEN "over"
                     ELSE IF r.life = "active" THEN "syncing" ELSE "recording"
               new == Moved(r, to)
    <2>2. /\ Sole(p) /\ TellsOf(p) /\ ~At(p, "idle") /\ (~Pending(p) => OnRecord(planJson))
      BY <1>11, <2>1
    <2>3. (r.job # "amend" => to = "over") /\ (r.job = "amend" => to \in {"syncing", "recording"})
      OBVIOUS
    <2>4. Becomes(p, new)
      BY <2>1, <2>2, GotoIs
    <2> HIDE DEF to
    <2>5. /\ run'[p].pc = to /\ run'[p].job = r.job /\ run'[p].prior = r.prior
          /\ run'[p].payload = r.payload
          /\ Writer(p)' <=> to \notin {"idle", "over"} /\ WritesPlan(r.job)
          /\ Pending(p)' <=> r.job = "amend" /\ to \in {"rendering", "syncing", "recording"}
      BY <2>4, MovedAs
    <2>6. Writer(p)' => TellsOf(p)'
      <3>1. ASSUME r.job = "amend" PROVE TellsOf(p)'
        <4>1. planJson = r.payload /\ OnRecord(r.prior)
          BY <2>1, <2>2, <3>1 DEF TellsOf, Pending, At
        <4>2. QED
          BY <2>1, <2>3, <2>5, <3>1, <4>1 DEF TellsOf, At, OnRecord, RowsSame
      <3>2. QED
        BY <2>3, <2>5, <3>1
    <2>7. ~Pending(p)' => OnRecord(planJson)'
      BY <2>1, <2>2, <2>3, <2>5 DEF Pending, OnRecord, RowsSame
    <2> HIDE DEF new
    <2>8. QED
      BY <2>1, <2>2, <2>4, <2>6, <2>7, WriterStep
  <1>14. CASE RenderFails(p)
    <2>1. /\ At(p, "rendering") /\ Ends(p, "render_failed_rolled_back") /\ page' = page
      BY <1>14 DEF RenderFails
    <2>2. r.job = "amend" /\ planJson' = r.pre /\ base' = base
      BY <1>14 DEF RenderFails, Dirty, ghosts
    <2>3. Sole(p) /\ TellsOf(p) /\ ~At(p, "idle")
      BY <1>11, <2>1
    <2>4. OnRecord(r.pre) /\ page = r.pre
      BY <2>1, <2>2, <2>3 DEF TellsOf, Pending, At
    <2> DEFINE new == Moved(r, "over")
    <2>8. "render_failed_rolled_back" \notin Landed
      BY DEF Landed
    <2>5. Becomes(p, new) /\ RowsSame
      BY <2>1, <2>2, <2>3, <2>8, EndsIs, ReplayedEnd, <1>0
    <2>6. ~Writer(p)'
      BY <2>5, MovedAs
    <2> HIDE DEF new
    <2>7. QED
      BY <2>1, <2>2, <2>3, <2>4, <2>5, <2>6, WriterStep DEF OnRecord, RowsSame
  <1>15. CASE SyncToOrchestrator(p)
    <2>1. /\ At(p, "syncing") /\ planJson' = planJson /\ page' = page /\ RowsSame
          /\ Goto(p, "recording") /\ ~At(p, "rendering")
      BY <1>15, ReplayedSame DEF SyncToOrchestrator, amendLog, ghosts, At
    <2>2. Sole(p) /\ TellsOf(p) /\ ~At(p, "idle") /\ r.job = "amend"
      BY <1>11, <2>1, AtIs DEF Begun
    <2>3. Pending(p) /\ planJson = r.payload /\ OnRecord(r.prior)
      BY <2>1, <2>2 DEF TellsOf, Pending, At
    <2> DEFINE new == Moved(r, "recording")
    <2>4. Becomes(p, new)
      BY <2>1, <2>2, GotoIs
    <2>5. /\ run'[p].pc = "recording" /\ run'[p].job = r.job /\ run'[p].prior = r.prior
          /\ run'[p].payload = r.payload
          /\ Pending(p)' /\ ~At(p, "rendering")'
      BY <2>2, <2>4, MovedAs
    <2>6. TellsOf(p)'
      BY <2>1, <2>3, <2>5 DEF TellsOf, At, OnRecord, RowsSame
    <2> HIDE DEF new
    <2>7. QED
      BY <1>0, <2>1, <2>2, <2>3, <2>4, <2>5, <2>6, SteadyStep
  <1>16. ASSUME At(p, "syncing") \/ At(p, "recording"), NEW result \in Landed, Ends(p, result),
                planJson' = planJson, page' = page, base' = base
         PROVE  TellsInv'
    <2>1. Sole(p) /\ TellsOf(p) /\ ~At(p, "idle") /\ Begun(r) /\ ~At(p, "rendering") /\ page = planJson
      BY <1>11, <1>16 DEF At
    <2>2. r.job = "amend"
      BY <1>16, <2>1 DEF Begun, At
    <2>3. Applied(r) /\ planJson = r.payload /\ OnRecord(r.prior)
      BY <1>11, <1>16, <2>1, <2>2 DEF TellsOf, Pending, At
    <2> DEFINE new == Moved(r, "over")
    <2>4. Becomes(p, new) /\ (recorded' => recorded /\ Replayed' = ApplyPatch(Replayed, r.patch).plan)
      BY <1>16, <2>1, <2>2, EndsIs, ReplayedEnd, <1>0
    <2>5. OnRecord(planJson)'
      BY <1>16, <2>3, <2>4 DEF Applied, OnRecord
    <2>6. ~Writer(p)'
      BY <2>4, MovedAs
    <2> HIDE DEF new
    <2>7. QED
      BY <1>16, <2>1, <2>4, <2>5, <2>6, WriterStep
  <1>17. CASE SyncFails(p)
    BY <1>16, <1>17 DEF SyncFails, Landed, ghosts
  <1>18. CASE Record(p)
    BY <1>16, <1>18 DEF Record, Landed, ghosts
  <1>19. CASE Crash(p)
    BY <1>19 DEF Crash, Dirty
  <1>20. QED
    BY <1>1, <1>2, <1>4, <1>5, <1>6, <1>7, <1>8, <1>9, <1>10, <1>12, <1>13, <1>14, <1>15, <1>17, <1>18, <1>19
       DEF RunStep

-----------------------------------------------------------------------------
(* What runs while an amend is written *)

LEMMA IdleStays ==
  ASSUME NEW q \in Runs, run'[q].patch = run[q].patch, moved[q] \subseteq moved'[q], Idle(q),
         \A id : id \in IdsOf(orch') /\ id \notin moved'[q] /\ ResolveStatus(state', id) \in InFlight
                   => id \in IdsOf(orch) /\ ResolveStatus(state, id) \in InFlight
  PROVE  Idle(q)'
  <1> SUFFICES ASSUME NEW op \in TaskOps(run'[q].patch), op.action # "add", op.address \in IdsOf(orch'),
                      op.address \notin moved'[q], ResolveStatus(state', op.address) \in InFlight
               PROVE  FALSE
    BY DEF Idle
  <1>1. op \in TaskOps(run[q].patch)
    OBVIOUS
  <1>2. op.address \in IdsOf(orch) /\ ResolveStatus(state, op.address) \in InFlight /\ op.address \notin moved[q]
    OBVIOUS
  <1>3. QED
    BY <1>1, <1>2 DEF Idle

(* A step that starts nothing and brings no orchestrator.                  *)
LEMMA QuietStep ==
  ASSUME IdleInv, NEW p \in Runs, NEW r, Becomes(p, r), orch' = orch,
         \A id : ResolveStatus(state', id) = ResolveStatus(state, id),
         moved' = [q \in Runs |-> moved'[q]], \A q \in Runs : q # p => moved'[q] = moved[q],
         orch # NoFile /\ Permitted(p)' => Idle(p)'
  PROVE  IdleInv'
  <1>1. ASSUME NEW q \in Runs, Permitted(q)', orch' # NoFile PROVE Idle(q)'
    <2>1. CASE q = p
      BY <1>1, <2>1
    <2>2. CASE q # p
      <3>1. run'[q] = run[q] /\ moved'[q] = moved[q]
        BY <2>2 DEF Becomes
      <3>2. Permitted(q)
        BY <1>1, <3>1 DEF Permitted
      <3>3. Idle(q)
        BY <1>1, <3>2 DEF IdleInv
      <3>4. QED
        BY <3>1, <3>3, IdleStays
    <2>3. QED
      BY <2>1, <2>2
  <1>2. QED
    BY <1>1 DEF IdleInv

LEMMA GoneIsNotPermitted ==
  ASSUME RunsInv, NEW p \in Runs, NEW to, Becomes(p, Moved(run[p], to)), to \notin {"capturing", "writing"}
  PROVE  ~Permitted(p)'
  BY MovedAs DEF Permitted

LEMMA RunStepIdles ==
  ASSUME RunsInv, DiskInv, IdleInv, NEW p \in Runs, RunStep(p)
  PROVE  IdleInv'
  <1> DEFINE r == run[p]
  <1>0. moved = [q \in Runs |-> moved[q]]
    BY DEF IdleInv
  <1>1. CASE Gate(p)
    <2>1. PICK to, job, had :
            /\ to \in {"asking", "over"}
            /\ Becomes(p, Local(to, job, planJson, had, <<>>, NoFile, "none", {}, NoFile))
      BY <1>1, GateIs
    <2> DEFINE new == Local(to, job, planJson, had, <<>>, NoFile, "none", {}, NoFile)
    <2>2. ~Permitted(p)'
      BY <2>1, SeenAs DEF Permitted
    <2>3. orch' = orch /\ state' = state /\ moved' = moved /\ Becomes(p, new)
      BY <1>1, <2>1 DEF Gate, planFiles
    <2> HIDE DEF new
    <2>4. QED
      BY <1>0, <2>2, <2>3, QuietStep
  <1>2. CASE AgentAnswers(p)
    <2>1. PICK to, patch, payload :
            /\ Becomes(p, Local(to, r.job, r.prior, r.existed, patch, payload, r.life, r.seeds, r.pre))
            /\ r.job = "amend" => to = "judging"
      BY <1>2, AnswerIs
    <2> DEFINE new == Local(to, r.job, r.prior, r.existed, patch, payload, r.life, r.seeds, r.pre)
    <2>2. ~Permitted(p)'
      <3>1. run'[p].pc = to /\ run'[p].job = r.job
        <4> HIDE DEF r
        <4>1. QED
          BY <2>1, SeenAs
      <3>2. QED
        BY <2>1, <3>1 DEF Permitted
    <2>3. orch' = orch /\ state' = state /\ moved' = moved /\ Becomes(p, new)
      BY <1>2, <2>1 DEF AgentAnswers, planFiles, amendLog, ghosts
    <2> HIDE DEF new
    <2>4. QED
      BY <1>0, <2>2, <2>3, QuietStep
  <1>3. CASE Judge(p)
    <2> DEFINE applied == ApplyPatch(r.prior, r.patch)
    <2>1. ~At(p, "idle") /\ orch' = orch /\ state' = state /\ moved' = [moved EXCEPT ![p] = {}]
      BY <1>3 DEF Judge, At
    <2>2. PICK new : Becomes(p, new) /\ ~Permitted(p)'
      <3>1. CASE \E result : Ends(p, result)
        <4>1. Becomes(p, Moved(r, "over"))
          BY <2>1, <3>1, EndsIs
        <4>2. QED
          BY <4>1, GoneIsNotPermitted
      <3>2. CASE \E life \in {"active", "draft"} :
                    Becomes(p, Local(IF life = "active" THEN "reconciling" ELSE "capturing",
                                  r.job, r.prior, r.existed, r.patch, applied.plan, life, r.seeds, r.pre))
        <4>1. PICK life \in {"active", "draft"} :
                    Becomes(p, Local(IF life = "active" THEN "reconciling" ELSE "capturing",
                                  r.job, r.prior, r.existed, r.patch, applied.plan, life, r.seeds, r.pre))
          BY <3>2
        <4>2. run'[p].pc = (IF life = "active" THEN "reconciling" ELSE "capturing") /\ run'[p].life = life
          <5> HIDE DEF r, applied
          <5>1. QED
            BY <4>1, SeenAs
        <4>3. QED
          BY <4>1, <4>2 DEF Permitted
      <3>3. QED
        BY <1>3, <3>1, <3>2, JudgeIs
    <2>3. moved' = [q \in Runs |-> moved'[q]] /\ \A q \in Runs : q # p => moved'[q] = moved[q]
      BY <1>0, <2>1
    <2>4. QED
      BY <2>1, <2>2, <2>3, QuietStep
  <1>4. CASE Reconcile(p)
    <2>1. ~At(p, "idle") /\ orch' = orch /\ state' = state /\ moved' = moved
      BY <1>4 DEF Reconcile, At, ghosts
    <2>2. PICK new : Becomes(p, new) /\ (Permitted(p)' => Idle(p)')
      <3>1. CASE \E result : Ends(p, result)
        <4>1. Becomes(p, Moved(run[p], "over"))
          BY <2>1, <3>1, EndsIs
        <4>2. ~Permitted(p)'
          <5>1. "over" \notin {"capturing", "writing"}
            OBVIOUS
          <5> DEFINE to == "over"
          <5>2. Becomes(p, Moved(run[p], to)) /\ to \notin {"capturing", "writing"}
            BY <4>1, <5>1
          <5> HIDE DEF to
          <5>3. QED
            BY <5>2, GoneIsNotPermitted
        <4> DEFINE new == Moved(run[p], "over")
        <4> HIDE DEF new
        <4>3. QED
          BY <4>1, <4>2 DEF new
      <3>2. CASE /\ \A op \in TaskOps(r.patch) : ~OpRefused(op, LiveStatusMap(orch, state))
                 /\ \E seeds : Becomes(p, Local("capturing", r.job, r.prior, r.existed, r.patch, r.payload,
                                                r.life, seeds, r.pre))
        <4>1. PICK seeds : Becomes(p, Local("capturing", r.job, r.prior, r.existed, r.patch, r.payload,
                                            r.life, seeds, r.pre))
          BY <3>2
        <4>2. run'[p].patch = r.patch
          <5> HIDE DEF r
          <5>1. QED
            BY <4>1, SeenAs
        <4>3. \A op \in TaskOps(r.patch) : op.address \in IdsOf(orch) =>
                ResolveStatus(state, op.address) \notin InFlight
          BY <3>2 DEF OpRefused, LiveStatusMap
        <4>4. Idle(p)'
          BY <2>1, <4>2, <4>3 DEF Idle
        <4>5. QED
          BY <4>1, <4>4
      <3>3. QED
        BY <1>4, <3>1, <3>2, ReconcileIs
    <2>3. QED
      BY <1>0, <2>1, <2>2, QuietStep
  <1>5. CASE Capture(p)
    <2> DEFINE pre == IF r.existed THEN TargetOf(p) ELSE NoFile
               new == Local("writing", r.job, r.prior, r.existed, r.patch, r.payload, r.life, r.seeds, pre)
    <2>1. /\ r.pc = "capturing" /\ orch' = orch /\ state' = state /\ moved' = moved
      BY <1>5 DEF Capture, At, planFiles, amendLog, ghosts
    <2>2. Becomes(p, new)
      BY <1>5, CaptureIs
    <2>3. run'[p].job = r.job /\ run'[p].patch = r.patch /\ run'[p].life = r.life
      <3> HIDE DEF r, pre
      <3>1. QED
        BY <2>2, SeenAs
    <2>4. ASSUME orch # NoFile, Permitted(p)' PROVE Idle(p)'
      <3>1. Permitted(p)
        BY <2>1, <2>3, <2>4 DEF Permitted
      <3>2. Idle(p)
        BY <2>4, <3>1 DEF IdleInv
      <3>3. QED
        BY <2>1, <2>3, <3>2 DEF Idle
    <2> HIDE DEF new
    <2>5. QED
      BY <1>0, <2>1, <2>2, <2>4, QuietStep
  <1>6. CASE WriteOutput(p) /\ OnOrch(p)
    <2> DEFINE o == r.payload
    <2>1. /\ At(p, "writing") /\ ~At(p, "idle") /\ Goto(p, "postchecking") /\ state' = state
          /\ orch' = o
          /\ moved' = [q \in Runs |-> moved[q] \cup (IF o = NoFile THEN {} ELSE
                         IdsOf(o) \ (IF orch = NoFile THEN {} ELSE IdsOf(orch)))]
      BY <1>6 DEF WriteOutput, Replaces, At
    <2>2. Becomes(p, Moved(r, "postchecking"))
      BY <2>1, GotoIs
    <2>3. ~Permitted(p)'
      BY <2>2, GoneIsNotPermitted
    <2>4. ASSUME NEW q \in Runs, Permitted(q)', orch' # NoFile PROVE Idle(q)'
      <3>1. q # p /\ run'[q] = run[q]
        BY <2>2, <2>3, <2>4 DEF Becomes
      <3>2. Permitted(q)
        BY <2>4, <3>1 DEF Permitted
      <3> HIDE DEF o
      <3>3. CASE orch = NoFile
        <4>1. IdsOf(orch') \subseteq moved'[q]
          BY <2>1, <2>4, <3>3
        <4>2. QED
          BY <4>1 DEF Idle
      <3>4. CASE orch # NoFile
        <4>1. Idle(q)
          BY <3>2, <3>4 DEF IdleInv
        <4>2. moved[q] \subseteq moved'[q] /\ \A id \in IdsOf(orch') : id \notin moved'[q] => id \in IdsOf(orch)
          BY <2>1, <2>4, <3>4
        <4>3. QED
          BY <2>1, <3>1, <4>1, <4>2, IdleStays
      <3>5. QED
        BY <3>3, <3>4
    <2>5. moved' = [q \in Runs |-> moved'[q]]
      BY <2>1
    <2>6. QED
      BY <2>4, <2>5 DEF IdleInv
  <1>7. ASSUME Goes(p), orch' = orch, moved' = moved,
               \A id : ResolveStatus(state', id) = ResolveStatus(state, id)
        PROVE  IdleInv'
    <2>1. PICK to : GoesTo(p, to) /\ Goto(p, to)
      BY <1>7 DEF Goes
    <2> DEFINE new == Moved(r, to)
    <2>2. Becomes(p, new) /\ Begun(r)
      BY <2>1, GoesIs
    <2>3. ~Permitted(p)'
      <3>1. CASE to = "capturing"
        <4>1. r.job # "amend"
          BY <2>1, <2>2, <3>1 DEF GoesTo, Begun, At
        <4>2. run'[p].job = r.job
          BY <2>2, MovedAs
        <4>3. QED
          BY <4>1, <4>2 DEF Permitted
      <3>2. CASE to # "capturing"
        <4>1. to # "writing"
          BY <2>1 DEF GoesTo
        <4>2. QED
          BY <2>2, <3>2, <4>1, GoneIsNotPermitted
      <3>3. QED
        BY <3>1, <3>2
    <2> HIDE DEF new
    <2>4. QED
      BY <1>0, <1>7, <2>2, <2>3, QuietStep
  <1>8. CASE \/ AgentExhausted(p) \/ AgentBreaks(p) \/ PreCheck(p) \/ OutputFails(p) \/ PostCheck(p)
             \/ (WriteOutput(p) /\ ~OnOrch(p)) \/ Render(p) \/ RenderFails(p) \/ SyncFails(p)
             \/ Record(p) \/ Crash(p)
    <2>1. Goes(p)
      BY <1>8, StepsThatGo
    <2>2. orch = NoFile \/ ~Fatal(orch)
      BY DEF DiskInv
    <2>3. orch' = orch /\ moved' = moved /\ state' = state
      BY <1>8, <2>2 DEF AgentExhausted, AgentBreaks, PreCheck, OutputFails, PostCheck, WriteOutput, Render,
                        RenderFails, SyncFails, Record, Crash, Dirty, planFiles, amendLog, ghosts
    <2>4. QED
      BY <1>7, <2>1, <2>3
  <1>9. CASE SyncToOrchestrator(p)
    <2>1. Goes(p) /\ orch' = orch /\ moved' = moved
      BY <1>9, StepsThatGo DEF SyncToOrchestrator, ghosts
    <2>2. state' = [id \in DOMAIN state \cup r.seeds |-> ResolveStatus(state, id)]
      BY <1>9 DEF SyncToOrchestrator
    <2>3. \A id : ResolveStatus(state', id) = ResolveStatus(state, id)
      BY <2>2 DEF ResolveStatus
    <2>4. QED
      BY <1>7, <2>1, <2>3
  <1>10. QED
    BY <1>1, <1>2, <1>3, <1>4, <1>5, <1>6, <1>8, <1>9 DEF RunStep

LEMMA WorkIdles ==
  ASSUME IdleInv, WorkSteps
  PROVE  IdleInv'
  <1>1. run' = run /\ orch' = orch
    BY WorkStepIs
  <1>2. moved = [q \in Runs |-> moved[q]]
    BY DEF IdleInv
  <1>3. /\ moved' = [q \in Runs |-> moved'[q]]
        /\ \A q \in Runs : moved[q] \subseteq moved'[q]
        /\ \A q \in Runs : \A id : id \notin moved'[q] /\ ResolveStatus(state', id) \in InFlight
             => ResolveStatus(state, id) \in InFlight
    <2>1. CASE StartTask
      <3> DEFINE id == FirstReady(orch, state, Rank)
      <3>1. moved' = [q \in Runs |-> moved[q] \cup {id}] /\ SetStatus(id, "wip")
        BY <2>1 DEF StartTask
      <3> HIDE DEF id
      <3>2. \A i : i # id => ResolveStatus(state', i) = ResolveStatus(state, i)
        BY <3>1 DEF SetStatus, ResolveStatus
      <3>3. QED
        BY <3>1, <3>2
    <2>2. CASE FinishTask
      <3>1. PICK id : ResolveStatus(state, id) = "wip" /\ SetStatus(id, "done") /\ moved' = moved
        BY <2>2 DEF FinishTask, ghosts
      <3>2. \A i : i # id => ResolveStatus(state', i) = ResolveStatus(state, i)
        BY <3>1 DEF SetStatus, ResolveStatus
      <3>3. QED
        BY <1>2, <3>1, <3>2 DEF InFlight
    <2>3. CASE SetAside
      <3>1. PICK id : SetStatus(id, "deferred") /\ moved' = moved
        BY <2>3 DEF SetAside, ghosts
      <3>2. \A i : i # id => ResolveStatus(state', i) = ResolveStatus(state, i)
        BY <3>1 DEF SetStatus, ResolveStatus
      <3>3. ResolveStatus(state', id) = "deferred"
        BY <3>1 DEF SetStatus, ResolveStatus
      <3>4. QED
        BY <1>2, <3>1, <3>2, <3>3 DEF InFlight
    <2>4. CASE AutoClose
      BY <1>2, <2>4 DEF AutoClose, ghosts
    <2>5. QED
      BY <2>1, <2>2, <2>3, <2>4 DEF WorkSteps, Work
  <1>4. ASSUME NEW q \in Runs, Permitted(q)', orch' # NoFile PROVE Idle(q)'
    <2>1. Permitted(q)
      BY <1>1, <1>4 DEF Permitted
    <2>2. Idle(q)
      BY <1>1, <1>4, <2>1 DEF IdleInv
    <2>3. QED
      BY <1>1, <1>3, <2>2, IdleStays
  <1>5. QED
    BY <1>3, <1>4 DEF IdleInv

-----------------------------------------------------------------------------
(* The whole *)

LEMMA TellsUnmoved ==
  ASSUME UNCHANGED <<planJson, page, audit, recorded, run, base, clean>>
  PROVE  TellsInv' <=> TellsInv
  <1>1. Replayed' = Replayed /\ recorded' = recorded
    BY DEF Replayed
  <1>2. ASSUME NEW p \in Runs
        PROVE  /\ Writer(p)' <=> Writer(p)
               /\ Pending(p)' <=> Pending(p)
               /\ At(p, "rendering")' <=> At(p, "rendering")
    BY DEF Writer, Pending, At, Live
  <1>3. ASSUME NEW p \in Runs
        PROVE  TellsOf(p)' <=> TellsOf(p)
    BY <1>1 DEF TellsOf, Pending, At, OnRecord
  <1>4. QED
    BY <1>1, <1>2, <1>3 DEF TellsInv, OnRecord

LEMMA StutterKeeps ==
  ASSUME PlannerIInv, UNCHANGED plannerVars
  PROVE  PlannerIInv'
  <1>1. UNCHANGED <<planJson, page, orch, state, sealed, audit, recorded, run, faults, setAsides, base, clean, moved>>
    BY DEF plannerVars, planFiles, amendLog, bounds, ghosts
  <1>2. PlannerTypeOK'
    BY <1>1 DEF PlannerIInv, PlannerTypeOK
  <1>3. RunsInv'
    BY <1>1 DEF PlannerIInv, RunsInv
  <1>4. DiskInv'
    BY <1>1 DEF PlannerIInv, DiskInv, Live, At
  <1>5. TellsInv'
    BY <1>1, TellsUnmoved DEF PlannerIInv
  <1>6. IdleInv'
    BY <1>1 DEF PlannerIInv, IdleInv, Permitted, Idle
  <1>7. QED
    BY <1>2, <1>3, <1>4, <1>5, <1>6 DEF PlannerIInv

LEMMA PlannerStarts ==
  ASSUME PlannerInit
  PROVE  PlannerIInv
  <1>1. \A p \in Runs : run[p] = NoRun /\ run[p].pc = "idle" /\ run[p].job = "none"
    BY DEF PlannerInit, NoRun
  <1>2. \A p \in Runs : ~Live(p) /\ ~Writer(p) /\ ~Pending(p) /\ ~At(p, "rendering") /\ ~Permitted(p)
    BY <1>1 DEF Live, At, Writer, Pending, Permitted
  <1>3. PlannerTypeOK
    <2>1. sealed \in BOOLEAN /\ clean \in BOOLEAN /\ recorded \in BOOLEAN
      BY DEF PlannerInit
    <2>2. faults \in 0..Faults /\ setAsides \in 0..SetAsides
      BY PlannerAssumption DEF PlannerInit
    <2>3. \A id \in DOMAIN state : state[id] \in {"ready", "wip", "done", "deferred"}
      BY DEF PlannerInit
    <2>4. QED
      BY <1>1, <2>1, <2>2, <2>3 DEF PlannerTypeOK
  <1>4. RunsInv
    BY <1>1 DEF PlannerInit, RunsInv
  <1>5. DiskInv
    <2>1. IsPlanFile(planJson)
      BY PlannerAssumption DEF PlannerInit, IsPlanFile
    <2>2. Listed(audit) /\ base = [plan |-> base.plan, from |-> base.from] /\ base.from \in 0..Len(audit)
      BY DEF PlannerInit, Listed
    <2>3. QED
      BY <1>2, <2>1, <2>2 DEF DiskInv, PlannerInit
  <1>6. TellsInv
    <2>1. Listed(audit) /\ base.plan = planJson /\ base.from = Len(audit) /\ page = planJson
      BY DEF PlannerInit, Listed
    <2>2. Replayed = planJson
      BY <2>1, ReplayOfNone DEF Replayed
    <2>3. QED
      BY <1>2, <2>1, <2>2 DEF TellsInv, OnRecord
  <1>7. IdleInv
    BY <1>2 DEF IdleInv, PlannerInit
  <1>8. QED
    BY <1>3, <1>4, <1>5, <1>6, <1>7 DEF PlannerIInv

LEMMA PlannerStep ==
  ASSUME PlannerIInv, [PlannerNext]_plannerVars
  PROVE  PlannerIInv'
  <1>1. PlannerTypeOK /\ RunsInv /\ DiskInv /\ TellsInv /\ IdleInv
    BY DEF PlannerIInv
  <1>2. CASE PlannerNext
    <2>1. RunsInv' /\ DiskInv'
      BY <1>1, <1>2, DiskKept
    <2>2. PlannerTypeOK'
      BY <1>1, <1>2, <2>1, TypesKept
    <2>3. CASE \E p \in Runs : RunStep(p)
      <3>1. PICK p \in Runs : RunStep(p)
        BY <2>3
      <3>2. TellsInv'
        BY <1>1, <3>1, TellsKept
      <3>3. IdleInv'
        BY <1>1, <3>1, RunStepIdles
      <3>4. QED
        BY <2>1, <2>2, <3>2, <3>3 DEF PlannerIInv
    <2>4. CASE WorkSteps
      <3>1. UNCHANGED <<planJson, page, audit, recorded, run, base, clean>>
        BY <2>4, WorkStepIs
      <3>2. TellsInv'
        BY <1>1, <3>1, TellsUnmoved
      <3>3. IdleInv'
        BY <1>1, <2>4, WorkIdles
      <3>4. QED
        BY <2>1, <2>2, <3>2, <3>3 DEF PlannerIInv
    <2>5. QED
      BY <1>2, <2>3, <2>4 DEF PlannerNext, WorkSteps
  <1>3. CASE UNCHANGED plannerVars
    BY <1>3, StutterKeeps
  <1>4. QED
    BY <1>2, <1>3

(* The inductive invariant of the planner's runs: while nothing has made the  *)
(* files unclean one run at a time writes the plan, what it holds of the plan *)
(* is still what is on the disk, and what it lags behind is known; what may   *)
(* be written onto the orchestrator has passed the fatal checks.              *)
THEOREM PlannerIInvHolds == PlannerSpec => []PlannerIInv
  <1>1. PlannerInit => PlannerIInv
    BY PlannerStarts
  <1>2. PlannerIInv /\ [PlannerNext]_plannerVars => PlannerIInv'
    BY PlannerStep
  <1>3. QED
    BY <1>1, <1>2, PTL DEF PlannerSpec

LEMMA RestIsTold ==
  ASSUME RunsInv, TellsInv
  PROVE  RowsAndPageTellThePlan
  <1> SUFFICES ASSUME AtRest, clean
               PROVE  page = planJson /\ (recorded => planJson = Replayed)
    BY DEF RowsAndPageTellThePlan
  <1>1. \A p \in Runs : ~Writer(p)
    BY DEF AtRest, Writer
  <1>2. \A p \in Runs : ~Pending(p) /\ ~At(p, "rendering")
    BY <1>1, WriterIs
  <1>3. QED
    BY <1>2 DEF TellsInv, OnRecord

(* For any runs, patches and orchestrators: at rest, with no fault that kills *)
(* a run and no two writers at once, the page shows the plan and, unless an   *)
(* amend landed whose row the disk refused, the rows of the amend log make it *)
(* out of the last plan written whole; and the orchestrator on the disk,      *)
(* whatever order two writers of it took and whatever PostCheck restored, is  *)
(* never one without work, with a test no task writes or with tests on an     *)
(* exempt task.                                                               *)
THEOREM PlannerIsSound == PlannerSpec => []PlannerInv
  <1>1. PlannerIInv => PlannerInv
    <2> SUFFICES ASSUME PlannerIInv PROVE PlannerInv
      OBVIOUS
    <2>1. RowsAndPageTellThePlan
      BY RestIsTold DEF PlannerIInv
    <2>2. DagIsExecutable
      <3>1. orch = NoFile \/ (orch \in Emissions /\ ~Fatal(orch))
        BY DEF PlannerIInv, DiskInv
      <3>2. CASE orch = NoFile
        BY <3>2 DEF DagIsExecutable
      <3>3. CASE orch \in Emissions /\ ~Fatal(orch)
        <4>1. Executable(orch)
          BY <3>3, NotFatalIs, PlannerAssumption
        <4>2. QED
          BY <4>1 DEF Executable, DagIsExecutable
      <3>4. QED
        BY <3>1, <3>2, <3>3
    <2>3. QED
      BY <2>1, <2>2 DEF PlannerIInv, PlannerInv
  <1>2. QED
    BY <1>1, PlannerIInvHolds, PTL

LEMMA WritingIsSurgical ==
  ASSUME PlannerIInv, NEW p \in Runs, run[p].job = "amend", At(p, "writing")
  PROVE  Surgical(p)
  <1> DEFINE old == run[p].prior
             new == run[p].payload
             patch == run[p].patch
             applied == ApplyPatch(old, patch)
  <1>1. InHand(run[p])
    BY DEF PlannerIInv, DiskInv, Live, At
  <1>2. IsPlan(old) /\ patch \in Patches /\ Applied(run[p])
    BY <1>1 DEF InHand, At
  <1>3. IsPatch(patch) /\ applied.err = "none" /\ new = applied.plan
    BY <1>2, PlannerAssumption DEF Applied
  <1> HIDE DEF old, new, patch
  <1>4. \A kind \in Kinds : Keeps(old, patch, new, kind)
    BY <1>2, <1>3, PatchKeeps
  <1>5. NothingLost(old, patch, new)
    BY <1>2, <1>3, PatchLosesNothing
  <1>6. ASSUME NEW k \in DOMAIN new.task, NEW dep \in new.task[k].deps,
               Loose(new, new.task[k], dep), new.task[k] \notin Puts(patch, "task"), dep \notin Renamed(patch)
        PROVE  Loose(old, new.task[k], dep) /\ new.task[k] \in Entries(old.task)
    <2>1. ~HasTask(new, dep)
      BY <1>6 DEF Loose, HasTask
    <2>2. new.task[k] \in Entries(old.task) /\ ~HasTask(old, dep)
      BY <1>5, <1>6, <2>1 DEF NothingLost
    <2>3. QED
      BY <1>6, <2>2 DEF Loose, HasTask
  <1>7. Cardinality(Touching(patch)) >= 2 => 2 * Cardinality(Fresh(old, new)) <= CountKeyed(new)
    BY <1>2, <1>3, PatchIsBounded
  <1>8. ASSUME orch # NoFile, run[p].life = "active"
        PROVE  Idle(p)
    BY <1>8 DEF PlannerIInv, IdleInv, Permitted, At
  <1>9. QED
    BY <1>4, <1>6, <1>7, <1>8 DEF Surgical, Idle, old, new, patch

(* For any patch the schema allows: an amend that gets to the file edits      *)
(* nothing but the entries its patch addresses, loses no task that another    *)
(* one waits for, renews at most half of the plan and edits no task that ran  *)
(* when it was judged and has not come back since.                            *)
THEOREM AmendsAreSurgical == PlannerSpec => AmendIsSurgical
  <1>1. PlannerIInv /\ [PlannerNext]_plannerVars =>
          [\A p \in Runs : run[p].job = "amend" /\ At(p, "writing") /\ run'[p].pc = "rendering"
             => Surgical(p)]_plannerVars
    BY WritingIsSurgical
  <1>2. QED
    BY <1>1, PlannerIInvHolds, PTL DEF PlannerSpec, AmendIsSurgical
=============================================================================
