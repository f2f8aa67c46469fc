SPECIFICATION FairSpec
CONSTANTS
  Drivers = {d1, d2}
  Operators = {o1, o2}
  LastPhase = 2
  MaxCommands = 3
  MaxCrashes = 1
  Nobody = Nobody
INVARIANTS TypeOK LockTellsTheDriver PauseStopsWithinOnePhase
PROPERTIES ImplementsChainLock DriverEndsUnlessPaused
CHECK_DEADLOCK FALSE
