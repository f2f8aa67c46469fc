SPECIFICATION RecordSpec
CONSTANTS
  Drivers = {d1, d2}
  LastPhase = 2
  Cap = 1
  Estimate = 1
  MaxClock = 1
  MaxFaults = 1
  MaxKills = 1
  MaxPauses = 1
  None = None
INVARIANT RecordInv
PROPERTY RecordsStay
CHECK_DEADLOCK FALSE

SYMMETRY Symmetry
