CONSTANTS
  Runs = {r1, r2}
  Cap = 2
  MaxRetries = 2
  MaxEdits = 1
  MaxEvents = 1
SPECIFICATION FairSpec
CHECK_DEADLOCK FALSE
INVARIANTS TypeOK BudgetIsKept GatesInv
PROPERTIES SessionLeavesNoForgery PassIsEarned EveryRunEnds
