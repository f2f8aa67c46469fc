SPECIFICATION Spec
CONSTANTS
  p1 = p1
  p2 = p2
  t1 = t1
  t2 = t2
  NoProc = NoProc
  NoTask = NoTask
  Procs = {p1, p2}
  Tasks = {t1, t2}
  Dag = {t1}
  Requests <- StatusRequests
  HistoryCap = 1
  MaxOps = 4
  MaxCrashes = 1
SYMMETRY ProcSymmetry
INVARIANTS
  LogAgreesWithState
  DivergenceBoundedByCrashes
  HistoryCountsRevisions
PROPERTIES
  RowTellsTheFile
  RollbackNeedsOverride
