SPECIFICATION FairSpec
CONSTANTS
  p1 = p1
  p2 = p2
  t1 = t1
  t2 = t2
  NoProc = NoProc
  NoTask = NoTask
  Procs = {p1, p2}
  Tasks = {t1, t2}
  Dag = {t1}
  Requests <- SharedRequests
  HistoryCap = 1
  MaxOps = 3
  MaxCrashes = 1
INVARIANTS
  StoreInv
PROPERTIES
  WriteTouchesOnlyItsOwn
  CloseReturnsClosed
  ImplementsTaskBoard
  EveryCommandReturns
