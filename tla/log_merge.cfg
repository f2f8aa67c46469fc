SPECIFICATION MergeSpec
CONSTANTS
  t1 = t1
  mine = mine
  yours = yours
  pending = pending
  wip = wip
  blocked = blocked
  Tasks = {t1}
  Status = {pending, wip, blocked}
  Pending = pending
  Sides = {mine, yours}
  MaxRows = 3
  MaxTime = 2
  MaxSyncs = 2
SYMMETRY SideSymmetry
INVARIANTS MergeInv MergeOrderIsIrrelevant
PROPERTY
  OursKeepsItsRows
CHECK_DEADLOCK FALSE
