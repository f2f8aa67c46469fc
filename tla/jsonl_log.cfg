SPECIFICATION FairSpec
CONSTANTS
  w1 = w1
  w2 = w2
  r1 = r1
  r2 = r2
  r3 = r3
  r4 = r4
  NoOne = NoOne
  NoRow = NoRow
  Writers = {w1, w2}
  Rows = {r1, r2, r3, r4}
  Compound = {r1, r2}
  Invalid = {r4}
  MaxCrashes = 3
INVARIANT LogInv
PROPERTIES
  AppendOnly
  EveryAppendReturns
