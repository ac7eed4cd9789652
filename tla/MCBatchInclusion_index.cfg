SPECIFICATION FairSpec
CONSTANTS
  a = a
  b = b
  c = c
  f = f
  Bodies <- MCBodies
  Batches <- MCBatches
  Foreign <- MCForeign
  Indices = {0, 1, 2, 4, 5, 6}
  Totals = {0, 1, 2, 3, 5, 15}
  MaxSiblings = 1
  UsizeMod = 16
INVARIANTS
  AcceptedAtIndex
CHECK_DEADLOCK FALSE
