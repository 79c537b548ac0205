CONSTANTS
  r1 = r1
  r2 = r2
  r3 = r3
  r4 = r4
  p1 = p1
  w1 = w1
  w2 = w2
  A = A
  B = B
  C = C
  D = D
  Products = {p1}
  Warehouses = {w1, w2}
  Refs = {A, B, C, D}
  Requests = {r1, r2, r3}
  NoRequest = NoRequest
  Operations <- MovementOperations
  InitialStock <- TwoAndNone
  ReorderPoint <- AlertAtOne
  Archivable = {}
SPECIFICATION Spec
INVARIANT LevelMatchesLedger
SYMMETRY RequestSymmetry
CHECK_DEADLOCK FALSE
