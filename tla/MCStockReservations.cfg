CONSTANTS
  r1 = r1
  r2 = r2
  r3 = r3
  p1 = p1
  p2 = p2
  w1 = w1
  A = A
  B = B
  Products = {p1, p2}
  Warehouses = {w1}
  Refs = {A, B}
  Requests = {r1, r2, r3}
  NoRequest = NoRequest
  Operations <- ReservationOperations
  InitialStock <- TwoEach
  ReorderPoint <- NoAlert
  Archivable = {p1}
SPECIFICATION Spec
INVARIANTS TypeOK LevelMatchesLedger NeverOversold
PROPERTY ImplementsCoveredAccounts
SYMMETRY RequestSymmetry
CHECK_DEADLOCK FALSE
