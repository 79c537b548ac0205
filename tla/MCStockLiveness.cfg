CONSTANTS
  r1 = r1
  r2 = r2
  r3 = r3
  p1 = p1
  p2 = p2
  w1 = w1
  A = A
  B = B
  Products = {p1, p2}
  Warehouses = {w1}
  Refs = {A, B}
  Requests = {r1, r2, r3}
  NoRequest = NoRequest
  Operations <- OpposedOrders
  InitialStock <- TwoEach
  ReorderPoint <- NoAlert
  Archivable = {}
SPECIFICATION FairSpec
PROPERTY EveryRequestEnds
CHECK_DEADLOCK FALSE
