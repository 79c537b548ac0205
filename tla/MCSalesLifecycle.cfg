CONSTANTS
  o1 = o1
  o2 = o2
  p1 = p1
  c1 = c1
  c2 = c2
  r1 = r1
  r2 = r2
  r3 = r3
  Orders = {o1, o2}
  Products = {p1}
  Customers = {c1, c2}
  Requests = {r1, r2, r3}
  NoRequest = NoRequest
  Nothing = Nothing
  Warehouses = {1, 2}
  Quantities <- OneOrTwo
  Jobs <- EveryJob
  Price <- UnitPrice
  CreditLimit <- LimitOneAndTwo
  InitialStock <- TwoUnits
  InitialStatuses <- EveryStart
  Managed = {1, 2}
  OpenAtStart = {2}
  HasCogsAccount = TRUE
SPECIFICATION Spec
INVARIANTS SalesTypeOK BilledAsShipped RepliesAreTrue
PROPERTIES ClosedStaysClosed ImplementsLifecycle
SYMMETRY RequestSymmetry
CHECK_DEADLOCK FALSE
