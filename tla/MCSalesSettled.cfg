CONSTANTS
  o1 = o1
  o2 = o2
  p1 = p1
  c1 = c1
  c2 = c2
  r1 = r1
  r2 = r2
  r3 = r3
  Orders = {o1, o2}
  Products = {p1}
  Customers = {c1, c2}
  Requests = {r1, r2, r3}
  NoRequest = NoRequest
  Nothing = Nothing
  Warehouses = {1, 2}
  Quantities <- OneOrTwo
  Jobs <- SettledJobs
  Price <- UnitPrice
  CreditLimit <- LimitOneAndTwo
  InitialStock <- TwoUnits
  InitialStatuses <- SettledStart
  Managed = {}
  OpenAtStart = {2}
  HasCogsAccount = FALSE
SPECIFICATION FairSpec
INVARIANTS ReservedAsConfirmed ConfirmedWithinCredit
PROPERTY EveryOrderRequestEnds
CHECK_DEADLOCK FALSE
