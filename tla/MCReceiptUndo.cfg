CONSTANTS
  i1 = i1  i2 = i2  n1 = n1  n2 = n2  one = one  two = two  hand = hand
  r1 = r1  r2 = r2  r3 = r3
  Invoices = {i1, i2}
  Intents = {n1, n2}
  Slips = {one, two, hand}
  Requests = {r1, r2, r3}
  NoRequest = NoRequest
  Nothing = Nothing
  Total <- MCTotal
  Amount <- MCAmount
  SlipOf <- MCSlipOf
  Plans <- UndoPlans
  InitialStatuses <- MCInitialStatuses
SPECIFICATION Spec
INVARIANTS PaidReflectsPayments
