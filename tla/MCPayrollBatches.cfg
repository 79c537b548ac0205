CONSTANTS
  tick = tick  other = other
  EmployeeCount = 2
  Unpaid = {1}
  Clerks = {clerk1}
  Workers = {tick, other}
  ManualTick = 1
  NameCount = 3
  FirstNames <- MCFirstNames
  MaxRetries = 2
  ItemsPerTick = 2
  FirstRuns = {"draft", "computed"}
  Nobody = Nobody
SPECIFICATION FairSpec
INVARIANTS BatchTypeOK TallyTells ClosedIsWhole
PROPERTIES ClosedStays BatchEnds
CHECK_DEADLOCK FALSE
