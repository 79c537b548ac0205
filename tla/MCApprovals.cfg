CONSTANTS
  entry = entry  run = run  r1 = r1  r2 = r2  r3 = r3
  Documents = {entry, run}
  FirstStatuses <- MCFirstStatuses
  PayrollRuns = {run}
  Requests = {r1, r2}
  LastInstance = 2
  Submissions <- MCSubmissions
  StepCount = 2
  AutoSteps <- MCAutoSteps
  EngineFlag = {TRUE, FALSE}
  Choices = {"approved", "rejected", "request_changes"}
  Nobody = Nobody
  Direct = Direct
SPECIFICATION FairSpec
INVARIANTS ApprovalTypeOK ApprovedIsDone NobodySkipped TrailTellsDecision
PROPERTIES DecisionsStand RequestsEnd
CHECK_DEADLOCK FALSE
