\* Three tabs, two web processes, a grace of one tick and a sign-out.
SPECIFICATION FairSpec
CONSTANTS
  TabCount = 3
  ProcessCount = 2
  SignOut = SignOut
  Login = Login
  Nobody = Nobody
  Grace = 1
  Lifetime = 2
  MaxTime = 2
INVARIANTS TokensTypeOK WindowAnchored ReplaysTolerated SessionKept
PROPERTIES EndedForGood EveryTabAnswered
CHECK_DEADLOCK FALSE
