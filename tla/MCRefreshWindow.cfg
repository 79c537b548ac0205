\* Five tabs on three processes, along the schedules of the MC module.
SPECIFICATION Spec
CONSTANTS
  TabCount = 5
  ProcessCount = 3
  SignOut = SignOut
  Login = Login
  Nobody = Nobody
  Grace = 1
  Lifetime = 2
  MaxTime = 2
CONSTRAINT Schedule
INVARIANT WindowNeverMoves
CHECK_DEADLOCK FALSE
