SPECIFICATION Spec
CONSTANTS
  Task = {t1, t2, t3, t4}
  PoolSize = 2
  MaxRestarts = 1
  IdleCrashes = FALSE
  Failed = Failed
  None = None
CHECK_DEADLOCK FALSE
INVARIANT InGoodHands
PROPERTY ServiceComplete
