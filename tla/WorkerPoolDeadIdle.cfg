SPECIFICATION Safety
CONSTANTS
  Task = {t1, t2, t3, t4}
  PoolSize = 2
  MaxRestarts = 2
  IdleCrashes = TRUE
  Failed = Failed
  None = None
CHECK_DEADLOCK FALSE
INVARIANT DeadStayReplaced
