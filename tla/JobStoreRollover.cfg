SPECIFICATION Safety
CONSTANTS
  Pod = {p1, p2}
  Job = {j1}
  Tables = 1
  MaxBoots = 3
  Losses = TRUE
  Absent = Absent
  Report = Report
SYMMETRY Symmetric
CHECK_DEADLOCK FALSE
INVARIANTS TypeOK RunningHasRunner DoneServable
PROPERTIES SettledIsDurable PollOnlyAdvances
