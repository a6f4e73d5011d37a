SPECIFICATION Spec
CONSTANTS
  Key = {k1, k2}
  Blank = Blank
  ChunkSize = 2
  MaxRows = 5
  MaxCopies = 3
  CheckFails = FALSE
CHECK_DEADLOCK FALSE
INVARIANTS TypeOK ComparedWhole RowsAccounted PassIsHonest FailIsEarned
PROPERTY Advances
