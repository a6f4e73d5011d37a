CONSTANTS
  Inputs      <- TiedInputs
  Rules       <- MCRules
  ChunkSize   = 2
  KeyBatch    = 2
  ExtraRowCap = 2
  MaxErrors   = 2
SPECIFICATION Spec
INVARIANT TiesReported
CHECK_DEADLOCK FALSE
