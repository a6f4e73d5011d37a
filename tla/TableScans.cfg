CONSTANTS
  Inputs      <- MCInputs
  Rules       <- MCRules
  ChunkSize   = 2
  KeyBatch    = 2
  ExtraRowCap = 2
  MaxErrors   = 2
SPECIFICATION Spec
INVARIANTS PassIsHonest ComparedOnce SkippedExplained ExtrasFound
CHECK_DEADLOCK FALSE
