CONSTANTS
  Matches     <- MCMatches
  OldGroups   <- MCOld
  NewGroups   <- MCNew
  Defs        <- MCDefs
  Codes       <- MCCodes
  Letters     <- MCLetters
  WordCases   <- MCWords
  SampleCases <- MCSamples
  SumCases    <- MCSums
SPECIFICATION CaseSpec
INVARIANTS DiffIsPermutation LevenshteinRight MatchesMeant DropSeen
PROPERTY OrderFree
CHECK_DEADLOCK FALSE
