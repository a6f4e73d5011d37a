CONSTANTS
  j1 = j1
  j2 = j2
  p = p
  d = d
  t = t
  u = u
  rights = rights
  Jobs        = {j1, j2}
  Paths       = {p}
  Ids         = {d}
  All         = All
  Global      = Global
  None        = None
  Nothing     = Nothing
  Versions    = {1, 2}
  PresetFiles <- MCPresetFiles
  CasesOf     <- MCCasesOf
  Modules     <- MCModules
  Submissions <- MCSubmissions
  Selections  <- MCSelections
  InitialFiles <- MCInitialFiles
  Edited <- MCEdited
  MaxEdits    = 2
SPECIFICATION Spec
PROPERTIES FollowsTheBook OwnOverridesGlobal
CHECK_DEADLOCK FALSE
SYMMETRY JobSymmetry
