SPECIFICATION Spec
CONSTANTS
  None = None
  Absent = Absent
  Edited = Edited
  Families <- AllFamilies
  MaxLoads <- Loads
  MaxRelease = 1
  MaxEdits <- Edits
CHECK_DEADLOCK FALSE
INVARIANTS
  RunsAsWritten
  RefusedForCause
  SameEitherWay
  PluginFollows
