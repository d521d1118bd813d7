SPECIFICATION Spec
CONSTANTS
  Slots = {s1}
  s1 = s1
  MaxTasks = 3
  PlannedTasks = 1
  RunLimit = 1
  MaxRepairDepth = 2
  TitleDepths = {1}
  MaxReplans = 1
  MaxDelta = 1
  MaxRejections = 0
  MaxPlanned = 2
INVARIANTS
  DepsRespected
  DoneIsEarned
  RepairsBounded
  RepairsDescend
PROPERTIES
  KeepsContract
  RunTerminates
