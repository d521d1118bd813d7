SPECIFICATION Spec
CONSTANTS
  Slots = {s1, s2}
  s1 = s1
  s2 = s2
  MaxTasks = 2
  PlannedTasks = 1
  RunLimit = 1
  MaxRepairDepth = 1
  TitleDepths = {0}
  MaxReplans = 1
  MaxDelta = 1
  MaxRejections = 1
  MaxPlanned = 0
PROPERTIES
  RunTerminates
