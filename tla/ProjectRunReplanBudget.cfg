SPECIFICATION Spec
CONSTANTS
  Slots = {s1}
  s1 = s1
  MaxTasks = 4
  PlannedTasks = 1
  RunLimit = 4
  MaxRepairDepth = 1
  TitleDepths = {0}
  MaxReplans = 1
  MaxDelta = 1
  MaxRejections = 0
  MaxPlanned = 0
INVARIANTS
  ReplansBounded
