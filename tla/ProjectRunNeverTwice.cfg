SPECIFICATION Spec
CONSTANTS
  Slots = {s1, s2}
  s1 = s1
  s2 = s2
  MaxTasks = 2
  PlannedTasks = 2
  RunLimit = 2
  MaxRepairDepth = 1
  TitleDepths = {0}
  MaxReplans = 0
  MaxDelta = 1
  MaxRejections = 0
  MaxPlanned = 0
SYMMETRY SlotSymmetry
INVARIANTS
  NeverRunsTwice
