SPECIFICATION Spec
CONSTANTS
  Slots = {s1, s2}
  s1 = s1
  s2 = s2
  MaxTasks = 3
  PlannedTasks = 2
  RunLimit = 1
  MaxRepairDepth = 0
  TitleDepths = {0}
  MaxReplans = 0
  MaxDelta = 0
  MaxRejections = 0
  MaxPlanned = 1
SYMMETRY SlotSymmetry
INVARIANTS
  ReviewsOnlyCompleteWork
  NoPipelineOutlivesRun
  OvershootBounded
  LoopExitMeansLimit
