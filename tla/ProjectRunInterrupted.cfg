SPECIFICATION ResumingSpec
CONSTANTS
  Slots = {s1}
  s1 = s1
  MaxTasks = 1
  PlannedTasks = 1
  RunLimit = 1
  MaxRepairDepth = 0
  TitleDepths = {0}
  MaxReplans = 0
  MaxDelta = 1
  MaxRejections = 0
  MaxPlanned = 0
PROPERTIES
  InterruptedTaskResumes
