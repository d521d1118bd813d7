SPECIFICATION Spec
CONSTANTS
  p1 = p1  p2 = p2  p3 = p3
  w1 = w1  w2 = w2  s1 = s1  s2 = s2
  None = None
  Projects <- MCProjects
  Workers <- MCWorkers
  Submitters <- MCSubmitters
  Capacity = 1
INVARIANTS OneRunPerProject MarkHasOneCarrier
PROPERTIES AcceptedProjectRuns WorkersExit ImplementsPhases
