SPECIFICATION PlanningSpec
CONSTANTS
  Titles <- MCTitles
  Added <- AddedTitles
  NoTitle = ""
  Plans <- AllPlans
  i1 = i1
  i2 = i2
  Ids = {i1, i2}
  Texts = {t1}
  Inside <- MCInside
  Editors = {e1, e2}
  Unparsed = Unparsed
  Callers = {g1, g2}
  Changes = {r1, r2}
  Nobody = Nobody
  Names <- MCNames
  Walks <- AllWalks
INVARIANTS
  ResearchThenReflection
  FinalTasksComeLast
  StoredPlanAcyclic
  AcyclicPlanKept
  WalkFindsEveryPath
  RegistryServesFiles
  ModelInForce
