SPECIFICATION Spec
CONSTANTS
  c1 = c1
  c2 = c2
  Calls = {c1, c2}
  None = None
  MaxUpdates = 1
  Requested <- MCRequested
  Policies <- MCPolicies
INVARIANTS HighRiskRunsApproved
PROPERTIES ConfirmsOnce ReleasedCallEnds
CHECK_DEADLOCK FALSE
