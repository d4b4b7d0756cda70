SPECIFICATION IncidentSpec
CONSTANTS
  r1 = r1
  r2 = r2
  planA = planA
  planB = planB
  Run <- MCRun
  NoRun = NoRun
  Plan <- MCPlan
  N = 2
  None = None
  Torn = Torn
  Operations = 2
INVARIANTS
  OneRunTouchesTheTarget
  OperationsInOrder
  LedgerIsTruthful
  ReportsAreOfOneMoment
  ResolutionFollowsReview
PROPERTIES
  NoFreshStartAfterEffects
SYMMETRY MCSymmetry
CHECK_DEADLOCK FALSE
