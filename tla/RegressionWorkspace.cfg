SPECIFICATION Spec
CONSTANTS
  Procs = {p1, p2}
  Traces <- MCTraces
  Requests <- MCRequests
  MaxOps = 3
  MaxNow = 1
INVARIANTS PlanIsByImpact ResultIsOneRun FileIsExplained
SYMMETRY Symmetry
CHECK_DEADLOCK FALSE
