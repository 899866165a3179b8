SPECIFICATION DeliverySpec
CONSTANTS
  f1 = f1  f2 = f2
  Fibres = {f1, f2}
  MaxTasks = 3
  MaxParallel = 1
  MaxTaskRuns = 2
  MaxPasses = 2
  PlannerPasses = 3
  MaxCalls = 1

SYMMETRY FibreSymmetry
INVARIANTS ParallelBounded RunsMatchTasks PromotedIsChecked NothingUnplanned
CHECK_DEADLOCK FALSE
