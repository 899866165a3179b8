SPECIFICATION FairDeliverySpec
CONSTANTS
  f1 = f1  f2 = f2
  Fibres = {f1}
  MaxTasks = 4
  MaxParallel = 2
  MaxTaskRuns = 5
  MaxPasses = 2
  PlannerPasses = 64
  MaxCalls = 3

INVARIANTS DeliveryTypeOK NothingForgotten
PROPERTIES Rests
CHECK_DEADLOCK FALSE
