SPECIFICATION FairSpec
CONSTANTS
  w1 = w1  w2 = w2  j1 = j1  j2 = j2
  None = None
  Workers = {w1, w2}
  Jobs = {j1}
  Cmds = {}
  AbortCmds = {}
  MaxAttempts = 2
  Concurrency = 1
  MaxCrashes = 1
  MaxLate = 1
CONSTRAINT FirstIsW1
INVARIANTS TypeOK HandlersExclusive SlotsHeld AppliedOnce CompletedIsApplied
PROPERTIES RecoveredNotRerun ImplementsOnce JobsEnd
CHECK_DEADLOCK FALSE
