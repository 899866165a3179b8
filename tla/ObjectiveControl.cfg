SPECIFICATION FairControlSpec
CONSTANTS
  c1 = c1  c2 = c2  w1 = w1  w2 = w2  boot = boot
  None = None
  Callers = {c1}
  Workers = {w1}
  Boot = boot
  MaxObjectives = 2
  Concurrency = 1
  MaxCalls = 1
PROPERTY SlotsServed
INVARIANTS ControlTypeOK SlotsBounded ControlJobIsSingle
CHECK_DEADLOCK FALSE
