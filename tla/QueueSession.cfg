SPECIFICATION Spec
CONSTANTS
  p1 = p1  p2 = p2  w1 = w1  w2 = w2  j1 = j1  j2 = j2  stop = stop  steer = steer
  None = None
  Procs = {p1}
  Workers = {w1}
  Home <- HomeSingle
  Jobs = {j1, j2}
  Cmds = {stop, steer}
  AbortCmds = {stop}
  Targeted = {}
  Followers = {}
  Enqueuers = {p1}
  SessionMode <- CancelAndSteer
  MaxAttempts = 1
  MaxFaults = 1
INVARIANTS SessionIsSingleton
CHECK_DEADLOCK FALSE
