SPECIFICATION Spec
CONSTANTS
  p1 = p1  p2 = p2  w1 = w1  w2 = w2  j1 = j1  j2 = j2  stop = stop  steer = steer
  None = None
  Procs = {p1}
  Workers = {w1, w2}
  Home <- HomeOne
  Jobs = {j1}
  Cmds = {}
  AbortCmds = {}
  Targeted = {w2}
  Followers = {p1}
  Enqueuers = {p1}
  SessionMode <- AllowOne
  MaxAttempts = 1
  MaxFaults = 1
INVARIANTS OutcomesAreReal
