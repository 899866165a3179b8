SPECIFICATION FairSpec
CONSTANTS
  p1 = p1  p2 = p2  w1 = w1  w2 = w2  r1 = r1  a = a  b = b
  NoCmd = NoCmd
  Procs = {p1}
  Fibers = {w1, w2}
  Home <- HomeWriters
  Readers = {}
  Cmds = {a, b}
  Keyed = {a}
  Guarded = {b}
  NEvents <- Batches
  MaxLen = 3
  MaxCrashes = 1
INVARIANTS NoConflict
PROPERTIES CallsReturn
CHECK_DEADLOCK FALSE
