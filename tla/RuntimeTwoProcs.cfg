SPECIFICATION Spec
CONSTANTS
  p1 = p1  p2 = p2  w1 = w1  w2 = w2  r1 = r1  a = a  b = b
  NoCmd = NoCmd
  Procs = {p1, p2}
  Fibers = {w1, w2, r1}
  Home <- HomeTwo
  Readers = {r1}
  Cmds = {a, b}
  Keyed = {a}
  Guarded = {b}
  NEvents <- Batches
  MaxLen = 2
  MaxCrashes = 1
INVARIANTS TypeOK ChainVerifies CachesArePrefixes OkMeansWholeBatch
PROPERTIES ImplementsLog
