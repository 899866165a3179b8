SPECIFICATION Spec
CONSTANTS
  cli = cli  server = server  trunk = trunk  left = left  right = right
  None = None
  Actors = {cli, server}
  Forkers = {cli}
  Streams = {trunk, left, right}
  Writable = {trunk, left}
  MaxAppends = 3
INVARIANTS ChainsVerify ForkPointExists
PROPERTIES HistoryIsAppendOnly
