SPECIFICATION FairSpec
CONSTANTS
  p1 = p1  p2 = p2  None = None
  Pages = {p1, p2}
  Home = p1
  MaxChanges = 2
  MaxCalls = 2
PROPERTIES NeverBackwards Settles
CHECK_DEADLOCK FALSE
