SPECIFICATION ListingSpec
CONSTANTS
  p1 = p1
  p2 = p2
  s1 = s1
  s2 = s2
  None = None
  Projects = {p1, p2}
  ProjectOf <- MCProjectOf
  SessionOf <- MCSessionOf
  PageLimit = 1
  SecondLength = 2
  Runs = {1, 2, 3}
  Sessions = {s1}
  LastTick = 4
  MaxOpen = 1
  MaxShown = 3
  MaxPageCalls = 2
INVARIANTS
  UntouchedRunsAreListed
CHECK_DEADLOCK FALSE
