SPECIFICATION Spec
CONSTANTS
  h1 = h1
  h2 = h2
  d1 = d1
  d2 = d2
  m1 = m1
  Hosts <- TwoHosts
  DaemonsOf <- OneEach
  MonOf <- Monitors
  NThreads = 2
  Pids = {1, 2, 3}
  None = None
  Free = Free
  Dead = Dead
  Other = Other
  Lookalike = Lookalike
INVARIANTS
  Findable
  MonReportsOwn
PROPERTIES
  KillsOnlyOwn
  StopEnds
