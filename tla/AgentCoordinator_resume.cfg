SPECIFICATION FairSpec
CONSTANTS
  batch = batch
  one = one
  again = again
  other = other
  launch = launch
  single = single
  resumeA = resumeA
  resumeB = resumeB
  runA = runA
  runB = runB
  past = past
  h1 = h1
  h2 = h2
  Runs <- MCRuns
  Procs <- MCProcs
  CostGuard = 1
  Kind <- MCKind
  Launch <- MCLaunch
  Runtime <- MCRuntime
  Size <- MCSize
  Target <- MCTarget
  NoRun = NoRun
  Invocations = {again}
  Foreground = {}
  Hosts = {h1, h2}
  Openings <- MCTwoSlots
  MaxGeneration = 1
  MaxFaults = 1
PROPERTIES EndedIsReleased SettlementsFinish
CHECK_DEADLOCK FALSE
