SPECIFICATION Spec
CONSTANTS
  batch = batch
  one = one
  again = again
  other = other
  launch = launch
  single = single
  resumeA = resumeA
  resumeB = resumeB
  runA = runA
  runB = runB
  past = past
  h1 = h1
  h2 = h2
  Runs <- MCRuns
  Procs <- MCProcs
  CostGuard = 1
  Kind <- MCKind
  Launch <- MCLaunch
  Runtime <- MCRuntime
  Size <- MCSize
  Target <- MCTarget
  NoRun = NoRun
  Invocations = {batch, one, again}
  Foreground = {one}
  Hosts = {h1, h2}
  Openings <- MCEither
  MaxGeneration = 1
  MaxFaults = 1
INVARIANTS WorkIsLeased
PROPERTIES GateAfterBinding ReleaseNeedsProof
CONSTRAINT Scenario
SYMMETRY HostsAlike
CHECK_DEADLOCK FALSE
