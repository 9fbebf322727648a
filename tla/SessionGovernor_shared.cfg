SPECIFICATION Spec
CONSTANTS
  r1 = r1
  r2 = r2
  old = old
  p1 = p1
  root1 = root1
  child = child
  Runs <- MCRuns
  Launches = {r1, r2}
  Procs = {p1}
  CostGuard = 1
  Clients = {root1, child}
  OwnerPath <- MCPath
  Configured <- MCLimits
  MaxBatch = 2
  MaxTokens = 3
  Times <- MCOneTime
  MaxWork = 1
  Histories <- MCHistories
INVARIANTS LedgerParses RunningWithinLimit
PROPERTIES OnlyKnownLeaseRemoved ImplementsSlots
