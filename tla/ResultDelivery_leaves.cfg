SPECIFICATION FairSpec
CONSTANTS
  h1 = h1
  h2 = h2
  Hosts = {h1}
  Nobody = Nobody
  MaxVersions = 2
  MaxMoves = 1
  MaxTurns = 1
  MaxFaults = 0
  Addressed = {TRUE}
INVARIANTS RemovedIsDelivered
PROPERTIES OnlyReadIsRemoved ResultsLeave
CHECK_DEADLOCK FALSE
