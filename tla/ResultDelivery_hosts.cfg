SPECIFICATION Spec
CONSTANTS
  h1 = h1
  h2 = h2
  Hosts = {h1, h2}
  Nobody = Nobody
  MaxVersions = 1
  MaxMoves = 1
  MaxTurns = 0
  MaxFaults = 1
  Addressed = {FALSE}
INVARIANTS RecordIsTrue ToldOnce
PROPERTIES NotIntoOtherSession
SYMMETRY Symmetric
CHECK_DEADLOCK FALSE
