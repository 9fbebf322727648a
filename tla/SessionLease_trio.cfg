SPECIFICATION LeaseSpec
CONSTANTS
  r1 = r1
  r2 = r2
  r3 = r3
  NoOwner = NoOwner
  Runners <- MCRunners3
INVARIANTS OneWriter
SYMMETRY RunnersAlike
CHECK_DEADLOCK FALSE
