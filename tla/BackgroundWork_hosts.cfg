SPECIFICATION FairSpec
CONSTANTS
  h1 = h1
  h2 = h2
  t1 = t1
  m1 = m1
  Hosts = {h1, h2}
  Tasks = {t1}
  Monitors = {m1}
  NoHost = NoHost
  NoTask = NoTask
  Workers = {h1}
  MaxActivities = 2
  MaxBatch = 1
  MaxFaults = 1
INVARIANTS NothingUnrecorded
PROPERTIES OthersSpared ToldInOrder OrphansEnd LaunchesSettle OutcomesAreTold
CHECK_DEADLOCK FALSE
