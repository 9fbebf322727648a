SPECIFICATION FairLeaseSpec
CONSTANTS
  r1 = r1
  r2 = r2
  r3 = r3
  NoOwner = NoOwner
  Runners <- MCRunners2
INVARIANTS WorkIsRecorded
PROPERTIES ReleaseIsQuiet TakeoverIsProved AbandonedLeaseIsTaken
CHECK_DEADLOCK FALSE
