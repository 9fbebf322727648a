SPECIFICATION Spec
CONSTANTS
  write = write
  fetch = fetch
  read = read
  step = step
  NoCall = NoCall
  Tools = {write, read, step}
  Approval = {write}
  Reexecute = {read}
  Steps = {step}
  MaxCalls = 2
  MaxPasses = 3
  MaxFaults = 2
  Overlap = FALSE
INVARIANTS EffectOnce ApprovedFirst RepeatNeedsFault
PROPERTIES LatestAttemptWins UnrecordedBlocks RejectionIsFinal
CHECK_DEADLOCK FALSE
