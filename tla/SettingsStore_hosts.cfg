SPECIFICATION FairSpec
CONSTANTS
  h1 = h1
  h2 = h2
  patched = patched
  replaced = replaced
  f = f
  g = g
  Hosts = {h1, h2}
  Namespaces = {patched, replaced}
  Fields = {f, g}
  Values = {0, 1}
  Changes <- MCChanges
  Defaults <- MCDefaults
  Absent = Absent
  Invalid = Invalid
  Unread = {replaced}
  Lifting = {patched}
  Free = Free
  MaxCalls = 3
  MaxFaults = 1
PROPERTIES WritesAreAtomic MemoryFollowsFile CallsFinish
CHECK_DEADLOCK FALSE
