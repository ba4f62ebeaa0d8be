SPECIFICATION FairSpec
CONSTANTS
  o1 = o1
  s1 = s1
  h1 = h1
  Owners = {o1}
  Recovery = recovery
  Resumer = resumer
  Nobody = nobody
  Streams = {}
  Hooks = {h1}
  PageLimit = 2
  MaxEvents = 2
  MaxCrashes = 1
  MaxFailures = 3
CHECK_DEADLOCK FALSE
INVARIANTS
  EventsTypeOK
  NoEventLost
  NoGapNoRepeat
  DrainSawTheEnd
PROPERTIES
  ReadersClose
