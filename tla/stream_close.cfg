SPECIFICATION Spec
CONSTANTS
  o1 = o1
  s1 = s1
  h1 = h1
  Owners = {o1}
  Recovery = recovery
  Resumer = resumer
  Nobody = nobody
  Streams = {s1}
  Hooks = {}
  PageLimit = 2
  MaxEvents = 2
  MaxCrashes = 0
  MaxFailures = 0
CHECK_DEADLOCK FALSE
PROPERTIES
  ClosesDrained
