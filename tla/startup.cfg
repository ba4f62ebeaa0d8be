SPECIFICATION Spec
CONSTANTS
  Actors <- ActorsMC
  Requests = {"r1", "r2"}
  Files <- FilesMC
  Evidence = TRUE
  MaxFaults = 2
  Interval = 1
INVARIANTS
  StartupTypeOK
  ReadyHasControlPlane
PROPERTIES
  NothingLost
  RetriesSpaced
  FailuresHeal
