SPECIFICATION Spec
CONSTANTS
  Phases = {1, 2}
  Cells <- TwoAndOne
  MaxIssues = 2
  MaxFaults = 2
INVARIANTS
  TypeOK
  RemovedWeightsNotNeeded
  ModelStaysWhileEvaluated
  OneTargetAtATime
  ClassifiedGainsNothing
  ReceiptIsFrozen
  NoSmokeBesideLaunch
