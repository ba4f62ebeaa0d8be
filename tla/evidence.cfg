SPECIFICATION Spec
CONSTANTS
  Contents <- ContentsMC
  Hidden = {"h1", "h2"}
  Packs <- PacksMC
  Works <- WorksMC
  MaxFaults = 2
  Evaluated <- EvaluatedMC
  MaxRuns = 1
  MaxVersion = 2
  Repeats = 2
INVARIANTS
  EvidenceTypeOK
  RowsWholeOrNone
  CreditIsEarned
  LossIsDeserved
  HealthyTaskDiscerns
CHECK_DEADLOCK FALSE
