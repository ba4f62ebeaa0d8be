SPECIFICATION Spec
CONSTANTS
  Cells = {1, 2}
  NumEvals = 2
  MaxResumes = 1
  NoCell = 0
  Phases <- Launches
  Options = {"official", "no code check"}
  MaxTroubles = 2
INVARIANTS
  CampaignTypeOK
  LedgerWellFormed
  SubmissionNeverLost
  SucceededStaysAccepted
  OutsideResumeNeverCredited
PROPERTIES
  AcceptedIsFinal
  ImplementsCampaign
  ServiceIsEvaluation
CHECK_DEADLOCK FALSE
