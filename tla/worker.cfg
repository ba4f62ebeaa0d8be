SPECIFICATION FairSpec
CONSTANTS
  api = api
  w1 = w1
  w2 = w2
  d1 = d1
  d2 = d2
  resumer = resumer
  free = free
  tmp = tmp
  tmpApi = tmpApi
  tmpWorker = tmpWorker
  Api = api
  Resumer = resumer
  Free = free
  NumJobs = 3
  NumPos = 1
  TaskOf <- OnePos
  Dispatchers = {}
  Pollers = {w1}
  LockSpaceOf <- SharedTmp
  Corruptible = {1}
  Crashable = {w1}
  MaxCrashes = 1
  MaxResumes = 0
  MaxErrors = 0
CHECK_DEADLOCK FALSE
INVARIANTS
  ReusedEvidenceIsGenuine
PROPERTIES
  ImplementsEvaluation
  EveryEvaluationSettles
