SPECIFICATION Spec
CONSTANTS
  api = api
  w1 = w1
  w2 = w2
  d1 = d1
  d2 = d2
  resumer = resumer
  free = free
  tmp = tmp
  tmpApi = tmpApi
  tmpWorker = tmpWorker
  Api = api
  Resumer = resumer
  Free = free
  NumJobs = 1
  NumPos = 2
  TaskOf <- OneTask
  Dispatchers = {d1}
  Pollers = {w1}
  LockSpaceOf <- OwnTmp
  Corruptible = {1}
  Crashable = {w1}
  MaxCrashes = 1
  MaxResumes = 1
  MaxErrors = 0
CHECK_DEADLOCK FALSE
INVARIANTS
  EvidencePublishedOnce
  OwnerIffRunning
  NoClaimLeftBehind
