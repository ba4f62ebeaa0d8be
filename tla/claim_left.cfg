SPECIFICATION Spec
CONSTANTS
  api = api
  w1 = w1
  w2 = w2
  d1 = d1
  d2 = d2
  resumer = resumer
  free = free
  tmp = tmp
  tmpApi = tmpApi
  tmpWorker = tmpWorker
  Api = api
  Resumer = resumer
  Free = free
  NumJobs = 1
  NumPos = 1
  TaskOf <- OnePos
  Dispatchers = {d1}
  Pollers = {}
  LockSpaceOf <- SharedTmp
  Corruptible = {}
  Crashable = {}
  MaxCrashes = 0
  MaxResumes = 1
  MaxErrors = 1
CHECK_DEADLOCK FALSE
INVARIANTS
  NoClaimLeftBehind
