\* The queue is stopped while bad health lets nobody take a job.
SPECIFICATION Spec
CONSTANTS
  Workers = {w1, w2}
  Reaper = reaper
  HasReaper = FALSE
  Jobs = {j1}
  LateJobs = {}
  NumPriorities = 2
  NumGroups = 2
  SecondNode = {w2}
  lifoSwitchThreshold = 1
  dropCacheTimeout = FALSE
  HugeWorkers = {w1}
  Unlimited = 9
  Limits = {0}
  Targets = {}
  EagerNotify = {TRUE}
  Stoppable = {}
  Spurious = FALSE
  NumaNode <- MCNumaNode
  NoJob = NoJob
  NoThread = NoThread
  NoTarget = NoTarget
  Due = Due
SYMMETRY Symmetry
INVARIANTS
  StopsAfterAllJobs
CHECK_DEADLOCK FALSE
