\* A worker is stopped by setMaxThreadCount.
SPECIFICATION Spec
CONSTANTS
  Workers = {w1, w2}
  Reaper = reaper
  HasReaper = FALSE
  Jobs = {j1}
  LateJobs = {}
  NumPriorities = 1
  NumGroups = 2
  SecondNode = {w2}
  lifoSwitchThreshold = 1
  dropCacheTimeout = FALSE
  HugeWorkers = {w1}
  Unlimited = 9
  Limits = {}
  Targets = {}
  EagerNotify = {TRUE}
  Stoppable = {w2}
  Spurious = FALSE
  NumaNode <- MCNumaNode
  NoJob = NoJob
  NoThread = NoThread
  NoTarget = NoTarget
  Due = Due
SYMMETRY Symmetry
INVARIANTS
  StopReachesAll
CHECK_DEADLOCK FALSE
