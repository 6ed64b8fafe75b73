\* The reaper waits on the same list as the worker.
SPECIFICATION Spec
CONSTANTS
  Workers = {w1}
  Reaper = reaper
  HasReaper = TRUE
  Jobs = {j1}
  LateJobs = {}
  NumPriorities = 1
  NumGroups = 1
  SecondNode = {}
  lifoSwitchThreshold = 1
  dropCacheTimeout = TRUE
  HugeWorkers = {}
  Unlimited = 9
  Limits = {}
  Targets = {}
  EagerNotify = {TRUE}
  Stoppable = {}
  Spurious = FALSE
  NumaNode <- MCNumaNode
  NoJob = NoJob
  NoThread = NoThread
  NoTarget = NoTarget
  Due = Due
SYMMETRY Symmetry
INVARIANTS
  EachJobHasATaker
CHECK_DEADLOCK FALSE
