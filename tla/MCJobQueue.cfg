\* Two workers on two NUMA nodes, two jobs in two priorities, no reaper; bad
\* health stops all work and good health releases the queued jobs, with a target
\* of 8 / 4 (of the eight threads allowed two have been started).  A stopped
\* queue comes to rest.
SPECIFICATION FairSpec
CONSTANTS
  Workers = {w1, w2}
  Reaper = reaper
  HasReaper = FALSE
  Jobs = {j1, j2}
  LateJobs = {}
  NumPriorities = 2
  NumGroups = 2
  SecondNode = {w2}
  lifoSwitchThreshold = 1
  dropCacheTimeout = TRUE
  HugeWorkers = {w1}
  Unlimited = 9
  Limits = {0, 9}
  Targets = {2}
  EagerNotify = {TRUE, FALSE}
  Stoppable = {}
  Spurious = FALSE
  NumaNode <- MCNumaNode
  NoJob = NoJob
  NoThread = NoThread
  NoTarget = NoTarget
  Due = Due
INVARIANTS
  TypeOK
  CountsAgree
  
PROPERTIES
  
  AllThreadsEnd
  WaitEmptyReturns
CHECK_DEADLOCK FALSE
