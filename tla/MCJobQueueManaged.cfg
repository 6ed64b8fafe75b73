\* Two workers and the reaper; limits on active workers, queued jobs released, a
\* worker stopped by setMaxThreadCount, spurious wake-ups, jobs enqueued
\* after the stop.
SPECIFICATION Spec
CONSTANTS
  Workers = {w1, w2}
  Reaper = reaper
  HasReaper = TRUE
  Jobs = {j1, j2}
  LateJobs = {j1, j2}
  NumPriorities = 1
  NumGroups = 1
  SecondNode = {}
  lifoSwitchThreshold = 1
  dropCacheTimeout = FALSE
  HugeWorkers = {w1}
  Unlimited = 9
  Limits = {0, 9}
  Targets = {2}
  EagerNotify = {TRUE}
  Stoppable = {w2}
  Spurious = TRUE
  NumaNode <- MCNumaNode
  NoJob = NoJob
  NoThread = NoThread
  NoTarget = NoTarget
  Due = Due
SYMMETRY Symmetry
INVARIANTS
  BlockedIsLinked
  AbortsOnlyExpired
CHECK_DEADLOCK FALSE
