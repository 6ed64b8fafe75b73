\* Two threads, two work items, retranslate-all and workers with timeouts, the
\* stuck-treadmill check on.  Time and the process may stop.
SPECIFICATION FairSpec
CONSTANTS
  Threads = {t1, t2}
  Items = {i1, i2}
  WithRequestInfo = {t1}
  MaxTime = 3
  Timeouts = {2}
  Kinds = {"RetranslateAll", "TranslateWorker"}
  MaxRequestAgeFactor = 1
  RequestTimeoutSeconds = 1
  debug = FALSE
  NoThread = NoThread
  NoItem = NoItem
INVARIANTS
  TypeOK
  FiresOnlyUnreachable
  ItemsConserved
  GCStatusFollowsRequest
PROPERTIES
  DrainsWhenQuiet
  ImplementsDeferredWork
  QueuedItemRuns
CHECK_DEADLOCK FALSE
