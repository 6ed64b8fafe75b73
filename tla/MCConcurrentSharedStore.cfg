SPECIFICATION FairSpec
CONSTANTS
  t1 = t1
  t2 = t2
  t3 = t3
  Threads = {t1, t2, t3}
  Operations <- Roles
  Keys = {k1}
  Addrs = {a1, a2}
  Strings = {s1}
  Ints = {i1}
  Ttls <- Bumped
  MaxBumpTTL = 2
  ExpireOnSets = FALSE
  PurgeInterval = 1
  StartTime = 2
  MaxTime = 3
  MaxQueued = 2
  None = None
INVARIANTS
  TypeOK
  HotMatchesStore
  DeferredHasOwner
  KeysAccounted
PROPERTY
  OperationsReturn
CHECK_DEADLOCK FALSE
