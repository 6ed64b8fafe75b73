\* Two threads that translate two functions, with up to two nested holders
\* each, for every value of Jit.Concurrently.  A process never stops.
SPECIFICATION FairSpec
CONSTANTS
  Threads = {t1, t2}
  Funcs = {f1, f2}
  Concurrencies = {0, 1, 2, 3}
  RequireWriteLease = TRUE
  JitThreads = 1
  MaxDepth = 2
  NoThread = NoThread
  NoFunc = NoFunc
INVARIANTS
  TypeOK
  ExclusivePermission
  AmOwnerExact
  LocksAccounted
  ThreadsBounded
PROPERTY NobodyWaits
