\* At most four handles of any kind, two nested joins, one timeout or other C++
\* exception.  A request that has joined everything may stop.
SPECIFICATION FairSpec
CONSTANTS
  fun1 = fun1
  fun2 = fun2
  all1 = all1
  cond1 = cond1
  resch1 = resch1
  event1 = event1
  None = None
  AsyncFunctions = {fun1, fun2}
  Jitted = {fun2}
  AwaitAlls = {all1}
  Conditions = {cond1}
  Reschedules = {resch1}
  Sleeps = {}
  Events = {event1}
  MaxContextDepth = 2
  MaxHandles = 4
  MaxChildren = 2
  MaxInterrupts = 1
INVARIANTS
  TypeOK
  WakeUpsExact
  NoCycles
  ContextsNest
  NeverStuck
  QueuedWhereItIs
  RunsInItsContext
PROPERTY JoinReturns
CHECK_DEADLOCK FALSE
