\* Three events in flight, a request that may run out of time.  The session ends.
SPECIFICATION FairSpec
CONSTANTS
  Events = {e1, e2, e3}
  nullptr = nullptr
  K_CONSUMER_WAITING = K_CONSUMER_WAITING
INVARIANTS
  TypeOK
  DeletedOnceByOwner
  DeliversOnlyAwaited
  SentIsListed
  ParkedIsFlaggedOrNotified
PROPERTY
  EveryEventIsDeleted
CHECK_DEADLOCK FALSE
