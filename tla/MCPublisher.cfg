CONSTANTS
  RetryLimit = 5
  MaxConns = 3
  MaxPushes = 2
SPECIFICATION Spec
INVARIANTS
  TypeOK
  WatcherWatchesItsConnection
  NoConnectionLeaks
  NilChannelNeverUsed
  LostOnlyWithItsConnection
  NothingAfterAFailure
PROPERTIES
  CallsReturn
CHECK_DEADLOCK FALSE
