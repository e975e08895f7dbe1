SPECIFICATION Spec
CONSTANTS
  Fds = {1, 2}
  MaxClients = 2
  CacheLimit = 1
  SnapshotCapacity = 1
  Ids = {1}
  Commands = {"capture"}
  Slow = {1}
  MaxSockets = 3
  MaxRequests = 2
INVARIANTS TypeOK OwnReplies AcceptedFirst PendingExact EventsMeetOwner
PROPERTIES DrainedCompletely
CHECK_DEADLOCK FALSE
