SPECIFICATION Spec
CONSTANTS
  Fds = {1, 2}
  MaxClients = 2
  CacheLimit = 1
  SnapshotCapacity = 1
  Ids = {1}
  Commands = {"query"}
  Slow = {}
  MaxSockets = 2
  MaxRequests = 3
PROPERTY ExecutedOncePerConnection
CHECK_DEADLOCK FALSE
