SPECIFICATION Spec
CONSTANTS
  Fds = {1}
  MaxClients = 1
  CacheLimit = 1
  SnapshotCapacity = 1
  Ids = {0, 1, 2}
  Commands = {"query", "capture", "get_preview", "long"}
  Slow = {1}
  MaxSockets = 1
  MaxRequests = 2
PROPERTIES ExecutedOnce HalfClosedEnds RefinesDialogue
CHECK_DEADLOCK FALSE
