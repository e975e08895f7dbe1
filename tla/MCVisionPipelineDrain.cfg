SPECIFICATION Spec
CONSTANTS
  QueueCapacity = 2
  SnapshotCapacity = 1
  FailureLimit = 2
  ErrorLimit = 2
  EventConfirm = 2
  Synthetic = TRUE
  Commands = {"capture"}
  MaxSequence = 1
  MaxDisturbances = 1
INVARIANTS SnapshotsDrained
