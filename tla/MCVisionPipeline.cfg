SPECIFICATION Spec
CONSTANTS
  QueueCapacity = 2
  SnapshotCapacity = 1
  FailureLimit = 2
  ErrorLimit = 2
  EventConfirm = 2
  Synthetic = FALSE
  Commands = {"start", "stop", "restart_camera"}
  MaxSequence = 3
  MaxDisturbances = 3
INVARIANTS TypeOK NoStaleDetections
PROPERTIES PublishOrder TriggerConfirmed PauseKeepsStart
