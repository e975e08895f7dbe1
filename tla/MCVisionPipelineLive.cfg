SPECIFICATION Spec
CONSTANTS
  QueueCapacity = 1
  SnapshotCapacity = 1
  FailureLimit = 1
  ErrorLimit = 1
  EventConfirm = 1
  Synthetic = FALSE
  Commands = {"stop", "restart_camera", "get_preview", "capture"}
  MaxSequence = 2
  MaxDisturbances = 2
INVARIANTS PreviewPairs
PROPERTIES RefinesLiveView PreviewFresh RestartServed ShutdownCompletes
