SPECIFICATION PartsSpec
CONSTANTS
  TicksPerMs = 2
  Delays = {0, 3}
  Periods = {0, 3}
  MaxTimers = 2
  MaxLate = 2
  SlowMs = 4
  ServiceTimes = {2, 3, 4}
  SlowLimit = 2
  FastLimit = 3
  MaxOutcomes = 6
  Limit = 7
  MaxFiles = 2
  RingSizes = {1, 2}
  PacketSizes = {1, 2}
  SecondBytes = 2
  MaxEvents = 3
  Buffers = {b1, b2}
  FailureLimit = 2
  MaxRestarts = 1
  Kinds <- MCKinds
  Confidences = {1, 2}
  OverNum = 1
  OverDen = 4
  TopK = 4
  OutLimit = 3
  Side = 6
  Sides = {1, 2, 3, 4, 5, 7, 8, 9, 13}
  Points <- MCPoints
  MaxDetections = 5
  MaxFrames = 3
  MaxMedia = 2
  Frames = {f1, f2, f3, f4}
  InferenceSize = 1
  VideoSize = 1
  JobSize = 1
  InputLimit = 1
CHECK_DEADLOCK FALSE
INVARIANTS ModesKept DetectionsKept
PROPERTIES TimersKept StorageKept CameraKept VideoKept FramesKept
