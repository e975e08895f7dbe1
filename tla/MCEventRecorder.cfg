SPECIFICATION Spec
CONSTANTS
  QueueCapacity = 1
  PreTime = 1
  TailTime = 1
  RingLimit = 2
  IdleLimit = 1
  Callers = {inf}
  MaxPackets = 3
  MaxTime = 4
  MaxTriggers = 2
INVARIANTS TypeOK FilePlayable OneSideOfReset PreRecorded StatusMatches
PROPERTIES OpensForNewTrigger RecorderEnds
CHECK_DEADLOCK FALSE
