SPECIFICATION Spec
CONSTANTS
  QueueCapacity = 2
  PreTime = 1
  TailTime = 1
  RingLimit = 3
  IdleLimit = 1
  Callers = {inf}
  MaxPackets = 2
  MaxTime = 3
  MaxTriggers = 2
PROPERTIES TailCoversTriggers
CHECK_DEADLOCK FALSE
