SPECIFICATION Spec
CONSTANTS
  Tasks = {t1, t2, t3}
INVARIANTS TypeOK NoLostWakeup
PROPERTIES RefinesMailbox LoopServes
CHECK_DEADLOCK FALSE
