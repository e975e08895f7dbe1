SPECIFICATION Spec
CONSTANTS
  Tasks = {t1}
PROPERTIES StopAlwaysEndsLoop
CHECK_DEADLOCK FALSE
