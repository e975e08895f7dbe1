SPECIFICATION Spec
CONSTANTS
  Capacity = 3
  Calls = {"pushLatest", "tryPush", "pop", "popLatest", "clear", "close", "drain"}
  MaxPushes = 6
INVARIANTS TypeOK Accounting DeliveryOrder
CHECK_DEADLOCK FALSE
