SPECIFICATION Spec
CONSTANTS
  UsizeBits = 5
  ItemSize = 2
  ItemAlign = 2
  Capacities = {2}
  MaxPushes = 3
  Counts = {1}
  PanicOnDrop = {2}
PROPERTIES DropDisposesOnce
CHECK_DEADLOCK FALSE
