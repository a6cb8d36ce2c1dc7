SPECIFICATION Spec
CONSTANTS
  N = 3
  UsizeMod = 6
  MaxPushes = 8
  PanicOnDrop = {2, 4}
INVARIANTS TypeOK HoldsInside SlicesAgree UsedOnce NothingLeaked
PROPERTIES ImplementsFifo
CHECK_DEADLOCK FALSE
