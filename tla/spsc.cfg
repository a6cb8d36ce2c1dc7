SPECIFICATION Spec
CONSTANTS
  N = 2
  UsizeMod = 4
  MaxSends = 8
  PanicOnDrop = {3, 6}
  ZeroSized = FALSE
INVARIANTS TypeOK NoDataRace WriteHasSpace FifoOrder LenSound DroppedOnce AllDropped
PROPERTIES CheckThenAct ImplementsFifo TryReturns AllDelivered
CHECK_DEADLOCK FALSE
