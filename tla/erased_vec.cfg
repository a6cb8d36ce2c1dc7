SPECIFICATION Spec
CONSTANTS
  UsizeBits = 5
  ItemSize = 2
  ItemAlign = 2
  Capacities = {0, 1, 8, 16, 17}
  MaxPushes = 4
  Counts = {0, 1, 2, 9, 30}
  PanicOnDrop = {2}
INVARIANTS TypeOK StaysDefined OwnedOnce PtrsStable
PROPERTIES TakesWhatGetShows
CHECK_DEADLOCK FALSE
