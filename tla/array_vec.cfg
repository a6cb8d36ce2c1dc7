SPECIFICATION Spec
CONSTANTS
  N = 3
  MaxPushes = 6
  PanicOnDrop = {2, 4}
INVARIANTS TypeOK OwnedOnce
PROPERTIES TakesWhatGetShows
CHECK_DEADLOCK FALSE
