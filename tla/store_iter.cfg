SPECIFICATION IterSpec
CONSTANTS
  IndexMod = 8
  GenMod = 8
  Items = {a, b}
  PanicOnDrop = {}
  MaxPushes = 4
  MaxSlots = 4
INVARIANTS FreeIndicesDistinct
