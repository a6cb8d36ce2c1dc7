SPECIFICATION Spec
CONSTANTS
  IndexMod = 8
  GenMod = 2
  Items = {a, b}
  PanicOnDrop = {}
  MaxPushes = 4
  MaxSlots = 4
INVARIANTS PushedKeyFound
