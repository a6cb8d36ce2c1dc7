SPECIFICATION Spec
CONSTANTS
  IndexMod = 8
  GenMod = 2
  Items = {a, b}
  PanicOnDrop = {b}
  MaxPushes = 5
  MaxSlots = 6
INVARIANTS TypeOK LiveKeysValid StaleKeysRefused KeysNeverReissued SlotsPartition GenerationBounded
