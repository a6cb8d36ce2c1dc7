SPECIFICATION Spec
CONSTANTS
  UsizeMod = 8
  InitialIndices = 2
  Keys = {0, 1, 2}
  Items = {a, b}
  MaxEntries = 3
  DropPanics = FALSE
INVARIANTS InsertStores
