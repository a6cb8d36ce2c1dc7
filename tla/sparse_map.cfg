SPECIFICATION Spec
CONSTANTS
  UsizeMod = 8
  InitialIndices = 2
  Keys = {0, 1, 2, 5}
  Items = {a, b}
  MaxEntries = 3
  DropPanics = TRUE
INVARIANTS TypeOK DenseConsistent InsertThenGet LiveKeysFound SlicesListStored
