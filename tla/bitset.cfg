SPECIFICATION Spec
CONSTANTS
  L = 3
  W = 2
  Operands = {{0, 3, 4}, {1, 2, 3}, {5}}
INVARIANTS TypeOK CountsAgree RelationsAgree
PROPERTIES ImplementsIndexSet
