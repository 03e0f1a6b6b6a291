SPECIFICATION Spec
INVARIANTS EachMinedOnce
CONSTANTS
  Tx = {a, b, c}
  BlockHash = {0, 1, 2}
  GenesisHash = 0
  Capacity = 2
  a = a
  b = b
  c = c
SYMMETRY Transfers
CHECK_DEADLOCK FALSE
