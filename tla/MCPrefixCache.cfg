CONSTANTS
  b1 = b1
  b2 = b2
  b3 = b3
  b4 = b4
  Block = {b1, b2, b3, b4}
  MaxSlots = 2
  SeedOrder <- MCSeedOrder
  BlockSize = 2
  MaxLength = 5
  Capacity = 2
  MaxClock = 2
  Prompts <- MCPrompts
  Salts <- MCSalts
  Sampled = {1}
SPECIFICATION ClientSpec
SYMMETRY Symmetry
INVARIANTS
  IndexExact
  SharedRowsAreOwn
  OperationNeverStuck
PROPERTIES
  NoRemap
