CONSTANTS
  b1 = b1
  b2 = b2
  b3 = b3
  b4 = b4
  Block = {b1, b2, b3, b4}
  MaxSlots = 3
  SeedOrder <- MCSeedOrder
  BlockSize = 2
  MaxLength = 5
SPECIFICATION Spec
SYMMETRY Symmetry
INVARIANTS
  TypeOK
  Consistent
  PoolAgrees
PROPERTIES
  PrivateWrites
  RegisteredImmutable
  KeepsOwnership
