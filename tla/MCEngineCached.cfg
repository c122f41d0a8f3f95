CONSTANTS
  b1 = b1
  b2 = b2
  b3 = b3
  r1 = r1
  r2 = r2
  r3 = r3
  s1 = s1
  s2 = s2
  Block = {b1, b2, b3}
  MaxSlots = 3
  SeedOrder <- MCSeedOrder
  BlockSize = 2
  MaxLength = 6
  Capacity = 3
  MaxClock = 2
  Modes <- Reserving
  TokenBudget = 4
  MaxSequences = 2
  MaxRequests = 3
  Watermark = 1
  PrefillCap = 2
  MaxTickets = 3
  Ids = {r1, r2, r3}
  Prompts <- CachedPrompts
  Outputs = {1, 3}
  Salts = {s1, s2}
  Sampled = {1}
  Stop = 2
  MayFail = TRUE
SPECIFICATION EngineSpec
SYMMETRY Tenants
INVARIANTS
  KVCorrect
  StepNeverRaises
PROPERTIES
  WatermarkKept
