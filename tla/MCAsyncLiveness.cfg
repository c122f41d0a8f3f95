CONSTANTS
  b1 = b1
  b2 = b2
  b3 = b3
  r1 = r1
  r2 = r2
  r3 = r3
  Block = {b1, b2, b3}
  MaxSlots = 3
  SeedOrder <- MCSeedOrder
  BlockSize = 2
  MaxLength = 6
  Capacity = 3
  MaxClock = 2
  Modes <- LiveModes
  TokenBudget = 3
  MaxSequences = 2
  MaxRequests = 2
  Watermark = 1
  PrefillCap = 0
  MaxTickets = 3
  Ids = {r1, r2}
  Prompts <- LongPrompts
  Outputs = {3}
  Salts = {"a"}
  Sampled = {1}
  Stop = 2
  MayFail = FALSE
SPECIFICATION FairAsync
PROPERTIES
  EveryRequestEnds
