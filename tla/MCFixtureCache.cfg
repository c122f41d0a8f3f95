CONSTANTS
  w1 = w1
  w2 = w2
  Worktree = {w1, w2}
  Attended = {w1}
  MaxVersion = 2
  MayRevert = FALSE
  PruneAlone = TRUE
  MaxFaults = 1
  MaxPrunes = 1
SPECIFICATION FixtureSpec
INVARIANTS
  EntryIsForItsKey
  OwnFilesKept
PROPERTIES
  PassDescribesCheckout
  ValidEntryKept
