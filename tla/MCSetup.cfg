CONSTANTS
  p1 = p1
  p2 = p2
  c1 = c1
  c2 = c2
  nobody = nobody
  Process = {p1, p2}
  Checkout = {c1, c2}
  Nobody = nobody
  Layouts <- MCLayouts
  MaxFaults = 1
  MaxRuns = 3
  MaxVersion = 2
  MaxEdits = 1
  MayEditTables = FALSE
  MayRestore = FALSE
SPECIFICATION SetupSpec
CHECK_DEADLOCK FALSE
SYMMETRY Symmetry
INVARIANTS
  ReadyStays
  LaunchIsFresh
PROPERTIES
  StoreOnlyImproves
