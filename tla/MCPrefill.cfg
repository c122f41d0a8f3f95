CONSTANTS
  BlockSize = 2
  Word <- MCWord
  Stop <- MCStop
  Cells <- MCCells
  k1 = k1
  k2 = k2
  k3 = k3
  v1 = v1
  v2 = v2
  q1 = q1
  q2 = q2
  s1 = s1
  s2 = s2
  d1 = d1
  Campaigns = {k1, k2, k3}
  Complete = {k1, k2}
  CommitOf <- MCCommitOf
  DocumentsOf <- MCDocumentsOf
  PackStages = {s1, s2}
  RestoreStages = {d1}
  MaxEdits = 1
  MaxFaults = 2
  MaxRestores = 1
  LastCells <- MCLastCells
  IntMax = 63
  CostPolicies <- MCCostPolicies
  PromptLengths = {1, 3, 5}
  DecodingLengths <- MCDecodingLengths
  Budgets = {1, 2, 4}
  Caps = {0, 2}
  MaxCached = 6
SPECIFICATION StudiesSpec
SYMMETRY Symmetry
CHECK_DEADLOCK FALSE
INVARIANTS
  ForecastExact
  RestoresWhatIsPacked
PROPERTIES
  ReplayAccepts
  ChunkIsLargest
