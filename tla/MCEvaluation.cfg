CONSTANTS
  c1 = c1
  c2 = c2
  d1 = d1
  r1 = r1
  r2 = r2
  None = None
  Clean = {c1, c2}
  Dirty = {d1}
  References = {r1, r2}
  CandidateTree <- MCCandidateTree
  Anchored <- MCAnchored
  ExhaustiveThrough = 4
  TokenwiseThrough = 257
  LongSuffix <- MCLongSuffix
  RaggedCycle <- MCRaggedCycle
  PolicyChunks <- MCPolicyChunks
  Lengths = {1, 2, 3, 4, 5, 15, 16, 17, 18, 19, 33, 65, 257}
  Stages = {"K_rot", "Y"}
  Outputs = {o1}
  Runs = {e1}
  MaxBuilds = 2
  MaxEvaluations = 2
  MaxChanges = 2
  o1 = o1
  e1 = e1
  Records <- MCRecords
  Noncanonical <- MCNoncanonical
  MaxRecords = 5
  BlockRecords = 3
  NoArchive = NoArchive
  MaxContext = 6
  Layers = 2
  Maximums = {0, 1, 2, 3, 6}
  ChunkRows = {0, 1, 2, 4}
  Stops = {7, 8}
  Word = 1
SPECIFICATION PartsSpec
CHECK_DEADLOCK FALSE
SYMMETRY Symmetry
INVARIANTS
  ReceiptIsTrue
  PassIsWhatRan
  PassCoversRows
  ArchiveIsSource
  ReportIsAudited
